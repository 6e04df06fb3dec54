------------------------- MODULE MysqlWriter_proofs -------------------------
(***************************************************************************)
(* Proofs about MysqlWriter for any samples, statements and interleaving   *)
(* of handlers, stops and kills.  The type invariant needs no assumption;  *)
(* that snapshots are whole and that a true answer of WriteToMysql can be  *)
(* relied on needs samples with distinct idempotency keys: with equal keys *)
(* INSERT IGNORE leaves rows out.                                          *)
(*                                                                         *)
(* The argument: the open transaction holds rows of the current task only, *)
(* and with those already stored they are all the rows up to step.         *)
(***************************************************************************)
EXTENDS MysqlWriter, SequenceTheorems, TLAPS

DistinctKeys == \A s, t \in Sample : KeyOf[s] = KeyOf[t] => s = t

RowOf(r) == \E i \in 1 .. Len(Inserts[r.sample]) : r = Row(r.sample, i)

\* What the write thread may rely on in the middle of a task.
StoreInv ==
  /\ \A s, t \in task : s = t
  /\ writer # "insert" => tx = {}
  /\ \A r \in tx : r.sample \in task
  /\ \A r \in db \cup tx : RowOf(r)
  /\ writer = "insert" =>
       \A s \in task : \A i \in 1 .. Len(Inserts[s]) :
         i < step => Row(s, i) \in db \cup tx

\* Without a write thread there is nothing for Start to run into.
ThreadInv == (~running /\ stopper = "idle") => writer = "none"

IInv == TypeOK /\ ThreadInv /\ StoreInv /\ SnapshotWhole /\ WrittenIsStored

-----------------------------------------------------------------------------
\* The rows of a sample.
LEMMA RowType ==
  ASSUME NEW s \in Sample, NEW i \in 1 .. Len(Inserts[s])
  PROVE  Row(s, i) \in Rows /\ Row(s, i).sample = s
<1>1. Inserts[s][i] \in Item
  BY WriterAssumption DEF Item, ToSet
<1>2. KeyOf[s] \in Key
  BY DEF Key
<1> QED
  BY <1>1, <1>2 DEF Row, Rows

\* INSERT IGNORE adds the row or nothing.
LEMMA InsertIgnoreCases ==
  ASSUME NEW r
  PROVE  InsertIgnore(r) = tx \/ InsertIgnore(r) = tx \cup {r}
  BY DEF InsertIgnore

\* The database after a COMMIT whose outcome is not known.
LEMMA CommitCases ==
  ASSUME NEW d \in CommitOutcomes
  PROVE  \/ d = db
         \/ /\ d = db \cup tx
            /\ writer = "insert"
            /\ \A s \in task : step > Len(Inserts[s])
  BY DEF CommitOutcomes

\* Taking a task from the queue.
LEMMA QueueTail ==
  ASSUME queue \in Seq(Sample), queue # <<>>
  PROVE  Tail(queue) \in Seq(Sample) /\ Head(queue) \in Sample
  BY HeadTailProperties

\* Appending a task to the queue.
LEMMA QueueAppend ==
  ASSUME queue \in Seq(Sample), NEW s \in Sample
  PROVE  Append(queue, s) \in Seq(Sample)
  BY AppendProperties

\* The queue holds samples.
LEMMA QueueSet ==
  ASSUME queue \in Seq(Sample)
  PROVE  ToSet(queue) \in SUBSET Sample
<1>1. \A i \in DOMAIN queue : queue[i] \in Sample
  BY ElementOfSeq, LenProperties
<1> QED
  BY <1>1 DEF ToSet

-----------------------------------------------------------------------------
\* Types before the first Start.
LEMMA TypeInit == Init => TypeOK
<1> SUFFICES ASSUME Init PROVE TypeOK
  OBVIOUS
<1>1. running \in BOOLEAN /\ conn \in BOOLEAN
  BY Zenon DEF Init
<1>2. queue \in Seq(Sample)
  BY EmptySeq DEF Init
<1>3. unnotified \in Nat /\ step \in Nat
  BY DEF Init
<1> QED
  BY <1>1, <1>2, <1>3 DEF Init, TypeOK

\* The steps of Start, Stop, the cleanup thread and the handlers.
LEMMA TypeOtherStep ==
  ASSUME TypeOK,
         \/ Start \/ StopBegin \/ Stopping \/ CleanerExit
         \/ \E s \in Sample : Enqueue(s)
         \/ NotifyOne \/ SpuriousWake
  PROVE  TypeOK'
<1> USE DEF TypeOK, hist, dbVars
<1>1. CASE Start
  <2>1. running' \in BOOLEAN
    BY <1>1, Zenon DEF Start
  <2> QED
    BY <1>1, <2>1 DEF Start
<1>2. CASE StopBegin
  <2>1. running' \in BOOLEAN
    BY <1>2, Zenon DEF StopBegin
  <2> QED
    BY <1>2, <2>1 DEF StopBegin
<1>3. CASE Stopping
  BY <1>3 DEF Stopping, StopNotify, StopJoined, Woken
<1>4. CASE CleanerExit
  BY <1>4 DEF CleanerExit
<1>5. ASSUME NEW s \in Sample, Enqueue(s) PROVE TypeOK'
  <2>1. queue' \in Seq(Sample)
    BY <1>5, QueueAppend DEF Enqueue
  <2>2. unnotified' \in Nat /\ enqueued' \in SUBSET Sample
    BY <1>5 DEF Enqueue
  <2> QED
    BY <1>5, <2>1, <2>2 DEF Enqueue
<1>6. CASE NotifyOne
  BY <1>6 DEF NotifyOne, Woken
<1>7. CASE SpuriousWake
  BY <1>7 DEF SpuriousWake
<1> QED
  BY <1>1, <1>2, <1>3, <1>4, <1>5, <1>6, <1>7

\* Types survive the write thread's steps.
LEMMA TypeWriterStep ==
  ASSUME TypeOK, WriterStep
  PROVE  TypeOK'
<1> USE DEF TypeOK, hist, dbVars
<1>1. CASE FindNothing \/ Block
  BY <1>1 DEF FindNothing, Block
<1>2. CASE WriterExit
  <2>1. conn' \in BOOLEAN
    BY <1>2, Zenon DEF WriterExit
  <2> QED
    BY <1>2, <2>1 DEF WriterExit
<1>3. CASE TakeTask
  BY <1>3, QueueTail DEF TakeTask
<1>4. CASE ConnectOk
  <2>1. conn' \in BOOLEAN
    BY <1>4, Zenon DEF ConnectOk
  <2> QED
    BY <1>4, <2>1 DEF ConnectOk
<1>5. CASE ConnectFail
  BY <1>5 DEF ConnectFail, GiveUp
<1>6. CASE Begin
  BY <1>6 DEF Begin
<1>7. CASE Insert
  <2>1. PICK s \in task : step <= Len(Inserts[s]) /\ tx' = InsertIgnore(Row(s, step))
    BY <1>7 DEF Insert
  <2>2. step \in 1 .. Len(Inserts[s])
    BY <1>7, <2>1, WriterAssumption DEF Insert
  <2>3. tx' \in SUBSET Rows
    BY <2>1, <2>2, RowType, InsertIgnoreCases
  <2> QED
    BY <1>7, <2>3 DEF Insert
<1>8. CASE CommitOk
  BY <1>8 DEF CommitOk
<1>9. CASE WriteFail
  <2>1. conn' \in BOOLEAN
    BY <1>9, Zenon DEF WriteFail
  <2>2. db' \in SUBSET Rows
    BY <1>9, CommitCases DEF WriteFail
  <2> QED
    BY <1>9, <2>1, <2>2 DEF WriteFail, GiveUp
<1> QED
  BY <1>1, <1>2, <1>3, <1>4, <1>5, <1>6, <1>7, <1>8, <1>9 DEF WriterStep

\* Types survive the death of the process.
LEMMA TypeKill ==
  ASSUME TypeOK, Kill
  PROVE  TypeOK'
<1> USE DEF TypeOK, Kill
<1>1. running' \in BOOLEAN /\ conn' \in BOOLEAN
  BY Zenon
<1>2. queue' \in Seq(Sample)
  BY EmptySeq
<1>3. lost' \in SUBSET Sample
  BY QueueSet DEF InMemory
<1>4. db' \in SUBSET Rows
  BY CommitCases
<1> QED
  BY <1>1, <1>2, <1>3, <1>4

\* Type correctness: the write thread never looks for a statement that the
\* sample does not have, nor a notification for a handler that is not there.
THEOREM TypeCorrect == Spec => []TypeOK
<1>1. TypeOK /\ [Next]_vars => TypeOK'
  <2> SUFFICES ASSUME TypeOK, [Next]_vars PROVE TypeOK'
    OBVIOUS
  <2>1. CASE UNCHANGED vars
    BY <2>1 DEF vars, TypeOK
  <2>2. CASE WriterStep
    BY <2>2, TypeWriterStep
  <2>3. CASE Kill
    BY <2>3, TypeKill
  <2> QED
    BY <2>1, <2>2, <2>3, TypeOtherStep DEF Next
<1> QED
  BY <1>1, TypeInit, PTL DEF Spec

-----------------------------------------------------------------------------
\* A step that leaves the store and the task alone keeps the invariant.
LEMMA StoreUnchanged ==
  ASSUME StoreInv, SnapshotWhole, WrittenIsStored,
         UNCHANGED <<task, step, tx, db, written>>,
         writer' = "insert" => writer = "insert",
         writer = "insert" => writer' = "insert" \/ tx = {}
  PROVE  (StoreInv /\ SnapshotWhole /\ WrittenIsStored)'
<1>1. SnapshotWhole' /\ WrittenIsStored'
  BY DEF SnapshotWhole, WrittenIsStored, Whole, Row
<1>2. StoreInv'
  BY DEF StoreInv, RowOf, Row
<1> QED
  BY <1>1, <1>2

\* When every statement of the task was executed, the database with the open
\* transaction holds whole snapshots.
LEMMA CommitWhole ==
  ASSUME TypeOK, StoreInv, SnapshotWhole, writer = "insert",
         \A s \in task : step > Len(Inserts[s])
  PROVE  /\ \A s \in task : \A i \in 1 .. Len(Inserts[s]) : Row(s, i) \in db \cup tx
         /\ \A s \in Sample :
              \/ \A i \in 1 .. Len(Inserts[s]) : Row(s, i) \in db \cup tx
              \/ \A r \in db \cup tx : r.sample # s
<1>1. ASSUME NEW s \in task, NEW i \in 1 .. Len(Inserts[s])
      PROVE  Row(s, i) \in db \cup tx
  <2>1. s \in Sample /\ step \in Nat
    BY DEF TypeOK
  <2>2. i < step
    BY <2>1, WriterAssumption
  <2> QED
    BY <2>2 DEF StoreInv
<1>2. ASSUME NEW s \in Sample, s \notin task
      PROVE  \/ \A i \in 1 .. Len(Inserts[s]) : Row(s, i) \in db \cup tx
             \/ \A r \in db \cup tx : r.sample # s
  BY <1>2 DEF StoreInv, SnapshotWhole, Whole
<1> QED
  BY <1>1, <1>2

\* The same for what the database holds after a COMMIT, certain or not.
LEMMA StoreAfterCommit ==
  ASSUME TypeOK, StoreInv, SnapshotWhole, WrittenIsStored,
         db' \in CommitOutcomes \/ (writer = "insert" /\ db' = db \cup tx
                                      /\ \A s \in task : step > Len(Inserts[s])),
         tx' = {}, task' = {}, writer' # "insert",
         written' = written \/ (written' = written \cup task /\ writer = "insert"
                                 /\ db' = db \cup tx
                                 /\ \A s \in task : step > Len(Inserts[s]))
  PROVE  (StoreInv /\ SnapshotWhole /\ WrittenIsStored)'
<1>1. \/ db' = db
      \/ /\ db' = db \cup tx /\ writer = "insert"
         /\ \A s \in task : step > Len(Inserts[s])
  BY CommitCases
<1>2. db \subseteq db'
  BY <1>1
<1>3. SnapshotWhole'
  BY <1>1, CommitWhole DEF SnapshotWhole, Whole, Row
<1>4. WrittenIsStored'
  BY <1>2, CommitWhole DEF WrittenIsStored, Whole, Row
<1>5. \A r \in db' : RowOf(r)
  BY <1>1 DEF StoreInv
<1>6. StoreInv'
  BY <1>5 DEF StoreInv, RowOf, Row
<1> QED
  BY <1>3, <1>4, <1>6

\* One INSERT IGNORE: with distinct keys, what it finds in its way is its own
\* row, written by an earlier delivery of the sample.
LEMMA StoreAfterInsert ==
  ASSUME DistinctKeys, TypeOK, StoreInv, SnapshotWhole, WrittenIsStored, Insert
  PROVE  (StoreInv /\ SnapshotWhole /\ WrittenIsStored)'
<1>1. PICK s \in task : step <= Len(Inserts[s]) /\ tx' = InsertIgnore(Row(s, step))
  BY DEF Insert
<1>2. /\ writer = "insert" /\ writer' = writer /\ step' = step + 1
      /\ task' = task /\ db' = db /\ written' = written
  BY DEF Insert, hist
<1>3. s \in Sample /\ step \in 1 .. Len(Inserts[s]) /\ step \in Nat
  BY <1>1, <1>2, WriterAssumption DEF TypeOK
<1> DEFINE r == Row(s, step)
<1>4. r.item = Inserts[s][step] /\ r.key = KeyOf[s] /\ r.sample = s
  BY DEF Row
<1>5. r \in db \cup tx'
  <2>1. CASE \E q \in db \cup tx : q.item = r.item /\ q.key = r.key
    <3>1. PICK q \in db \cup tx : q.item = r.item /\ q.key = r.key
      BY <2>1
    <3>2. PICK i \in 1 .. Len(Inserts[q.sample]) : q = Row(q.sample, i)
      BY DEF StoreInv, RowOf
    <3>3. q.sample \in Sample
      BY DEF TypeOK, Rows
    <3>4. q.key = KeyOf[q.sample]
      BY <3>2 DEF Row
    <3>5. q.sample = s
      BY <1>3, <1>4, <3>1, <3>3, <3>4 DEF DistinctKeys
    <3>6. q = [item |-> q.item, key |-> q.key, sample |-> q.sample]
      BY <3>2 DEF Row
    <3>7. q = r
      BY <1>4, <3>1, <3>5, <3>6 DEF Row
    <3> QED
      BY <1>1, <3>7, InsertIgnoreCases
  <2>2. CASE ~\E q \in db \cup tx : q.item = r.item /\ q.key = r.key
    BY <1>1, <2>2 DEF InsertIgnore
  <2> QED
    BY <2>1, <2>2
<1>6. tx \subseteq tx' /\ \A q \in tx' : q \in tx \/ q = r
  BY <1>1, InsertIgnoreCases
<1>7. SnapshotWhole' /\ WrittenIsStored'
  BY <1>2 DEF SnapshotWhole, WrittenIsStored, Whole, Row
<1>8. RowOf(r)
  BY <1>3, <1>4 DEF RowOf
<1>9. \A q \in db' \cup tx' : RowOf(q)
  BY <1>2, <1>6, <1>8 DEF StoreInv
<1>10. \A q \in tx' : q.sample \in task'
  BY <1>1, <1>2, <1>4, <1>6 DEF StoreInv
<1>11. ASSUME NEW t \in task', NEW i \in 1 .. Len(Inserts[t]), i < step'
       PROVE  Row(t, i) \in db' \cup tx'
  <2>1. t = s
    BY <1>1, <1>2, <1>11 DEF StoreInv
  <2>2. CASE i = step
    BY <1>2, <1>5, <2>1, <2>2
  <2>3. CASE i < step
    BY <1>2, <1>6, <2>3, <1>11 DEF StoreInv
  <2>4. t \in Sample /\ i \in Nat
    BY <1>3, <2>1, WriterAssumption
  <2> QED
    BY <1>2, <1>3, <1>11, <2>2, <2>3, <2>4
<1>12. StoreInv'
  <2>1. (\A q \in db \cup tx : RowOf(q))'
    BY <1>9 DEF RowOf, Row
  <2>2. (\A t \in task : \A i \in 1 .. Len(Inserts[t]) :
           i < step => Row(t, i) \in db \cup tx)'
    BY <1>11 DEF Row
  <2> QED
    BY <1>2, <1>10, <2>1, <2>2 DEF StoreInv
<1> QED
  BY <1>7, <1>12

\* The transaction, statement by statement.
LEMMA StoreWriterStep ==
  ASSUME DistinctKeys, TypeOK, StoreInv, SnapshotWhole, WrittenIsStored, WriterStep
  PROVE  (StoreInv /\ SnapshotWhole /\ WrittenIsStored)'
<1> USE DEF hist, dbVars
<1>1. CASE FindNothing \/ Block \/ WriterExit \/ ConnectOk
  <2>1. /\ UNCHANGED <<task, step, tx, db, written>>
        /\ writer # "insert" /\ writer' # "insert"
    BY <1>1 DEF FindNothing, Block, WriterExit, ConnectOk
  <2> QED
    BY <2>1, StoreUnchanged
<1>2. CASE TakeTask
  <2>1. /\ UNCHANGED <<tx, db, written>> /\ writer # "insert" /\ writer' # "insert"
        /\ task' = {Head(queue)}
    BY <1>2 DEF TakeTask
  <2>2. tx = {} /\ \A r \in db : RowOf(r)
    BY <2>1 DEF StoreInv
  <2>3. StoreInv'
    BY <2>1, <2>2 DEF StoreInv, RowOf, Row
  <2> QED
    BY <2>1, <2>3 DEF SnapshotWhole, WrittenIsStored, Whole, Row
<1>3. CASE ConnectFail
  <2>1. /\ db' = db /\ tx' = tx /\ task' = {} /\ writer' # "insert"
        /\ written' = written /\ writer # "insert"
    BY <1>3 DEF ConnectFail, GiveUp
  <2>2. tx' = {} /\ db' \in CommitOutcomes
    BY <2>1 DEF StoreInv, CommitOutcomes
  <2> QED
    BY <2>1, <2>2, StoreAfterCommit
<1>4. CASE Begin
  <2>1. tx = {} /\ db' = db /\ tx' = {}
    BY <1>4 DEF Begin, StoreInv
  <2>2. task' = task /\ step' = 1 /\ writer' = "insert" /\ written' = written
    BY <1>4 DEF Begin
  <2>3. \A s \in task : \A i \in 1 .. Len(Inserts[s]) : ~(i < 1)
    BY WriterAssumption DEF TypeOK
  <2>4. StoreInv'
    BY <2>1, <2>2, <2>3 DEF StoreInv, RowOf, Row
  <2> QED
    BY <2>1, <2>2, <2>4 DEF SnapshotWhole, WrittenIsStored, Whole, Row
<1>5. CASE Insert
  BY <1>5, StoreAfterInsert
<1>6. CASE CommitOk
  BY <1>6, StoreAfterCommit DEF CommitOk
<1>7. CASE WriteFail
  BY <1>7, StoreAfterCommit DEF WriteFail, GiveUp
<1> QED
  BY <1>1, <1>2, <1>3, <1>4, <1>5, <1>6, <1>7 DEF WriterStep

\* Start, Stop and the end of the thread.
LEMMA ThreadStep ==
  ASSUME ThreadInv, [Next]_vars
  PROVE  ThreadInv'
<1>1. CASE WriterStep
  BY <1>1 DEF ThreadInv, WriterStep, FindNothing, Block, WriterExit, TakeTask,
     ConnectOk, ConnectFail, Begin, Insert, CommitOk, WriteFail, GiveUp
<1>2. CASE ~WriterStep
  BY <1>2 DEF ThreadInv, Next, Start, StopBegin, Stopping, StopNotify, StopJoined,
     CleanerExit, Enqueue, NotifyOne, SpuriousWake, Kill, Woken, vars
<1> QED
  BY <1>1, <1>2

\* Steps that leave task, transaction and database alone.
LEMMA StoreOtherStep ==
  ASSUME TypeOK, ThreadInv, StoreInv, SnapshotWhole, WrittenIsStored,
         \/ Start \/ StopBegin \/ Stopping \/ CleanerExit
         \/ \E s \in Sample : Enqueue(s)
         \/ NotifyOne \/ SpuriousWake \/ UNCHANGED vars
  PROVE  (StoreInv /\ SnapshotWhole /\ WrittenIsStored)'
<1>1. UNCHANGED <<task, step, tx, db, written>>
  BY DEF Start, StopBegin, Stopping, StopNotify, StopJoined, CleanerExit, Enqueue,
         NotifyOne, SpuriousWake, vars, hist, dbVars
<1>2. writer' = writer \/ (writer # "insert" /\ writer' # "insert")
  BY DEF ThreadInv, Start, StopBegin, Stopping, StopNotify, StopJoined, CleanerExit, Enqueue,
         NotifyOne, SpuriousWake, vars, Woken
<1> QED
  BY <1>1, <1>2, StoreUnchanged

\* Before the first Start.
LEMMA InvInit == Init => IInv
  BY TypeInit DEF Init, IInv, ThreadInv, StoreInv, SnapshotWhole, WrittenIsStored

\* Every step of handlers, stopper, writer and process.
LEMMA InvStep ==
  ASSUME DistinctKeys, IInv, [Next]_vars
  PROVE  IInv'
<1> USE DEF IInv
<1>1. TypeOK'
  BY TypeOtherStep, TypeWriterStep, TypeKill DEF Next, TypeOK, vars
<1>2. CASE WriterStep
  BY <1>1, <1>2, ThreadStep, StoreWriterStep
<1>3. CASE Kill
  <2>1. (StoreInv /\ SnapshotWhole /\ WrittenIsStored)'
    BY <1>3, StoreAfterCommit DEF Kill
  <2> QED
    BY <1>1, <2>1, ThreadStep
<1> QED
  BY <1>1, <1>2, <1>3, ThreadStep, StoreOtherStep DEF Next

\* The inductive invariant, for samples with distinct keys.
THEOREM Invariance == DistinctKeys => (Spec => []IInv)
<1> SUFFICES ASSUME DistinctKeys PROVE Spec => []IInv
  OBVIOUS
<1>1. IInv /\ [Next]_vars => IInv'
  BY InvStep
<1> QED
  BY <1>1, InvInit, PTL DEF Spec

\* No query ever joins half a sample: the one transaction of WriteToMysql, its
\* ROLLBACK on every error and the closed connection keep each sample whole.
THEOREM SnapshotsAreWhole == DistinctKeys => (Spec => []SnapshotWhole)
<1>1. IInv => SnapshotWhole
  BY DEF IInv
<1> QED
  BY <1>1, Invariance, PTL

\* WriteToMysql returns true only when the five tables hold the sample.
THEOREM TrueMeansStored == DistinctKeys => (Spec => []WrittenIsStored)
<1>1. IInv => WrittenIsStored
  BY DEF IInv
<1> QED
  BY <1>1, Invariance, PTL

-----------------------------------------------------------------------------
\* No sample is without a place or a verdict, and a writer that has ended, or
\* has not begun, left nothing behind.
DrainInv ==
  /\ running => stopper = "idle" /\ writer \notin {"exited", "none"}
  /\ writer \in {"test", "sleepy", "waiting", "exited", "none"} => task = {}
  /\ writer \in {"exited", "none"} => queue = <<>>
  /\ \A s \in enqueued : s \in ToSet(queue) \/ s \in task \cup written \cup dropped \cup lost

\* Appending adds one element.
LEMMA AppendedSet ==
  ASSUME queue \in Seq(Sample), NEW s \in Sample
  PROVE  ToSet(queue) \subseteq ToSet(Append(queue, s)) /\ s \in ToSet(Append(queue, s))
<1>1. /\ Len(queue) \in Nat /\ DOMAIN queue = 1 .. Len(queue)
      /\ DOMAIN Append(queue, s) = 1 .. Len(queue) + 1
      /\ Append(queue, s)[Len(queue) + 1] = s
      /\ \A i \in 1 .. Len(queue) : Append(queue, s)[i] = queue[i]
  BY AppendProperties, LenProperties
<1>2. s \in ToSet(Append(queue, s))
  BY <1>1 DEF ToSet
<1>3. ASSUME NEW x \in ToSet(queue) PROVE x \in ToSet(Append(queue, s))
  <2>1. PICK i \in 1 .. Len(queue) : x = queue[i]
    BY <1>1, <1>3 DEF ToSet
  <2>2. i \in DOMAIN Append(queue, s) /\ Append(queue, s)[i] = x
    BY <1>1, <2>1
  <2> QED BY <2>2 DEF ToSet
<1> QED
  BY <1>2, <1>3

\* Taking the first leaves the others.
LEMMA TailSet ==
  ASSUME queue \in Seq(Sample), queue # <<>>, NEW x \in ToSet(queue)
  PROVE  x = Head(queue) \/ x \in ToSet(Tail(queue))
<1>1. /\ Len(queue) \in Nat \ {0} /\ DOMAIN queue = 1 .. Len(queue)
      /\ Len(Tail(queue)) = Len(queue) - 1 /\ Tail(queue) \in Seq(Sample)
      /\ \A i \in 1 .. Len(Tail(queue)) : Tail(queue)[i] = queue[i + 1]
      /\ Head(queue) = queue[1]
  BY HeadTailProperties, LenProperties, EmptySeq
<1>2. PICK i \in 1 .. Len(queue) : x = queue[i]
  BY <1>1 DEF ToSet
<1>3. CASE i = 1
  BY <1>1, <1>2, <1>3
<1>4. CASE i # 1
  <2>1. i - 1 \in DOMAIN Tail(queue) /\ Tail(queue)[i - 1] = x
    BY <1>1, <1>2, <1>4, LenProperties
  <2> QED BY <2>1 DEF ToSet
<1> QED
  BY <1>3, <1>4

\* The writer ends with an empty queue only.
LEMMA DrainStep ==
  ASSUME TypeOK, ThreadInv, DrainInv, [Next]_vars
  PROVE  DrainInv'
<1> USE DEF hist, dbVars
<1>1. CASE Start
  BY <1>1 DEF Start, DrainInv, ThreadInv
<1>2. CASE StopBegin \/ Stopping \/ CleanerExit \/ NotifyOne \/ SpuriousWake
  BY <1>2 DEF StopBegin, Stopping, StopNotify, StopJoined, CleanerExit, NotifyOne,
    SpuriousWake, Woken, DrainInv
<1>3. ASSUME NEW s \in Sample, Enqueue(s) PROVE DrainInv'
  <2>1. queue' = Append(queue, s) /\ enqueued' = enqueued \cup {s} /\ running
    BY <1>3 DEF Enqueue
  <2>2. ToSet(queue) \subseteq ToSet(queue') /\ s \in ToSet(queue')
    BY <2>1, AppendedSet DEF TypeOK
  <2> QED BY <1>3, <2>1, <2>2 DEF Enqueue, DrainInv
<1>4. CASE FindNothing \/ Block \/ WriterExit \/ ConnectOk \/ Begin \/ Insert
  BY <1>4 DEF FindNothing, Block, WriterExit, ConnectOk, Begin, Insert, DrainInv
<1>5. CASE TakeTask
  <2>1. /\ task = {} /\ queue # <<>> /\ queue' = Tail(queue) /\ task' = {Head(queue)}
        /\ UNCHANGED <<enqueued, written, dropped, lost>>
    BY <1>5 DEF TakeTask, DrainInv
  <2>2. \A x \in ToSet(queue) : x \in ToSet(queue') \/ x \in task'
    BY <2>1, TailSet DEF TypeOK
  <2> QED BY <1>5, <2>1, <2>2 DEF TakeTask, DrainInv
<1>6. CASE ConnectFail \/ CommitOk \/ WriteFail
  BY <1>6 DEF ConnectFail, CommitOk, WriteFail, GiveUp, DrainInv
<1>7. CASE Kill
  BY <1>7 DEF Kill, InMemory, DrainInv
<1>8. CASE UNCHANGED vars
  BY <1>8 DEF vars, DrainInv
<1> QED
  BY <1>1, <1>2, <1>3, <1>4, <1>5, <1>6, <1>7, <1>8 DEF Next, WriterStep

\* Before the first Start.
LEMMA DrainInit == Init => ThreadInv /\ DrainInv
  BY DEF Init, ThreadInv, DrainInv

\* An orderly stop drains the queue: through any interleaving of handlers,
\* stops, failures and kills, a writer that has ended left no sample without
\* a verdict.
THEOREM StopDrainsAlways == Spec => []StopDrains
<1>2. DrainInv => StopDrains
  <2> SUFFICES ASSUME DrainInv, writer \in {"exited", "none"}
               PROVE  InMemory = {} /\ enqueued \subseteq written \cup dropped \cup lost
    BY DEF StopDrains
  <2>1. ToSet(queue) = {} /\ task = {}
    BY DEF DrainInv, ToSet
  <2> QED BY <2>1 DEF DrainInv, InMemory
<1> QED
  BY <1>2, DrainInit, TypeCorrect, ThreadStep, DrainStep, PTL DEF Spec
=============================================================================
