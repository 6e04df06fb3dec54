---------------------------- MODULE MysqlWriter ----------------------------
(***************************************************************************)
(* The manager's background threads (manager/src/host_manager.cpp): gRPC   *)
(* handlers queue samples with EnqueueMysqlWrite, the thread of            *)
(* MysqlWriteLoop takes them one by one and stores each in one transaction *)
(* of several INSERT IGNORE statements, Start and Stop create and join     *)
(* that thread and the cleanup thread.                                     *)
(*                                                                         *)
(* MySQL is external: a statement succeeds or fails, a failed COMMIT may   *)
(* have been carried out, a lost connection discards the open transaction. *)
(* A row is identified by its unique key: the table, with the interface,   *)
(* disk or process it is about, and the sample's idempotency key           *)
(* (server_name, sequence).                                                *)
(***************************************************************************)
EXTENDS Naturals, Sequences, SequencesExt

CONSTANTS Sample,       \* the samples handlers may queue
          KeyOf,        \* KeyOf[s]: (server_name, sequence) of sample s
          Inserts,      \* Inserts[s]: what the statements for s insert into
          MaxQueue,     \* bound: the queue grows no longer
          MaxHandlers   \* bound: handlers inside EnqueueMysqlWrite at once

Item == UNION {ToSet(Inserts[s]) : s \in Sample}
Key == {KeyOf[s] : s \in Sample}

ASSUME WriterAssumption ==
  /\ MaxQueue \in Nat /\ MaxHandlers \in Nat
  /\ \A s \in Sample : /\ Len(Inserts[s]) \in Nat
                       /\ DOMAIN Inserts[s] = 1 .. Len(Inserts[s])

VARIABLES
  running,     \* running_
  stopper,     \* where the caller of Stop is
  cleaner,     \* the cleanup thread
  writer,      \* where the write thread is
  queue,       \* mysql_write_queue_
  unnotified,  \* handlers between push_back and notify_one
  task,        \* at most one sample: the task taken from the queue
  step,        \* the statement of WriteToMysql to execute next
  conn,        \* conn, with its prepared statements
  tx,          \* rows of the open transaction
  db,          \* rows stored
  enqueued,    \* history: samples queued
  written,     \* history: samples for which WriteToMysql returned true
  dropped,     \* history: samples given up after a failure
  lost         \* history: samples in memory when the manager was killed

hist == <<enqueued, written, dropped, lost>>
vars == <<running, stopper, cleaner, writer, queue, unnotified, task, step,
          conn, tx, db, enqueued, written, dropped, lost>>
dbVars == <<conn, tx, db>>

Init ==
  /\ running = FALSE /\ stopper = "idle"
  /\ cleaner = "none" /\ writer = "none"
  /\ queue = <<>> /\ unnotified = 0
  /\ task = {} /\ step = 0
  /\ conn = FALSE /\ tx = {} /\ db = {}
  /\ enqueued = {} /\ written = {} /\ dropped = {} /\ lost = {}

-----------------------------------------------------------------------------
\* Start: the compare-exchange lets one caller through; two threads begin.
Start ==
  /\ stopper = "idle" /\ ~running
  /\ running' = TRUE
  /\ cleaner' = "loop" /\ writer' = "test"
  /\ UNCHANGED <<stopper, queue, unnotified, task, step, dbVars, hist>>

\* Stop: running_ is cleared.  main destroys the gRPC server first, so that
\* no handler is inside OnDataReceived.
StopBegin ==
  /\ running /\ stopper = "idle" /\ unnotified = 0
  /\ running' = FALSE
  /\ stopper' = "notify"
  /\ UNCHANGED <<cleaner, writer, queue, unnotified, task, step, dbVars, hist>>

\* A notification reaches the writer only if it waits.
Woken == IF writer = "waiting" THEN "test" ELSE writer

\* Mutant of StopNotify: the writer is not notified.
StopNotifiesNobody ==
  /\ stopper = "notify"
  /\ stopper' = "join"
  /\ UNCHANGED <<running, cleaner, writer, queue, unnotified, task, step,
                 dbVars, hist>>

\* Stop: notify_all, without mysql_queue_mtx_.
StopNotify ==
  /\ stopper = "notify"
  /\ stopper' = "join"
  /\ writer' = Woken
  /\ UNCHANGED <<running, cleaner, queue, unnotified, task, step, dbVars, hist>>

\* Stop: both threads have been joined.
StopJoined ==
  /\ stopper = "join" /\ cleaner = "exited" /\ writer = "exited"
  /\ stopper' = "idle"
  /\ cleaner' = "none" /\ writer' = "none"
  /\ UNCHANGED <<running, queue, unnotified, task, step, dbVars, hist>>

\* ProcessLoop notices the stop after its sleep.
CleanerExit ==
  /\ cleaner = "loop" /\ ~running
  /\ cleaner' = "exited"
  /\ UNCHANGED <<running, stopper, writer, queue, unnotified, task, step,
                 dbVars, hist>>

-----------------------------------------------------------------------------
\* EnqueueMysqlWrite, by a handler: push_back under the mutex, which the
\* writer holds while it is about to block.
Enqueue(s) ==
  /\ running /\ writer # "sleepy"
  /\ Len(queue) < MaxQueue /\ unnotified < MaxHandlers
  /\ queue' = Append(queue, s)
  /\ unnotified' = unnotified + 1
  /\ enqueued' = enqueued \cup {s}
  /\ UNCHANGED <<running, stopper, cleaner, writer, task, step, dbVars,
                 written, dropped, lost>>

\* Mutant of NotifyOne: the handler notifies nobody.
NotifyNobody ==
  /\ unnotified > 0
  /\ unnotified' = unnotified - 1
  /\ UNCHANGED <<running, stopper, cleaner, writer, queue, task, step,
                 dbVars, hist>>

\* EnqueueMysqlWrite: notify_one.
NotifyOne ==
  /\ unnotified > 0
  /\ unnotified' = unnotified - 1
  /\ writer' = Woken
  /\ UNCHANGED <<running, stopper, cleaner, queue, task, step, dbVars, hist>>

-----------------------------------------------------------------------------
\* The wait finds nothing to do: still holding the mutex, it is about to block.
FindNothing ==
  /\ writer = "test" /\ running /\ queue = <<>>
  /\ writer' = "sleepy"
  /\ UNCHANGED <<running, stopper, cleaner, queue, unnotified, task, step,
                 dbVars, hist>>

\* The wait blocks and releases the mutex.
Block ==
  /\ writer = "sleepy"
  /\ writer' = "waiting"
  /\ UNCHANGED <<running, stopper, cleaner, queue, unnotified, task, step,
                 dbVars, hist>>

\* A condition variable may wake up by itself.
SpuriousWake ==
  /\ writer = "waiting"
  /\ writer' = "test"
  /\ UNCHANGED <<running, stopper, cleaner, queue, unnotified, task, step,
                 dbVars, hist>>

\* Mutant of WriterExit: a stop ends the loop at once.
WriterExitAtOnce ==
  /\ writer = "test" /\ ~running
  /\ writer' = "exited"
  /\ conn' = FALSE
  /\ UNCHANGED <<running, stopper, cleaner, queue, unnotified, task, step,
                 tx, db, hist>>

\* Stopped with an empty queue: the loop ends and closes the connection.
WriterExit ==
  /\ writer = "test" /\ ~running /\ queue = <<>>
  /\ writer' = "exited"
  /\ conn' = FALSE
  /\ UNCHANGED <<running, stopper, cleaner, queue, unnotified, task, step,
                 tx, db, hist>>

\* The front of the queue becomes the task, also while stopping.
TakeTask ==
  /\ writer = "test" /\ queue # <<>>
  /\ queue' = Tail(queue)
  /\ task' = {Head(queue)}
  /\ writer' = IF conn THEN "begin" ELSE "connect"
  /\ UNCHANGED <<running, stopper, cleaner, unnotified, step, dbVars, hist>>

\* connect_and_prepare succeeded.
ConnectOk ==
  /\ writer = "connect"
  /\ conn' = TRUE
  /\ writer' = "begin"
  /\ UNCHANGED <<running, stopper, cleaner, queue, unnotified, task, step,
                 tx, db, hist>>

GiveUp ==
  /\ dropped' = dropped \cup task
  /\ task' = {} /\ step' = 0
  /\ writer' = "test"

\* connect_and_prepare failed: `continue' forgets the task.
ConnectFail ==
  /\ writer = "connect"
  /\ GiveUp
  /\ UNCHANGED <<running, stopper, cleaner, queue, unnotified, dbVars,
                 enqueued, written, lost>>

\* START TRANSACTION succeeded; it would commit a transaction left open.
Begin ==
  /\ writer = "begin"
  /\ db' = db \cup tx /\ tx' = {}
  /\ step' = 1
  /\ writer' = "insert"
  /\ UNCHANGED <<running, stopper, cleaner, queue, unnotified, task, conn,
                 hist>>

Row(s, i) == [item |-> Inserts[s][i], key |-> KeyOf[s], sample |-> s]

\* INSERT IGNORE adds a row unless one has the same unique key.
InsertIgnore(r) ==
  IF \E q \in db \cup tx : q.item = r.item /\ q.key = r.key
    THEN tx ELSE tx \cup {r}

\* Mutant of Insert: the last row is left out.
InsertButLast ==
  /\ writer = "insert"
  /\ \E s \in task :
       /\ step <= Len(Inserts[s])
       /\ tx' = IF step < Len(Inserts[s]) THEN InsertIgnore(Row(s, step)) ELSE tx
  /\ step' = step + 1
  /\ UNCHANGED <<running, stopper, cleaner, writer, queue, unnotified, task,
                 conn, db, hist>>

\* One statement of WriteToMysql, in the order of the tables.
Insert ==
  /\ writer = "insert"
  /\ \E s \in task :
       /\ step <= Len(Inserts[s])
       /\ tx' = InsertIgnore(Row(s, step))
  /\ step' = step + 1
  /\ UNCHANGED <<running, stopper, cleaner, writer, queue, unnotified, task,
                 conn, db, hist>>

\* COMMIT succeeded: WriteToMysql returns true.
CommitOk ==
  /\ writer = "insert"
  /\ \A s \in task : step > Len(Inserts[s])
  /\ db' = db \cup tx /\ tx' = {}
  /\ written' = written \cup task
  /\ task' = {} /\ step' = 0
  /\ writer' = "test"
  /\ UNCHANGED <<running, stopper, cleaner, queue, unnotified, conn,
                 enqueued, dropped, lost>>

\* Whether the server carries out the COMMIT under way: only if it was sent.
CommitOutcomes ==
  {db} \cup IF writer = "insert" /\ \A s \in task : step > Len(Inserts[s])
              THEN {db \cup tx} ELSE {}

\* Mutant of WriteFail: a failed statement is not followed by a ROLLBACK and
\* the connection is kept.
WriteFailKeepsConnection ==
  /\ writer \in {"begin", "insert"}
  /\ GiveUp
  /\ UNCHANGED <<running, stopper, cleaner, queue, unnotified, dbVars,
                 enqueued, written, lost>>

\* A statement or the COMMIT failed: WriteToMysql rolls back and returns
\* false, the connection is closed and the task forgotten.
WriteFail ==
  /\ writer \in {"begin", "insert"}
  /\ db' \in CommitOutcomes /\ tx' = {}
  /\ conn' = FALSE
  /\ GiveUp
  /\ UNCHANGED <<running, stopper, cleaner, queue, unnotified,
                 enqueued, written, lost>>

InMemory == ToSet(queue) \cup task

\* The manager is killed; the database discards the open transaction, or
\* carries out a COMMIT it already received.
Kill ==
  /\ running \/ stopper # "idle"
  /\ running' = FALSE /\ stopper' = "idle"
  /\ cleaner' = "none" /\ writer' = "none"
  /\ lost' = lost \cup InMemory
  /\ queue' = <<>> /\ unnotified' = 0
  /\ task' = {} /\ step' = 0
  /\ conn' = FALSE /\ tx' = {}
  /\ db' \in CommitOutcomes
  /\ UNCHANGED <<enqueued, written, dropped>>

-----------------------------------------------------------------------------
WriterStep ==
  \/ FindNothing \/ Block \/ WriterExit \/ TakeTask
  \/ ConnectOk \/ ConnectFail \/ Begin \/ Insert \/ CommitOk \/ WriteFail
Stopping == StopNotify \/ StopJoined

Next ==
  \/ Start \/ StopBegin \/ Stopping \/ CleanerExit
  \/ \E s \in Sample : Enqueue(s)
  \/ NotifyOne \/ WriterStep \/ SpuriousWake \/ Kill

\* Every thread is scheduled and every call of the MySQL client returns.
Fairness ==
  /\ WF_vars(WriterStep) /\ WF_vars(NotifyOne)
  /\ WF_vars(Stopping) /\ WF_vars(CleanerExit)

Spec == Init /\ [][Next]_vars /\ Fairness

-----------------------------------------------------------------------------
Rows == [item : Item, key : Key, sample : Sample]

TypeOK ==
  /\ running \in BOOLEAN
  /\ stopper \in {"idle", "notify", "join"}
  /\ cleaner \in {"none", "loop", "exited"}
  /\ writer \in {"none", "test", "sleepy", "waiting", "connect", "begin",
                 "insert", "exited"}
  /\ queue \in Seq(Sample) /\ unnotified \in Nat
  /\ task \in SUBSET Sample
  /\ step \in Nat /\ (writer = "insert" => step > 0)
  /\ conn \in BOOLEAN
  /\ tx \in SUBSET Rows /\ db \in SUBSET Rows
  /\ enqueued \in SUBSET Sample /\ written \in SUBSET Sample
  /\ dropped \in SUBSET Sample /\ lost \in SUBSET Sample

Whole(s) == \A i \in 1 .. Len(Inserts[s]) : Row(s, i) \in db

\* A sample is stored with all its rows or with none: through failed
\* statements, lost connections, ambiguous COMMITs, kills and replays of a
\* sample already stored, no query ever joins half a sample.
SnapshotWhole ==
  \A s \in Sample : Whole(s) \/ \A r \in db : r.sample # s

\* WriteToMysql returned true: the five tables hold the sample's own rows.
WrittenIsStored == \A s \in written : Whole(s)

\* An orderly stop loses nothing: when the threads have ended, no sample is
\* queued, half written or without a verdict.
StopDrains ==
  writer \in {"exited", "none"} =>
    /\ InMemory = {}
    /\ enqueued \subseteq written \cup dropped \cup lost

\* A queued sample is stored or given up; no task is left in the queue with
\* the writer asleep, whatever stops and notifications cross it.
QueueServed ==
  \A s \in Sample : (s \in InMemory) ~> (s \in written \cup dropped \cup lost)

\* Stop, once called, returns: it drains the queue, and wakes and joins the
\* writer.  It hangs only when it notifies between the writer's last look at
\* running_, which Stop clears without the mutex, and the writer's block.
StopReturnsUnlessMissed ==
  (stopper = "notify" /\ writer # "sleepy") ~> (stopper = "idle")
=============================================================================
