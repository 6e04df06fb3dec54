--------------------------- MODULE Database_proofs ---------------------------
(***************************************************************************)
(* Proofs about the tables and their readers: Retention, then History and  *)
(* ApiServer, which implement it, for any number of samples, tables,       *)
(* clients, pages, request threads and connections.                        *)
(***************************************************************************)
EXTENDS History, ApiServer, SequenceTheorems, FiniteSetTheorems,
        WellFoundedInduction, TLAPS

-----------------------------------------------------------------------------
(* Retention.  What is deleted is older than `oldest', which only grows,   *)
(* and what is committed is not; so the tables the event has left hold     *)
(* nothing that was too old when it began.                                 *)

\* The tables hold stored samples, and `cutoff' is in the past.
RetentionTypeOK ==
  /\ stored \in SUBSET Sample
  /\ db \in [ToSet(Tables) -> SUBSET stored]
  /\ oldest \in Nat /\ cutoff \in Nat /\ cutoff <= oldest
  /\ event \in 0 .. Len(Tables)

\* The tables the event has left are clean; new rows are newer than `oldest'.
TablesLeftAreClean ==
  \A i \in 1 .. Len(Tables) : event = 0 \/ i < event =>
    \A s \in db[Tables[i]] : TimeOf[s] >= cutoff

RetentionInv == RetentionTypeOK /\ HalvesAreExpired /\ TablesLeftAreClean

\* The positions of the event's list name all tables.
LEMMA TableNames ==
  /\ Len(Tables) \in Nat \ {0}
  /\ \A i \in 1 .. Len(Tables) : Tables[i] \in ToSet(Tables)
  /\ \A t \in ToSet(Tables) : \E i \in 1 .. Len(Tables) : Tables[i] = t
BY RetentionAssumption DEF ToSet

\* An empty database.
LEMMA RetentionInvInit == RetentionInit => RetentionInv
BY TableNames DEF RetentionInit, RetentionInv, RetentionTypeOK,
  HalvesAreExpired, TablesLeftAreClean

\* What is committed is newer than what the event looks for.
LEMMA CommittedIsNew ==
  ASSUME RetentionTypeOK, NEW s \in Sample, Commit(s)
  PROVE  TimeOf[s] >= cutoff
<1>1. TimeOf[s] >= oldest /\ TimeOf[s] \in Nat
  BY RetentionAssumption, Zenon DEF Commit
<1>2. cutoff <= oldest /\ cutoff \in Nat /\ oldest \in Nat
  BY DEF RetentionTypeOK
<1> QED BY <1>1, <1>2

\* Commits, deletions and the event's progress.
LEMMA RetentionInvNext == RetentionInv /\ [RetentionNext]_retention => RetentionInv'
<1> SUFFICES ASSUME RetentionInv, [RetentionNext]_retention
             PROVE  RetentionInv'
  OBVIOUS
<1> USE TableNames, RetentionAssumption
    DEF RetentionInv, RetentionTypeOK, HalvesAreExpired, TablesLeftAreClean
<1>1. ASSUME NEW s \in Sample, Commit(s) PROVE RetentionInv'
  <2>1. RetentionTypeOK'
    BY <1>1 DEF Commit
  <2>2. HalvesAreExpired'
    BY <1>1 DEF Commit
  <2>3. TablesLeftAreClean'
    <3> SUFFICES ASSUME NEW i \in 1 .. Len(Tables), event = 0 \/ i < event,
                        NEW r \in db'[Tables[i]]
                 PROVE  TimeOf[r] >= cutoff
      BY <1>1 DEF Commit
    <3> HIDE DEF HalvesAreExpired, TablesLeftAreClean
    <3>1. CASE r = s
      BY <1>1, <3>1, CommittedIsNew, Zenon
    <3>2. CASE r \in db[Tables[i]]
      BY <3>2 DEF TablesLeftAreClean
    <3> QED BY <1>1, <3>1, <3>2 DEF Commit
  <2> QED BY <2>1, <2>2, <2>3
<1>2. CASE Age
  <2>1. oldest' = oldest + 1 /\ UNCHANGED <<db, stored, event, cutoff>>
    BY <1>2 DEF Age
  <2>2. \A s \in stored : TimeOf[s] >= oldest' => TimeOf[s] >= oldest
    BY <2>1
  <2>3. HalvesAreExpired'
    BY <2>1, <2>2
  <2> QED BY <2>1, <2>3
<1>3. CASE EventStarts
  BY <1>3 DEF EventStarts, store
<1>4. CASE DeleteBatch
  <2>1. PICK D \in SUBSET Expired(Tables[event]) :
              db' = [db EXCEPT ![Tables[event]] = @ \ D]
    BY <1>4 DEF DeleteBatch
  <2>2. \A r \in D : TimeOf[r] < oldest
    BY <2>1 DEF Expired
  <2>3. \A t \in ToSet(Tables) : db'[t] \subseteq db[t] /\ db[t] \ db'[t] \subseteq D
    BY <2>1
  <2>4. UNCHANGED <<stored, oldest, event, cutoff>>
    BY <1>4 DEF DeleteBatch
  <2>5. RetentionTypeOK'
    BY <2>1, <2>4
  <2>6. HalvesAreExpired'
    <3> SUFFICES ASSUME NEW s \in stored, TimeOf[s] >= oldest, NEW t \in ToSet(Tables)
                 PROVE  s \in db'[t]
      BY <2>1, <2>4
    <3>1. TimeOf[s] \in Nat /\ oldest \in Nat
      BY RetentionAssumption DEF RetentionTypeOK
    <3>2. ~ (TimeOf[s] < oldest)
      BY <3>1
    <3>3. s \notin D
      BY ONLY <2>2, <3>2
    <3>4. s \in db[t]
      BY DEF HalvesAreExpired, RetentionTypeOK
    <3> QED BY ONLY <2>3, <3>3, <3>4, t \in ToSet(Tables)
  <2>7. TablesLeftAreClean'
    BY <2>3, <2>4
  <2> QED BY <2>5, <2>6, <2>7
<1>5. CASE LeaveLoop
  <2>1. /\ event \in 1 .. Len(Tables) /\ UNCHANGED <<store, cutoff>>
        /\ event' = IF event < Len(Tables) THEN event + 1 ELSE 0
    BY <1>5 DEF LeaveLoop
  <2>2. \A s \in db[Tables[event]] : TimeOf[s] >= cutoff
    <3> SUFFICES ASSUME NEW s \in db[Tables[event]] PROVE TimeOf[s] >= cutoff
      OBVIOUS
    <3>1. Expired(Tables[event]) = {}
      BY <1>5 DEF LeaveLoop
    <3>2. ~ (TimeOf[s] < oldest)
      BY ONLY <3>1, s \in db[Tables[event]] DEF Expired
    <3>3. Tables[event] \in ToSet(Tables) /\ s \in Sample
      BY <2>1, TableNames DEF RetentionTypeOK
    <3>4. TimeOf[s] \in Nat /\ oldest \in Nat /\ cutoff \in Nat /\ cutoff <= oldest
      BY <3>3, RetentionAssumption DEF RetentionTypeOK
    <3> QED BY ONLY <3>2, <3>4
  <2>3. \A i \in 1 .. Len(Tables) : event' = 0 \/ i < event' => i < event \/ i = event
    BY <2>1
  <2>4. TablesLeftAreClean'
    BY <2>1, <2>2, <2>3 DEF store
  <2> QED BY <2>1, <2>4 DEF store
<1>6. CASE EventAborts
  <2> HIDE DEF TablesLeftAreClean
  <2>1. event' = 0 /\ cutoff' = 0 /\ UNCHANGED <<db, stored, oldest>>
    BY <1>6 DEF EventAborts, store
  <2>2. RetentionTypeOK' /\ HalvesAreExpired'
    BY <2>1
  <2>3. TablesLeftAreClean'
    <3> SUFFICES ASSUME NEW i \in 1 .. Len(Tables), NEW r \in db[Tables[i]]
                 PROVE  TimeOf[r] >= 0
      BY <2>1 DEF TablesLeftAreClean
    <3> HIDE DEF HalvesAreExpired
    <3>1. r \in Sample
      OBVIOUS
    <3> QED BY <3>1
  <2> QED BY <2>2, <2>3
<1>7. CASE UNCHANGED retention
  BY <1>7 DEF retention, store
<1> QED
  BY <1>1, <1>2, <1>3, <1>4, <1>5, <1>6, <1>7 DEF RetentionNext

\* Expired samples alone are incomplete, and clean tables stay clean.
THEOREM RetentionIsInvariant == RetentionSpec => []RetentionInv
BY RetentionInvInit, RetentionInvNext, PTL DEF RetentionSpec

-----------------------------------------------------------------------------
(* History.  Its steps are those of Retention or leave the tables alone;   *)
(* and an answered page is a page of one snapshot.                         *)

\* The tables and the event of the history move only as Retention says.
THEOREM HistoryRetains == HistorySpec => RetentionSpec
<1>1. HistoryInit => RetentionInit
  BY DEF HistoryInit
<1>2. [HistoryNext]_history => [RetentionNext]_retention
  BY DEF HistoryNext, history, ServerRestarts, RetentionNext
<1> QED
  BY <1>1, <1>2, PTL DEF HistorySpec, RetentionSpec

-----------------------------------------------------------------------------
\* Only samples older than the retention period are in some tables and not in
\* others, whatever order and size the event's batches have.
THEOREM HistoryHalvesAreExpired == HistorySpec => []HalvesAreExpired
<1>1. RetentionInv => HalvesAreExpired
  BY DEF RetentionInv
<1> QED BY <1>1, HistoryRetains, RetentionIsInvariant, PTL

\* A run of the event that came to its end left no row older than its start.
THEOREM HistoryEventCleansAll == HistorySpec => []EventCleansAll
<1>1. RetentionInv => EventCleansAll
  BY TableNames DEF RetentionInv, RetentionTypeOK, TablesLeftAreClean, EventCleansAll
<1> QED BY <1>1, HistoryRetains, RetentionIsInvariant, PTL

-----------------------------------------------------------------------------
\* A number within the range of an int is not changed by it.
LEMMA SmallModulo ==
  ASSUME NEW r \in Nat \ {0}, NEW x \in 0 .. r - 1
  PROVE  x % r = x
OBVIOUS

\* An offset that fits an int is computed exactly.
LEMMA OffsetIsExact ==
  ASSUME NEW p \in Nat \ {0}, Exact(p)
  PROVE  Offset(p) = (p - 1) * PageSize /\ Offset(p) \in Nat
<1> DEFINE n == (p - 1) * PageSize
           h == IntRange \div 2
<1>1. p - 1 \in Nat /\ PageSize \in Nat
  BY QueryAssumption
<1>2. n \in Nat
  BY <1>1
<1>3. h \in Nat /\ n < h /\ 2 * h <= IntRange
  BY QueryAssumption DEF Exact
<1> HIDE DEF n, h
<1>4. n + h \in 0 .. IntRange - 1
  BY <1>2, <1>3, QueryAssumption
<1>5. (n + h) % IntRange = n + h
  BY <1>4, SmallModulo, QueryAssumption
<1>6. AsInt(n) = n
  BY <1>2, <1>3, <1>5 DEF AsInt, h
<1> QED
  BY <1>2, <1>6 DEF Offset, n

\* Between its statements a query has a page of its rows, and FOUND_ROWS() is
\* its own, because no other query is between its statements.
QueryOK(q) ==
  /\ q.pc # "idle" => connection # "none"
  /\ q.pc = "asked" => q.failed = "nothing" /\ q.records = <<>> /\ q.total = 0
  /\ q.pc = "locked" =>
       /\ q.failed = "nothing" /\ q.total = 0 /\ foundRows = Cardinality(q.rows)
       /\ Exact(q.page) => IsPage(q)
  /\ q.pc = "answered" =>
       /\ Exact(q.page) /\ q.failed = "nothing" =>
            IsPage(q) /\ q.total = Cardinality(q.rows)
       /\ Exact(q.page) /\ q.failed = "count" => IsPage(q) /\ q.total = 0
       /\ q.failed = "select" => q.records = <<>> /\ q.total = 0

QueryTypeOK ==
  /\ connection \in {"none", "open", "lost"} /\ foundRows \in Nat
  /\ query \in [Client -> Requests]

QueryInv ==
  /\ QueryTypeOK
  /\ \A c \in Client : QueryOK(query[c])
  /\ \A c, d \in Client :
       query[c].pc = "locked" /\ query[d].pc = "locked" => c = d

\* No query is in progress.
LEMMA QueryInvInit == QueryInit => QueryInv
BY DEF QueryInit, QueryInv, QueryTypeOK, QueryOK, NoQuery, Requests

\* Rows that every table holds.
LEMMA SummaryType ==
  ASSUME RetentionTypeOK
  PROVE  Summary \in SUBSET Sample /\ Cardinality(Summary) \in Nat
<1>1. Head(Tables) \in ToSet(Tables)
  BY TableNames, RetentionAssumption, HeadTailProperties
<1>2. Summary \in SUBSET Sample
  BY <1>1 DEF Summary, RetentionTypeOK
<1>3. IsFiniteSet(Summary)
  BY <1>2, FS_Subset, RetentionAssumption
<1> QED
  BY <1>2, <1>3, FS_CardinalityType

\* A page is a sequence of samples.
LEMMA PageType ==
  ASSUME NEW R \in SUBSET Sample, Cardinality(R) \in Nat, NEW o \in Orders(R),
         NEW from \in Nat
  PROVE  PageOf(o, from) \in Seq(Sample)
<1>1. o \in [1 .. Cardinality(R) -> Sample]
  BY DEF Orders, SetToSeqs
<1>2. o \in Seq(Sample) /\ Len(o) \in Nat /\ \A i \in 1 .. Len(o) : o[i] \in Sample
  <2>1. o \in Seq(Sample)
    BY <1>1
  <2> QED BY <2>1, ElementOfSeq, LenProperties
<1> DEFINE bounds == {from + PageSize, Len(o)}
<1>3. \E m \in bounds : \A n \in bounds : m <= n
  BY <1>2, QueryAssumption
<1>4. Min(bounds) \in bounds /\ Min(bounds) <= Len(o)
  BY <1>3, <1>2 DEF Min
<1>5. Min(bounds) \in Int
  BY <1>4, <1>2, QueryAssumption
<1>6. \A i \in from + 1 .. Min(bounds) : o[i] \in Sample
  BY <1>2, <1>4, <1>5
<1>7. PageOf(o, from) = SubSeq(o, from + 1, Min(bounds)) /\ from + 1 \in Int
  BY DEF PageOf
<1> HIDE DEF bounds
<1> QED
  BY <1>5, <1>6, <1>7, SubSeqProperties

-----------------------------------------------------------------------------
\* A request arrives.
LEMMA QueryInvAsk ==
  ASSUME QueryInv, NEW c \in Client, NEW p \in Int, Ask(c, p)
  PROVE  QueryInv'
<1> DEFINE page == IF p < 1 THEN 1 ELSE p
           q == [NoQuery EXCEPT !.pc = "asked", !.page = page]
<1>1. /\ query' = [query EXCEPT ![c] = q]
      /\ connection # "none" /\ UNCHANGED <<connection, foundRows>>
  BY DEF Ask
<1>2. page \in Nat \ {0}
  OBVIOUS
<1>3. /\ q \in Requests /\ q.pc = "asked" /\ q.total = 0
      /\ q.records = <<>> /\ q.failed = "nothing"
  <2>1. /\ NoQuery \in Requests /\ NoQuery.total = 0
        /\ NoQuery.records = <<>> /\ NoQuery.failed = "nothing"
    BY DEF NoQuery, Requests
  <2> HIDE DEF page
  <2> QED BY <1>2, <2>1 DEF Requests
<1> HIDE DEF q
<1>4. QueryTypeOK'
  BY <1>1, <1>3 DEF QueryInv, QueryTypeOK
<1>5. query'[c] = q /\ \A d \in Client \ {c} : query'[d] = query[d]
  BY <1>1 DEF QueryInv, QueryTypeOK
<1>6. \A d \in Client : QueryOK(query[d])'
  BY <1>1, <1>3, <1>5 DEF QueryInv, QueryOK
<1> QED
  BY <1>3, <1>4, <1>5, <1>6 DEF QueryInv

\* Only c's query changes; it enters the mutex only if that is free.
LEMMA QueryInvOther ==
  ASSUME QueryInv, NEW c \in Client, UNCHANGED connection,
         query' \in [Client -> Requests], foundRows' \in Nat,
         \A d \in Client \ {c} : query'[d] = query[d],
         QueryOK(query[c])',
         \/ UNCHANGED foundRows /\ query'[c].pc # "locked"
         \/ MutexFree
  PROVE  QueryInv'
<1>1. QueryTypeOK'
  BY DEF QueryInv, QueryTypeOK
<1>2. ASSUME NEW d \in Client \ {c} PROVE QueryOK(query[d])'
  BY <1>2 DEF QueryInv, QueryOK, MutexFree
<1>3. \A d \in Client : QueryOK(query[d])'
  BY <1>2
<1>4. ASSUME NEW d \in Client, NEW e \in Client,
             query'[d].pc = "locked", query'[e].pc = "locked"
      PROVE  d = e
  BY <1>4 DEF QueryInv, MutexFree
<1> QED
  BY <1>1, <1>3, <1>4 DEF QueryInv

\* The SELECT: the page and the number of rows of one moment.
LEMMA QueryInvSelect ==
  ASSUME QueryInv, RetentionTypeOK, NEW c \in Client, Select(c)
  PROVE  QueryInv'
<1>1. PICK o \in Orders(Summary) :
        query' = [query EXCEPT ![c].pc = "locked", ![c].rows = Summary,
                    ![c].records = PageOf(o, Offset(query[c].page))]
  BY DEF Select
<1>2. /\ foundRows' = Cardinality(Summary) /\ MutexFree
      /\ UNCHANGED connection /\ connection = "open" /\ query[c].pc = "asked"
      /\ Offset(query[c].page) >= 0
  BY DEF Select
<1>3. query \in [Client -> Requests] /\ query[c] \in Requests
  BY DEF QueryInv, QueryTypeOK
<1>4. Offset(query[c].page) \in Nat
  <2>1. query[c].page \in Nat
    BY <1>3 DEF Requests
  <2> QED BY <2>1, <1>2, QueryAssumption DEF Offset, AsInt
<1> DEFINE records == PageOf(o, Offset(query[c].page))
           q == [query[c] EXCEPT !.pc = "locked", !.rows = Summary,
                                 !.records = records]
<1>5. records \in Seq(Sample)
  BY <1>4, SummaryType, PageType
<1>6. /\ q \in Requests /\ q.page = query[c].page /\ q.pc = "locked"
      /\ q.rows = Summary /\ q.records = records
      /\ q.failed = query[c].failed /\ q.total = query[c].total
  BY <1>3, <1>5, SummaryType DEF Requests
<1>7. /\ query' = [query EXCEPT ![c] = q] /\ query' \in [Client -> Requests]
      /\ query'[c] = q /\ \A d \in Client \ {c} : query'[d] = query[d]
  <2>1. query' = [query EXCEPT ![c] = q]
    BY <1>1, <1>3
  <2> HIDE DEF q
  <2> QED BY <2>1, <1>3, <1>6
<1> HIDE DEF q
<1>8. Exact(q.page) => IsPage(q)
  <2>1. q.page \in Nat \ {0}
    BY <1>6 DEF Requests
  <2> QED BY <2>1, <1>6, OffsetIsExact DEF IsPage
<1>9. q.failed = "nothing" /\ q.total = 0
  BY <1>2, <1>6 DEF QueryInv, QueryOK
<1>10. QueryOK(query[c])'
  BY <1>2, <1>6, <1>7, <1>8, <1>9 DEF QueryOK
<1> QED
  BY <1>2, <1>7, <1>10, SummaryType, QueryInvOther

\* The SELECT fails: the answer keeps the empty page of the request.
LEMMA QueryInvSelectFails ==
  ASSUME QueryInv, NEW c \in Client, SelectFails(c)
  PROVE  QueryInv'
<1>1. /\ query' = [query EXCEPT ![c].pc = "answered", ![c].failed = "select"]
      /\ query[c].pc = "asked" /\ UNCHANGED <<connection, foundRows>>
  BY DEF SelectFails
<1>2. query \in [Client -> Requests] /\ query[c] \in Requests /\ QueryOK(query[c])
  BY DEF QueryInv, QueryTypeOK
<1> DEFINE q == [query[c] EXCEPT !.pc = "answered", !.failed = "select"]
<1>3. /\ q \in Requests /\ q.pc = "answered" /\ q.failed = "select"
      /\ q.total = query[c].total /\ q.records = query[c].records
  BY <1>2 DEF Requests
<1>4. /\ query' \in [Client -> Requests]
      /\ query'[c] = q /\ \A d \in Client \ {c} : query'[d] = query[d]
  <2>1. query' = [query EXCEPT ![c] = q]
    BY <1>1, <1>2
  <2> HIDE DEF q
  <2> QED BY <2>1, <1>2, <1>3
<1> HIDE DEF q
<1>5. QueryOK(query[c])'
  BY <1>1, <1>2, <1>3, <1>4 DEF QueryOK
<1>6. UNCHANGED connection /\ UNCHANGED foundRows /\ foundRows' \in Nat
  BY <1>1 DEF QueryInv, QueryTypeOK
<1> QED
  BY <1>3, <1>4, <1>5, <1>6, QueryInvOther

\* SELECT FOUND_ROWS(), with the mutex still held, answers or fails.
LEMMA QueryInvFetch ==
  ASSUME QueryInv, NEW c \in Client, FetchFoundRows(c)
  PROVE  QueryInv'
<1>1. /\ query \in [Client -> Requests] /\ query[c] \in Requests
      /\ QueryOK(query[c]) /\ foundRows \in Nat
  BY DEF QueryInv, QueryTypeOK
<1>2. query[c].pc = "locked" /\ UNCHANGED <<connection, foundRows>>
  BY DEF FetchFoundRows
<1>3. PICK failed \in {"nothing", "count"}, total \in {0, foundRows} :
        /\ query' = [query EXCEPT ![c].pc = "answered", ![c].failed = failed,
                                  ![c].total = total]
        /\ failed = "nothing" => total = foundRows
        /\ failed = "count" => total = 0
  <2> DEFINE After(failed, total) ==
        [query EXCEPT ![c].pc = "answered", ![c].failed = failed, ![c].total = total]
  <2>1. query[c].failed = "nothing" /\ query[c].total = 0
    BY <1>1, <1>2 DEF QueryOK
  <2>2. CASE query' = [query EXCEPT ![c].pc = "answered", ![c].total = foundRows]
    <3>1. query' = After("nothing", foundRows)
      BY <1>1, <2>1, <2>2 DEF Requests
    <3> QED BY <3>1
  <2>3. CASE query' = [query EXCEPT ![c].pc = "answered", ![c].failed = "count"]
    <3>1. query' = After("count", 0)
      BY <1>1, <2>1, <2>3 DEF Requests
    <3> QED BY <3>1
  <2> QED BY <2>2, <2>3 DEF FetchFoundRows
<1> DEFINE q == [query[c] EXCEPT !.pc = "answered", !.failed = failed, !.total = total]
<1>4. /\ q \in Requests /\ q.page = query[c].page /\ q.pc = "answered"
      /\ q.failed = failed /\ q.total = total
      /\ q.rows = query[c].rows /\ q.records = query[c].records
  <2>1. failed \in {"nothing", "select", "count"} /\ total \in Nat
    BY <1>1, <1>3
  <2> QED BY <1>1, <2>1 DEF Requests
<1>5. /\ query' \in [Client -> Requests]
      /\ query'[c] = q /\ \A d \in Client \ {c} : query'[d] = query[d]
  <2>1. query' = [query EXCEPT ![c] = q]
    BY <1>1, <1>3
  <2> HIDE DEF q
  <2> QED BY <2>1, <1>1, <1>4
<1> HIDE DEF q
<1>6. Exact(q.page) => IsPage(q)
  BY <1>1, <1>2, <1>4 DEF QueryOK, IsPage
<1>7. foundRows = Cardinality(q.rows) /\ connection # "none"
  BY <1>1, <1>2, <1>4 DEF QueryOK
<1>8. QueryOK(query[c])'
  BY <1>2, <1>3, <1>4, <1>5, <1>6, <1>7 DEF QueryOK
<1> QED
  BY <1>1, <1>2, <1>4, <1>5, <1>8, QueryInvOther

\* The client takes its answer.
LEMMA QueryInvDone ==
  ASSUME QueryInv, NEW c \in Client, Done(c)
  PROVE  QueryInv'
<1>1. query' = [query EXCEPT ![c] = NoQuery] /\ UNCHANGED <<connection, foundRows>>
  BY DEF Done
<1>2. NoQuery \in Requests /\ NoQuery.pc = "idle"
  BY DEF NoQuery, Requests
<1>3. query \in [Client -> Requests] /\ foundRows \in Nat
  BY DEF QueryInv, QueryTypeOK
<1>4. /\ query' \in [Client -> Requests]
      /\ query'[c] = NoQuery /\ \A d \in Client \ {c} : query'[d] = query[d]
  BY <1>1, <1>2, <1>3
<1>5. QueryOK(query[c])'
  BY <1>2, <1>4 DEF QueryOK
<1> QED
  BY <1>1, <1>2, <1>3, <1>4, <1>5, QueryInvOther

\* The connection is lost.
LEMMA QueryInvLose ==
  ASSUME QueryInv, LoseConnection
  PROVE  QueryInv'
<1>1. connection = "open" /\ connection' = "lost" /\ UNCHANGED <<foundRows, query>>
  BY DEF LoseConnection
<1>2. QueryTypeOK'
  BY <1>1 DEF QueryInv, QueryTypeOK
<1>3. \A c \in Client : QueryOK(query[c])'
  BY <1>1 DEF QueryInv, QueryOK
<1> QED
  BY <1>1, <1>2, <1>3 DEF QueryInv

\* Every step of handlers and connection.
LEMMA QueryInvStep ==
  ASSUME QueryInv, RetentionTypeOK, QueryStep
  PROVE  QueryInv'
<1>1. ASSUME NEW c \in Client, NEW p \in Pages, AskPage(c, p) PROVE QueryInv'
  BY <1>1, QueryInvAsk, QueryAssumption DEF AskPage
<1>2. CASE WalkStarts
  BY <1>2, QueryInvAsk, QueryAssumption DEF WalkStarts
<1>3. CASE WalkGoesOn
  <2>1. query[Walker].page + 1 \in Int
    BY QueryAssumption DEF QueryInv, QueryTypeOK, Requests
  <2> QED BY <2>1, <1>3, QueryInvAsk, QueryAssumption DEF WalkGoesOn
<1>4. ASSUME NEW c \in Client,
             Select(c) \/ SelectFails(c) \/ FetchFoundRows(c) \/ Done(c)
      PROVE  QueryInv'
  BY <1>4, QueryInvSelect, QueryInvSelectFails, QueryInvFetch, QueryInvDone
<1> QED
  BY <1>1, <1>2, <1>3, <1>4 DEF QueryStep

\* Every step of the composition.
LEMMA HistoryInvNext ==
  RetentionInv /\ QueryInv /\ [HistoryNext]_history => QueryInv'
<1> SUFFICES ASSUME RetentionInv, QueryInv, [HistoryNext]_history PROVE QueryInv'
  OBVIOUS
<1>1. RetentionTypeOK
  BY DEF RetentionInv
<1>2. CASE QueryStep
  BY <1>1, <1>2, QueryInvStep
<1>3. CASE LoseConnection
  BY <1>3, QueryInvLose
<1>4. CASE UNCHANGED queries
  BY <1>4 DEF queries, QueryInv, QueryTypeOK, QueryOK
<1> QED
  BY <1>2, <1>3, <1>4 DEF HistoryNext, ServerRestarts, history

\* Every answer is a page of one snapshot and the number of its rows, although
\* all clients share one connection and its FOUND_ROWS(): the mutex covers both
\* statements.  Whichever statements fail, an answer has no rows and a total of
\* 0, or the page and a total of 0, and nothing of another query.
THEOREM HistoryAnswerIsOneSnapshot == HistorySpec => []AnswerIsOneSnapshot
<1>1. HistoryInit => QueryInv
  BY QueryInvInit DEF HistoryInit
<1>2. QueryInv => AnswerIsOneSnapshot
  BY DEF QueryInv, QueryOK, AnswerIsOneSnapshot, Answered
<1> QED
  BY <1>1, <1>2, HistoryInvNext, HistoryRetains, RetentionIsInvariant, PTL DEF HistorySpec

-----------------------------------------------------------------------------
WalkOK == walk \in [from : SUBSET Sample, seen : SUBSET Sample]

\* The bookkeeping of the walk keeps its type.
LEMMA WalkOKNext ==
  RetentionInv /\ QueryInv /\ WalkOK /\ [HistoryNext]_history => WalkOK'
<1> SUFFICES ASSUME RetentionInv, QueryInv, WalkOK, [HistoryNext]_history
             PROVE  WalkOK'
  OBVIOUS
<1>1. Summary \in SUBSET Sample
  BY SummaryType DEF RetentionInv
<1>2. \A c \in Client : ToSet(query[c].records) \subseteq Sample
  <2> SUFFICES ASSUME NEW c \in Client PROVE ToSet(query[c].records) \subseteq Sample
    OBVIOUS
  <2>1. query[c].records \in Seq(Sample)
    BY DEF QueryInv, QueryTypeOK, Requests
  <2> QED BY <2>1, ElementOfSeq DEF ToSet
<1>3. CASE QueryStep
  <2>1. CASE WalkStarts
    BY <2>1, <1>1 DEF WalkStarts, WalkOK
  <2>2. CASE WalkGoesOn
    BY <2>2, <1>2, QueryAssumption DEF WalkGoesOn, Seen, WalkOK
  <2>3. ASSUME NEW c \in Client, Done(c) PROVE WalkOK'
    BY <2>3 DEF Done, NoWalk, WalkOK
  <2>4. CASE UNCHANGED walk
    BY <2>4 DEF WalkOK
  <2> QED
    BY <1>3, <2>1, <2>2, <2>3, <2>4
    DEF QueryStep, AskPage, Select, SelectFails, FetchFoundRows
<1>4. CASE UNCHANGED walk
  BY <1>4 DEF WalkOK
<1> QED
  BY <1>3, <1>4 DEF HistoryNext, LoseConnection, ServerRestarts, queries, history

\* Type correctness of tables, event, connection and queries; the mutex admits
\* one query at a time, for any number of clients.
THEOREM HistoryTypeCorrect == HistorySpec => []HistoryTypeOK
<1>1. HistoryInit => QueryInv /\ WalkOK
  BY QueryInvInit DEF HistoryInit, QueryInit, NoWalk, WalkOK
<1>2. RetentionInv /\ QueryInv /\ WalkOK => HistoryTypeOK
  BY DEF RetentionInv, RetentionTypeOK, QueryInv, QueryTypeOK, WalkOK, HistoryTypeOK
<1> QED
  BY <1>1, <1>2, HistoryInvNext, WalkOKNext, HistoryRetains, RetentionIsInvariant,
     PTL DEF HistorySpec

-----------------------------------------------------------------------------
(* History: what a walk over the pages sees.  Pages are cut from orders in *)
(* which newer rows come first.  Rows newer than a living row are living   *)
(* too, so that their number only grows: at page p, a living row that was  *)
(* not seen yet still has at least the rows of the pages before p ahead.   *)

\* A row the walk must not miss, and the rows that come before it.
Alive(s) ==
  s \in walk.from /\ s \in Summary /\ Distinct(s) /\ TimeOf[s] >= oldest
Ahead(s) == {r \in Summary : TimeOf[r] > TimeOf[s]}

\* Every such row is in S, or has at least n rows ahead.
Passed(n, S) == \A s \in Sample : Alive(s) => s \in S \/ n <= Cardinality(Ahead(s))

AskedInv ==
  query[Walker].pc = "asked" =>
    /\ (query[Walker].page - 1) * PageSize <= Cardinality(Sample)
    /\ Passed((query[Walker].page - 1) * PageSize, walk.seen)

PageInv ==
  query[Walker].pc \in {"locked", "answered"} /\ query[Walker].failed # "select" =>
    /\ Len(query[Walker].records) <= PageSize
    /\ Len(query[Walker].records) = PageSize =>
         /\ query[Walker].page * PageSize <= Cardinality(Sample)
         /\ Passed(query[Walker].page * PageSize, Seen)
    /\ Len(query[Walker].records) < PageSize =>
         \A s \in Sample : Alive(s) => s \in Seen

WalkInv == walk.from \subseteq stored /\ AskedInv /\ PageInv

\* An order of a set of rows has each of them at one place.
LEMMA OrderType ==
  ASSUME NEW R \in SUBSET Sample, NEW o \in Orders(R)
  PROVE  /\ Cardinality(R) \in Nat /\ Cardinality(R) <= Cardinality(Sample)
         /\ o \in Seq(Sample) /\ Len(o) = Cardinality(R)
         /\ \A i \in 1 .. Len(o) : o[i] \in R
         /\ \A i, j \in 1 .. Len(o) : o[i] = o[j] => i = j
         /\ \A s \in R : \E i \in 1 .. Len(o) : o[i] = s
         /\ \A i, j \in 1 .. Len(o) : TimeOf[o[i]] > TimeOf[o[j]] => i < j
<1> DEFINE n == Cardinality(R)
<1>1. IsFiniteSet(R) /\ n \in Nat /\ n <= Cardinality(Sample)
  BY FS_Subset, FS_CardinalityType, RetentionAssumption
<1>2. /\ o \in [1 .. n -> R] /\ \A i, j \in 1 .. n : i # j => o[i] # o[j]
      /\ \A i, j \in 1 .. n : TimeOf[o[i]] > TimeOf[o[j]] => i < j
  BY DEF Orders, SetToSeqs, Before
<1> HIDE DEF n
<1>3. o \in Seq(Sample) /\ Len(o) = n
  <2>1. o \in [1 .. n -> Sample]
    BY <1>2
  <2> QED BY <1>1, <2>1
<1>4. o \in Injection(1 .. n, R)
  BY <1>2 DEF Injection, IsInjective
<1>5. Cardinality(1 .. n) = n
  BY <1>1, FS_Interval
<1>6. o \in Surjection(1 .. n, R)
  BY <1>1, <1>4, <1>5, FS_Injection DEF n
<1>7. \A s \in R : \E i \in 1 .. n : o[i] = s
  BY <1>6 DEF Surjection
<1> QED BY <1>1, <1>2, <1>3, <1>7 DEF n

\* A row without equals stands behind exactly the newer ones.
LEMMA PlaceInOrder ==
  ASSUME NEW R \in SUBSET Sample, NEW o \in Orders(R), NEW i \in 1 .. Len(o),
         \A r \in R \ {o[i]} : TimeOf[r] # TimeOf[o[i]]
  PROVE  Cardinality({r \in R : TimeOf[r] > TimeOf[o[i]]}) = i - 1
<1> DEFINE A == {r \in R : TimeOf[r] > TimeOf[o[i]]}
           f == [j \in 1 .. i - 1 |-> o[j]]
<1>1. /\ Len(o) \in Nat
      /\ \A j \in 1 .. Len(o) : o[j] \in R
      /\ \A j, k \in 1 .. Len(o) : o[j] = o[k] => j = k
      /\ \A s \in R : \E j \in 1 .. Len(o) : o[j] = s
      /\ \A j, k \in 1 .. Len(o) : TimeOf[o[j]] > TimeOf[o[k]] => j < k
  <2>1. Cardinality(R) \in Nat /\ Len(o) = Cardinality(R)
    BY OrderType, Zenon
  <2>2. \A j \in 1 .. Len(o) : o[j] \in R
    BY OrderType, Zenon
  <2>3. \A j, k \in 1 .. Len(o) : o[j] = o[k] => j = k
    BY OrderType, Zenon
  <2>4. \A s \in R : \E j \in 1 .. Len(o) : o[j] = s
    BY OrderType, Zenon
  <2>5. \A j, k \in 1 .. Len(o) : TimeOf[o[j]] > TimeOf[o[k]] => j < k
    BY OrderType, Zenon
  <2> QED BY <2>1, <2>2, <2>3, <2>4, <2>5, Zenon
<1>2. \A s \in R : TimeOf[s] \in Nat
  BY RetentionAssumption
<1>3. i - 1 \in Nat /\ \A j \in 1 .. i - 1 : j \in 1 .. Len(o) /\ j < i /\ j # i
  BY <1>1
<1>4. \A j \in 1 .. i - 1 : o[j] \in A
  <2> SUFFICES ASSUME NEW j \in 1 .. i - 1 PROVE TimeOf[o[j]] > TimeOf[o[i]]
    BY <1>1, <1>3
  <2>1. o[j] \in R /\ o[i] \in R /\ o[j] # o[i]
    BY <1>1, <1>3
  <2>2. ~(TimeOf[o[i]] > TimeOf[o[j]])
    BY <1>1, <1>3
  <2> QED BY <1>2, <2>1, <2>2
<1>5. f \in Injection(1 .. i - 1, A)
  <2> HIDE DEF A
  <2> QED BY <1>1, <1>3, <1>4 DEF Injection, IsInjective
<1>6. \A s \in A : \E j \in 1 .. i - 1 : f[j] = s
  <2> SUFFICES ASSUME NEW s \in A PROVE \E j \in 1 .. i - 1 : f[j] = s
    OBVIOUS
  <2>1. PICK j \in 1 .. Len(o) : o[j] = s
    BY <1>1
  <2>2. j < i
    BY <1>1, <2>1
  <2>3. j \in 1 .. i - 1
    BY <1>1, <2>2
  <2> QED BY <2>1, <2>3
<1>7. f \in Bijection(1 .. i - 1, A)
  BY <1>5, <1>6 DEF Bijection, Surjection, Injection
<1> HIDE DEF A, f
<1>8. Cardinality(A) = i - 1
  BY <1>3, <1>7, FS_CountingElements DEF ExistsBijection
<1> QED BY <1>8 DEF A

\* A page starts behind the rows skipped and ends when full, or at the end.
LEMMA PageContent ==
  ASSUME NEW o \in Seq(Sample), NEW from \in Nat
  PROVE  /\ Len(PageOf(o, from)) \in Nat /\ Len(PageOf(o, from)) <= PageSize
         /\ \A i \in from + 1 .. from + Len(PageOf(o, from)) :
              o[i] \in ToSet(PageOf(o, from))
         /\ Len(PageOf(o, from)) = PageSize => from + PageSize <= Len(o)
         /\ Len(PageOf(o, from)) < PageSize => Len(o) <= from + Len(PageOf(o, from))
<1> DEFINE bounds == {from + PageSize, Len(o)}
           m == Min(bounds)
           p == PageOf(o, from)
<1>1. Len(o) \in Nat /\ PageSize \in Nat \ {0} /\ \A i \in 1 .. Len(o) : o[i] \in Sample
  BY QueryAssumption, ElementOfSeq, LenProperties
<1>2. \E x \in bounds : \A y \in bounds : x <= y
  BY <1>1
<1>3. m \in bounds /\ m <= from + PageSize /\ m <= Len(o)
  BY <1>2, <1>1 DEF Min
<1>4. m \in Nat
  BY <1>1, <1>3
<1>5. p = SubSeq(o, from + 1, m) /\ from + 1 \in Int
  BY DEF PageOf
<1>6. \A i \in from + 1 .. m : o[i] \in Sample
  BY <1>1, <1>3, <1>4
<1>7. m = from + PageSize \/ m = Len(o)
  BY <1>3
<1> HIDE DEF m, p
<1>8. /\ p \in Seq(Sample)
      /\ Len(p) = IF from + 1 <= m THEN m - (from + 1) + 1 ELSE 0
      /\ \A i \in 1 .. m - (from + 1) + 1 : p[i] = o[from + 1 + i - 1]
  BY <1>4, <1>5, <1>6, SubSeqProperties
<1>9. Len(p) = IF from < m THEN m - from ELSE 0
  BY <1>4, <1>8
<1>10. \A i \in from + 1 .. from + Len(p) : o[i] \in ToSet(p)
  <2> SUFFICES ASSUME NEW i \in from + 1 .. from + Len(p) PROVE o[i] \in ToSet(p)
    OBVIOUS
  <2>1. from < m /\ i - from \in 1 .. Len(p) /\ i - from \in 1 .. m - (from + 1) + 1
    BY <1>4, <1>9
  <2>2. p[i - from] = o[from + 1 + (i - from) - 1]
    BY <1>8, <2>1
  <2>3. from + 1 + (i - from) - 1 = i
    OBVIOUS
  <2>4. DOMAIN p = 1 .. Len(p)
    BY <1>8, LenProperties
  <2> QED BY <2>1, <2>2, <2>3, <2>4 DEF ToSet
<1>11. /\ Len(p) \in Nat /\ Len(p) <= PageSize
       /\ Len(p) = PageSize => from + PageSize <= Len(o)
       /\ Len(p) < PageSize => Len(o) <= from + Len(p)
  BY <1>1, <1>3, <1>4, <1>7, <1>9
<1> QED BY <1>10, <1>11 DEF p

\* What the tables do: no row comes back to life, and none ahead of a living
\* row is removed.
LEMMA LivingStay ==
  ASSUME RetentionInv, walk.from \subseteq stored, [RetentionNext]_retention,
         UNCHANGED walk, NEW s \in Sample, Alive(s)'
  PROVE  Alive(s) /\ Cardinality(Ahead(s)) <= Cardinality(Ahead(s)')
<1>1. /\ Head(Tables) \in ToSet(Tables)
      /\ db \in [ToSet(Tables) -> SUBSET stored] /\ stored \subseteq Sample
      /\ oldest \in Nat /\ \A r \in Sample : TimeOf[r] \in Nat
  BY TableNames, RetentionAssumption, HeadTailProperties
     DEF RetentionInv, RetentionTypeOK
<1>2. oldest <= oldest' /\ oldest' \in Nat /\ stored \subseteq stored'
  BY <1>1 DEF RetentionNext, Commit, Age, EventStarts, DeleteBatch, LeaveLoop,
    EventAborts, retention, store
<1>3. /\ \A r \in stored : r \in Summary' => r \in Summary
      /\ \A r \in Summary : r \in Summary' \/ TimeOf[r] < oldest
      /\ Summary' \in SUBSET Sample
  <2>1. CASE UNCHANGED db
    BY <1>1, <2>1 DEF Summary
  <2>2. ASSUME NEW c \in Sample, Commit(c)
        PROVE  /\ \A r \in stored : r \in Summary' => r \in Summary
               /\ \A r \in Summary : r \in Summary' \/ TimeOf[r] < oldest
               /\ Summary' \in SUBSET Sample
    BY <1>1, <2>2 DEF Commit, Summary
  <2>3. CASE DeleteBatch
    <3>1. PICK D \in SUBSET Expired(Tables[event]) :
                 db' = [db EXCEPT ![Tables[event]] = @ \ D]
      BY <2>3 DEF DeleteBatch
    <3>2. \A t \in ToSet(Tables) : db'[t] = IF t = Tables[event] THEN db[t] \ D ELSE db[t]
      BY <1>1, <3>1
    <3>3. \A r \in D : TimeOf[r] < oldest
      BY DEF Expired
    <3> QED BY <1>1, <3>2, <3>3 DEF Summary
  <2> QED
    BY <2>1, <2>2, <2>3 DEF RetentionNext, Age, EventStarts, LeaveLoop, EventAborts,
      retention, store
<1>4. Alive(s)
  BY <1>1, <1>2, <1>3 DEF Alive, Distinct
<1>5. TimeOf[s] >= oldest
  BY <1>4 DEF Alive
<1>6. Ahead(s) \subseteq Ahead(s)'
  <2> SUFFICES ASSUME NEW r \in Summary, TimeOf[r] > TimeOf[s] PROVE r \in Summary'
    BY DEF Ahead
  <2>1. r \in Sample
    BY <1>1 DEF Summary
  <2> QED BY <1>1, <1>3, <1>5, <2>1
<1>7. IsFiniteSet(Ahead(s)')
  BY <1>3, FS_Subset, RetentionAssumption DEF Ahead
<1> QED BY <1>4, <1>6, <1>7, FS_Subset

\* Nobody walks yet.
LEMMA WalkInvInit == HistoryInit => WalkInv
<1> SUFFICES ASSUME HistoryInit PROVE WalkInv
  OBVIOUS
<1>1. query[Walker].pc = "idle" /\ walk.from = {}
  BY QueryAssumption DEF HistoryInit, QueryInit, NoQuery, NoWalk
<1> QED BY <1>1 DEF WalkInv, AskedInv, PageInv

\* Rows are stored or removed between the steps of queries.
LEMMA WalkInvTables ==
  ASSUME RetentionInv, QueryInv, WalkInv, RetentionNext, UNCHANGED <<query, walk>>
  PROVE  WalkInv'
<1>1. UNCHANGED <<query, walk>>
  OBVIOUS
<1>2. /\ walk.from \subseteq stored /\ PageSize \in Nat \ {0}
      /\ query[Walker] \in Requests
  BY QueryAssumption DEF WalkInv, QueryInv, QueryTypeOK
<1>3. \A s \in Sample : Alive(s)' =>
        Alive(s) /\ Cardinality(Ahead(s)) <= Cardinality(Ahead(s)')
  BY <1>1, <1>2, LivingStay
<1>4. \A s \in Sample : Cardinality(Ahead(s)) \in Nat /\ Cardinality(Ahead(s)') \in Nat
  <2>1. Summary \in SUBSET Sample
    BY SummaryType DEF RetentionInv
  <2>2. Summary' \in SUBSET Sample
    <3>1. RetentionInv'
      BY RetentionInvNext
    <3>2. Head(Tables) \in ToSet(Tables)
      BY TableNames, RetentionAssumption, HeadTailProperties
    <3> QED BY <3>1, <3>2 DEF RetentionInv, RetentionTypeOK, Summary
  <2>3. \A s \in Sample : Ahead(s) \in SUBSET Sample /\ Ahead(s)' \in SUBSET Sample
    BY <2>1, <2>2 DEF Ahead
  <2> QED BY <2>3, FS_Subset, FS_CardinalityType, RetentionAssumption
<1>5. ASSUME NEW n \in Nat, NEW S, \A s \in Sample : Alive(s) => s \in S \/ n <= Cardinality(Ahead(s))
      PROVE  \A s \in Sample : Alive(s)' => s \in S \/ n <= Cardinality(Ahead(s)')
  BY <1>3, <1>4, <1>5
<1>6. /\ (query[Walker].page - 1) * PageSize \in Nat
      /\ query[Walker].page * PageSize \in Nat
  <2>1. query[Walker].page \in Nat \ {0}
    BY <1>2 DEF Requests
  <2> QED BY <1>2, <2>1
<1>7. AskedInv => AskedInv'
  BY <1>1, <1>5, <1>6 DEF AskedInv, Passed
<1>8. Seen' = Seen
  BY <1>1 DEF Seen
<1>9. PageInv => PageInv'
  BY <1>1, <1>3, <1>5, <1>6, <1>8 DEF PageInv, Passed
<1>10. stored \subseteq stored'
  BY <1>2 DEF RetentionNext, Commit, Age, EventStarts, DeleteBatch, LeaveLoop, EventAborts,
    store, retention
<1> QED BY <1>1, <1>7, <1>9, <1>10 DEF WalkInv

\* Steps that leave the walker's query, its walk and the tables alone.
LEMMA WalkInvOther ==
  ASSUME WalkInv, UNCHANGED <<retention, walk>>,
         query'[Walker] = query[Walker]
  PROVE  WalkInv'
<1>1. UNCHANGED <<db, stored, oldest, walk>> /\ query'[Walker] = query[Walker]
  BY DEF retention, store
<1>2. \A s : (Alive(s)' <=> Alive(s)) /\ Ahead(s)' = Ahead(s)
  BY <1>1 DEF Alive, Ahead, Distinct, Summary
<1>3. AskedInv' <=> AskedInv
  BY <1>1, <1>2 DEF AskedInv, Passed
<1>4. Seen' = Seen
  BY <1>1 DEF Seen
<1>5. PageInv' <=> PageInv
  BY <1>1, <1>2, <1>4 DEF PageInv, Passed
<1> QED BY <1>1, <1>3, <1>5 DEF WalkInv

\* The client asks for the first page.
LEMMA WalkInvStarts ==
  ASSUME RetentionInv, QueryInv, WalkInv, WalkStarts, UNCHANGED retention
  PROVE  WalkInv'
<1>1. /\ query' = [query EXCEPT ![Walker] = [NoQuery EXCEPT !.pc = "asked", !.page = 1]]
      /\ walk' = [from |-> Summary, seen |-> {}]
      /\ UNCHANGED <<db, stored, oldest>>
  BY DEF WalkStarts, Ask, retention, store
<1>2. query'[Walker].pc = "asked" /\ query'[Walker].page = 1
  BY <1>1, QueryAssumption DEF QueryInv, QueryTypeOK, NoQuery
<1>3. Summary \subseteq stored /\ Summary \in SUBSET Sample
  BY TableNames, RetentionAssumption, HeadTailProperties
     DEF RetentionInv, RetentionTypeOK, Summary
<1>4. (query'[Walker].page - 1) * PageSize = 0
  BY <1>2, QueryAssumption
<1>5. \A s \in Sample : Cardinality(Ahead(s)') \in Nat
  <2>1. \A s \in Sample : Ahead(s)' \in SUBSET Sample
    BY <1>1, <1>3 DEF Ahead, Summary
  <2> QED BY <2>1, FS_Subset, FS_CardinalityType, RetentionAssumption
<1>6. Cardinality(Sample) \in Nat
  BY FS_CardinalityType, RetentionAssumption
<1>7. AskedInv' /\ PageInv'
  BY <1>2, <1>4, <1>5, <1>6 DEF AskedInv, PageInv, Passed
<1> QED BY <1>1, <1>3, <1>7 DEF WalkInv

\* The client asks for the page after a full one.
LEMMA WalkInvGoesOn ==
  ASSUME QueryInv, WalkOK, WalkInv, WalkGoesOn, UNCHANGED retention
  PROVE  WalkInv'
<1> DEFINE page == query[Walker].page
           next == IF page + 1 < 1 THEN 1 ELSE page + 1
<1>1. /\ query' = [query EXCEPT ![Walker] =
                     [NoQuery EXCEPT !.pc = "asked", !.page = next]]
      /\ walk' = [walk EXCEPT !.seen = Seen] /\ FullPage(Walker)
      /\ UNCHANGED <<db, stored, oldest>>
  BY DEF WalkGoesOn, Ask, retention, store
<1>2. page \in Nat \ {0} /\ query \in [Client -> Requests] /\ Walker \in Client
  BY QueryAssumption DEF QueryInv, QueryTypeOK, Requests
<1>3. next = page + 1
  BY <1>2
<1> HIDE DEF next
<1>4. query'[Walker].pc = "asked" /\ query'[Walker].page = page + 1
  BY <1>1, <1>2, <1>3 DEF NoQuery
<1>5. (query'[Walker].page - 1) * PageSize = page * PageSize
  BY <1>2, <1>4, QueryAssumption
<1>6. query[Walker].failed # "select"
  <2>1. CASE query[Walker].failed = "select"
    <3>1. query[Walker].records = <<>>
      BY <1>1, <1>2, <2>1 DEF QueryInv, QueryOK, FullPage
    <3>2. Len(query[Walker].records) = PageSize /\ PageSize # 0
      BY <1>1, QueryAssumption DEF FullPage
    <3> QED BY <3>1, <3>2
  <2> QED BY <2>1
<1>7. page * PageSize <= Cardinality(Sample) /\ Passed(page * PageSize, Seen)
  BY <1>1, <1>6 DEF WalkInv, PageInv, FullPage
<1>8. walk'.seen = Seen /\ walk'.from = walk.from
  BY <1>1 DEF WalkOK
<1>9. \A s : (Alive(s)' <=> Alive(s)) /\ Ahead(s)' = Ahead(s)
  BY <1>1, <1>8 DEF Alive, Ahead, Distinct, Summary
<1>10. AskedInv'
  BY <1>5, <1>7, <1>8, <1>9 DEF AskedInv, Passed
<1> QED BY <1>1, <1>4, <1>8, <1>10 DEF WalkInv, PageInv

\* The page the walker's SELECT returns continues its walk.
LEMMA WalkInvSelect ==
  ASSUME Cardinality(Sample) < IntRange \div 2,
         RetentionInv, QueryInv, WalkInv, Select(Walker), UNCHANGED retention
  PROVE  WalkInv'
<1>1. PICK o \in Orders(Summary) :
        query' = [query EXCEPT ![Walker].pc = "locked", ![Walker].rows = Summary,
                    ![Walker].records = PageOf(o, Offset(query[Walker].page))]
  BY DEF Select
<1>2. /\ query[Walker].pc = "asked"
      /\ UNCHANGED <<walk, db, stored, oldest>>
  BY DEF Select, retention, store
<1> DEFINE page == query[Walker].page
           from == (page - 1) * PageSize
           p == PageOf(o, from)
<1>3. page \in Nat \ {0} /\ query \in [Client -> Requests] /\ Walker \in Client
  BY QueryAssumption DEF QueryInv, QueryTypeOK, Requests
<1>4. PageSize \in Nat \ {0} /\ IntRange \div 2 \in Nat /\ Cardinality(Sample) \in Nat
  BY QueryAssumption, RetentionAssumption, FS_CardinalityType
<1>5. from \in Nat /\ page * PageSize = from + PageSize
  <2>1. page - 1 \in Nat
    BY <1>3
  <2> QED BY <1>3, <1>4, <2>1
<1>6. from <= Cardinality(Sample) /\ Passed(from, walk.seen)
  BY <1>2 DEF WalkInv, AskedInv
<1>7. Offset(page) = from
  <2>1. Exact(page)
    BY <1>4, <1>5, <1>6 DEF Exact
  <2> QED BY <1>3, <2>1, OffsetIsExact
<1>8. /\ query'[Walker].pc = "locked" /\ query'[Walker].records = p
      /\ query'[Walker].page = page
  BY <1>1, <1>3, <1>7 DEF Requests
<1>9. \A s : (Alive(s)' <=> Alive(s)) /\ Ahead(s)' = Ahead(s)
  BY <1>2 DEF Alive, Ahead, Distinct, Summary
<1>10. Seen' = walk.seen \cup ToSet(p)
  BY <1>2, <1>8 DEF Seen
<1>11. Summary \in SUBSET Sample /\ Summary \subseteq stored
  BY TableNames, RetentionAssumption, HeadTailProperties
     DEF RetentionInv, RetentionTypeOK, Summary
<1>12. /\ o \in Seq(Sample) /\ Len(o) \in Nat /\ Len(o) <= Cardinality(Sample)
       /\ \A s \in Summary : \E i \in 1 .. Len(o) : o[i] = s
  BY <1>11, OrderType
<1> HIDE DEF page, from, p
<1>13. /\ Len(p) \in Nat /\ Len(p) <= PageSize
       /\ \A i \in from + 1 .. from + Len(p) : o[i] \in ToSet(p)
       /\ Len(p) = PageSize => from + PageSize <= Len(o)
       /\ Len(p) < PageSize => Len(o) <= from + Len(p)
  BY <1>5, <1>12, PageContent DEF p
<1>14. ASSUME NEW s \in Sample, Alive(s), s \notin Seen'
       PROVE  Len(p) = PageSize /\ from + PageSize <= Cardinality(Ahead(s))
  <2>1. PICK i \in 1 .. Len(o) : o[i] = s
    BY <1>12, <1>14 DEF Alive
  <2>2. \A r \in Summary \ {o[i]} : TimeOf[r] # TimeOf[o[i]]
    BY <1>11, <1>14, <2>1 DEF Alive, Distinct
  <2>3. Cardinality(Ahead(s)) = i - 1
    <3>1. Cardinality({r \in Summary : TimeOf[r] > TimeOf[o[i]]}) = i - 1
      BY <1>11, <2>2, PlaceInOrder, Zenon
    <3> QED BY <2>1, <3>1 DEF Ahead
  <2>4. from <= i - 1
    BY <1>6, <1>10, <1>14, <2>3 DEF Passed
  <2>5. i \notin from + 1 .. from + Len(p)
    BY <1>10, <1>13, <1>14, <2>1
  <2> QED BY <1>4, <1>5, <1>12, <1>13, <2>1, <2>3, <2>4, <2>5
<1>15. PageInv'
  BY <1>2, <1>4, <1>5, <1>8, <1>9, <1>12, <1>13, <1>14 DEF PageInv, Passed, page
<1>16. AskedInv'
  BY <1>8 DEF AskedInv
<1> QED BY <1>2, <1>15, <1>16 DEF WalkInv

\* The walker's other steps change no records, and a SELECT that fails is known
\* to have failed.
LEMMA WalkInvRest ==
  ASSUME QueryInv, WalkInv, UNCHANGED retention,
         SelectFails(Walker) \/ FetchFoundRows(Walker) \/ Done(Walker)
  PROVE  WalkInv'
<1>1. query \in [Client -> Requests] /\ Walker \in Client /\ query[Walker] \in Requests
  BY QueryAssumption DEF QueryInv, QueryTypeOK
<1>2. UNCHANGED <<db, stored, oldest>>
  BY DEF retention, store
<1>3. CASE SelectFails(Walker)
  <2>1. UNCHANGED walk
    BY <1>3 DEF SelectFails
  <2>2. query'[Walker].pc = "answered" /\ query'[Walker].failed = "select"
    BY <1>1, <1>3 DEF SelectFails, Requests
  <2> QED BY <1>2, <2>1, <2>2 DEF WalkInv, AskedInv, PageInv
<1>4. CASE FetchFoundRows(Walker)
  <2>1. /\ query[Walker].pc = "locked" /\ UNCHANGED walk
        /\ query'[Walker].pc = "answered"
        /\ query'[Walker].records = query[Walker].records
        /\ query'[Walker].page = query[Walker].page
    BY <1>1, <1>4 DEF FetchFoundRows, Requests
  <2>2. query[Walker].failed # "select"
    BY <1>1, <2>1 DEF QueryInv, QueryOK
  <2>3. \A s : (Alive(s)' <=> Alive(s)) /\ Ahead(s)' = Ahead(s)
    BY <1>2, <2>1 DEF Alive, Ahead, Distinct, Summary
  <2>4. Seen' = Seen
    BY <2>1 DEF Seen
  <2>5. PageInv => PageInv'
    BY <2>1, <2>2, <2>3, <2>4 DEF PageInv, Passed
  <2>6. AskedInv'
    BY <2>1 DEF AskedInv
  <2> QED BY <1>2, <2>1, <2>5, <2>6 DEF WalkInv
<1>5. CASE Done(Walker)
  <2>1. query'[Walker].pc = "idle" /\ walk' = NoWalk
    BY <1>1, <1>5 DEF Done, NoQuery
  <2> QED BY <2>1 DEF WalkInv, AskedInv, PageInv, NoWalk
<1> QED BY <1>3, <1>4, <1>5

\* Every step of the composition.
LEMMA WalkInvNext ==
  ASSUME Cardinality(Sample) < IntRange \div 2
  PROVE  RetentionInv /\ QueryInv /\ WalkOK /\ WalkInv /\ [HistoryNext]_history
           => WalkInv'
<1> SUFFICES ASSUME RetentionInv, QueryInv, WalkOK, WalkInv, [HistoryNext]_history
             PROVE  WalkInv'
  OBVIOUS
<1>0. query \in [Client -> Requests] /\ Walker \in Client
  BY QueryAssumption DEF QueryInv, QueryTypeOK
<1>1. CASE RetentionNext /\ UNCHANGED queries
  BY <1>1, WalkInvTables DEF queries
<1>2. CASE QueryStep /\ UNCHANGED retention
  <2>1. ASSUME NEW c \in Client \ {Walker}, NEW p \in Pages, AskPage(c, p)
        PROVE  WalkInv'
    <3>1. query'[Walker] = query[Walker] /\ UNCHANGED walk
      BY <1>0, <2>1 DEF AskPage, Ask
    <3> QED BY <1>2, <3>1, WalkInvOther
  <2>2. ASSUME NEW c \in Client \ {Walker},
               Select(c) \/ SelectFails(c) \/ FetchFoundRows(c) \/ Done(c)
        PROVE  WalkInv'
    <3>1. query'[Walker] = query[Walker] /\ UNCHANGED walk
      BY <1>0, <2>2 DEF Select, SelectFails, FetchFoundRows, Done
    <3> QED BY <1>2, <3>1, WalkInvOther
  <2>3. CASE WalkStarts
    BY <1>2, <2>3, WalkInvStarts
  <2>4. CASE WalkGoesOn
    BY <1>2, <2>4, WalkInvGoesOn
  <2>5. CASE Select(Walker)
    BY <1>2, <2>5, WalkInvSelect
  <2>6. CASE SelectFails(Walker) \/ FetchFoundRows(Walker) \/ Done(Walker)
    BY <1>2, <2>6, WalkInvRest
  <2> QED BY <1>2, <2>1, <2>2, <2>3, <2>4, <2>5, <2>6 DEF QueryStep
<1>3. CASE LoseConnection /\ UNCHANGED retention
  BY <1>3, WalkInvOther DEF LoseConnection
<1>4. CASE UNCHANGED history
  BY <1>4, WalkInvOther DEF history, queries
<1>5. CASE ServerRestarts
  BY <1>5, WalkInvTables DEF ServerRestarts, RetentionNext, LoseConnection
<1> QED BY <1>1, <1>2, <1>3, <1>4, <1>5 DEF HistoryNext

\* A client that reads all pages without a SELECT failing misses no row that was
\* there throughout, does not expire and has a second of its own, for any page
\* size and whatever is stored and removed between its requests, as long as
\* fewer samples are stored than an int can number.
THEOREM HistoryLivingRowsSeen ==
  ASSUME Cardinality(Sample) < IntRange \div 2
  PROVE  HistorySpec => []LivingRowsSeen
<1>1. HistoryInit => QueryInv /\ WalkOK
  BY QueryInvInit DEF HistoryInit, QueryInit, NoWalk, WalkOK
<1>2. RetentionInv /\ WalkInv => LivingRowsSeen
  <2> SUFFICES ASSUME RetentionInv, WalkInv, Answered(Walker), ~FullPage(Walker),
                      query[Walker].failed # "select", NEW s \in walk.from \cap Summary,
                      Distinct(s), TimeOf[s] >= oldest
               PROVE  s \in Seen
    BY DEF LivingRowsSeen
  <2>1. s \in Sample /\ Alive(s)
    BY SummaryType DEF Alive, RetentionInv
  <2>2. PageInv /\ query[Walker].pc = "answered"
    BY DEF WalkInv, Answered
  <2>3. Len(query[Walker].records) <= PageSize /\ Len(query[Walker].records) # PageSize
    BY <2>2 DEF PageInv, FullPage
  <2>4. PageSize \in Nat
    BY QueryAssumption
  <2> QED BY <2>1, <2>2, <2>3, <2>4 DEF PageInv
<1>3. RetentionInv /\ QueryInv /\ WalkOK /\ WalkInv /\ [HistoryNext]_history => WalkInv'
  BY WalkInvNext
<1> QED
  BY <1>1, <1>2, <1>3, WalkInvInit, HistoryInvNext, WalkOKNext, HistoryRetains,
     RetentionIsInvariant, PTL DEF HistorySpec

-----------------------------------------------------------------------------
(* ApiServer: who has the connections of the pool.  A connection that is   *)
(* handed out is usable, so that one found broken by the request that      *)
(* holds it was in use when the database went down; but for a fetch that   *)
(* breaks off, every other end of a request returns it.                    *)

\* The tables and the event move only as Retention says.
THEOREM ApiRetains == ApiSpec => RetentionSpec
<1>1. ApiInit => RetentionInit
  BY DEF ApiInit
<1>2. [ApiNext]_apiVars => [RetentionNext]_retention
  BY DEF ApiNext, ApiStep, apiVars, RetentionNext, TakeConnection, Refuse,
    OpenCursor, NoCursor, Execute, ExecuteFails, Fetch, FetchFails, Close,
    Respond, Outage, Recover
<1> QED
  BY <1>1, <1>2, PTL DEF ApiSpec, RetentionSpec

-----------------------------------------------------------------------------
Answer == [pc : {"idle", "cursor", "execute", "fetch", "close", "answered"},
           route : Routes, conn : SUBSET Connection, before : SUBSET Sample,
           rows : SUBSET Sample, status : {"none", "ok", "error"}]

\* What a request may hold: nothing, or one connection, which is broken only
\* if it was struck.
Holds(q) ==
  /\ q.pc \in {"idle", "answered"} <=> q.conn = {}
  /\ q.conn # {} => \E k \in Connection : q.conn = {k}
  /\ q.conn \cap pool = {}
  /\ q.conn \cap broken \subseteq struck

PoolInv ==
  /\ up \in BOOLEAN /\ pool \subseteq Connection
  /\ broken \subseteq Connection /\ struck \subseteq Connection
  /\ request \in [Request -> Answer]
  /\ \A r \in Request : Holds(request[r])
  /\ \A r, o \in Request : r # o => request[r].conn \cap request[o].conn = {}
  /\ OnlyStruckLeak

\* A connection is in use when some request holds it.
LEMMA InUseIs == \A k : k \in InUse <=> \E r \in Request : k \in request[r].conn
BY DEF InUse

\* All connections are in the pool.
LEMMA PoolInvInit == ApiInit => PoolInv
BY DEF ApiInit, PoolInv, NoRequest, Answer, Routes, Holds, OnlyStruckLeak,
  Leaked, InUse

\* Queries return samples.
LEMMA TablesHoldSamples ==
  ASSUME RetentionTypeOK, NEW route \in Routes
  PROVE  /\ Living(TableOf(route)) \in SUBSET Sample
         /\ \A R \in Answers(route) : R \in SUBSET Sample
<1>1. /\ Head(Tables) \in ToSet(Tables) /\ Last(Tables) \in ToSet(Tables)
  <2>1. Head(Tables) = Tables[1]
    BY RetentionAssumption
  <2>2. Last(Tables) = Tables[Len(Tables)]
    BY DEF Last
  <2> QED BY <2>1, <2>2, TableNames
<1>2. db[Head(Tables)] \in SUBSET Sample /\ db[Last(Tables)] \in SUBSET Sample
  BY <1>1 DEF RetentionTypeOK
<1> QED
  BY <1>2 DEF Living, TableOf, Answers, LastHour, Newest

\* The request of r changes; what it held is held by it, by the pool or, when
\* it was struck, by nobody.
LEMMA PoolInvOther ==
  ASSUME PoolInv, NEW r \in Request,
         up' \in BOOLEAN, pool' \subseteq Connection, UNCHANGED broken,
         struck \subseteq struck', struck' \subseteq Connection,
         request' \in [Request -> Answer],
         \A o \in Request \ {r} : request'[o] = request[o],
         Holds(request[r])',
         request'[r].conn \subseteq request[r].conn,
         pool \subseteq pool', pool' \subseteq pool \cup request[r].conn,
         request[r].conn \subseteq request'[r].conn \cup pool' \cup struck'
  PROVE  PoolInv'
<1>1. \A o \in Request \ {r} : Holds(request[o])'
  BY DEF PoolInv, Holds
<1>2. \A o \in Request : Holds(request[o])'
  BY <1>1
<1>3. \A p, o \in Request : p # o => request'[p].conn \cap request'[o].conn = {}
  BY DEF PoolInv
<1>4. OnlyStruckLeak'
  <2> SUFFICES ASSUME NEW k \in Connection, k \notin pool', k \notin InUse'
               PROVE  k \in struck'
    BY DEF OnlyStruckLeak, Leaked, PoolInv
  <2>1. k \notin pool /\ \A o \in Request : k \notin request'[o].conn
    BY DEF InUse
  <2>2. CASE k \in request[r].conn
    BY <2>1, <2>2
  <2>3. CASE k \notin request[r].conn
    BY <2>1, <2>3, InUseIs DEF OnlyStruckLeak, Leaked, PoolInv
  <2> QED BY <2>2, <2>3
<1> QED
  BY <1>2, <1>3, <1>4 DEF PoolInv

\* A step of r that changes its request to q and keeps the shared state.
LEMMA PoolInvKeeps ==
  ASSUME PoolInv, NEW r \in Request, UNCHANGED <<up, pool, broken>>,
         struck \subseteq struck', struck' \subseteq Connection,
         request' \in [Request -> Answer],
         \A o \in Request \ {r} : request'[o] = request[o],
         request'[r].pc \in {"idle", "answered"} <=> request'[r].conn = {},
         \/ request'[r].conn = request[r].conn
         \/ request'[r].conn = {} /\ request[r].conn \subseteq struck'
  PROVE  PoolInv'
<1>1. Holds(request[r])'
  BY DEF PoolInv, Holds
<1> QED
  BY <1>1, PoolInvOther DEF PoolInv

\* An unusable connection was struck, so that not returning it is no leak of
\* the server's own.
LEMMA UnusableIsStruck ==
  ASSUME PoolInv, NEW r \in Request, ~Usable(r)
  PROVE  request[r].conn \subseteq struck
BY DEF PoolInv, Holds, Usable

\* A request takes a connection from the pool.
LEMMA PoolInvTake ==
  ASSUME PoolInv, RetentionTypeOK, NEW r \in Request, NEW route \in Routes,
         NEW k \in Connection, TakeConnection(r, route, k)
  PROVE  PoolInv'
<1> DEFINE pc == IF route = "health" THEN "close" ELSE "cursor"
           before == IF route = "health" THEN {} ELSE Living(TableOf(route))
           q == [pc |-> pc, route |-> route, conn |-> {k}, rows |-> {},
                 status |-> "ok", before |-> before]
<1>1. /\ request' = [request EXCEPT ![r] = q] /\ request[r].pc = "idle"
      /\ k \in pool /\ pool' = pool \ {k} /\ broken' = broken \ {k}
      /\ UNCHANGED <<up, struck>>
  BY DEF TakeConnection
<1>2. q \in Answer /\ q.pc \in {"close", "cursor"} /\ q.conn = {k}
  <2>1. before \in SUBSET Sample
    BY TablesHoldSamples
  <2> HIDE DEF before
  <2> QED BY <2>1 DEF Answer
<1> HIDE DEF q
<1>3. /\ request' \in [Request -> Answer] /\ request'[r] = q
      /\ \A o \in Request \ {r} : request'[o] = request[o]
  BY <1>1, <1>2 DEF PoolInv
<1>4. request[r].conn = {} /\ \A o \in Request : k \notin request[o].conn
  BY <1>1 DEF PoolInv, Holds
<1>5. \A o \in Request : Holds(request[o])'
  BY <1>1, <1>2, <1>3, <1>4 DEF PoolInv, Holds
<1>6. \A p, o \in Request : p # o => request'[p].conn \cap request'[o].conn = {}
  BY <1>2, <1>3, <1>4 DEF PoolInv
<1>7. OnlyStruckLeak'
  <2> SUFFICES ASSUME NEW x \in Connection, x \notin pool', x \notin InUse'
               PROVE  x \in struck
    BY <1>1 DEF OnlyStruckLeak, Leaked, PoolInv
  <2>1. \A o \in Request : x \notin request'[o].conn
    BY DEF InUse
  <2>2. x # k /\ x \notin pool /\ \A o \in Request : x \notin request[o].conn
    BY <1>1, <1>2, <1>3, <1>4, <2>1
  <2> QED BY <2>2, InUseIs DEF OnlyStruckLeak, Leaked, PoolInv
<1> QED
  BY <1>1, <1>3, <1>5, <1>6, <1>7 DEF PoolInv

\* The other steps of a request, except Close, keep the pool; the request keeps
\* its connection, or loses one that was struck or whose fetch broke off.
LEMMA PoolInvRequest ==
  ASSUME PoolInv, RetentionTypeOK, NEW r \in Request,
         \/ Refuse(r) \/ OpenCursor(r) \/ NoCursor(r) \/ Execute(r)
         \/ ExecuteFails(r) \/ Fetch(r) \/ FetchFails(r) \/ Respond(r)
  PROVE  PoolInv'
<1>0. request \in [Request -> Answer] /\ request[r] \in Answer /\ Holds(request[r])
  BY DEF PoolInv
<1>1. CASE Refuse(r)
  <2> DEFINE q == [request[r] EXCEPT !.pc = "answered", !.status = "error"]
  <2>1. /\ request' = [request EXCEPT ![r] = q]
        /\ request[r].pc = "idle" /\ UNCHANGED <<up, pool, broken, struck>>
    BY <1>0, <1>1 DEF Refuse
  <2>2. q \in Answer /\ q.pc = "answered" /\ q.conn = request[r].conn
    BY <1>0 DEF Answer, NoRequest, Routes
  <2> HIDE DEF q
  <2>3. /\ request' \in [Request -> Answer] /\ request'[r] = q
        /\ \A o \in Request \ {r} : request'[o] = request[o]
    BY <1>0, <2>1, <2>2
  <2> QED BY <1>0, <2>1, <2>2, <2>3, PoolInvKeeps DEF Holds, PoolInv
<1>2. CASE OpenCursor(r)
  <2> DEFINE q == [request[r] EXCEPT !.pc = "execute"]
  <2>1. /\ request' = [request EXCEPT ![r] = q]
        /\ request[r].pc = "cursor" /\ UNCHANGED <<up, pool, broken, struck>>
    BY <1>0, <1>2 DEF OpenCursor
  <2>2. q \in Answer /\ q.pc = "execute" /\ q.conn = request[r].conn
    BY <1>0 DEF Answer, NoRequest, Routes
  <2> HIDE DEF q
  <2>3. /\ request' \in [Request -> Answer] /\ request'[r] = q
        /\ \A o \in Request \ {r} : request'[o] = request[o]
    BY <1>0, <2>1, <2>2
  <2> QED BY <1>0, <2>1, <2>2, <2>3, PoolInvKeeps DEF Holds, PoolInv
<1>3. CASE NoCursor(r)
  <2> DEFINE q == [request[r] EXCEPT !.pc = "answered", !.status = "error", !.conn = {}]
  <2>1. /\ request' = [request EXCEPT ![r] = q]
        /\ ~Usable(r) /\ UNCHANGED <<up, pool, broken, struck>>
    BY <1>0, <1>3 DEF NoCursor, Leak
  <2>2. q \in Answer /\ q.pc = "answered" /\ q.conn = {}
    BY <1>0 DEF Answer, NoRequest, Routes
  <2> HIDE DEF q
  <2>3. /\ request' \in [Request -> Answer] /\ request'[r] = q
        /\ \A o \in Request \ {r} : request'[o] = request[o]
    BY <1>0, <2>1, <2>2
  <2> QED BY <2>1, <2>2, <2>3, UnusableIsStruck, PoolInvKeeps DEF PoolInv
<1>4. CASE Execute(r)
  <2>0. PICK R \in Answers(request[r].route) :
               request' = [request EXCEPT ![r].pc = "fetch", ![r].rows = R]
    BY <1>4 DEF Execute
  <2> DEFINE q == [request[r] EXCEPT !.pc = "fetch", !.rows = R]
  <2>1. /\ request' = [request EXCEPT ![r] = q]
        /\ request[r].pc = "execute" /\ UNCHANGED <<up, pool, broken, struck>>
    BY <1>0, <1>4, <2>0 DEF Execute
  <2>5. R \in SUBSET Sample
    BY <1>0, <2>0, TablesHoldSamples DEF Answer
  <2>2. q \in Answer /\ q.pc = "fetch" /\ q.conn = request[r].conn
    BY <1>0, <2>5 DEF Answer, NoRequest, Routes
  <2> HIDE DEF q
  <2>3. /\ request' \in [Request -> Answer] /\ request'[r] = q
        /\ \A o \in Request \ {r} : request'[o] = request[o]
    BY <1>0, <2>1, <2>2
  <2> QED BY <1>0, <2>1, <2>2, <2>3, PoolInvKeeps DEF Holds, PoolInv
<1>5. CASE ExecuteFails(r)
  <2> DEFINE q == [request[r] EXCEPT !.pc = "close", !.status = "error"]
  <2>1. /\ request' = [request EXCEPT ![r] = q]
        /\ request[r].pc = "execute" /\ UNCHANGED <<up, pool, broken, struck>>
    BY <1>0, <1>5 DEF ExecuteFails, Fails
  <2>2. q \in Answer /\ q.pc = "close" /\ q.conn = request[r].conn
    BY <1>0 DEF Answer, NoRequest, Routes
  <2> HIDE DEF q
  <2>3. /\ request' \in [Request -> Answer] /\ request'[r] = q
        /\ \A o \in Request \ {r} : request'[o] = request[o]
    BY <1>0, <2>1, <2>2
  <2> QED BY <1>0, <2>1, <2>2, <2>3, PoolInvKeeps DEF Holds, PoolInv
<1>6. CASE Fetch(r)
  <2> DEFINE q == [request[r] EXCEPT !.pc = "close"]
  <2>1. /\ request' = [request EXCEPT ![r] = q]
        /\ request[r].pc = "fetch" /\ UNCHANGED <<up, pool, broken, struck>>
    BY <1>0, <1>6 DEF Fetch
  <2>2. q \in Answer /\ q.pc = "close" /\ q.conn = request[r].conn
    BY <1>0 DEF Answer, NoRequest, Routes
  <2> HIDE DEF q
  <2>3. /\ request' \in [Request -> Answer] /\ request'[r] = q
        /\ \A o \in Request \ {r} : request'[o] = request[o]
    BY <1>0, <2>1, <2>2
  <2> QED BY <1>0, <2>1, <2>2, <2>3, PoolInvKeeps DEF Holds, PoolInv
<1>7. ASSUME FetchFails(r), Fails(r, "close") PROVE PoolInv'
  <2> DEFINE q == [request[r] EXCEPT !.pc = "close", !.status = "error"]
  <2>1. /\ request' = [request EXCEPT ![r] = q]
        /\ request[r].pc = "fetch" /\ UNCHANGED <<up, pool, broken>>
        /\ struck' = struck \cup request[r].conn
    BY <1>0, <1>7 DEF FetchFails, Fails
  <2>2. q \in Answer /\ q.pc = "close" /\ q.conn = request[r].conn
    BY <1>0 DEF Answer, NoRequest, Routes
  <2> HIDE DEF q
  <2>3. /\ request' \in [Request -> Answer] /\ request'[r] = q
        /\ \A o \in Request \ {r} : request'[o] = request[o]
    BY <1>0, <2>1, <2>2
  <2>4. struck \subseteq struck' /\ struck' \subseteq Connection
    BY <1>0, <2>1 DEF PoolInv, Answer
  <2> QED BY <1>0, <2>1, <2>2, <2>3, <2>4, PoolInvKeeps DEF Holds
<1>8. ASSUME FetchFails(r), Leak(r) PROVE PoolInv'
  <2> DEFINE q == [request[r] EXCEPT !.pc = "answered", !.status = "error", !.conn = {}]
  <2>1. /\ request' = [request EXCEPT ![r] = q]
        /\ UNCHANGED <<up, pool, broken>> /\ struck' = struck \cup request[r].conn
    BY <1>0, <1>8 DEF FetchFails, Leak
  <2>2. q \in Answer /\ q.pc = "answered" /\ q.conn = {}
    BY <1>0 DEF Answer, NoRequest, Routes
  <2> HIDE DEF q
  <2>3. /\ request' \in [Request -> Answer] /\ request'[r] = q
        /\ \A o \in Request \ {r} : request'[o] = request[o]
    BY <1>0, <2>1, <2>2
  <2>4. /\ struck \subseteq struck' /\ struck' \subseteq Connection
        /\ request[r].conn \subseteq struck'
    BY <1>0, <2>1 DEF PoolInv, Answer
  <2> QED BY <2>1, <2>2, <2>3, <2>4, PoolInvKeeps
<1>9. CASE Respond(r)
  <2> DEFINE q == NoRequest
  <2>1. /\ request' = [request EXCEPT ![r] = q]
        /\ request[r].pc = "answered" /\ UNCHANGED <<up, pool, broken, struck>>
    BY <1>0, <1>9 DEF Respond
  <2>2. q \in Answer /\ q.pc = "idle" /\ q.conn = {}
    BY <1>0 DEF Answer, NoRequest, Routes
  <2> HIDE DEF q
  <2>3. /\ request' \in [Request -> Answer] /\ request'[r] = q
        /\ \A o \in Request \ {r} : request'[o] = request[o]
    BY <1>0, <2>1, <2>2
  <2> QED BY <1>0, <2>1, <2>2, <2>3, PoolInvKeeps DEF Holds, PoolInv
<1> QED
  BY <1>1, <1>2, <1>3, <1>4, <1>5, <1>6, <1>7, <1>8, <1>9 DEF FetchFails

\* A request gives its connection back, or leaks it.
LEMMA PoolInvClose ==
  ASSUME PoolInv, NEW r \in Request, Close(r)
  PROVE  PoolInv'
<1>0. request \in [Request -> Answer] /\ request[r] \in Answer /\ Holds(request[r])
  BY DEF PoolInv
<1>1. PICK status \in {request[r].status} \cup IF Usable(r) THEN {} ELSE {"error"} :
        request' = [request EXCEPT ![r].pc = "answered", ![r].status = status,
                                   ![r].conn = {}]
  BY DEF Close
<1>2. status \in {"none", "ok", "error"}
  BY <1>0 DEF Answer
<1> DEFINE q == [request[r] EXCEPT !.pc = "answered", !.status = status, !.conn = {}]
<1>3. /\ request' = [request EXCEPT ![r] = q] /\ pool' = pool \cup request[r].conn
      /\ UNCHANGED <<up, broken, struck>>
  BY <1>0, <1>1 DEF Close
<1>4. q \in Answer /\ q.pc = "answered" /\ q.conn = {}
  BY <1>0, <1>2 DEF Answer
<1> HIDE DEF q
<1>5. /\ request' \in [Request -> Answer] /\ request'[r] = q
      /\ \A o \in Request \ {r} : request'[o] = request[o]
  BY <1>0, <1>3, <1>4
<1>6. Holds(request[r])'
  BY <1>4, <1>5 DEF Holds
<1>7. request[r].conn \subseteq Connection
  BY <1>0 DEF Answer
<1> QED
  BY <1>3, <1>4, <1>5, <1>6, <1>7, PoolInvOther DEF PoolInv

\* The database goes down and breaks sessions.
LEMMA PoolInvOutage ==
  ASSUME PoolInv, Outage
  PROVE  PoolInv'
<1>1. /\ up' = FALSE /\ broken' = Connection /\ struck' = struck \cup InUse
      /\ UNCHANGED <<pool, request>>
  BY DEF Outage
<1>2. \A r \in Request : request[r].conn \subseteq InUse
  BY InUseIs
<1>3. InUse \subseteq Connection
  <2>1. \A r \in Request : request[r].conn \subseteq Connection
    BY DEF PoolInv, Answer
  <2> QED BY <2>1, InUseIs
<1>4. \A r \in Request : Holds(request[r])'
  BY <1>1, <1>2 DEF PoolInv, Holds
<1>5. OnlyStruckLeak'
  BY <1>1 DEF PoolInv, OnlyStruckLeak, Leaked, InUse
<1> QED
  BY <1>1, <1>3, <1>4, <1>5 DEF PoolInv

\* Every step of the API server.
LEMMA PoolInvNext == RetentionInv /\ PoolInv /\ [ApiNext]_apiVars => PoolInv'
<1> SUFFICES ASSUME RetentionInv, PoolInv, [ApiNext]_apiVars PROVE PoolInv'
  OBVIOUS
<1>1. RetentionTypeOK
  BY DEF RetentionInv
<1>2. ASSUME NEW r \in Request, ApiStep(r) PROVE PoolInv'
  <2>1. ASSUME NEW route \in Routes, NEW k \in Connection,
               TakeConnection(r, route, k)
        PROVE  PoolInv'
    BY <1>1, <2>1, PoolInvTake
  <2>2. CASE Close(r)
    BY <2>2, PoolInvClose
  <2> QED BY <1>1, <1>2, <2>1, <2>2, PoolInvRequest DEF ApiStep
<1>3. CASE Outage
  BY <1>3, PoolInvOutage
<1>4. CASE Recover
  <2>1. up' = TRUE /\ UNCHANGED <<pool, broken, request, struck>>
    BY <1>4 DEF Recover
  <2> QED BY <2>1 DEF PoolInv, Holds, OnlyStruckLeak, Leaked, InUse
<1>5. CASE UNCHANGED api
  BY <1>5 DEF api, PoolInv, Holds, OnlyStruckLeak, Leaked, InUse
<1> QED
  BY <1>2, <1>3, <1>4, <1>5 DEF ApiNext, apiVars

\* The pool's invariant holds at all times.
LEMMA PoolIsInvariant == ApiSpec => []PoolInv
BY PoolInvInit, PoolInvNext, ApiRetains, RetentionIsInvariant, PTL DEF ApiSpec

\* Type correctness: a request has a connection exactly when it needs one.
THEOREM ApiTypeCorrect == ApiSpec => []ApiTypeOK
<1>1. PoolInv => ApiTypeOK
  BY DEF PoolInv, ApiTypeOK, Answer, Holds
<1> QED BY <1>1, PoolIsInvariant, PTL

\* A pool of any size never hands a connection to two requests, and loses none
\* but those that were in use when the database went down or whose fetch broke
\* off, whatever fails and however requests interleave.
THEOREM ApiPoolIsKept == ApiSpec => []PoolIsKept
<1>1. PoolInv => PoolIsKept
  BY DEF PoolInv, PoolIsKept, HeldByOne, Holds
<1> QED BY <1>1, PoolIsInvariant, PTL
-----------------------------------------------------------------------------
(* ApiServer: how old an answer may be.  The rows a table held when the    *)
(* request arrived and that have not expired are still there when its      *)
(* statement runs (HalvesAreExpired), and the statement returns the newest *)
(* row, or the last hour without some of its older rows.                   *)

\* Among finitely many rows one is the newest.
LEMMA NewestExists ==
  ASSUME NEW R \in SUBSET Sample, R # {}
  PROVE  \E s \in R : \A o \in R : TimeOf[o] <= TimeOf[s]
<1> DEFINE Bad == {T \in SUBSET R : /\ T # {}
                     /\ \A s \in T : \E o \in T : ~(TimeOf[o] <= TimeOf[s])}
<1>1. IsFiniteSet(R)
  BY RetentionAssumption, FS_Subset
<1>2. SUFFICES ASSUME Bad # {} PROVE FALSE
  OBVIOUS
<1>3. IsWellFoundedOn(StrictSubsetOrdering(R), SUBSET R)
  BY <1>1, FS_StrictSubsetOrderingWellFounded, FS_FiniteSubsetsOfFinite
<1>4. Bad \in SUBSET (SUBSET R)
  OBVIOUS
<1>5. PICK T \in Bad : \A U \in Bad : ~ (<<U, T>> \in StrictSubsetOrdering(R))
  <2> HIDE DEF Bad
  <2> QED BY <1>2, <1>3, <1>4, WFMin
<1>6. PICK x \in T : TRUE
  OBVIOUS
<1>7. \A s \in T : TimeOf[s] \in Nat
  BY RetentionAssumption
<1>8. CASE T \ {x} = {}
  BY <1>6, <1>7, <1>8
<1>9. CASE T \ {x} # {}
  <2>1. T \ {x} \in SUBSET R /\ T \ {x} # T
    BY <1>6
  <2>2. T \ {x} \notin Bad
    <3> HIDE DEF Bad
    <3> QED BY <1>4, <1>5, <2>1 DEF StrictSubsetOrdering
  <2>3. PICK y \in T \ {x} : \A o \in T \ {x} : TimeOf[o] <= TimeOf[y]
    BY <1>9, <2>1, <2>2
  <2>4. CASE TimeOf[x] <= TimeOf[y]
    BY <1>6, <2>3, <2>4
  <2>5. CASE ~(TimeOf[x] <= TimeOf[y])
    <3>1. \A o \in T : TimeOf[o] <= TimeOf[x]
      BY <1>6, <1>7, <2>3, <2>5
    <3> QED BY <1>6, <3>1
  <2> QED BY <2>4, <2>5
<1> QED BY <1>8, <1>9

\* What an answer whose statement ran at horizon `old' owes its request.
HorizonOf(q, old) == old + IF q.route = "history" THEN Recent ELSE 0
FreshAt(q, old) ==
  \A b \in q.before : TimeOf[b] >= HorizonOf(q, old) =>
    \E s \in q.rows : TimeOf[s] >= TimeOf[b]
Fine(q, rows, old) ==
  /\ q.before \subseteq rows
  /\ q.pc \in {"fetch", "close", "answered"} /\ q.status = "ok" => FreshAt(q, old)

FreshInv == \A r \in Request : Fine(request[r], stored, oldest)

\* Rows are only added to what was ever stored, and the horizon only advances.
LEMMA FineStays ==
  ASSUME NEW q \in Answer, NEW R, NEW S, R \subseteq S,
         NEW m \in Nat, NEW n \in Nat, m <= n, Fine(q, R, m)
  PROVE  Fine(q, S, n)
<1>1. q.before \subseteq Sample
  BY DEF Answer
<1>2. \A b \in q.before : TimeOf[b] \in Nat
  BY <1>1, RetentionAssumption
<1>3. HorizonOf(q, m) \in Nat /\ HorizonOf(q, n) \in Nat
      /\ HorizonOf(q, m) <= HorizonOf(q, n)
  BY ApiAssumption DEF HorizonOf
<1>4. FreshAt(q, m) => FreshAt(q, n)
  <2> SUFFICES ASSUME FreshAt(q, m), NEW b \in q.before,
                      TimeOf[b] >= HorizonOf(q, n)
               PROVE  \E s \in q.rows : TimeOf[s] >= TimeOf[b]
    BY DEF FreshAt
  <2>1. TimeOf[b] >= HorizonOf(q, m)
    BY <1>2, <1>3
  <2> QED BY <2>1 DEF FreshAt
<1> QED BY <1>4 DEF Fine

\* A row that has not expired is in the table of every route.
LEMMA TableKeepsLiving ==
  ASSUME RetentionInv, NEW route, NEW b \in stored, TimeOf[b] >= oldest
  PROVE  b \in TableOf(route) /\ b \in db[Head(Tables)]
<1>1. Head(Tables) \in ToSet(Tables) /\ Last(Tables) \in ToSet(Tables)
  <2>1. Head(Tables) = Tables[1]
    BY RetentionAssumption
  <2>2. Last(Tables) = Tables[Len(Tables)]
    BY DEF Last
  <2> QED BY <2>1, <2>2, TableNames
<1>2. DOMAIN db = ToSet(Tables)
  BY DEF RetentionInv, RetentionTypeOK
<1> QED BY <1>1, <1>2 DEF RetentionInv, HalvesAreExpired, TableOf

\* The statement of a request returns what it owes.
LEMMA AnswersAreNew ==
  ASSUME RetentionInv, NEW route \in Routes, NEW R \in Answers(route),
         NEW b \in stored,
         TimeOf[b] >= oldest + IF route = "history" THEN Recent ELSE 0
  PROVE  \E s \in R : TimeOf[s] >= TimeOf[b]
<1>1. oldest \in Nat /\ Recent \in Nat /\ \A s \in Sample : TimeOf[s] \in Nat
  BY RetentionAssumption, ApiAssumption DEF RetentionInv, RetentionTypeOK
<1>2. b \in Sample
  BY DEF RetentionInv, RetentionTypeOK
<1>3. TimeOf[b] >= oldest
  BY <1>1, <1>2
<1>4. b \in TableOf(route) /\ b \in db[Head(Tables)]
  BY <1>3, TableKeepsLiving
<1>5. \A t \in ToSet(Tables) : db[t] \in SUBSET Sample
  BY DEF RetentionInv, RetentionTypeOK
<1>6. Head(Tables) \in ToSet(Tables) /\ Last(Tables) \in ToSet(Tables)
  <2>1. Head(Tables) = Tables[1]
    BY RetentionAssumption
  <2>2. Last(Tables) = Tables[Len(Tables)]
    BY DEF Last
  <2> QED BY <2>1, <2>2, TableNames
<1>7. CASE route = "history"
  <2>1. /\ R \in SUBSET LastHour
        /\ Cardinality(R) = Min({Limit, Cardinality(LastHour)})
        /\ \A s \in LastHour \ R, h \in R : TimeOf[s] <= TimeOf[h]
    BY <1>7 DEF Answers
  <2>2. b \in LastHour
    BY <1>4, <1>7 DEF LastHour
  <2>3. LastHour \in SUBSET Sample /\ IsFiniteSet(LastHour)
    BY <1>5, <1>6, RetentionAssumption, FS_Subset DEF LastHour
  <2>4. Cardinality(LastHour) \in Nat /\ Cardinality(LastHour) # 0
    BY <2>2, <2>3, FS_CardinalityType, FS_EmptySet
  <2>5. Min({Limit, Cardinality(LastHour)}) # 0
    BY <2>4, ApiAssumption DEF Min
  <2>6. R # {}
    BY <2>1, <2>5, FS_EmptySet
  <2>7. CASE b \in R
    BY <1>1, <1>2, <2>7
  <2>8. CASE b \notin R
    <3>1. PICK h \in R : TRUE
      BY <2>6
    <3>2. TimeOf[b] <= TimeOf[h] /\ h \in Sample
      BY <2>1, <2>2, <2>3, <2>8
    <3> QED BY <1>1, <1>2, <3>2
  <2> QED BY <2>7, <2>8
<1>8. CASE route # "history"
  <2>1. R = Newest(TableOf(route))
    BY <1>8 DEF Answers
  <2>2. TableOf(route) \in SUBSET Sample
    BY <1>5, <1>6 DEF TableOf
  <2>3. PICK s \in TableOf(route) : \A o \in TableOf(route) : TimeOf[o] <= TimeOf[s]
    BY <1>4, <2>2, NewestExists
  <2>4. s \in R /\ TimeOf[b] <= TimeOf[s]
    BY <1>4, <2>1, <2>3 DEF Newest
  <2> QED BY <1>1, <1>2, <2>2, <2>4
<1> QED BY <1>7, <1>8

\* No request has arrived.
LEMMA FreshInvInit == ApiInit => FreshInv
BY DEF ApiInit, FreshInv, Fine, NoRequest

\* A step of request r that leaves the tables alone.
LEMMA FreshInvStep ==
  ASSUME RetentionInv, PoolInv, FreshInv, NEW r \in Request, ApiStep(r)
  PROVE  FreshInv'
<1>0. /\ request \in [Request -> Answer] /\ request[r] \in Answer
      /\ Fine(request[r], stored, oldest) /\ UNCHANGED <<stored, oldest, db>>
  BY DEF PoolInv, FreshInv, ApiStep, TakeConnection, Refuse, OpenCursor,
    NoCursor, Execute, ExecuteFails, Fetch, FetchFails, Close, Respond,
    retention, store
<1>1. SUFFICES ASSUME NEW q, request' = [request EXCEPT ![r] = q]
               PROVE  Fine(q, stored, oldest)
  <2>1. \E q : request' = [request EXCEPT ![r] = q]
    BY Zenon DEF ApiStep, TakeConnection, Refuse, OpenCursor, NoCursor, Execute,
      ExecuteFails, Fetch, FetchFails, Close, Respond, Fails, Leak
  <2>2. PICK q : request' = [request EXCEPT ![r] = q]
    BY <2>1
  <2>3. /\ request'[r] = q /\ DOMAIN request' = Request
        /\ \A o \in Request \ {r} : request'[o] = request[o]
    BY <1>0, <2>2
  <2> QED BY <1>0, <1>1, <2>2, <2>3 DEF FreshInv
<1>2. request'[r] = q
  BY <1>0, <1>1
<1>3. ASSUME NEW route \in Routes, NEW k \in Connection, TakeConnection(r, route, k)
      PROVE  Fine(q, stored, oldest)
  <2>1. /\ q.before = IF route = "health" THEN {} ELSE Living(TableOf(route))
        /\ q.pc = IF route = "health" THEN "close" ELSE "cursor"
    BY <1>0, <1>2, <1>3 DEF TakeConnection
  <2>2. TableOf(route) \subseteq stored
    <3>1. Head(Tables) \in ToSet(Tables) /\ Last(Tables) \in ToSet(Tables)
      <4>1. Head(Tables) = Tables[1]
        BY RetentionAssumption
      <4>2. Last(Tables) = Tables[Len(Tables)]
        BY DEF Last
      <4> QED BY <4>1, <4>2, TableNames
    <3> QED BY <3>1 DEF RetentionInv, RetentionTypeOK, TableOf
  <2> QED BY <2>1, <2>2 DEF Fine, FreshAt, Living
<1>4. CASE Execute(r)
  <2>1. PICK R \in Answers(request[r].route) :
               request' = [request EXCEPT ![r].pc = "fetch", ![r].rows = R]
    BY <1>4 DEF Execute
  <2>2. q = [request[r] EXCEPT !.pc = "fetch", !.rows = R]
    BY <1>0, <1>2, <2>1
  <2>3. q.before = request[r].before /\ q.rows = R /\ q.route = request[r].route
        /\ q.route \in Routes /\ q.before \subseteq stored
    BY <1>0, <2>2 DEF Answer, Fine
  <2>4. FreshAt(q, oldest)
    BY <2>1, <2>3, AnswersAreNew DEF FreshAt, HorizonOf
  <2> QED BY <2>3, <2>4 DEF Fine
<1>5. CASE Refuse(r) \/ NoCursor(r) \/ ExecuteFails(r) \/ FetchFails(r)
  <2>1. q.status = "error" /\ q.before = request[r].before
    BY <1>0, <1>2, <1>5
       DEF Refuse, NoCursor, ExecuteFails, FetchFails, Leak, Fails, Answer
  <2> QED BY <1>0, <2>1 DEF Fine
<1>6. CASE OpenCursor(r)
  <2>1. q.pc = "execute" /\ q.before = request[r].before
    BY <1>0, <1>2, <1>6 DEF OpenCursor, Answer
  <2> QED BY <1>0, <2>1 DEF Fine
<1>7. CASE Fetch(r) \/ Close(r)
  <2>1. /\ q.before = request[r].before /\ q.rows = request[r].rows
        /\ q.route = request[r].route
        /\ q.status = "ok" => request[r].status = "ok"
        /\ request[r].pc \in {"fetch", "close"}
    <3>1. CASE Fetch(r)
      BY <1>0, <1>2, <3>1 DEF Fetch, Answer
    <3>2. CASE Close(r)
      <4>1. PICK status \in {request[r].status} \cup IF Usable(r) THEN {} ELSE {"error"} :
              request' = [request EXCEPT ![r].pc = "answered", ![r].status = status,
                                         ![r].conn = {}]
        BY <3>2 DEF Close
      <4>2. q = [request[r] EXCEPT !.pc = "answered", !.status = status, !.conn = {}]
        BY <1>0, <1>2, <4>1
      <4>3. request[r].pc = "close" /\ (status = "ok" => request[r].status = "ok")
        BY <3>2 DEF Close
      <4> QED BY <1>0, <4>2, <4>3 DEF Answer
    <3> QED BY <1>7, <3>1, <3>2
  <2> QED BY <1>0, <2>1 DEF Fine, FreshAt, HorizonOf
<1>8. CASE Respond(r)
  <2>1. q = NoRequest
    BY <1>0, <1>2, <1>8 DEF Respond
  <2> QED BY <2>1 DEF Fine, NoRequest
<1> QED
  BY <1>3, <1>4, <1>5, <1>6, <1>7, <1>8 DEF ApiStep

\* Every step of requests, tables and event.
LEMMA FreshInvNext ==
  RetentionInv /\ PoolInv /\ FreshInv /\ [ApiNext]_apiVars => FreshInv'
<1> SUFFICES ASSUME RetentionInv, PoolInv, FreshInv, [ApiNext]_apiVars
             PROVE  FreshInv'
  OBVIOUS
<1>1. CASE \E r \in Request : ApiStep(r)
  BY <1>1, FreshInvStep
<1>2. CASE ~\E r \in Request : ApiStep(r)
  <2>1. UNCHANGED request /\ [RetentionNext]_retention
    BY <1>2 DEF ApiNext, apiVars, api, Outage, Recover, RetentionNext
  <2>2. stored \subseteq stored' /\ oldest \in Nat /\ oldest' \in Nat /\ oldest <= oldest'
    BY <2>1, RetentionAssumption DEF RetentionInv, RetentionTypeOK, RetentionNext,
      Commit, Age, EventStarts, DeleteBatch, LeaveLoop, EventAborts, retention, store
  <2>3. \A r \in Request : request[r] \in Answer
    BY DEF PoolInv
  <2>4. \A r \in Request : Fine(request[r], stored', oldest')
    BY <2>2, <2>3, FineStays DEF FreshInv
  <2> QED BY <2>1, <2>4 DEF FreshInv
<1> QED BY <1>1, <1>2

\* No answer is older than a row its table held when the request arrived, for
\* any order of commits, any limit and whatever expires or fails meanwhile.
THEOREM ApiAnswerIsFresh == ApiSpec => []AnswerIsFresh
<1>1. FreshInv => AnswerIsFresh
  BY DEF FreshInv, AnswerIsFresh, Fine, FreshAt, HorizonOf
<1> QED
  BY <1>1, FreshInvInit, FreshInvNext, PoolIsInvariant, ApiRetains,
     RetentionIsInvariant, PTL DEF ApiSpec
=============================================================================
