---------------------------- MODULE QueryManager ----------------------------
(***************************************************************************)
(* Queries of stored samples: the handlers of query_service.cpp and        *)
(* QueryManager (manager/src/query_manager.cpp), which answers them page   *)
(* by page over one connection under one mutex.  QueryPerformance stands   *)
(* for the queries of all five tables, which differ in columns only.       *)
(*                                                                         *)
(* Close, called by the destructor, is left out: the server and with it    *)
(* all queries have ended by then.                                         *)
(***************************************************************************)
EXTENDS Retention

CONSTANTS Client,     \* the clients, each with one request at a time
          Walker,     \* the client that reads all pages, one after the other
          Pages,      \* the page numbers the others ask for
          PageSize,   \* page_size of the requests
          IntRange    \* 2^32: the number of values of int

ASSUME QueryAssumption ==
  /\ Walker \in Client /\ Pages \subseteq Int
  /\ PageSize \in Nat \ {0} /\ IntRange \in Nat \ {0}

VARIABLES
  connection,  \* conn_: "none", "open" or "lost"
  foundRows,   \* what FOUND_ROWS() would return on the connection
  query,       \* query[c]: the request of client c and its answer, and, as
               \* history, the rows the SELECT saw and the statement that failed
  walk         \* the walker: [from: rows at its start, seen: rows so far]

queries == <<connection, foundRows, query, walk>>

NoQuery == [pc |-> "idle", page |-> 1, records |-> <<>>, total |-> 0, rows |-> {},
            failed |-> "nothing"]
NoWalk == [from |-> {}, seen |-> {}]

\* main calls Init once: it has connected, or failed for good.
QueryInit ==
  /\ connection \in {"none", "open"} /\ foundRows = 0
  /\ query = [c \in Client |-> NoQuery]
  /\ walk = NoWalk

Summary == db[Head(Tables)]

\* Mutant of MutexFree: the mutex is released between the two statements.
MutexReleased == TRUE

\* mtx_ is held from the first statement of a query to the end of the second.
MutexFree == \A c \in Client : query[c].pc # "locked"

-----------------------------------------------------------------------------
\* A handler of the query service finds the backend initialized and the
\* request complete; a page number below 1 counts as 1.
Ask(c, p) ==
  /\ connection # "none" /\ MutexFree
  /\ query' = [query EXCEPT ![c] =
                 [NoQuery EXCEPT !.pc = "asked", !.page = IF p < 1 THEN 1 ELSE p]]
  /\ UNCHANGED <<connection, foundRows>>

AskPage(c, p) == query[c].pc = "idle" /\ Ask(c, p) /\ UNCHANGED walk

\* The walker starts with the first page and goes on while pages are full.
WalkStarts ==
  /\ query[Walker].pc = "idle"
  /\ Ask(Walker, 1)
  /\ walk' = [from |-> Summary, seen |-> {}]

FullPage(c) == query[c].pc = "answered" /\ Len(query[c].records) = PageSize
Seen == walk.seen \cup ToSet(query[Walker].records)

WalkGoesOn ==
  /\ FullPage(Walker)
  /\ Ask(Walker, query[Walker].page + 1)
  /\ walk' = [walk EXCEPT !.seen = Seen]

\* The client has its answer.
Done(c) ==
  /\ query[c].pc = "answered" /\ ~(c = Walker /\ FullPage(c))
  /\ query' = [query EXCEPT ![c] = NoQuery]
  /\ walk' = IF c = Walker THEN NoWalk ELSE walk
  /\ UNCHANGED <<connection, foundRows>>

-----------------------------------------------------------------------------
\* A product of ints, which wraps in the machine.
AsInt(n) == ((n + IntRange \div 2) % IntRange) - IntRange \div 2

\* Mutant of Offset: pages counted from 0.
OffsetFromZero(p) == AsInt(p * PageSize)

Offset(p) == AsInt((p - 1) * PageSize)

\* Mutant of Before: ORDER BY timestamp.
BeforeAscending(r, s) == TimeOf[r] < TimeOf[s]

\* ORDER BY timestamp DESC.
Before(r, s) == TimeOf[r] > TimeOf[s]

\* The orders MySQL may return rows in: equal timestamps are in no order.
Orders(R) ==
  {o \in SetToSeqs(R) :
     \A i, j \in 1 .. Cardinality(R) : Before(o[i], o[j]) => i < j}

PageOf(o, from) == SubSeq(o, from + 1, Min({from + PageSize, Len(o)}))

\* QueryPerformance takes the mutex: SELECT SQL_CALC_FOUND_ROWS ... succeeds.
Select(c) ==
  /\ query[c].pc = "asked" /\ MutexFree
  /\ connection = "open" /\ Offset(query[c].page) >= 0
  /\ \E o \in Orders(Summary) :
       query' = [query EXCEPT ![c].pc = "locked", ![c].rows = Summary,
                   ![c].records = PageOf(o, Offset(query[c].page))]
  /\ foundRows' = Cardinality(Summary)
  /\ UNCHANGED <<connection, walk>>

\* The SELECT fails: the connection is lost, the offset is negative, or the
\* server refuses, kills or times out the statement or the transfer of its
\* result.  The answer is OK, without rows and with a total of 0.
SelectFails(c) ==
  /\ query[c].pc = "asked" /\ MutexFree
  /\ query' = [query EXCEPT ![c].pc = "answered", ![c].failed = "select"]
  /\ UNCHANGED <<connection, foundRows, walk>>

\* SELECT FOUND_ROWS(), which fails at will and on a lost connection; a failure
\* counts as 0 rows and keeps the records.  The mutex is released.
FetchFoundRows(c) ==
  /\ query[c].pc = "locked"
  /\ \/ /\ connection = "open"
        /\ query' = [query EXCEPT ![c].pc = "answered", ![c].total = foundRows]
     \/ query' = [query EXCEPT ![c].pc = "answered", ![c].failed = "count"]
  /\ UNCHANGED <<connection, foundRows, walk>>

\* The server restarts or closes the idle connection.  Nothing reopens it.
LoseConnection ==
  /\ connection = "open"
  /\ connection' = "lost"
  /\ UNCHANGED <<foundRows, query, walk>>

QueryStep ==
  \/ \E c \in Client \ {Walker}, p \in Pages : AskPage(c, p)
  \/ WalkStarts \/ WalkGoesOn
  \/ \E c \in Client : Select(c) \/ SelectFails(c) \/ FetchFoundRows(c) \/ Done(c)

-----------------------------------------------------------------------------
Exact(p) == (p - 1) * PageSize < IntRange \div 2
Answered(c) == query[c].pc = "answered"

IsPage(q) ==
  \E o \in Orders(q.rows) : q.records = PageOf(o, (q.page - 1) * PageSize)

\* An answer is one snapshot: its records are the asked page of the rows the
\* SELECT saw, and its total the number of those rows, not of the rows another
\* query found on the same connection.  A failure is all that can take away
\* from it, and takes all: without FOUND_ROWS() the page has a total of 0, and
\* without the SELECT there is no row, and no total left over from another
\* query.  Pages whose offset does not fit an int are excepted.
AnswerIsOneSnapshot ==
  \A c \in Client :
    LET q == query[c]
    IN Answered(c) /\ Exact(q.page) =>
         /\ q.failed = "nothing" => IsPage(q) /\ q.total = Cardinality(q.rows)
         /\ q.failed = "count" => IsPage(q) /\ q.total = 0
         /\ q.failed = "select" => q.records = <<>> /\ q.total = 0

\* No other row has the row's timestamp.
Distinct(s) == \A r \in stored \ {s} : TimeOf[r] # TimeOf[s]

\* A client that reads page after page until one is not full has seen every
\* row that was there from its first page to its last and is not too old to be
\* removed, although rows are stored and removed between its requests: rows
\* come newest first, so that nothing is removed in front of a row that stays.
\* Rows of one second may be missed.  A SELECT that fails ends the pages as the
\* last page does, and the client cannot tell; a connection lost after it and
\* a failed count cost no row.
LivingRowsSeen ==
  Answered(Walker) /\ ~FullPage(Walker) /\ query[Walker].failed # "select" =>
    \A s \in walk.from \cap Summary :
      Distinct(s) /\ TimeOf[s] >= oldest => s \in Seen
=============================================================================
