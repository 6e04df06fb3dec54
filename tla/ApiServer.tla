----------------------------- MODULE ApiServer -----------------------------
(***************************************************************************)
(* The REST server of the web front end                                    *)
(* (frontend-simple/simple-api-server.py): threads that answer requests    *)
(* over a pool of connections to the database of Retention, while the      *)
(* manager commits, the retention event deletes and the database server    *)
(* goes down and comes back.                                               *)
(*                                                                         *)
(* Flask, which runs every request in a thread of its own, and the pool of *)
(* mysql.connector are external.  The pool reopens a broken connection     *)
(* when it hands it out, and knows nothing of one that is not returned.    *)
(***************************************************************************)
EXTENDS Retention

CONSTANTS Request,     \* the threads, each with one request at a time
          Connection,  \* the connections of the pool, 5 in the code
          Recent,      \* how much later than `oldest' the last hour begins
          Limit        \* LIMIT of the history, 100 in the code

ASSUME ApiAssumption == Recent \in Nat /\ Limit \in Nat \ {0}

VARIABLES
  up,       \* the database server runs
  pool,     \* the connections in the pool
  broken,   \* the connections whose session has ended
  request,  \* request[r]: route, connection and answer of thread r, and, as
            \* history, the rows the table held when the request arrived
  struck    \* history: connections that were in use when the database went
            \* down, or whose fetch broke off

api == <<up, pool, broken, request, struck>>
apiVars == <<retention, api>>

Routes == {"servers", "history", "net-process", "health"}
NoRequest == [pc |-> "idle", route |-> "health", conn |-> {}, before |-> {},
              rows |-> {}, status |-> "none"]

ApiInit ==
  /\ RetentionInit
  /\ up = TRUE /\ pool = Connection /\ broken = {} /\ struck = {}
  /\ request = [r \in Request |-> NoRequest]

-----------------------------------------------------------------------------
TableOf(route) == IF route = "net-process" THEN db[Last(Tables)] ELSE db[Head(Tables)]
LastHour == {s \in db[Head(Tables)] : TimeOf[s] >= oldest + Recent}

\* Mutant of Newest: the row is found by MAX(sequence); samples are numbered.
NewestBySequence(R) == {s \in R : \A o \in R : o <= s}

\* MAX(timestamp), which all rows of that second match.
Newest(R) == {s \in R : \A o \in R : TimeOf[o] <= TimeOf[s]}

\* What a statement may return: the last hour is cut off after Limit rows.
Answers(route) ==
  IF route = "history"
    THEN {H \in SUBSET LastHour :
            /\ Cardinality(H) = Min({Limit, Cardinality(LastHour)})
            /\ \A s \in LastHour \ H, h \in H : TimeOf[s] <= TimeOf[h]}
    ELSE {Newest(TableOf(route))}

Living(R) == {s \in R : TimeOf[s] >= oldest}

-----------------------------------------------------------------------------
\* get_connection succeeds: the connection was usable, or has been reopened.
TakeConnection(r, route, k) ==
  /\ request[r].pc = "idle" /\ up /\ k \in pool
  /\ request' = [request EXCEPT ![r] =
       [pc |-> IF route = "health" THEN "close" ELSE "cursor",
        route |-> route, conn |-> {k}, rows |-> {}, status |-> "ok",
        before |-> IF route = "health" THEN {} ELSE Living(TableOf(route))]]
  /\ pool' = pool \ {k} /\ broken' = broken \ {k}
  /\ UNCHANGED <<retention, up, struck>>

\* get_connection raises: all connections are out, or none can be reopened,
\* in which case it is back in the pool.
Refuse(r) ==
  /\ request[r].pc = "idle" /\ (~up \/ pool = {})
  /\ request' = [request EXCEPT ![r].pc = "answered", ![r].status = "error"]
  /\ UNCHANGED <<retention, up, pool, broken, struck>>

Usable(r) == request[r].conn \cap broken = {}
Fails(r, pc) == request' = [request EXCEPT ![r].pc = pc, ![r].status = "error"]

OpenCursor(r) ==
  /\ request[r].pc = "cursor" /\ Usable(r)
  /\ request' = [request EXCEPT ![r].pc = "execute"]
  /\ UNCHANGED <<retention, up, pool, broken, struck>>

\* cursor() raises for a broken connection: in `finally' the name cursor is
\* unbound, and conn.close() is not reached.
Leak(r) ==
  request' = [request EXCEPT ![r].pc = "answered", ![r].status = "error", ![r].conn = {}]

NoCursor(r) ==
  /\ request[r].pc = "cursor" /\ ~Usable(r)
  /\ Leak(r)
  /\ UNCHANGED <<retention, up, pool, broken, struck>>

\* Mutant of Execute: the connection is closed before the rows are fetched.
ExecuteAndClose(r) ==
  /\ request[r].pc = "execute" /\ Usable(r)
  /\ \E R \in Answers(request[r].route) :
       request' = [request EXCEPT ![r].pc = "fetch", ![r].rows = R]
  /\ pool' = pool \cup request[r].conn
  /\ UNCHANGED <<retention, up, broken, struck>>

\* execute: one statement, one snapshot.
Execute(r) ==
  /\ request[r].pc = "execute" /\ Usable(r)
  /\ \E R \in Answers(request[r].route) :
       request' = [request EXCEPT ![r].pc = "fetch", ![r].rows = R]
  /\ UNCHANGED <<retention, up, pool, broken, struck>>

\* Mutant of ExecuteFails: conn.close() stands after the return of the answer
\* instead of in `finally'.
ExecuteFailsUnclosed(r) ==
  /\ request[r].pc = "execute"
  /\ Leak(r)
  /\ UNCHANGED <<retention, up, pool, broken, struck>>

\* The connection is broken, or the server refuses the statement.
ExecuteFails(r) ==
  /\ request[r].pc = "execute"
  /\ Fails(r, "close")
  /\ UNCHANGED <<retention, up, pool, broken, struck>>

Fetch(r) ==
  /\ request[r].pc = "fetch"
  /\ request' = [request EXCEPT ![r].pc = "close"]
  /\ UNCHANGED <<retention, up, pool, broken, struck>>

\* fetchall fails, for a broken connection or an error the server sends between
\* rows; cursor.close() may then complain of the unread rest, and conn.close()
\* is not reached.
FetchFails(r) ==
  /\ request[r].pc = "fetch"
  /\ Fails(r, "close") \/ Leak(r)
  /\ struck' = struck \cup request[r].conn
  /\ UNCHANGED <<retention, up, pool, broken>>

\* conn.close() puts the connection back, and raises when the session cannot
\* be reset.
Close(r) ==
  /\ request[r].pc = "close"
  /\ pool' = pool \cup request[r].conn
  /\ \E status \in {request[r].status} \cup IF Usable(r) THEN {} ELSE {"error"} :
       request' = [request EXCEPT ![r].pc = "answered", ![r].status = status,
                                  ![r].conn = {}]
  /\ UNCHANGED <<retention, up, broken, struck>>

Respond(r) ==
  /\ request[r].pc = "answered"
  /\ request' = [request EXCEPT ![r] = NoRequest]
  /\ UNCHANGED <<retention, up, pool, broken, struck>>

-----------------------------------------------------------------------------
InUse == UNION {request[r].conn : r \in Request}

\* The database server goes down: every session and the event end.
Outage ==
  /\ up /\ up' = FALSE
  /\ broken' = Connection /\ struck' = struck \cup InUse
  /\ EventAborts \/ (event = 0 /\ UNCHANGED retention)
  /\ UNCHANGED <<pool, request>>

Recover ==
  /\ ~up /\ up' = TRUE
  /\ UNCHANGED <<retention, pool, broken, request, struck>>

ApiStep(r) ==
  \/ \E route \in Routes, k \in Connection : TakeConnection(r, route, k)
  \/ Refuse(r) \/ OpenCursor(r) \/ NoCursor(r)
  \/ Execute(r) \/ ExecuteFails(r) \/ Fetch(r) \/ FetchFails(r)
  \/ Close(r) \/ Respond(r)

ApiNext ==
  \/ \E r \in Request : ApiStep(r)
  \/ up /\ RetentionNext /\ UNCHANGED api
  \/ Outage \/ Recover

ApiSpec == ApiInit /\ [][ApiNext]_apiVars

-----------------------------------------------------------------------------
\* A request between its first and its last statement has a connection.
ApiTypeOK ==
  /\ up \in BOOLEAN /\ pool \subseteq Connection
  /\ broken \subseteq Connection /\ struck \subseteq Connection
  /\ request \in [Request ->
       [pc : {"idle", "cursor", "execute", "fetch", "close", "answered"},
        route : Routes, conn : SUBSET Connection, before : SUBSET Sample,
        rows : SUBSET Sample, status : {"none", "ok", "error"}]]
  /\ \A r \in Request :
       request[r].pc \in {"idle", "answered"} <=> request[r].conn = {}

\* The pool's connections are nobody else's, and no two requests share one.
HeldByOne ==
  \A r \in Request :
    /\ request[r].conn \cap pool = {}
    /\ \A o \in Request \ {r} : request[r].conn \cap request[o].conn = {}

Leaked == (Connection \ pool) \ InUse
OnlyStruckLeak == Leaked \subseteq struck

\* Every path of a request that fails gives its connection back, once, so that
\* no two requests talk over one session and the pool does not run dry; only
\* connections that were in use when the database went down, or whose fetch
\* broke off, may be lost.
PoolIsKept == HeldByOne /\ OnlyStruckLeak

\* An answer is not older than any row the table held when the request
\* arrived, unless that has expired or, for the history, is not of the last hour.
\* Worker restarts, replays and handlers that overtake each other number
\* samples in another order than they are received in.
AnswerIsFresh ==
  \A r \in Request :
    LET q == request[r]
        horizon == oldest + IF q.route = "history" THEN Recent ELSE 0
    IN q.pc = "answered" /\ q.status = "ok" =>
         \A b \in q.before : TimeOf[b] >= horizon =>
           \E s \in q.rows : TimeOf[s] >= TimeOf[b]
=============================================================================
