----------------------------- MODULE Retention -----------------------------
(***************************************************************************)
(* The database of the monitor as its readers see it: the tables, to which *)
(* the manager commits whole samples, and the event                        *)
(* evt_cleanup_old_records of manager/sql/init_server_performance.sql,     *)
(* which removes old rows, table after table and batch after batch.        *)
(*                                                                         *)
(* MySQL is external.  A sample has one row in every table.  Its timestamp *)
(* is the second the manager received it in, so that several samples of a  *)
(* host, such as those a worker replays after an outage, may share one.    *)
(***************************************************************************)
EXTENDS Integers, Sequences, FiniteSets, SequencesExt

CONSTANTS Sample,    \* the samples of one host
          TimeOf,    \* TimeOf[s]: the timestamp of sample s
          Tables,    \* the tables in the order of the event's loops
          Batch,     \* rows deleted by one statement, 1000 in the event
          MaxTime    \* bound on the passage of time

ASSUME RetentionAssumption ==
  /\ Batch \in Nat \ {0} /\ MaxTime \in Nat
  /\ Tables \in Seq(ToSet(Tables)) /\ Tables # <<>>
  /\ IsFiniteSet(Sample) /\ \A s \in Sample : TimeOf[s] \in Nat

VARIABLES
  db,        \* db[t]: the samples with a row in table t
  stored,    \* history: samples committed so far
  oldest,    \* DATE_SUB(NOW(), INTERVAL 7 DAY)
  event,     \* the table whose loop the event is in, 0 when it does not run
  cutoff     \* history: `oldest' when the last run that was not aborted began

store == <<db, stored, oldest>>
retention == <<store, event, cutoff>>

RetentionInit ==
  /\ db = [t \in ToSet(Tables) |-> {}] /\ stored = {}
  /\ oldest = 0 /\ event = 0 /\ cutoff = 0

\* The manager commits a sample it received recently; samples of several
\* handlers may be committed in another order than they were received in.
Commit(s) ==
  /\ s \notin stored /\ TimeOf[s] >= oldest
  /\ db' = [t \in DOMAIN db |-> db[t] \cup {s}]
  /\ stored' = stored \cup {s}
  /\ UNCHANGED <<oldest, event, cutoff>>

Age ==
  /\ oldest < MaxTime
  /\ oldest' = oldest + 1
  /\ UNCHANGED <<db, stored, event, cutoff>>

-----------------------------------------------------------------------------
\* The daily start, here at any time.
EventStarts ==
  /\ event = 0
  /\ event' = 1 /\ cutoff' = oldest
  /\ UNCHANGED store

\* Mutant of Expired: the detail tables are cleaned a day early.
ExpiredEarly(t) ==
  {s \in db[t] : TimeOf[s] < IF t = Head(Tables) THEN oldest ELSE oldest + 1}

\* NOW() is the time of the single statement.
Expired(t) == {s \in db[t] : TimeOf[s] < oldest}

\* DELETE ... LIMIT takes any rows that qualify.
DeleteBatch ==
  /\ event > 0 /\ Expired(Tables[event]) # {}
  /\ \E D \in SUBSET Expired(Tables[event]) :
       /\ Cardinality(D) = Batch \/ D = Expired(Tables[event])
       /\ Cardinality(D) <= Batch
       /\ db' = [db EXCEPT ![Tables[event]] = @ \ D]
  /\ UNCHANGED <<stored, oldest, event, cutoff>>

\* Mutant of LeaveLoop: after one batch, or none.
LeaveLoopEarly ==
  /\ event > 0
  /\ event' = IF event < Len(Tables) THEN event + 1 ELSE 0
  /\ UNCHANGED <<store, cutoff>>

\* ROW_COUNT() = 0: the next table, or the end.
LeaveLoop ==
  /\ event > 0 /\ Expired(Tables[event]) = {}
  /\ event' = IF event < Len(Tables) THEN event + 1 ELSE 0
  /\ UNCHANGED <<store, cutoff>>

\* A statement fails, or the server goes down: the rest waits for tomorrow.
EventAborts ==
  /\ event > 0
  /\ event' = 0 /\ cutoff' = 0
  /\ UNCHANGED store

RetentionNext ==
  \/ \E s \in Sample : Commit(s)
  \/ Age \/ EventStarts \/ DeleteBatch \/ LeaveLoop \/ EventAborts

RetentionSpec == RetentionInit /\ [][RetentionNext]_retention

-----------------------------------------------------------------------------
\* A sample a query may still expect, one that is not older than the
\* retention period, is in all tables or in none, although every table is
\* cleaned by statements of its own, each with its own NOW().
HalvesAreExpired ==
  \A s \in stored : TimeOf[s] >= oldest => \A t \in DOMAIN db : s \in db[t]

\* A run of the event that came to its end left no row, in any of the tables,
\* that was too old when it began; the batches stop neither too early nor at
\* rows that expire meanwhile.
EventCleansAll ==
  event = 0 => \A t \in DOMAIN db : \A s \in db[t] : TimeOf[s] >= cutoff
=============================================================================
