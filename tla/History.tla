------------------------------ MODULE History ------------------------------
(***************************************************************************)
(* The history a client reads: queries (QueryManager) of tables that       *)
(* samples are committed to and the retention event deletes from           *)
(* (Retention).  They meet in the tables alone: the manager's write and    *)
(* query connections are two sessions, and the event is a third.           *)
(***************************************************************************)
EXTENDS QueryManager

history == <<retention, queries>>

HistoryInit == RetentionInit /\ QueryInit

\* The database server restarts: the event's statement and the connection of
\* the queries end together; a transaction not committed leaves no row.
ServerRestarts == EventAborts /\ LoseConnection

HistoryNext ==
  \/ RetentionNext /\ UNCHANGED queries
  \/ (QueryStep \/ LoseConnection) /\ UNCHANGED retention
  \/ ServerRestarts

HistorySpec == HistoryInit /\ [][HistoryNext]_history

-----------------------------------------------------------------------------
Requests == [pc : {"idle", "asked", "locked", "answered"}, page : Nat \ {0},
             records : Seq(Sample), total : Nat, rows : SUBSET Sample,
             failed : {"nothing", "select", "count"}]

\* Every table holds samples that were committed, the event is in one of its
\* loops or in none, and no more than one query is between its statements.
HistoryTypeOK ==
  /\ stored \in SUBSET Sample
  /\ db \in [ToSet(Tables) -> SUBSET stored]
  /\ oldest \in Nat /\ cutoff \in 0 .. oldest /\ event \in 0 .. Len(Tables)
  /\ connection \in {"none", "open", "lost"} /\ foundRows \in Nat
  /\ query \in [Client -> Requests]
  /\ \A c, d \in Client : query[c].pc = "locked" /\ query[d].pc = "locked" => c = d
  /\ walk \in [from : SUBSET Sample, seen : SUBSET Sample]
=============================================================================
