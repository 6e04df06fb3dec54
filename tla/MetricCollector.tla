-------------------------- MODULE MetricCollector --------------------------
(***************************************************************************)
(* The sequence numbers of a worker (worker/src/monitor/                   *)
(* metric_collector.cpp): every process seeds collect_seq_ from the clock  *)
(* in milliseconds and numbers its samples upwards from there.  The clock  *)
(* is not set back; that case is the limit the constructor's comment       *)
(* names.                                                                  *)
(***************************************************************************)
EXTENDS Naturals

CONSTANTS Round,    \* milliseconds between two samples, at least
          Startup,  \* milliseconds from a kill to the next process's seed, at least
          MaxTime   \* bound on the clock

ASSUME CollectorAssumption ==
  Round \in Nat \ {0} /\ Startup \in Nat \ {0} /\ MaxTime \in Nat

VARIABLES
  now,          \* system_clock, in milliseconds since the epoch
  alive,        \* a worker process runs
  notBefore,    \* when the process may take its next sample, or start
  collectSeq,   \* collect_seq_
  used          \* history: every sequence number given to a sample

vars == <<now, alive, notBefore, collectSeq, used>>

Init ==
  /\ now = 0 /\ alive = FALSE /\ notBefore = 0
  /\ collectSeq = 0 /\ used = {}

Tick ==
  /\ now < MaxTime
  /\ now' = now + 1
  /\ UNCHANGED <<alive, notBefore, collectSeq, used>>

\* Mutant of Construct: every process numbers from 0.
ConstructFromZero ==
  /\ ~alive /\ now >= notBefore
  /\ alive' = TRUE
  /\ collectSeq' = 0
  /\ UNCHANGED <<now, notBefore, used>>

\* The constructor seeds collect_seq_.
Construct ==
  /\ ~alive /\ now >= notBefore
  /\ alive' = TRUE
  /\ collectSeq' = now
  /\ UNCHANGED <<now, notBefore, used>>

\* Mutant of CollectAll: no pause between two samples.
CollectAtOnce ==
  /\ alive /\ now >= notBefore
  /\ collectSeq' = collectSeq + 1
  /\ used' = used \cup {collectSeq + 1}
  /\ UNCHANGED <<now, alive, notBefore>>

\* CollectAll numbers a sample; the push loop then sleeps.
CollectAll ==
  /\ alive /\ now >= notBefore
  /\ collectSeq' = collectSeq + 1
  /\ used' = used \cup {collectSeq + 1}
  /\ notBefore' = now + Round
  /\ UNCHANGED <<now, alive>>

\* The process ends, whenever it likes.
Kill ==
  /\ alive
  /\ alive' = FALSE
  /\ notBefore' = now + Startup
  /\ UNCHANGED <<now, collectSeq, used>>

Next == Tick \/ Construct \/ CollectAll \/ Kill

Spec == Init /\ [][Next]_vars

-----------------------------------------------------------------------------
\* The numbers stay within one of the clock's range.
TypeOK ==
  /\ now \in 0 .. MaxTime /\ notBefore \in Nat
  /\ alive \in BOOLEAN
  /\ collectSeq \in 0 .. MaxTime + 1
  /\ used \in SUBSET (1 .. MaxTime + 1)

\* The next sample gets a number no sample of this worker ever had, however
\* often the process was started: the numbers never run ahead of the clock
\* by more than the one a new process starts behind.
NextIsFresh == alive => \A u \in used : u <= collectSeq
=============================================================================
