--------------------------- MODULE MonitorPusher ---------------------------
(***************************************************************************)
(* The worker's push thread (worker/src/rpc/monitor_pusher.cpp) with the   *)
(* main thread that starts and stops it (worker/src/main.cpp).  Each round *)
(* of PushLoop replays the backlog, collects one sample, pushes it and     *)
(* sleeps; a sample whose push fails goes to the ring buffer backlog_.     *)
(*                                                                         *)
(* A sample is its sequence number, 0 standing for none.  The ring buffer  *)
(* is used through what RingBuffer is shown to implement, KeepNewest.      *)
(* PushData either returns true (the manager answered OK) or false (error  *)
(* or 3 s deadline); which of the two is the environment's choice here and *)
(* the manager's in Reporting, which composes this module with it.         *)
(***************************************************************************)
EXTENDS SequenceNumbers, Sequences, SequencesExt, FiniteSets

CONSTANT Capacity      \* of backlog_, 120 in monitor_pusher.h

ASSUME PusherAssumption == Capacity \in Nat \ {0}

VARIABLES
  running,      \* running_
  pc,           \* where the push thread is
  collectSeq,   \* collect_seq_ of the MetricCollector
  backlog,      \* contents of backlog_, oldest first
  pending,      \* FlushBacklog: the drained samples not yet tried again
  info,         \* PushOnce: the sample just collected
  acked,        \* history: samples for which PushData returned true
  evicted,      \* history: samples overwritten in the ring buffer
  lost,         \* history: samples that died with the process
  afterStop     \* history: calls of PushData that ended after Stop

pusherVars == <<running, pc, collectSeq, backlog, pending, info,
          acked, evicted, lost, afterStop>>

Ring == INSTANCE KeepNewest
          WITH Item <- Nat, items <- backlog, out <- pending

PusherInit ==
  /\ running = FALSE /\ pc = "new"
  /\ collectSeq = 0
  /\ backlog = <<>> /\ pending = <<>> /\ info = 0
  /\ acked = {} /\ evicted = {} /\ lost = {}
  /\ afterStop = 0

-----------------------------------------------------------------------------
\* Start: the push thread begins.  A second Start finds running_ set.
Start ==
  /\ pc = "new" /\ ~running
  /\ running' = TRUE
  /\ pc' = "loop"
  /\ UNCHANGED <<collectSeq, backlog, pending, info,
                 acked, evicted, lost, afterStop>>

\* Stop, on SIGINT: clears running_ and joins the thread.
Stop ==
  /\ running
  /\ running' = FALSE
  /\ UNCHANGED <<pc, collectSeq, backlog, pending, info,
                 acked, evicted, lost, afterStop>>

\* Mutant of LeaveLoop: the loop insists on an empty backlog.
LeaveLoopWhenEmpty ==
  /\ pc = "loop" /\ ~running /\ backlog = <<>>
  /\ pc' = "exited"
  /\ UNCHANGED <<running, collectSeq, backlog, pending, info,
                 acked, evicted, lost, afterStop>>

\* PushLoop finds running_ cleared: the thread ends, Stop's join returns and
\* the process exits with whatever the backlog holds.
LeaveLoop ==
  /\ pc = "loop" /\ ~running
  /\ pc' = "exited"
  /\ backlog' = <<>>
  /\ lost' = lost \cup ToSet(backlog)
  /\ UNCHANGED <<running, collectSeq, pending, info, acked, evicted, afterStop>>

\* Mutant of StartRound: a round begins without a look at running_.
StartRoundWithoutTest ==
  /\ pc = "loop"
  /\ \/ backlog = <<>> /\ pc' = "collect" /\ UNCHANGED <<backlog, pending>>
     \/ backlog # <<>> /\ pc' = "replay" /\ Ring!Drain
  /\ UNCHANGED <<running, collectSeq, info, acked, evicted, lost, afterStop>>

\* PushLoop starts a round: a backlog is drained to be replayed first.
StartRound ==
  /\ pc = "loop" /\ running
  /\ \/ /\ backlog = <<>>
        /\ pc' = "collect"
        /\ UNCHANGED <<backlog, pending>>
     \/ /\ backlog # <<>>
        /\ pc' = "replay"
        /\ Ring!Drain
  /\ UNCHANGED <<running, collectSeq, info, acked, evicted, lost, afterStop>>

\* What a Push of s into backlog_ overwrites.
Overwritten == IF Len(backlog) < Capacity THEN {} ELSE {Head(backlog)}

\* Mutants of Retain: a backlog without limit, and one that refuses the newest.
RetainAll(s) ==
  /\ backlog' = Append(backlog, s)
  /\ evicted' = evicted

RetainOrRefuse(s) ==
  IF Len(backlog) < Capacity
    THEN backlog' = Append(backlog, s) /\ evicted' = evicted
    ELSE backlog' = backlog /\ evicted' = evicted \cup {s}

Retain(s) ==
  /\ backlog' = Ring!Pushed(backlog, s)
  /\ evicted' = evicted \cup Overwritten

CountCall == afterStop' = IF running THEN afterStop ELSE afterStop + 1

NextPending ==
  /\ pending' = Tail(pending)
  /\ pc' = IF Tail(pending) = <<>> THEN "collect" ELSE "replay"

\* FlushBacklog: PushData of the next drained sample returned true.
ReplayOk ==
  /\ pc = "replay"
  /\ acked' = acked \cup {Head(pending)}
  /\ NextPending
  /\ CountCall
  /\ UNCHANGED <<running, collectSeq, backlog, info, evicted, lost>>

\* Mutant of ReplayFail: the sample that failed again is forgotten.
ReplayFailForgets ==
  /\ pc = "replay"
  /\ NextPending
  /\ CountCall
  /\ UNCHANGED <<running, collectSeq, backlog, info, acked, evicted, lost>>

\* Mutant of ReplayFail: the first failure puts the rest back behind it.
ReplayFailRotates ==
  /\ pc = "replay"
  /\ backlog' = Tail(pending) \o <<Head(pending)>>
  /\ pending' = <<>>
  /\ pc' = "collect"
  /\ CountCall
  /\ UNCHANGED <<running, collectSeq, info, acked, evicted, lost>>

\* FlushBacklog: PushData failed, the sample goes back and the loop goes on.
ReplayFail ==
  /\ pc = "replay"
  /\ Retain(Head(pending))
  /\ NextPending
  /\ CountCall
  /\ UNCHANGED <<running, collectSeq, info, acked, lost>>

\* PushOnce: CollectAll stamps the sample with the next sequence number.
CollectAll ==
  /\ pc = "collect" /\ collectSeq < MaxSeq
  /\ collectSeq' = collectSeq + 1
  /\ info' = collectSeq + 1
  /\ pc' = "push"
  /\ UNCHANGED <<running, backlog, pending, acked, evicted, lost, afterStop>>

\* Mutant of PushOk: the sample joins the backlog whatever PushData returned.
PushOkRetains ==
  /\ pc = "push"
  /\ acked' = acked \cup {info}
  /\ Retain(info)
  /\ info' = 0
  /\ pc' = "sleep"
  /\ CountCall
  /\ UNCHANGED <<running, collectSeq, pending, lost>>

\* Bound: rounds beyond MaxSeq replay the backlog but collect nothing.
SkipCollect ==
  /\ pc = "collect" /\ collectSeq = MaxSeq
  /\ pc' = "sleep"
  /\ UNCHANGED <<running, collectSeq, backlog, pending, info,
                 acked, evicted, lost, afterStop>>

\* PushOnce: PushData returned true.
PushOk ==
  /\ pc = "push"
  /\ acked' = acked \cup {info}
  /\ info' = 0
  /\ pc' = "sleep"
  /\ CountCall
  /\ UNCHANGED <<running, collectSeq, backlog, pending, evicted, lost>>

\* PushOnce: PushData failed, the sample joins the backlog.
PushFail ==
  /\ pc = "push"
  /\ Retain(info)
  /\ info' = 0
  /\ pc' = "sleep"
  /\ CountCall
  /\ UNCHANGED <<running, collectSeq, pending, acked, lost>>

\* The interval between two rounds is over, or running_ was cleared.
Sleep ==
  /\ pc = "sleep"
  /\ pc' = "loop"
  /\ UNCHANGED <<running, collectSeq, backlog, pending, info,
                 acked, evicted, lost, afterStop>>

InMemory == ToSet(backlog) \cup ToSet(pending) \cup ({info} \ {0})

\* The process is killed, and with it everything it holds.
KillWorker ==
  /\ pc \notin {"new", "killed", "exited"}
  /\ pc' = "killed"
  /\ running' = FALSE
  /\ lost' = lost \cup InMemory
  /\ backlog' = <<>> /\ pending' = <<>> /\ info' = 0
  /\ UNCHANGED <<collectSeq, acked, evicted, afterStop>>

\* A new process: collect_seq_ is seeded from the clock, which MetricCollector
\* shows to be no less than any number used before.
Restart ==
  /\ pc \in {"killed", "exited"}
  /\ pc' = "new" /\ running' = FALSE
  /\ \E seed \in collectSeq .. MaxSeq : collectSeq' = seed
  /\ afterStop' = 0
  /\ UNCHANGED <<backlog, pending, info, acked, evicted, lost>>

\* The thread's own steps, except the outcomes of PushData.
LoopStep == LeaveLoop \/ StartRound \/ CollectAll \/ SkipCollect \/ Sleep
PushDataReturns == ReplayOk \/ ReplayFail \/ PushOk \/ PushFail

PusherNext == Start \/ Stop \/ LoopStep \/ PushDataReturns \/ KillWorker \/ Restart

\* The thread is scheduled and PushData returns by its deadline.
PusherFairness == WF_pusherVars(LoopStep) /\ WF_pusherVars(PushDataReturns)

PusherSpec == PusherInit /\ [][PusherNext]_pusherVars /\ PusherFairness

-----------------------------------------------------------------------------
\* The ring buffer never holds more than its capacity, the drained vector
\* neither.
PusherTypeOK ==
  /\ running \in BOOLEAN
  /\ pc \in {"new", "loop", "replay", "collect", "push", "sleep",
             "killed", "exited"}
  /\ collectSeq \in 0 .. MaxSeq /\ info \in 0 .. MaxSeq
  /\ backlog \in Seq(Samples) /\ Len(backlog) <= Capacity
  /\ pending \in Seq(Samples) /\ Len(pending) <= Capacity
  /\ acked \in SUBSET Samples /\ evicted \in SUBSET Samples
  /\ lost \in SUBSET Samples
  /\ afterStop \in Nat

\* Everything the worker still has, in the order it will try to send it.
Unsent == backlog \o pending \o (IF info = 0 THEN <<>> ELSE <<info>>)

\* "Replay first, old data ahead": through drains, partial replays and
\* overwrites, the unsent samples stay in the order they were collected, none
\* twice, so that the manager is offered the oldest first in every round.
OldestFirst ==
  /\ \A i, j \in 1 .. Len(Unsent) : i < j => Unsent[i] < Unsent[j]
  /\ \A i \in 1 .. Len(Unsent) : Unsent[i] <= collectSeq

\* A sample that failed is not lost, and one that was acknowledged is not sent
\* again: what is in memory before a step is afterwards in memory,
\* acknowledged, overwritten or gone with the process, and only one of these.
EverySampleAccounted ==
  [][\A s \in InMemory :
       Cardinality({i \in 1 .. 4 :
         s \in <<InMemory', acked', evicted', lost'>>[i]}) = 1]_pusherVars

\* Old data is what gives way to new: a sample is overwritten only when the
\* buffer holds Capacity newer ones, hence never while a backlog is replayed.
OnlyOldestEvicted ==
  [][\A s \in evicted' \ evicted :
       /\ pc = "push"
       /\ Len(backlog') = Capacity
       /\ \A t \in ToSet(backlog') : s < t]_pusherVars

\* Stop waits for at most the replay in progress and the push that follows
\* it: the loop does not look at running_ in between.
StopDelayBounded == afterStop <= Capacity + 1

\* Stop's join returns.
StopEnds == (~running /\ pc \notin {"new", "killed", "exited"})
              ~> (pc \in {"killed", "exited"})
=============================================================================
