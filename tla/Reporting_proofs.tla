-------------------------- MODULE Reporting_proofs --------------------------
(***************************************************************************)
(* Proofs about the path of a sample, for any capacity, number of hosts,   *)
(* handler threads and faults: about MonitorPusher and the receive path of *)
(* HostManager on their own, then about Reporting, which puts them         *)
(* together with MysqlWriter.                                              *)
(*                                                                         *)
(* The arguments: the worker's containers hold ascending sequences, the    *)
(* backlog's before the drained ones and those before the newest, and      *)
(* never more than Capacity together; a sequence the manager recorded      *)
(* belongs to a sample that is queued or whose handler is on its way;      *)
(* while the worker waits for an answer its push thread stands still, so   *)
(* that the answer is about the sample it will tick off.                   *)
(***************************************************************************)
EXTENDS Reporting, SequenceTheorems, FiniteSetTheorems, TLAPS

\* The bounds of the worker.
LEMMA CapacityType == Capacity \in Nat /\ Capacity > 0 /\ MaxSeq \in Nat
  BY PusherAssumption, SequenceAssumption

\* Older samples before newer ones, none twice.
Ascending(s) == \A i, j \in 1 .. Len(s) : i < j => s[i] < s[j]

\* Taking the oldest of an ascending sequence leaves the rest, still ascending.
LEMMA AscendingTail ==
  ASSUME NEW S \in SUBSET Nat, NEW s \in Seq(S), s # <<>>, Ascending(s)
  PROVE  /\ Head(s) \in S /\ Head(s) \in ToSet(s)
         /\ Tail(s) \in Seq(S) /\ Ascending(Tail(s))
         /\ ToSet(Tail(s)) = ToSet(s) \ {Head(s)}
         /\ \A x \in ToSet(Tail(s)) : Head(s) < x
         /\ Len(s) \in Nat \ {0} /\ Len(Tail(s)) = Len(s) - 1
         /\ (Tail(s) = <<>>) <=> (Len(s) = 1)
<1>1. Len(s) \in Nat \ {0} /\ Head(s) = s[1]
  BY EmptySeq, LenProperties
<1>2. /\ Head(s) \in S /\ Tail(s) \in Seq(S) /\ Len(Tail(s)) = Len(s) - 1
      /\ \A i \in 1 .. Len(s) - 1 : Tail(s)[i] = s[i + 1]
  BY <1>1, HeadTailProperties
<1>3. (Tail(s) = <<>>) <=> (Len(s) = 1)
  <2>1. (Tail(s) = <<>>) <=> (Len(Tail(s)) = 0)
    BY <1>2, EmptySeq
  <2> QED BY <1>1, <1>2, <2>1
<1>4. DOMAIN s = 1 .. Len(s) /\ DOMAIN Tail(s) = 1 .. Len(s) - 1
  BY <1>2, LenProperties
<1>5. \A i \in 1 .. Len(s) : s[i] \in Nat
  BY LenProperties
<1>6. Head(s) \in ToSet(s)
  BY <1>1, <1>4 DEF ToSet
<1>7. Ascending(Tail(s))
  BY <1>1, <1>2 DEF Ascending
<1>8. \A x \in ToSet(Tail(s)) : Head(s) < x /\ x \in ToSet(s)
  BY <1>1, <1>2, <1>4 DEF Ascending, ToSet
<1>9. \A x \in ToSet(s) : x = Head(s) \/ x \in ToSet(Tail(s))
  <2>1. SUFFICES ASSUME NEW i \in 1 .. Len(s)
                 PROVE  s[i] = Head(s) \/ s[i] \in ToSet(Tail(s))
    BY <1>4 DEF ToSet
  <2>2. CASE i = 1
    BY <2>2, <1>1
  <2>3. CASE i # 1
    <3>1. i - 1 \in 1 .. Len(s) - 1 /\ Tail(s)[i - 1] = s[i]
      BY <2>3, <1>1, <1>2
    <3> QED BY <3>1, <1>4 DEF ToSet
  <2> QED BY <2>2, <2>3
<1>10. ToSet(s) \subseteq Nat
  BY <1>4, <1>5 DEF ToSet
<1>11. ToSet(Tail(s)) = ToSet(s) \ {Head(s)}
  BY <1>2, <1>8, <1>9, <1>10
<1> QED
  BY <1>1, <1>2, <1>3, <1>6, <1>7, <1>8, <1>11

\* A newer sample appended to an ascending sequence.
LEMMA AscendingAppend ==
  ASSUME NEW S \in SUBSET Nat, NEW s \in Seq(S), NEW x \in S,
         Ascending(s), \A y \in ToSet(s) : y < x
  PROVE  /\ Append(s, x) \in Seq(S) /\ Ascending(Append(s, x))
         /\ ToSet(Append(s, x)) = ToSet(s) \cup {x}
         /\ Len(s) \in Nat /\ Len(Append(s, x)) = Len(s) + 1
<1>1. /\ Append(s, x) \in Seq(S) /\ Len(Append(s, x)) = Len(s) + 1
      /\ \A i \in 1 .. Len(s) : Append(s, x)[i] = s[i]
      /\ Append(s, x)[Len(s) + 1] = x /\ Len(s) \in Nat
  BY AppendProperties, LenProperties
<1>2. DOMAIN s = 1 .. Len(s) /\ DOMAIN Append(s, x) = 1 .. Len(s) + 1
  BY <1>1, LenProperties
<1>3. \A i \in 1 .. Len(s) : s[i] < x
  BY <1>2 DEF ToSet
<1>4. Ascending(Append(s, x))
  BY <1>1, <1>3 DEF Ascending
<1>5. \A y \in ToSet(Append(s, x)) : y = x \/ y \in ToSet(s)
  <2>1. SUFFICES ASSUME NEW i \in 1 .. Len(s) + 1
                 PROVE  Append(s, x)[i] = x \/ Append(s, x)[i] \in ToSet(s)
    BY <1>2 DEF ToSet
  <2>2. i = Len(s) + 1 \/ i \in 1 .. Len(s)
    BY <1>1
  <2> QED BY <2>2, <1>1, <1>2 DEF ToSet
<1>6. \A y : y = x \/ y \in ToSet(s) => y \in ToSet(Append(s, x))
  <2>1. x \in ToSet(Append(s, x))
    BY <1>1, <1>2 DEF ToSet
  <2>2. \A i \in 1 .. Len(s) : i \in 1 .. Len(s) + 1
    BY <1>1
  <2>3. \A i \in 1 .. Len(s) : s[i] \in ToSet(Append(s, x))
    BY <2>2, <1>1, <1>2 DEF ToSet
  <2> QED BY <2>1, <2>3, <1>2 DEF ToSet
<1> QED
  BY <1>1, <1>4, <1>5, <1>6

\* RingBuffer::Push of a newer sample: the oldest makes room if there is none.
LEMMA AscendingPushed ==
  ASSUME backlog \in Seq(Samples), NEW x \in Samples,
         Ascending(backlog), \A y \in ToSet(backlog) : y < x,
         Len(backlog) <= Capacity
  PROVE  /\ Ring!Pushed(backlog, x) \in Seq(Samples)
         /\ Ascending(Ring!Pushed(backlog, x))
         /\ ToSet(Ring!Pushed(backlog, x)) = (ToSet(backlog) \ Overwritten) \cup {x}
         /\ Overwritten \subseteq ToSet(backlog)
         /\ Len(backlog) \in Nat
         /\ Len(backlog) < Capacity =>
              Overwritten = {} /\ Len(Ring!Pushed(backlog, x)) = Len(backlog) + 1
         /\ Len(backlog) = Capacity =>
              /\ Overwritten = {Head(backlog)}
              /\ Len(Ring!Pushed(backlog, x)) = Capacity
              /\ \A y \in ToSet(Ring!Pushed(backlog, x)) : Head(backlog) < y
<1>0. Len(backlog) \in Nat /\ Samples \in SUBSET Nat
  BY LenProperties DEF Samples
<1>1. CASE Len(backlog) < Capacity
  <2>1. Ring!Pushed(backlog, x) = Append(backlog, x) /\ Overwritten = {}
    BY <1>1 DEF Ring!Pushed, Overwritten
  <2> QED BY <1>0, <1>1, <2>1, AscendingAppend, CapacityType
<1>2. CASE Len(backlog) = Capacity
  <2>1. backlog # <<>>
    BY <1>2, CapacityType, EmptySeq
  <2>2. /\ Head(backlog) \in ToSet(backlog)
        /\ Tail(backlog) \in Seq(Samples) /\ Ascending(Tail(backlog))
        /\ ToSet(Tail(backlog)) = ToSet(backlog) \ {Head(backlog)}
        /\ \A y \in ToSet(Tail(backlog)) : Head(backlog) < y
        /\ Len(Tail(backlog)) = Len(backlog) - 1
    BY <1>0, <2>1, AscendingTail
  <2>3. /\ Ring!Pushed(backlog, x) = Append(Tail(backlog), x)
        /\ Overwritten = {Head(backlog)}
    BY <1>2, CapacityType DEF Ring!Pushed, Overwritten
  <2>4. /\ Append(Tail(backlog), x) \in Seq(Samples) /\ Ascending(Append(Tail(backlog), x))
        /\ ToSet(Append(Tail(backlog), x)) = ToSet(Tail(backlog)) \cup {x}
        /\ Len(Append(Tail(backlog), x)) = Len(Tail(backlog)) + 1
    <3>1. \A y \in ToSet(Tail(backlog)) : y < x
      BY <2>2
    <3> QED BY <1>0, <2>2, <3>1, AscendingAppend
  <2>5. \A y \in ToSet(Ring!Pushed(backlog, x)) : Head(backlog) < y
    BY <2>2, <2>3, <2>4
  <2> QED BY <1>2, <2>2, <2>3, <2>4, <2>5, CapacityType
<1> QED BY <1>0, <1>1, <1>2, CapacityType

\* Older samples come before newer ones, and nothing is newer than the counter.
PusherOrder ==
  /\ Ascending(backlog) /\ Ascending(pending)
  /\ \A s \in ToSet(backlog), t \in ToSet(pending) : s < t
  /\ \A s \in ToSet(backlog) : pc = "push" => s < info
  /\ \A s \in InMemory : s <= collectSeq

\* What the push thread holds at each point of its loop.
PusherPhase ==
  /\ (pc = "replay") <=> (pending # <<>>)
  /\ pc = "push" => info > 0
  /\ pc # "push" => info = 0
  /\ Len(backlog) + Len(pending) <= Capacity

\* A sample that was acknowledged, overwritten or lost is held no more.
PusherHistory ==
  /\ \A s \in acked \cup evicted \cup lost : s <= collectSeq
  /\ (acked \cup evicted \cup lost) \cap InMemory = {}
  /\ acked \cap evicted = {} /\ acked \cap lost = {} /\ evicted \cap lost = {}

\* The calls of PushData before the loop looks at running_ again.
CallsAhead == IF pc = "replay" THEN Len(pending) + 1
              ELSE IF pc \in {"collect", "push"} THEN 1 ELSE 0

PusherStop ==
  /\ running => pc \notin {"new", "killed", "exited"} /\ afterStop = 0
  /\ pc = "new" => afterStop = 0
  /\ ~running => afterStop + CallsAhead <= Capacity + 1

PusherInv == PusherTypeOK /\ PusherOrder /\ PusherPhase /\ PusherHistory /\ PusherStop

\* No step forgets a sample, and an overwritten one is older than all that stay.
NoneForgotten == InMemory \subseteq InMemory' \cup acked' \cup evicted' \cup lost'
OldestGivesWay ==
  \A s \in evicted' \ evicted :
    /\ pc = "push"
    /\ Len(backlog') = Capacity
    /\ \A t \in ToSet(backlog') : s < t

\* An empty container holds no sample.
LEMMA NoneHeld == ToSet(<<>>) = {}
  BY DEF ToSet

\* The types the proofs below need, in one place.
LEMMA PusherFacts ==
  ASSUME PusherInv
  PROVE  /\ Samples \in SUBSET Nat
         /\ backlog \in Seq(Samples) /\ Len(backlog) \in Nat
         /\ pending \in Seq(Samples) /\ Len(pending) \in Nat
         /\ ToSet(backlog) \subseteq Samples
         /\ ToSet(pending) \subseteq Samples
         /\ collectSeq \in Nat /\ info \in Nat /\ afterStop \in Nat
<1>1. Samples \in SUBSET Nat
  BY DEF Samples
<1>2. backlog \in Seq(Samples) /\ pending \in Seq(Samples)
  BY DEF PusherInv, PusherTypeOK
<1>3. collectSeq \in Nat /\ info \in Nat /\ afterStop \in Nat
  BY CapacityType DEF PusherInv, PusherTypeOK
<1> QED BY <1>1, <1>2, <1>3, LenProperties DEF ToSet

\* A worker that has not started.
LEMMA PusherInvInit == PusherInit => PusherInv
<1> SUFFICES ASSUME PusherInit PROVE PusherInv
  OBVIOUS
<1> USE CapacityType DEF PusherInit
<1>1. PusherTypeOK
  <2>1. /\ backlog \in Seq(Samples) /\ Len(backlog) <= Capacity
        /\ pending \in Seq(Samples) /\ Len(pending) <= Capacity
    BY EmptySeq
  <2>2. /\ running \in BOOLEAN
        /\ pc \in {"new", "loop", "replay", "collect", "push", "sleep", "killed", "exited"}
        /\ acked \in SUBSET Samples /\ evicted \in SUBSET Samples /\ lost \in SUBSET Samples
    BY Zenon
  <2>3. collectSeq \in 0 .. MaxSeq /\ info \in 0 .. MaxSeq /\ afterStop \in Nat
    BY SMT
  <2> QED BY <2>1, <2>2, <2>3, Zenon DEF PusherTypeOK
<1>2. PusherOrder /\ PusherPhase /\ PusherHistory /\ PusherStop
  BY EmptySeq, NoneHeld
     DEF PusherOrder, PusherPhase, PusherHistory, PusherStop, Ascending, CallsAhead, InMemory
<1> QED BY <1>1, <1>2 DEF PusherInv

\* FlushBacklog: the oldest drained sample was taken.
LEMMA ReplayOkKeeps == PusherInv /\ ReplayOk => PusherInv' /\ NoneForgotten /\ OldestGivesWay
<1> SUFFICES ASSUME PusherInv, ReplayOk PROVE PusherInv' /\ NoneForgotten /\ OldestGivesWay
  OBVIOUS
<1> USE CapacityType, PusherFacts DEF PusherInv
<1>1. /\ pending # <<>> /\ pc = "replay" /\ info = 0 /\ Ascending(pending)
  BY DEF PusherPhase, PusherOrder, ReplayOk
<1>2. /\ Head(pending) \in Samples /\ Head(pending) \in ToSet(pending)
      /\ Tail(pending) \in Seq(Samples) /\ Ascending(Tail(pending))
      /\ ToSet(Tail(pending)) = ToSet(pending) \ {Head(pending)}
      /\ Len(pending) \in Nat \ {0} /\ Len(Tail(pending)) = Len(pending) - 1
      /\ (Tail(pending) = <<>>) <=> (Len(pending) = 1)
  BY <1>1, AscendingTail
<1>3. /\ pending' = Tail(pending)
      /\ pc' = IF Tail(pending) = <<>> THEN "collect" ELSE "replay"
      /\ acked' = acked \cup {Head(pending)}
      /\ afterStop' = IF running THEN afterStop ELSE afterStop + 1
      /\ UNCHANGED <<running, collectSeq, backlog, info, evicted, lost>>
  BY DEF ReplayOk, NextPending, CountCall
<1>4. PusherTypeOK'
  <2>1. running' \in BOOLEAN
    BY <1>3, Zenon DEF PusherTypeOK
  <2>2. pc' \in {"new", "loop", "replay", "collect", "push", "sleep", "killed", "exited"}
    BY <1>3
  <2>3. afterStop' \in Nat
    BY <1>3
  <2>4. /\ collectSeq' \in 0 .. MaxSeq /\ info' \in 0 .. MaxSeq
        /\ backlog' \in Seq(Samples) /\ Len(backlog') <= Capacity
        /\ pending' \in Seq(Samples) /\ Len(pending') <= Capacity
        /\ acked' \in SUBSET Samples /\ evicted' \in SUBSET Samples
        /\ lost' \in SUBSET Samples
    <3>1. collectSeq' \in 0 .. MaxSeq /\ info' \in 0 .. MaxSeq
      BY <1>3, Zenon DEF PusherTypeOK
    <3>2. backlog' \in Seq(Samples) /\ Len(backlog') <= Capacity
      BY <1>3 DEF PusherTypeOK
    <3>3. pending' \in Seq(Samples) /\ Len(pending') <= Capacity
      BY <1>2, <1>3 DEF PusherTypeOK
    <3>4. acked' \in SUBSET Samples
      <4>1. acked \in SUBSET Samples
        BY DEF PusherTypeOK
      <4> QED BY <1>2, <1>3, <4>1
    <3>5. evicted' \in SUBSET Samples /\ lost' \in SUBSET Samples
      BY <1>3, Zenon DEF PusherTypeOK
    <3> QED BY <3>1, <3>2, <3>3, <3>4, <3>5, Zenon
  <2> QED BY <2>1, <2>2, <2>3, <2>4, Zenon DEF PusherTypeOK
<1>5. InMemory' = InMemory \ {Head(pending)}
  <2>1. Head(pending) \notin ToSet(backlog)
    BY <1>2 DEF PusherOrder
  <2>2. InMemory = ToSet(backlog) \cup ToSet(pending)
    BY <1>1 DEF InMemory
  <2>3. InMemory' = ToSet(backlog) \cup ToSet(Tail(pending))
    BY <1>1, <1>3 DEF InMemory
  <2> QED BY <1>2, <2>1, <2>2, <2>3, Zenon
<1>6. PusherOrder'
  BY <1>2, <1>3, <1>5 DEF PusherOrder
<1>7. PusherPhase'
  <2>1. (pc' = "replay") <=> (pending' # <<>>)
    BY <1>2, <1>3
  <2>2. pc' # "push" /\ info' = 0
    BY <1>1, <1>3
  <2>3. Len(backlog') + Len(pending') <= Capacity
    BY <1>2, <1>3 DEF PusherPhase
  <2> QED BY <2>1, <2>2, <2>3 DEF PusherPhase
<1>8. PusherHistory'
  <2>1. Head(pending) \in InMemory /\ Head(pending) <= collectSeq
    BY <1>2 DEF PusherOrder, InMemory
  <2>2. \A s \in acked' \cup evicted' \cup lost' : s <= collectSeq'
    BY <1>3, <2>1, Zenon DEF PusherHistory
  <2>3. (acked' \cup evicted' \cup lost') \cap InMemory' = {}
    BY <1>3, <1>5, Zenon DEF PusherHistory
  <2>4. acked' \cap evicted' = {} /\ acked' \cap lost' = {} /\ evicted' \cap lost' = {}
    BY <1>3, <2>1, Zenon DEF PusherHistory
  <2> QED BY <2>2, <2>3, <2>4, Zenon DEF PusherHistory
<1>9. PusherStop'
  <2>1. CallsAhead = Len(pending) + 1
    BY <1>1 DEF CallsAhead
  <2>2. CallsAhead' = Len(pending)
    BY <1>2, <1>3 DEF CallsAhead
  <2>3. pc' \notin {"new", "killed", "exited"}
    BY <1>3
  <2>4. running' <=> running
    BY <1>3, Zenon
  <2> QED BY <1>2, <1>3, <2>1, <2>2, <2>3, <2>4 DEF PusherStop
<1>10. NoneForgotten
  BY <1>2, <1>3, <1>5 DEF NoneForgotten
<1>11. OldestGivesWay
  BY <1>3 DEF OldestGivesWay
<1> QED BY <1>4, <1>6, <1>7, <1>8, <1>9, <1>10, <1>11

\* FlushBacklog: the sample that failed again is newer than all that went
\* back before it and older than all that still wait, and its place is free.
LEMMA ReplayFailKeeps == PusherInv /\ ReplayFail => PusherInv' /\ NoneForgotten /\ OldestGivesWay
<1> SUFFICES ASSUME PusherInv, ReplayFail PROVE PusherInv' /\ NoneForgotten /\ OldestGivesWay
  OBVIOUS
<1> USE CapacityType, PusherFacts DEF PusherInv
<1>1. /\ pending # <<>> /\ pc = "replay" /\ info = 0
      /\ Ascending(pending) /\ Ascending(backlog)
  BY DEF PusherPhase, PusherOrder, ReplayFail
<1>2. /\ Head(pending) \in Samples /\ Head(pending) \in ToSet(pending)
      /\ Tail(pending) \in Seq(Samples) /\ Ascending(Tail(pending))
      /\ ToSet(Tail(pending)) = ToSet(pending) \ {Head(pending)}
      /\ \A t \in ToSet(Tail(pending)) : Head(pending) < t
      /\ Len(pending) \in Nat \ {0} /\ Len(Tail(pending)) = Len(pending) - 1
      /\ (Tail(pending) = <<>>) <=> (Len(pending) = 1)
  BY <1>1, AscendingTail
<1>3. /\ pending' = Tail(pending)
      /\ pc' = IF Tail(pending) = <<>> THEN "collect" ELSE "replay"
      /\ backlog' = Ring!Pushed(backlog, Head(pending))
      /\ evicted' = evicted \cup Overwritten
      /\ afterStop' = IF running THEN afterStop ELSE afterStop + 1
      /\ UNCHANGED <<running, collectSeq, info, acked, lost>>
  BY DEF ReplayFail, NextPending, CountCall, Retain
<1>4. /\ Len(backlog) < Capacity
      /\ \A s \in ToSet(backlog) : s < Head(pending)
  <2>1. Len(backlog) < Capacity
    BY <1>2 DEF PusherPhase
  <2>2. \A s \in ToSet(backlog) : s < Head(pending)
    BY <1>2, Zenon DEF PusherOrder
  <2> QED BY <2>1, <2>2
<1>5. /\ backlog' \in Seq(Samples) /\ Ascending(backlog')
      /\ ToSet(backlog') = ToSet(backlog) \cup {Head(pending)}
      /\ Len(backlog') = Len(backlog) + 1
      /\ evicted' = evicted
  <2>1. /\ backlog \in Seq(Samples) /\ Head(pending) \in Samples
        /\ Ascending(backlog) /\ Len(backlog) <= Capacity
    BY <1>1, <1>2, <1>4
  <2>2. /\ Ring!Pushed(backlog, Head(pending)) \in Seq(Samples)
        /\ Ascending(Ring!Pushed(backlog, Head(pending)))
        /\ ToSet(Ring!Pushed(backlog, Head(pending)))
             = (ToSet(backlog) \ Overwritten) \cup {Head(pending)}
        /\ Overwritten = {}
        /\ Len(Ring!Pushed(backlog, Head(pending))) = Len(backlog) + 1
    BY <2>1, <1>4, AscendingPushed
  <2> QED BY <2>2, <1>3
<1>6. PusherTypeOK'
  <2>1. running' \in BOOLEAN
    BY <1>3, Zenon DEF PusherTypeOK
  <2>2. pc' \in {"new", "loop", "replay", "collect", "push", "sleep", "killed", "exited"}
    BY <1>3
  <2>3. afterStop' \in Nat
    BY <1>3
  <2>4. /\ collectSeq' \in 0 .. MaxSeq /\ info' \in 0 .. MaxSeq
        /\ backlog' \in Seq(Samples) /\ Len(backlog') <= Capacity
        /\ pending' \in Seq(Samples) /\ Len(pending') <= Capacity
        /\ acked' \in SUBSET Samples /\ evicted' \in SUBSET Samples
        /\ lost' \in SUBSET Samples
    <3>1. collectSeq' \in 0 .. MaxSeq /\ info' \in 0 .. MaxSeq
      BY <1>3, Zenon DEF PusherTypeOK
    <3>2. backlog' \in Seq(Samples) /\ Len(backlog') <= Capacity
      BY <1>4, <1>5
    <3>3. pending' \in Seq(Samples) /\ Len(pending') <= Capacity
      BY <1>2, <1>3 DEF PusherTypeOK
    <3>4. acked' \in SUBSET Samples /\ evicted' \in SUBSET Samples /\ lost' \in SUBSET Samples
      BY <1>3, <1>5, Zenon DEF PusherTypeOK
    <3> QED BY <3>1, <3>2, <3>3, <3>4, Zenon
  <2> QED BY <2>1, <2>2, <2>3, <2>4, Zenon DEF PusherTypeOK
<1>7. InMemory' = InMemory
  BY <1>1, <1>2, <1>3, <1>5 DEF InMemory
<1>8. PusherOrder'
  <2>1. \A s \in ToSet(backlog'), t \in ToSet(pending') : s < t
    BY <1>2, <1>3, <1>5 DEF PusherOrder
  <2>2. pc' # "push"
    BY <1>3
  <2> QED BY <1>2, <1>3, <1>5, <1>7, <2>1, <2>2 DEF PusherOrder
<1>9. PusherPhase'
  <2>1. (pc' = "replay") <=> (pending' # <<>>)
    BY <1>2, <1>3
  <2>2. pc' # "push" /\ info' = 0
    BY <1>1, <1>3
  <2>3. Len(backlog') + Len(pending') <= Capacity
    BY <1>2, <1>3, <1>5 DEF PusherPhase
  <2> QED BY <2>1, <2>2, <2>3 DEF PusherPhase
<1>10. PusherHistory'
  BY <1>3, <1>5, <1>7 DEF PusherHistory
<1>11. PusherStop'
  <2>1. CallsAhead = Len(pending) + 1
    BY <1>1 DEF CallsAhead
  <2>2. CallsAhead' = Len(pending)
    BY <1>2, <1>3 DEF CallsAhead
  <2>3. pc' \notin {"new", "killed", "exited"}
    BY <1>3
  <2>4. running' <=> running
    BY <1>3, Zenon
  <2> QED BY <1>2, <1>3, <2>1, <2>2, <2>3, <2>4 DEF PusherStop
<1>12. NoneForgotten
  BY <1>7 DEF NoneForgotten
<1>13. OldestGivesWay
  BY <1>5 DEF OldestGivesWay
<1> QED BY <1>6, <1>8, <1>9, <1>10, <1>11, <1>12, <1>13

\* CollectAll: the new number is above all others.
LEMMA CollectAllKeeps == PusherInv /\ CollectAll => PusherInv' /\ NoneForgotten /\ OldestGivesWay
<1> SUFFICES ASSUME PusherInv, CollectAll PROVE PusherInv' /\ NoneForgotten /\ OldestGivesWay
  OBVIOUS
<1> USE CapacityType, PusherFacts DEF PusherInv
<1>1. /\ pc = "collect" /\ collectSeq < MaxSeq /\ info = 0 /\ pending = <<>>
      /\ pc' = "push" /\ info' = collectSeq + 1 /\ collectSeq' = collectSeq + 1
      /\ UNCHANGED <<running, backlog, pending, acked, evicted, lost, afterStop>>
  BY DEF PusherPhase, CollectAll
<1>2. PusherTypeOK'
  <2>1. /\ running' \in BOOLEAN /\ afterStop' \in Nat
        /\ backlog' \in Seq(Samples) /\ Len(backlog') <= Capacity
        /\ pending' \in Seq(Samples) /\ Len(pending') <= Capacity
        /\ acked' \in SUBSET Samples /\ evicted' \in SUBSET Samples
        /\ lost' \in SUBSET Samples
    BY <1>1, Zenon DEF PusherTypeOK
  <2>2. collectSeq' \in 0 .. MaxSeq /\ info' \in 0 .. MaxSeq
    BY <1>1
  <2>3. pc' \in {"new", "loop", "replay", "collect", "push", "sleep", "killed", "exited"}
    BY <1>1
  <2> QED BY <2>1, <2>2, <2>3, Zenon DEF PusherTypeOK
<1>3. InMemory' = InMemory \cup {info'}
  BY <1>1 DEF InMemory
<1>4. PusherOrder'
  BY <1>1, <1>3 DEF PusherOrder, InMemory
<1>5. PusherPhase'
  BY <1>1 DEF PusherPhase
<1>6. PusherHistory'
  <2>1. \A s \in acked \cup evicted \cup lost : s \in Nat /\ s <= collectSeq
    BY DEF PusherHistory, PusherTypeOK
  <2> QED BY <1>1, <1>3, <2>1 DEF PusherHistory
<1>7. PusherStop'
  <2>1. CallsAhead = 1 /\ CallsAhead' = 1
    BY <1>1 DEF CallsAhead
  <2>2. running' <=> running
    BY <1>1, Zenon
  <2> QED BY <1>1, <2>1, <2>2 DEF PusherStop
<1>8. NoneForgotten
  BY <1>3 DEF NoneForgotten
<1>9. OldestGivesWay
  BY <1>1 DEF OldestGivesWay
<1> QED BY <1>2, <1>4, <1>5, <1>6, <1>7, <1>8, <1>9

\* PushOnce: the newest sample was taken.
LEMMA PushOkKeeps == PusherInv /\ PushOk => PusherInv' /\ NoneForgotten /\ OldestGivesWay
<1> SUFFICES ASSUME PusherInv, PushOk PROVE PusherInv' /\ NoneForgotten /\ OldestGivesWay
  OBVIOUS
<1> USE CapacityType, PusherFacts DEF PusherInv
<1>1. /\ pc = "push" /\ info > 0 /\ pending = <<>>
      /\ acked' = acked \cup {info} /\ info' = 0 /\ pc' = "sleep"
      /\ afterStop' = IF running THEN afterStop ELSE afterStop + 1
      /\ UNCHANGED <<running, collectSeq, backlog, pending, evicted, lost>>
  BY DEF PusherPhase, PushOk, CountCall
<1>2. PusherTypeOK'
  <2>1. /\ running' \in BOOLEAN /\ collectSeq' \in 0 .. MaxSeq
        /\ backlog' \in Seq(Samples) /\ Len(backlog') <= Capacity
        /\ pending' \in Seq(Samples) /\ Len(pending') <= Capacity
        /\ evicted' \in SUBSET Samples /\ lost' \in SUBSET Samples
    BY <1>1, Zenon DEF PusherTypeOK
  <2>2. info' \in 0 .. MaxSeq /\ afterStop' \in Nat /\ acked' \in SUBSET Samples
    BY <1>1 DEF PusherTypeOK, Samples
  <2>3. pc' \in {"new", "loop", "replay", "collect", "push", "sleep", "killed", "exited"}
    BY <1>1
  <2> QED BY <2>1, <2>2, <2>3, Zenon DEF PusherTypeOK
<1>3. InMemory' = ToSet(backlog) /\ InMemory = ToSet(backlog) \cup {info}
  BY <1>1, NoneHeld DEF InMemory
<1>4. PusherOrder'
  BY <1>1, <1>3 DEF PusherOrder
<1>5. PusherPhase'
  BY <1>1 DEF PusherPhase
<1>6. PusherHistory'
  BY <1>1, <1>3 DEF PusherHistory, PusherOrder
<1>7. PusherStop'
  <2>1. CallsAhead = 1 /\ CallsAhead' = 0
    BY <1>1 DEF CallsAhead
  <2>2. running' <=> running
    BY <1>1, Zenon
  <2> QED BY <1>1, <2>1, <2>2 DEF PusherStop
<1>8. NoneForgotten
  BY <1>1, <1>3 DEF NoneForgotten
<1>9. OldestGivesWay
  BY <1>1 DEF OldestGivesWay
<1> QED BY <1>2, <1>4, <1>5, <1>6, <1>7, <1>8, <1>9

\* PushOnce: the newest sample joins the backlog and overwrites the oldest
\* if the backlog is full.
LEMMA PushFailKeeps == PusherInv /\ PushFail => PusherInv' /\ NoneForgotten /\ OldestGivesWay
<1> SUFFICES ASSUME PusherInv, PushFail PROVE PusherInv' /\ NoneForgotten /\ OldestGivesWay
  OBVIOUS
<1> USE CapacityType, PusherFacts DEF PusherInv
<1>1. /\ pc = "push" /\ info > 0 /\ pending = <<>> /\ info \in Samples
      /\ Ascending(backlog) /\ Len(backlog) <= Capacity
      /\ \A s \in ToSet(backlog) : s < info
  BY DEF PusherPhase, PusherOrder, PushFail, PusherTypeOK, Samples
<1>2. /\ backlog' = Ring!Pushed(backlog, info)
      /\ evicted' = evicted \cup Overwritten
      /\ info' = 0 /\ pc' = "sleep"
      /\ afterStop' = IF running THEN afterStop ELSE afterStop + 1
      /\ UNCHANGED <<running, collectSeq, pending, acked, lost>>
  BY DEF PushFail, CountCall, Retain
<1>3. /\ backlog' \in Seq(Samples) /\ Ascending(backlog') /\ Len(backlog') <= Capacity
      /\ ToSet(backlog') = (ToSet(backlog) \ Overwritten) \cup {info}
      /\ Overwritten \subseteq ToSet(backlog)
  <2>1. /\ Ring!Pushed(backlog, info) \in Seq(Samples)
        /\ Ascending(Ring!Pushed(backlog, info))
        /\ ToSet(Ring!Pushed(backlog, info))
             = (ToSet(backlog) \ Overwritten) \cup {info}
        /\ Overwritten \subseteq ToSet(backlog)
        /\ Len(backlog) < Capacity => Len(Ring!Pushed(backlog, info)) = Len(backlog) + 1
        /\ Len(backlog) = Capacity => Len(Ring!Pushed(backlog, info)) = Capacity
    BY <1>1, AscendingPushed
  <2> QED BY <2>1, <1>1, <1>2
<1>4. PusherTypeOK'
  <2>1. /\ running' \in BOOLEAN /\ collectSeq' \in 0 .. MaxSeq
        /\ backlog' \in Seq(Samples) /\ Len(backlog') <= Capacity
        /\ pending' \in Seq(Samples) /\ Len(pending') <= Capacity
        /\ acked' \in SUBSET Samples /\ lost' \in SUBSET Samples
    BY <1>2, <1>3, Zenon DEF PusherTypeOK
  <2>2. info' \in 0 .. MaxSeq /\ afterStop' \in Nat
    BY <1>2
  <2>3. evicted' \in SUBSET Samples
    BY <1>2, <1>3 DEF PusherTypeOK
  <2>4. pc' \in {"new", "loop", "replay", "collect", "push", "sleep", "killed", "exited"}
    BY <1>2
  <2> QED BY <2>1, <2>2, <2>3, <2>4, Zenon DEF PusherTypeOK
<1>5. /\ InMemory' = (ToSet(backlog) \ Overwritten) \cup {info}
      /\ InMemory = ToSet(backlog) \cup {info}
  BY <1>1, <1>2, <1>3, NoneHeld DEF InMemory
<1>6. PusherOrder'
  BY <1>1, <1>2, <1>3, <1>5, NoneHeld DEF PusherOrder
<1>7. PusherPhase'
  <2>1. pending' = <<>> /\ Len(pending') = 0
    BY <1>1, <1>2, EmptySeq
  <2>2. pc' = "sleep" /\ info' = 0 /\ Len(backlog') \in Nat
    BY <1>2, <1>3, LenProperties
  <2> QED BY <1>3, <2>1, <2>2 DEF PusherPhase
<1>8. PusherHistory'
  <2>1. Overwritten \cap InMemory' = {}
    BY <1>1, <1>3, <1>5
  <2> QED BY <1>2, <1>3, <1>5, <2>1 DEF PusherHistory, PusherOrder
<1>9. PusherStop'
  <2>1. CallsAhead = 1 /\ CallsAhead' = 0
    BY <1>1, <1>2 DEF CallsAhead
  <2>2. running' <=> running
    BY <1>2, Zenon
  <2>3. pc' = "sleep"
    BY <1>2
  <2> QED BY <1>2, <2>1, <2>2, <2>3 DEF PusherStop
<1>10. NoneForgotten
  BY <1>2, <1>5 DEF NoneForgotten
<1>11. OldestGivesWay
  <2>1. SUFFICES ASSUME NEW s \in evicted' \ evicted
                 PROVE  Len(backlog') = Capacity /\ \A t \in ToSet(backlog') : s < t
    BY <1>1 DEF OldestGivesWay
  <2>2. s \in Overwritten
    BY <1>2
  <2>3. Len(backlog) = Capacity
    BY <1>1, <2>2, AscendingPushed
  <2> QED BY <1>1, <1>2, <2>2, <2>3, AscendingPushed
<1> QED BY <1>4, <1>6, <1>7, <1>8, <1>9, <1>10, <1>11

\* The backlog moves to the drained samples, which were none.
LEMMA StartRoundKeeps == PusherInv /\ StartRound => PusherInv' /\ NoneForgotten /\ OldestGivesWay
<1> SUFFICES ASSUME PusherInv, StartRound PROVE PusherInv' /\ NoneForgotten /\ OldestGivesWay
  OBVIOUS
<1> USE CapacityType, PusherFacts DEF PusherInv
<1>1. /\ pc = "loop" /\ running /\ info = 0 /\ pending = <<>>
      /\ Len(backlog) <= Capacity /\ afterStop = 0
      /\ UNCHANGED <<running, collectSeq, info, acked, evicted, lost, afterStop>>
  BY DEF StartRound, PusherPhase, PusherStop, PusherTypeOK
<1>2. \/ pc' = "collect" /\ backlog' = backlog /\ pending' = <<>>
      \/ pc' = "replay" /\ backlog' = <<>> /\ pending' = backlog /\ backlog # <<>>
  BY <1>1 DEF StartRound, Ring!Drain
<1>3. PusherTypeOK'
  <2>1. /\ running' \in BOOLEAN /\ collectSeq' \in 0 .. MaxSeq /\ info' \in 0 .. MaxSeq
        /\ acked' \in SUBSET Samples /\ evicted' \in SUBSET Samples
        /\ lost' \in SUBSET Samples /\ afterStop' \in Nat
    BY <1>1, Zenon DEF PusherTypeOK
  <2>2. pc' \in {"new", "loop", "replay", "collect", "push", "sleep", "killed", "exited"}
    BY <1>2
  <2>3. /\ backlog' \in Seq(Samples) /\ Len(backlog') <= Capacity
        /\ pending' \in Seq(Samples) /\ Len(pending') <= Capacity
    <3>1. \/ backlog' = backlog /\ pending' = pending
          \/ backlog' = pending /\ pending' = backlog
      BY <1>1, <1>2, Zenon
    <3> QED BY <3>1, Zenon DEF PusherTypeOK
  <2> QED BY <2>1, <2>2, <2>3, Zenon DEF PusherTypeOK
<1>4. InMemory' = InMemory
  BY <1>1, <1>2, NoneHeld DEF InMemory
<1>5. PusherOrder'
  BY <1>1, <1>2, <1>4, NoneHeld, EmptySeq DEF PusherOrder, Ascending
<1>6. PusherPhase'
  BY <1>1, <1>2, EmptySeq DEF PusherPhase
<1>7. PusherHistory'
  BY <1>1, <1>4 DEF PusherHistory
<1>8. PusherStop'
  <2>1. running' /\ afterStop' = 0
    BY <1>1
  <2>2. pc' \notin {"new", "killed", "exited"}
    BY <1>2
  <2> QED BY <2>1, <2>2 DEF PusherStop
<1>9. NoneForgotten
  BY <1>4 DEF NoneForgotten
<1>10. OldestGivesWay
  BY <1>1 DEF OldestGivesWay
<1> QED BY <1>3, <1>5, <1>6, <1>7, <1>8, <1>9, <1>10

\* What the backlog holds ends with the process.
LEMMA LeaveLoopKeeps == PusherInv /\ LeaveLoop => PusherInv' /\ NoneForgotten /\ OldestGivesWay
<1> SUFFICES ASSUME PusherInv, LeaveLoop PROVE PusherInv' /\ NoneForgotten /\ OldestGivesWay
  OBVIOUS
<1> USE CapacityType, PusherFacts DEF PusherInv
<1>1. /\ pc = "loop" /\ ~running /\ info = 0 /\ pending = <<>>
      /\ pc' = "exited" /\ backlog' = <<>> /\ lost' = lost \cup ToSet(backlog)
      /\ UNCHANGED <<running, collectSeq, pending, info, acked, evicted, afterStop>>
  BY DEF LeaveLoop, PusherPhase
<1>2. PusherTypeOK'
  <2>1. /\ running' \in BOOLEAN /\ collectSeq' \in 0 .. MaxSeq /\ info' \in 0 .. MaxSeq
        /\ acked' \in SUBSET Samples /\ evicted' \in SUBSET Samples
        /\ pending' \in Seq(Samples) /\ Len(pending') <= Capacity
        /\ backlog' \in Seq(Samples) /\ Len(backlog') <= Capacity
        /\ afterStop' \in Nat
    BY <1>1, Zenon DEF PusherTypeOK
  <2>2. pc' \in {"new", "loop", "replay", "collect", "push", "sleep", "killed", "exited"}
    BY <1>1
  <2>3. lost' \in SUBSET Samples
    BY <1>1 DEF PusherTypeOK
  <2> QED BY <2>1, <2>2, <2>3, Zenon DEF PusherTypeOK
<1>3. InMemory' = {} /\ InMemory = ToSet(backlog)
  BY <1>1, NoneHeld DEF InMemory
<1>4. PusherOrder'
  BY <1>1, <1>3, NoneHeld, EmptySeq DEF PusherOrder, Ascending
<1>5. PusherPhase'
  BY <1>1, EmptySeq DEF PusherPhase
<1>6. PusherHistory'
  BY <1>1, <1>3 DEF PusherHistory, PusherOrder
<1>7. PusherStop'
  <2>1. CallsAhead = 0 /\ CallsAhead' = 0
    BY <1>1 DEF CallsAhead
  <2>2. ~running'
    BY <1>1, Zenon
  <2> QED BY <1>1, <2>1, <2>2 DEF PusherStop
<1>8. NoneForgotten
  BY <1>1, <1>3 DEF NoneForgotten
<1>9. OldestGivesWay
  BY <1>1 DEF OldestGivesWay
<1> QED BY <1>2, <1>4, <1>5, <1>6, <1>7, <1>8, <1>9

\* So does everything the process held when it is killed.
LEMMA KillKeeps == PusherInv /\ KillWorker => PusherInv' /\ NoneForgotten /\ OldestGivesWay
<1> SUFFICES ASSUME PusherInv, KillWorker PROVE PusherInv' /\ NoneForgotten /\ OldestGivesWay
  OBVIOUS
<1> USE CapacityType, PusherFacts DEF PusherInv
<1>1. /\ pc \notin {"new", "killed", "exited"}
      /\ pc' = "killed" /\ running' = FALSE /\ lost' = lost \cup InMemory
      /\ backlog' = <<>> /\ pending' = <<>> /\ info' = 0
      /\ UNCHANGED <<collectSeq, acked, evicted, afterStop>>
  BY DEF KillWorker
<1>2. InMemory \subseteq Samples
  BY DEF InMemory, PusherTypeOK, Samples
<1>3. PusherTypeOK'
  <2>1. /\ collectSeq' \in 0 .. MaxSeq /\ afterStop' \in Nat
        /\ acked' \in SUBSET Samples /\ evicted' \in SUBSET Samples
    BY <1>1, Zenon DEF PusherTypeOK
  <2>2. /\ pending' \in Seq(Samples) /\ Len(pending') <= Capacity
        /\ backlog' \in Seq(Samples) /\ Len(backlog') <= Capacity
    BY <1>1, EmptySeq
  <2>3. /\ pc' \in {"new", "loop", "replay", "collect", "push", "sleep", "killed", "exited"}
        /\ info' \in 0 .. MaxSeq
    BY <1>1
  <2>4. lost' \in SUBSET Samples
    BY <1>1, <1>2 DEF PusherTypeOK
  <2>5. running' \in BOOLEAN
    BY <1>1, Zenon
  <2> QED BY <2>1, <2>2, <2>3, <2>4, <2>5, Zenon DEF PusherTypeOK
<1>4. InMemory' = {}
  BY <1>1, NoneHeld DEF InMemory
<1>5. PusherOrder'
  BY <1>1, <1>4, NoneHeld, EmptySeq DEF PusherOrder, Ascending
<1>6. PusherPhase'
  BY <1>1, EmptySeq DEF PusherPhase
<1>7. PusherHistory'
  BY <1>1, <1>4 DEF PusherHistory, PusherOrder
<1>8. PusherStop'
  <2>1. CallsAhead \in Nat /\ CallsAhead' = 0
    BY <1>1 DEF CallsAhead
  <2>2. ~running' /\ afterStop' = afterStop /\ pc' # "new"
    BY <1>1, Zenon
  <2>3. afterStop <= Capacity + 1
    BY <2>1 DEF PusherStop
  <2> QED BY <2>1, <2>2, <2>3 DEF PusherStop
<1>9. NoneForgotten
  BY <1>1 DEF NoneForgotten
<1>10. OldestGivesWay
  BY <1>1 DEF OldestGivesWay
<1> QED BY <1>3, <1>5, <1>6, <1>7, <1>8, <1>9, <1>10

\* Start, Stop and the steps in which nothing moves but the program counter.
LEMMA ControlKeeps ==
  PusherInv /\ (Start \/ Stop \/ SkipCollect \/ Sleep)
    => PusherInv' /\ NoneForgotten /\ OldestGivesWay
<1> SUFFICES ASSUME PusherInv, Start \/ Stop \/ SkipCollect \/ Sleep
             PROVE  PusherInv' /\ NoneForgotten /\ OldestGivesWay
  OBVIOUS
<1> USE CapacityType, PusherFacts DEF PusherInv
<1>1. UNCHANGED <<collectSeq, backlog, pending, info, acked, evicted, lost, afterStop>>
  BY DEF Start, Stop, SkipCollect, Sleep
<1>2. \/ pc = "new" /\ ~running /\ pc' = "loop" /\ running' = TRUE
      \/ running /\ running' = FALSE /\ pc' = pc
      \/ pc = "collect" /\ pc' = "sleep" /\ running' = running
      \/ pc = "sleep" /\ pc' = "loop" /\ running' = running
  BY Zenon DEF Start, Stop, SkipCollect, Sleep
<1>3. PusherTypeOK'
  <2>1. /\ collectSeq' \in 0 .. MaxSeq /\ info' \in 0 .. MaxSeq
        /\ backlog' \in Seq(Samples) /\ Len(backlog') <= Capacity
        /\ pending' \in Seq(Samples) /\ Len(pending') <= Capacity
        /\ acked' \in SUBSET Samples /\ evicted' \in SUBSET Samples
        /\ lost' \in SUBSET Samples /\ afterStop' \in Nat
    BY <1>1, Zenon DEF PusherTypeOK
  <2>2. /\ running' \in BOOLEAN
        /\ pc' \in {"new", "loop", "replay", "collect", "push", "sleep", "killed", "exited"}
    BY <1>2, Zenon DEF PusherTypeOK
  <2> QED BY <2>1, <2>2, Zenon DEF PusherTypeOK
<1>4. InMemory' = InMemory
  BY <1>1 DEF InMemory
<1>5. /\ pc = "replay" <=> pc' = "replay"
      /\ pc = "push" <=> pc' = "push"
      /\ pc' # "new"
  <2>1. running => pc # "new"
    BY Zenon DEF PusherStop
  <2> QED BY <1>2, <2>1
<1>6. PusherOrder'
  BY <1>1, <1>4, <1>5 DEF PusherOrder
<1>7. PusherPhase'
  BY <1>1, <1>5 DEF PusherPhase
<1>8. PusherHistory'
  BY <1>1, <1>4 DEF PusherHistory
<1>9. PusherStop'
  <2>1. CASE pc = "new" /\ ~running /\ pc' = "loop" /\ running' = TRUE
    BY <1>1, <2>1 DEF PusherStop
  <2>2. CASE running /\ running' = FALSE /\ pc' = pc
    <3>1. afterStop' = 0
      BY <1>1, <2>2 DEF PusherStop
    <3>2. ~running'
      BY <2>2, Zenon
    <3>3. afterStop' + CallsAhead' <= Capacity + 1
      BY <1>1, <2>2, <3>1 DEF CallsAhead, PusherTypeOK
    <3> QED BY <3>1, <3>2, <3>3, Zenon DEF PusherStop
  <2>3. CASE pc \in {"collect", "sleep"} /\ pc' \in {"sleep", "loop"} /\ running' = running
    <3>1. CallsAhead \in Nat /\ CallsAhead' = 0
      BY <2>3 DEF CallsAhead
    <3>2. running' <=> running
      BY <2>3, Zenon
    <3> QED BY <1>1, <2>3, <3>1, <3>2 DEF PusherStop
  <2> QED BY <1>2, <2>1, <2>2, <2>3
<1>10. NoneForgotten
  BY <1>4 DEF NoneForgotten
<1>11. OldestGivesWay
  BY <1>1 DEF OldestGivesWay
<1> QED BY <1>3, <1>6, <1>7, <1>8, <1>9, <1>10, <1>11

\* A new process goes on above the numbers used before.
LEMMA RestartKeeps == PusherInv /\ Restart => PusherInv' /\ NoneForgotten /\ OldestGivesWay
<1> SUFFICES ASSUME PusherInv, Restart PROVE PusherInv' /\ NoneForgotten /\ OldestGivesWay
  OBVIOUS
<1> USE CapacityType, PusherFacts DEF PusherInv
<1>1. /\ pc \in {"killed", "exited"} /\ pc' = "new" /\ running' = FALSE
      /\ collectSeq' \in collectSeq .. MaxSeq /\ afterStop' = 0
      /\ UNCHANGED <<backlog, pending, info, acked, evicted, lost>>
  BY DEF Restart
<1>2. PusherTypeOK'
  <2>1. /\ info' \in 0 .. MaxSeq
        /\ backlog' \in Seq(Samples) /\ Len(backlog') <= Capacity
        /\ pending' \in Seq(Samples) /\ Len(pending') <= Capacity
        /\ acked' \in SUBSET Samples /\ evicted' \in SUBSET Samples
        /\ lost' \in SUBSET Samples
    BY <1>1, Zenon DEF PusherTypeOK
  <2>2. collectSeq' \in 0 .. MaxSeq /\ afterStop' \in Nat
    BY <1>1
  <2>3. /\ running' \in BOOLEAN
        /\ pc' \in {"new", "loop", "replay", "collect", "push", "sleep", "killed", "exited"}
    BY <1>1, Zenon
  <2> QED BY <2>1, <2>2, <2>3, Zenon DEF PusherTypeOK
<1>3. InMemory' = InMemory /\ InMemory \subseteq Nat
  BY <1>1 DEF InMemory
<1>4. collectSeq' \in Nat /\ collectSeq <= collectSeq'
  BY <1>1
<1>5. PusherOrder'
  BY <1>1, <1>3, <1>4 DEF PusherOrder
<1>6. PusherPhase'
  BY <1>1 DEF PusherPhase
<1>7. PusherHistory'
  <2>1. \A s \in acked \cup evicted \cup lost : s \in Nat /\ s <= collectSeq
    BY DEF PusherHistory, PusherTypeOK
  <2> QED BY <1>1, <1>3, <1>4, <2>1 DEF PusherHistory
<1>8. PusherStop'
  <2>1. CallsAhead' = 0 /\ ~running' /\ afterStop' = 0
    BY <1>1 DEF CallsAhead
  <2> QED BY <2>1 DEF PusherStop
<1>9. NoneForgotten
  BY <1>3 DEF NoneForgotten
<1>10. OldestGivesWay
  BY <1>1 DEF OldestGivesWay
<1> QED BY <1>2, <1>5, <1>6, <1>7, <1>8, <1>9, <1>10

\* Every step of the worker keeps the invariant, forgets no sample and
\* overwrites none but the oldest.
LEMMA PusherStep ==
  PusherInv /\ [PusherNext]_(pusherVars) => PusherInv' /\ NoneForgotten /\ OldestGivesWay
<1> SUFFICES ASSUME PusherInv, [PusherNext]_(pusherVars)
             PROVE  PusherInv' /\ NoneForgotten /\ OldestGivesWay
  OBVIOUS
<1>1. CASE UNCHANGED pusherVars
  <2>1. UNCHANGED <<running, pc, collectSeq, backlog, pending, info, acked, evicted, lost, afterStop>>
    BY <1>1 DEF pusherVars
  <2> QED
    BY <2>1, Zenon DEF PusherInv, PusherTypeOK, PusherOrder, PusherPhase, PusherHistory,
                PusherStop, CallsAhead, Ascending, InMemory, NoneForgotten, OldestGivesWay
<1>2. CASE PusherNext
  BY <1>2, ReplayOkKeeps, ReplayFailKeeps, CollectAllKeeps, PushOkKeeps, PushFailKeeps,
     StartRoundKeeps, LeaveLoopKeeps, KillKeeps, ControlKeeps, RestartKeeps
     DEF PusherNext, LoopStep, PushDataReturns
<1> QED BY <1>1, <1>2

\* The inductive invariant of MonitorPusher: the order of its samples, where
\* its loop stands with how many, and how far a stop has come.
THEOREM PusherInvariance == PusherSpec => []PusherInv
<1>1. PusherInv /\ [PusherNext]_(pusherVars) => PusherInv'
  BY PusherStep
<1> QED BY PusherInvInit, <1>1, PTL DEF PusherSpec

\* The ring buffer and the drained vector never exceed the capacity and hold
\* sequence numbers only.
THEOREM PusherTypeCorrect == PusherSpec => []PusherTypeOK
<1>1. PusherInv => PusherTypeOK
  BY DEF PusherInv
<1> QED BY <1>1, PusherInvariance, PTL

\* Two ascending sequences, the second above the first, put together.
LEMMA AscendingConcat ==
  ASSUME NEW S \in SUBSET Nat, NEW s \in Seq(S), NEW t \in Seq(S),
         Ascending(s), Ascending(t),
         \A x \in ToSet(s), y \in ToSet(t) : x < y
  PROVE  /\ s \o t \in Seq(S) /\ Ascending(s \o t)
         /\ ToSet(s \o t) = ToSet(s) \cup ToSet(t)
<1>1. /\ s \o t \in Seq(S) /\ Len(s \o t) = Len(s) + Len(t)
      /\ \A i \in 1 .. Len(s) + Len(t) :
           (s \o t)[i] = IF i <= Len(s) THEN s[i] ELSE t[i - Len(s)]
  BY ConcatProperties
<1>2. /\ Len(s) \in Nat /\ Len(t) \in Nat
      /\ DOMAIN s = 1 .. Len(s) /\ DOMAIN t = 1 .. Len(t)
      /\ DOMAIN (s \o t) = 1 .. Len(s) + Len(t)
  BY <1>1, LenProperties
<1>3. \A i \in 1 .. Len(s), j \in 1 .. Len(t) : s[i] < t[j]
  BY <1>2 DEF ToSet
<1>4. Ascending(s \o t)
  <2>1. SUFFICES ASSUME NEW i \in 1 .. Len(s) + Len(t), NEW j \in 1 .. Len(s) + Len(t),
                        i < j
                 PROVE  (s \o t)[i] < (s \o t)[j]
    BY <1>1 DEF Ascending
  <2>2. CASE j <= Len(s)
    BY <1>1, <1>2, <2>1, <2>2 DEF Ascending
  <2>3. CASE i <= Len(s) /\ j > Len(s)
    <3>1. i \in 1 .. Len(s) /\ j - Len(s) \in 1 .. Len(t)
      BY <1>2, <2>3
    <3> QED BY <1>1, <1>2, <1>3, <2>3, <3>1
  <2>4. CASE i > Len(s)
    <3>1. i - Len(s) \in 1 .. Len(t) /\ j - Len(s) \in 1 .. Len(t)
      BY <1>2, <2>1, <2>4
    <3>2. t[i - Len(s)] < t[j - Len(s)]
      BY <1>2, <2>1, <3>1 DEF Ascending
    <3> QED BY <1>1, <1>2, <2>1, <2>4, <3>2
  <2> QED BY <1>2, <2>2, <2>3, <2>4
<1>5. \A i \in 1 .. Len(s) + Len(t) : (s \o t)[i] \in ToSet(s) \cup ToSet(t)
  <2>1. SUFFICES ASSUME NEW i \in 1 .. Len(s) + Len(t)
                 PROVE  (s \o t)[i] \in ToSet(s) \cup ToSet(t)
    OBVIOUS
  <2>2. CASE i <= Len(s)
    BY <1>1, <1>2, <2>2 DEF ToSet
  <2>3. CASE i > Len(s)
    <3>1. i - Len(s) \in 1 .. Len(t)
      BY <1>2, <2>3
    <3> QED BY <1>1, <1>2, <2>3, <3>1 DEF ToSet
  <2> QED BY <1>2, <2>2, <2>3
<1>6. \A i \in 1 .. Len(s) : s[i] \in ToSet(s \o t)
  <2>1. SUFFICES ASSUME NEW i \in 1 .. Len(s) PROVE s[i] \in ToSet(s \o t)
    OBVIOUS
  <2>2. i \in 1 .. Len(s) + Len(t) /\ (s \o t)[i] = s[i]
    BY <1>1, <1>2
  <2> QED BY <1>2, <2>2 DEF ToSet
<1>7. \A i \in 1 .. Len(t) : t[i] \in ToSet(s \o t)
  <2>1. SUFFICES ASSUME NEW i \in 1 .. Len(t) PROVE t[i] \in ToSet(s \o t)
    OBVIOUS
  <2>2. i + Len(s) \in 1 .. Len(s) + Len(t) /\ (s \o t)[i + Len(s)] = t[i]
    <3>1. i + Len(s) \in 1 .. Len(s) + Len(t) /\ ~(i + Len(s) <= Len(s))
          /\ i + Len(s) - Len(s) = i
      BY <1>2
    <3> QED BY <1>1, <3>1
  <2> QED BY <1>2, <2>2 DEF ToSet
<1>8. ToSet(s \o t) = ToSet(s) \cup ToSet(t)
  BY <1>2, <1>5, <1>6, <1>7 DEF ToSet
<1> QED BY <1>1, <1>4, <1>8

\* The order of the containers, with the place of the thread, is the order of sending.
LEMMA PusherInvOldestFirst == PusherInv => OldestFirst
<1> SUFFICES ASSUME PusherInv PROVE OldestFirst
  OBVIOUS
<1> DEFINE last == IF info = 0 THEN <<>> ELSE <<info>>
<1>1. /\ Samples \in SUBSET Nat /\ backlog \in Seq(Samples) /\ pending \in Seq(Samples)
  BY PusherFacts
<1>2. /\ backlog \o pending \in Seq(Samples) /\ Ascending(backlog \o pending)
      /\ ToSet(backlog \o pending) = ToSet(backlog) \cup ToSet(pending)
  <2>1. /\ Ascending(backlog) /\ Ascending(pending)
        /\ \A s \in ToSet(backlog), t \in ToSet(pending) : s < t
    BY DEF PusherInv, PusherOrder
  <2> QED BY <1>1, <2>1, AscendingConcat
<1>3. /\ last \in Seq(Samples) /\ Ascending(last)
      /\ ToSet(last) = {info} \ {0}
  <2>1. CASE info = 0
    BY <2>1, EmptySeq, NoneHeld DEF Ascending
  <2>2. CASE info # 0
    <3>1. info \in Samples
      BY <2>2, CapacityType DEF PusherInv, PusherTypeOK, Samples
    <3>2. last = <<info>> /\ Len(last) = 1 /\ last[1] = info /\ DOMAIN last = 1 .. 1
      BY <2>2
    <3>3. ToSet(last) = {info}
      BY <3>2 DEF ToSet
    <3> QED BY <2>2, <3>1, <3>2, <3>3 DEF Ascending
  <2> QED BY <2>1, <2>2
<1>4. \A s \in ToSet(backlog \o pending), t \in ToSet(last) : s < t
  BY <1>2, <1>3, NoneHeld DEF PusherInv, PusherOrder, PusherPhase
<1>5. Unsent = (backlog \o pending) \o last
  BY DEF Unsent
<1> HIDE DEF last
<1>6. /\ Unsent \in Seq(Samples) /\ Ascending(Unsent)
      /\ ToSet(Unsent) = InMemory
  <2>1. /\ (backlog \o pending) \o last \in Seq(Samples)
        /\ Ascending((backlog \o pending) \o last)
        /\ ToSet((backlog \o pending) \o last) = ToSet(backlog \o pending) \cup ToSet(last)
    BY <1>1, <1>2, <1>3, <1>4, AscendingConcat
  <2>2. ToSet(backlog \o pending) \cup ToSet(last) = InMemory
    BY <1>2, <1>3, Zenon DEF InMemory
  <2> QED BY <2>1, <2>2, <1>5
<1>7. \A i \in 1 .. Len(Unsent) : Unsent[i] \in InMemory
  BY <1>6, LenProperties DEF ToSet
<1>8. \A i \in 1 .. Len(Unsent) : Unsent[i] <= collectSeq
  BY <1>7 DEF PusherInv, PusherOrder
<1> QED BY <1>6, <1>8 DEF OldestFirst, Ascending

\* FlushBacklog and PushOnce offer the samples in the order they were
\* collected, none twice, through any partial replay and overwriting.
THEOREM PusherOldestFirst == PusherSpec => []OldestFirst
  BY PusherInvariance, PusherInvOldestFirst, PTL

\* After Stop the push thread calls PushData at most once per sample a full
\* backlog holds and once more before it looks at running_.
THEOREM PusherStopDelay == PusherSpec => []StopDelayBounded
<1>1. PusherInv => StopDelayBounded
  <2> SUFFICES ASSUME PusherInv PROVE StopDelayBounded
    OBVIOUS
  <2>1. CallsAhead \in Nat /\ afterStop \in Nat
    BY PusherFacts DEF CallsAhead
  <2> QED BY <2>1, CapacityType DEF PusherInv, PusherStop, StopDelayBounded
<1> QED BY <1>1, PusherInvariance, PTL

\* A member of one of four disjoint sets is in exactly one.
LEMMA OneOfFour ==
  ASSUME NEW s, NEW A, NEW B, NEW C, NEW D,
         s \in A \cup B \cup C \cup D,
         A \cap B = {}, A \cap C = {}, A \cap D = {},
         B \cap C = {}, B \cap D = {}, C \cap D = {}
  PROVE  Cardinality({i \in 1 .. 4 : s \in <<A, B, C, D>>[i]}) = 1
<1>1. PICK k \in 1 .. 4 : s \in <<A, B, C, D>>[k]
  <2>1. <<A, B, C, D>>[1] = A /\ <<A, B, C, D>>[2] = B /\ <<A, B, C, D>>[3] = C /\ <<A, B, C, D>>[4] = D
    OBVIOUS
  <2>2. 1 \in 1 .. 4 /\ 2 \in 1 .. 4 /\ 3 \in 1 .. 4 /\ 4 \in 1 .. 4
    OBVIOUS
  <2> QED BY <2>1, <2>2
<1>2. \A i \in 1 .. 4 : s \in <<A, B, C, D>>[i] => i = k
  <2>1. \A i \in 1 .. 4 : i = 1 \/ i = 2 \/ i = 3 \/ i = 4
    OBVIOUS
  <2> QED BY <1>1, <2>1
<1>3. {i \in 1 .. 4 : s \in <<A, B, C, D>>[i]} = {k}
  BY <1>1, <1>2
<1> QED BY <1>3, FS_Singleton

\* No step of the worker forgets a sample, and none acknowledges, overwrites
\* or loses one that it still keeps: Push, Drain and the calls of PushData
\* move each sample to exactly one place.
THEOREM PusherAccounts == PusherSpec => EverySampleAccounted
<1>1. PusherInv /\ [PusherNext]_(pusherVars) =>
        [\A s \in InMemory :
           Cardinality({i \in 1 .. 4 :
             s \in <<InMemory', acked', evicted', lost'>>[i]}) = 1]_(pusherVars)
  <2>1. SUFFICES ASSUME PusherInv, [PusherNext]_(pusherVars), NEW s \in InMemory
                 PROVE  Cardinality({i \in 1 .. 4 :
                          s \in <<InMemory', acked', evicted', lost'>>[i]}) = 1
    OBVIOUS
  <2>2. PusherInv' /\ NoneForgotten
    BY <2>1, PusherStep
  <2>3. s \in InMemory' \cup acked' \cup evicted' \cup lost'
    BY <2>2 DEF NoneForgotten
  <2>4. /\ InMemory' \cap acked' = {} /\ InMemory' \cap evicted' = {}
        /\ InMemory' \cap lost' = {} /\ acked' \cap evicted' = {}
        /\ acked' \cap lost' = {} /\ evicted' \cap lost' = {}
    BY <2>2 DEF PusherInv, PusherHistory
  <2> HIDE DEF NoneForgotten
  <2>5. Cardinality({i \in 1 .. 4 :
          s \in <<InMemory', acked', evicted', lost'>>[i]}) = 1
    BY <2>3, <2>4, OneOfFour
  <2> QED BY <2>5 DEF Cardinality, Cardinality
<1> QED
  BY <1>1, PusherInvariance, PTL DEF PusherSpec, EverySampleAccounted

\* Only the newest sample of PushOnce overwrites one, when the buffer is full,
\* and what it overwrites is older than all that stay; a replay overwrites
\* nothing.
THEOREM PusherEvictsOldest == PusherSpec => OnlyOldestEvicted
<1>1. PusherInv /\ [PusherNext]_(pusherVars) =>
        [\A s \in evicted' \ evicted :
           /\ pc = "push"
           /\ Len(backlog') = Capacity
           /\ \A t \in ToSet(backlog') : s < t]_(pusherVars)
  BY PusherStep DEF OldestGivesWay
<1> QED BY <1>1, PusherInvariance, PTL DEF PusherSpec, OnlyOldestEvicted

-----------------------------------------------------------------------------
\* The type of a handler.
Handler == [pc : {"idle", "dedup", "readPerf", "writePerf", "update", "enqueue", "reply"},
            host : Host \cup {""}, seq : Numbers,
            field : 0 .. NumFields, last : Perf]

\* The bounds of the manager.
LEMMA ManagerConstants == MaxSeq \in Nat /\ NumFields \in Nat /\ NumFields > 0
  BY ManagerAssumption, SequenceAssumption

\* Maps from some of the hosts.
LEMMA PartialMap ==
  ASSUME NEW V, NEW f
  PROVE  f \in PartialMaps(V) <=> DOMAIN f \subseteq Host /\ f \in [DOMAIN f -> V]
  BY DEF PartialMaps

\* operator[] of a map keeps its type,
LEMMA AssignType ==
  ASSUME NEW V, NEW f \in PartialMaps(V), NEW h \in Host, NEW v \in V
  PROVE  Assign(f, h, v) \in PartialMaps(V)
<1>1. DOMAIN f \subseteq Host /\ f \in [DOMAIN f -> V]
  BY PartialMap
<1>2. Assign(f, h, v) \in [DOMAIN f \cup {h} -> V]
  BY <1>1 DEF Assign
<1>3. DOMAIN Assign(f, h, v) = DOMAIN f \cup {h}
  BY DEF Assign
<1> QED BY <1>1, <1>2, <1>3, PartialMap

\* and so does erase.
LEMMA EraseType ==
  ASSUME NEW V, NEW f \in PartialMaps(V), NEW gone
  PROVE  /\ Erase(f, gone) \in PartialMaps(V)
         /\ DOMAIN Erase(f, gone) = DOMAIN f \ gone
         /\ \A x \in DOMAIN f \ gone : Erase(f, gone)[x] = f[x]
<1>1. DOMAIN f \subseteq Host /\ f \in [DOMAIN f -> V]
  BY PartialMap
<1>2. Erase(f, gone) \in [DOMAIN f \ gone -> V]
  BY <1>1 DEF Erase
<1>3. /\ DOMAIN Erase(f, gone) = DOMAIN f \ gone
      /\ \A x \in DOMAIN f \ gone : Erase(f, gone)[x] = f[x]
  BY DEF Erase
<1> QED BY <1>1, <1>2, <1>3, PartialMap

\* Empty maps.
LEMMA EmptyType ==
  ASSUME NEW V
  PROVE  Empty \in PartialMaps(V) /\ DOMAIN Empty = {}
<1>1. DOMAIN Empty = {} /\ Empty \in [{} -> V]
  BY DEF Empty
<1> QED BY <1>1, PartialMap

\* A free thread of the server.
LEMMA IdleType == Idle \in Handler /\ Idle.pc = "idle" /\ Zero \in Perf
<1>1. Zero \in Perf
  BY ManagerConstants DEF Zero, Perf, Numbers
<1>2. 0 \in Numbers /\ 0 \in 0 .. NumFields
  BY ManagerConstants DEF Numbers
<1>3. Idle \in Handler
  BY <1>1, <1>2 DEF Idle, Handler
<1> QED BY <1>1, <1>3 DEF Idle

\* One handler changes, the others do not.
LEMMA HandlerUpdate ==
  ASSUME call \in [Call -> Handler], NEW c \in Call, NEW r \in Handler,
         call' = [call EXCEPT ![c] = r]
  PROVE  /\ call' \in [Call -> Handler] /\ call'[c] = r
         /\ \A d \in Call \ {c} : call'[d] = call[d]
  OBVIOUS

\* A handler that goes on keeps its sample.
LEMMA HandlerGoto ==
  ASSUME call \in [Call -> Handler], NEW c \in Call,
         NEW p \in {"idle", "dedup", "readPerf", "writePerf", "update", "enqueue", "reply"},
         Goto(c, p)
  PROVE  /\ call' \in [Call -> Handler]
         /\ call'[c] = [call[c] EXCEPT !.pc = p]
         /\ call'[c].pc = p /\ call'[c].host = call[c].host /\ call'[c].seq = call[c].seq
         /\ call'[c].field = call[c].field
         /\ \A d \in Call \ {c} : call'[d] = call[d]
<1>1. call' = [call EXCEPT ![c] = [call[c] EXCEPT !.pc = p]]
  BY DEF Goto
<1>2. [call[c] EXCEPT !.pc = p] \in Handler
  BY DEF Handler
<1> DEFINE r == [call[c] EXCEPT !.pc = p]
<1>3. r.pc = p /\ r.host = call[c].host /\ r.seq = call[c].seq /\ r.field = call[c].field
  BY DEF Handler
<1> QED BY <1>1, <1>2, <1>3, HandlerUpdate

\* Somebody takes care of a sample: it was queued, or a handler will queue it.
Handled(a) == a \in enqueued \/ \E c \in Call : Accepted(c) /\ SampleOf(c) = a

\* A handler at work has a host, and between the fields of a PerfSample one
\* to go on with.
HandlersInv ==
  /\ \A c \in Call : call[c].pc # "idle" => call[c].host \in Host
  /\ \A c \in Call : call[c].pc \in {"readPerf", "writePerf"} => call[c].field > 0

\* What was answered, will be answered or would be taken for a duplicate is
\* handled.
HandledInv ==
  /\ \A a \in answered : Handled(a)
  /\ \A c \in Call : call[c].pc = "reply" => Handled(SampleOf(c))
  /\ \A h \in DOMAIN lastSequences : Handled(<<h, lastSequences[h]>>)

\* A recorded sequence has its host among the scores, or its handler is
\* between the two critical sections.
GhostInv ==
  \A h \in DOMAIN lastSequences :
    \/ h \in DOMAIN hostScores
    \/ \E c \in Call : call[c].pc \in {"readPerf", "writePerf", "update"} /\ call[c].host = h

ReceiveInv == ReceiveTypeOK /\ HandlersInv /\ HandledInv /\ GhostInv

\* ReceiveTypeOK, variable by variable.
LEMMA ReceiveTypes ==
  ReceiveTypeOK <=> /\ lastSequences \in PartialMaps(1 .. MaxSeq)
               /\ lastPerf \in PartialMaps(Perf)
               /\ hostScores \in PartialMaps(Numbers)
               /\ call \in [Call -> Handler]
               /\ enqueued \in SUBSET (Host \X Numbers)
               /\ answered \in SUBSET (Host \X Numbers)
  BY Zenon DEF ReceiveTypeOK, Handler

\* A manager that has just started.
LEMMA ReceiveInvInit == ReceiveInit => ReceiveInv
<1> SUFFICES ASSUME ReceiveInit PROVE ReceiveInv
  OBVIOUS
<1>1. ReceiveTypeOK
  <2>1. call \in [Call -> Handler]
    BY IdleType DEF ReceiveInit
  <2>2. enqueued \in SUBSET (Host \X Numbers) /\ answered \in SUBSET (Host \X Numbers)
    BY DEF ReceiveInit
  <2> QED BY <2>1, <2>2, EmptyType, ReceiveTypes DEF ReceiveInit
<1>2. HandlersInv /\ HandledInv /\ GhostInv
  BY EmptyType, IdleType DEF ReceiveInit, HandlersInv, HandledInv, GhostInv
<1> QED BY <1>1, <1>2 DEF ReceiveInv

\* A sample stays handled while it is queued or its handler goes on.
LEMMA HandledStays ==
  ASSUME enqueued \subseteq enqueued',
         \A c \in Call : Accepted(c) =>
           \/ Accepted(c)' /\ SampleOf(c)' = SampleOf(c)
           \/ SampleOf(c) \in enqueued',
         NEW a, Handled(a)
  PROVE  Handled(a)'
  BY DEF Handled

\* A handler enters OnDataReceived.
LEMMA ReceiveKeeps ==
  ASSUME ReceiveInv, NEW c \in Call, NEW h \in Host, NEW s \in Numbers, Receive(c, h, s)
  PROVE  ReceiveInv' /\ \A a : Handled(a) => Handled(a)'
<1> DEFINE r == [Idle EXCEPT !.pc = "dedup", !.host = h, !.seq = s]
<1>1. /\ call[c].pc = "idle" /\ call' = [call EXCEPT ![c] = r]
      /\ UNCHANGED <<lastSequences, lastPerf, hostScores, enqueued, answered>>
  BY DEF Receive, At, maps
<1>2. r \in Handler /\ r.pc = "dedup" /\ r.host = h /\ r.seq = s
  BY IdleType DEF Handler
<1> HIDE DEF r
<1>3. call \in [Call -> Handler]
  BY ReceiveTypes DEF ReceiveInv
<1>4. /\ call' \in [Call -> Handler] /\ call'[c] = r
      /\ \A d \in Call \ {c} : call'[d] = call[d]
  BY <1>1, <1>2, <1>3, HandlerUpdate
<1>5. ReceiveTypeOK'
  BY <1>1, <1>4, ReceiveTypes DEF ReceiveInv, ReceiveTypeOK, Handler
<1>6. HandlersInv'
  BY <1>2, <1>4 DEF ReceiveInv, HandlersInv
<1>7. \A a : Handled(a) => Handled(a)'
  <2>1. \A d \in Call : Accepted(d) => Accepted(d)' /\ SampleOf(d)' = SampleOf(d)
    BY <1>1, <1>4 DEF Accepted, SampleOf
  <2> QED BY <1>1, <2>1, HandledStays
<1>8. HandledInv'
  <2>1. \A d \in Call : call'[d].pc = "reply" => call[d].pc = "reply" /\ SampleOf(d)' = SampleOf(d)
    BY <1>2, <1>4 DEF SampleOf
  <2> QED BY <1>1, <1>7, <2>1 DEF ReceiveInv, HandledInv
<1>9. GhostInv'
  BY <1>1, <1>4 DEF ReceiveInv, GhostInv
<1> QED BY <1>5, <1>6, <1>7, <1>8, <1>9 DEF ReceiveInv

\* The first critical section: a duplicate is handled because the sample
\* whose sequence is recorded is; a new sequence is handled by this handler.
LEMMA DedupKeeps ==
  ASSUME ReceiveInv, NEW c \in Call, Dedup(c)
  PROVE  ReceiveInv' /\ \A a : Handled(a) => Handled(a)'
<1>0. PICK h, s : h = call[c].host /\ s = call[c].seq
  OBVIOUS
<1>1. /\ call[c].pc = "dedup" /\ h \in Host /\ s \in Numbers
      /\ call \in [Call -> Handler] /\ lastSequences \in PartialMaps(1 .. MaxSeq)
      /\ UNCHANGED <<lastPerf, hostScores, enqueued, answered>>
  BY <1>0, ReceiveTypes DEF ReceiveInv, HandlersInv, Dedup, At, Handler
<1>2. \/ IsDuplicate(h, s) /\ Goto(c, "reply") /\ lastSequences' = lastSequences
      \/ /\ lastSequences' = Recorded(h, s)
         /\ call' = [call EXCEPT ![c].pc = "readPerf", ![c].field = 1]
  BY <1>0 DEF Dedup
<1>3. CASE IsDuplicate(h, s) /\ Goto(c, "reply") /\ lastSequences' = lastSequences
  <2>1. /\ call' \in [Call -> Handler]
        /\ call'[c].pc = "reply" /\ call'[c].host = h /\ call'[c].seq = s
        /\ \A d \in Call \ {c} : call'[d] = call[d]
    BY <1>0, <1>1, <1>3, HandlerGoto
  <2>2. ReceiveTypeOK'
    BY <1>1, <1>3, <2>1, ReceiveTypes DEF ReceiveInv, ReceiveTypeOK, Handler
  <2>3. HandlersInv'
    BY <1>1, <2>1 DEF ReceiveInv, HandlersInv
  <2>4. \A a : Handled(a) => Handled(a)'
    <3>1. \A d \in Call : Accepted(d) => Accepted(d)' /\ SampleOf(d)' = SampleOf(d)
      BY <1>1, <2>1 DEF Accepted, SampleOf
    <3> QED BY <1>1, <3>1, HandledStays
  <2>5. h \in DOMAIN lastSequences /\ SampleOf(c)' = <<h, lastSequences[h]>>
    BY <1>3, <2>1 DEF IsDuplicate, SampleOf
  <2>6. HandledInv'
    <3>1. \A d \in Call : d # c /\ call'[d].pc = "reply" =>
                            call[d].pc = "reply" /\ SampleOf(d)' = SampleOf(d)
      BY <2>1 DEF SampleOf
    <3> QED BY <1>1, <1>3, <2>4, <2>5, <3>1 DEF ReceiveInv, HandledInv
  <2>7. GhostInv'
    BY <1>1, <1>3, <2>1 DEF ReceiveInv, GhostInv
  <2> QED BY <2>2, <2>3, <2>4, <2>6, <2>7 DEF ReceiveInv
<1>4. CASE /\ lastSequences' = Recorded(h, s)
           /\ call' = [call EXCEPT ![c].pc = "readPerf", ![c].field = 1]
  <2> DEFINE r == [call[c] EXCEPT !.pc = "readPerf", !.field = 1]
  <2>1. r \in Handler /\ r.pc = "readPerf" /\ r.host = h /\ r.seq = s /\ r.field = 1
    <3>1. 1 \in 0 .. NumFields
      BY ManagerConstants
    <3> QED BY <1>0, <1>1, <3>1 DEF Handler
  <2>2. call' = [call EXCEPT ![c] = r]
    BY <1>4
  <2> HIDE DEF r
  <2>3. /\ call' \in [Call -> Handler] /\ call'[c] = r
        /\ \A d \in Call \ {c} : call'[d] = call[d]
    BY <1>1, <2>1, <2>2, HandlerUpdate
  <2>4. \/ lastSequences' = lastSequences
        \/ s \in 1 .. MaxSeq /\ lastSequences' = Assign(lastSequences, h, s)
    BY <1>1, <1>4, ManagerConstants DEF Recorded, Numbers
  <2>5. /\ lastSequences' \in PartialMaps(1 .. MaxSeq)
        /\ \A x \in DOMAIN lastSequences' :
             \/ x = h /\ lastSequences'[x] = s
             \/ x \in DOMAIN lastSequences /\ lastSequences'[x] = lastSequences[x]
    <3>1. CASE lastSequences' = lastSequences
      BY <1>1, <3>1
    <3>2. CASE s \in 1 .. MaxSeq /\ lastSequences' = Assign(lastSequences, h, s)
      <4>1. /\ Assign(lastSequences, h, s) \in PartialMaps(1 .. MaxSeq)
            /\ DOMAIN Assign(lastSequences, h, s) = DOMAIN lastSequences \cup {h}
            /\ Assign(lastSequences, h, s)[h] = s
            /\ \A x \in DOMAIN lastSequences :
                 x # h => Assign(lastSequences, h, s)[x] = lastSequences[x]
        <5>1. Assign(lastSequences, h, s) \in PartialMaps(1 .. MaxSeq)
          BY <1>1, <3>2, AssignType
        <5>2. /\ DOMAIN Assign(lastSequences, h, s) = DOMAIN lastSequences \cup {h}
              /\ Assign(lastSequences, h, s)[h] = s
              /\ \A x \in DOMAIN lastSequences :
                   x # h => Assign(lastSequences, h, s)[x] = lastSequences[x]
          BY DEF Assign
        <5> QED BY <5>1, <5>2
      <4> QED BY <3>2, <4>1
    <3> QED BY <2>4, <3>1, <3>2
  <2>6. ReceiveTypeOK'
    BY <1>1, <2>3, <2>5, ReceiveTypes DEF ReceiveInv, ReceiveTypeOK, Handler
  <2>7. HandlersInv'
    BY <1>1, <2>1, <2>3 DEF ReceiveInv, HandlersInv
  <2>8. \A a : Handled(a) => Handled(a)'
    <3>1. \A d \in Call : Accepted(d) => Accepted(d)' /\ SampleOf(d)' = SampleOf(d)
      BY <1>1, <2>1, <2>3 DEF Accepted, SampleOf
    <3> QED BY <1>1, <3>1, HandledStays
  <2>9. Handled(<<h, s>>)'
    BY <2>1, <2>3 DEF Handled, Accepted, SampleOf
  <2>10. HandledInv'
    <3>1. \A d \in Call : call'[d].pc = "reply" =>
                            call[d].pc = "reply" /\ SampleOf(d)' = SampleOf(d)
      BY <2>1, <2>3 DEF SampleOf
    <3> QED BY <1>1, <2>5, <2>8, <2>9, <3>1 DEF ReceiveInv, HandledInv
  <2>11. GhostInv'
    <3>1. \A d \in Call : call[d].pc \in {"readPerf", "writePerf", "update"} =>
             call'[d].pc \in {"readPerf", "writePerf", "update"} /\ call'[d].host = call[d].host
      BY <1>1, <2>1, <2>3
    <3>2. call'[c].pc = "readPerf" /\ call'[c].host = h
      BY <2>1, <2>3
    <3> QED BY <1>1, <2>5, <3>1, <3>2 DEF ReceiveInv, GhostInv
  <2> QED BY <2>6, <2>7, <2>8, <2>10, <2>11 DEF ReceiveInv
<1> QED BY <1>2, <1>3, <1>4

\* The two passes over last_perf_samples disturb nothing but the PerfSample.
LEMMA PerfKeeps ==
  ASSUME ReceiveInv, NEW c \in Call, ReadPerf(c) \/ WritePerf(c)
  PROVE  ReceiveInv' /\ \A a : Handled(a) => Handled(a)'
<1>1. /\ call[c].pc \in {"readPerf", "writePerf"}
      /\ call[c].host \in Host /\ call[c].seq \in Numbers
      /\ call[c].field \in 1 .. NumFields
      /\ call \in [Call -> Handler] /\ lastPerf \in PartialMaps(Perf)
      /\ UNCHANGED <<lastSequences, hostScores, enqueued, answered>>
  <2>1. call \in [Call -> Handler] /\ lastPerf \in PartialMaps(Perf)
    BY ReceiveTypes DEF ReceiveInv
  <2>2. call[c].pc \in {"readPerf", "writePerf"}
    BY DEF ReadPerf, WritePerf, At
  <2>3. call[c].seq \in Numbers /\ call[c].field \in 0 .. NumFields
    BY <2>1 DEF Handler
  <2>4. call[c].host \in Host /\ call[c].field > 0
    BY <2>2 DEF ReceiveInv, HandlersInv
  <2> QED BY <2>1, <2>2, <2>3, <2>4, ManagerConstants DEF ReadPerf, WritePerf
<1>2. PerfOf(call[c].host) \in Perf
  <2>1. CASE call[c].host \in DOMAIN lastPerf
    <3>1. lastPerf \in [DOMAIN lastPerf -> Perf]
      BY <1>1, PartialMap
    <3> QED BY <2>1, <3>1 DEF PerfOf
  <2>2. CASE call[c].host \notin DOMAIN lastPerf
    BY <2>2, IdleType DEF PerfOf
  <2> QED BY <2>1, <2>2
<1>3. PICK f, p, l :
        /\ call' = [call EXCEPT ![c] = [call[c] EXCEPT !.last = l, !.field = f, !.pc = p]]
        /\ f \in 1 .. NumFields /\ l \in Perf
        /\ p \in {"readPerf", "writePerf", "update"}
  <2>1. CASE ReadPerf(c)
    <3> DEFINE f == IF call[c].field = NumFields THEN 1 ELSE call[c].field + 1
               p == IF call[c].field = NumFields THEN "writePerf" ELSE "readPerf"
               l == [call[c].last EXCEPT ![call[c].field] = PerfOf(call[c].host)[call[c].field]]
    <3>1. call' = [call EXCEPT ![c] = [call[c] EXCEPT !.last = l, !.field = f, !.pc = p]]
      BY <1>1, <2>1 DEF ReadPerf, Handler
    <3>2. f \in 1 .. NumFields /\ p \in {"readPerf", "writePerf", "update"}
      BY <1>1, ManagerConstants
    <3>3. l \in Perf
      BY <1>1, <1>2 DEF Perf, Handler
    <3> QED BY <3>1, <3>2, <3>3
  <2>2. CASE WritePerf(c)
    <3> DEFINE f == IF call[c].field = NumFields THEN 1 ELSE call[c].field + 1
               p == IF call[c].field = NumFields THEN "update" ELSE "writePerf"
    <3>1. call' = [call EXCEPT ![c] = [call[c] EXCEPT !.last = call[c].last, !.field = f, !.pc = p]]
      BY <1>1, <2>2 DEF WritePerf, Handler
    <3>2. f \in 1 .. NumFields /\ p \in {"readPerf", "writePerf", "update"}
      BY <1>1, ManagerConstants
    <3>3. call[c].last \in Perf
      BY <1>1 DEF Handler
    <3> QED BY <3>1, <3>2, <3>3
  <2> QED BY <2>1, <2>2
<1>4. lastPerf' \in PartialMaps(Perf)
  <2>1. PICK v \in Perf : lastPerf' = Assign(lastPerf, call[c].host, v)
    <3>1. CASE ReadPerf(c)
      BY <1>2, <3>1 DEF ReadPerf
    <3>2. CASE WritePerf(c)
      <4>1. [PerfOf(call[c].host) EXCEPT ![call[c].field] = call[c].seq] \in Perf
        BY <1>1, <1>2 DEF Perf
      <4> QED BY <3>2, <4>1 DEF WritePerf
    <3> QED BY <3>1, <3>2
  <2> QED BY <1>1, <2>1, AssignType
<1> DEFINE r == [call[c] EXCEPT !.last = l, !.field = f, !.pc = p]
<1>5. r \in Handler /\ r.pc = p /\ r.field = f /\ r.host = call[c].host /\ r.seq = call[c].seq
  <2>1. f \in 0 .. NumFields
    BY <1>3, ManagerConstants
  <2> QED BY <1>1, <1>3, <2>1 DEF Handler
<1>6. call' = [call EXCEPT ![c] = r]
  BY <1>3
<1> HIDE DEF r
<1>7. /\ call' \in [Call -> Handler] /\ call'[c] = r
      /\ \A d \in Call \ {c} : call'[d] = call[d]
  BY <1>1, <1>5, <1>6, HandlerUpdate
<1>8. ReceiveTypeOK'
  BY <1>1, <1>4, <1>7, ReceiveTypes DEF ReceiveInv, ReceiveTypeOK, Handler
<1>9. HandlersInv'
  BY <1>1, <1>3, <1>5, <1>7, ManagerConstants DEF ReceiveInv, HandlersInv
<1>10. \A a : Handled(a) => Handled(a)'
  <2>1. \A d \in Call : Accepted(d) => Accepted(d)' /\ SampleOf(d)' = SampleOf(d)
    BY <1>3, <1>5, <1>7 DEF Accepted, SampleOf
  <2> QED BY <1>1, <2>1, HandledStays
<1>11. HandledInv'
  <2>1. \A d \in Call : call'[d].pc = "reply" =>
                          call[d].pc = "reply" /\ SampleOf(d)' = SampleOf(d)
    BY <1>3, <1>5, <1>7 DEF SampleOf
  <2> QED BY <1>1, <1>10, <2>1 DEF ReceiveInv, HandledInv
<1>12. GhostInv'
  <2>1. \A d \in Call : call[d].pc \in {"readPerf", "writePerf", "update"} =>
           call'[d].pc \in {"readPerf", "writePerf", "update"} /\ call'[d].host = call[d].host
    BY <1>3, <1>5, <1>7
  <2> QED BY <1>1, <2>1 DEF ReceiveInv, GhostInv
<1> QED BY <1>8, <1>9, <1>10, <1>11, <1>12 DEF ReceiveInv

\* The second critical section puts the host into host_scores_.
LEMMA UpdateKeeps ==
  ASSUME ReceiveInv, NEW c \in Call, Update(c)
  PROVE  ReceiveInv' /\ \A a : Handled(a) => Handled(a)'
<1>1. /\ call[c].pc = "update" /\ Goto(c, "enqueue")
      /\ hostScores' = Assign(hostScores, call[c].host, call[c].seq)
      /\ UNCHANGED <<lastSequences, lastPerf, enqueued, answered>>
  BY DEF Update, At
<1>2. /\ call \in [Call -> Handler] /\ hostScores \in PartialMaps(Numbers)
      /\ call[c].host \in Host /\ call[c].seq \in Numbers
  BY <1>1, ReceiveTypes DEF ReceiveInv, HandlersInv, Handler
<1>3. /\ call' \in [Call -> Handler] /\ call'[c].pc = "enqueue"
      /\ call'[c].host = call[c].host /\ call'[c].seq = call[c].seq
      /\ \A d \in Call \ {c} : call'[d] = call[d]
  BY <1>1, <1>2, HandlerGoto
<1>4. /\ hostScores' \in PartialMaps(Numbers)
      /\ DOMAIN hostScores' = DOMAIN hostScores \cup {call[c].host}
  <2>1. /\ Assign(hostScores, call[c].host, call[c].seq) \in PartialMaps(Numbers)
        /\ DOMAIN Assign(hostScores, call[c].host, call[c].seq)
             = DOMAIN hostScores \cup {call[c].host}
    <3>1. Assign(hostScores, call[c].host, call[c].seq) \in PartialMaps(Numbers)
      BY <1>2, AssignType
    <3>2. DOMAIN Assign(hostScores, call[c].host, call[c].seq)
            = DOMAIN hostScores \cup {call[c].host}
      BY DEF Assign
    <3> QED BY <3>1, <3>2
  <2> QED BY <1>1, <2>1
<1>5. ReceiveTypeOK'
  BY <1>1, <1>3, <1>4, ReceiveTypes DEF ReceiveInv, ReceiveTypeOK, Handler
<1>6. HandlersInv'
  BY <1>2, <1>3 DEF ReceiveInv, HandlersInv
<1>7. \A a : Handled(a) => Handled(a)'
  <2>1. \A d \in Call : Accepted(d) => Accepted(d)' /\ SampleOf(d)' = SampleOf(d)
    BY <1>3 DEF Accepted, SampleOf
  <2> QED BY <1>1, <2>1, HandledStays
<1>8. HandledInv'
  <2>1. \A d \in Call : call'[d].pc = "reply" =>
                          call[d].pc = "reply" /\ SampleOf(d)' = SampleOf(d)
    BY <1>3 DEF SampleOf
  <2> QED BY <1>1, <1>7, <2>1 DEF ReceiveInv, HandledInv
<1>9. GhostInv'
  BY <1>1, <1>3, <1>4 DEF ReceiveInv, GhostInv
<1> QED BY <1>5, <1>6, <1>7, <1>8, <1>9 DEF ReceiveInv

\* EnqueueMysqlWrite: from now on the sample is queued.
LEMMA EnqueueKeeps ==
  ASSUME ReceiveInv, NEW c \in Call, Enqueue(c)
  PROVE  ReceiveInv' /\ \A a : Handled(a) => Handled(a)'
<1>1. /\ call[c].pc = "enqueue" /\ Goto(c, "reply")
      /\ enqueued' = enqueued \cup {SampleOf(c)}
      /\ UNCHANGED <<lastSequences, lastPerf, hostScores, answered>>
  BY DEF Enqueue, At, maps
<1>2. /\ call \in [Call -> Handler]
      /\ call[c].host \in Host /\ call[c].seq \in Numbers
  BY <1>1, ReceiveTypes DEF ReceiveInv, HandlersInv, Handler
<1>3. /\ call' \in [Call -> Handler] /\ call'[c].pc = "reply"
      /\ call'[c].host = call[c].host /\ call'[c].seq = call[c].seq
      /\ \A d \in Call \ {c} : call'[d] = call[d]
  BY <1>1, <1>2, HandlerGoto
<1>4. enqueued' \in SUBSET (Host \X Numbers)
  <2>1. SampleOf(c) \in Host \X Numbers
    BY <1>2 DEF SampleOf
  <2>2. enqueued \in SUBSET (Host \X Numbers)
    BY ReceiveTypes DEF ReceiveInv
  <2> QED BY <1>1, <2>1, <2>2
<1>5. ReceiveTypeOK'
  BY <1>1, <1>3, <1>4, ReceiveTypes DEF ReceiveInv, ReceiveTypeOK, Handler
<1>6. HandlersInv'
  BY <1>2, <1>3 DEF ReceiveInv, HandlersInv
<1>7. \A a : Handled(a) => Handled(a)'
  <2>1. \A d \in Call : Accepted(d) =>
          \/ Accepted(d)' /\ SampleOf(d)' = SampleOf(d)
          \/ SampleOf(d) \in enqueued'
    BY <1>1, <1>3 DEF Accepted, SampleOf
  <2> QED BY <1>1, <2>1, HandledStays
<1>8. HandledInv'
  <2>1. \A d \in Call : SampleOf(d)' = SampleOf(d)
    BY <1>3 DEF SampleOf
  <2>2. SampleOf(c)' \in enqueued'
    BY <1>1, <2>1
  <2>3. Handled(SampleOf(c))'
    BY <2>2 DEF Handled
  <2>4. \A d \in Call \ {c} : call'[d].pc = "reply" => Handled(SampleOf(d))'
    BY <1>3, <1>7, <2>1 DEF ReceiveInv, HandledInv
  <2> QED BY <1>1, <1>7, <2>3, <2>4 DEF ReceiveInv, HandledInv
<1>9. GhostInv'
  <2>1. \A d \in Call : call[d].pc \in {"readPerf", "writePerf", "update"} =>
                          call'[d] = call[d]
    BY <1>1, <1>3
  <2> QED BY <1>1, <2>1 DEF ReceiveInv, GhostInv
<1> QED BY <1>5, <1>6, <1>7, <1>8, <1>9 DEF ReceiveInv

\* SetMonitorInfo answers OK for a sample that is handled.
LEMMA ReplyKeeps ==
  ASSUME ReceiveInv, NEW c \in Call, Reply(c)
  PROVE  ReceiveInv' /\ \A a : Handled(a) => Handled(a)'
<1>1. /\ call[c].pc = "reply" /\ call' = [call EXCEPT ![c] = Idle]
      /\ answered' = answered \cup {SampleOf(c)}
      /\ UNCHANGED <<lastSequences, lastPerf, hostScores, enqueued>>
  BY DEF Reply, At, maps
<1>2. /\ call \in [Call -> Handler]
      /\ call[c].host \in Host /\ call[c].seq \in Numbers
  BY <1>1, ReceiveTypes DEF ReceiveInv, HandlersInv, Handler
<1>3. /\ call' \in [Call -> Handler] /\ call'[c] = Idle
      /\ \A d \in Call \ {c} : call'[d] = call[d]
  BY <1>1, <1>2, IdleType, HandlerUpdate
<1>4. answered' \in SUBSET (Host \X Numbers)
  <2>1. SampleOf(c) \in Host \X Numbers
    BY <1>2 DEF SampleOf
  <2>2. answered \in SUBSET (Host \X Numbers)
    BY ReceiveTypes DEF ReceiveInv
  <2> QED BY <1>1, <2>1, <2>2
<1>5. ReceiveTypeOK'
  BY <1>1, <1>3, <1>4, ReceiveTypes DEF ReceiveInv, ReceiveTypeOK, Handler
<1>6. HandlersInv'
  BY <1>3, IdleType DEF ReceiveInv, HandlersInv
<1>7. \A a : Handled(a) => Handled(a)'
  <2>1. \A d \in Call : Accepted(d) => Accepted(d)' /\ SampleOf(d)' = SampleOf(d)
    BY <1>1, <1>3 DEF Accepted, SampleOf
  <2> QED BY <1>1, <2>1, HandledStays
<1>8. HandledInv'
  <2>1. \A d \in Call : call'[d].pc = "reply" =>
                          call[d].pc = "reply" /\ SampleOf(d)' = SampleOf(d)
    BY <1>3, IdleType DEF SampleOf
  <2>2. Handled(SampleOf(c))
    BY <1>1 DEF ReceiveInv, HandledInv
  <2> QED BY <1>1, <1>7, <2>1, <2>2 DEF ReceiveInv, HandledInv
<1>9. GhostInv'
  <2>1. \A d \in Call : call[d].pc \in {"readPerf", "writePerf", "update"} =>
                          call'[d] = call[d]
    BY <1>1, <1>3
  <2> QED BY <1>1, <2>1 DEF ReceiveInv, GhostInv
<1> QED BY <1>5, <1>6, <1>7, <1>8, <1>9 DEF ReceiveInv

\* The cleanup erases a host from both maps at once.
LEMMA CleanupKeeps ==
  ASSUME ReceiveInv, NEW gone \in SUBSET Host, Cleanup(gone)
  PROVE  ReceiveInv' /\ \A a : Handled(a) => Handled(a)'
<1>1. /\ hostScores' = Erase(hostScores, gone)
      /\ lastSequences' = Erase(lastSequences, gone)
      /\ UNCHANGED <<lastPerf, call, enqueued, answered>>
  BY DEF Cleanup
<1>2. /\ hostScores' \in PartialMaps(Numbers)
      /\ DOMAIN hostScores' = DOMAIN hostScores \ gone
      /\ lastSequences' \in PartialMaps(1 .. MaxSeq)
      /\ DOMAIN lastSequences' = DOMAIN lastSequences \ gone
      /\ \A x \in DOMAIN lastSequences' : lastSequences'[x] = lastSequences[x]
  <2>1. hostScores \in PartialMaps(Numbers) /\ lastSequences \in PartialMaps(1 .. MaxSeq)
    BY ReceiveTypes DEF ReceiveInv
  <2>2. /\ Erase(hostScores, gone) \in PartialMaps(Numbers)
        /\ DOMAIN Erase(hostScores, gone) = DOMAIN hostScores \ gone
    BY <2>1, EraseType
  <2>3. /\ Erase(lastSequences, gone) \in PartialMaps(1 .. MaxSeq)
        /\ DOMAIN Erase(lastSequences, gone) = DOMAIN lastSequences \ gone
        /\ \A x \in DOMAIN lastSequences \ gone :
             Erase(lastSequences, gone)[x] = lastSequences[x]
    <3> DEFINE V == 1 .. MaxSeq
    <3>1. lastSequences \in PartialMaps(V)
      BY <2>1
    <3> HIDE DEF V
    <3>2. Erase(lastSequences, gone) \in PartialMaps(V)
      BY <3>1, EraseType
    <3>3. /\ DOMAIN Erase(lastSequences, gone) = DOMAIN lastSequences \ gone
          /\ \A x \in DOMAIN lastSequences \ gone :
               Erase(lastSequences, gone)[x] = lastSequences[x]
      BY DEF Erase
    <3> QED BY <3>2, <3>3 DEF V
  <2> QED BY <1>1, <2>2, <2>3
<1>3. ReceiveTypeOK'
  BY <1>1, <1>2, ReceiveTypes DEF ReceiveInv, ReceiveTypeOK, Handler
<1>4. HandlersInv'
  BY <1>1 DEF ReceiveInv, HandlersInv
<1>7. \A a : Handled(a) => Handled(a)'
  BY <1>1 DEF Handled, Accepted, SampleOf
<1>5. HandledInv'
  BY <1>1, <1>2, <1>7 DEF ReceiveInv, HandledInv, SampleOf
<1>6. GhostInv'
  BY <1>1, <1>2 DEF ReceiveInv, GhostInv
<1> QED BY <1>3, <1>4, <1>5, <1>6, <1>7 DEF ReceiveInv

\* A new manager has recorded and answered nothing.
LEMMA ManagerKillKeeps ==
  ASSUME ReceiveInv, KillManager
  PROVE  ReceiveInv'
<1>1. /\ lastSequences' = Empty /\ lastPerf' = Empty /\ hostScores' = Empty
      /\ call' = [d \in Call |-> Idle] /\ answered' = {} /\ enqueued' = enqueued
  BY DEF KillManager
<1>2. ReceiveTypeOK'
  <2>1. call' \in [Call -> Handler]
    BY <1>1, IdleType
  <2>2. answered' \in SUBSET (Host \X Numbers) /\ enqueued' \in SUBSET (Host \X Numbers)
    BY <1>1 DEF ReceiveInv, ReceiveTypeOK
  <2> QED BY <1>1, <2>1, <2>2, EmptyType, ReceiveTypes DEF ReceiveTypeOK, Handler
<1>3. (HandlersInv /\ HandledInv /\ GhostInv)'
  BY <1>1, EmptyType, IdleType DEF HandlersInv, HandledInv, GhostInv
<1> QED BY <1>2, <1>3 DEF ReceiveInv

\* Every step of handlers, cleanup, kill and restart.
LEMMA ReceiveStep == ReceiveInv /\ [ReceiveNext]_(receiveVars) => ReceiveInv'
<1> SUFFICES ASSUME ReceiveInv, [ReceiveNext]_(receiveVars) PROVE ReceiveInv'
  OBVIOUS
<1>1. CASE UNCHANGED receiveVars
  <2>1. UNCHANGED <<lastSequences, lastPerf, hostScores, call, enqueued, answered>>
    BY <1>1 DEF receiveVars
  <2>2. ReceiveTypeOK'
    BY <2>1, Zenon DEF ReceiveInv, ReceiveTypeOK
  <2>3. (HandlersInv /\ HandledInv /\ GhostInv)'
    BY <2>1 DEF ReceiveInv, HandlersInv, HandledInv, Handled, GhostInv, Accepted, SampleOf
  <2> QED BY <2>2, <2>3 DEF ReceiveInv
<1>2. ASSUME NEW c \in Call, NEW h \in Host, NEW s \in 0 .. MaxSeq, Receive(c, h, s)
      PROVE  ReceiveInv'
  BY <1>2, ReceiveKeeps DEF Numbers
<1>3. ASSUME NEW c \in Call, HandlerStep(c) PROVE ReceiveInv'
  BY <1>3, DedupKeeps, PerfKeeps, UpdateKeeps, EnqueueKeeps, ReplyKeeps DEF HandlerStep
<1> QED BY <1>1, <1>2, <1>3, CleanupKeeps, ManagerKillKeeps DEF ReceiveNext

\* The inductive invariant of the receive path: a recorded sequence is that of
\* a sample somebody handles, of a host that has a score or will get one.
THEOREM ReceiveInvariance == ReceiveSpec => []ReceiveInv
  BY ReceiveInvInit, ReceiveStep, PTL DEF ReceiveSpec

\* The three maps of the manager and its handlers keep their types, whatever
\* handlers do to last_perf_samples at the same time.
THEOREM ReceiveTypeCorrect == ReceiveSpec => []ReceiveTypeOK
<1>1. ReceiveInv => ReceiveTypeOK
  BY DEF ReceiveInv
<1> QED BY <1>1, ReceiveInvariance, PTL

\* SetMonitorInfo answers OK only for a sample that was queued or whose
\* handler is on its way to queue it, also when it skips a duplicate.
THEOREM AnswersAreHandled == ReceiveSpec => []AnsweredIsHandled
<1>1. ReceiveInv => AnsweredIsHandled
  BY DEF ReceiveInv, HandledInv, Handled, AnsweredIsHandled
<1> QED BY <1>1, ReceiveInvariance, PTL

\* The cleanup by ProcessLoop leaves no recorded sequence without its host,
\* so that a host that comes back is not taken for a duplicate.
THEOREM NoSequenceOutlivesItsHost == ReceiveSpec => []NoGhostSequence
<1>1. ReceiveInv => NoGhostSequence
  BY DEF ReceiveInv, GhostInv, NoGhostSequence, Accepted
<1> QED BY <1>1, ReceiveInvariance, PTL

-----------------------------------------------------------------------------
\* The results about MysqlWriter, for the manager's writer.
MP == INSTANCE MysqlWriter_proofs
        WITH KeyOf <- [s \in Sample |-> s], Inserts <- [s \in Sample |-> Table],
             MaxHandlers <- 1, running <- mRunning, lost <- mLost

StorageInv == MP!IInv /\ MP!DrainInv

\* The call the worker waits for is about the sample it will tick off.
CallInv ==
  /\ waiting \subseteq Call
  /\ \A c, d \in waiting : c = d
  /\ waiting # {} => Pushing
  /\ \A c \in waiting : call[c].pc # "idle" /\ SampleOf(c) = <<Worker, Sent>>
  /\ \A c \in Call : call[c].pc # "idle" => SampleOf(c) \in Sample

\* The bookkeeping of kills and faults.
BookInv == handlerLost \subseteq Sample /\ faults \in 0 .. MaxFaults

\* The manager answers for a sample: somebody handles it, or died doing so.
Kept(a) == Handled(a) \/ a \in handlerLost

ReportingInv ==
  /\ PusherInv /\ ReceiveInv /\ StorageInv /\ CallInv /\ BookInv
  /\ \A s \in acked : Kept(<<Worker, s>>)

-----------------------------------------------------------------------------
\* The storage of this module is that of MysqlWriter with sound constants.
LEMMA StorageConstants == MP!WriterAssumption /\ MP!DistinctKeys
<1>1. MP!WriterAssumption
  BY ReportingAssumption DEF MP!WriterAssumption
<1>2. MP!DistinctKeys
  BY DEF MP!DistinctKeys
<1> QED BY <1>1, <1>2

\* MysqlWriter_proofs speaks of the same writer.
LEMMA StorageSteps ==
  /\ M!Init => MP!Init
  /\ M!Next => MP!Next
  /\ M!TypeOK <=> MP!TypeOK
<1> USE DEF M!hist, MP!hist, M!dbVars, MP!dbVars, M!Woken, MP!Woken
<1>1. M!Init => MP!Init
  BY Zenon DEF M!Init, MP!Init
<1>2. M!TypeOK <=> MP!TypeOK
  BY Zenon DEF M!TypeOK, MP!TypeOK, M!Rows, MP!Rows, M!Item, MP!Item, M!Key, MP!Key,
         M!ToSet, MP!ToSet
<1>3. ASSUME M!Next PROVE MP!Next
  <2>1. M!Start => MP!Start
    BY Zenon DEF M!Start, MP!Start
  <2>2. M!StopBegin => MP!StopBegin
    BY Zenon DEF M!StopBegin, MP!StopBegin
  <2>3. M!Stopping => MP!Stopping
    BY Zenon DEF M!Stopping, MP!Stopping, M!StopNotify, MP!StopNotify, M!StopJoined, MP!StopJoined
  <2>4. M!CleanerExit => MP!CleanerExit
    BY Zenon DEF M!CleanerExit, MP!CleanerExit
  <2>5. \A s \in Sample : M!Enqueue(s) => MP!Enqueue(s)
    BY Zenon DEF M!Enqueue, MP!Enqueue
  <2>6. M!NotifyOne => MP!NotifyOne
    BY Zenon DEF M!NotifyOne, MP!NotifyOne
  <2>7. M!SpuriousWake => MP!SpuriousWake
    BY Zenon DEF M!SpuriousWake, MP!SpuriousWake
  <2>8. M!Kill => MP!Kill
    BY Zenon DEF M!Kill, MP!Kill, M!InMemory, MP!InMemory, M!ToSet, MP!ToSet,
           M!CommitOutcomes, MP!CommitOutcomes
  <2>9. M!WriterStep => MP!WriterStep
    <3>1. M!FindNothing => MP!FindNothing
      BY Zenon DEF M!FindNothing, MP!FindNothing
    <3>2. M!Block => MP!Block
      BY Zenon DEF M!Block, MP!Block
    <3>3. M!WriterExit => MP!WriterExit
      BY Zenon DEF M!WriterExit, MP!WriterExit
    <3>4. M!TakeTask => MP!TakeTask
      BY Zenon DEF M!TakeTask, MP!TakeTask
    <3>5. M!ConnectOk => MP!ConnectOk
      BY Zenon DEF M!ConnectOk, MP!ConnectOk
    <3>6. M!Begin => MP!Begin
      BY Zenon DEF M!Begin, MP!Begin
    <3>7. M!Insert => MP!Insert
      BY Zenon DEF M!Insert, MP!Insert, M!InsertIgnore, MP!InsertIgnore, M!Row, MP!Row
    <3>8. M!CommitOk => MP!CommitOk
      BY Zenon DEF M!CommitOk, MP!CommitOk
    <3>9. M!ConnectFail => MP!ConnectFail
      BY Zenon DEF M!ConnectFail, MP!ConnectFail, M!GiveUp, MP!GiveUp
    <3>10. M!WriteFail => MP!WriteFail
      BY Zenon DEF M!WriteFail, MP!WriteFail, M!GiveUp, MP!GiveUp,
             M!CommitOutcomes, MP!CommitOutcomes
    <3> QED
      BY <3>1, <3>2, <3>3, <3>4, <3>5, <3>6, <3>7, <3>8, <3>9, <3>10
         DEF M!WriterStep, MP!WriterStep
  <2> QED
    BY <1>3, <2>1, <2>2, <2>3, <2>4, <2>5, <2>6, <2>7, <2>8, <2>9 DEF M!Next, MP!Next
<1> QED BY <1>1, <1>2, <1>3

\* What is proved of MysqlWriter holds of the manager's writer here.
LEMMA StorageKeeps ==
  ASSUME StorageInv, [M!Next]_(M!vars)
  PROVE  StorageInv'
<1>1. [MP!Next]_(MP!vars)
  BY StorageSteps DEF M!vars, MP!vars
<1>2. MP!IInv /\ MP!DrainInv
  BY DEF StorageInv
<1>3. MP!IInv'
  BY <1>1, <1>2, StorageConstants, MP!InvStep
<1>4. MP!DrainInv'
  BY <1>1, <1>2, StorageConstants, MP!DrainStep DEF MP!IInv
<1> QED BY <1>3, <1>4 DEF StorageInv

\* PushData is called with a sample of this worker.
LEMMA SentIsSample ==
  ASSUME PusherInv, Pushing
  PROVE  Sent \in 1 .. MaxSeq /\ <<Worker, Sent>> \in Sample
<1>1. CASE pc = "push"
  BY <1>1, CapacityType DEF PusherInv, PusherPhase, PusherTypeOK, Sent, Sample, Samples
<1>2. CASE pc = "replay"
  <2>1. pending \in Seq(Samples) /\ pending # <<>> /\ Sent = Head(pending)
    BY <1>2 DEF PusherInv, PusherPhase, PusherTypeOK, Sent
  <2>2. Sent \in 1 .. MaxSeq
    BY <2>1, HeadTailProperties DEF Samples
  <2> QED BY <2>2 DEF Sample, Samples
<1> QED BY <1>1, <1>2 DEF Pushing

\* Every step of the whole is a step of each part, or leaves it alone.
LEMMA PartSteps ==
  ASSUME ReportingInv, [Next]_vars
  PROVE  /\ [PusherNext]_(pusherVars)
         /\ [ReceiveNext]_(receiveVars)
         /\ [M!Next]_(M!vars)
<1> USE DEF worker, handlers, storage, own, pusherVars, receiveVars, M!vars
<1>1. CASE WorkerStep \/ WorkerStop \/ WorkerKill \/ WorkerRestart \/ Unreachable \/ Deadline
  <2>1. PusherNext
    BY <1>1 DEF WorkerStep, WorkerStop, WorkerKill, WorkerRestart, Unreachable, Deadline,
       PushDataFalse, PusherNext, PushDataReturns
  <2>2. UNCHANGED handlers /\ UNCHANGED storage
    BY <1>1 DEF WorkerStep, WorkerStop, WorkerKill, WorkerRestart, Unreachable, Deadline
  <2> QED BY <2>1, <2>2
<1>2. ASSUME NEW c \in Call, Send(c)
      PROVE  [PusherNext]_(pusherVars) /\ [ReceiveNext]_(receiveVars) /\ UNCHANGED storage
  <2>1. Sent \in 0 .. MaxSeq /\ Worker \in Host
    BY <1>2, SentIsSample, ReportingAssumption DEF Send, ReportingInv
  <2>2. ReceiveNext
    BY <1>2, <2>1 DEF Send, ReceiveNext
  <2> QED BY <1>2, <2>2 DEF Send
<1>3. ASSUME NEW c \in Call, HandlerWorks(c)
      PROVE  [PusherNext]_(pusherVars) /\ [ReceiveNext]_(receiveVars) /\ UNCHANGED storage
  BY <1>3 DEF HandlerWorks, ReceiveNext, HandlerStep
<1>4. ASSUME NEW c \in Call, HandlerEnqueues(c)
      PROVE  [PusherNext]_(pusherVars) /\ [ReceiveNext]_(receiveVars) /\ M!Next
  <2>1. SampleOf(c) \in Sample
    BY <1>4 DEF HandlerEnqueues, Enqueue, At, ReportingInv, CallInv
  <2>2. M!Next
    BY <1>4, <2>1 DEF HandlerEnqueues, M!Next
  <2> QED BY <1>4, <2>2 DEF HandlerEnqueues, ReceiveNext, HandlerStep
<1>5. ASSUME NEW c \in Call, HandlerReplies(c)
      PROVE  [PusherNext]_(pusherVars) /\ [ReceiveNext]_(receiveVars) /\ UNCHANGED storage
  <2>1. [PusherNext]_(pusherVars)
    BY <1>5 DEF HandlerReplies, PushDataTrue, PusherNext, PushDataReturns
  <2> QED BY <1>5, <2>1 DEF HandlerReplies, ReceiveNext, HandlerStep
<1>6. CASE HandlerNotifies \/ WriterWorks \/ WriterFails \/ ManagerStart
  <2>1. M!Next
    BY <1>6 DEF HandlerNotifies, WriterWorks, WriterFails, ManagerStart, M!Next, M!WriterStep
  <2>2. UNCHANGED worker
    BY <1>6 DEF HandlerNotifies, WriterWorks, WriterFails, ManagerStart
  <2>3. UNCHANGED handlers /\ enqueued' = enqueued
    BY <1>6 DEF HandlerNotifies, WriterWorks, WriterFails, ManagerStart, M!NotifyOne,
       M!FindNothing, M!Block, M!TakeTask, M!ConnectOk, M!Begin, M!Insert, M!CommitOk,
       M!ConnectFail, M!WriteFail, M!Start, M!hist
  <2> QED BY <2>1, <2>2, <2>3
<1>7. CASE ManagerCleanup
  <2>1. ReceiveNext
    BY <1>7, ReportingAssumption DEF ManagerCleanup, ReceiveNext
  <2> QED BY <1>7, <2>1 DEF ManagerCleanup
<1>8. CASE ManagerKill
  <2>1. [PusherNext]_(pusherVars)
    BY <1>8 DEF ManagerKill, PushDataFalse, PusherNext, PushDataReturns
  <2> QED BY <1>8, <2>1 DEF ManagerKill, ReceiveNext, M!Next
<1>9. CASE UNCHANGED vars
  BY <1>9 DEF vars
<1> QED
  BY <1>1, <1>2, <1>3, <1>4, <1>5, <1>6, <1>7, <1>8, <1>9 DEF Next, HandlerActs

-----------------------------------------------------------------------------
\* A worker and a manager that have just started.
LEMMA ReportingInit == Init => ReportingInv
<1> SUFFICES ASSUME Init PROVE ReportingInv
  OBVIOUS
<1>1. PusherInv /\ ReceiveInv
  BY PusherInvInit, ReceiveInvInit DEF Init
<1>2. StorageInv
  <2>1. MP!Init
    BY StorageSteps DEF Init
  <2> QED BY <2>1, StorageConstants, MP!InvInit, MP!DrainInit DEF StorageInv
<1>3. CallInv
  BY IdleType DEF Init, ReceiveInit, CallInv
<1>4. acked = {}
  BY DEF Init, PusherInit
<1>5. BookInv
  BY ReportingAssumption DEF Init, BookInv
<1> QED BY <1>1, <1>2, <1>3, <1>4, <1>5 DEF ReportingInv

\* A handler keeps the sample it was called with until it has replied.
LEMMA HandlerKeepsSample ==
  ASSUME ReceiveInv, NEW c \in Call,
         Dedup(c) \/ ReadPerf(c) \/ WritePerf(c) \/ Update(c) \/ Enqueue(c)
  PROVE  \A d \in Call : /\ SampleOf(d)' = SampleOf(d)
                         /\ call'[d].pc = "idle" <=> call[d].pc = "idle"
<1>1. call \in [Call -> Handler]
  BY ReceiveTypes DEF ReceiveInv
<1>2. call[c].pc # "idle"
  BY DEF Dedup, ReadPerf, WritePerf, Update, Enqueue, At
<1>3. /\ DOMAIN call' = Call
      /\ call'[c].host = call[c].host /\ call'[c].seq = call[c].seq
      /\ call'[c].pc # "idle"
      /\ \A d \in Call \ {c} : call'[d] = call[d]
  <2>1. CASE Dedup(c)
    <3>1. \/ call' = [call EXCEPT ![c].pc = "reply"]
          \/ call' = [call EXCEPT ![c].pc = "readPerf", ![c].field = 1]
      BY <2>1 DEF Dedup, Goto
    <3>2. /\ DOMAIN call = Call
          /\ call[c] = [pc |-> call[c].pc, host |-> call[c].host, seq |-> call[c].seq,
                       field |-> call[c].field, last |-> call[c].last]
      BY <1>1 DEF Handler
    <3> QED BY <3>1, <3>2
  <2>2. CASE ReadPerf(c)
    BY <1>1, <2>2 DEF ReadPerf, Handler
  <2>3. CASE WritePerf(c)
    BY <1>1, <2>3 DEF WritePerf, Handler
  <2>4. CASE Update(c) \/ Enqueue(c)
    BY <1>1, <2>4 DEF Update, Enqueue, Goto, Handler
  <2> QED BY <2>1, <2>2, <2>3, <2>4
<1> QED BY <1>2, <1>3 DEF SampleOf

\* While the worker waits for an answer its push thread stands still.
LEMMA CallStep ==
  ASSUME ReportingInv, [Next]_vars
  PROVE  CallInv'
<1> USE DEF worker, handlers, storage, own
<1>1. CallInv /\ ReceiveInv /\ PusherInv
  BY DEF ReportingInv
<1>2. CASE WorkerStep \/ WorkerRestart
  <2>1. ~Pushing /\ waiting' = waiting /\ call' = call
    BY <1>2 DEF WorkerStep, WorkerRestart, Restart, Start, LoopStep, LeaveLoop,
       StartRound, CollectAll, SkipCollect, Sleep, Pushing
  <2> QED BY <1>1, <2>1 DEF CallInv, SampleOf
<1>3. CASE WorkerStop
  <2>1. UNCHANGED <<pc, info, pending, waiting, call>>
    BY <1>3 DEF WorkerStop, Stop
  <2> QED BY <1>1, <2>1 DEF CallInv, SampleOf, Sent, Pushing
<1>4. CASE WorkerKill \/ Unreachable \/ Deadline
  <2>1. waiting' = {} /\ call' = call
    BY <1>4 DEF WorkerKill, Unreachable, Deadline
  <2> QED BY <1>1, <2>1 DEF CallInv, SampleOf
<1>5. ASSUME NEW c \in Call, Send(c) PROVE CallInv'
  <2>1. /\ waiting' = {c} /\ Pushing /\ call[c].pc = "idle"
        /\ UNCHANGED <<pc, info, pending>>
        /\ call' = [call EXCEPT ![c] = [Idle EXCEPT !.pc = "dedup", !.host = Worker, !.seq = Sent]]
    BY <1>5 DEF Send, Receive, At
  <2>2. <<Worker, Sent>> \in Sample
    BY <1>1, <2>1, SentIsSample
  <2>3. call \in [Call -> Handler]
    BY <1>1, ReceiveTypes DEF ReceiveInv
  <2>4. /\ call'[c].pc = "dedup" /\ call'[c].host = Worker /\ call'[c].seq = Sent
        /\ \A d \in Call \ {c} : call'[d] = call[d]
    BY <2>1, <2>3 DEF Idle
  <2>5. Sent' = Sent /\ Pushing'
    BY <2>1 DEF Sent, Pushing
  <2> QED BY <1>1, <2>1, <2>2, <2>4, <2>5 DEF CallInv, SampleOf
<1>6. ASSUME NEW c \in Call, HandlerWorks(c) \/ HandlerEnqueues(c) PROVE CallInv'
  <2>1. UNCHANGED <<pc, info, pending, waiting>>
    BY <1>6 DEF HandlerWorks, HandlerEnqueues
  <2>2. \A d \in Call : /\ SampleOf(d)' = SampleOf(d)
                        /\ call'[d].pc = "idle" <=> call[d].pc = "idle"
    BY <1>1, <1>6, HandlerKeepsSample DEF HandlerWorks, HandlerEnqueues
  <2>3. Sent' = Sent /\ Pushing' = Pushing
    BY <2>1 DEF Sent, Pushing
  <2> QED BY <1>1, <2>1, <2>2, <2>3 DEF CallInv
<1>7. ASSUME NEW c \in Call, HandlerReplies(c) PROVE CallInv'
  <2>1. call' = [call EXCEPT ![c] = Idle] /\ call \in [Call -> Handler]
    BY <1>1, <1>7, ReceiveTypes DEF HandlerReplies, Reply, ReceiveInv
  <2>2. call'[c].pc = "idle" /\ \A d \in Call \ {c} : call'[d] = call[d]
    BY <2>1, IdleType
  <2>3. CASE c \in waiting
    <3>1. waiting' = {}
      BY <1>7, <2>3 DEF HandlerReplies
    <3> QED BY <1>1, <2>2, <3>1 DEF CallInv, SampleOf
  <2>4. CASE c \notin waiting
    <3>1. UNCHANGED <<pc, info, pending, waiting>>
      BY <1>7, <2>4 DEF HandlerReplies
    <3>2. Sent' = Sent /\ Pushing' = Pushing
      BY <3>1 DEF Sent, Pushing
    <3> QED BY <1>1, <2>2, <2>4, <3>1, <3>2 DEF CallInv, SampleOf
  <2> QED BY <2>3, <2>4
<1>8. CASE HandlerNotifies \/ WriterWorks \/ WriterFails \/ ManagerStart \/ ManagerCleanup
  <2>1. UNCHANGED <<pc, info, pending, waiting, call>>
    BY <1>8 DEF HandlerNotifies, WriterWorks, WriterFails, ManagerStart, ManagerCleanup, Cleanup
  <2> QED BY <1>1, <2>1 DEF CallInv, SampleOf, Sent, Pushing
<1>9. CASE ManagerKill
  <2>1. waiting' = {} /\ \A d \in Call : call'[d].pc = "idle"
    BY <1>9, IdleType DEF ManagerKill, KillManager
  <2> QED BY <2>1 DEF CallInv
<1>10. CASE UNCHANGED vars
  BY <1>1, <1>10 DEF vars, CallInv, SampleOf, Sent, Pushing
<1> QED
  BY <1>2, <1>3, <1>4, <1>5, <1>6, <1>7, <1>8, <1>9, <1>10 DEF Next, HandlerActs

\* The manager never forgets a sample it is responsible for, except by dying.
LEMMA KeptStays ==
  ASSUME ReportingInv, [Next]_vars, NEW a, Kept(a)
  PROVE  Kept(a)'
<1> USE DEF worker, handlers, storage, own
<1>1. ReceiveInv
  BY DEF ReportingInv
<1>2. ASSUME NEW c \in Call, Send(c) PROVE Kept(a)'
  <2>1. Receive(c, Worker, Sent) /\ handlerLost' = handlerLost
    BY <1>2 DEF Send
  <2>2. Sent \in Numbers /\ Worker \in Host
    BY <1>2, SentIsSample, ReportingAssumption DEF Send, ReportingInv, Numbers
  <2> QED BY <1>1, <2>1, <2>2, ReceiveKeeps DEF Kept
<1>3. ASSUME NEW c \in Call, HandlerActs(c) PROVE Kept(a)'
  <2>1. HandlerStep(c) /\ handlerLost' = handlerLost
    BY <1>3 DEF HandlerActs, HandlerWorks, HandlerEnqueues, HandlerReplies, HandlerStep
  <2> QED BY <1>1, <2>1, DedupKeeps, PerfKeeps, UpdateKeeps, EnqueueKeeps, ReplyKeeps
             DEF HandlerStep, Kept
<1>4. CASE ManagerCleanup
  <2>1. Cleanup({Worker}) /\ handlerLost' = handlerLost /\ {Worker} \in SUBSET Host
    BY <1>4, ReportingAssumption DEF ManagerCleanup
  <2> QED BY <1>1, <2>1, CleanupKeeps DEF Kept
<1>5. CASE ManagerKill
  <2>1. enqueued' = enqueued
    BY <1>5 DEF ManagerKill, KillManager
  <2>2. handlerLost' = handlerLost \cup {SampleOf(c) : c \in {d \in Call : Accepted(d)}}
    BY <1>5 DEF ManagerKill
  <2> QED BY <2>1, <2>2 DEF Kept, Handled
<1>6. CASE \/ WorkerStep \/ WorkerStop \/ WorkerKill \/ WorkerRestart \/ Unreachable \/ Deadline
           \/ HandlerNotifies \/ WriterWorks \/ WriterFails \/ ManagerStart \/ UNCHANGED vars
  <2>1. UNCHANGED <<call, handlerLost, enqueued>>
    BY <1>6 DEF WorkerStep, WorkerStop, WorkerKill, WorkerRestart, Unreachable, Deadline,
       HandlerNotifies, WriterWorks, WriterFails, ManagerStart, vars, M!NotifyOne,
       M!FindNothing, M!Block, M!TakeTask, M!ConnectOk, M!Begin, M!Insert, M!CommitOk,
       M!ConnectFail, M!WriteFail, M!Start, M!hist
  <2> QED BY <2>1 DEF Kept, Handled, Accepted, SampleOf
<1> QED BY <1>2, <1>3, <1>4, <1>5, <1>6 DEF Next

\* Only an answer OK that reaches the worker ticks a sample off, and the
\* manager answers OK only what it handled.
LEMMA AckedStep ==
  ASSUME ReportingInv, [Next]_vars, NEW s \in acked'
  PROVE  Kept(<<Worker, s>>)'
<1> USE DEF worker, handlers, storage, own
<1>1. CASE s \in acked
  BY <1>1, KeptStays DEF ReportingInv
<1>2. CASE s \notin acked
  <2>1. PICK c \in Call : HandlerReplies(c) /\ c \in waiting
    <3>1. ASSUME PushDataFalse PROVE acked' = acked
      BY <3>1 DEF PushDataFalse, ReplayFail, PushFail
    <3>2. CASE WorkerStep \/ WorkerStop \/ WorkerKill \/ WorkerRestart \/ Unreachable \/ Deadline
      BY <1>2, <3>1, <3>2 DEF WorkerStep, WorkerStop, WorkerKill, WorkerRestart, Unreachable,
         Deadline, Restart, Start, LoopStep, LeaveLoop, StartRound, CollectAll,
         SkipCollect, Sleep, Stop, KillWorker
    <3>3. CASE \/ HandlerNotifies \/ WriterWorks \/ WriterFails \/ ManagerStart
               \/ ManagerCleanup \/ ManagerKill \/ UNCHANGED vars
      BY <1>2, <3>1, <3>3 DEF HandlerNotifies, WriterWorks, WriterFails, ManagerStart,
         ManagerCleanup, ManagerKill, vars
    <3>4. ASSUME NEW c \in Call, Send(c) \/ HandlerWorks(c) \/ HandlerEnqueues(c)
          PROVE  FALSE
      BY <1>2, <3>4 DEF Send, HandlerWorks, HandlerEnqueues
    <3>5. PICK c \in Call : HandlerReplies(c)
      BY <3>2, <3>3, <3>4, <1>2 DEF Next, HandlerActs
    <3> QED BY <1>2, <3>5 DEF HandlerReplies
  <2>2. /\ Reply(c) /\ PushDataTrue /\ handlerLost' = handlerLost
        /\ call[c].pc = "reply" /\ SampleOf(c) = <<Worker, Sent>>
    BY <2>1 DEF HandlerReplies, Reply, At, ReportingInv, CallInv
  <2>3. acked' = acked \cup {Sent}
    BY <2>2 DEF PushDataTrue, ReplayOk, PushOk, Sent
  <2>4. s = Sent
    BY <1>2, <2>3
  <2>5. Handled(<<Worker, s>>)
    BY <2>2, <2>4 DEF ReportingInv, ReceiveInv, HandledInv
  <2> QED BY <2>2, <2>5, ReplyKeeps DEF ReportingInv, Kept
<1> QED BY <1>1, <1>2

\* Every step counts its faults.
LEMMA BookStep ==
  ASSUME ReportingInv, [Next]_vars
  PROVE  BookInv'
<1>1. faults' \in 0 .. MaxFaults
  <2>1. faults' = faults \/ Fault
    BY DEF Next, HandlerActs, WorkerStep, WorkerStop, WorkerKill, WorkerRestart, Send, Unreachable,
       Deadline, HandlerWorks, HandlerEnqueues, HandlerNotifies, HandlerReplies, WriterWorks,
       WriterFails, ManagerStart, ManagerCleanup, ManagerKill, vars, own
  <2>2. faults \in 0 .. MaxFaults
    BY DEF ReportingInv, BookInv
  <2> QED BY <2>1, <2>2, ReportingAssumption DEF Fault
<1>2. handlerLost' \subseteq Sample
  <2>1. CASE ManagerKill
    <3>1. \A c \in Call : Accepted(c) => SampleOf(c) \in Sample
      BY DEF ReportingInv, CallInv, Accepted
    <3> QED BY <2>1, <3>1 DEF ManagerKill, ReportingInv, BookInv
  <2>2. CASE ~ManagerKill
    <3>1. handlerLost' = handlerLost
      BY <2>2 DEF Next, HandlerActs, WorkerStep, WorkerStop, WorkerKill, WorkerRestart, Send,
         Unreachable, Deadline, HandlerWorks, HandlerEnqueues, HandlerNotifies, HandlerReplies,
         WriterWorks, WriterFails, ManagerStart, ManagerCleanup, vars, own
    <3> QED BY <3>1 DEF ReportingInv, BookInv
  <2> QED BY <2>1, <2>2
<1> QED BY <1>1, <1>2 DEF BookInv

\* Every step of the composition.
LEMMA ReportingStep == ReportingInv /\ [Next]_vars => ReportingInv'
<1> SUFFICES ASSUME ReportingInv, [Next]_vars PROVE ReportingInv'
  OBVIOUS
<1>1. PusherInv' /\ ReceiveInv'
  BY PartSteps, PusherStep, ReceiveStep DEF ReportingInv
<1>2. StorageInv'
  BY PartSteps, StorageKeeps DEF ReportingInv
<1>3. CallInv'
  BY CallStep
<1>4. \A s \in acked' : Kept(<<Worker, s>>)'
  BY AckedStep
<1>5. BookInv'
  BY BookStep
<1> QED BY <1>1, <1>2, <1>3, <1>4, <1>5 DEF ReportingInv

\* The inductive invariant of the whole: those of its parts, what the call in
\* progress is about, and that an acknowledged sample was not forgotten.
THEOREM ReportingInvariance == Spec => []ReportingInv
  BY ReportingInit, ReportingStep, PTL DEF Spec

\* What the invariant says of acknowledged samples is the property.
LEMMA TrackedByInvariant == ReportingInv => AckedIsTracked
<1> SUFFICES ASSUME ReportingInv, NEW s \in acked
             PROVE  \/ M!Whole(<<Worker, s>>)
                    \/ <<Worker, s>> \in InManager \cup GivenUp
  BY DEF AckedIsTracked
<1> DEFINE a == <<Worker, s>>
<1>1. Kept(a)
  BY DEF ReportingInv
<1>2. CASE a \in handlerLost
  BY <1>2 DEF GivenUp
<1>3. CASE \E c \in Call : Accepted(c) /\ SampleOf(c) = a
  BY <1>3 DEF InManager
<1>4. CASE a \in enqueued
  <2>1. a \in MP!ToSet(queue) \/ a \in task \cup written \cup dropped \cup mLost
    BY <1>4 DEF ReportingInv, StorageInv, MP!DrainInv
  <2>2. a \in written => M!Whole(a)
    <3>1. a \in written => MP!Whole(a)
      BY DEF ReportingInv, StorageInv, MP!IInv, MP!WrittenIsStored
    <3> QED BY <3>1, Zenon DEF MP!Whole, M!Whole, MP!Row, M!Row
  <2>3. MP!ToSet(queue) \cup task \subseteq M!InMemory
    BY DEF M!InMemory, M!ToSet, MP!ToSet
  <2> QED BY <2>1, <2>2, <2>3 DEF InManager, GivenUp
<1> QED BY <1>1, <1>2, <1>3, <1>4 DEF Kept, Handled

\* A sample the worker ticked off after PushData returned true is stored whole,
\* in the manager, or was given up by the manager: through deadlines, calls
\* that outlive their caller, duplicates, kills and restarts of both sides.
THEOREM AckedIsTrackedAlways == Spec => []AckedIsTracked
  BY ReportingInvariance, TrackedByInvariant, PTL

\* The state of the three parts keeps its type, and the worker waits for at
\* most one call of SetMonitorInfo.
THEOREM ReportingTypeCorrect == Spec => []TypeOK
<1>1. ReportingInv => TypeOK
  <2> SUFFICES ASSUME ReportingInv PROVE TypeOK
    OBVIOUS
  <2>1. PusherTypeOK /\ ReceiveTypeOK /\ M!TypeOK
    BY StorageSteps DEF ReportingInv, PusherInv, ReceiveInv, StorageInv, MP!IInv
  <2>2. Cardinality(waiting) <= 1
    <3>1. CASE waiting = {}
      BY <3>1, FS_EmptySet
    <3>2. CASE waiting # {}
      <4>1. PICK c : c \in waiting
        BY <3>2
      <4>2. waiting = {c}
        BY <4>1 DEF ReportingInv, CallInv
      <4> QED BY <4>2, FS_Singleton
    <3> QED BY <3>1, <3>2
  <2> QED BY <2>1, <2>2 DEF TypeOK, ReportingInv, CallInv, BookInv
<1> QED BY <1>1, ReportingInvariance, PTL

\* Put together, the worker, the receive path and the writer still do only
\* what MonitorPusher, HostManager and MysqlWriter allow: what is proved of
\* each module alone holds of it in the running system.
THEOREM PartsKeepTheirSpecs ==
  Spec => /\ PusherInit /\ [][PusherNext]_(pusherVars)
          /\ ReceiveInit /\ [][ReceiveNext]_(receiveVars)
          /\ M!Init /\ [][M!Next]_(M!vars)
<1>1. ReportingInv /\ [Next]_vars =>
        [PusherNext]_(pusherVars) /\ [ReceiveNext]_(receiveVars) /\ [M!Next]_(M!vars)
  BY PartSteps
<1>2. Init => PusherInit /\ ReceiveInit /\ M!Init
  BY DEF Init
<1> QED BY <1>1, <1>2, ReportingInvariance, PTL DEF Spec
=============================================================================
