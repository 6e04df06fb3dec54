-------------------------- MODULE Scheduler_proofs --------------------------
(***************************************************************************)
(* Proofs about Scheduler for any hosts, scores, windows and intervals.    *)
(* The arguments: a positive weight smoothed with a positive score stays   *)
(* positive, and a host without weight takes no part in a rotation; a host *)
(* ages no more than the cleanup's timer runs.  The loop of the overview   *)
(* is right about the hosts it has considered: in sorted order none of the *)
(* best is displaced, and of the worst only by a lower score.  That a sort *)
(* order and the table of FoldLeft exist, and what the table holds, is     *)
(* shown by smallest sets for which it fails.  No host waits for ever,     *)
(* because every set of hosts stays within an allowance of credit and debt *)
(* that depends on its size, and a host that waits gains credit.           *)
(***************************************************************************)
EXTENDS Scheduler, WellFoundedInduction, FiniteSetTheorems, TLAPS

SchedulerInv ==
  /\ DOMAIN age = Known /\ untilCleanup \in 0 .. Interval
  /\ \A h \in Known :
       /\ score[h] \in Nat /\ state[h].base \in Nat
       /\ age[h] \in Nat /\ age[h] + untilCleanup <= Window + Interval
  /\ StatesMatchScores

\* No host is known.
LEMMA SchedulerInvInit == Init => SchedulerInv
BY SchedulerAssumption DEF Init, SchedulerInv, StatesMatchScores, Known

\* Smoothing yields no weight for a score of 0, and some weight for another.
LEMMA ReweightedMatches ==
  ASSUME SchedulerInv, NEW h \in Host, NEW w \in Nat
  PROVE  /\ Reweighted(h, w).base \in Nat
         /\ Reweighted(h, w).base = 0 <=> w = 0
         /\ w = 0 => Reweighted(h, w).current = 0
<1> DEFINE b == StateOf(h).base
<1>1. b \in Nat
  BY DEF SchedulerInv, StatesMatchScores, StateOf, NoState
<1>2. CASE w = 0
  BY <1>2 DEF Reweighted, NoState
<1>3. CASE w # 0
  <2>1. Reweighted(h, w).base = IF b = 0 THEN w ELSE Smoothed(b, w)
    BY <1>3 DEF Reweighted
  <2> HIDE DEF b
  <2>2. b # 0 => 7 * b + 3 * w \in Nat /\ 7 * b + 3 * w >= 10
    BY <1>1, <1>3
  <2>3. b # 0 => Smoothed(b, w) \in Nat \ {0}
    BY <2>2 DEF Smoothed
  <2> QED BY <1>3, <2>1, <2>3
<1> QED
  BY <1>2, <1>3

\* A report sets score, age and weight of its host.
LEMMA ReportKeeps ==
  ASSUME SchedulerInv, NEW h \in Host, NEW w \in Score, Report(h, w)
  PROVE  SchedulerInv'
<1>1. /\ score' = Assign(score, h, w) /\ age' = Assign(age, h, 0)
      /\ state' = Assign(state, h, Reweighted(h, w)) /\ UNCHANGED untilCleanup
  BY DEF Report
<1>2. w \in Nat
  BY SchedulerAssumption
<1>3. DOMAIN score' = Known \cup {h} /\ DOMAIN age' = Known \cup {h}
      /\ DOMAIN state' = Known \cup {h}
  BY <1>1 DEF Assign, SchedulerInv, StatesMatchScores, Known
<1>4. /\ score'[h] = w /\ age'[h] = 0 /\ state'[h] = Reweighted(h, w)
      /\ \A o \in Known \ {h} : /\ score'[o] = score[o] /\ age'[o] = age[o]
                                /\ state'[o] = state[o]
  BY <1>1 DEF Assign, SchedulerInv, StatesMatchScores, Known
<1>5. untilCleanup <= Interval /\ Window \in Nat /\ Interval \in Nat
  BY SchedulerAssumption DEF SchedulerInv
<1>6. StatesMatchScores'
  BY <1>2, <1>3, <1>4, ReweightedMatches DEF StatesMatchScores, Known, SchedulerInv
<1> QED
  BY <1>1, <1>2, <1>3, <1>4, <1>5, <1>6, ReweightedMatches DEF SchedulerInv, Known

\* GetBestHost moves currents and gives weights to scores.
LEMMA RotateKeeps ==
  ASSUME SchedulerInv, NEW h, GetBestHost(h), UNCHANGED <<score, age, untilCleanup>>
  PROVE  SchedulerInv'
<1>1. CASE Rotate(h)
  <2>1. state' = [o \in Known |->
          [base |-> Base(o),
           current |-> IF o \notin Eligible THEN state[o].current
                       ELSE Raised(o) - (IF o = h THEN Total ELSE 0)]]
    BY <1>1 DEF Rotate
  <2>2. \A o \in Known : Base(o) \in Nat /\ (Base(o) = 0 <=> score[o] = 0)
    BY DEF SchedulerInv, StatesMatchScores, Base
  <2>3. DOMAIN state' = Known /\ \A o \in Known : state'[o].base = Base(o)
    BY <2>1
  <2>4. \A o \in Known : score[o] = 0 => state'[o].current = state[o].current
    BY <2>1, <2>2 DEF Eligible
  <2> QED BY <2>2, <2>3, <2>4 DEF SchedulerInv, StatesMatchScores, Known
<1>2. CASE Fallback(h)
  BY <1>2 DEF Fallback, SchedulerInv, StatesMatchScores, Known
<1> QED
  BY <1>1, <1>2 DEF GetBestHost

\* Time passes for hosts and cleanup alike.
LEMMA TickKeeps == ASSUME SchedulerInv, Tick PROVE SchedulerInv'
<1>1. /\ untilCleanup > 0 /\ untilCleanup' = untilCleanup - 1
      /\ age' = [h \in Known |-> age[h] + 1] /\ UNCHANGED <<score, state>>
  BY DEF Tick
<1> QED
  BY <1>1, SchedulerAssumption DEF SchedulerInv, StatesMatchScores, Known

\* The cleanup leaves fresh hosts.
LEMMA CleanupKeeps == ASSUME SchedulerInv, Cleanup PROVE SchedulerInv'
<1>1. /\ untilCleanup' = Interval
      /\ score' = Keep(score, Fresh) /\ age' = Keep(age, Fresh)
      /\ state' = Keep(state, Fresh)
  BY DEF Cleanup
<1>2. Fresh \subseteq Known /\ \A h \in Fresh : age[h] <= Window
  BY DEF Fresh
<1>3. /\ DOMAIN score' = Fresh /\ DOMAIN age' = Fresh /\ DOMAIN state' = Fresh
      /\ \A h \in Fresh : /\ score'[h] = score[h] /\ age'[h] = age[h]
                          /\ state'[h] = state[h]
  BY <1>1, <1>2 DEF Keep, SchedulerInv, StatesMatchScores, Known
<1>4. Interval \in Nat /\ Window \in Nat
  BY SchedulerAssumption
<1> QED
  BY <1>1, <1>2, <1>3, <1>4 DEF SchedulerInv, StatesMatchScores, Known

\* Every step of reports, queries, time and cleanup.
LEMMA SchedulerInvNext == SchedulerInv /\ [Next]_vars => SchedulerInv'
<1> SUFFICES ASSUME SchedulerInv, [Next]_vars PROVE SchedulerInv'
  OBVIOUS
<1>1. ASSUME NEW h \in Host, NEW w \in Score, Report(h, w) PROVE SchedulerInv'
  BY <1>1, ReportKeeps
<1>2. ASSUME NEW h \in Host, ReportChooses(h) \/ QueryChooses(h) PROVE SchedulerInv'
  BY <1>2, RotateKeeps DEF ReportChooses, QueryChooses
<1>3. CASE ReportFindsNone
  BY <1>3 DEF ReportFindsNone, SchedulerInv, StatesMatchScores, Known
<1>4. CASE QueryAnswers
  BY <1>4 DEF QueryAnswers, SchedulerInv, StatesMatchScores, Known
<1>5. CASE Tick
  BY <1>5, TickKeeps
<1>6. CASE Cleanup
  BY <1>6, CleanupKeeps
<1>7. CASE UNCHANGED vars
  BY <1>7 DEF vars, SchedulerInv, StatesMatchScores, Known
<1> QED
  BY <1>1, <1>2, <1>3, <1>4, <1>5, <1>6, <1>7 DEF Next

\* Ages and weights at all times.
LEMMA SchedulerInvariant == Spec => []SchedulerInv
BY SchedulerInvInit, SchedulerInvNext, PTL DEF Spec

\* The two maps agree through reports, rotations and removals, for all scores:
\* a weight smoothed with a positive score stays positive.
THEOREM SchedulerStatesMatchScores == Spec => []StatesMatchScores
<1>1. SchedulerInv => StatesMatchScores
  BY DEF SchedulerInv
<1> QED BY <1>1, SchedulerInvariant, PTL

\* For all windows and intervals, a silent host is gone after their sum.
THEOREM SchedulerAgeBounded == Spec => []AgeBounded
<1>1. SchedulerInv => AgeBounded
  BY SchedulerAssumption DEF SchedulerInv, AgeBounded
<1> QED BY <1>1, SchedulerInvariant, PTL

-----------------------------------------------------------------------------
\* Smoothing stays below both weights' bound.
LEMMA SmoothedBounded ==
  ASSUME NEW b \in Nat, NEW w \in Nat, NEW m \in Nat, b <= m, w <= m
  PROVE  Smoothed(b, w) \in Nat /\ Smoothed(b, w) <= m
<1>1. 7 * b + 3 * w \in Nat /\ 7 * b + 3 * w <= 10 * m
  OBVIOUS
<1> QED
  BY <1>1 DEF Smoothed

Bounded(b) == b \in Nat /\ \E w \in Score : b <= w

\* TypeOK in parts that the steps below disturb separately.
MapsOK == /\ Known \subseteq Host /\ score \in [Known -> Score]
          /\ age \in [Known -> Nat] /\ wait \in [Known -> Nat]
WeightsOK == \A h \in DOMAIN state : Bounded(state[h].base)
CountersOK == untilCleanup \in 0 .. Interval /\ reports \in 0 .. MaxReports
QueriesOK == query \in [pc : {"idle", "chosen"}, host : Host \cup {""}]

\* TypeOK, part by part.
LEMMA TypeParts == TypeOK <=> MapsOK /\ WeightsOK /\ CountersOK /\ QueriesOK
BY DEF TypeOK, MapsOK, WeightsOK, CountersOK, QueriesOK, Bounded

\* A report's weight is bounded by a score.
LEMMA ReweightedBounded ==
  ASSUME WeightsOK, NEW h, NEW w \in Score
  PROVE  Bounded(Reweighted(h, w).base)
<1> DEFINE b == StateOf(h).base
<1>1. w \in Nat
  BY SchedulerAssumption
<1>2. b = 0 \/ Bounded(b)
  BY DEF WeightsOK, StateOf, NoState
<1>3. Reweighted(h, w).base =
        IF w = 0 THEN 0 ELSE IF b = 0 THEN w ELSE Smoothed(b, w)
  BY DEF Reweighted, NoState
<1> HIDE DEF b
<1>4. CASE w # 0 /\ b # 0
  <2>1. PICK v \in Score : b <= v
    BY <1>2, <1>4 DEF Bounded
  <2>2. PICK m \in Score : m \in Nat /\ b <= m /\ w <= m
    BY <2>1, <1>1, <1>2, <1>4, SchedulerAssumption DEF Bounded
  <2>3. Smoothed(b, w) \in Nat /\ Smoothed(b, w) <= m
    BY <2>2, <1>1, <1>2, <1>4, SmoothedBounded DEF Bounded
  <2> QED BY <2>2, <2>3, <1>3, <1>4 DEF Bounded
<1> QED
  BY <1>1, <1>3, <1>4 DEF Bounded

\* GetBestHost keeps maps and weights in range.
LEMMA RotationKeepsTypes ==
  ASSUME MapsOK, WeightsOK, SchedulerInv, NEW h, GetBestHost(h),
         UNCHANGED <<score, age>>
  PROVE  MapsOK' /\ WeightsOK'
<1>1. DOMAIN state = Known /\ Known' = Known
  BY DEF SchedulerInv, StatesMatchScores, Known
<1>2. CASE Rotate(h)
  <2>1. \A o \in Known : score[o] \in Score /\ wait[o] \in Nat
    BY DEF MapsOK
  <2>2. \A o \in Known : Bounded(Base(o))
    <3> SUFFICES ASSUME NEW o \in Known PROVE Bounded(Base(o))
      OBVIOUS
    <3>1. Bounded(state[o].base)
      BY <1>1 DEF WeightsOK
    <3>2. score[o] \in Nat
      BY DEF SchedulerInv
    <3>3. score[o] <= score[o]
      BY <3>2
    <3>4. Bounded(score[o])
      BY <3>2, <3>3, <2>1 DEF Bounded
    <3> QED BY <3>1, <3>4 DEF Base
  <2>3. DOMAIN state' = Known /\ \A o \in Known : state'[o].base = Base(o)
    BY <1>2 DEF Rotate
  <2>4. WeightsOK'
    BY <2>2, <2>3 DEF WeightsOK
  <2>5. wait' = [o \in Known |-> IF o \in Eligible \ {h} THEN wait[o] + 1 ELSE 0]
    BY <1>2 DEF Rotate
  <2>6. wait' \in [Known -> Nat]
    BY <2>1, <2>5
  <2> QED BY <1>1, <2>4, <2>6 DEF MapsOK
<1>3. CASE Fallback(h)
  BY <1>1, <1>3 DEF Fallback, MapsOK, WeightsOK
<1> QED
  BY <1>2, <1>3 DEF GetBestHost

\* A report keeps maps and weights in range.
LEMMA ReportKeepsTypes ==
  ASSUME MapsOK, WeightsOK, NEW h \in Host, NEW w \in Score, Report(h, w)
  PROVE  MapsOK' /\ WeightsOK'
<1>1. /\ score' = Assign(score, h, w) /\ age' = Assign(age, h, 0)
      /\ state' = Assign(state, h, Reweighted(h, w))
      /\ wait' = IF w = 0 \/ h \notin Known THEN Assign(wait, h, 0) ELSE wait
  BY DEF Report
<1>2. Known' = Known \cup {h}
  BY <1>1 DEF Assign, Known
<1>3. score' \in [Known' -> Score] /\ age' \in [Known' -> Nat]
  BY <1>1, <1>2 DEF Assign, MapsOK
<1>4. wait' \in [Known' -> Nat]
  <2>1. CASE ~ (w = 0 \/ h \notin Known)
    BY <2>1, <1>1, <1>2 DEF MapsOK
  <2>2. CASE w = 0 \/ h \notin Known
    <3>1. wait' = Assign(wait, h, 0) /\ wait \in [Known -> Nat]
      BY <2>2, <1>1 DEF MapsOK
    <3> QED BY <3>1, <1>2 DEF Assign
  <2> QED BY <2>1, <2>2
<1>5. Bounded(Reweighted(h, w).base)
  BY ReweightedBounded
<1>6. WeightsOK'
  BY <1>1, <1>5 DEF Assign, WeightsOK
<1> QED
  BY <1>2, <1>3, <1>4, <1>6 DEF MapsOK

\* The cleanup keeps maps and weights in range.
LEMMA CleanupKeepsTypes ==
  ASSUME MapsOK, WeightsOK, Cleanup
  PROVE  MapsOK' /\ WeightsOK'
<1>1. Fresh \subseteq Known
  BY DEF Fresh
<1>2. /\ score' = Keep(score, Fresh) /\ age' = Keep(age, Fresh)
      /\ state' = Keep(state, Fresh) /\ wait' = Keep(wait, Fresh)
  BY DEF Cleanup
<1>3. Known' = Fresh
  BY <1>1, <1>2 DEF Keep, Known
<1>4. DOMAIN score = Known /\ DOMAIN age = Known /\ DOMAIN wait = Known
  BY DEF MapsOK
<1>5. /\ score' \in [Fresh -> Score] /\ age' \in [Fresh -> Nat]
      /\ wait' \in [Fresh -> Nat]
  BY <1>1, <1>2, <1>4 DEF Keep, MapsOK
<1>6. \A h \in DOMAIN state' : h \in DOMAIN state /\ state'[h] = state[h]
  BY <1>2 DEF Keep
<1>7. WeightsOK'
  BY <1>6 DEF WeightsOK
<1> QED
  BY <1>1, <1>3, <1>5, <1>7 DEF MapsOK

\* Timer and reports stay within their bounds.
LEMMA CountersNext == CountersOK /\ [Next]_vars => CountersOK'
<1> SUFFICES ASSUME CountersOK, [Next]_vars PROVE CountersOK'
  OBVIOUS
<1>1. /\ Interval \in Nat /\ MaxReports \in Nat
      /\ untilCleanup \in Nat /\ untilCleanup <= Interval
      /\ reports \in Nat /\ reports <= MaxReports
  BY SchedulerAssumption DEF CountersOK
<1>2. \/ reports < MaxReports /\ reports' = reports + 1 /\ UNCHANGED untilCleanup
      \/ reports > 0 /\ reports' = reports - 1 /\ UNCHANGED untilCleanup
      \/ untilCleanup > 0 /\ untilCleanup' = untilCleanup - 1 /\ UNCHANGED reports
      \/ untilCleanup' = Interval /\ UNCHANGED reports
      \/ UNCHANGED <<untilCleanup, reports>>
  BY DEF Next, Report, ReportChooses, QueryChooses, ReportFindsNone,
         QueryAnswers, Tick, Cleanup, vars
<1>3. /\ untilCleanup' \in Nat /\ untilCleanup' <= Interval
      /\ reports' \in Nat /\ reports' <= MaxReports
  BY <1>1, <1>2
<1> QED
  BY <1>1, <1>3 DEF CountersOK

\* A query holds a host or none.
LEMMA QueriesNext == QueriesOK /\ [Next]_vars => QueriesOK'
<1> SUFFICES ASSUME QueriesOK, [Next]_vars PROVE QueriesOK'
  OBVIOUS
<1>1. \/ \E h \in Host : query' = [pc |-> "chosen", host |-> h]
      \/ query' = [pc |-> "idle", host |-> ""]
      \/ query' = query
  BY DEF Next, Report, ReportChooses, QueryChooses, ReportFindsNone,
         QueryAnswers, Tick, Cleanup, vars, NoQuery
<1>2. CASE \E h \in Host : query' = [pc |-> "chosen", host |-> h]
  <2>1. PICK h \in Host : query' = [pc |-> "chosen", host |-> h]
    BY <1>2
  <2>2. h \in Host \cup {""} /\ "chosen" \in {"idle", "chosen"}
    BY Zenon
  <2>3. query' \in [pc : {"idle", "chosen"}, host : Host \cup {""}]
    BY <2>1, <2>2
  <2> QED BY <2>3 DEF QueriesOK
<1>3. CASE query' = [pc |-> "idle", host |-> ""]
  <2>1. query' \in [pc : {"idle", "chosen"}, host : Host \cup {""}]
    BY <1>3
  <2> QED BY <2>1 DEF QueriesOK
<1>4. CASE query' = query
  BY <1>4 DEF QueriesOK
<1> QED
  BY <1>1, <1>2, <1>3, <1>4

\* Every step keeps maps and weights in range.
LEMMA MapsNext ==
  MapsOK /\ WeightsOK /\ SchedulerInv /\ [Next]_vars => MapsOK' /\ WeightsOK'
<1> SUFFICES ASSUME MapsOK, WeightsOK, SchedulerInv, [Next]_vars
             PROVE  MapsOK' /\ WeightsOK'
  OBVIOUS
<1>1. ASSUME NEW h \in Host, NEW w \in Score, Report(h, w) PROVE MapsOK' /\ WeightsOK'
  BY <1>1, ReportKeepsTypes
<1>2. ASSUME NEW h \in Host, ReportChooses(h) \/ QueryChooses(h)
      PROVE  MapsOK' /\ WeightsOK'
  BY <1>2, RotationKeepsTypes DEF ReportChooses, QueryChooses
<1>3. CASE Tick
  <2>1. age' = [h \in Known |-> age[h] + 1] /\ UNCHANGED <<score, state, wait>>
    BY <1>3 DEF Tick
  <2>2. Known' = Known /\ age' \in [Known -> Nat]
    BY <2>1 DEF MapsOK, Known
  <2> QED BY <2>1, <2>2 DEF MapsOK, WeightsOK
<1>4. CASE Cleanup
  BY <1>4, CleanupKeepsTypes
<1>5. CASE UNCHANGED <<score, age, state, wait>>
  BY <1>5 DEF MapsOK, WeightsOK, Known
<1> QED
  BY <1>1, <1>2, <1>3, <1>4, <1>5 DEF Next, ReportFindsNone, QueryAnswers, vars

\* Scores, ages and weights stay in range: the weighted mean of a weight and a
\* score is no more than the greater of them.
THEOREM SchedulerTypeOK == Spec => []TypeOK
<1>1. Init => MapsOK /\ WeightsOK
  BY DEF Init, MapsOK, WeightsOK, Known
<1>2. Init => CountersOK
  BY SchedulerAssumption DEF Init, CountersOK
<1>3. Init => QueriesOK
  <2>1. Init => query = [pc |-> "idle", host |-> ""]
    BY DEF Init, NoQuery
  <2>2. [pc |-> "idle", host |-> ""] \in [pc : {"idle", "chosen"}, host : Host \cup {""}]
    OBVIOUS
  <2> QED BY <2>1, <2>2 DEF QueriesOK
<1>4. MapsOK /\ WeightsOK /\ CountersOK /\ QueriesOK => TypeOK
  BY TypeParts
<1> QED
  BY <1>1, <1>2, <1>3, <1>4, CountersNext, QueriesNext, MapsNext, SchedulerInvariant, PTL
  DEF Spec

-----------------------------------------------------------------------------
(* The cluster's overview.                                                 *)

\* A smallest counterexample among the subsets of a finite set.
LEMMA SmallestSet ==
  ASSUME NEW S, IsFiniteSet(S), NEW T \in SUBSET (SUBSET S), T # {}
  PROVE  \E s \in T : \A t \in SUBSET S : t \subseteq s /\ t # s => t \notin T
<1>1. IsWellFoundedOn(StrictSubsetOrdering(S), SUBSET S)
  BY FS_StrictSubsetOrderingWellFounded, FS_FiniteSubsetsOfFinite
<1>2. PICK s \in T : \A t \in T : ~ (<<t, s>> \in StrictSubsetOrdering(S))
  BY <1>1, WFMin
<1> QED BY <1>2 DEF StrictSubsetOrdering

\* A finite set of places has a last one.
LEMMA MaxIn ==
  ASSUME NEW n \in Nat, NEW s \in SUBSET (1 .. n), s # {}
  PROVE  Max(s) \in s /\ \A x \in s : x <= Max(s)
<1> DEFINE Bad == {t \in SUBSET (1 .. n) : t # {} /\ ~ \E x \in t : \A y \in t : x >= y}
<1>1. Bad = {}
  <2> SUFFICES ASSUME Bad # {} PROVE FALSE
    OBVIOUS
  <2>1. IsFiniteSet(1 .. n)
    BY FS_Interval
  <2>2. PICK t \in Bad : \A u \in SUBSET (1 .. n) : u \subseteq t /\ u # t => u \notin Bad
    <3> DEFINE P == 1 .. n
    <3>1. Bad \in SUBSET (SUBSET P) /\ IsFiniteSet(P)
      BY <2>1
    <3> HIDE DEF Bad, P
    <3>2. \E t \in Bad : \A u \in SUBSET P : u \subseteq t /\ u # t => u \notin Bad
      BY <3>1, SmallestSet
    <3> QED BY <3>2 DEF P
  <2>3. PICK x : x \in t
    BY <2>2
  <2>4. t \ {x} = {} \/ \E m \in t \ {x} : \A y \in t \ {x} : m >= y
    BY <2>2, <2>3
  <2>5. \E m \in t : \A y \in t : m >= y
    <3>1. CASE t \ {x} = {}
      BY <2>2, <2>3, <3>1
    <3>2. CASE \E m \in t \ {x} : \A y \in t \ {x} : m >= y
      <4>1. PICK m \in t \ {x} : \A y \in t \ {x} : m >= y
        BY <3>2
      <4>2. m \in Int /\ x \in Int /\ \A y \in t : y \in Int
        BY <2>2, <2>3, <4>1
      <4>3. CASE m >= x
        BY <2>3, <4>1, <4>2, <4>3
      <4>4. CASE x >= m
        BY <2>3, <4>1, <4>2, <4>4
      <4> QED BY <4>2, <4>3, <4>4
    <3> QED BY <2>4, <3>1, <3>2
  <2> QED BY <2>2, <2>5
<1>2. \E x \in s : \A y \in s : x >= y
  BY <1>1
<1>3. Max(s) \in s /\ \A y \in s : Max(s) >= y
  BY <1>2, Zenon DEF Max
<1> QED BY <1>3

\* What the order of the records compares.
OverviewTypes ==
  /\ \A h \in Known : score[h] \in Nat /\ age[h] \in Nat
  /\ IsFiniteSet(Known) /\ "" \notin Known

Sorted(o) == \A i, j \in DOMAIN o : Precedes(o[i], o[j]) => i < j

\* Some host comes last.
LEMMA LastExists ==
  ASSUME OverviewTypes, NEW S \in SUBSET Known, S # {}
  PROVE  \E m \in S : \A x \in S : ~ Precedes(m, x)
<1> DEFINE Bad == {t \in SUBSET S : t # {} /\ ~ \E m \in t : \A x \in t : ~ Precedes(m, x)}
<1>1. Bad = {}
  <2> SUFFICES ASSUME Bad # {} PROVE FALSE
    OBVIOUS
  <2>1. IsFiniteSet(S)
    BY FS_Subset DEF OverviewTypes
  <2>2. PICK t \in Bad : \A u \in SUBSET S : u \subseteq t /\ u # t => u \notin Bad
    <3>1. Bad \in SUBSET (SUBSET S)
      OBVIOUS
    <3> HIDE DEF Bad
    <3> QED BY <2>1, <3>1, SmallestSet
  <2>3. PICK x : x \in t
    BY <2>2
  <2>4. t \ {x} = {} \/ \E m \in t \ {x} : \A y \in t \ {x} : ~ Precedes(m, y)
    BY <2>2, <2>3
  <2>5. \A h \in t : score[h] \in Nat /\ age[h] \in Nat
    BY <2>2 DEF OverviewTypes
  <2>6. \E m \in t : \A y \in t : ~ Precedes(m, y)
    <3>1. CASE t \ {x} = {}
      BY <2>3, <2>5, <3>1 DEF Precedes
    <3>2. CASE \E m \in t \ {x} : \A y \in t \ {x} : ~ Precedes(m, y)
      <4>1. PICK m \in t \ {x} : \A y \in t \ {x} : ~ Precedes(m, y)
        BY <3>2
      <4>2. CASE ~ Precedes(m, x)
        BY <4>1, <4>2
      <4>3. CASE Precedes(m, x)
        <5>1. \A y \in t : ~ Precedes(x, y)
          BY <2>3, <2>5, <4>1, <4>3 DEF Precedes
        <5> QED BY <2>3, <5>1
      <4> QED BY <4>2, <4>3
    <3> QED BY <2>4, <3>1, <3>2
  <2> QED BY <2>2, <2>6
<1> QED BY <1>1

\* What SetToSeqs means.
LEMMA OrderMeans ==
  ASSUME NEW S, NEW o
  PROVE  o \in SetToSeqs(S) <=>
           /\ o \in [1 .. Cardinality(S) -> S]
           /\ \A i, j \in 1 .. Cardinality(S) : i # j => o[i] # o[j]
BY DEF SetToSeqs

\* The sort of the records has something to return.
LEMMA SortedExists ==
  ASSUME OverviewTypes
  PROVE  \E o \in SetToSeqs(Known) : Sorted(o)
<1> DEFINE Bad == {S \in SUBSET Known : ~ \E o \in SetToSeqs(S) : Sorted(o)}
<1> SUFFICES ASSUME Bad # {} PROVE FALSE
  OBVIOUS
<1>1. PICK S \in Bad : \A T \in SUBSET Known : T \subseteq S /\ T # S => T \notin Bad
  <2>1. Bad \in SUBSET (SUBSET Known) /\ IsFiniteSet(Known)
    BY DEF OverviewTypes
  <2> HIDE DEF Bad
  <2> QED BY <2>1, SmallestSet
<1>2. IsFiniteSet(S)
  BY <1>1, FS_Subset DEF OverviewTypes
<1>3. CASE S = {}
  <2> DEFINE o == [i \in 1 .. 0 |-> 0]
  <2>1. Cardinality(S) = 0
    BY <1>3, FS_EmptySet
  <2>2. o \in [1 .. 0 -> S] /\ DOMAIN o = {}
    OBVIOUS
  <2>3. o \in SetToSeqs(S) /\ Sorted(o)
    BY <2>1, <2>2, OrderMeans DEF Sorted
  <2> QED BY <1>1, <2>3
<1>4. CASE S # {}
  <2>1. PICK m \in S : \A x \in S : ~ Precedes(m, x)
    BY <1>1, <1>4, LastExists
  <2> DEFINE T == S \ {m}
             n == Cardinality(T)
  <2>2. PICK o \in SetToSeqs(T) : Sorted(o)
    BY <1>1, <2>1
  <2>3. n \in Nat /\ Cardinality(S) = n + 1
    <3>1. IsFiniteSet(T) /\ m \notin T /\ T \cup {m} = S
      BY <1>2, <2>1, FS_Subset
    <3>2. Cardinality(T \cup {m}) = Cardinality(T) + 1
      BY <3>1, FS_AddElement
    <3> QED BY <3>1, <3>2, FS_CardinalityType
  <2>4. o \in [1 .. n -> T] /\ \A i, j \in 1 .. n : i # j => o[i] # o[j]
    BY <2>2, OrderMeans
  <2> DEFINE p == [i \in 1 .. n + 1 |-> IF i = n + 1 THEN m ELSE o[i]]
  <2>5. /\ p[n + 1] = m
        /\ \A i \in 1 .. n : p[i] = o[i] /\ p[i] \in T
        /\ \A i \in 1 .. n + 1 : i = n + 1 \/ i \in 1 .. n
    <3>1. n + 1 \in 1 .. n + 1 /\ \A i \in 1 .. n : i \in 1 .. n + 1 /\ i # n + 1
      <4> HIDE DEF n
      <4> QED BY <2>3
    <3>2. \A i \in 1 .. n + 1 : i = n + 1 \/ i \in 1 .. n
      <4> HIDE DEF n
      <4> QED BY <2>3
    <3>3. \A i \in 1 .. n + 1 : p[i] = IF i = n + 1 THEN m ELSE o[i]
      OBVIOUS
    <3>4. \A i \in 1 .. n : o[i] \in T
      BY <2>4
    <3> HIDE DEF p, n, T
    <3> QED BY <3>1, <3>2, <3>3, <3>4
  <2>6. p \in [1 .. n + 1 -> S] /\ DOMAIN p = 1 .. n + 1
    BY <2>1, <2>3, <2>5
  <2>7. \A i, j \in 1 .. n + 1 : i # j => p[i] # p[j]
    <3> SUFFICES ASSUME NEW i \in 1 .. n + 1, NEW j \in 1 .. n + 1, i # j
                 PROVE  p[i] # p[j]
      OBVIOUS
    <3> HIDE DEF p, n
    <3> QED BY <2>4, <2>5
  <2>8. Sorted(p)
    <3> SUFFICES ASSUME NEW i \in 1 .. n + 1, NEW j \in 1 .. n + 1, Precedes(p[i], p[j])
                 PROVE  i < j
      BY <2>6 DEF Sorted
    <3>1. i # n + 1
      BY <2>1, <2>5, <2>6
    <3>2. CASE j = n + 1
      BY <2>3, <3>1, <3>2
    <3>3. CASE j # n + 1
      <4>1. i \in DOMAIN o /\ j \in DOMAIN o /\ Precedes(o[i], o[j])
        BY <2>4, <2>5, <3>1, <3>3
      <4> QED BY <2>2, <4>1 DEF Sorted
    <3> QED BY <3>2, <3>3
  <2>9. p \in SetToSeqs(S)
    <3> HIDE DEF p, n
    <3> QED BY <2>3, <2>6, <2>7, OrderMeans
  <2> QED BY <1>1, <2>8, <2>9
<1> QED BY <1>3, <1>4

-----------------------------------------------------------------------------
\* The best and the worst of the hosts considered so far, if any.
BestOf(S, b) == IF S = {} THEN b = "" ELSE Greatest(S, b)
WorstOf(S, w) == IF S = {} THEN w = "" ELSE Least(S, w)

\* The loop over the records, once it has considered S, is right about S.
RightAbout(r, S) ==
  /\ r.online = Cardinality(S \cap Online) /\ r.offline = Cardinality(S \ Online)
  /\ BestOf(S, r.best) /\ WorstOf(S, r.worst)
  /\ BestOf(S \cap Online, r.bestOnline) /\ WorstOf(S \cap Online, r.worstOnline)

\* A later record does not displace the best.
LEMMA BestStays ==
  ASSUME OverviewTypes, NEW S \in SUBSET Known, NEW h \in Known, NEW b, BestOf(S, b),
         \A x \in S : ~ Precedes(h, x)
  PROVE  BestOf(S \cup {h}, IF Above(h, b) THEN h ELSE b)
<1>1. score[h] \in Nat /\ age[h] \in Nat
  BY DEF OverviewTypes
<1>2. CASE S = {}
  <2>1. b = "" /\ Above(h, b)
    BY <1>2, Zenon DEF BestOf, Above
  <2>2. ~ Precedes(h, h) /\ S \cup {h} = {h}
    BY <1>1, <1>2 DEF Precedes
  <2>3. Greatest({h}, h)
    BY <2>2 DEF Greatest
  <2> QED BY <2>1, <2>2, <2>3, Zenon DEF BestOf
<1>3. CASE S # {}
  <2>1. b \in S /\ \A g \in S : ~ Precedes(g, b)
    BY <1>3 DEF BestOf, Greatest
  <2>2. b # ""
    BY <2>1, Zenon DEF OverviewTypes
  <2>3. ~ (score[h] > score[b])
    BY <2>1 DEF Precedes
  <2>4. ~ Above(h, b)
    BY <2>2, <2>3, Zenon DEF Above
  <2>5. Greatest(S \cup {h}, b)
    BY <2>1 DEF Greatest
  <2> QED BY <2>4, <2>5, Zenon DEF BestOf
<1> QED BY <1>2, <1>3

\* A later record is the worst only with a lower score: of equals, the first
\* is the freshest.
LEMMA WorstSinks ==
  ASSUME OverviewTypes, NEW S \in SUBSET Known, NEW h \in Known, NEW w, WorstOf(S, w),
         \A x \in S : ~ Precedes(h, x)
  PROVE  WorstOf(S \cup {h}, IF Below(h, w) THEN h ELSE w)
<1>1. score[h] \in Nat /\ age[h] \in Nat
  BY DEF OverviewTypes
<1>4. \A g \in S : score[g] \in Nat /\ age[g] \in Nat
  BY DEF OverviewTypes
<1>2. CASE S = {}
  <2>1. w = "" /\ Below(h, w)
    BY <1>2, Zenon DEF WorstOf, Below
  <2>2. S \cup {h} = {h}
    BY <1>2
  <2>3. Least({h}, h)
    BY <1>1 DEF Least
  <2> QED BY <2>1, <2>2, <2>3, Zenon DEF WorstOf
<1>3. CASE S # {}
  <2>1. w \in S /\ \A g \in S : score[w] < score[g] \/ (score[w] = score[g] /\ age[w] <= age[g])
    BY <1>3 DEF WorstOf, Least
  <2>2. ~ Precedes(h, w) /\ score[w] \in Nat /\ age[w] \in Nat
    BY <2>1 DEF OverviewTypes
  <2>5. w # ""
    BY <2>1, Zenon DEF OverviewTypes
  <2>3. CASE score[h] < score[w]
    <3>1. Below(h, w)
      BY <2>3, Zenon DEF Below
    <3>2. \A g \in S : score[h] < score[g]
      <4> SUFFICES ASSUME NEW g \in S PROVE score[h] < score[g]
        OBVIOUS
      <4>1. score[w] <= score[g]
        BY <1>4, <2>1, <2>2
      <4> QED BY <1>1, <1>4, <2>2, <2>3, <4>1
    <3>3. Least(S \cup {h}, h)
      BY <1>1, <3>2 DEF Least
    <3> QED BY <3>1, <3>3, Zenon DEF WorstOf
  <2>4. CASE ~ score[h] < score[w]
    <3>1. ~ Below(h, w)
      BY <2>4, <2>5, Zenon DEF Below
    <3>2. score[w] < score[h] \/ (score[w] = score[h] /\ age[w] <= age[h])
      BY <1>1, <2>2, <2>4 DEF Precedes
    <3>3. Least(S \cup {h}, w)
      BY <2>1, <3>2 DEF Least
    <3> QED BY <3>1, <3>3, Zenon DEF WorstOf
  <2> QED BY <2>3, <2>4
<1> QED BY <1>2, <1>3

\* One round of the loop.
LEMMA ConsiderIsRight ==
  ASSUME OverviewTypes, NEW S \in SUBSET Known, NEW h \in Known, h \notin S,
         \A x \in S : ~ Precedes(h, x), NEW r, RightAbout(r, S)
  PROVE  RightAbout(Consider(r, h), S \cup {h})
<1> DEFINE T == S \cup {h}
           q == Consider(r, h)
<1>1. IsFiniteSet(S \cap Online) /\ IsFiniteSet(S \ Online)
  BY FS_Subset DEF OverviewTypes
<1>2. /\ q.online = r.online + (IF h \in Online THEN 1 ELSE 0)
      /\ q.offline = r.offline + (IF h \in Online THEN 0 ELSE 1)
      /\ q.best = (IF Above(h, r.best) THEN h ELSE r.best)
      /\ q.worst = (IF Below(h, r.worst) THEN h ELSE r.worst)
      /\ q.bestOnline = (IF h \in Online /\ Above(h, r.bestOnline) THEN h ELSE r.bestOnline)
      /\ q.worstOnline = (IF h \in Online /\ Below(h, r.worstOnline) THEN h ELSE r.worstOnline)
  BY DEF Consider
<1>3. q.online = Cardinality(T \cap Online) /\ q.offline = Cardinality(T \ Online)
  <2>1. /\ Cardinality(S \cap Online) \in Nat /\ Cardinality(S \ Online) \in Nat
        /\ Cardinality((S \cap Online) \cup {h}) = Cardinality(S \cap Online) + 1
        /\ Cardinality((S \ Online) \cup {h}) = Cardinality(S \ Online) + 1
    BY <1>1, FS_AddElement, FS_CardinalityType
  <2>4. r.online = Cardinality(S \cap Online) /\ r.offline = Cardinality(S \ Online)
    BY Zenon DEF RightAbout
  <2>2. CASE h \in Online
    <3>1. T \cap Online = (S \cap Online) \cup {h} /\ T \ Online = S \ Online
      BY <2>2
    <3>2. q.online = r.online + 1 /\ q.offline = r.offline + 0
      BY <1>2, <2>2, Zenon
    <3> HIDE DEF T, q
    <3>3. q.online = Cardinality(T \cap Online)
      BY <2>1, <2>4, <3>1, <3>2
    <3>4. q.offline = Cardinality(T \ Online)
      BY <2>1, <2>4, <3>1, <3>2
    <3> QED BY <3>3, <3>4
  <2>3. CASE h \notin Online
    <3>1. T \cap Online = S \cap Online /\ T \ Online = (S \ Online) \cup {h}
      BY <2>3
    <3>2. q.online = r.online + 0 /\ q.offline = r.offline + 1
      BY <1>2, <2>3, Zenon
    <3> HIDE DEF T, q
    <3>3. q.online = Cardinality(T \cap Online)
      BY <2>1, <2>4, <3>1, <3>2
    <3>4. q.offline = Cardinality(T \ Online)
      BY <2>1, <2>4, <3>1, <3>2
    <3> QED BY <3>3, <3>4
  <2> QED BY <2>2, <2>3
<1>4. BestOf(T, q.best) /\ WorstOf(T, q.worst)
  BY <1>2, BestStays, WorstSinks DEF RightAbout
<1>5. BestOf(T \cap Online, q.bestOnline) /\ WorstOf(T \cap Online, q.worstOnline)
  <2>1. CASE h \in Online
    <3>1. T \cap Online = (S \cap Online) \cup {h} /\ S \cap Online \in SUBSET Known
      BY <2>1
    <3>2. BestOf(S \cap Online, r.bestOnline) /\ WorstOf(S \cap Online, r.worstOnline)
      BY DEF RightAbout
    <3>3. /\ BestOf((S \cap Online) \cup {h}, IF Above(h, r.bestOnline) THEN h ELSE r.bestOnline)
          /\ WorstOf((S \cap Online) \cup {h}, IF Below(h, r.worstOnline) THEN h ELSE r.worstOnline)
      BY <3>1, <3>2, BestStays, WorstSinks
    <3> HIDE DEF q
    <3> QED BY <1>2, <2>1, <3>1, <3>3
  <2>2. CASE h \notin Online
    <3>1. T \cap Online = S \cap Online
      BY <2>2
    <3> QED BY <1>2, <2>2, <3>1 DEF RightAbout
  <2> QED BY <2>1, <2>2
<1> HIDE DEF q, T
<1>6. RightAbout(q, T)
  BY <1>3, <1>4, <1>5 DEF RightAbout
<1> QED BY <1>6 DEF q, T

-----------------------------------------------------------------------------
\* FoldLeft over the records o, as a table of the results for sets of places.
Loop(g, o, S) ==
  g = [s \in SUBSET S |-> IF s = {} THEN NoOverview
                          ELSE LET i == Max(s) IN Consider(g[s \ {i}], o[i])]

\* What FoldLeft means: the table, read at the set of all places.
LEMMA LoopIsChosen ==
  ASSUME NEW o
  PROVE  FoldLeft(Consider, NoOverview, o) = (CHOOSE g : Loop(g, o, DOMAIN o))[DOMAIN o]
BY DEF FoldLeft, MapThenFoldSet, Loop

\* Sets of places in a sequence.
Places(S) == \E n \in Nat : S \subseteq 1 .. n

\* A set of places is finite, and has a last one unless it is empty.
LEMMA PlacesAre ==
  ASSUME NEW S, Places(S), NEW s \in SUBSET S
  PROVE  Places(s) /\ IsFiniteSet(s) /\ (s # {} => Max(s) \in s /\ \A i \in s : i <= Max(s))
<1>1. PICK n \in Nat : S \subseteq 1 .. n
  BY DEF Places
<1>2. s \in SUBSET (1 .. n)
  BY <1>1
<1>3. IsFiniteSet(1 .. n)
  BY FS_Interval
<1>4. IsFiniteSet(s)
  BY ONLY <1>2, <1>3, FS_Subset
<1> QED BY <1>2, <1>4, MaxIn DEF Places

\* A table at one set of places: nothing, or the last place after the others.
LEMMA LoopAt ==
  ASSUME NEW g, NEW o, NEW S, Places(S), Loop(g, o, S), NEW s \in SUBSET S
  PROVE  /\ s = {} => g[s] = NoOverview
         /\ s # {} => /\ Max(s) \in s /\ s \ {Max(s)} \in SUBSET S
                      /\ g[s] = Consider(g[s \ {Max(s)}], o[Max(s)])
<1>1. g[s] = IF s = {} THEN NoOverview ELSE Consider(g[s \ {Max(s)}], o[Max(s)])
  <2>1. g = [t \in SUBSET S |-> IF t = {} THEN NoOverview
                                ELSE Consider(g[t \ {Max(t)}], o[Max(t)])]
    BY Zenon DEF Loop
  <2> QED BY ONLY <2>1, s \in SUBSET S, Zenon
<1>3. s # {} => Max(s) \in s
  BY PlacesAre
<1> QED BY <1>1, <1>3

\* The tables of two sets agree on the subsets they share.
LEMMA LoopUnique ==
  ASSUME NEW g, NEW h, NEW o, NEW S, NEW T, Places(S), Places(T),
         Loop(g, o, S), Loop(h, o, T), NEW s \in SUBSET S, s \in SUBSET T
  PROVE  g[s] = h[s]
<1> DEFINE Bad == {t \in SUBSET S : t \in SUBSET T /\ g[t] # h[t]}
<1> SUFFICES ASSUME Bad # {} PROVE FALSE
  OBVIOUS
<1>1. PICK t \in Bad : \A u \in SUBSET S : u \subseteq t /\ u # t => u \notin Bad
  <2>1. Bad \in SUBSET (SUBSET S)
    OBVIOUS
  <2>2. IsFiniteSet(S)
    BY PlacesAre
  <2> HIDE DEF Bad
  <2> QED BY <2>1, <2>2, SmallestSet
<1>2. t # {}
  BY <1>1, LoopAt
<1>3. /\ Max(t) \in t
      /\ g[t] = Consider(g[t \ {Max(t)}], o[Max(t)])
      /\ h[t] = Consider(h[t \ {Max(t)}], o[Max(t)])
  BY <1>1, <1>2, LoopAt
<1>4. t \ {Max(t)} \notin Bad /\ t \ {Max(t)} \in SUBSET S /\ t \ {Max(t)} \in SUBSET T
  BY <1>1, <1>3
<1> QED BY <1>1, <1>3, <1>4

\* Every set of places has a table.
LEMMA LoopExists ==
  ASSUME NEW P, Places(P), NEW o
  PROVE  \E g : Loop(g, o, P)
<1> DEFINE Bad == {s \in SUBSET P : ~ \E g : Loop(g, o, s)}
<1> SUFFICES ASSUME Bad # {} PROVE FALSE
  OBVIOUS
<1>1. PICK s \in Bad : \A t \in SUBSET P : t \subseteq s /\ t # s => t \notin Bad
  <2>1. Bad \in SUBSET (SUBSET P)
    OBVIOUS
  <2>2. IsFiniteSet(P)
    BY PlacesAre
  <2> HIDE DEF Bad
  <2> QED BY <2>1, <2>2, SmallestSet
<1> DEFINE G(t) == CHOOSE g : Loop(g, o, t)
           v == [t \in SUBSET s |-> IF t = s THEN NoOverview ELSE G(t)[t]]
           h == [t \in SUBSET s |-> IF t = {} THEN NoOverview
                                   ELSE Consider(v[t \ {Max(t)}], o[Max(t)])]
<1>2. \A t \in SUBSET s : Places(t)
  BY <1>1, PlacesAre
<1>5. \A t \in SUBSET s : t # s => Loop(G(t), o, t)
  <2>1. \A t \in SUBSET s : t # s => \E g : Loop(g, o, t)
    BY <1>1
  <2> QED BY <2>1
<1>3. \A t \in SUBSET s : t # s => h[t] = v[t]
  <2> SUFFICES ASSUME NEW t \in SUBSET s, t # s PROVE h[t] = v[t]
    BY Zenon
  <2>0. v[t] = G(t)[t]
    OBVIOUS
  <2>4. h[t] = IF t = {} THEN NoOverview ELSE Consider(v[t \ {Max(t)}], o[Max(t)])
    OBVIOUS
  <2>1. Loop(G(t), o, t) /\ t \in SUBSET t /\ Places(t)
    BY <1>2, <1>5
  <2>2. CASE t = {}
    <3> HIDE DEF G, h, v
    <3>1. G(t)[t] = NoOverview
      BY <2>1, <2>2, LoopAt
    <3> QED BY <2>0, <2>2, <2>4, <3>1
  <2>3. CASE t # {}
    <3> DEFINE u == t \ {Max(t)}
               f == G(t)
    <3> HIDE DEF G, h, v
    <3>1. Max(t) \in t /\ u \in SUBSET t /\ G(t)[t] = Consider(G(t)[u], o[Max(t)])
      <4>1. Loop(f, o, t) /\ t \in SUBSET t /\ Places(t)
        BY <2>1
      <4> HIDE DEF f, Bad, u
      <4>2. Max(t) \in t /\ t \ {Max(t)} \in SUBSET t
            /\ f[t] = Consider(f[t \ {Max(t)}], o[Max(t)])
        BY <2>3, <4>1, LoopAt
      <4> QED BY <4>2 DEF f, u
    <3>2. u \in SUBSET s /\ u # s /\ u \in SUBSET u
      BY <3>1
    <3>3. Loop(G(u), o, u) /\ Places(u)
      BY <1>2, <1>5, <3>2
    <3>5. v[u] = G(u)[u]
      BY <3>2 DEF v
    <3>6. h[t] = Consider(v[u], o[Max(t)])
      BY <2>3, <2>4
    <3> HIDE DEF u
    <3>4. G(u)[u] = G(t)[u]
      BY <2>1, <3>1, <3>2, <3>3, LoopUnique
    <3> QED BY <2>0, <3>1, <3>4, <3>5, <3>6
  <2> QED BY <2>2, <2>3
<1>4. Loop(h, o, s)
  <2>1. ASSUME NEW t \in SUBSET s, t # {} PROVE v[t \ {Max(t)}] = h[t \ {Max(t)}]
    <3>1. t \ {Max(t)} \in SUBSET s /\ t \ {Max(t)} # s
      BY <1>2, <2>1, PlacesAre
    <3> HIDE DEF v, h
    <3> QED BY <1>3, <3>1
  <2> DEFINE k == [t \in SUBSET s |-> IF t = {} THEN NoOverview
                                     ELSE Consider(h[t \ {Max(t)}], o[Max(t)])]
  <2>2. \A t \in SUBSET s :
          h[t] = IF t = {} THEN NoOverview ELSE Consider(v[t \ {Max(t)}], o[Max(t)])
    <3> HIDE DEF v
    <3> QED OBVIOUS
  <2>3. DOMAIN h = SUBSET s /\ DOMAIN k = SUBSET s
    OBVIOUS
  <2>4. h = [t \in SUBSET s |-> h[t]] /\ k = [t \in SUBSET s |-> k[t]]
    <3> HIDE DEF v
    <3> QED BY Zenon
  <2> HIDE DEF h, v
  <2>5. \A t \in SUBSET s :
          k[t] = IF t = {} THEN NoOverview ELSE Consider(h[t \ {Max(t)}], o[Max(t)])
    OBVIOUS
  <2> HIDE DEF k
  <2>6. \A t \in SUBSET s : h[t] = k[t]
    BY <2>1, <2>2, <2>5
  <2>7. [t \in SUBSET s |-> h[t]] = [t \in SUBSET s |-> k[t]]
    BY <2>6
  <2>8. h = k
    BY <2>4, <2>7
  <2> QED BY <2>8, Zenon DEF Loop, k
<1> HIDE DEF h, v
<1> QED BY <1>1, <1>4

\* Where the records are, once sorted.
LEMMA RecordsSorted ==
  ASSUME OverviewTypes
  PROVE  \E n \in Nat :
           /\ n = Cardinality(Known) /\ DOMAIN Records = 1 .. n /\ Len(Records) = n
           /\ \A i \in 1 .. n : Records[i] \in Known
           /\ \A h \in Known : \E i \in 1 .. n : Records[i] = h
           /\ \A i, j \in 1 .. n : Records[i] = Records[j] => i = j
           /\ Sorted(Records)
<1> DEFINE n == Cardinality(Known)
           o == Records
<1>1. o \in SetToSeqs(Known) /\ Sorted(o)
  <2>1. \E p : p \in SetToSeqs(Known) /\ \A i, j \in DOMAIN p : Precedes(p[i], p[j]) => i < j
    BY SortedExists DEF Sorted
  <2> QED BY <2>1, Zenon DEF Records, Sorted
<1>2. n \in Nat /\ IsFiniteSet(Known)
  BY FS_CardinalityType DEF OverviewTypes
<1> HIDE DEF o
<1>3. o \in [1 .. n -> Known] /\ \A i, j \in 1 .. n : o[i] = o[j] => i = j
  BY <1>1, OrderMeans
<1> HIDE DEF n
<1>4. o \in Seq(Known) /\ Len(o) = n
  BY <1>2, <1>3
<1>5. o \in Surjection(1 .. n, Known)
  <2>1. o \in Injection(1 .. n, Known)
    BY <1>3 DEF Injection, IsInjective
  <2>2. IsFiniteSet(1 .. n) /\ Cardinality(1 .. n) = n
    BY <1>2, FS_Interval
  <2> QED BY <1>2, <2>1, <2>2, FS_Injection DEF n
<1>6. \A h \in Known : \E i \in 1 .. n : o[i] = h
  BY <1>5 DEF Surjection
<1> QED BY <1>1, <1>2, <1>3, <1>4, <1>6 DEF n, o

\* The loop over sorted records, as far as it has come, knows the truth about
\* the hosts considered.
LEMMA LoopIsRight ==
  ASSUME OverviewTypes, NEW n \in Nat, NEW o,
         \A i \in 1 .. n : o[i] \in Known,
         \A i, j \in 1 .. n : o[i] = o[j] => i = j,
         DOMAIN o = 1 .. n, Sorted(o), NEW g, Loop(g, o, 1 .. n)
  PROVE  RightAbout(g[1 .. n], {o[i] : i \in 1 .. n})
<1> DEFINE P == 1 .. n
           Of(s) == {o[i] : i \in s}
           Bad == {s \in SUBSET P : ~ RightAbout(g[s], Of(s))}
<1> SUFFICES ASSUME Bad # {} PROVE FALSE
  OBVIOUS
<1>1. Places(P)
  BY DEF Places
<1>2. PICK s \in Bad : \A t \in SUBSET P : t \subseteq s /\ t # s => t \notin Bad
  <2>1. Bad \in SUBSET (SUBSET P)
    OBVIOUS
  <2>2. IsFiniteSet(P)
    BY FS_Interval
  <2> HIDE DEF Bad, P
  <2> QED BY <2>1, <2>2, SmallestSet
<1>3. s \in SUBSET P /\ ~ RightAbout(g[s], Of(s))
  BY <1>2
<1>4. Loop(g, o, P)
  OBVIOUS
<1>5. CASE s = {}
  <2>1. Of(s) = {} /\ Of(s) \cap Online = {} /\ Of(s) \ Online = {}
    BY <1>5
  <2>2. g[s] = NoOverview
    <3> HIDE DEF P
    <3> QED BY <1>1, <1>3, <1>4, <1>5, LoopAt
  <2> HIDE DEF Of
  <2>3. RightAbout(NoOverview, {})
    <3>1. Cardinality({} \cap Online) = 0 /\ Cardinality({} \ Online) = 0
      <4>1. {} \cap Online = {} /\ {} \ Online = {}
        OBVIOUS
      <4> QED BY <4>1, FS_EmptySet
    <3>2. BestOf({}, "") /\ WorstOf({}, "")
      BY Zenon DEF BestOf, WorstOf
    <3>3. {} \cap Online = {}
      OBVIOUS
    <3>4. /\ NoOverview.online = 0 /\ NoOverview.offline = 0
          /\ NoOverview.best = "" /\ NoOverview.worst = ""
          /\ NoOverview.bestOnline = "" /\ NoOverview.worstOnline = ""
      BY DEF NoOverview
    <3> QED BY <3>1, <3>2, <3>3, <3>4, Zenon DEF RightAbout
  <2> QED BY <1>3, <2>1, <2>2, <2>3, Zenon
<1>6. CASE s # {}
  <2> DEFINE m == Max(s)
             t == s \ {m}
  <2>1. m \in s /\ \A i \in s : i <= m
    <3> HIDE DEF P
    <3> QED BY <1>1, <1>3, <1>6, PlacesAre
  <2>2. g[s] = Consider(g[t], o[m])
    <3>2. s \in SUBSET P
      BY <1>3
    <3> HIDE DEF P, Bad, Of, m, t
    <3>1. g[s] = Consider(g[s \ {Max(s)}], o[Max(s)])
      BY <1>1, <3>2, <1>4, <1>6, LoopAt
    <3> QED BY <3>1, Zenon DEF t, m
  <2> HIDE DEF m
  <2>3. RightAbout(g[t], Of(t))
    <3>1. t \in SUBSET P /\ t \subseteq s /\ t # s
      BY <1>3, <2>1
    <3> QED BY <1>2, <3>1
  <2>4. o[m] \in Known /\ Of(t) \in SUBSET Known /\ o[m] \notin Of(t)
    BY <1>3, <2>1
  <2>5. \A x \in Of(t) : ~ Precedes(o[m], x)
    <3> SUFFICES ASSUME NEW i \in t, Precedes(o[m], o[i]) PROVE FALSE
      OBVIOUS
    <3>1. i \in 1 .. n /\ m \in 1 .. n /\ i <= m
      BY <1>3, <2>1
    <3>2. m < i
      BY <3>1 DEF Sorted
    <3> QED BY <3>1, <3>2
  <2>6. Of(s) = Of(t) \cup {o[m]}
    BY <2>1
  <2> HIDE DEF Of, t
  <2>7. RightAbout(g[s], Of(s))
    BY <2>2, <2>3, <2>4, <2>5, <2>6, ConsiderIsRight
  <2> QED BY <1>3, <2>7
<1> QED BY <1>5, <1>6

\* The statistics of a cluster are the truth about its hosts.
LEMMA OverviewFollows == ASSUME OverviewTypes PROVE OverviewIsTrue
<1>1. PICK n \in Nat :
        /\ n = Cardinality(Known) /\ DOMAIN Records = 1 .. n /\ Len(Records) = n
        /\ \A i \in 1 .. n : Records[i] \in Known
        /\ \A h \in Known : \E i \in 1 .. n : Records[i] = h
        /\ \A i, j \in 1 .. n : Records[i] = Records[j] => i = j
        /\ Sorted(Records)
  BY RecordsSorted
<1> DEFINE o == Records
           P == 1 .. n
           g == CHOOSE f : Loop(f, o, P)
           r == g[P]
<1>2. Loop(g, o, P)
  <2>1. Places(P)
    BY DEF Places
  <2> HIDE DEF P, o
  <2>2. \E f : Loop(f, o, P)
    BY <2>1, LoopExists
  <2> QED BY <2>2
<1>3. r = FoldLeft(Consider, NoOverview, o)
  BY <1>1, LoopIsChosen
<1>4. {o[i] : i \in P} = Known
  BY <1>1
<1> HIDE DEF g, o
<1>5. RightAbout(r, Known)
  <2>1. RightAbout(r, {o[i] : i \in P})
    <3> HIDE DEF r
    <3>1. n \in Nat /\ Sorted(o) /\ DOMAIN o = 1 .. n
          /\ (\A i \in 1 .. n : o[i] \in Known)
          /\ (\A i, j \in 1 .. n : o[i] = o[j] => i = j)
      BY <1>1, Zenon DEF o
    <3>2. Loop(g, o, 1 .. n)
      BY <1>2
    <3>3. RightAbout(g[1 .. n], {o[i] : i \in 1 .. n})
      BY <3>1, <3>2, LoopIsRight
    <3> QED BY <3>3, Zenon DEF r, P
  <2> QED BY <1>4, <2>1
<1> DEFINE judged == IF Online = {} THEN Known ELSE Online
<1>6. /\ ClusterStats.total = n /\ ClusterStats.online = r.online
      /\ ClusterStats.offline = r.offline
      /\ ClusterStats.best = IF r.bestOnline = "" THEN r.best ELSE r.bestOnline
      /\ ClusterStats.worst = IF r.worstOnline = "" THEN r.worst ELSE r.worstOnline
  BY <1>1, <1>3 DEF ClusterStats, o
<1> HIDE DEF r
<1>7. Known \cap Online = Online /\ Online \subseteq Known
  BY DEF Online
<1>8. /\ r.online = Cardinality(Online) /\ r.offline = Cardinality(Known \ Online)
      /\ BestOf(Known, r.best) /\ WorstOf(Known, r.worst)
      /\ BestOf(Online, r.bestOnline) /\ WorstOf(Online, r.worstOnline)
  BY <1>5, <1>7 DEF RightAbout
<1>9. ASSUME Known # {}
      PROVE  Greatest(judged, ClusterStats.best) /\ Least(judged, ClusterStats.worst)
  <2>1. CASE Online = {}
    BY <1>6, <1>8, <1>9, <2>1, Zenon DEF BestOf, WorstOf
  <2>2. CASE Online # {}
    <3>1. Greatest(Online, r.bestOnline) /\ Least(Online, r.worstOnline)
      BY <1>8, <2>2, Zenon DEF BestOf, WorstOf
    <3>2. r.bestOnline # "" /\ r.worstOnline # ""
      BY <1>7, <3>1, Zenon DEF Greatest, Least, OverviewTypes
    <3> QED BY <1>6, <2>2, <3>1, <3>2, Zenon
  <2> QED BY <2>1, <2>2
<1> QED BY <1>1, <1>6, <1>8, <1>9, Zenon DEF OverviewIsTrue

\* Hosts become known one by one.
LEMMA KnownFinite == IsFiniteSet(Known) /\ [Next]_vars => IsFiniteSet(Known)'
<1> SUFFICES ASSUME IsFiniteSet(Known), [Next]_vars PROVE IsFiniteSet(Known')
  OBVIOUS
<1>1. ASSUME NEW h \in Host, NEW w \in Score, Report(h, w) PROVE IsFiniteSet(Known')
  <2>1. Known' = Known \cup {h}
    BY <1>1 DEF Report, Assign, Known
  <2> QED BY <2>1, FS_AddElement
<1>2. CASE Cleanup
  <2>1. Known' \subseteq Known
    BY <1>2 DEF Cleanup, Keep, Known
  <2> QED BY <2>1, FS_Subset
<1>3. CASE UNCHANGED score
  BY <1>3 DEF Known
<1>4. ASSUME NEW h \in Host, ReportChooses(h) \/ QueryChooses(h) PROVE UNCHANGED score
  BY <1>4 DEF ReportChooses, QueryChooses
<1>5. ReportFindsNone \/ QueryAnswers \/ Tick \/ UNCHANGED vars => UNCHANGED score
  BY DEF ReportFindsNone, QueryAnswers, Tick, vars
<1> QED BY <1>1, <1>2, <1>3, <1>4, <1>5, Zenon DEF Next

\* The statistics that QueryClusterOverview and QueryBestHost answer with count
\* every host once and name the best and the worst of those that report, for
\* any number of hosts and whatever scores and ages tie.
THEOREM SchedulerOverviewIsTrue == Spec => []OverviewIsTrue
<1>1. Init => IsFiniteSet(Known)
  BY FS_EmptySet DEF Init, Known
<1>2. TypeOK /\ IsFiniteSet(Known) => OverviewTypes
  <2> SUFFICES ASSUME TypeOK, IsFiniteSet(Known) PROVE OverviewTypes
    OBVIOUS
  <2>1. Known \subseteq Host /\ score \in [Known -> Score] /\ age \in [Known -> Nat]
    BY DEF TypeOK
  <2>2. Score \subseteq Nat
    BY SchedulerAssumption
  <2>3. "" \notin Host
    BY HostAssumption
  <2>4. "" \notin Known
    BY <2>1, <2>3, Zenon
  <2>5. \A h \in Known : score[h] \in Nat /\ age[h] \in Nat
    BY <2>1, <2>2
  <2> QED BY <2>4, <2>5, Zenon DEF OverviewTypes
<1>3. OverviewTypes => OverviewIsTrue
  BY OverviewFollows
<1> QED BY <1>1, <1>2, <1>3, KnownFinite, SchedulerTypeOK, PTL DEF Spec

-----------------------------------------------------------------------------
(* The rotation's balance, in sums.                                        *)

\* The element a fold takes from a set.
Picked(s) == CHOOSE x \in s : TRUE
\* The table of the sums of f over the subsets of S, as the fold computes it.
Sums(f, g, S) ==
  g = [s \in SUBSET S |-> IF s = {} THEN 0
                          ELSE LET x == Picked(s) IN f[x] + g[s \ {x}]]
\* The sum of f over S: the table, read at S.
SumOver(f, S) == (CHOOSE g : Sums(f, g, S))[S]
Numbers(f, S) == \A x \in S : f[x] \in Int

\* The picked element is one of the set.
LEMMA PickedIn == ASSUME NEW s, s # {} PROVE Picked(s) \in s
BY DEF Picked

\* A table at one set: nothing, or the picked value and the rest.
LEMMA SumsAt ==
  ASSUME NEW f, NEW g, NEW S, Sums(f, g, S), NEW s \in SUBSET S
  PROVE  /\ s = {} => g[s] = 0
         /\ s # {} => /\ Picked(s) \in s /\ s \ {Picked(s)} \in SUBSET S
                      /\ g[s] = f[Picked(s)] + g[s \ {Picked(s)}]
<1>1. g[s] = IF s = {} THEN 0 ELSE f[Picked(s)] + g[s \ {Picked(s)}]
  <2>1. g = [t \in SUBSET S |-> IF t = {} THEN 0 ELSE f[Picked(t)] + g[t \ {Picked(t)}]]
    BY Zenon DEF Sums
  <2> QED BY ONLY <2>1, s \in SUBSET S, Zenon
<1> QED BY <1>1, PickedIn

\* The tables of two sets agree on the subsets they share.
LEMMA SumsUnique ==
  ASSUME NEW f, NEW g, NEW h, NEW S, NEW T, IsFiniteSet(S),
         Sums(f, g, S), Sums(f, h, T), NEW s \in SUBSET S, s \in SUBSET T
  PROVE  g[s] = h[s]
<1> DEFINE Bad == {t \in SUBSET S : t \in SUBSET T /\ g[t] # h[t]}
<1> SUFFICES ASSUME Bad # {} PROVE FALSE
  OBVIOUS
<1>1. PICK t \in Bad : \A u \in SUBSET S : u \subseteq t /\ u # t => u \notin Bad
  <2>1. Bad \in SUBSET (SUBSET S)
    OBVIOUS
  <2> HIDE DEF Bad
  <2> QED BY <2>1, SmallestSet
<1>2. t # {}
  BY <1>1, SumsAt
<1>3. /\ Picked(t) \in t
      /\ g[t] = f[Picked(t)] + g[t \ {Picked(t)}]
      /\ h[t] = f[Picked(t)] + h[t \ {Picked(t)}]
  BY <1>1, <1>2, SumsAt
<1>4. t \ {Picked(t)} \notin Bad /\ t \ {Picked(t)} \in SUBSET S /\ t \ {Picked(t)} \in SUBSET T
  BY <1>1, <1>3
<1> QED BY <1>1, <1>3, <1>4

\* Every finite set has a table.
LEMMA SumsExist ==
  ASSUME NEW f, NEW S, IsFiniteSet(S)
  PROVE  \E g : Sums(f, g, S)
<1> DEFINE Bad == {s \in SUBSET S : ~ \E g : Sums(f, g, s)}
<1> SUFFICES ASSUME Bad # {} PROVE FALSE
  OBVIOUS
<1>1. PICK s \in Bad : \A t \in SUBSET S : t \subseteq s /\ t # s => t \notin Bad
  <2>1. Bad \in SUBSET (SUBSET S)
    OBVIOUS
  <2> HIDE DEF Bad
  <2> QED BY <2>1, SmallestSet
<1> DEFINE G(t) == CHOOSE g : Sums(f, g, t)
           v == [t \in SUBSET s |-> IF t = s THEN 0 ELSE G(t)[t]]
           h == [t \in SUBSET s |-> IF t = {} THEN 0 ELSE f[Picked(t)] + v[t \ {Picked(t)}]]
<1>2. \A t \in SUBSET s : t # s => Sums(f, G(t), t) /\ IsFiniteSet(t)
  <2>1. \A t \in SUBSET s : t # s => \E g : Sums(f, g, t)
    BY <1>1
  <2> QED BY <2>1, FS_Subset
<1>3. \A t \in SUBSET s : t # s => h[t] = v[t]
  <2> SUFFICES ASSUME NEW t \in SUBSET s, t # s PROVE h[t] = v[t]
    BY Zenon
  <2>0. v[t] = G(t)[t]
    OBVIOUS
  <2>1. Sums(f, G(t), t) /\ IsFiniteSet(t) /\ t \in SUBSET t
    BY <1>2
  <2>2. CASE t = {}
    <3>1. G(t)[t] = 0
      BY <2>1, <2>2, SumsAt
    <3> QED BY <2>0, <2>2, <3>1
  <2>3. CASE t # {}
    <3> DEFINE u == t \ {Picked(t)}
    <3>1. Picked(t) \in t /\ u \in SUBSET t /\ G(t)[t] = f[Picked(t)] + G(t)[u]
      BY <2>1, <2>3, SumsAt
    <3>2. u \in SUBSET s /\ u # s
      BY <3>1
    <3>3. Sums(f, G(u), u) /\ IsFiniteSet(u)
      BY <1>2, <3>2
    <3> HIDE DEF G, u
    <3>4. G(u)[u] = G(t)[u]
      BY <2>1, <3>1, <3>3, SumsUnique
    <3>5. v[u] = G(u)[u]
      BY <3>2
    <3> QED BY <2>0, <2>3, <3>1, <3>4, <3>5 DEF u
  <2> QED BY <2>2, <2>3
<1>4. Sums(f, h, s)
  <2>1. ASSUME NEW t \in SUBSET s, t # {} PROVE v[t \ {Picked(t)}] = h[t \ {Picked(t)}]
    <3>1. t \ {Picked(t)} \in SUBSET s /\ t \ {Picked(t)} # s
      BY <2>1, PickedIn
    <3> HIDE DEF v, h
    <3> QED BY <1>3, <3>1
  <2>2. h = [t \in SUBSET s |-> IF t = {} THEN 0 ELSE f[Picked(t)] + h[t \ {Picked(t)}]]
    <3> DEFINE k == [t \in SUBSET s |-> IF t = {} THEN 0 ELSE f[Picked(t)] + h[t \ {Picked(t)}]]
    <3>1. \A t \in SUBSET s : h[t] = IF t = {} THEN 0 ELSE f[Picked(t)] + v[t \ {Picked(t)}]
      OBVIOUS
    <3>2. \A t \in SUBSET s : k[t] = IF t = {} THEN 0 ELSE f[Picked(t)] + h[t \ {Picked(t)}]
      OBVIOUS
    <3> HIDE DEF v
    <3>3. DOMAIN h = SUBSET s /\ DOMAIN k = SUBSET s
      OBVIOUS
    <3>4. h = [t \in SUBSET s |-> h[t]] /\ k = [t \in SUBSET s |-> k[t]]
      OBVIOUS
    <3> HIDE DEF h, k
    <3>5. \A t \in SUBSET s : h[t] = k[t]
      BY <2>1, <3>1, <3>2
    <3>6. [t \in SUBSET s |-> h[t]] = [t \in SUBSET s |-> k[t]]
      BY <3>5
    <3>7. h = k
      BY <3>4, <3>6
    <3> QED BY <3>7 DEF k
  <2> HIDE DEF h
  <2> QED BY <2>2, Zenon DEF Sums
<1> HIDE DEF h, v
<1> QED BY <1>1, <1>4

\* A table over a finite set shows the sum over each of its subsets.
LEMMA SumTable ==
  ASSUME NEW f, NEW S, IsFiniteSet(S)
  PROVE  \E g : Sums(f, g, S) /\ \A s \in SUBSET S : SumOver(f, s) = g[s]
<1>1. PICK g : Sums(f, g, S)
  BY SumsExist
<1>2. ASSUME NEW s \in SUBSET S PROVE SumOver(f, s) = g[s]
  <2> DEFINE h == CHOOSE k : Sums(f, k, s)
  <2>1. IsFiniteSet(s)
    BY FS_Subset
  <2>2. \E k : Sums(f, k, s)
    BY <2>1, SumsExist
  <2>3. Sums(f, h, s)
    BY <2>2
  <2>4. SumOver(f, s) = h[s]
    BY DEF SumOver
  <2> HIDE DEF h
  <2> QED BY <1>1, <2>3, <2>4, SumsUnique
<1> QED BY <1>1, <1>2

\* A sum: nothing, or the picked value and the rest.
LEMMA SumStep ==
  ASSUME NEW f, NEW S, IsFiniteSet(S)
  PROVE  /\ S = {} => SumOver(f, S) = 0
         /\ S # {} => /\ Picked(S) \in S
                      /\ SumOver(f, S) = f[Picked(S)] + SumOver(f, S \ {Picked(S)})
<1>1. PICK g : Sums(f, g, S) /\ \A s \in SUBSET S : SumOver(f, s) = g[s]
  BY SumTable
<1>2. S \in SUBSET S /\ S \ {Picked(S)} \in SUBSET S
  OBVIOUS
<1>3. SumOver(f, S) = g[S] /\ SumOver(f, S \ {Picked(S)}) = g[S \ {Picked(S)}]
  BY <1>1, <1>2
<1>4. /\ S = {} => g[S] = 0
      /\ S # {} => Picked(S) \in S /\ g[S] = f[Picked(S)] + g[S \ {Picked(S)}]
  <2>1. Sums(f, g, S)
    BY <1>1
  <2>2. S \in SUBSET S
    OBVIOUS
  <2> QED BY ONLY <2>1, <2>2, SumsAt
<1> QED BY ONLY <1>3, <1>4

\* Sums of integers are integers.
LEMMA SumType ==
  ASSUME NEW f, NEW S, IsFiniteSet(S), Numbers(f, S)
  PROVE  SumOver(f, S) \in Int
<1> DEFINE Bad == {s \in SUBSET S : SumOver(f, s) \notin Int}
<1> SUFFICES ASSUME Bad # {} PROVE FALSE
  OBVIOUS
<1>1. PICK s \in Bad : \A t \in SUBSET S : t \subseteq s /\ t # s => t \notin Bad
  <2>1. Bad \in SUBSET (SUBSET S)
    OBVIOUS
  <2> HIDE DEF Bad
  <2> QED BY <2>1, SmallestSet
<1>2. IsFiniteSet(s)
  BY <1>1, FS_Subset
<1>3. s # {}
  <2>1. s = {} => SumOver(f, s) = 0
    BY <1>2, SumStep
  <2> QED BY <1>1, <2>1
<1>4. Picked(s) \in s /\ SumOver(f, s) = f[Picked(s)] + SumOver(f, s \ {Picked(s)})
  BY <1>2, <1>3, SumStep
<1>5. s \ {Picked(s)} \notin Bad /\ s \ {Picked(s)} \in SUBSET S
  BY <1>1, <1>4
<1>6. f[Picked(s)] \in Int
  BY <1>1, <1>4 DEF Numbers
<1> QED BY <1>1, <1>4, <1>5, <1>6

\* A sum does not depend on the order of its summands.
LEMMA SumWith ==
  ASSUME NEW f, NEW S, IsFiniteSet(S), Numbers(f, S), NEW x \in S
  PROVE  SumOver(f, S) = f[x] + SumOver(f, S \ {x})
<1> DEFINE Bad == {s \in SUBSET S : \E y \in s : SumOver(f, s) # f[y] + SumOver(f, s \ {y})}
<1> SUFFICES ASSUME Bad # {} PROVE FALSE
  OBVIOUS
<1>1. PICK s \in Bad : \A t \in SUBSET S : t \subseteq s /\ t # s => t \notin Bad
  <2>1. Bad \in SUBSET (SUBSET S)
    OBVIOUS
  <2> HIDE DEF Bad
  <2> QED BY <2>1, SmallestSet
<1>2. PICK y \in s : SumOver(f, s) # f[y] + SumOver(f, s \ {y})
  BY <1>1
<1> DEFINE p == Picked(s)
           both == s \ {p, y}
<1>3. IsFiniteSet(s)
  BY <1>1, FS_Subset
<1>4. p \in s /\ SumOver(f, s) = f[p] + SumOver(f, s \ {p})
  BY <1>2, <1>3, SumStep
<1> HIDE DEF p
<1>5. p # y
  BY <1>2, <1>4
<1>6. SumOver(f, s \ {p}) = f[y] + SumOver(f, both)
  <2>1. s \ {p} \notin Bad /\ s \ {p} \in SUBSET S /\ y \in s \ {p}
    BY <1>1, <1>4, <1>5
  <2>2. (s \ {p}) \ {y} = both
    OBVIOUS
  <2> QED BY <2>1, <2>2
<1>7. SumOver(f, s \ {y}) = f[p] + SumOver(f, both)
  <2>1. s \ {y} \notin Bad /\ s \ {y} \in SUBSET S /\ p \in s \ {y}
    BY <1>1, <1>2, <1>4, <1>5
  <2>2. (s \ {y}) \ {p} = both
    OBVIOUS
  <2> QED BY <2>1, <2>2
<1>8. f[p] \in Int /\ f[y] \in Int /\ SumOver(f, both) \in Int
  <2>1. both \in SUBSET S /\ IsFiniteSet(both) /\ p \in S /\ y \in S
    BY <1>1, <1>2, <1>3, <1>4, FS_Subset
  <2> HIDE DEF both
  <2>2. Numbers(f, both)
    BY <2>1 DEF Numbers
  <2> QED BY <2>1, <2>2, SumType DEF Numbers
<1> HIDE DEF both
<1> QED BY <1>2, <1>4, <1>6, <1>7, <1>8

\* The sum over a set is the sum over a part and the sum over the rest.
LEMMA SumSplit ==
  ASSUME NEW f, NEW S, IsFiniteSet(S), Numbers(f, S), NEW T \in SUBSET S
  PROVE  SumOver(f, S) = SumOver(f, T) + SumOver(f, S \ T)
<1> DEFINE Bad == {s \in SUBSET S : SumOver(f, S) # SumOver(f, s) + SumOver(f, S \ s)}
<1> SUFFICES ASSUME Bad # {} PROVE FALSE
  OBVIOUS
<1>1. PICK s \in Bad : \A t \in SUBSET S : t \subseteq s /\ t # s => t \notin Bad
  <2>1. Bad \in SUBSET (SUBSET S)
    OBVIOUS
  <2> HIDE DEF Bad
  <2> QED BY <2>1, SmallestSet
<1>2. /\ s \in SUBSET S /\ IsFiniteSet(s) /\ IsFiniteSet(S \ s) /\ SumOver(f, S) \in Int
      /\ SumOver(f, S) # SumOver(f, s) + SumOver(f, S \ s)
  BY <1>1, FS_Subset, SumType
<1>3. s # {}
  <2>1. s = {} => SumOver(f, s) = 0 /\ S \ s = S
    BY <1>2, SumStep
  <2> QED BY <1>2, <2>1
<1> DEFINE p == Picked(s)
           t == s \ {p}
           u == S \ t
<1>4. p \in s /\ SumOver(f, s) = f[p] + SumOver(f, t)
  BY <1>2, <1>3, SumStep
<1> HIDE DEF p
<1>5. /\ t \in SUBSET S /\ t \notin Bad /\ IsFiniteSet(t)
      /\ IsFiniteSet(u) /\ p \in u /\ u \ {p} = S \ s /\ u \in SUBSET S
  BY <1>1, <1>2, <1>4, FS_Subset
<1>6. SumOver(f, S) = SumOver(f, t) + SumOver(f, u)
  BY <1>5
<1> HIDE DEF t, u, Bad
<1>7. Numbers(f, u) /\ Numbers(f, t) /\ Numbers(f, S \ s) /\ f[p] \in Int
  BY <1>2, <1>4, <1>5 DEF Numbers
<1>8. SumOver(f, u) = f[p] + SumOver(f, S \ s)
  BY <1>5, <1>7, SumWith
<1>9. SumOver(f, u) \in Int /\ SumOver(f, t) \in Int /\ SumOver(f, S \ s) \in Int
  BY <1>2, <1>5, <1>7, SumType
<1> QED BY <1>2, <1>4, <1>6, <1>7, <1>8, <1>9

\* The sum of two functions.
LEMMA SumPlus ==
  ASSUME NEW f, NEW g, NEW h, NEW S, IsFiniteSet(S), Numbers(f, S), Numbers(g, S),
         \A x \in S : h[x] = f[x] + g[x]
  PROVE  SumOver(h, S) = SumOver(f, S) + SumOver(g, S)
<1> DEFINE Bad == {s \in SUBSET S : SumOver(h, s) # SumOver(f, s) + SumOver(g, s)}
<1> SUFFICES ASSUME Bad # {} PROVE FALSE
  OBVIOUS
<1>1. PICK s \in Bad : \A t \in SUBSET S : t \subseteq s /\ t # s => t \notin Bad
  <2>1. Bad \in SUBSET (SUBSET S)
    OBVIOUS
  <2> HIDE DEF Bad
  <2> QED BY <2>1, SmallestSet
<1>2. s \in SUBSET S /\ IsFiniteSet(s) /\ SumOver(h, s) # SumOver(f, s) + SumOver(g, s)
  BY <1>1, FS_Subset
<1>3. s # {}
  <2>1. s = {} => SumOver(h, s) = 0 /\ SumOver(f, s) = 0 /\ SumOver(g, s) = 0
    BY <1>2, SumStep
  <2> QED BY <1>2, <2>1
<1> DEFINE p == Picked(s)
           t == s \ {p}
<1>4. /\ p \in s /\ SumOver(f, s) = f[p] + SumOver(f, t) /\ SumOver(g, s) = g[p] + SumOver(g, t)
      /\ SumOver(h, s) = h[p] + SumOver(h, t)
  BY <1>2, <1>3, SumStep
<1> HIDE DEF p
<1>5. t \in SUBSET S /\ t \notin Bad /\ IsFiniteSet(t)
  BY <1>1, <1>2, <1>4, FS_Subset
<1>6. SumOver(h, t) = SumOver(f, t) + SumOver(g, t)
  BY <1>5
<1> HIDE DEF t, Bad
<1>7. Numbers(f, t) /\ Numbers(g, t) /\ f[p] \in Int /\ g[p] \in Int /\ h[p] = f[p] + g[p]
  BY <1>2, <1>4, <1>5 DEF Numbers
<1>8. SumOver(f, t) \in Int /\ SumOver(g, t) \in Int
  BY <1>5, <1>7, SumType
<1> QED BY <1>2, <1>4, <1>6, <1>7, <1>8

\* A sum of n numbers up to v is at most n times v.
LEMMA SumAtMost ==
  ASSUME NEW f, NEW S, IsFiniteSet(S), Numbers(f, S), NEW v \in Int,
         \A x \in S : f[x] <= v
  PROVE  Cardinality(S) \in Nat /\ SumOver(f, S) <= Cardinality(S) * v
<1> DEFINE Bad == {s \in SUBSET S : ~ (SumOver(f, s) <= Cardinality(s) * v)}
<1>0. Cardinality(S) \in Nat
  BY FS_CardinalityType
<1> SUFFICES ASSUME Bad # {} PROVE FALSE
  BY <1>0
<1>1. PICK s \in Bad : \A t \in SUBSET S : t \subseteq s /\ t # s => t \notin Bad
  <2>1. Bad \in SUBSET (SUBSET S)
    OBVIOUS
  <2> HIDE DEF Bad
  <2> QED BY <2>1, SmallestSet
<1>2. s \in SUBSET S /\ IsFiniteSet(s) /\ ~ (SumOver(f, s) <= Cardinality(s) * v)
  BY <1>1, FS_Subset
<1>3. s # {}
  <2>1. s = {} => SumOver(f, s) = 0 /\ Cardinality(s) = 0
    BY <1>2, SumStep, FS_EmptySet
  <2> QED BY <1>2, <2>1
<1> DEFINE p == Picked(s)
           t == s \ {p}
<1>4. p \in s /\ SumOver(f, s) = f[p] + SumOver(f, t)
  BY <1>2, <1>3, SumStep
<1> HIDE DEF p
<1>5. t \in SUBSET S /\ t \notin Bad /\ IsFiniteSet(t)
  BY <1>1, <1>2, <1>4, FS_Subset
<1>6. SumOver(f, t) <= Cardinality(t) * v
  BY <1>5
<1>7. Cardinality(t) = Cardinality(s) - 1 /\ Cardinality(s) \in Nat /\ Cardinality(t) \in Nat
  BY <1>2, <1>4, <1>5, FS_RemoveElement, FS_CardinalityType
<1> HIDE DEF t, Bad
<1>8. Numbers(f, t) /\ f[p] \in Int /\ f[p] <= v
  BY <1>2, <1>4, <1>5 DEF Numbers
<1>9. SumOver(f, t) \in Int
  BY <1>5, <1>8, SumType
<1>10. Cardinality(s) * v = Cardinality(t) * v + v /\ Cardinality(t) * v \in Int
  BY <1>7
<1> QED BY <1>2, <1>4, <1>6, <1>8, <1>9, <1>10

\* A sum of natural numbers is one, and its parts are at most the whole.
LEMMA SumOfNaturals ==
  ASSUME NEW f, NEW S, IsFiniteSet(S), \A x \in S : f[x] \in Nat, NEW T \in SUBSET S
  PROVE  SumOver(f, T) \in Nat /\ SumOver(f, S) \in Nat /\ SumOver(f, T) <= SumOver(f, S)
<1> DEFINE Bad == {s \in SUBSET S : SumOver(f, s) \notin Nat}
<1>1. Bad = {}
  <2> SUFFICES ASSUME Bad # {} PROVE FALSE
    OBVIOUS
  <2>1. PICK s \in Bad : \A t \in SUBSET S : t \subseteq s /\ t # s => t \notin Bad
    <3>1. Bad \in SUBSET (SUBSET S)
      OBVIOUS
    <3> HIDE DEF Bad
    <3> QED BY <3>1, SmallestSet
  <2>2. IsFiniteSet(s)
    BY <2>1, FS_Subset
  <2>3. s # {}
    <3>1. s = {} => SumOver(f, s) = 0
      BY <2>2, SumStep
    <3> QED BY <2>1, <3>1
  <2>4. Picked(s) \in s /\ SumOver(f, s) = f[Picked(s)] + SumOver(f, s \ {Picked(s)})
    BY <2>2, <2>3, SumStep
  <2>5. s \ {Picked(s)} \notin Bad /\ s \ {Picked(s)} \in SUBSET S /\ f[Picked(s)] \in Nat
    BY <2>1, <2>4
  <2> QED BY <2>1, <2>4, <2>5
<1>2. SumOver(f, T) \in Nat /\ SumOver(f, S) \in Nat /\ SumOver(f, S \ T) \in Nat
  BY <1>1
<1>3. SumOver(f, S) = SumOver(f, T) + SumOver(f, S \ T)
  <2>1. Numbers(f, S)
    BY DEF Numbers
  <2> HIDE DEF Bad
  <2> QED BY <2>1, SumSplit
<1> QED BY <1>2, <1>3

\* Functions that agree on a set have the same sum over it.
LEMMA SumSame ==
  ASSUME NEW f, NEW g, NEW S, IsFiniteSet(S), \A x \in S : f[x] = g[x]
  PROVE  SumOver(f, S) = SumOver(g, S)
<1> DEFINE Bad == {s \in SUBSET S : SumOver(f, s) # SumOver(g, s)}
<1> SUFFICES ASSUME Bad # {} PROVE FALSE
  OBVIOUS
<1>1. PICK s \in Bad : \A t \in SUBSET S : t \subseteq s /\ t # s => t \notin Bad
  <2>1. Bad \in SUBSET (SUBSET S)
    OBVIOUS
  <2> HIDE DEF Bad
  <2> QED BY <2>1, SmallestSet
<1>2. IsFiniteSet(s)
  BY <1>1, FS_Subset
<1>3. s # {}
  <2>1. s = {} => SumOver(f, s) = 0 /\ SumOver(g, s) = 0
    BY <1>2, SumStep
  <2> QED BY <1>1, <2>1
<1>4. /\ Picked(s) \in s /\ SumOver(f, s) = f[Picked(s)] + SumOver(f, s \ {Picked(s)})
      /\ SumOver(g, s) = g[Picked(s)] + SumOver(g, s \ {Picked(s)})
  BY <1>2, <1>3, SumStep
<1>5. s \ {Picked(s)} \notin Bad /\ s \ {Picked(s)} \in SUBSET S /\ f[Picked(s)] = g[Picked(s)]
  BY <1>1, <1>4
<1> QED BY <1>1, <1>4, <1>5

\* How far k of n hosts may together be in credit or in debt, when a rotation
\* moves a total of at most t.
Allowed(t, n, k) == t * (k * (2 * n - k))

\* Multiplying by a number keeps the order.
LEMMA TimesMono ==
  ASSUME NEW k \in Nat, NEW a \in Int, NEW b \in Int, a <= b
  PROVE  k * a <= k * b
OBVIOUS

\* Hosts that were not chosen have at most the chosen one's raised current each
\* (a <= k * r); together with it they were within their allowance.  So they
\* are within theirs, however high r is.
LEMMA RiseBounded ==
  ASSUME NEW n \in Nat, NEW k \in Nat, NEW t \in Nat, NEW a \in Int, NEW r \in Int,
         a <= k * r, a + r <= Allowed(t, n, k + 1) + t
  PROVE  a <= Allowed(t, n, k)
<1> DEFINE q == 2 * n - k
<1>1. q \in Int /\ t * q \in Int /\ k * (t * q) \in Int /\ Allowed(t, n, k) = k * (t * q)
  BY DEF Allowed
<1>2. Allowed(t, n, k + 1) + t = k * (t * q) + t * q - t * k
  BY DEF Allowed
<1> HIDE DEF q
<1>3. t * k \in Nat
  OBVIOUS
<1>4. CASE r <= t * q
  <2>1. k * r <= k * (t * q)
    BY <1>1, <1>4, TimesMono
  <2>2. k * r \in Int
    OBVIOUS
  <2> QED BY <1>1, <2>1, <2>2
<1>5. CASE t * q < r
  BY <1>1, <1>2, <1>3, <1>5
<1> QED BY <1>1, <1>4, <1>5

\* If the chosen host and others fell below their allowance, r would be so low
\* that the rest, at most r each, could not make up for them.
LEMMA FallBounded ==
  ASSUME NEW n \in Nat, NEW k \in Nat, NEW j \in Nat, NEW t \in Nat, NEW p \in Int, NEW r \in Int,
         NEW u \in Nat, u <= t, k >= 1, k + j <= n,
         p >= - Allowed(t, n, k - 1), p + r + j * r >= u - Allowed(t, n, k + j)
  PROVE  p + r - u >= - Allowed(t, n, k)
<1> DEFINE q == n - k
           s == -(2 * (t * q))
<1>1. q \in Nat /\ s \in Int /\ t * q \in Nat
  OBVIOUS
<1>2. Allowed(t, n, k) - Allowed(t, n, k - 1) = 2 * (t * q) + t
  BY DEF Allowed
<1>3. Allowed(t, n, k + j) - Allowed(t, n, k) = j * (2 * (t * q)) - t * (j * j)
  BY DEF Allowed
<1>4. /\ Allowed(t, n, k) \in Int /\ Allowed(t, n, k + j) \in Int /\ Allowed(t, n, k - 1) \in Int
      /\ t * (j * j) \in Nat /\ j * s = - (j * (2 * (t * q))) /\ j * s \in Int /\ j * r \in Int
      /\ j * (2 * (t * q)) \in Int
  BY DEF Allowed
<1> SUFFICES ASSUME p + r - u < - Allowed(t, n, k) PROVE FALSE
  BY <1>4
<1>5. r <= s
  BY <1>1, <1>2, <1>4
<1>6. j * r <= j * s
  BY <1>1, <1>5, TimesMono
<1> HIDE DEF q, s
<1> QED BY <1>1, <1>2, <1>3, <1>4, <1>6

\* The allowance grows with the number of hosts, up to all of them.
LEMMA AllowedGrows ==
  ASSUME NEW n \in Nat, NEW k \in Nat, NEW t \in Nat, k + 1 <= n
  PROVE  0 <= Allowed(t, n, k) /\ Allowed(t, n, k) <= Allowed(t, n, k + 1)
<1> DEFINE q == n - k - 1
<1>1. q \in Nat /\ t * q \in Nat /\ k * (2 * n - k) \in Nat
  OBVIOUS
<1>2. Allowed(t, n, k + 1) = Allowed(t, n, k) + 2 * (t * q) + t
  BY DEF Allowed
<1>3. Allowed(t, n, k) \in Nat
  BY <1>1 DEF Allowed
<1> HIDE DEF q
<1> QED BY <1>1, <1>2, <1>3

\* Every set of eligible hosts is within its allowance.
Balanced(E, c, n, t) ==
  \A S \in SUBSET E : /\ SumOver(c, S) <= Allowed(t, n, Cardinality(S))
                      /\ - Allowed(t, n, Cardinality(S)) <= SumOver(c, S)

\* A rotation: d is c after every host of E was raised by its weight b and h,
\* the highest of them, was lowered by the total.
Turn(E, c, b, h, d) ==
  /\ h \in E
  /\ \A x \in E : /\ c[x] \in Int /\ b[x] \in Nat /\ c[x] + b[x] <= c[h] + b[h]
                  /\ d[x] = c[x] + b[x] - (IF x = h THEN SumOver(b, E) ELSE 0)

\* What a rotation does to the sum over a set of hosts.
LEMMA TurnSums ==
  ASSUME NEW E, IsFiniteSet(E), NEW c, NEW b, NEW h, NEW d, Turn(E, c, b, h, d),
         NEW S \in SUBSET E
  PROVE  /\ SumOver(b, E) \in Nat /\ SumOver(b, S) \in Nat /\ SumOver(b, S) <= SumOver(b, E)
         /\ SumOver(c, S) \in Int /\ SumOver(d, S) \in Int
         /\ SumOver(d, S) = SumOver(c, S) + SumOver(b, S) - (IF h \in S THEN SumOver(b, E) ELSE 0)
<1>1. \A x \in E : b[x] \in Nat /\ c[x] \in Int
  BY DEF Turn
<1>2. SumOver(b, E) \in Nat /\ SumOver(b, S) \in Nat /\ SumOver(b, S) <= SumOver(b, E)
  BY <1>1, SumOfNaturals
<1>3. IsFiniteSet(S) /\ Numbers(c, S) /\ Numbers(b, S) /\ h \in E
  BY <1>1, FS_Subset DEF Numbers, Turn
<1>4. SumOver(c, S) \in Int
  BY <1>3, SumType
<1> DEFINE r == [x \in E |-> c[x] + b[x]]
<1>5. SumOver(r, S) = SumOver(c, S) + SumOver(b, S)
  <2>1. \A x \in S : r[x] = c[x] + b[x]
    OBVIOUS
  <2> HIDE DEF r
  <2> QED BY <1>3, <2>1, SumPlus
<1>6. \A x \in E : /\ r[x] \in Int /\ d[x] \in Int
                   /\ d[x] = r[x] - (IF x = h THEN SumOver(b, E) ELSE 0)
  BY <1>1, <1>2 DEF Turn
<1> HIDE DEF r
<1>7. CASE h \notin S
  <2>1. \A x \in S : d[x] = r[x]
    BY <1>6, <1>7
  <2>2. SumOver(d, S) = SumOver(r, S)
    BY <1>3, <2>1, SumSame
  <2> QED BY <1>2, <1>4, <1>5, <1>7, <2>2
<1>8. CASE h \in S
  <2>1. Numbers(d, S) /\ Numbers(r, S) /\ IsFiniteSet(S \ {h}) /\ Numbers(r, S \ {h})
    BY <1>3, <1>6, FS_Subset DEF Numbers
  <2>2. \A x \in S \ {h} : d[x] = r[x]
    BY <1>6
  <2>3. SumOver(d, S \ {h}) = SumOver(r, S \ {h})
    BY <2>1, <2>2, SumSame
  <2>4. SumOver(d, S) = d[h] + SumOver(d, S \ {h}) /\ SumOver(r, S) = r[h] + SumOver(r, S \ {h})
    BY <1>3, <1>8, <2>1, SumWith
  <2>5. d[h] = r[h] - SumOver(b, E) /\ r[h] \in Int /\ SumOver(r, S \ {h}) \in Int
    BY <1>3, <1>6, <2>1, SumType
  <2> QED BY <1>2, <1>4, <1>5, <1>8, <2>3, <2>4, <2>5
<1> QED BY <1>2, <1>4, <1>7, <1>8

\* A rotation lifts no set of hosts above its allowance.
LEMMA TurnFromAbove ==
  ASSUME NEW E, IsFiniteSet(E), NEW n \in Nat, Cardinality(E) <= n, NEW t \in Nat,
         NEW c, NEW b, NEW h, NEW d, Turn(E, c, b, h, d), SumOver(b, E) <= t,
         Balanced(E, c, n, t), NEW S \in SUBSET E
  PROVE  SumOver(d, S) <= Allowed(t, n, Cardinality(S))
<1>1. /\ SumOver(b, E) \in Nat /\ SumOver(b, S) \in Nat /\ SumOver(b, S) <= SumOver(b, E)
      /\ SumOver(c, S) \in Int /\ SumOver(d, S) \in Int
      /\ SumOver(d, S) = SumOver(c, S) + SumOver(b, S) - (IF h \in S THEN SumOver(b, E) ELSE 0)
  BY TurnSums
<1>2. IsFiniteSet(S) /\ Cardinality(S) \in Nat /\ h \in E
  BY FS_Subset, FS_CardinalityType DEF Turn
<1>3. CASE h \in S
  <2>1. SumOver(c, S) <= Allowed(t, n, Cardinality(S)) /\ Allowed(t, n, Cardinality(S)) \in Int
    BY <1>2 DEF Balanced, Allowed
  <2> QED BY <1>1, <1>3, <2>1
<1>4. CASE h \notin S
  <2> DEFINE U == S \cup {h}
             k == Cardinality(S)
             r == c[h] + b[h]
  <2>1. U \in SUBSET E /\ IsFiniteSet(U) /\ Cardinality(U) = k + 1 /\ U \ {h} = S
    BY <1>2, <1>4, FS_AddElement, FS_Subset
  <2>2. k + 1 <= n
    <3>1. Cardinality(U) <= Cardinality(E) /\ Cardinality(E) \in Nat
      BY <2>1, FS_Subset, FS_CardinalityType
    <3> QED BY <1>2, <2>1, <3>1
  <2>3. r \in Int /\ d[h] = r - SumOver(b, E) /\ \A x \in E : d[x] \in Int /\ (x # h => d[x] <= r)
    <3>1. \A x \in E : c[x] \in Int /\ b[x] \in Nat /\ c[x] + b[x] <= r
                       /\ d[x] = c[x] + b[x] - (IF x = h THEN SumOver(b, E) ELSE 0)
      BY DEF Turn
    <3> HIDE DEF U, k
    <3> QED BY <1>1, <1>2, <3>1
  <2> HIDE DEF r
  <2>4. SumOver(d, S) <= k * r
    <3>1. Numbers(d, S) /\ \A x \in S : d[x] <= r
      BY <1>4, <2>3 DEF Numbers
    <3> QED BY <1>2, <2>3, <3>1, SumAtMost
  <2>5. /\ SumOver(d, U) = SumOver(c, U) + SumOver(b, U) - SumOver(b, E) /\ SumOver(c, U) \in Int
        /\ SumOver(b, U) \in Nat /\ SumOver(b, U) <= SumOver(b, E)
    <3>1. h \in U
      OBVIOUS
    <3> HIDE DEF U
    <3> QED BY <2>1, <3>1, TurnSums
  <2>6. SumOver(d, U) = d[h] + SumOver(d, S)
    <3>1. Numbers(d, U) /\ h \in U
      BY <2>1, <2>3 DEF Numbers
    <3> HIDE DEF U
    <3> QED BY <2>1, <3>1, SumWith
  <2>7. d[h] = r - SumOver(b, E)
    BY <2>3
  <2>8. SumOver(c, U) <= Allowed(t, n, k + 1)
    BY <2>1 DEF Balanced
  <2> HIDE DEF U, k
  <2>9. k \in Nat /\ Allowed(t, n, k + 1) \in Int
    BY <1>2 DEF k, Allowed
  <2>10. SumOver(d, S) + r <= Allowed(t, n, k + 1) + t
    BY <1>1, <2>3, <2>5, <2>6, <2>7, <2>8, <2>9
  <2>11. SumOver(d, S) <= Allowed(t, n, k)
    BY <1>1, <2>3, <2>4, <2>9, <2>10, RiseBounded
  <2> QED BY <2>11 DEF k
<1> QED BY <1>3, <1>4

\* A rotation pushes no set of hosts below its allowance.
LEMMA TurnFromBelow ==
  ASSUME NEW E, IsFiniteSet(E), NEW n \in Nat, Cardinality(E) <= n, NEW t \in Nat,
         NEW c, NEW b, NEW h, NEW d, Turn(E, c, b, h, d), SumOver(b, E) <= t,
         Balanced(E, c, n, t), NEW S \in SUBSET E
  PROVE  - Allowed(t, n, Cardinality(S)) <= SumOver(d, S)
<1> DEFINE u == SumOver(b, E)
<1>1. /\ u \in Nat /\ SumOver(b, S) \in Nat
      /\ SumOver(c, S) \in Int /\ SumOver(d, S) \in Int
      /\ SumOver(d, S) = SumOver(c, S) + SumOver(b, S) - (IF h \in S THEN u ELSE 0)
  BY TurnSums
<1>2. IsFiniteSet(S) /\ Cardinality(S) \in Nat /\ h \in E
  BY FS_Subset, FS_CardinalityType DEF Turn
<1>3. CASE h \notin S
  <2>1. - Allowed(t, n, Cardinality(S)) <= SumOver(c, S) /\ Allowed(t, n, Cardinality(S)) \in Int
    BY <1>2 DEF Balanced, Allowed
  <2> QED BY <1>1, <1>3, <2>1
<1>4. CASE h \in S
  <2> DEFINE A == S \ {h}
             X == E \ S
             j == Cardinality(X)
             k == Cardinality(S)
             p == SumOver(c, A) + SumOver(b, A)
             r == c[h] + b[h]
  <2>1. /\ A \in SUBSET E /\ IsFiniteSet(A) /\ h \notin A /\ Cardinality(A) = k - 1
        /\ X \in SUBSET E /\ IsFiniteSet(X) /\ h \notin X /\ j \in Nat /\ X = E \ S
    BY <1>2, <1>4, FS_RemoveElement, FS_Subset, FS_CardinalityType
  <2>2. k >= 1 /\ k + j <= n /\ Cardinality(E) = k + j
    <3>1. Cardinality(A) \in Nat
      BY <2>1, FS_CardinalityType
    <3>2. Cardinality(E) = k + j
      <4>1. E \cap S = S
        OBVIOUS
      <4>2. Cardinality(E \ S) = Cardinality(E) - Cardinality(E \cap S)
        BY FS_Difference
      <4>3. j = Cardinality(E) - k
        BY <4>1, <4>2
      <4>4. Cardinality(E) \in Nat
        BY FS_CardinalityType
      <4> HIDE DEF j, k
      <4>5. k \in Nat
        BY <1>2 DEF k
      <4> QED BY <4>3, <4>4, <4>5
    <3> QED BY <1>2, <2>1, <3>1, <3>2
  <2>3. \A x \in E : c[x] \in Int /\ b[x] \in Nat /\ c[x] + b[x] <= r
                     /\ d[x] = c[x] + b[x] - (IF x = h THEN u ELSE 0)
    BY DEF Turn
  <2> HIDE DEF A, X, u
  <2>4. r \in Int /\ d[h] = r - u /\ \A x \in E : d[x] \in Int /\ (x # h => d[x] <= r)
    BY <1>1, <1>2, <2>3
  <2> HIDE DEF r
  <2>5. /\ SumOver(d, A) = p /\ SumOver(c, A) \in Int /\ SumOver(b, A) \in Nat /\ p \in Int
        /\ - Allowed(t, n, k - 1) <= SumOver(c, A)
    <3>1. /\ SumOver(b, A) \in Nat /\ SumOver(c, A) \in Int
          /\ SumOver(d, A) = SumOver(c, A) + SumOver(b, A) - (IF h \in A THEN SumOver(b, E) ELSE 0)
      BY <2>1, TurnSums
    <3>2. - Allowed(t, n, k - 1) <= SumOver(c, A)
      BY <2>1 DEF Balanced
    <3> QED BY <2>1, <3>1, <3>2
  <2>6. SumOver(d, S) = d[h] + p
    <3>1. Numbers(d, S)
      BY <2>4 DEF Numbers
    <3>2. SumOver(d, S) = d[h] + SumOver(d, S \ {h})
      BY <1>2, <1>4, <3>1, SumWith
    <3> QED BY <2>5, <3>2 DEF A
  <2>7. SumOver(d, X) <= j * r /\ SumOver(d, X) \in Int
    <3>1. Numbers(d, X) /\ \A x \in X : d[x] <= r
      BY <2>1, <2>4 DEF Numbers
    <3> QED BY <2>1, <2>4, <3>1, SumAtMost, SumType
  <2>8. SumOver(d, E) = SumOver(d, S) + SumOver(d, X)
    <3>1. Numbers(d, E)
      BY <2>4 DEF Numbers
    <3> QED BY <3>1, SumSplit DEF X
  <2>9. /\ SumOver(d, E) = SumOver(c, E) /\ SumOver(c, E) \in Int
        /\ - Allowed(t, n, k + j) <= SumOver(c, E)
    <3>1. E \in SUBSET E
      OBVIOUS
    <3>2. /\ SumOver(c, E) \in Int /\ SumOver(b, E) \in Nat
          /\ SumOver(d, E) = SumOver(c, E) + SumOver(b, E) - (IF h \in E THEN SumOver(b, E) ELSE 0)
      BY <3>1, TurnSums
    <3>3. - Allowed(t, n, Cardinality(E)) <= SumOver(c, E)
      BY <3>1 DEF Balanced
    <3> QED BY <1>2, <2>2, <3>2, <3>3
  <2> HIDE DEF p, j, k
  <2>10. k \in Nat /\ j \in Nat /\ Allowed(t, n, k + j) \in Int /\ Allowed(t, n, k - 1) \in Int
         /\ j * r \in Int /\ u <= t
    BY <1>2, <2>1, <2>4 DEF k, Allowed, u
  <2>11. p >= - Allowed(t, n, k - 1)
    BY <2>5, <2>10 DEF p
  <2>12. p + r + j * r >= u - Allowed(t, n, k + j)
    BY <1>1, <2>4, <2>5, <2>6, <2>7, <2>8, <2>9, <2>10
  <2>13. p + r - u >= - Allowed(t, n, k)
    BY <1>1, <2>2, <2>4, <2>5, <2>10, <2>11, <2>12, FallBounded
  <2>14. Allowed(t, n, k) \in Int
    BY <2>10 DEF Allowed
  <2> QED BY <1>1, <2>4, <2>5, <2>6, <2>13, <2>14 DEF k
<1> QED BY <1>3, <1>4

\* A rotation keeps the balance.
LEMMA TurnBalanced ==
  ASSUME NEW E, IsFiniteSet(E), NEW n \in Nat, Cardinality(E) <= n, NEW t \in Nat,
         NEW c, NEW b, NEW h, NEW d, Turn(E, c, b, h, d), SumOver(b, E) <= t,
         Balanced(E, c, n, t)
  PROVE  Balanced(E, d, n, t)
<1>1. ASSUME NEW S \in SUBSET E PROVE SumOver(d, S) <= Allowed(t, n, Cardinality(S))
  BY TurnFromAbove
<1>2. ASSUME NEW S \in SUBSET E PROVE - Allowed(t, n, Cardinality(S)) <= SumOver(d, S)
  BY TurnFromBelow
<1> QED BY <1>1, <1>2 DEF Balanced

\* The hosts of F with currents d are some of E with theirs, c, and maybe h with 0.
Regroup(E, c, F, d, h) ==
  /\ Numbers(d, F)
  /\ \A x \in F : (x \in E /\ d[x] = c[x]) \/ (x = h /\ d[x] = 0)

\* Balance survives that hosts leave and that one enters with current 0.
LEMMA BalancedAfterwards ==
  ASSUME NEW E, NEW F, IsFiniteSet(F), NEW n \in Nat, Cardinality(F) <= n, NEW t \in Nat,
         NEW c, NEW d, NEW h, Regroup(E, c, F, d, h), Balanced(E, c, n, t)
  PROVE  Balanced(F, d, n, t)
<1> SUFFICES ASSUME NEW S \in SUBSET F
             PROVE  /\ SumOver(d, S) <= Allowed(t, n, Cardinality(S))
                    /\ - Allowed(t, n, Cardinality(S)) <= SumOver(d, S)
  BY DEF Balanced
<1>0. \A x \in F : (x \in E /\ d[x] = c[x]) \/ (x = h /\ d[x] = 0)
  BY DEF Regroup
<1>1. IsFiniteSet(S) /\ Numbers(d, S)
  BY FS_Subset DEF Numbers, Regroup
<1>2. CASE \A x \in S : x \in E /\ d[x] = c[x]
  <2>1. SumOver(d, S) = SumOver(c, S) /\ S \in SUBSET E
    BY <1>1, <1>2, SumSame
  <2> QED BY <2>1 DEF Balanced
<1>3. CASE h \in S /\ d[h] = 0
  <2> DEFINE A == S \ {h}
             k == Cardinality(A)
  <2>1. A \in SUBSET E /\ \A x \in A : d[x] = c[x]
    BY <1>0
  <2>2. /\ Cardinality(S) \in Nat /\ k \in Nat /\ Cardinality(S) = k + 1 /\ IsFiniteSet(A)
        /\ Cardinality(S) <= n
    <3>1. Cardinality(S) <= Cardinality(F) /\ Cardinality(F) \in Nat
      BY FS_Subset, FS_CardinalityType
    <3>2. IsFiniteSet(A) /\ Cardinality(A) = Cardinality(S) - 1 /\ Cardinality(S) \in Nat
          /\ Cardinality(A) \in Nat
      BY <1>1, <1>3, FS_RemoveElement, FS_Subset, FS_CardinalityType
    <3> QED BY <3>1, <3>2
  <2>3. Numbers(d, A)
    BY <1>1 DEF Numbers
  <2> HIDE DEF A
  <2>4. SumOver(d, A) = SumOver(c, A) /\ SumOver(d, A) \in Int
    BY <2>1, <2>2, <2>3, SumSame, SumType
  <2>5. SumOver(d, S) = d[h] + SumOver(d, A)
    BY <1>1, <1>3, SumWith DEF A
  <2>6. SumOver(c, A) <= Allowed(t, n, k) /\ - Allowed(t, n, k) <= SumOver(c, A)
    BY <2>1 DEF Balanced
  <2> HIDE DEF k
  <2>7. 0 <= Allowed(t, n, k) /\ Allowed(t, n, k) <= Allowed(t, n, k + 1)
    BY <2>2, AllowedGrows
  <2>8. Allowed(t, n, k) \in Int /\ Allowed(t, n, k + 1) \in Int
    BY <2>2 DEF Allowed
  <2> QED BY <1>3, <2>2, <2>4, <2>5, <2>6, <2>7, <2>8
<1> QED BY <1>0, <1>2, <1>3

\* In balance, each host is within the allowance of one.
LEMMA BalancedEach ==
  ASSUME NEW E, NEW n \in Nat, NEW t \in Nat, NEW c, Numbers(c, E), Balanced(E, c, n, t),
         NEW h \in E
  PROVE  /\ c[h] <= Allowed(t, n, 1) /\ - Allowed(t, n, 1) <= c[h]
         /\ Allowed(t, n, 1) \in Int
<1>1. IsFiniteSet({h}) /\ Cardinality({h}) = 1 /\ {h} \in SUBSET E
  BY FS_Singleton
<1>2. Numbers(c, {h}) /\ c[h] \in Int
  BY DEF Numbers
<1>3. SumOver(c, {h}) = c[h] + SumOver(c, {h} \ {h})
  BY <1>1, <1>2, SumWith
<1>4. SumOver(c, {}) = 0 /\ {h} \ {h} = {}
  BY SumStep, FS_EmptySet
<1>5. SumOver(c, {h}) = c[h]
  BY <1>2, <1>3, <1>4
<1>6. SumOver(c, {h}) <= Allowed(t, n, 1) /\ - Allowed(t, n, 1) <= SumOver(c, {h})
  BY <1>1 DEF Balanced
<1> QED BY <1>5, <1>6 DEF Allowed

-----------------------------------------------------------------------------
(* No host waits for ever.                                                 *)

Weights == [h \in Known |-> Base(h)]
Currents == [h \in Known |-> state[h].current]

\* The fold of Total, as a table of its values for sets of hosts.
BaseSums(g, S) ==
  g = [s \in SUBSET S |-> IF s = {} THEN 0
                          ELSE LET x == Picked(s) IN Base(x) + g[s \ {x}]]

\* What MapThenSumSet means: the table, read at the eligible hosts.
LEMMA TotalIsChosen == Total = (CHOOSE g : BaseSums(g, Eligible))[Eligible]
BY DEF Total, MapThenSumSet, MapThenFoldSet, BaseSums, Picked

\* The total is the sum of the eligible hosts' weights.
LEMMA TotalIsSum ==
  ASSUME IsFiniteSet(Known)
  PROVE  Total = SumOver(Weights, Eligible)
<1>1. IsFiniteSet(Eligible) /\ Eligible \subseteq Known
  BY FS_Subset DEF Eligible
<1>2. ASSUME NEW g PROVE BaseSums(g, Eligible) <=> Sums(Weights, g, Eligible)
  <2>1. ASSUME NEW s \in SUBSET Eligible, s # {}
        PROVE  Base(Picked(s)) = Weights[Picked(s)]
    <3>1. Picked(s) \in Known
      BY <1>1, <2>1, PickedIn
    <3> QED BY <3>1 DEF Weights
  <2> DEFINE p == [s \in SUBSET Eligible |-> IF s = {} THEN 0
                     ELSE Base(Picked(s)) + g[s \ {Picked(s)}]]
             q == [s \in SUBSET Eligible |-> IF s = {} THEN 0
                     ELSE Weights[Picked(s)] + g[s \ {Picked(s)}]]
  <2>2. p = q
    BY <2>1
  <2>3. BaseSums(g, Eligible) <=> g = p
    BY Zenon DEF BaseSums
  <2>4. Sums(Weights, g, Eligible) <=> g = q
    BY Zenon DEF Sums
  <2> HIDE DEF p, q
  <2> QED BY <2>2, <2>3, <2>4
<1>3. PICK g : /\ Sums(Weights, g, Eligible)
               /\ \A s \in SUBSET Eligible : SumOver(Weights, s) = g[s]
  BY <1>1, SumTable
<1> DEFINE c == CHOOSE k : BaseSums(k, Eligible)
<1>4. BaseSums(c, Eligible)
  <2>1. \E k : BaseSums(k, Eligible)
    BY <1>2, <1>3
  <2> QED BY <2>1
<1>5. Sums(Weights, c, Eligible)
  BY <1>2, <1>4
<1>6. Total = c[Eligible]
  BY TotalIsChosen
<1> HIDE DEF c
<1>7. Eligible \in SUBSET Eligible
  OBVIOUS
<1>8. c[Eligible] = g[Eligible]
  BY <1>1, <1>3, <1>5, <1>7, SumsUnique
<1> QED BY <1>3, <1>6, <1>7, <1>8

\* The most that all hosts' weights can sum up to, when no score is above m.
Most(m) == Cardinality(Host) * m
Allowance(m) == Allowed(Most(m), Cardinality(Host), 1)

\* Every set of hosts with a weight is in balance, and a host is passed over
\* only while it gains: it has waited no longer than its credit shows.
BalanceInv(m) ==
  /\ \A h \in Known : state[h].current \in Int /\ (score[h] = 0 => wait[h] = 0)
  /\ Balanced(Eligible, Currents, Cardinality(Host), Most(m))
  /\ \A h \in Eligible : wait[h] <= state[h].current + Allowance(m)

\* A host has a share exactly when it has a score.
LEMMA EligibleScores ==
  ASSUME SchedulerInv
  PROVE  /\ Eligible = {h \in Known : score[h] > 0}
         /\ \A h \in Known : Base(h) \in Nat /\ (h \in Eligible => Base(h) >= 1)
<1>1. \A h \in Known : Base(h) \in Nat /\ (Base(h) = 0 <=> score[h] = 0) /\ score[h] \in Nat
  BY DEF SchedulerInv, StatesMatchScores, Base
<1> QED BY <1>1 DEF Eligible

\* The weights' total is within the most.
LEMMA TotalAtMost ==
  ASSUME IsFiniteSet(Host), NEW m \in Nat, \A w \in Score : w <= m,
         MapsOK, WeightsOK, SchedulerInv
  PROVE  /\ IsFiniteSet(Eligible) /\ Cardinality(Eligible) <= Cardinality(Host)
         /\ Cardinality(Host) \in Nat /\ Most(m) \in Nat
         /\ Total = SumOver(Weights, Eligible) /\ SumOver(Weights, Eligible) <= Most(m)
<1>1. Known \subseteq Host /\ Eligible \subseteq Known
  BY DEF MapsOK, Eligible
<1>2. IsFiniteSet(Known) /\ IsFiniteSet(Eligible)
  BY <1>1, FS_Subset
<1>3. /\ Cardinality(Eligible) <= Cardinality(Host)
      /\ Cardinality(Host) \in Nat /\ Cardinality(Eligible) \in Nat
  BY <1>1, <1>2, FS_Subset, FS_CardinalityType
<1>4. \A h \in Known : Base(h) \in Nat /\ Base(h) <= m
  <2> SUFFICES ASSUME NEW h \in Known PROVE Base(h) \in Nat /\ Base(h) <= m
    OBVIOUS
  <2>1. score[h] \in Score /\ score[h] \in Nat /\ h \in DOMAIN state
    BY DEF MapsOK, SchedulerInv, StatesMatchScores
  <2>2. PICK w \in Score : state[h].base \in Nat /\ state[h].base <= w
    BY <2>1 DEF WeightsOK, Bounded
  <2>3. w \in Nat /\ w <= m /\ score[h] <= m
    BY <2>1, SchedulerAssumption
  <2> QED BY <2>1, <2>2, <2>3 DEF Base
<1>5. Numbers(Weights, Eligible) /\ \A h \in Eligible : Weights[h] <= m
  BY <1>1, <1>4 DEF Weights, Numbers
<1>6. SumOver(Weights, Eligible) <= Cardinality(Eligible) * m /\ SumOver(Weights, Eligible) \in Int
  BY <1>2, <1>5, SumAtMost, SumType
<1>7. Cardinality(Eligible) * m <= Cardinality(Host) * m
  <2>1. m * Cardinality(Eligible) <= m * Cardinality(Host)
    BY <1>3, TimesMono
  <2> QED BY <1>3, <2>1
<1>8. Most(m) \in Nat /\ SumOver(Weights, Eligible) <= Most(m)
  BY <1>3, <1>6, <1>7 DEF Most
<1> QED BY <1>2, <1>3, <1>8, TotalIsSum

\* Balance survives a step that leaves currents and waits of the hosts with a
\* weight alone, and gives both as 0 to a host that gets one.
LEMMA BalanceKept ==
  ASSUME IsFiniteSet(Host), NEW m \in Nat, BalanceInv(m), NEW h,
         Known' \subseteq Host, Eligible' \subseteq Known',
         \A x \in Known' : state'[x].current \in Int /\ (score'[x] = 0 => wait'[x] = 0),
         \A x \in Eligible' :
           \/ x \in Eligible /\ state'[x].current = state[x].current /\ wait'[x] = wait[x]
           \/ x = h /\ state'[x].current = 0 /\ wait'[x] = 0
  PROVE  BalanceInv(m)'
<1> DEFINE E == Eligible
           F == Eligible'
           c == Currents
           d == Currents'
           n == Cardinality(Host)
           t == Most(m)
<1>1. IsFiniteSet(F) /\ n \in Nat /\ Cardinality(F) <= n /\ t \in Nat
  <2>1. Cardinality(F) <= Cardinality(Host) /\ IsFiniteSet(F) /\ Cardinality(Host) \in Nat
    BY FS_Subset, FS_CardinalityType
  <2> QED BY <2>1 DEF Most
<1>2. \A x \in E : c[x] = state[x].current
  BY DEF Currents, Eligible
<1>3. \A x \in F : d[x] = state'[x].current
  BY DEF Currents
<1>4. Numbers(d, F)
  BY <1>3 DEF Numbers
<1>5. Regroup(E, c, F, d, h)
  <2>1. \A x \in F : (x \in E /\ d[x] = c[x]) \/ (x = h /\ d[x] = 0)
    BY <1>2, <1>3
  <2> QED BY <1>4, <2>1 DEF Regroup
<1>6. Balanced(E, c, n, t)
  BY DEF BalanceInv
<1>7. Balanced(F, d, n, t)
  <2> HIDE DEF E, F, c, d, n, t
  <2> QED BY <1>1, <1>5, <1>6, BalancedAfterwards
<1>8. \A x \in F : wait'[x] <= state'[x].current + Allowance(m)
  <2> SUFFICES ASSUME NEW x \in F PROVE wait'[x] <= state'[x].current + Allowance(m)
    OBVIOUS
  <2>1. CASE x \in E /\ state'[x].current = state[x].current /\ wait'[x] = wait[x]
    BY <2>1 DEF BalanceInv
  <2>2. CASE x = h /\ state'[x].current = 0 /\ wait'[x] = 0
    <3>1. - Allowed(t, n, 1) <= d[x] /\ Allowed(t, n, 1) \in Int
      <4> HIDE DEF F, d, n, t
      <4> QED BY <1>1, <1>4, <1>7, BalancedEach
    <3> QED BY <2>2, <3>1, <1>3 DEF Allowance
  <2> QED BY <2>1, <2>2
<1> QED BY <1>7, <1>8 DEF BalanceInv

\* A report: its host keeps its current, or has none yet.
LEMMA ReportBalances ==
  ASSUME IsFiniteSet(Host), NEW m \in Nat, BalanceInv(m), MapsOK, SchedulerInv,
         NEW h \in Host, NEW w \in Score, Report(h, w)
  PROVE  BalanceInv(m)'
<1>1. /\ score' = Assign(score, h, w) /\ state' = Assign(state, h, Reweighted(h, w))
      /\ wait' = IF w = 0 \/ h \notin Known THEN Assign(wait, h, 0) ELSE wait
  BY DEF Report
<1>2. /\ DOMAIN state = Known /\ Known' = Known \cup {h} /\ Known \subseteq Host
      /\ DOMAIN state' = Known' /\ DOMAIN wait = Known /\ w \in Nat
  BY <1>1, SchedulerAssumption DEF Assign, Known, SchedulerInv, StatesMatchScores, MapsOK
<1>3. \A x \in Known \ {h} : /\ score'[x] = score[x] /\ state'[x] = state[x]
                             /\ wait'[x] = wait[x]
  BY <1>1, <1>2 DEF Assign, Known
<1>4. score'[h] = w /\ state'[h] = Reweighted(h, w)
  BY <1>1, <1>2 DEF Assign, Known
<1>5. wait'[h] = IF w = 0 \/ h \notin Known THEN 0 ELSE wait[h]
  BY <1>1, <1>2 DEF Assign
<1>6. state'[h].current =
        IF w = 0 \/ h \notin Known THEN 0 ELSE state[h].current
  BY <1>2, <1>4 DEF Reweighted, StateOf, NoState
<1>7. SchedulerInv'
  BY ReportKeeps
<1>8. Eligible = {x \in Known : score[x] > 0}
  BY EligibleScores
<1>9. Eligible' = {x \in Known' : score'[x] > 0}
  <2>1. \A x \in Known' : Base(x)' \in Nat /\ (Base(x)' = 0 <=> score'[x] = 0)
                          /\ score'[x] \in Nat
    BY <1>7 DEF SchedulerInv, StatesMatchScores, Base
  <2> QED BY <2>1 DEF Eligible
<1>10. \A x \in Known : /\ score[x] \in Nat /\ state[x].current \in Int
                        /\ score[x] = 0 => wait[x] = 0 /\ state[x].current = 0
  BY DEF SchedulerInv, StatesMatchScores, BalanceInv
<1>11. \A x \in Known' : state'[x].current \in Int /\ (score'[x] = 0 => wait'[x] = 0)
  BY <1>2, <1>3, <1>4, <1>5, <1>6, <1>10
<1>12. \A x \in Eligible' :
         \/ x \in Eligible /\ state'[x].current = state[x].current /\ wait'[x] = wait[x]
         \/ x = h /\ state'[x].current = 0 /\ wait'[x] = 0
  <2> SUFFICES ASSUME NEW x \in Known', score'[x] > 0
               PROVE  \/ /\ x \in Eligible /\ state'[x].current = state[x].current
                         /\ wait'[x] = wait[x]
                      \/ x = h /\ state'[x].current = 0 /\ wait'[x] = 0
    BY <1>9
  <2>1. CASE x # h
    BY <2>1, <1>2, <1>3, <1>8
  <2>2. CASE x = h
    BY <2>2, <1>2, <1>4, <1>5, <1>6, <1>8, <1>10
  <2> QED BY <2>1, <2>2
<1>13. Known' \subseteq Host /\ Eligible' \subseteq Known'
  BY <1>2, <1>9
<1> QED BY <1>11, <1>12, <1>13, BalanceKept

\* The cleanup: the hosts that stay keep currents and waits.
LEMMA CleanupBalances ==
  ASSUME IsFiniteSet(Host), NEW m \in Nat, BalanceInv(m), MapsOK, SchedulerInv, Cleanup
  PROVE  BalanceInv(m)'
<1>1. /\ score' = Keep(score, Fresh) /\ state' = Keep(state, Fresh)
      /\ wait' = Keep(wait, Fresh) /\ Fresh \subseteq Known
  BY DEF Cleanup, Fresh
<1>2. /\ DOMAIN state = Known /\ Known \subseteq Host /\ DOMAIN wait = Known
      /\ Known' = Fresh
  BY <1>1 DEF Keep, Known, SchedulerInv, StatesMatchScores, MapsOK
<1>3. \A x \in Fresh : /\ score'[x] = score[x] /\ state'[x] = state[x]
                       /\ wait'[x] = wait[x]
  BY <1>1, <1>2 DEF Keep, Known
<1>4. \A x \in Fresh : Base(x)' = Base(x)
  BY <1>3 DEF Base
<1>5. Eligible' \subseteq Known' /\ \A x \in Eligible' : x \in Eligible
  BY <1>1, <1>2, <1>4 DEF Eligible
<1>6. \A x \in Known' : state'[x].current \in Int /\ (score'[x] = 0 => wait'[x] = 0)
  BY <1>1, <1>2, <1>3 DEF BalanceInv
<1>7. \A x \in Eligible' :
        x \in Eligible /\ state'[x].current = state[x].current /\ wait'[x] = wait[x]
  BY <1>2, <1>3, <1>5
<1>8. Known' \subseteq Host
  BY <1>1, <1>2
<1> QED BY <1>5, <1>6, <1>7, <1>8, BalanceKept

\* Whatever leaves scores, states and waits alone.
LEMMA StutterBalances ==
  ASSUME NEW m \in Nat, BalanceInv(m), UNCHANGED <<score, state, wait>>
  PROVE  BalanceInv(m)'
<1>1. Known' = Known /\ Eligible' = Eligible /\ Currents' = Currents
  BY DEF Known, Eligible, Base, Currents
<1> QED BY <1>1 DEF BalanceInv

\* A rotation: the chosen host's wait ends; the others wait one more choice and
\* gain their weight, which is at least one.
LEMMA RotationBalances ==
  ASSUME IsFiniteSet(Host), NEW m \in Nat, \A w \in Score : w <= m,
         BalanceInv(m), MapsOK, WeightsOK, SchedulerInv,
         NEW h, Rotate(h), UNCHANGED <<score, age, untilCleanup>>
  PROVE  BalanceInv(m)'
<1> DEFINE n == Cardinality(Host)
           t == Most(m)
           c == Currents
           b == Weights
           d == Currents'
           E == Eligible
<1>1. /\ IsFiniteSet(E) /\ Cardinality(E) <= n /\ n \in Nat /\ t \in Nat
      /\ Total = SumOver(b, E) /\ SumOver(b, E) <= t
  BY TotalAtMost
<1>2. Known' = Known /\ DOMAIN state' = Known /\ E \subseteq Known
      /\ E = {x \in Known : score[x] > 0}
      /\ \A x \in Known : Base(x) \in Nat /\ (x \in E => Base(x) >= 1)
  BY EligibleScores DEF Rotate, Known, Eligible
<1>3. h \in E /\ \A x \in E : Raised(x) <= Raised(h)
  BY DEF Rotate
<1>4. \A x \in Known :
        state'[x].current = IF x \notin E THEN state[x].current
                            ELSE Raised(x) - (IF x = h THEN Total ELSE 0)
  BY DEF Rotate
<1>5. \A x \in Known : wait'[x] = IF x \in E \ {h} THEN wait[x] + 1 ELSE 0
  BY DEF Rotate
<1>6. \A x \in Known : state[x].current \in Int /\ wait[x] \in Nat
  BY DEF BalanceInv, MapsOK
<1>7. /\ \A x \in Known : c[x] = state[x].current /\ b[x] = Base(x)
      /\ \A x \in Known : d[x] = state'[x].current
  BY <1>2 DEF Currents, Weights
<1>8. \A x \in E : Raised(x) = c[x] + b[x]
  BY <1>2, <1>7 DEF Raised
<1>9. GetBestHost(h)
  BY DEF GetBestHost
<1>10. SchedulerInv'
  BY <1>9, RotateKeeps
<1>11. Eligible' = E
  <2>1. \A x \in Known' : Base(x)' \in Nat /\ (Base(x)' = 0 <=> score'[x] = 0)
                          /\ score'[x] \in Nat
    BY <1>10 DEF SchedulerInv, StatesMatchScores, Base
  <2>2. Eligible' = {x \in Known' : score'[x] > 0}
    BY <2>1 DEF Eligible
  <2> QED BY <1>2, <2>2
<1>12. Balanced(E, c, n, t)
  BY DEF BalanceInv
<1> HIDE DEF n, t, c, b, d, E
<1>13. SumOver(b, E) \in Nat /\ Total \in Nat
  <2>1. \A x \in E : b[x] \in Nat
    BY <1>2, <1>7
  <2>2. E \in SUBSET E
    OBVIOUS
  <2> QED BY <1>1, <2>1, <2>2, SumOfNaturals
<1>14. Turn(E, c, b, h, d)
  <2>1. \A x \in E : /\ c[x] \in Int /\ b[x] \in Nat
                     /\ c[x] + b[x] <= c[h] + b[h]
                     /\ d[x] = c[x] + b[x] - (IF x = h THEN SumOver(b, E) ELSE 0)
    <3> SUFFICES ASSUME NEW x \in E
                 PROVE  /\ c[x] \in Int /\ b[x] \in Nat
                        /\ c[x] + b[x] <= c[h] + b[h]
                        /\ d[x] = c[x] + b[x] - (IF x = h THEN SumOver(b, E) ELSE 0)
      OBVIOUS
    <3>1. x \in Known /\ c[x] \in Int /\ b[x] \in Nat
      BY <1>2, <1>6, <1>7
    <3>2. Raised(x) = c[x] + b[x] /\ Raised(h) = c[h] + b[h] /\ Raised(x) <= Raised(h)
      BY <1>3, <1>8
    <3>3. d[x] = Raised(x) - (IF x = h THEN Total ELSE 0)
      BY <1>4, <1>7, <3>1
    <3>4. c[x] + b[x] <= c[h] + b[h]
      BY <3>2
    <3>5. d[x] = c[x] + b[x] - (IF x = h THEN SumOver(b, E) ELSE 0)
      BY <1>1, <1>13, <3>1, <3>2, <3>3
    <3> QED BY <3>1, <3>4, <3>5
  <2> QED BY <1>3, <2>1 DEF Turn
<1>15. Balanced(E, d, n, t)
  BY <1>1, <1>12, <1>14, TurnBalanced
<1>16. \A x \in Known : state'[x].current \in Int
  BY <1>2, <1>4, <1>6, <1>7, <1>8, <1>13
<1>17. \A x \in Known : score'[x] = 0 => wait'[x] = 0
  BY <1>2, <1>5
<1>18. \A x \in E : wait'[x] <= state'[x].current + Allowance(m)
  <2> SUFFICES ASSUME NEW x \in E PROVE wait'[x] <= state'[x].current + Allowance(m)
    OBVIOUS
  <2>1. x \in Known /\ Base(x) \in Nat /\ Base(x) >= 1
    BY <1>2
  <2>2. Allowance(m) \in Int
    BY <1>1 DEF Allowance, Allowed, t, n
  <2>3. CASE x = h
    <3>1. Numbers(d, E)
      BY <1>2, <1>7, <1>16 DEF Numbers
    <3>2. - Allowed(t, n, 1) <= d[x]
      BY <1>1, <1>15, <3>1, BalancedEach
    <3>3. wait'[x] = 0 /\ d[x] = state'[x].current /\ d[x] \in Int
      BY <1>5, <1>7, <1>16, <2>1, <2>3
    <3>4. Allowance(m) = Allowed(t, n, 1)
      BY DEF Allowance, t, n
    <3> QED BY <2>2, <3>2, <3>3, <3>4
  <2>4. CASE x # h
    <3>1. wait[x] <= state[x].current + Allowance(m)
      BY DEF BalanceInv, E
    <3>2. wait'[x] = wait[x] + 1 /\ state'[x].current = state[x].current + Base(x)
      BY <1>4, <1>5, <1>6, <2>1, <2>4 DEF Raised
    <3> QED BY <1>6, <2>1, <2>2, <3>1, <3>2
  <2> QED BY <2>3, <2>4
<1> QED BY <1>2, <1>11, <1>15, <1>16, <1>17, <1>18 DEF BalanceInv, n, t, d

\* Every step keeps the balance.
LEMMA BalanceNext ==
  ASSUME IsFiniteSet(Host), NEW m \in Nat, \A w \in Score : w <= m
  PROVE  BalanceInv(m) /\ MapsOK /\ WeightsOK /\ SchedulerInv /\ [Next]_vars
           => BalanceInv(m)'
<1> SUFFICES ASSUME BalanceInv(m), MapsOK, WeightsOK, SchedulerInv, [Next]_vars
             PROVE  BalanceInv(m)'
  OBVIOUS
<1>1. ASSUME NEW h \in Host, NEW w \in Score, Report(h, w) PROVE BalanceInv(m)'
  BY <1>1, ReportBalances
<1>2. ASSUME NEW h \in Host, ReportChooses(h) \/ QueryChooses(h) PROVE BalanceInv(m)'
  <2>1. GetBestHost(h) /\ UNCHANGED <<score, age, untilCleanup>>
    BY <1>2 DEF ReportChooses, QueryChooses
  <2>2. CASE Rotate(h)
    BY <2>1, <2>2, RotationBalances
  <2>3. CASE Fallback(h)
    BY <2>1, <2>3, StutterBalances DEF Fallback
  <2> QED BY <2>1, <2>2, <2>3 DEF GetBestHost
<1>3. CASE Cleanup
  BY <1>3, CleanupBalances
<1>4. CASE UNCHANGED <<score, state, wait>>
  BY <1>4, StutterBalances
<1> QED
  BY <1>1, <1>2, <1>3, <1>4 DEF Next, Tick, ReportFindsNone, QueryAnswers, vars

\* Nobody has a current, nobody waits.
LEMMA BalanceInit ==
  ASSUME IsFiniteSet(Host), NEW m \in Nat
  PROVE  Init => BalanceInv(m)
<1> SUFFICES ASSUME Init PROVE BalanceInv(m)
  OBVIOUS
<1>1. Known = {} /\ Eligible = {}
  BY DEF Init, Known, Eligible
<1>2. \A S \in SUBSET {} : S = {}
  OBVIOUS
<1>3. SumOver(Currents, {}) = 0 /\ Cardinality({}) = 0
  BY SumStep, FS_EmptySet
<1>4. Allowed(Most(m), Cardinality(Host), 0) = 0
  <2>1. Cardinality(Host) \in Nat
    BY FS_CardinalityType
  <2> QED BY <2>1 DEF Allowed, Most
<1>5. Balanced({}, Currents, Cardinality(Host), Most(m))
  BY <1>2, <1>3, <1>4 DEF Balanced
<1> QED BY <1>1, <1>5 DEF BalanceInv

\* In balance, no host has waited for longer than twice the allowance of one.
LEMMA BalancedWaits ==
  ASSUME IsFiniteSet(Host), NEW m \in Nat,
         MaxWait >= 2 * (Cardinality(Host) * m) * (2 * Cardinality(Host) - 1)
  PROVE  BalanceInv(m) /\ MapsOK /\ SchedulerInv => NoStarvation
<1> SUFFICES ASSUME BalanceInv(m), MapsOK, SchedulerInv, NEW h \in Known
             PROVE  wait[h] <= MaxWait
  BY DEF NoStarvation
<1> DEFINE n == Cardinality(Host)
<1>1. n \in Nat /\ n >= 1
  <2>1. h \in Host
    BY DEF MapsOK
  <2>2. Cardinality(Host) \in Nat /\ Cardinality(Host) # 0
    BY <2>1, FS_CardinalityType, FS_EmptySet
  <2> QED BY <2>2
<1>2. Most(m) \in Nat /\ MaxWait \in Nat
  BY <1>1, SchedulerAssumption DEF Most
<1>3. Allowance(m) = Most(m) * (2 * n - 1)
  BY <1>1, <1>2 DEF Allowance, Allowed
<1>4. MaxWait >= 2 * Allowance(m) /\ Allowance(m) \in Int
  <2>1. MaxWait >= 2 * Most(m) * (2 * n - 1)
    BY DEF Most
  <2> HIDE DEF n
  <2> QED BY <1>1, <1>2, <1>3, <2>1
<1>5. wait[h] \in Nat /\ state[h].current \in Int
  BY DEF MapsOK, BalanceInv
<1>6. CASE h \in Eligible
  <2>1. Numbers(Currents, Eligible) /\ Currents[h] = state[h].current
    BY <1>6 DEF Numbers, Currents, BalanceInv, Eligible
  <2>2. Balanced(Eligible, Currents, n, Most(m))
    BY DEF BalanceInv
  <2>3. Currents[h] <= Allowance(m)
    BY <1>1, <1>2, <1>6, <2>1, <2>2, BalancedEach DEF Allowance
  <2>4. wait[h] <= state[h].current + Allowance(m)
    BY <1>6 DEF BalanceInv
  <2> QED BY <1>2, <1>4, <1>5, <2>1, <2>3, <2>4
<1>7. CASE h \notin Eligible
  <2>1. score[h] = 0
    BY <1>7, EligibleScores DEF SchedulerInv
  <2>2. wait[h] = 0
    BY <2>1 DEF BalanceInv
  <2> QED BY <1>2, <2>2
<1> QED BY <1>6, <1>7

\* The rotation starves no host, for any number of hosts and any scores up to
\* m, however reports change the weights and hosts come and go: a host with a
\* weight is chosen before it has been passed over as often as its credit and
\* its debt allow.
THEOREM SchedulerNoStarvation ==
  ASSUME IsFiniteSet(Host), NEW m \in Nat, \A w \in Score : w <= m,
         MaxWait >= 2 * (Cardinality(Host) * m) * (2 * Cardinality(Host) - 1)
  PROVE  Spec => []NoStarvation
<1>1. Init => BalanceInv(m)
  BY BalanceInit
<1>2. TypeOK => MapsOK /\ WeightsOK
  BY TypeParts
<1>3. BalanceInv(m) /\ MapsOK /\ WeightsOK /\ SchedulerInv /\ [Next]_vars => BalanceInv(m)'
  BY BalanceNext
<1>4. BalanceInv(m) /\ MapsOK /\ SchedulerInv => NoStarvation
  BY BalancedWaits
<1> QED
  BY <1>1, <1>2, <1>3, <1>4, SchedulerTypeOK, SchedulerInvariant, PTL DEF Spec
=============================================================================
