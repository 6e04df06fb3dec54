-------------------------- MODULE Sampling_proofs --------------------------
(***************************************************************************)
(* Proofs about the worker's sampling rounds, for every pace of rounds and *)
(* restarts, every width of a counter and every load of the disk.          *)
(*                                                                         *)
(* Sequence numbers are never used twice: the seed of a process and the    *)
(* numbers of the one before are compared through the clock.  A rate is    *)
(* right: the disk's counter is the previous one plus what happened since, *)
(* less its width if it wrapped, and a round never starts within the       *)
(* second of the one before.                                               *)
(***************************************************************************)
EXTENDS Sampling, TLAPS

\* The numbers follow the clock: at most one ahead of it, and not ahead of it
\* at all when the process may take its next sample; those of a process that
\* ended are at most the time at which the next may start.
CollectorInv ==
  /\ TypeOK
  /\ collectSeq <= now + 1
  /\ collectSeq <= now \/ collectSeq <= notBefore
  /\ alive => \A u \in used : u <= collectSeq
  /\ ~alive => \A u \in used : u <= notBefore

\* No process has run yet.
LEMMA CollectorInit == Init => CollectorInv
<1> SUFFICES ASSUME Init PROVE CollectorInv
  OBVIOUS
<1> USE CollectorAssumption DEF Init
<1>1. alive \in BOOLEAN
  BY Zenon
<1>2. now \in 0 .. MaxTime /\ notBefore \in Nat /\ collectSeq \in 0 .. MaxTime + 1
  OBVIOUS
<1>3. used \in SUBSET (1 .. MaxTime + 1)
  OBVIOUS
<1> QED
  BY <1>1, <1>2, <1>3 DEF CollectorInv, TypeOK

\* The constructor, CollectAll and the process's end.
LEMMA CollectorStep == CollectorInv /\ [Next]_vars => CollectorInv'
<1> SUFFICES ASSUME CollectorInv, [Next]_vars PROVE CollectorInv'
  OBVIOUS
<1> USE CollectorAssumption DEF CollectorInv, TypeOK
<1>1. CASE Tick
  BY <1>1 DEF Tick
<1>2. CASE Construct
  BY <1>2 DEF Construct
<1>3. CASE CollectAll
  <2>1. collectSeq <= now
    BY <1>3 DEF CollectAll
  <2>2. TypeOK'
    BY <1>3, <2>1 DEF CollectAll
  <2>3. \A u \in used' : u <= collectSeq'
    BY <1>3 DEF CollectAll
  <2> QED
    BY <1>3, <2>1, <2>2, <2>3 DEF CollectAll
<1>4. CASE Kill
  <2>1. \A u \in used : u \in Nat /\ u <= notBefore'
    BY <1>4 DEF Kill
  <2>2. alive' = FALSE
    BY <1>4 DEF Kill
  <2>3. alive' \in BOOLEAN
    BY <2>2, Zenon
  <2>4. TypeOK'
    BY <1>4, <2>3 DEF Kill
  <2> QED
    BY <1>4, <2>1, <2>2, <2>4 DEF Kill
<1>5. CASE UNCHANGED vars
  BY <1>5 DEF vars
<1> QED
  BY <1>1, <1>2, <1>3, <1>4, <1>5 DEF Next

\* The inductive invariant of the collector.
THEOREM CollectorInvariance == Spec => []CollectorInv
  BY CollectorInit, CollectorStep, PTL DEF Spec

\* Type correctness: CollectAll never numbers beyond the clock's range.
THEOREM CollectorTypeCorrect == Spec => []TypeOK
<1>1. CollectorInv => TypeOK
  BY DEF CollectorInv
<1> QED
  BY <1>1, CollectorInvariance, PTL

\* What the comment on the seed promises: (server_name, sequence) identifies a
\* sample across restarts, as long as the clock is not set back.
THEOREM SequencesAreFresh == Spec => []NextIsFresh
<1>1. CollectorInv => NextIsFresh
  BY DEF CollectorInv, NextIsFresh
<1> QED
  BY <1>1, CollectorInvariance, PTL
-----------------------------------------------------------------------------
\* Euclidean division, as DiskMonitor and the kernel's counters need it.
LEMMA Division ==
  ASSUME NEW n \in Nat, NEW d \in Nat, d > 0
  PROVE  n \div d \in Nat /\ d * (n \div d) <= n /\ n < d * (n \div d) + d
  OBVIOUS

\* What a counter of width w shows instead of n.
LEMMA Wrap ==
  ASSUME NEW w \in Nat, NEW n \in Int, 0 < w
  PROVE  /\ n \in 0 .. w - 1 => n % w = n
         /\ n = w => n % w = 0
         /\ n < 0 /\ -w <= n => n % w = n + w
  OBVIOUS

\* Multiplication by a positive number.
LEMMA Product ==
  ASSUME NEW a \in Int, NEW b \in Int, NEW d \in Nat, d > 0
  PROVE  /\ a <= b => a * d <= b * d
         /\ a * d < b * d => a < b
         /\ (a + b) * d = a * d + b * d
         /\ (a - b) * d = a * d - b * d
         /\ a * d = d * a /\ a * d \in Int
  OBVIOUS

\* The disk's part of the state.
DiskTypes ==
  /\ width \in {Word, Printed}
  /\ plugged \in BOOLEAN /\ sampled \in BOOLEAN /\ replaced \in BOOLEAN
  /\ counter \in 0 .. width - 1
  /\ last \in [value : 0 .. width - 1, time : Nat]
  /\ grown \in Nat

\* The counter is the previous sample's plus what happened since, less its
\* width if it wrapped, unless the disk was replaced.
CounterInv ==
  sampled /\ ~replaced =>
    counter \in {last.value + grown, last.value + grown - width}

\* The previous sample belongs to this process, a round before its next one,
\* and no more than the time since can have happened on the disk.
RoundInv ==
  sampled => /\ alive
             /\ last.time * TicksPerSecond + Round <= notBefore
             /\ last.time * TicksPerSecond + grown <= now

SamplingInv ==
  /\ CollectorInv /\ DiskTypes /\ CounterInv /\ RoundInv
  /\ DiskDeltaExact /\ WholeSecondsSuffice

\* The bounds on the constants.
LEMMA SamplingConstants ==
  /\ Round \in Nat /\ Startup \in Nat /\ MaxTime \in Nat
  /\ TicksPerSecond \in Nat /\ TicksPerSecond > 0 /\ Round >= TicksPerSecond
  /\ Printed \in Nat /\ Word \in Nat
  /\ MaxTime < Printed /\ 2 * Printed <= Word
  BY CollectorAssumption, SamplingAssumption

\* The state of the proof of a step.
LEMMA SamplingTypes ==
  ASSUME CollectorInv, DiskTypes
  PROVE  /\ now \in Nat /\ now <= MaxTime /\ notBefore \in Nat
         /\ width \in Nat /\ Printed <= width /\ width <= Word /\ MaxTime < width
         /\ width = Word \/ width = Printed
         /\ counter \in Nat /\ counter < width
         /\ last.value \in Nat /\ last.value < width /\ last.time \in Nat
         /\ grown \in Nat
  BY SamplingConstants DEF CollectorInv, TypeOK, DiskTypes

\* No round has been made.
LEMMA SamplingInitInv == SamplingInit => SamplingInv
<1> SUFFICES ASSUME SamplingInit PROVE SamplingInv
  OBVIOUS
<1> USE SamplingConstants DEF SamplingInit
<1>1. CollectorInv
  BY CollectorInit
<1>2. DiskTypes
  <2>1. plugged \in BOOLEAN /\ sampled \in BOOLEAN /\ replaced \in BOOLEAN
    BY Zenon
  <2>2. width \in {Word, Printed} /\ counter \in 0 .. width - 1 /\ grown \in Nat
    BY SMT
  <2>3. last \in [value : 0 .. width - 1, time : Nat]
    BY DEF NoLast
  <2> QED BY <2>1, <2>2, <2>3 DEF DiskTypes
<1>3. CounterInv /\ RoundInv /\ DiskDeltaExact /\ WholeSecondsSuffice
  BY DEF CounterInv, RoundInv, DiskDeltaExact, WholeSecondsSuffice, NoRate
<1> QED BY <1>1, <1>2, <1>3 DEF SamplingInv

\* The round's steps are the collector's, and the disk leaves it alone.
LEMMA SamplingIsCollecting == [SamplingNext]_<<vars, disk>> => [Next]_vars
  BY DEF SamplingNext, Elapse, Unplug, Plug, StartMonitors, UpdateOnce, StopMonitors, Next, vars

\* A busy disk's counter goes up by one and wraps at its width.
LEMMA ElapseKeeps ==
  ASSUME SamplingInv, CollectorInv', NEW busy \in {0, 1}, Elapse(busy)
  PROVE  SamplingInv'
<1> USE SamplingConstants
<1>1. /\ now' = now + 1 /\ now' <= MaxTime /\ notBefore' = notBefore /\ alive' = alive
      /\ counter' = (counter + busy) % width
      /\ grown' = IF sampled THEN grown + busy ELSE 0
      /\ UNCHANGED <<width, plugged, sampled, last, report, replaced, missed>>
      /\ busy \in Nat /\ busy <= 1
  BY DEF Elapse, Tick, cache, SamplingInv, CollectorInv, TypeOK
<1>2. CollectorInv /\ DiskTypes /\ CounterInv /\ RoundInv
  BY DEF SamplingInv
<1>3. counter' \in 0 .. width - 1 /\ counter' \in {counter + busy, counter + busy - width}
  <2>1. CASE counter + busy \in 0 .. width - 1
    BY <1>1, <1>2, <2>1, SamplingTypes, Wrap
  <2>2. CASE counter + busy = width
    BY <1>1, <1>2, <2>2, SamplingTypes, Wrap
  <2> QED BY <1>1, <1>2, <2>1, <2>2, SamplingTypes
<1>4. DiskTypes'
  <2>1. UNCHANGED <<width, plugged, sampled, replaced, last>> /\ grown' \in Nat
    BY <1>1, <1>2, SamplingTypes
  <2> QED BY <1>2, <1>3, <2>1, Zenon DEF DiskTypes
<1>5. RoundInv'
  BY <1>1, <1>2, SamplingTypes, Product DEF RoundInv
<1>6. CounterInv'
  <2> SUFFICES ASSUME sampled, ~replaced
               PROVE  counter' \in {last.value + grown', last.value + grown' - width}
    BY <1>1 DEF CounterInv
  <2>1. grown' = grown + busy /\ grown' <= MaxTime
    <3>1. last.time * TicksPerSecond + grown' <= now'
      BY <1>1, <1>5 DEF RoundInv
    <3>2. last.time * TicksPerSecond >= 0 /\ last.time * TicksPerSecond \in Int
      BY <1>2, SamplingTypes
    <3> QED BY <1>1, <1>2, <3>1, <3>2, SamplingTypes
  <2>2. counter \in {last.value + grown, last.value + grown - width}
    BY <1>2 DEF CounterInv
  <2> QED BY <1>1, <1>2, <1>3, <2>1, <2>2, SamplingTypes
<1>7. DiskDeltaExact' /\ WholeSecondsSuffice'
  BY <1>1 DEF SamplingInv, DiskDeltaExact, WholeSecondsSuffice
<1> QED BY <1>4, <1>5, <1>6, <1>7 DEF SamplingInv

\* The difference of two counters of width w modulo 2^64.
LEMMA DifferenceIs ==
  ASSUME CollectorInv, DiskTypes, CounterInv, RoundInv, sampled, ~replaced
  PROVE  \/ Difference(counter, last.value) = grown
         \/ /\ Difference(counter, last.value) = grown + (Word - width)
            /\ Word - width = Word - Printed
<1> USE SamplingConstants, SamplingTypes
<1>1. grown < width
  <2>1. last.time * TicksPerSecond + grown <= now
    BY DEF RoundInv
  <2>2. last.time * TicksPerSecond >= 0 /\ last.time * TicksPerSecond \in Int
    OBVIOUS
  <2> QED BY <2>1, <2>2
<1>2. CASE counter - last.value = grown
  <2>1. grown \in 0 .. Word - 1
    BY <1>1
  <2>2. grown % Word = grown
    BY <2>1, Wrap
  <2> QED BY <1>2, <2>2 DEF Difference
<1>3. CASE counter - last.value = grown - width
  <2>1. (grown - width) % Word = grown - width + Word
    BY <1>1, Wrap
  <2>2. Difference(counter, last.value) = grown + (Word - width)
    BY <1>3, <2>1 DEF Difference
  <2>3. width = Word => Difference(counter, last.value) = grown
    BY <2>2
  <2> QED BY <2>2, <2>3
<1>4. counter - last.value = grown \/ counter - last.value = grown - width
  BY DEF CounterInv
<1> QED BY <1>2, <1>3, <1>4

\* A round: its second differs from the previous one's.
LEMMA ReadLineKeeps ==
  ASSUME SamplingInv, CollectorInv', CollectAll, ReadLine, UNCHANGED <<width, plugged, counter>>
  PROVE  SamplingInv'
<1> USE SamplingConstants
<1>1. CollectorInv /\ DiskTypes /\ CounterInv /\ RoundInv /\ missed = 0
  BY DEF SamplingInv, WholeSecondsSuffice
<1>2. /\ alive /\ now >= notBefore
      /\ now' = now /\ alive' = alive /\ notBefore' = now + Round
      /\ sampled' = TRUE /\ last' = [value |-> counter, time |-> Seconds]
      /\ grown' = 0 /\ replaced' = FALSE
      /\ UNCHANGED <<width, plugged, counter>>
  BY DEF CollectAll, ReadLine, Remembered
<1>3. /\ Seconds \in Nat /\ Seconds * TicksPerSecond <= now
      /\ now < Seconds * TicksPerSecond + TicksPerSecond
  BY <1>1, SamplingTypes, Division DEF Seconds
<1>4. sampled => Seconds - last.time \in Nat /\ Seconds - last.time > 0
  <2> SUFFICES ASSUME sampled PROVE Seconds - last.time \in Nat /\ Seconds - last.time > 0
    OBVIOUS
  <2>1. last.time * TicksPerSecond + TicksPerSecond <= now
    BY <1>1, <1>2, SamplingTypes DEF RoundInv
  <2>2. last.time * TicksPerSecond < Seconds * TicksPerSecond
    BY <1>1, <1>3, <2>1, SamplingTypes
  <2>3. last.time < Seconds
    BY <1>1, <1>3, <2>2, SamplingTypes, Product
  <2> QED BY <1>1, <1>3, <2>3, SamplingTypes
<1>5. DiskTypes'
  <2>1. plugged' \in BOOLEAN /\ sampled' \in BOOLEAN /\ replaced' \in BOOLEAN
    BY <1>1, <1>2, Zenon DEF DiskTypes
  <2>2. last' \in [value : 0 .. width' - 1, time : Nat] /\ grown' \in Nat
    BY <1>1, <1>2, <1>3 DEF DiskTypes
  <2> QED BY <1>1, <1>2, <2>1, <2>2 DEF DiskTypes
<1>6. CounterInv'
  BY <1>1, <1>2, SamplingTypes DEF CounterInv
<1>7. RoundInv'
  BY <1>1, <1>2, <1>3, SamplingTypes DEF RoundInv
<1>8. missed' = 0
  BY <1>1, <1>4 DEF ReadLine, Rated
<1>9. CASE ~sampled
  <2>1. report' = NoRate
    BY <1>9 DEF ReadLine, Rated
  <2> QED BY <1>5, <1>6, <1>7, <1>8, <2>1
         DEF SamplingInv, DiskDeltaExact, WholeSecondsSuffice, NoRate
<1>10. CASE sampled
  <2> DEFINE dt == Seconds - last.time
             d == Difference(counter, last.value)
  <2>1. report' = [rated |-> TRUE, dt |-> dt, change |-> d, truth |-> grown, replaced |-> replaced]
    BY <1>4, <1>10 DEF ReadLine, Rated
  <2>2. ~replaced => d = grown \/ (d = grown + (Word - width) /\ Word - width = Word - Printed)
    BY <1>1, <1>10, DifferenceIs
  <2>3. DiskDeltaExact'
    BY <1>1, <1>2, <2>1, <2>2, SamplingTypes DEF DiskDeltaExact
  <2>4. grown < 2 * dt * TicksPerSecond
    <3>1. grown <= now - last.time * TicksPerSecond
      BY <1>1, <1>10, SamplingTypes DEF RoundInv
    <3>2. grown < (Seconds * TicksPerSecond - last.time * TicksPerSecond) + TicksPerSecond
      BY <1>1, <1>3, <3>1, SamplingTypes
    <3>3. Seconds * TicksPerSecond - last.time * TicksPerSecond = dt * TicksPerSecond
      BY <1>1, <1>3, SamplingTypes, Product
    <3>4. TicksPerSecond <= dt * TicksPerSecond
      BY <1>4, <1>10
    <3>5. 2 * dt * TicksPerSecond = dt * TicksPerSecond + dt * TicksPerSecond
      BY <1>4, <1>10
    <3> QED BY <1>1, <1>4, <1>10, <3>2, <3>3, <3>4, <3>5, SamplingTypes
  <2>5. WholeSecondsSuffice'
    BY <1>1, <1>8, <2>1, <2>2, <2>4, SamplingTypes DEF WholeSecondsSuffice
  <2> QED BY <1>5, <1>6, <1>7, <2>3, <2>5 DEF SamplingInv
<1> QED BY <1>1, <1>9, <1>10 DEF DiskTypes

\* Ticks, rounds, restarts, and disks that come and go.
LEMMA SamplingStep == SamplingInv /\ [SamplingNext]_<<vars, disk>> => SamplingInv'
<1> SUFFICES ASSUME SamplingInv, [SamplingNext]_<<vars, disk>> PROVE SamplingInv'
  OBVIOUS
<1> USE SamplingConstants DEF cache, history, disk, vars
<1>1. CollectorInv'
  BY SamplingIsCollecting, CollectorStep DEF SamplingInv
<1>2. CollectorInv /\ DiskTypes /\ CounterInv /\ RoundInv
  BY DEF SamplingInv
<1>3. ASSUME NEW busy \in {0, 1}, Elapse(busy) PROVE SamplingInv'
  BY <1>1, <1>3, ElapseKeeps
<1>4. CASE Unplug
  <2>1. /\ plugged' = FALSE /\ counter' = 0 /\ replaced' = sampled
        /\ UNCHANGED <<now, alive, notBefore, width, sampled, last, report, grown, missed>>
    BY <1>4 DEF Unplug
  <2>2. DiskTypes'
    <3>1. plugged' \in BOOLEAN /\ sampled' \in BOOLEAN /\ replaced' \in BOOLEAN
      BY <1>2, <2>1, Zenon DEF DiskTypes
    <3>2. counter' \in 0 .. width - 1
      BY <1>2, <2>1, SamplingTypes
    <3> QED BY <1>2, <2>1, <3>1, <3>2, Zenon DEF DiskTypes
  <2>3. CounterInv' /\ RoundInv'
    BY <1>2, <2>1 DEF CounterInv, RoundInv
  <2>4. DiskDeltaExact' /\ WholeSecondsSuffice'
    BY <2>1 DEF SamplingInv, DiskDeltaExact, WholeSecondsSuffice
  <2> QED BY <1>1, <2>2, <2>3, <2>4 DEF SamplingInv
<1>5. CASE Plug \/ StartMonitors \/ UNCHANGED <<vars, disk>>
  <2>1. /\ plugged' = TRUE \/ plugged' = plugged
        /\ UNCHANGED <<now, notBefore, width, counter, sampled, last, report, grown,
                       replaced, missed>>
        /\ alive' = alive \/ alive'
    BY <1>5 DEF Plug, StartMonitors, Construct
  <2>2. DiskTypes'
    <3>1. plugged' \in BOOLEAN
      BY <1>2, <2>1, Zenon DEF DiskTypes
    <3> QED BY <1>2, <2>1, <3>1, Zenon DEF DiskTypes
  <2>3. CounterInv' /\ RoundInv'
    BY <1>2, <2>1 DEF CounterInv, RoundInv
  <2>4. DiskDeltaExact' /\ WholeSecondsSuffice'
    BY <2>1 DEF SamplingInv, DiskDeltaExact, WholeSecondsSuffice
  <2> QED BY <1>1, <2>2, <2>3, <2>4 DEF SamplingInv
<1>6. CASE StopMonitors
  <2>1. /\ sampled' = FALSE /\ last' = NoLast /\ report' = NoRate
        /\ grown' = 0 /\ replaced' = FALSE
        /\ UNCHANGED <<width, plugged, counter, missed>>
    BY <1>6 DEF StopMonitors
  <2>2. DiskTypes'
    <3>1. sampled' \in BOOLEAN /\ replaced' \in BOOLEAN
      BY <2>1, Zenon
    <3>2. last' \in [value : 0 .. width - 1, time : Nat] /\ grown' \in Nat
      BY <1>2, <2>1, SamplingTypes DEF NoLast
    <3> QED BY <1>2, <2>1, <3>1, <3>2, Zenon DEF DiskTypes
  <2>3. CounterInv' /\ RoundInv'
    BY <2>1 DEF CounterInv, RoundInv
  <2>4. DiskDeltaExact' /\ WholeSecondsSuffice'
    BY <2>1 DEF SamplingInv, DiskDeltaExact, WholeSecondsSuffice, NoRate
  <2> QED BY <1>1, <2>2, <2>3, <2>4 DEF SamplingInv
<1>7. CASE UpdateOnce
  <2>1. CASE plugged /\ ReadLine
    BY <1>1, <1>7, <2>1, ReadLineKeeps DEF UpdateOnce
  <2>2. CASE ~plugged /\ report' = NoRate /\ UNCHANGED <<sampled, last, history>>
    <3>1. /\ now' = now /\ alive' = alive /\ now >= notBefore /\ notBefore' = now + Round
          /\ report' = NoRate
          /\ UNCHANGED <<width, plugged, counter, sampled, last, grown, replaced, missed>>
      BY <1>7, <2>2 DEF UpdateOnce, CollectAll
    <3>2. DiskTypes'
      BY <1>2, <3>1, Zenon DEF DiskTypes
    <3>3. CounterInv'
      BY <1>2, <3>1 DEF CounterInv
    <3>4. RoundInv'
      BY <1>2, <3>1, SamplingTypes, Product DEF RoundInv
    <3>5. DiskDeltaExact' /\ WholeSecondsSuffice'
      BY <3>1 DEF SamplingInv, DiskDeltaExact, WholeSecondsSuffice, NoRate
    <3> QED BY <1>1, <3>2, <3>3, <3>4, <3>5 DEF SamplingInv
  <2> QED BY <1>7, <2>1, <2>2 DEF UpdateOnce
<1> QED BY <1>3, <1>4, <1>5, <1>6, <1>7 DEF SamplingNext

\* The inductive invariant of the rounds and the disk.
THEOREM SamplingInvariance == SamplingSpec => []SamplingInv
  BY SamplingInitInv, SamplingStep, PTL DEF SamplingSpec

\* UpdateOnce reports what really happened on the disk, although the kernel's
\* counters wrap and the code tests for no wrap: exactly for full-width
\* counters, off by the difference of the widths for a printed time that
\* wrapped.  Nothing is said of a disk that was replaced.
THEOREM DiskDeltasAreExact == SamplingSpec => []DiskDeltaExact
<1>1. SamplingInv => DiskDeltaExact
  BY DEF SamplingInv
<1> QED BY <1>1, SamplingInvariance, PTL

\* The pause of PushLoop makes time(nullptr) a good enough clock: no round
\* falls into the second of the one before, so that no difference is dropped,
\* and a disk that is always busy shows less than 200 %.
THEOREM WholeSecondsAreEnough == SamplingSpec => []WholeSecondsSuffice
<1>1. SamplingInv => WholeSecondsSuffice
  BY DEF SamplingInv
<1> QED BY <1>1, SamplingInvariance, PTL

\* The monitors' rounds use the collector as it is specified: CollectAll
\* numbers one sample per round, also with disks coming and going.
THEOREM RoundsImplementCollecting == SamplingSpec => Spec
<1>1. SamplingInit => Init
  BY DEF SamplingInit
<1> QED BY <1>1, SamplingIsCollecting, PTL DEF SamplingSpec, Spec
=============================================================================
