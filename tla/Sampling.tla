------------------------------ MODULE Sampling ------------------------------
(***************************************************************************)
(* Sampling rounds in time: the collector that numbers them                *)
(* (MetricCollector) and DiskMonitor::UpdateOnce (worker/src/monitor/      *)
(* disk_monitor.cpp), which turns the kernel's cumulative counters of a    *)
(* disk into rates between two rounds.                                     *)
(*                                                                         *)
(* There is one disk, and one of its counters at a time: a number of       *)
(* requests or sectors, which the kernel prints in full width, or the time *)
(* it was busy, which it prints with fewer digits.  A rate is kept as its  *)
(* numerator, the difference, and its denominator dt.                      *)
(***************************************************************************)
EXTENDS MetricCollector, Integers

CONSTANTS TicksPerSecond,  \* ticks of the clock in a second of time(nullptr)
          Word,            \* 2^64: arithmetic on uint64_t is modulo Word
          Printed          \* 2^32: times in /proc/diskstats are modulo Printed

\* PushLoop sleeps for a whole number of seconds, at least one.  Nothing runs
\* long enough for a counter to pass its width twice.
ASSUME SamplingAssumption ==
  /\ TicksPerSecond \in Nat \ {0} /\ Round >= TicksPerSecond
  /\ Printed \in Nat /\ Printed > MaxTime
  /\ Word \in Nat /\ Word >= 2 * Printed

VARIABLES
  width,     \* of the counter: Word or Printed
  plugged,   \* /proc/diskstats has a line for the disk
  counter,   \* the counter in that line
  sampled,   \* last_samples_ has an entry for the disk
  last,      \* last_samples_ and last_time_ of the disk: [value, time]
  report,    \* the disk_info of the latest sample
  grown,     \* history: what the counter really grew by since `last'
  replaced,  \* history: the disk was unplugged since `last'
  missed     \* history: growth between two samples that gave no rate

cache == <<sampled, last, report>>
history == <<grown, replaced, missed>>
disk == <<width, plugged, counter, cache, history>>

NoLast == [value |-> 0, time |-> 0]
NoRate == [rated |-> FALSE, dt |-> 0, change |-> 0, truth |-> 0, replaced |-> FALSE]

\* The machine has been up for any time when the worker first starts.
SamplingInit ==
  /\ Init
  /\ width \in {Word, Printed}
  /\ plugged = TRUE /\ counter \in {0, width - 1}
  /\ sampled = FALSE /\ last = NoLast /\ report = NoRate
  /\ grown = 0 /\ replaced = FALSE /\ missed = 0

-----------------------------------------------------------------------------
\* Time passes, in which the disk may be busy, with a request in every tick.
Elapse(busy) ==
  /\ Tick
  /\ busy = 1 => plugged
  /\ counter' = (counter + busy) % width
  /\ grown' = IF sampled THEN grown + busy ELSE 0
  /\ UNCHANGED <<width, plugged, cache, replaced, missed>>

Unplug ==
  /\ plugged
  /\ plugged' = FALSE /\ counter' = 0 /\ replaced' = sampled
  /\ UNCHANGED <<vars, width, cache, grown, missed>>

\* A disk, the same or another, gets the name; its counters start from 0.
Plug ==
  /\ ~plugged
  /\ plugged' = TRUE
  /\ UNCHANGED <<vars, width, counter, cache, history>>

StartMonitors == Construct /\ UNCHANGED disk

\* The process ends and takes the previous samples with it.
StopMonitors ==
  /\ Kill
  /\ sampled' = FALSE /\ last' = NoLast /\ report' = NoRate
  /\ grown' = 0 /\ replaced' = FALSE
  /\ UNCHANGED <<width, plugged, counter, missed>>

-----------------------------------------------------------------------------
\* time(nullptr).
Seconds == now \div TicksPerSecond

\* Mutant of Difference: a counter that fell counts as one at rest.
DifferenceOrNothing(a, b) == IF a >= b THEN a - b ELSE 0

\* Subtraction of uint64_t values.
Difference(a, b) == (a - b) % Word

\* Mutant of Rated: a single second is too short.
RatedAfterTwo(dt) == sampled /\ dt > 1

Rated(dt) == sampled /\ dt > 0

\* What the next round compares with.
Remembered == [value |-> counter, time |-> Seconds]

\* UpdateOnce reads the disk's line: a rate if there is a previous sample and
\* its second has passed, zeros otherwise; the sample is remembered either way.
ReadLine ==
  LET dt == Seconds - last.time
  IN /\ report' = IF Rated(dt)
                    THEN [rated |-> TRUE, dt |-> dt,
                          change |-> Difference(counter, last.value),
                          truth |-> grown, replaced |-> replaced]
                    ELSE NoRate
     /\ missed' = IF sampled /\ ~Rated(dt) THEN missed + grown ELSE missed
     /\ last' = Remembered /\ sampled' = TRUE
     /\ grown' = 0 /\ replaced' = FALSE

\* CollectAll runs the monitor; without a line there is no disk_info.
UpdateOnce ==
  /\ CollectAll
  /\ \/ plugged /\ ReadLine
     \/ /\ ~plugged
        /\ report' = NoRate
        /\ UNCHANGED <<sampled, last, history>>
  /\ UNCHANGED <<width, plugged, counter>>

SamplingNext ==
  \/ \E busy \in {0, 1} : Elapse(busy)
  \/ Unplug \/ Plug \/ StartMonitors \/ UpdateOnce \/ StopMonitors

SamplingSpec == SamplingInit /\ [][SamplingNext]_<<vars, disk>>

-----------------------------------------------------------------------------
\* A reported difference is what happened on the disk since the previous
\* round, although the counters wrap and the code tests for neither a wrap nor
\* a reset: exactly for full-width counters, and for times unless the printed
\* value wrapped, which makes it too large by the difference of the widths.
\* Only a disk that was unplugged in between is reported otherwise.
DiskDeltaExact ==
  report.rated /\ ~report.replaced =>
    report.change - report.truth \in {0, Word - width}

\* Rounds are a second or more apart, and whole seconds measure them well
\* enough: dt is never 0, so that every request goes into a rate, and it makes
\* util_percent wrong by less than a factor of two: a disk that is always busy
\* shows less than 200 %.
WholeSecondsSuffice ==
  /\ missed = 0
  /\ report.rated /\ ~report.replaced /\ report.change < Word - Printed =>
       report.change < 2 * report.dt * TicksPerSecond
=============================================================================
