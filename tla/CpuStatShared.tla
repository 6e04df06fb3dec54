--------------------------- MODULE CpuStatShared ---------------------------
(***************************************************************************)
(* The page that the kernel module kernel/cpu_stat_module fills once a     *)
(* second and the worker's CpuStatMonitor maps and copies, guarded by the  *)
(* sequence counter of shared/cpu_stat_shared.h: odd while a sample is     *)
(* being written, even when the region is stable.                          *)
(*                                                                         *)
(* A field of the region holds the number of the sample that wrote it      *)
(* last, 0 being the zero-filled page before the first sample; this is all *)
(* that "torn" and "stale" need.  The reader's memcpy reads one field per  *)
(* step, in any order, and so does the writer store them: smp_wmb orders   *)
(* the stores to seq against the fields, not the fields among themselves.  *)
(*                                                                         *)
(* The reader's loads of seq are plain loads of memory that another agent  *)
(* writes, a data race: a compiler may use the first load for all of them. *)
(* Reread says whether the build loads seq again (gcc -O0, the build of    *)
(* CMakeLists.txt as it stands) or not (what gcc -O2 makes of the loop).   *)
(***************************************************************************)
EXTENDS Integers, FiniteSets

CONSTANTS
  Field,        \* the fields of the region other than seq
  Header,       \* the one that holds version and cpu_count
  SeqModulus,   \* 2^32, the range of the uint32_t seq
  Retries,      \* kSharedRegionReadRetryTimes
  Reread,       \* does the compiled reader load seq a second time?
  MaxSamples    \* bound: samples the timer takes in a run

ASSUME FieldAssumption == Header \in Field
ASSUME ModulusAssumption ==
  SeqModulus \in Nat \ {0} /\ SeqModulus % 2 = 0
ASSUME RetriesAssumption == Retries \in Nat \ {0}
ASSUME RereadAssumption == Reread \in BOOLEAN
ASSUME MaxSamplesAssumption == MaxSamples \in Nat

NoSnapshot == [f \in Field |-> -1]

VARIABLES
  loaded,       \* the module is loaded: the device exists
  seq,          \* region->seq
  region,       \* the other fields: the sample that wrote each of them last
  todo,         \* the fields the sample being written has still to store
  writing,      \* inside collect_all_cpu_stats
  samples,      \* history: samples completed
  mapped,       \* mapped_region_ # nullptr
  rpc,          \* where the reader is in UpdateOnce
  attempt,      \* the loop counter of CopyMappedCpuStats
  before,       \* seq_before
  base,         \* history: samples completed when seq_before was loaded
  snap,         \* the local copy, -1 where memcpy has not been yet
  snapSeq,      \* snapshot.seq, -1 before it was copied
  cached        \* cpu_stat_map_: the snapshot used last, or NoSnapshot

kernel == <<loaded, seq, region, todo, writing, samples>>
reader == <<mapped, rpc, attempt, before, base, snap, snapSeq, cached>>
vars == <<loaded, seq, region, todo, writing, samples,
          mapped, rpc, attempt, before, base, snap, snapSeq, cached>>

Init ==
  /\ loaded = FALSE
  /\ seq = 0 /\ region = [f \in Field |-> 0]
  /\ todo = {} /\ writing = FALSE /\ samples = 0
  /\ mapped = FALSE /\ rpc = "idle" /\ attempt = 0
  /\ before = 0 /\ base = 0
  /\ snap = NoSnapshot /\ snapSeq = -1 /\ cached = NoSnapshot

-----------------------------------------------------------------------------
\* insmod: the zeroed region and its device exist from misc_register on, the
\* first sample is taken after that.
ModuleInit ==
  /\ ~loaded
  /\ loaded' = TRUE
  /\ UNCHANGED <<seq, region, todo, writing, samples, reader>>

\* An attempt to copy lasts less than SeqModulus / 2 sampling periods.
AttemptIsShort ==
  rpc = "copy" => 2 * (samples + 1 - base) < SeqModulus

\* Mutant: the counter is only advanced once the fields are written.
CollectBeginSilently ==
  /\ loaded /\ ~writing
  /\ samples < MaxSamples
  /\ AttemptIsShort
  /\ writing' = TRUE
  /\ todo' = Field
  /\ UNCHANGED <<loaded, seq, region, samples, reader>>

\* collect_all_cpu_stats starts: seq becomes odd before any field is stored.
CollectBegin ==
  /\ loaded /\ ~writing
  /\ samples < MaxSamples
  /\ AttemptIsShort
  /\ writing' = TRUE
  /\ todo' = Field
  /\ seq' = (seq + 1) % SeqModulus
  /\ UNCHANGED <<loaded, region, samples, reader>>

\* One field of the sample is stored.
CollectField(f) ==
  /\ writing /\ f \in todo
  /\ region' = [region EXCEPT ![f] = samples + 1]
  /\ todo' = todo \ {f}
  /\ UNCHANGED <<loaded, seq, writing, samples, reader>>

\* ... and ends: seq is even again once every field is stored.
CollectEnd ==
  /\ writing /\ todo = {}
  /\ writing' = FALSE
  /\ samples' = samples + 1
  /\ seq' = (seq + 1) % SeqModulus
  /\ UNCHANGED <<loaded, region, todo, reader>>

-----------------------------------------------------------------------------
\* EnsureMapped of an UpdateOnce: maps the device unless that was done
\* before, and goes on to the first attempt.
StartUpdate ==
  /\ rpc = "idle"
  /\ loaded
  /\ mapped' = TRUE
  /\ rpc' = "attempt"
  /\ attempt' = 0
  /\ UNCHANGED <<before, base, snap, snapSeq, cached, kernel>>

\* Mutant of AttemptFailed: the attempt is not counted.
AttemptUncounted ==
  /\ attempt' = attempt
  /\ rpc' = IF attempt + 1 < Retries THEN "attempt" ELSE "validate"

\* After an attempt that failed: another one, or UpdateOnce's error branch.
AttemptFailed ==
  /\ attempt' = attempt + 1
  /\ rpc' = IF attempt + 1 < Retries THEN "attempt" ELSE "validate"

\* seq_before is loaded: an odd value means a sample is being written.
LoadSeqBefore ==
  /\ rpc = "attempt"
  /\ before' = seq
  /\ base' = samples
  /\ snap' = NoSnapshot /\ snapSeq' = -1
  /\ \/ /\ seq % 2 # 0
        /\ AttemptFailed
     \/ /\ seq % 2 = 0
        /\ rpc' = "copy"
        /\ UNCHANGED attempt
  /\ UNCHANGED <<mapped, cached, kernel>>

\* memcpy(&snapshot, region, ...), one field at a time.
CopyField(f) ==
  /\ rpc = "copy" /\ snap[f] = -1
  /\ snap' = [snap EXCEPT ![f] = region[f]]
  /\ UNCHANGED <<mapped, rpc, attempt, before, base, snapSeq, cached, kernel>>

CopySeq ==
  /\ rpc = "copy" /\ snapSeq = -1
  /\ snapSeq' = seq
  /\ UNCHANGED <<mapped, rpc, attempt, before, base, snap, cached, kernel>>

Copied == snapSeq # -1 /\ \A f \in Field : snap[f] # -1

\* Mutant of Consistent: the second load is not compared with the first.
ConsistentIfEven == Reread => seq % 2 = 0 /\ snapSeq = before

\* The comparisons after the copy; a build that kept the first load of seq
\* in a register finds them all true.
Consistent == Reread => seq = before /\ snapSeq = before

\* Mutant of CheckSnapshot: the snapshot in use is replaced before the check.
CacheBeforeCheck ==
  /\ rpc = "copy" /\ Copied
  /\ cached' = snap
  /\ \/ ~Consistent /\ AttemptFailed
     \/ Consistent /\ rpc' = "idle" /\ UNCHANGED attempt
  /\ UNCHANGED <<mapped, before, base, snap, snapSeq, kernel>>

\* seq_after is loaded and compared, and a snapshot whose header is valid
\* becomes the new entry of cpu_stat_map_.
CheckSnapshot ==
  /\ rpc = "copy" /\ Copied
  /\ \/ /\ ~Consistent
        /\ AttemptFailed
        /\ UNCHANGED cached
     \/ /\ Consistent /\ snap[Header] = 0
        /\ rpc' = "validate"
        /\ UNCHANGED <<attempt, cached>>
     \/ /\ Consistent /\ snap[Header] # 0
        /\ cached' = snap
        /\ rpc' = "idle"
        /\ UNCHANGED attempt
  /\ UNCHANGED <<mapped, before, base, snap, snapSeq, kernel>>

\* Mutant of Validate: every failed copy unmaps the region.
UnmapOnFailure ==
  /\ rpc = "validate"
  /\ mapped' = FALSE
  /\ rpc' = "idle"
  /\ UNCHANGED <<attempt, before, base, snap, snapSeq, cached, kernel>>

\* The error branch of UpdateOnce: the live header is looked at again, and
\* only an invalid one unmaps the region (Stop).
Validate ==
  /\ rpc = "validate"
  /\ mapped' = (region[Header] # 0)
  /\ rpc' = "idle"
  /\ UNCHANGED <<attempt, before, base, snap, snapSeq, cached, kernel>>

KernelNext ==
  \/ ModuleInit \/ CollectBegin \/ CollectEnd
  \/ \E f \in Field : CollectField(f)

CopyNext == CopySeq \/ \E f \in Field : CopyField(f)

ReaderNext ==
  \/ StartUpdate \/ LoadSeqBefore \/ CopyNext \/ CheckSnapshot \/ Validate

Next == KernelNext \/ ReaderNext

\* The push thread calls UpdateOnce and runs it to its end; the module's
\* timer is the kernel's business, and may stop (hrtimer_cancel).
Fairness == WF_vars(LoadSeqBefore \/ CopyNext \/ CheckSnapshot \/ Validate)

Spec == Init /\ [][Next]_vars /\ Fairness

-----------------------------------------------------------------------------
\* Values the fields and the copies can hold.
TypeOK ==
  /\ loaded \in BOOLEAN /\ writing \in BOOLEAN /\ mapped \in BOOLEAN
  /\ seq \in 0 .. SeqModulus - 1 /\ before \in 0 .. SeqModulus - 1
  /\ region \in [Field -> Nat]
  /\ todo \in SUBSET Field
  /\ samples \in Nat /\ base \in Nat
  /\ rpc \in {"idle", "attempt", "copy", "validate"}
  /\ attempt \in 0 .. Retries
  /\ snap \in [Field -> Nat \cup {-1}]
  /\ snapSeq \in -1 .. SeqModulus - 1
  /\ cached \in [Field -> Nat \cup {-1}]

\* All fields of s were written by the same sample, the zero page excluded.
Untorn(s) == s[Header] > 0 /\ \A f \in Field : s[f] = s[Header]

\* "a seq field is used to avoid reading a half-written snapshot": whatever
\* the timer does while the region is copied, and with the counter wrapping
\* around, the snapshot CpuStatMonitor computes percentages from was taken
\* by a single run of collect_all_cpu_stats.
NoTornSnapshot == cached = NoSnapshot \/ Untorn(cached)

\* The snapshot that is accepted was the region's contents at a moment of
\* the accepting call: no older than the last sample completed before the
\* attempt began, so that no two pushes report a stale CPU.
SnapshotIsCurrent ==
  [][cached' # cached => /\ \A f \in Field : cached'[f] >= base
                         /\ \A f \in Field : cached'[f] <= samples]_vars

\* Once a sample is complete the mapping is kept, however often the reader
\* collides with the timer: a busy region is not taken for an invalid one.
LiveRegionStaysMapped == [][mapped /\ ~mapped' => samples = 0]_vars

\* Every UpdateOnce ends, although it may lose each of its attempts to the
\* timer: it gives up rather than hold the push loop.
UpdateEnds == (rpc # "idle") ~> (rpc = "idle")
=============================================================================
