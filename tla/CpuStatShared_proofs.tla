------------------------ MODULE CpuStatShared_proofs ------------------------
(***************************************************************************)
(* Proofs about CpuStatShared for any number of fields and retries and any *)
(* even range of the counter.  The type invariant and the permanence of    *)
(* the mapping hold of every build; that no torn snapshot is used needs    *)
(* the build that loads seq again after the copy (Reread).                 *)
(*                                                                         *)
(* The argument: seq is the number of half-samples taken so far, modulo    *)
(* its range.  An attempt that starts at an even value sees, in every      *)
(* field it copies, the sample complete at its start unless a later sample *)
(* has begun since; when seq has its first value again, and less than a    *)
(* full turn of it has passed, none has.                                   *)
(***************************************************************************)
EXTENDS CpuStatShared, TLAPS

\* The half-samples taken so far: odd while one is being written.
HalfSamples == 2 * samples + (IF writing THEN 1 ELSE 0)

KernelInv ==
  /\ seq = HalfSamples % SeqModulus
  /\ \A f \in Field : region[f] = IF writing /\ f \notin todo
                                    THEN samples + 1 ELSE samples

ReaderInv ==
  rpc = "copy" =>
    /\ base <= samples
    /\ before = (2 * base) % SeqModulus
    /\ 2 * (samples + (IF writing THEN 1 ELSE 0) - base) < SeqModulus
    /\ HalfSamples = 2 * base =>
         \A f \in Field : snap[f] # -1 => snap[f] = base

\* While attempts are made, one is left.
AttemptInv == rpc \in {"attempt", "copy"} => attempt < Retries

IInv == TypeOK /\ AttemptInv /\ KernelInv /\ ReaderInv

-----------------------------------------------------------------------------
\* A remainder is below the modulus.
LEMMA ModRange ==
  ASSUME NEW m \in Nat \ {0}, NEW a \in Nat
  PROVE  a % m \in 0 .. m - 1
  OBVIOUS

\* Two numbers less than a turn apart with the same remainder are equal.
LEMMA ModEqual ==
  ASSUME NEW m \in Nat \ {0}, NEW a \in Nat, NEW b \in Nat,
         a <= b, b < a + m, a % m = b % m
  PROVE  a = b
<1> DEFINE p == a \div m
           q == b \div m
<1>1. p \in Int /\ q \in Int
  OBVIOUS
<1>2. a = m * p + (a % m) /\ b = m * q + (b % m)
  OBVIOUS
<1>3. b - a = m * (q - p)
  BY <1>1, <1>2
<1> HIDE DEF p, q
<1>4. q - p >= 1 => m * (q - p) >= m
  BY <1>1
<1>5. q - p <= -1 => m * (q - p) <= -m
  BY <1>1
<1>6. QED
  BY <1>1, <1>3, <1>4, <1>5

\* Stepping a counter that wraps around.
LEMMA ModStep ==
  ASSUME NEW m \in Nat \ {0}, NEW a \in Nat
  PROVE  ((a % m) + 1) % m = (a + 1) % m
<1> DEFINE p == a \div m
           r == a % m
           q == (a + 1) \div m
           s == (a + 1) % m
<1>1. p \in Int /\ q \in Int /\ r \in 0 .. m - 1 /\ s \in 0 .. m - 1
  OBVIOUS
<1>2. a = m * p + r /\ a + 1 = m * q + s
  OBVIOUS
<1>3. m * (q - p) = (r + 1) - s
  BY <1>1, <1>2
<1> HIDE DEF p, q, r, s
<1>4. q - p >= 2 => m * (q - p) >= m + m
  BY <1>1
<1>5. q - p <= -1 => m * (q - p) <= -m
  BY <1>1
<1>6. q - p \in {0, 1}
  BY <1>1, <1>3, <1>4, <1>5
<1>7. s = IF r + 1 < m THEN r + 1 ELSE 0
  <2>1. CASE q - p = 0
    BY <1>1, <1>3, <2>1
  <2>2. CASE q - p = 1
    BY <1>1, <1>3, <2>2
  <2>3. QED
    BY <1>6, <2>1, <2>2
<1>8. (r + 1) % m = IF r + 1 < m THEN r + 1 ELSE 0
  <2>1. CASE r + 1 < m
    BY <1>1, <2>1
  <2>2. CASE r + 1 = m
    BY <1>1, <2>2
  <2>3. QED
    BY <1>1, <2>1, <2>2
<1>9. QED
  BY <1>7, <1>8 DEF r, s

\* The parity of a counter with an even range is that of the count.
LEMMA ModParity ==
  ASSUME NEW m \in Nat \ {0}, m % 2 = 0, NEW n \in Nat
  PROVE  ((2 * n + 1) % m) % 2 # 0
<1> DEFINE a == 2 * n + 1
           p == a \div m
           h == m \div 2
<1>1. p \in Int /\ h \in Int /\ a \in Nat
  OBVIOUS
<1>2. a = m * p + (a % m)
  BY <1>1
<1>3. m = 2 * h
  OBVIOUS
<1>4. m * p = 2 * (h * p)
  BY <1>1, <1>3
<1>5. a % m = 2 * (n - h * p) + 1
  BY <1>1, <1>2, <1>4
<1>6. n - h * p \in Int
  BY <1>1
<1>7. QED
  BY <1>5, <1>6
-----------------------------------------------------------------------------
\* A loaded module and a worker that has not mapped the page.
LEMMA InitIInv == Init => IInv
<1> SUFFICES ASSUME Init PROVE IInv
  OBVIOUS
<1>1. TypeOK /\ AttemptInv
  <2>1. NoSnapshot \in [Field -> Nat \cup {-1}]
    BY DEF NoSnapshot
  <2>2. [f \in Field |-> 0] \in [Field -> Nat]
    OBVIOUS
  <2>3. 0 \in 0 .. SeqModulus - 1 /\ -1 \in -1 .. SeqModulus - 1
        /\ 0 \in 0 .. Retries
    BY ModulusAssumption, RetriesAssumption
  <2>4. QED
    BY <2>1, <2>2, <2>3 DEF Init, TypeOK, AttemptInv
<1>2. KernelInv
  <2>1. HalfSamples = 0 /\ 0 % SeqModulus = 0
    BY ModulusAssumption DEF Init, HalfSamples
  <2>2. QED
    BY <2>1 DEF Init, KernelInv
<1>3. ReaderInv
  BY DEF Init, ReaderInv
<1>4. QED
  BY <1>1, <1>2, <1>3 DEF IInv

\* Types survive every step of the kernel and of the reader.
LEMMA TypeStep ==
  ASSUME TypeOK, AttemptInv, [Next]_vars
  PROVE  TypeOK' /\ AttemptInv'
<1> USE FieldAssumption, ModulusAssumption, RetriesAssumption DEF TypeOK, AttemptInv
<1>1. CASE ModuleInit
  BY <1>1 DEF ModuleInit, reader
<1>2. CASE CollectBegin
  BY <1>2, ModRange DEF CollectBegin, reader
<1>3. CASE CollectEnd
  <2>1. seq + 1 \in Nat
    OBVIOUS
  <2>2. seq' \in 0 .. SeqModulus - 1
    BY <1>3, <2>1, ModRange DEF CollectEnd
  <2>3. UNCHANGED reader /\ UNCHANGED <<loaded, region, todo>>
    BY <1>3 DEF CollectEnd
  <2>4. UNCHANGED <<mapped, rpc, attempt, before, base, snap, snapSeq, cached>>
    BY <2>3 DEF reader
  <2>5. samples \in Nat /\ samples' = samples + 1 /\ writing' = FALSE
    BY <1>3 DEF CollectEnd
  <2>6. writing' \in BOOLEAN
    BY <2>5, Zenon
  <2>7. samples' \in Nat
    BY <2>5
  <2>8. AttemptInv'
    BY <2>4
  <2>9. QED
    BY <2>2, <2>3, <2>4, <2>6, <2>7, <2>8
<1>4. ASSUME NEW f \in Field, CollectField(f) PROVE TypeOK' /\ AttemptInv'
  BY <1>4 DEF CollectField, reader
<1>5. CASE StartUpdate
  BY <1>5 DEF StartUpdate, kernel
<1>6. CASE LoadSeqBefore
  <2>1. NoSnapshot \in [Field -> Nat \cup {-1}]
    BY DEF NoSnapshot
  <2>2. attempt' \in 0 .. Retries /\ AttemptInv'
        /\ rpc' \in {"idle", "attempt", "copy", "validate"}
    <3>1. rpc = "attempt"
      BY <1>6 DEF LoadSeqBefore
    <3>2. QED
      BY <1>6, <3>1 DEF LoadSeqBefore, AttemptFailed
  <2>3. QED
    BY <1>6, <2>1, <2>2 DEF LoadSeqBefore, kernel
<1>7. CASE CopySeq
  BY <1>7 DEF CopySeq, kernel
<1>8. ASSUME NEW f \in Field, CopyField(f) PROVE TypeOK' /\ AttemptInv'
  BY <1>8 DEF CopyField, kernel
<1>9. CASE CheckSnapshot
  BY <1>9 DEF CheckSnapshot, AttemptFailed, kernel
<1>10. CASE Validate
  BY <1>10 DEF Validate, kernel
<1>11. CASE UNCHANGED vars
  BY <1>11 DEF vars
<1>12. QED
  BY <1>1, <1>2, <1>3, <1>4, <1>5, <1>6, <1>7, <1>8, <1>9, <1>10, <1>11
     DEF Next, KernelNext, ReaderNext, CopyNext
-----------------------------------------------------------------------------
\* seq counts half-samples and the fields follow it.
LEMMA KernelStep ==
  ASSUME TypeOK, KernelInv, [Next]_vars
  PROVE  KernelInv'
<1> USE DEF TypeOK
<1>1. CASE ModuleInit
  BY <1>1 DEF ModuleInit, KernelInv, HalfSamples
<1>2. CASE CollectBegin
  <2>1. /\ HalfSamples \in Nat /\ HalfSamples' = HalfSamples + 1
        /\ writing' /\ ~writing /\ samples' = samples
        /\ seq' = (seq + 1) % SeqModulus
        /\ todo' = Field /\ region' = region
    BY <1>2 DEF CollectBegin, HalfSamples
  <2>2. seq' = (HalfSamples + 1) % SeqModulus
    BY <2>1, ModStep, ModulusAssumption DEF KernelInv
  <2>3. QED
    BY <2>1, <2>2 DEF KernelInv
<1>3. CASE CollectEnd
  <2>1. /\ HalfSamples \in Nat /\ HalfSamples' = HalfSamples + 1
        /\ ~writing' /\ writing /\ samples' = samples + 1
        /\ seq' = (seq + 1) % SeqModulus
        /\ todo = {} /\ region' = region
    BY <1>3 DEF CollectEnd, HalfSamples
  <2>2. seq' = (HalfSamples + 1) % SeqModulus
    BY <2>1, ModStep, ModulusAssumption DEF KernelInv
  <2>3. \A f \in Field : region[f] = samples + 1
    BY <2>1 DEF KernelInv
  <2>4. QED
    BY <2>1, <2>2, <2>3 DEF KernelInv
<1>4. ASSUME NEW f \in Field, CollectField(f) PROVE KernelInv'
  <2>1. /\ writing /\ writing' = writing /\ samples' = samples /\ seq' = seq
        /\ region' = [region EXCEPT ![f] = samples + 1]
        /\ todo' = todo \ {f} /\ f \in todo
    BY <1>4 DEF CollectField
  <2>2. HalfSamples' = HalfSamples
    BY <2>1 DEF HalfSamples
  <2>3. \A g \in Field : region'[g] = IF g \notin todo' THEN samples + 1 ELSE samples
    BY <2>1 DEF KernelInv
  <2>4. QED
    BY <2>1, <2>2, <2>3 DEF KernelInv
<1>5. CASE UNCHANGED kernel
  BY <1>5 DEF kernel, KernelInv, HalfSamples
<1>6. QED
  <2>1. ReaderNext \/ UNCHANGED vars => UNCHANGED kernel
    BY DEF ReaderNext, StartUpdate, LoadSeqBefore, CopyNext, CopySeq,
           CopyField, CheckSnapshot, Validate, kernel, vars
  <2>2. QED
    BY <1>1, <1>2, <1>3, <1>4, <1>5, <2>1 DEF Next, KernelNext

\* An attempt knows how far the region has moved since it began.
LEMMA ReaderStep ==
  ASSUME TypeOK, KernelInv, ReaderInv, [Next]_vars
  PROVE  ReaderInv'
<1> USE DEF TypeOK
<1> SUFFICES ASSUME rpc' = "copy"
             PROVE  /\ base' <= samples'
                    /\ before' = (2 * base') % SeqModulus
                    /\ 2 * (samples' + (IF writing' THEN 1 ELSE 0) - base')
                         < SeqModulus
                    /\ HalfSamples' = 2 * base' =>
                         \A f \in Field : snap'[f] # -1 => snap'[f] = base'
  BY DEF ReaderInv
<1>1. CASE ModuleInit
  BY <1>1 DEF ModuleInit, ReaderInv, HalfSamples, reader
<1>2. CASE CollectBegin
  BY <1>2 DEF CollectBegin, AttemptIsShort, ReaderInv, HalfSamples, reader
<1>3. CASE CollectEnd
  BY <1>3 DEF CollectEnd, ReaderInv, HalfSamples, reader
<1>4. ASSUME NEW f \in Field, CollectField(f) PROVE ReaderInv'
  BY <1>4 DEF CollectField, ReaderInv, HalfSamples, reader
<1>5. CASE LoadSeqBefore
  <2>1. /\ seq % 2 = 0 /\ before' = seq /\ base' = samples
        /\ snap' = NoSnapshot /\ UNCHANGED kernel
    BY <1>5 DEF LoadSeqBefore, AttemptFailed
  <2>2. ~writing
    BY <2>1, ModParity, ModulusAssumption DEF KernelInv, HalfSamples
  <2>3. before' = (2 * base') % SeqModulus
    BY <2>1, <2>2 DEF KernelInv, HalfSamples
  <2>4. QED
    BY <2>1, <2>2, <2>3, ModulusAssumption DEF kernel, NoSnapshot
<1>6. CASE CopySeq
  BY <1>6 DEF CopySeq, ReaderInv, HalfSamples, kernel
<1>7. ASSUME NEW f \in Field, CopyField(f) PROVE ReaderInv'
  <2>1. /\ rpc = "copy" /\ snap' = [snap EXCEPT ![f] = region[f]]
        /\ UNCHANGED <<base, before, samples, writing>>
    BY <1>7 DEF CopyField, kernel
  <2>2. HalfSamples' = HalfSamples
    BY <2>1 DEF HalfSamples
  <2>3. ASSUME HalfSamples = 2 * base PROVE region[f] = base
    <3>1. ~writing /\ samples = base
      BY <2>3 DEF HalfSamples
    <3>2. QED
      BY <3>1 DEF KernelInv
  <2>4. QED
    BY <2>1, <2>2, <2>3 DEF ReaderInv
<1>8. CASE StartUpdate
  BY <1>8 DEF StartUpdate
<1>9. CASE CheckSnapshot
  BY <1>9 DEF CheckSnapshot, AttemptFailed
<1>10. CASE Validate
  BY <1>10 DEF Validate
<1>11. CASE UNCHANGED vars
  BY <1>11 DEF vars, ReaderInv, HalfSamples
<1>12. QED
  BY <1>1, <1>2, <1>3, <1>4, <1>5, <1>6, <1>7, <1>8, <1>9, <1>10, <1>11
     DEF Next, KernelNext, ReaderNext, CopyNext, ReaderInv

\* The inductive invariant of the kernel's timer and the worker's copy loop.
THEOREM Invariance == Spec => []IInv
<1>1. IInv /\ [Next]_vars => IInv'
  BY TypeStep, KernelStep, ReaderStep DEF IInv
<1>2. QED
  BY InitIInv, <1>1, PTL DEF Spec
-----------------------------------------------------------------------------
\* What a snapshot that passes the comparisons is made of.
LEMMA AcceptedSnapshot ==
  ASSUME IInv, Reread, CheckSnapshot, cached' # cached
  PROVE  /\ cached' = snap /\ base = samples /\ base # 0
         /\ \A f \in Field : snap[f] = base
<1> USE DEF IInv, TypeOK
<1>1. /\ rpc = "copy" /\ Copied /\ Consistent /\ snap[Header] # 0
      /\ cached' = snap
  BY DEF CheckSnapshot
<1>2. seq = before
  BY <1>1 DEF Consistent
<1>3. /\ base <= samples
      /\ (2 * base) % SeqModulus = HalfSamples % SeqModulus
      /\ 2 * (samples + (IF writing THEN 1 ELSE 0) - base) < SeqModulus
  BY <1>1, <1>2 DEF ReaderInv, KernelInv
<1>4. /\ HalfSamples \in Nat /\ 2 * base \in Nat
      /\ 2 * base <= HalfSamples /\ HalfSamples < 2 * base + SeqModulus
  BY <1>3, ModulusAssumption DEF HalfSamples
<1>5. 2 * base = HalfSamples
  BY <1>3, <1>4, ModEqual, ModulusAssumption
<1>6. base = samples
  BY <1>5 DEF HalfSamples
<1>7. \A f \in Field : snap[f] = base
  BY <1>1, <1>5 DEF ReaderInv, Copied
<1>8. QED
  BY <1>1, <1>6, <1>7, FieldAssumption

\* A snapshot enters the cache in the comparison of the two loads only.
LEMMA OnlyCheckCaches ==
  ASSUME [Next]_vars, cached' # cached
  PROVE  CheckSnapshot
  BY DEF Next, KernelNext, ReaderNext, CopyNext, ModuleInit, CollectBegin,
         CollectEnd, CollectField, StartUpdate, LoadSeqBefore, CopySeq,
         CopyField, Validate, reader, vars

\* UpdateOnce unmaps in one place.
LEMMA OnlyValidateUnmaps ==
  ASSUME [Next]_vars, mapped, ~mapped'
  PROVE  Validate
  BY DEF Next, KernelNext, ReaderNext, CopyNext, ModuleInit, CollectBegin,
         CollectEnd, CollectField, StartUpdate, LoadSeqBefore, CopySeq,
         CopyField, CheckSnapshot, reader, vars

\* The counters, flags and copies stay in range in every build.
THEOREM TypeCorrect == Spec => []TypeOK
<1>1. IInv => TypeOK
  BY DEF IInv
<1>2. QED
  BY <1>1, Invariance, PTL

\* In a build that loads seq again after the copy, no snapshot that mixes two
\* samples is ever used, whatever the timing, the number of CPUs and the
\* range of the counter.
THEOREM NoTornSnapshotUsed == Reread => (Spec => []NoTornSnapshot)
<1> SUFFICES ASSUME Reread PROVE Spec => []NoTornSnapshot
  OBVIOUS
<1>1. Init => NoTornSnapshot
  BY DEF Init, NoTornSnapshot
<1>2. IInv /\ NoTornSnapshot /\ [Next]_vars => NoTornSnapshot'
  <2> SUFFICES ASSUME IInv, NoTornSnapshot, [Next]_vars PROVE NoTornSnapshot'
    OBVIOUS
  <2>1. CASE cached' = cached
    BY <2>1 DEF NoTornSnapshot, Untorn
  <2>2. CASE cached' # cached
    <3>1. /\ cached' = snap /\ base # 0
          /\ \A f \in Field : snap[f] = base
      BY <2>2, OnlyCheckCaches, AcceptedSnapshot
    <3>2. base > 0
      BY <3>1 DEF IInv, TypeOK
    <3>3. QED
      BY <3>1, <3>2, FieldAssumption DEF NoTornSnapshot, Untorn
  <2>3. QED
    BY <2>1, <2>2
<1>3. QED
  BY <1>1, <1>2, Invariance, PTL DEF Spec

\* ... and the snapshot used is the sample that was current when the attempt
\* began.
THEOREM AcceptedSnapshotIsCurrent == Reread => (Spec => SnapshotIsCurrent)
<1> SUFFICES ASSUME Reread PROVE Spec => SnapshotIsCurrent
  OBVIOUS
<1>1. IInv /\ [Next]_vars =>
        [cached' # cached => /\ \A f \in Field : cached'[f] >= base
                             /\ \A f \in Field : cached'[f] <= samples]_vars
  BY OnlyCheckCaches, AcceptedSnapshot DEF IInv, TypeOK
<1>2. QED
  BY <1>1, Invariance, PTL DEF Spec, SnapshotIsCurrent

\* In every build, a region that holds a sample is never unmapped.
THEOREM MappingIsPermanent == Spec => LiveRegionStaysMapped
<1>1. IInv /\ [Next]_vars => [mapped /\ ~mapped' => samples = 0]_vars
  <2> SUFFICES ASSUME IInv, [Next]_vars, mapped, ~mapped' PROVE samples = 0
    OBVIOUS
  <2>1. region[Header] = 0
    BY OnlyValidateUnmaps DEF Validate
  <2>2. QED
    BY <2>1, FieldAssumption DEF IInv, TypeOK, KernelInv
<1>2. QED
  BY <1>1, Invariance, PTL DEF Spec, LiveRegionStaysMapped
=============================================================================
