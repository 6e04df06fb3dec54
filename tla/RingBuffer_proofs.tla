------------------------- MODULE RingBuffer_proofs -------------------------
(***************************************************************************)
(* Proofs about RingBuffer, for every capacity and every kind of item: the *)
(* indices stay in range, no live slot was emptied, and the ring           *)
(* implements KeepNewest.                                                  *)
(***************************************************************************)
EXTENDS RingBuffer, SequenceTheorems, TLAPS

\* Arithmetic of an index that wraps around once.
LEMMA ModSmall ==
  ASSUME NEW c \in Nat \ {0}, NEW a \in Nat, a < c
  PROVE  a % c = a
  OBVIOUS

\* The slot n places after slot s, without the modulus.
LEMMA AheadValue ==
  ASSUME NEW s \in Slot, NEW n \in 0 .. Capacity
  PROVE  /\ Ahead(s, n) = IF s + n < Capacity THEN s + n ELSE s + n - Capacity
         /\ Ahead(s, n) \in Slot
<1> DEFINE a == s + n
<1>1. Capacity \in Nat \ {0} /\ a \in Nat /\ a < Capacity + Capacity
  BY CapacityAssumption DEF Slot
<1> HIDE DEF a
<1>2. a % Capacity = IF a < Capacity THEN a ELSE a - Capacity
  <2>1. CASE a < Capacity
    BY <1>1, <2>1, ModSmall
  <2>2. CASE Capacity <= a
    BY <1>1, <2>2
  <2>3. QED
    BY <1>1, <2>1, <2>2
<1>3. QED
  BY <1>1, <1>2 DEF a, Ahead, Slot

\* Two positions less than a round apart never share a slot.
LEMMA SlotsDiffer ==
  ASSUME NEW s \in Slot, NEW i \in 0 .. Capacity, NEW j \in 0 .. Capacity,
         i < j, j - i < Capacity
  PROVE  Ahead(s, i) # Ahead(s, j)
<1>1. Ahead(s, i) = IF s + i < Capacity THEN s + i ELSE s + i - Capacity
  BY AheadValue
<1>2. Ahead(s, j) = IF s + j < Capacity THEN s + j ELSE s + j - Capacity
  BY AheadValue
<1>3. QED
  BY <1>1, <1>2, CapacityAssumption DEF Slot

\* Going one place and then n more is going n + 1 places.
LEMMA AheadAhead ==
  ASSUME NEW s \in Slot, NEW n \in 0 .. Capacity - 1
  PROVE  /\ Ahead(Ahead(s, 1), n) = Ahead(s, n + 1)
         /\ Ahead(Ahead(s, n), 1) = Ahead(s, n + 1)
<1> USE CapacityAssumption
<1>1. Ahead(s, 1) \in Slot /\ Ahead(s, n) \in Slot
  BY AheadValue
<1>2. Ahead(s, 1) = IF s + 1 < Capacity THEN s + 1 ELSE s + 1 - Capacity
  BY AheadValue
<1>3. Ahead(s, n) = IF s + n < Capacity THEN s + n ELSE s + n - Capacity
  BY AheadValue
<1>4. Ahead(s, n + 1) = IF s + (n + 1) < Capacity THEN s + (n + 1)
                                                  ELSE s + (n + 1) - Capacity
  BY AheadValue
<1>5. Ahead(Ahead(s, 1), n) = IF Ahead(s, 1) + n < Capacity
                                THEN Ahead(s, 1) + n
                                ELSE Ahead(s, 1) + n - Capacity
  BY <1>1, AheadValue
<1>6. Ahead(Ahead(s, n), 1) = IF Ahead(s, n) + 1 < Capacity
                                THEN Ahead(s, n) + 1
                                ELSE Ahead(s, n) + 1 - Capacity
  BY <1>1, AheadValue
<1>7. QED
  BY <1>2, <1>3, <1>4, <1>5, <1>6 DEF Slot

\* Dropping the first element of a sequence and appending a new one.
LEMMA SlideSeq ==
  ASSUME NEW S, NEW s \in Seq(S), s # <<>>, NEW x \in S
  PROVE  Append(Tail(s), x) =
           [i \in 1 .. Len(s) |-> IF i < Len(s) THEN s[i + 1] ELSE x]
<1> DEFINE t == Append(Tail(s), x)
<1>1. /\ Len(s) \in Nat \ {0} /\ Tail(s) \in Seq(S)
      /\ Len(Tail(s)) = Len(s) - 1
      /\ \A i \in 1 .. Len(Tail(s)) : Tail(s)[i] = s[i + 1]
  BY EmptySeq, HeadTailProperties
<1>2. /\ t \in Seq(S) /\ Len(t) = Len(s)
      /\ \A i \in 1 .. Len(s) - 1 : t[i] = s[i + 1]
      /\ t[Len(s)] = x
  BY <1>1, AppendProperties
<1>3. t = [i \in 1 .. Len(t) |-> t[i]]
  BY <1>2, LenProperties
<1> HIDE DEF t
<1>4. t = [i \in 1 .. Len(s) |-> IF i < Len(s) THEN s[i + 1] ELSE x]
  BY <1>1, <1>2, <1>3
<1>5. QED
  BY <1>4 DEF t

-----------------------------------------------------------------------------
\* The items from tail on.
LEMMA ContentsType ==
  ASSUME IInv
  PROVE  Contents \in Seq(Item) /\ Len(Contents) = size
  BY DEF IInv, TypeOK, LiveSlotsHoldItems, Contents

\* What a Push does to the contents, and that it preserves the invariant.
LEMMA PushStep ==
  ASSUME IInv, NEW x \in Item, Push(x)
  PROVE  IInv' /\ Abs!Push(x)
<1> USE CapacityAssumption
<1>1. /\ head \in Slot /\ tail \in Slot /\ size \in 0 .. Capacity
      /\ head = Ahead(tail, size)
      /\ buffer \in [Slot -> Item \cup {Moved}]
      /\ \A i \in 1 .. size : buffer[SlotOf(i)] \in Item
      /\ buffer' = [buffer EXCEPT ![head] = x]
      /\ head' = Ahead(head, 1)
      /\ out' = out /\ out \in Seq(Item)
  BY DEF IInv, TypeOK, IndicesAgree, LiveSlotsHoldItems, Push
<1>2. head' \in Slot /\ buffer' \in [Slot -> Item \cup {Moved}]
  BY <1>1, AheadValue
<1>3. CASE size < Capacity
  <2>1. size' = size + 1 /\ tail' = tail /\ size \in 0 .. Capacity - 1
    BY <1>1, <1>3 DEF Push
  <2>2. head' = Ahead(tail, size + 1)
    BY <1>1, <2>1, AheadAhead
  <2>3. \A i \in 1 .. size : SlotOf(i)' = SlotOf(i) /\ SlotOf(i) # head
                              /\ SlotOf(i) \in Slot
    <3>1. TAKE i \in 1 .. size
    <3>2. /\ i - 1 \in 0 .. Capacity /\ size \in 0 .. Capacity
          /\ i - 1 < size /\ size - (i - 1) < Capacity
      BY <1>1, <2>1
    <3>3. Ahead(tail, i - 1) # Ahead(tail, size) /\ Ahead(tail, i - 1) \in Slot
      BY <1>1, <3>2, SlotsDiffer, AheadValue
    <3>4. QED
      BY <1>1, <2>1, <3>3 DEF SlotOf
  <2>4. \A i \in {size + 1} : SlotOf(i)' = head
    BY <1>1, <2>1 DEF SlotOf
  <2>5. \A i \in 1 .. size' : buffer'[SlotOf(i)'] =
                                IF i <= size THEN buffer[SlotOf(i)] ELSE x
    <3>1. TAKE i \in 1 .. size'
    <3>2. CASE i \in 1 .. size
      BY <1>1, <2>3, <3>2
    <3>3. CASE i = size + 1
      BY <1>1, <2>4, <3>3
    <3>4. QED
      BY <1>1, <2>1, <3>2, <3>3
  <2>6. Contents' = Append(Contents, x)
    <3>1. Contents' = [i \in 1 .. size + 1 |->
                         IF i <= size THEN buffer[SlotOf(i)] ELSE x]
      BY <2>1, <2>5 DEF Contents
    <3>2. Contents \in Seq(Item) /\ Len(Contents) = size
          /\ Contents = [i \in 1 .. size |-> buffer[SlotOf(i)]]
      BY ContentsType DEF Contents
    <3>3. Append(Contents, x) = [i \in 1 .. size + 1 |->
                         IF i <= size THEN buffer[SlotOf(i)] ELSE x]
      BY <1>1, <3>2
    <3>4. QED
      BY <3>1, <3>3
  <2>7. IInv'
    <3>1. TypeOK'
      BY <1>1, <1>2, <2>1 DEF TypeOK, Slot
    <3>2. IndicesAgree'
      BY <2>1, <2>2 DEF IndicesAgree
    <3>3. LiveSlotsHoldItems'
      BY <1>1, <2>1, <2>5 DEF LiveSlotsHoldItems
    <3>4. QED
      BY <3>1, <3>2, <3>3 DEF IInv
  <2>8. Abs!Push(x)
    BY <1>1, <1>3, <2>6, ContentsType DEF Abs!Push, Abs!Pushed
  <2>9. QED
    BY <2>7, <2>8
<1>4. CASE size >= Capacity
  <2>1. size' = size /\ tail' = Ahead(tail, 1) /\ size = Capacity
    BY <1>1, <1>4 DEF Push
  <2>2. head = tail /\ Ahead(tail, 0) = tail
    BY <1>1, <2>1, AheadValue DEF Slot
  <2>3. tail' \in Slot
    BY <1>1, <2>1, AheadValue
  <2>4. \A i \in 1 .. Capacity : SlotOf(i)' = Ahead(tail, i)
    <3>1. TAKE i \in 1 .. Capacity
    <3>2. i - 1 \in 0 .. Capacity - 1 /\ (i - 1) + 1 = i
      OBVIOUS
    <3>3. Ahead(Ahead(tail, 1), i - 1) = Ahead(tail, (i - 1) + 1)
      BY <1>1, <3>2, AheadAhead
    <3>4. QED
      BY <2>1, <3>2, <3>3 DEF SlotOf
  <2>5. \A i \in 1 .. Capacity - 1 : SlotOf(i)' = SlotOf(i + 1)
                                     /\ SlotOf(i + 1) # head
                                     /\ SlotOf(i + 1) \in Slot
    <3>1. TAKE i \in 1 .. Capacity - 1
    <3>2. Ahead(tail, 0) # Ahead(tail, i) /\ Ahead(tail, i) \in Slot
      BY <1>1, SlotsDiffer, AheadValue
    <3>3. SlotOf(i + 1) = Ahead(tail, i)
      <4>1. (i + 1) - 1 = i
        OBVIOUS
      <4>2. QED
        BY <4>1 DEF SlotOf
    <3>4. QED
      BY <2>2, <2>4, <3>2, <3>3
  <2>6. SlotOf(Capacity)' = head
    BY <1>1, <2>1, <2>4
  <2>7. \A i \in 1 .. size' : buffer'[SlotOf(i)'] =
                                IF i < Capacity THEN buffer[SlotOf(i + 1)] ELSE x
    BY <1>1, <2>1, <2>5, <2>6
  <2>8. Contents' = Append(Tail(Contents), x)
    <3>1. Contents' = [i \in 1 .. Capacity |->
                         IF i < Capacity THEN buffer[SlotOf(i + 1)] ELSE x]
      BY <2>1, <2>7 DEF Contents
    <3>2. Contents = [i \in 1 .. Capacity |-> buffer[SlotOf(i)]]
          /\ Contents \in Seq(Item) /\ Len(Contents) = Capacity
      BY <2>1, ContentsType DEF Contents
    <3>3. Contents # <<>>
      BY <3>2
    <3>4. Append(Tail(Contents), x) =
            [i \in 1 .. Len(Contents) |->
               IF i < Len(Contents) THEN Contents[i + 1] ELSE x]
      <4>1. Contents \in Seq(Item)
        BY <3>2
      <4>2. \A q \in Seq(Item) : q # <<>> =>
               Append(Tail(q), x) =
                 [i \in 1 .. Len(q) |-> IF i < Len(q) THEN q[i + 1] ELSE x]
        BY SlideSeq
      <4>3. QED
        BY <3>3, <4>1, <4>2
    <3>5. \A i \in 1 .. Capacity :
             (IF i < Capacity THEN buffer[SlotOf(i + 1)] ELSE x) =
             (IF i < Capacity THEN Contents[i + 1] ELSE x)
      BY <3>2
    <3>6. Contents' = [i \in 1 .. Capacity |->
                         IF i < Capacity THEN Contents[i + 1] ELSE x]
      BY <3>1, <3>5
    <3>7. QED
      BY <3>2, <3>4, <3>6
  <2>9. IInv'
    <3>1. TypeOK'
      BY <1>1, <1>2, <2>1, <2>3 DEF TypeOK
    <3>2. IndicesAgree'
      <4>1. Ahead(tail', Capacity) = tail'
        BY <2>3, AheadValue DEF Slot
      <4>2. QED
        BY <1>1, <2>1, <2>2, <4>1 DEF IndicesAgree
    <3>3. LiveSlotsHoldItems'
      <4>1. \A i \in 1 .. Capacity - 1 : buffer[SlotOf(i + 1)] \in Item
        BY <1>1, <2>1
      <4>2. QED
        BY <1>1, <2>1, <2>7, <4>1 DEF LiveSlotsHoldItems
    <3>4. QED
      BY <3>1, <3>2, <3>3 DEF IInv
  <2>10. Abs!Push(x)
    BY <1>1, <2>1, <2>8, ContentsType DEF Abs!Push, Abs!Pushed
  <2>11. QED
    BY <2>9, <2>10
<1>5. QED
  BY <1>1, <1>3, <1>4

\* The reset of Drain.
LEMMA AheadFromZero == 0 \in Slot /\ Ahead(0, 0) = 0
<1>1. 0 \in Slot /\ 0 \in 0 .. Capacity
  BY CapacityAssumption DEF Slot
<1>2. QED
  BY <1>1, AheadValue, CapacityAssumption

\* Drain empties the abstract buffer.
LEMMA DrainStep ==
  ASSUME IInv, Drain
  PROVE  IInv' /\ Abs!Drain
<1>1. Contents' = <<>>
  BY DEF Drain, Contents
<1>2. TypeOK'
  BY CapacityAssumption, ContentsType DEF IInv, TypeOK, Drain, Slot
<1>3. IndicesAgree' /\ LiveSlotsHoldItems'
  BY AheadFromZero DEF Drain, IndicesAgree, LiveSlotsHoldItems
<1>4. QED
  BY <1>1, <1>2, <1>3 DEF IInv, Abs!Drain, Drain

\* A new ring.
LEMMA InitIInv == Init => IInv
<1>1. ASSUME Init PROVE TypeOK
  BY <1>1, CapacityAssumption, AheadFromZero, EmptySeq DEF Init, TypeOK
<1>2. ASSUME Init PROVE IndicesAgree /\ LiveSlotsHoldItems
  BY <1>2, AheadFromZero DEF Init, IndicesAgree, LiveSlotsHoldItems
<1>3. QED
  BY <1>1, <1>2 DEF IInv

\* Without a step the items stay.
LEMMA StutterStep ==
  ASSUME IInv, UNCHANGED vars
  PROVE  IInv' /\ UNCHANGED Abs!vars
  BY DEF IInv, TypeOK, IndicesAgree, LiveSlotsHoldItems, vars, Abs!vars,
         Contents, SlotOf

-----------------------------------------------------------------------------
\* The inductive invariant of Push and Drain.
THEOREM Invariance == Spec => []IInv
<1>1. IInv /\ [Next]_vars => IInv'
  BY PushStep, DrainStep, StutterStep DEF Next
<1>2. QED
  BY InitIInv, <1>1, PTL DEF Spec

\* head_, tail_ and size_ stay in range for every capacity, and Drain only
\* hands over items that were pushed.
THEOREM TypeCorrect == Spec => []TypeOK
<1>1. IInv => TypeOK
  BY DEF IInv
<1>2. QED
  BY <1>1, Invariance, PTL

\* For every capacity, no slot the next Drain reads was left empty by an
\* earlier one.
THEOREM NoMovedItemIsLive == Spec => []LiveSlotsHoldItems
<1>1. IInv => LiveSlotsHoldItems
  BY DEF IInv
<1>2. QED
  BY <1>1, Invariance, PTL

\* For every capacity, the circular buffer is the first-in-first-out buffer
\* that keeps the newest Capacity items.
THEOREM RingImplementsKeepNewest == Spec => ImplementsKeepNewest
<1>1. Init => Abs!Init
  BY DEF Init, Abs!Init, Contents
<1>2. IInv /\ [Next]_vars => [Abs!Next]_(Abs!vars)
  BY PushStep, DrainStep, StutterStep DEF Next, Abs!Next
<1>3. QED
  BY <1>1, <1>2, Invariance, PTL DEF Spec, Abs!Spec, ImplementsKeepNewest
=============================================================================
