----------------------------- MODULE RingBuffer -----------------------------
(***************************************************************************)
(* worker/include/utils/ring_buffer.h: the circular buffer that holds the  *)
(* samples the worker could not deliver.  Every method runs under mutex_,  *)
(* so each is one action.  Drain moves the items out of their slots; a     *)
(* slot whose item was moved away holds Moved, and so does a slot that was *)
(* only default-constructed.                                               *)
(***************************************************************************)
EXTENDS Naturals, Sequences

CONSTANTS Capacity,   \* capacity_ (120 in monitor_pusher.h)
          Item,       \* values of T
          Moved       \* a default-constructed or moved-from T

ASSUME CapacityAssumption == Capacity \in Nat \ {0}
ASSUME MovedAssumption == Moved \notin Item

VARIABLES buffer,     \* buffer_
          head,       \* head_: the slot the next Push writes
          tail,       \* tail_: the oldest item
          size,       \* size_
          out         \* the vector the latest Drain filled

vars == <<buffer, head, tail, size, out>>

Slot == 0 .. Capacity - 1

\* The slot n places after slot s.
Ahead(s, n) == (s + n) % Capacity

\* The slot of the i-th oldest item, i = 1 being tail_.
SlotOf(i) == Ahead(tail, i - 1)

\* The stored items, oldest first, as Drain's loop visits them.
Contents == [i \in 1 .. size |-> buffer[SlotOf(i)]]

LiveSlots == {SlotOf(i) : i \in 1 .. size}

Init ==
  /\ buffer = [s \in Slot |-> Moved]
  /\ head = 0 /\ tail = 0 /\ size = 0
  /\ out = <<>>

\* Mutant of Push: a full ring overwrites its oldest item and keeps tail_.
PushKeepingTail(x) ==
  /\ buffer' = [buffer EXCEPT ![head] = x]
  /\ head' = Ahead(head, 1)
  /\ size' = IF size < Capacity THEN size + 1 ELSE size
  /\ UNCHANGED <<tail, out>>

\* Push(const T&) and Push(T&&): overwrites the oldest item when full.
Push(x) ==
  /\ buffer' = [buffer EXCEPT ![head] = x]
  /\ head' = Ahead(head, 1)
  /\ \/ /\ size < Capacity
        /\ size' = size + 1
        /\ tail' = tail
     \/ /\ size >= Capacity
        /\ size' = size
        /\ tail' = Ahead(tail, 1)
  /\ UNCHANGED out

\* Mutant of Drain: the items are moved out and size_ is not reset.
DrainKeepingSize ==
  /\ out' = Contents
  /\ buffer' = [s \in Slot |-> IF s \in LiveSlots THEN Moved ELSE buffer[s]]
  /\ UNCHANGED <<head, tail, size>>

\* Drain: moves the items out, oldest first, and resets the indices.
Drain ==
  /\ out' = Contents
  /\ buffer' = [s \in Slot |-> IF s \in LiveSlots THEN Moved ELSE buffer[s]]
  /\ head' = 0 /\ tail' = 0 /\ size' = 0

Next == (\E x \in Item : Push(x)) \/ Drain

Spec == Init /\ [][Next]_vars

-----------------------------------------------------------------------------
\* The indices stay inside the vector whatever wraps around, and a Drain only
\* ever hands over items that were pushed.
TypeOK ==
  /\ buffer \in [Slot -> Item \cup {Moved}]
  /\ head \in Slot /\ tail \in Slot
  /\ size \in 0 .. Capacity
  /\ out \in Seq(Item)

\* What makes the type and the content invariants inductive: head_ is always
\* size_ slots after tail_.
IndicesAgree == head = Ahead(tail, size)

\* No slot Drain is about to read was emptied by an earlier Drain or never
\* written: a moved-from MonitorInfo would be replayed as an empty sample.
LiveSlotsHoldItems == \A i \in 1 .. size : buffer[SlotOf(i)] \in Item

IInv == TypeOK /\ IndicesAgree /\ LiveSlotsHoldItems

\* The ring implements the buffer that keeps the newest Capacity items:
\* every wrap-around, overwrite and reset of the indices is either a push
\* or a drain of that buffer, in the same order.
Abs == INSTANCE KeepNewest WITH items <- Contents
ImplementsKeepNewest == Abs!Spec
=============================================================================
