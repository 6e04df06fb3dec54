----------------------------- MODULE KeepNewest -----------------------------
(***************************************************************************)
(* What worker/include/utils/ring_buffer.h promises its only client, the   *)
(* MonitorPusher: a first-in-first-out buffer that never refuses an item   *)
(* and, once it holds Capacity of them, gives up its oldest one for every  *)
(* new one.  Drain hands over everything, oldest first, and leaves the     *)
(* buffer empty.                                                           *)
(***************************************************************************)
EXTENDS Naturals, Sequences

CONSTANTS Capacity,   \* how many items the buffer keeps, at least 1
          Item        \* what may be stored

VARIABLES items,      \* the stored items, oldest first
          out         \* what the latest Drain handed over

vars == <<items, out>>

\* The buffer q after item x was added to it: the oldest item makes room.
Pushed(q, x) == Append(IF Len(q) < Capacity THEN q ELSE Tail(q), x)

Init == items = <<>> /\ out = <<>>

Push(x) == items' = Pushed(items, x) /\ UNCHANGED out

Drain == items' = <<>> /\ out' = items

Next == (\E x \in Item : Push(x)) \/ Drain

Spec == Init /\ [][Next]_vars
=============================================================================
