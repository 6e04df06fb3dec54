-------------------------- MODULE SequenceNumbers --------------------------
(***************************************************************************)
(* The field sequence of MonitorInfo, which worker and manager share: the  *)
(* worker numbers its samples with it, 0 stands for none.                  *)
(***************************************************************************)
EXTENDS Naturals

CONSTANT MaxSeq        \* bound: sequence numbers go no further

ASSUME SequenceAssumption == MaxSeq \in Nat

Samples == 1 .. MaxSeq
Numbers == 0 .. MaxSeq
=============================================================================
