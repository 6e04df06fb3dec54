--------------------------- MODULE MCHostManager ---------------------------
(* HostManager with interchangeable handler threads.                        *)
EXTENDS HostManager, TLC

Symmetry == Permutations(Call)
=============================================================================
