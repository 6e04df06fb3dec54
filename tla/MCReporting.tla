---------------------------- MODULE MCReporting ----------------------------
(* Reporting with samples of a single row.                                  *)
EXTENDS Reporting

MCTable == <<"perf">>
=============================================================================
