---------------------------- MODULE MCApiServer ----------------------------
(* Instance of ApiServer: the sample numbered 1 was received after the one  *)
(* numbered 2, which expires within MaxTime; threads and connections are    *)
(* interchangeable.                                                         *)
EXTENDS ApiServer

CONSTANTS k1, k2, r1, r2

MCTimeOf == <<2, 1>>
MCTables == <<"server_performance", "server_net_process_detail">>
Interchangeable == Permutations(Connection) \cup Permutations(Request)
=============================================================================
