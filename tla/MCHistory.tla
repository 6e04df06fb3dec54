----------------------------- MODULE MCHistory -----------------------------
(* Instance of History: three samples of a host, two of which carry the     *)
(* same second, in a summary table and a detail table.                      *)
EXTENDS History

CONSTANTS walker, other

MCTimeOf == <<1, 1, 2>>
MCTables == <<"server_performance", "server_net_process_detail">>
=============================================================================
