--------------------------- MODULE MCMysqlWriter ---------------------------
(* Instances of MysqlWriter: two samples, one with and one without detail   *)
(* rows, as hosts without network or disk entries send them.                *)
EXTENDS MysqlWriter

CONSTANTS s1, s2

MCSample == {s1, s2}
MCInserts == (s1 :> <<"perf", "cpu">>) @@ (s2 :> <<"perf", "cpu", "net">>)

\* Workers number their samples: distinct keys.
MCKeyOf == (s1 :> "host-7") @@ (s2 :> "host-8")
=============================================================================
