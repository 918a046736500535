----------------------------- MODULE MCPipeline -----------------------------
(***************************************************************************)
(* Keys for Pipeline: two transactions of one day, in different hours.     *)
(***************************************************************************)
EXTENDS Pipeline

MCKey == {"k1", "k2"}
MCGroupOf == [daily |-> [k \in MCKey |-> "d1"],
              hourly |-> [k \in MCKey |-> k]]
=============================================================================
