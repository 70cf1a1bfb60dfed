---------------------------- MODULE MCExecutions ----------------------------
(* Instances of Executions for TLC: two tenants share the node.            *)
EXTENDS Executions, TLC

CONSTANTS e1, e2, e3, t1, t2

MCOwner == (e1 :> t1) @@ (e2 :> t1) @@ (e3 :> t2)
=============================================================================
