----------------------------- MODULE MCTunnels -----------------------------
(* Instances of Tunnels for TLC: one tenant with one sandbox.                *)
EXTENDS Tunnels, TLC

CONSTANTS t1, t2, a, tenant, w1, l1, p1, p2

MCSandboxOf == (t1 :> a) @@ (t2 :> a)

MCOwner == (t1 :> tenant) @@ (t2 :> tenant)
=============================================================================
