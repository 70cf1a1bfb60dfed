------------------------- MODULE MCSandboxLifecycle -------------------------
(* Instances of SandboxLifecycle for TLC: one tenant owns every sandbox.   *)
EXTENDS SandboxLifecycle, TLC

CONSTANTS t1

MCOwner == [s \in Sandboxes |-> t1]

RequestSymmetry == Permutations(Requests)
=============================================================================
