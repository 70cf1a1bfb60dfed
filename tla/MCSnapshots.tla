---------------------------- MODULE MCSnapshots ----------------------------
(* Instances of Snapshots for TLC.                                         *)
EXTENDS Snapshots, TLC

CONSTANTS r1, r2, a, b, n1

Node(backend, export, faults) == [backend |-> backend, export |-> export, faults |-> faults]

(* QEMU nodes with each fault, and one node of each other backend with     *)
(* failing file operations.                                                *)
MCNodes ==
    {Node("qemu", FALSE, {"fs"}), Node("qemu", TRUE, {"cancel"}),
     Node("qemu", FALSE, {"disk"}), Node("qemu", TRUE, {"damage"}),
     Node("docker", TRUE, {"damage"}), Node("kata", FALSE, {"fs"})}
=============================================================================
