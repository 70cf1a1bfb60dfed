---------------------------- MODULE MCContainers ----------------------------
(* Instances of Containers for TLC.  The lifecycle calls are checked on      *)
(* their own from the creation on, for rows with a selection, rows known     *)
(* only by their legacy backend name and a row whose runtime is not          *)
(* registered; commands and connections are checked on a running sandbox     *)
(* that gets one more lifecycle call.                                        *)
EXTENDS Containers

CONSTANTS e1, b1, t1

Docker1 == [sel |-> "docker-dev", be |-> "docker"]
Kata1 == [sel |-> "", be |-> "kata"]
Ssh1 == [sel |-> "qemu-professional", be |-> "docker"]
None1 == [sel |-> "", be |-> ""]

Host(row, internet, storageOpt, permitted, up, n, ops, active) ==
    [sel |-> row.sel, be |-> row.be, internet |-> internet, storageOpt |-> storageOpt,
     permitted |-> permitted, up |-> up, calls |-> n, ops |-> ops,
     active |-> active]

MCHosts ==
    {Host(Docker1, i, s, p, FALSE, 5, Ops, {}) : i \in BOOLEAN, s \in BOOLEAN, p \in BOOLEAN}
    \cup {Host(row, TRUE, TRUE, TRUE, FALSE, 5, Ops, {}) : row \in {Kata1, None1}}
    \cup {Host(row, TRUE, TRUE, TRUE, TRUE, 1, {"stop", "suspend"}, {request}) :
             row \in {Docker1, Kata1, Ssh1}, request \in {e1, b1, t1}}

MCKataHosts == {Host(Kata1, TRUE, TRUE, TRUE, FALSE, 2, Ops, {})}

MCBridgeHosts == {Host(Docker1, TRUE, TRUE, TRUE, TRUE, 0, {}, {b1})}
=============================================================================
