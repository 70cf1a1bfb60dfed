---------------------------- MODULE QemuBackend ----------------------------
(***************************************************************************)
(* What one call of the runtime backend may do to one guest, as the QEMU   *)
(* backend does it (internal/runtime/qemu/runtime.go).  A guest is         *)
(*   "none"       no disks and no process,                                 *)
(*   "stopped"    disks, no process,                                       *)
(*   "running"    disks and a live process recorded in the pid file,       *)
(*   "suspended"  as running, with the suspended marker present,           *)
(*   "leaked"     a live process whose directory, pid file included, is    *)
(*                gone, so that no later call finds it.                    *)
(* Every call is a set of pairs <<guest afterwards, reported status>>,     *)
(* where "err" stands for a returned error.  Faults names the host calls   *)
(* that may fail in an instance:                                           *)
(*   "runtime"  launching, signalling or file handling,                    *)
(*   "probe"    the readiness probe of a live guest,                       *)
(*   "stop"     finding or killing the process (ps, kill).                 *)
(***************************************************************************)
CONSTANT Faults

Guests == {"none", "stopped", "running", "suspended", "leaked"}

LiveGuests == {"running", "suspended", "leaked"}

(* The outcomes in the set, when the named host call may fail.             *)
May(fault, outcomes) == IF fault \in Faults THEN outcomes ELSE {}

(* liveSandboxPID finds no process: the pid file is absent or stale.       *)
NoProcess(g) == g \in {"none", "stopped", "leaked"}

(* The statuses deriveRuntimeState reports for a guest.  Only a running    *)
(* guest is probed: when the probe fails it is an error after a boot       *)
(* failure marker, booting within the boot window, degraded after it.      *)
Derived(g) ==
    IF NoProcess(g) THEN {"stopped"}
    ELSE IF g = "suspended" THEN {"suspended"}
    ELSE {"running"} \cup May("probe", {"error", "booting", "degraded"})

(* The recorded process cannot be looked up: the guest's own, or another   *)
(* one that got the pid of a stale pid file.                               *)
LookupFails(g) == IF g \in {"none", "leaked"} THEN {} ELSE May("stop", {<<g, "err">>})

(* Inspect changes nothing.                                                *)
Inspect(g) == Derived(g) \cup {o[2] : o \in LookupFails(g)}

(* Create lays out the directories and both disks of a new sandbox; it may *)
(* fail before or after the disks exist.                                   *)
Create(g) ==
    {<<"stopped", "stopped">>} \cup May("runtime", {<<g, "err">>, <<"stopped", "err">>})

(* Start returns at once for a ready guest.  Otherwise it launches QEMU,   *)
(* which fails without disks and while another process holds them; a boot  *)
(* that fails is stopped again, and that Stop's own error is dropped.  The *)
(* closing Inspect may fail although the guest is up.  A first Inspect     *)
(* that fails leaves the marker of a guest that died suspended in place,   *)
(* and the new guest is taken for a suspended one.                         *)
Start(g) ==
    IF g = "running"
    THEN {<<g, "running">>} \cup May("probe", {<<g, "err">>}) \cup LookupFails(g)
    ELSE IF g = "stopped"
    THEN {<<"running", st>> : st \in Inspect("running")} \cup May("runtime", {<<g, "err">>})
         \cup May("stop", {<<"suspended", "suspended">>, <<"suspended", "err">>})
    ELSE {<<g, "err">>}

(* Stop reports success for a guest without a process; otherwise it kills  *)
(* the process (after asking the guest to shut down unless forced).  The   *)
(* kill may fail on another process that got the pid of a guest that did   *)
(* shut down.                                                              *)
Stop(g) ==
    LookupFails(g) \cup
    IF NoProcess(g) THEN {<<g, "stopped">>}
    ELSE {<<"stopped", "stopped">>} \cup May("stop", {<<"stopped", "err">>})

(* Suspend signals the process and touches the marker; a guest without a   *)
(* process is reported stopped, without an error.                          *)
Suspend(g) ==
    LookupFails(g) \cup
    IF NoProcess(g) THEN {<<g, "stopped">>}
    ELSE {<<"suspended", "suspended">>} \cup May("runtime", {<<g, "err">>})

(* Resume removes the marker before it waits for readiness, so a guest     *)
(* that does not answer in time keeps running while the call fails.        *)
Resume(g) ==
    LookupFails(g) \cup
    IF NoProcess(g) THEN {<<g, "stopped">>}
    ELSE {<<"running", st>> : st \in Inspect("running")}
         \cup May("runtime", {<<g, "err">>, <<"running", "err">>})

(* Destroy drops the error of the forced Stop and removes the directory.   *)
(* A removal that fails half-way may or may not have reached the disks,    *)
(* the pid file and the marker.                                            *)
Destroy(g) ==
    LET stopped == IF NoProcess(g) THEN {g} ELSE {"stopped"} \cup May("stop", {g})
        removed(h) == IF h \in LiveGuests THEN "leaked" ELSE "none"
        partly(h) == {h, removed(h)} \cup (IF h = "suspended" THEN {"running"} ELSE {})
    IN  {<<removed(h), "ok">> : h \in stopped}
        \cup May("runtime", {<<h, "err">> : h \in UNION {partly(k) : k \in stopped}})

=============================================================================
