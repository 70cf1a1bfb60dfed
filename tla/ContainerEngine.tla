-------------------------- MODULE ContainerEngine --------------------------
(***************************************************************************)
(* The container backends of one sandbox: internal/runtime/docker and      *)
(* internal/runtime/kata, reached through internal/runtime/registry.  A    *)
(* backend keeps no state of its own; every call is a sequence of commands *)
(* of the docker or ctr program, and what it leaves behind is in the       *)
(* engine and on the host:                                                 *)
(*   box     the container: "absent", "created" (no process), "running",   *)
(*           "paused", "exited" (for Kata: a stopped task not yet deleted) *)
(*   net     the sandbox's bridge network exists (Docker only)             *)
(*   dirs    the sandbox's host directories exist                          *)
(*   capped  the container was created with its disk quota (Docker only)   *)
(* A command is one step.  It may fail before or after its effect (the     *)
(* request's context kills the program, not what it asked for).            *)
(***************************************************************************)
EXTENDS Naturals, Sequences

CONSTANTS
    Hosts,        \* the settings a behaviour may have, see host
    Registered,   \* the selections the registry has a runtime for
    EngineFaults  \* which of "cli" (a command), "fs" (the host's files) may fail

VARIABLES
    host,   \* fixed: the row's selection and backend name; the network mode
            \* (internet); whether --storage-opt works (storageOpt); whether
            \* the capabilities asked for are granted (permitted); whether
            \* the container runs already (up); how many lifecycle calls are
            \* issued (calls), which ones (ops), and which other requests
            \* are made (active)
    box, net, dirs, capped,
    call,   \* the lifecycle call in progress, or the last one
    calls,  \* lifecycle calls issued so far
    seen    \* the states of the container during the call, and "unreached"
            \* while the last command of ctr did not reach containerd

engineVars == <<host, box, net, dirs, capped, call, calls, seen>>

Selections == {"docker-dev", "containerd-kata-professional", "qemu-professional"}

RuntimeSelectionFromBackend(be) ==
    IF be = "docker" THEN "docker-dev"
    ELSE IF be = "kata" THEN "containerd-kata-professional"
    ELSE IF be = "qemu" THEN "qemu-professional"
    ELSE ""

(* An explicit valid selection wins over the legacy backend name.          *)
ResolveRuntimeSelection(row) ==
    IF row.sel \in Selections THEN row.sel ELSE RuntimeSelectionFromBackend(row.be)

(* The runtime a call on the sandbox reaches; "none" when the registry has *)
(* no runtime for the selection.                                           *)
runtimeForSandbox(row) ==
    LET sel == ResolveRuntimeSelection(row)
    IN  IF sel \notin Registered THEN "none"
        ELSE IF sel = "docker-dev" THEN "docker"
        ELSE IF sel = "containerd-kata-professional" THEN "kata"
        ELSE "qemu"

backend == runtimeForSandbox(host)

Ops == {"create", "start", "stop", "kill", "suspend", "resume", "destroy", "inspect"}

Statuses == {"running", "suspended", "stopped", "deleting", "deleted", "degraded", "error"}

Boxes == {"absent", "created", "running", "paused", "exited"}

Sights == Boxes \cup {"unreached"}

----------------------------------------------------------------------------
(* The engines: what a command does to the container, and its answer.      *)

(* docker create, start, stop, kill, pause, unpause, rm -f and inspect.    *)
(* Stopping a container that is paused may be refused.                     *)
DockerCommand(cmd, b) ==
    IF b = "absent" THEN {IF cmd = "create" THEN <<"created", "ok">> ELSE <<b, "missing">>}
    ELSE IF cmd = "rm" THEN {<<"absent", "ok">>}
    ELSE IF cmd = "inspect" THEN {<<b, "ok">>}
    ELSE IF cmd = "start" /\ b # "paused" THEN {<<"running", "ok">>}
    ELSE IF cmd = "stop" /\ b \in {"created", "exited"} THEN {<<b, "ok">>}
    ELSE IF cmd \in {"stop", "kill"} /\ b = "running" THEN {<<"exited", "ok">>}
    ELSE IF cmd \in {"stop", "kill"} /\ b = "paused" THEN {<<"exited", "ok">>, <<b, "err">>}
    ELSE IF cmd = "pause" /\ b = "running" THEN {<<"paused", "ok">>}
    ELSE IF cmd = "unpause" /\ b = "paused" THEN {<<"running", "ok">>}
    ELSE {<<b, "err">>}

(* ctr run, task start, task kill, task delete and containers delete.  A   *)
(* signal is only sent: the task may still run when the command returns.   *)
CtrCommand(cmd, b) ==
    IF cmd = "run" THEN {IF b = "absent" THEN <<"running", "ok">> ELSE <<b, "err">>}
    ELSE IF b = "absent" THEN {<<b, "missing">>}
    ELSE IF cmd = "task start" /\ b = "created" THEN {<<"running", "ok">>}
    ELSE IF cmd = "task kill" /\ b = "running" THEN {<<b, "ok">>, <<"exited", "ok">>}
    ELSE IF cmd = "task kill" THEN {<<b, "missing">>}
    ELSE IF cmd = "task delete" /\ b = "exited" THEN {<<"created", "ok">>}
    ELSE IF cmd = "task delete" /\ b = "created" THEN {<<b, "missing">>}
    ELSE IF cmd = "containers delete" /\ b = "created" THEN {<<"absent", "ok">>}
    ELSE {<<b, "err">>}

(* The outcomes with a command that fails before or after its effect.      *)
run(outcomes, b) ==
    outcomes \cup IF "cli" \in EngineFaults
                  THEN {<<b, "err">>} \cup {<<o[1], "err">> : o \in outcomes}
                  ELSE {}

FsFails == "fs" \in EngineFaults

----------------------------------------------------------------------------
(* Steps of a call.                                                        *)

Goto(pc) == call' = [call EXCEPT !.pc = pc]

Return(res) == call' = [call EXCEPT !.pc = "done", !.res = res]

SetBox(b) ==
    /\ box' = b
    /\ seen' = IF call.pc = "done" THEN seen ELSE seen \cup {b}

(* The command cmd of the docker program; next names the next step for the *)
(* answer of the engine.                                                   *)
Docker(cmd, next(_)) ==
    \E o \in run(DockerCommand(cmd, box), box) :
        /\ SetBox(o[1])
        /\ next(o[2])

(* The command of ctr.  When the program or containerd's socket is not     *)
(* there, the error, too, says that something was not found.               *)
Ctr(cmd, next(_)) ==
    \E o \in run(CtrCommand(cmd, box), box)
             \cup IF "cli" \in EngineFaults THEN {<<box, "unreached">>} ELSE {} :
        /\ box' = o[1]
        /\ seen' = (seen \cap Boxes) \cup {o[1]} \cup ({"unreached"} \cap {o[2]})
        /\ next(o[2])

(* Any error that speaks of something not found is taken to mean that      *)
(* there is no such task or container.                                     *)
isNotFoundErr(answer) == answer \in {"missing", "unreached"}

(* The step a call begins with, by the backend the registry finds.         *)
FirstStep(op) ==
    IF op \in {"create", "inspect"} THEN op
    ELSE IF backend = "kata" /\ op \in {"stop", "kill", "destroy"} THEN "task kill"
    ELSE "command"

(* A caller calls the registry.  The service creates a sandbox once, before *)
(* any other call; the calls on a QEMU guest are the business of module     *)
(* QemuProcess.                                                             *)
Issue(op) ==
    /\ call.pc = "done"
    /\ calls < host.calls /\ op \in host.ops
    /\ backend # "qemu"
    /\ (op = "create") = (calls = 0 /\ ~host.up)
    /\ calls' = calls + 1
    /\ seen' = {box}
    /\ call' = IF \/ backend = "none"
                  \/ backend = "kata" /\ op \in {"suspend", "resume"}
               THEN [op |-> op, pc |-> "done", res |-> "err"]
               ELSE [op |-> op, pc |-> FirstStep(op), res |-> "none"]
    /\ UNCHANGED <<host, box, net, dirs, capped>>

At(be, pc) == backend = be /\ call.pc = pc

----------------------------------------------------------------------------
(* Docker.                                                                 *)

(* Create makes the directories first; one of them may fail.               *)
DockerMkdirs ==
    /\ At("docker", "create")
    /\ dirs' = TRUE
    /\ \/ Goto(IF host.internet THEN "network" ELSE "container")
       \/ FsFails /\ Return("err")
    /\ UNCHANGED <<host, box, net, capped, calls, seen>>

(* A network that cannot be inspected is created; creating it again fails. *)
ensureNetwork ==
    /\ At("docker", "network")
    /\ \/ net' = TRUE /\ Goto("container")
       \/ /\ "cli" \in EngineFaults
          /\ net' \in {net, TRUE}
          /\ Return("err")
    /\ UNCHANGED <<host, box, dirs, capped, calls, seen>>

(* Wrong: any failure of the create command drops the disk quota.          *)
RetryAlways(answer) == answer # "ok"

(* The text of the error holds one of six phrases about quotas; the model  *)
(* takes these to be the answers of engines that cannot enforce one.       *)
dockerStorageOptUnsupported(answer) == answer = "unsupported"

(* The create command with the disk quota.  An engine without quotas       *)
(* refuses it, and may have made the container.                            *)
DockerCreate ==
    /\ At("docker", "container")
    /\ host.permitted
    /\ \E o \in IF host.storageOpt THEN run(DockerCommand("create", box), box)
                ELSE {<<b, "unsupported">> : b \in {box, "created"}} :
        /\ SetBox(o[1])
        /\ capped' = (o[1] = "created" /\ host.storageOpt)
        /\ IF dockerStorageOptUnsupported(o[2]) THEN Goto("remove half")
           ELSE Return(IF o[2] = "ok" THEN "stopped" ELSE "err")
    /\ UNCHANGED <<host, net, dirs, calls>>

(* The capabilities are looked at when the network exists already.         *)
resolveSecurityOptions ==
    /\ At("docker", "container")
    /\ ~host.permitted
    /\ Return("err")
    /\ UNCHANGED <<host, box, net, dirs, capped, calls, seen>>

(* The retry removes what the first attempt left; its answer is dropped.   *)
DockerRemoveHalf ==
    /\ At("docker", "remove half")
    /\ Docker("rm", LAMBDA answer : Goto("container again"))
    /\ UNCHANGED <<host, net, dirs, capped, calls>>

DockerCreateAgain ==
    /\ At("docker", "container again")
    /\ Docker("create", LAMBDA answer : Return(IF answer = "ok" THEN "stopped" ELSE "err"))
    /\ capped' = FALSE
    /\ UNCHANGED <<host, net, dirs, calls>>

CommandOf(op) ==
    IF op = "suspend" THEN "pause" ELSE IF op = "resume" THEN "unpause"
    ELSE IF op = "destroy" THEN "rm" ELSE op

(* Stop and Destroy accept that there is no such container.                *)
Tolerated(answer) ==
    \/ answer = "ok"
    \/ answer = "missing" /\ call.op \in {"stop", "kill", "destroy"}

(* The command of Start, Stop, Suspend, Resume and Destroy.                *)
DockerStep ==
    /\ At("docker", "command")
    /\ Docker(CommandOf(call.op), LAMBDA answer :
           IF ~Tolerated(answer) THEN Return("err")
           ELSE Goto(IF call.op = "destroy" THEN "remove network" ELSE "inspect"))
    /\ UNCHANGED <<host, net, dirs, capped, calls>>

(* A paused container reports Running as well as Paused, and Inspect asks  *)
(* for Running first.                                                      *)
DockerStatus(b) ==
    IF b \in {"running", "paused"} THEN "running"
    ELSE IF b = "absent" THEN "deleted"
    ELSE "stopped"

(* Wrong: Inspect takes a container it cannot find for a stopped one.      *)
InspectMissingStopped ==
    /\ At("docker", "inspect")
    /\ Docker("inspect", LAMBDA answer :
           Return(IF answer = "err" THEN "err"
                  ELSE IF call.op = "suspend" THEN "suspended"
                  ELSE IF answer = "missing" THEN "stopped" ELSE DockerStatus(box)))
    /\ UNCHANGED <<host, net, dirs, capped, calls>>

(* Inspect on its own or as the end of another call; Suspend overrides the *)
(* status.                                                                 *)
DockerInspect ==
    /\ At("docker", "inspect")
    /\ Docker("inspect", LAMBDA answer :
           Return(IF answer = "err" THEN "err"
                  ELSE IF call.op = "suspend" THEN "suspended" ELSE DockerStatus(box)))
    /\ UNCHANGED <<host, net, dirs, capped, calls>>

DockerRemoveNetwork ==
    /\ At("docker", "remove network")
    /\ \/ /\ net' = (net /\ ~host.internet)
          /\ Goto("remove dirs")
       \/ /\ host.internet /\ "cli" \in EngineFaults
          /\ net' \in {net, FALSE}
          /\ Return("err")
    /\ UNCHANGED <<host, box, dirs, capped, calls, seen>>

(* The end of Destroy for both backends.                                   *)
RemoveDirs ==
    /\ call.pc = "remove dirs"
    /\ \/ dirs' = FALSE /\ Return("ok")
       \/ FsFails /\ dirs' = dirs /\ Return("err")
    /\ UNCHANGED <<host, box, net, capped, calls, seen>>

----------------------------------------------------------------------------
(* Kata.                                                                   *)

(* Directories and state file; the pull's answer is dropped; ctr run makes *)
(* the container and starts its task.                                      *)
KataCreate ==
    /\ At("kata", "create")
    /\ dirs' = TRUE
    /\ \/ Ctr("run", LAMBDA answer : Return(IF answer = "ok" THEN "stopped" ELSE "err"))
       \/ FsFails /\ Return("err") /\ UNCHANGED <<box, seen>>
    /\ UNCHANGED <<host, net, capped, calls>>

(* The status is not inspected; the pid file cannot fail the call.         *)
KataStart ==
    /\ At("kata", "command")
    /\ Ctr("task start", LAMBDA answer : Return(IF answer = "ok" THEN "running" ELSE "err"))
    /\ UNCHANGED <<host, net, dirs, capped, calls>>

(* Stop fails unless the signal was sent or there is no task; Destroy goes *)
(* on whatever ctr answers.                                                *)
KataKill ==
    /\ At("kata", "task kill")
    /\ Ctr("task kill", LAMBDA answer :
           IF answer # "ok" /\ ~isNotFoundErr(answer) /\ call.op # "destroy" THEN Return("err")
           ELSE Goto("task delete"))
    /\ UNCHANGED <<host, net, dirs, capped, calls>>

(* The answer is dropped; Stop reports stopped.                            *)
KataDeleteTask ==
    /\ At("kata", "task delete")
    /\ Ctr("task delete", LAMBDA answer :
           IF call.op = "destroy" THEN Goto("containers delete") ELSE Return("stopped"))
    /\ UNCHANGED <<host, net, dirs, capped, calls>>

(* Wrong: Destroy logs the error and goes on.                              *)
KataDeleteLogged ==
    /\ At("kata", "containers delete")
    /\ Ctr("containers delete", LAMBDA answer : Goto("remove dirs"))
    /\ UNCHANGED <<host, net, dirs, capped, calls>>

(* The directories are removed once the container is gone, or said to be.  *)
KataDeleteContainer ==
    /\ At("kata", "containers delete")
    /\ Ctr("containers delete", LAMBDA answer :
           IF answer # "ok" /\ ~isNotFoundErr(answer) THEN Return("err") ELSE Goto("remove dirs"))
    /\ UNCHANGED <<host, net, dirs, capped, calls>>

(* task ls, and when it shows no task, containers ls: two commands.        *)
KataInspect ==
    /\ At("kata", "inspect")
    /\ \/ box = "running" /\ Return("running")
       \/ box = "exited" /\ Return("stopped")
       \/ box \in {"created", "absent"} /\ Goto("containers ls")
       \/ "cli" \in EngineFaults /\ Return("degraded")
    /\ UNCHANGED <<host, box, net, dirs, capped, calls, seen>>

KataListContainers ==
    /\ At("kata", "containers ls")
    /\ \/ Return(IF box = "absent" THEN "deleted" ELSE "stopped")
       \/ "cli" \in EngineFaults /\ Return("degraded")
    /\ UNCHANGED <<host, box, net, dirs, capped, calls, seen>>

----------------------------------------------------------------------------

(* The container's own process ends, or a signalled task dies.             *)
BoxExits ==
    /\ box = "running"
    /\ SetBox("exited")
    /\ UNCHANGED <<host, net, dirs, capped, call, calls>>

EngineInit ==
    /\ host \in Hosts
    /\ box = IF host.up THEN "running" ELSE "absent"
    /\ net = (host.up /\ host.internet /\ backend = "docker")
    /\ dirs = host.up
    /\ capped = (host.up /\ host.storageOpt)
    /\ call = [op |-> "inspect", pc |-> "done", res |-> "none"]
    /\ calls = 0
    /\ seen = {box}

CallStep ==
    \/ DockerMkdirs \/ ensureNetwork \/ resolveSecurityOptions \/ DockerCreate
    \/ DockerRemoveHalf \/ DockerCreateAgain \/ DockerStep \/ DockerInspect
    \/ DockerRemoveNetwork \/ RemoveDirs
    \/ KataCreate \/ KataStart \/ KataKill \/ KataDeleteTask \/ KataDeleteContainer
    \/ KataInspect \/ KataListContainers

EngineNext == (\E op \in Ops : Issue(op)) \/ CallStep \/ BoxExits

=============================================================================
