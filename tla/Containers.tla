----------------------------- MODULE Containers -----------------------------
(***************************************************************************)
(* The container backends with everything that runs at the same time for   *)
(* one sandbox: a sequence of lifecycle calls (ContainerEngine), commands  *)
(* (ExecHandles), and here terminals and Docker's tunnel bridges.  A       *)
(* connection is a client program with its pipes:                          *)
(*   proc    "up", "exited" (a zombie), "reaped" by cmd.Wait               *)
(*   line    what the bridge wrote first: "ready", "other" or "none"       *)
(*   waitCh  the channel that gets the one result of cmd.Wait: "empty",    *)
(*           "full", or "taken" once somebody received it                  *)
(***************************************************************************)
EXTENDS ExecHandles, FiniteSets

CONSTANTS
    Bridges, Ttys  \* connection requests of either kind

ASSUME EngineAssumption ==
    /\ \A h \in Hosts : h.calls \in Nat /\ h.up \in BOOLEAN /\ h.active \subseteq Execs \cup Bridges \cup Ttys
    /\ Registered \subseteq Selections
    /\ EngineFaults \subseteq {"cli", "fs"}
    /\ PreviewLimit \in Nat /\ MaxOutput \in Nat

VARIABLE conn

vars == <<host, box, net, dirs, capped, call, calls, seen, exec, conn>>

Conns == Bridges \cup Ttys

Put(c, r) == conn' = [conn EXCEPT ![c] = r]

----------------------------------------------------------------------------
(* Docker's bridge for tunnels.                                            *)

(* The registry refuses backends that have no bridge.                      *)
OpenSandboxLocalConn(c) ==
    /\ conn[c].st = "idle"
    /\ \/ /\ backend = "docker"
          /\ Put(c, [conn[c] EXCEPT !.st = "await", !.proc = "up"])
       \/ /\ backend # "docker" \/ "cli" \in EngineFaults
          /\ Put(c, [conn[c] EXCEPT !.st = "failed"])

(* The script in the container connects and says so, or says what is wrong. *)
BridgeSpeaks(c) ==
    /\ conn[c].proc = "up" /\ conn[c].line = "none" /\ box = "running"
    /\ \E line \in {"ready", "other"} : Put(c, [conn[c] EXCEPT !.line = line])

(* The client program ends: on its own, or with the request's context.     *)
ProcExits(c) ==
    /\ conn[c].proc = "up"
    /\ Put(c, [conn[c] EXCEPT !.proc = "exited"])

(* The goroutine that waits for the program.                               *)
Reap(c) ==
    /\ c \in Bridges
    /\ conn[c].proc = "exited"
    /\ Put(c, [conn[c] EXCEPT !.proc = "reaped", !.waitCh = "full"])

(* The first line, the end of the program or five seconds, whichever is    *)
(* noticed first.  A program that has ended ends the reading, too.         *)
AwaitReady(c) ==
    /\ conn[c].st = "await" /\ c \in Bridges
    /\ \/ /\ conn[c].line = "ready"
          /\ Put(c, [conn[c] EXCEPT !.st = "open"])
       \/ /\ conn[c].line = "other" \/ conn[c].proc # "up"
          /\ Put(c, [conn[c] EXCEPT !.st = "cleanup"])
       \/ /\ conn[c].waitCh = "full"
          /\ Put(c, [conn[c] EXCEPT !.st = "cleanup", !.waitCh = "taken"])
       \/ Put(c, [conn[c] EXCEPT !.st = "cleanup"])

Killed(r) == [r EXCEPT !.proc = IF @ = "up" THEN "exited" ELSE @]

(* Wrong: the pipes are closed and the program is left alone.              *)
DropPipes(c) ==
    /\ conn[c].st = "cleanup"
    /\ Put(c, [conn[c] EXCEPT !.st = "failed"])

(* A failed open kills the program and waits until it is reaped.           *)
Abandon(c) ==
    /\ conn[c].st = "cleanup"
    /\ Put(c, [Killed(conn[c]) EXCEPT !.st = "reaping"])

Abandoned(c) ==
    /\ conn[c].st = "reaping"
    /\ conn[c].waitCh = "full"
    /\ Put(c, [conn[c] EXCEPT !.st = "failed", !.waitCh = "taken"])

(* Close, called by the user of the connection or when a deadline passes;  *)
(* the pipes are closed, the program is killed and its end is awaited.     *)
CloseBridge(c) ==
    /\ c \in Bridges /\ conn[c].st = "open"
    /\ Put(c, [Killed(conn[c]) EXCEPT !.st = "closing"])

BridgeClosed(c) ==
    /\ conn[c].st = "closing" /\ conn[c].waitCh = "full"
    /\ Put(c, [conn[c] EXCEPT !.st = "closed", !.waitCh = "taken"])

----------------------------------------------------------------------------
(* Terminals.                                                              *)

(* Docker and ssh put the terminal into raw mode and undo the start when   *)
(* that fails.                                                             *)
AttachTTY(c) ==
    /\ conn[c].st = "idle" /\ c \in Ttys
    /\ backend # "none"
    /\ \/ Put(c, [conn[c] EXCEPT !.st = "open", !.proc = "up"])
       \/ /\ "cli" \in EngineFaults
          /\ \E proc \in {"none"} \cup IF Tracks THEN {"exited"} ELSE {} :
                Put(c, [conn[c] EXCEPT !.st = "failed", !.proc = proc])

(* Only the Kata handle also waits for the program.                        *)
CloseTTY(c) ==
    /\ c \in Ttys /\ conn[c].st = "open"
    /\ Put(c, [conn[c] EXCEPT !.st = "closed",
                              !.proc = IF backend = "kata" THEN "reaped" ELSE "exited"])

----------------------------------------------------------------------------

ConnNext(c) ==
    \/ (c \in Bridges /\ OpenSandboxLocalConn(c)) \/ (c \in Bridges /\ BridgeSpeaks(c))
    \/ ProcExits(c) \/ Reap(c) \/ AwaitReady(c) \/ Abandon(c) \/ Abandoned(c)
    \/ CloseBridge(c) \/ BridgeClosed(c) \/ AttachTTY(c) \/ CloseTTY(c)

Init ==
    /\ EngineInit
    /\ ExecInit
    /\ conn = [c \in Conns |-> [st |-> "idle", proc |-> "none", line |-> "none",
                                waitCh |-> "empty"]]

Lifecycle == EngineNext /\ GroupsFollow /\ UNCHANGED conn

ExecStep(e) == ExecNext(e) /\ UNCHANGED <<engineVars, conn>>

ConnStep(c) == ConnNext(c) /\ UNCHANGED <<engineVars, exec>>

Next ==
    \/ Lifecycle
    \/ \E e \in Execs \cap host.active : ExecStep(e)
    \/ \E c \in Conns \cap host.active : ConnStep(c)

(* The goroutines and the programs they wait for run on, the copying of    *)
(* output as long as the caller reads; the guest, the callers and the      *)
(* outcome of a command are not scheduled by anybody.                      *)
Spec == Init /\ [][Next]_vars

FairSpec ==
    /\ Spec
    /\ WF_vars(CallStep /\ GroupsFollow /\ UNCHANGED conn)
    /\ \A e \in Execs : WF_vars(e \in host.active /\ Moves(e) /\ UNCHANGED <<engineVars, conn>>)
    /\ \A c \in Conns : WF_vars(c \in host.active /\ (Reap(c) \/ Abandon(c) \/ Abandoned(c)
                                                  \/ BridgeClosed(c) \/ AwaitReady(c))
                                /\ UNCHANGED <<engineVars, exec>>)
----------------------------------------------------------------------------
(* Properties.                                                             *)

TypeOK ==
    /\ box \in Boxes /\ seen \subseteq Sights
    /\ {net, dirs, capped} \subseteq BOOLEAN
    /\ call.op \in Ops /\ call.res \in Statuses \cup {"none", "ok", "err"}
    /\ calls \in Nat
    /\ \A e \in Execs :
          /\ exec[e].grp \in {"none", "up", "gone"}
          /\ exec[e].client \in {"none", "up", "ok", "fail", "killed"}
          /\ exec[e].buf \in 0..PreviewLimit
          /\ exec[e].res \in {"none", "error", "detached", "succeeded", "failed",
                              "timed_out", "canceled"}
    /\ \A c \in Conns : conn[c].proc \in {"none", "up", "exited", "reaped"}

(* Destroy of either backend that returns without an error has left no     *)
(* container, network or directory, whatever earlier calls left half done. *)
(* Kata's leaves the container, and takes its directories away, when the   *)
(* last command of ctr did not reach containerd: isNotFoundErr takes that  *)
(* error for a missing container.                                          *)
DestroyedIsGone ==
    call.op = "destroy" /\ call.pc = "done" /\ call.res = "ok"
        => /\ ~net /\ ~dirs
           /\ box = "absent" \/ (backend = "kata" /\ "unreached" \in seen)

(* Without that exception.                                                 *)
DestroyedHasNoContainer ==
    call.op = "destroy" /\ call.pc = "done" /\ call.res = "ok" => box = "absent"

(* A Docker container exists only while its network does, and without a    *)
(* disk quota only on an engine that cannot enforce one: Create makes the  *)
(* network first and retries without the quota for errors about quotas     *)
(* only, Destroy removes the network last, whichever of the calls in       *)
(* between fail.                                                           *)
ContainerIsConfined ==
    backend = "docker" /\ box # "absent"
        => (host.internet => net) /\ (~capped => ~host.storageOpt)

(* The status a call returns was the truth at some moment of the call.     *)
(* Inspect may report a paused Docker container as running; Create and     *)
(* Stop of Kata are left out, they never look.                             *)
Truth(res) ==
    IF res = "running" THEN {"running", "paused"}
    ELSE IF res = "stopped" THEN {"created", "exited"}
    ELSE IF res = "suspended" THEN {"paused"}
    ELSE IF res = "deleted" THEN {"absent"}
    ELSE Boxes

AnswersWereTrue ==
    call.pc = "done" /\ ~(backend = "kata" /\ call.op \in {"create", "stop", "kill"})
        => seen \cap Truth(call.res) # {}

(* Kata's Create leaves what it reports: a container that does not run.    *)
CreatedIsStopped ==
    backend = "kata" /\ call.op = "create" /\ call.pc = "done" /\ call.res = "stopped"
        => seen \cap {"created", "exited"} # {}

(* A command that was signalled before its result was drawn up, or whose   *)
(* client was killed, is not reported as ended by itself: the handles of   *)
(* Docker and ssh store the cause before the first kill.  A Kata client    *)
(* that the context or Cancel killed is reported as failed, not succeeded. *)
KillIsReported ==
    \A e \in Execs :
        exec[e].hit /\ exec[e].res # "none"
            => exec[e].res \in {"timed_out", "canceled"} \cup IF Tracks THEN {} ELSE {"failed"}

(* A command reported as succeeded ended by itself with exit code 0 and    *)
(* all its output reached the caller; its preview is the first             *)
(* PreviewLimit bytes and is marked truncated exactly when there is more.  *)
SucceededIsDelivered ==
    \A e \in Execs : exec[e].res = "succeeded" =>
        /\ exec[e].grp = "gone" /\ exec[e].code = "ok"
        /\ ~exec[e].lost
        /\ exec[e].buf = Least(exec[e].out, PreviewLimit)
        /\ exec[e].truncated = (exec[e].out > PreviewLimit)

(* Wait returns for a command with a timeout and for one whose request is  *)
(* gone, also when the container is paused or the command ignores TERM.    *)
(* Only a caller who is connected and does not read can hold it up: the    *)
(* client is dead by then, but its output is not copied.                   *)
WaitEnds ==
    \A e \in Execs :
        exec[e].st \in {"wait", "publish"} /\ (exec[e].timeout \/ exec[e].ctx)
            ~> exec[e].st = "done" \/ (exec[e].sink = "stalled" /\ exec[e].pipe > 0)

(* A bridge that failed to open or was closed has left no process, not     *)
(* even a zombie; a terminal has left no process that runs.                *)
ConnectionsEnd ==
    \A c \in Conns : conn[c].st \in {"failed", "closed"} =>
        conn[c].proc \in {"none", "reaped"} \cup IF c \in Ttys THEN {"exited"} ELSE {}

(* Opening a bridge returns: it takes five seconds at most.                *)
OpenReturns == \A c \in Bridges : conn[c].st = "await" ~> conn[c].st \in {"open", "failed"}

=============================================================================
