---------------------------- MODULE QemuProcess ----------------------------
(***************************************************************************)
(* One QEMU sandbox on its host, call by call and file by file             *)
(* (internal/runtime/qemu/runtime.go): the disks, the pid file, the        *)
(* suspended marker and the QEMU processes.  Each call of the runtime is   *)
(* split where the code goes to the host again, so that the guest may exit *)
(* and the daemon may crash in between.  QemuBackend is what the service   *)
(* relies on; OutcomesAreContract compares the two.                        *)
(***************************************************************************)
EXTENDS Naturals

CONSTANTS
    Callers,        \* calls of the runtime under way at once
    Ops,            \* the calls that are made
    Faults,         \* the host calls that may fail, as in QemuBackend
    MaxPid,         \* processes ever launched
    MaxCrashes      \* crashes of the daemon

Pids == 1..MaxPid

AllOps == {"create", "start", "stop", "kill", "suspend", "resume", "destroy", "inspect"}

ASSUME ProcessAssumption == Ops \subseteq AllOps /\ MaxPid \in Nat /\ MaxCrashes \in Nat

VARIABLES
    disks,          \* all of them, none, or what a failed call left of the sandbox
    pidfile,        \* the process it names, 0 when there is no file
    marker,         \* the suspended marker exists
    proc,           \* what runs under each pid
    call,           \* the call each caller makes
    crashes,
    events          \* what went wrong: "struck" is a signal to the daemon's own process
                    \* group, "abandoned" a removal although the process could not be stopped

vars == <<disks, pidfile, marker, proc, call, crashes, events>>

QB == INSTANCE QemuBackend

Live == {p \in Pids : proc[p] \in {"qemu", "frozen"}}

(* The guest as QemuBackend sees it.                                       *)
Guest ==
    IF Live = {} THEN IF disks = "none" THEN "none" ELSE "stopped"
    ELSE IF pidfile \notin Live THEN "leaked"
    ELSE IF marker THEN "suspended" ELSE "running"

Idle == [op |-> "none", pc |-> "idle", then |-> "none", after |-> "none", pid |-> 0, force |-> FALSE,
         from |-> "none", exit |-> FALSE, res |-> "none"]

(* A fault of the host, if this instance has it.                           *)
Fault(f) == f \in Faults

At(c, pc) == call[c].pc = pc

Goto(c, pc) == call' = [call EXCEPT ![c] = [@ EXCEPT !.pc = pc]]

Done(c, res) == call' = [call EXCEPT ![c] = [@ EXCEPT !.pc = "done", !.res = res]]

(* Look for the process, then go on with the one found, or with 0.         *)
Find(c, then) == call' = [call EXCEPT ![c] = [@ EXCEPT !.pc = "live", !.then = then]]

Hold(c, pc, p) == call' = [call EXCEPT ![c] = [@ EXCEPT !.pc = pc, !.pid = p]]

(* Inspect, and go on with its status; a Stop that follows is forced.      *)
DoInspect(c, after) ==
    call' = [call EXCEPT ![c] =
                [@ EXCEPT !.pc = "live", !.then = "derive", !.after = after, !.force = (after = "stop")]]

(* The end of Stop: Start reports the failed boot, Destroy drops the       *)
(* outcome (res is for the record) and removes the directory.              *)
StopDone(c, res) ==
    \/ call[c].op = "start" /\ Done(c, "err")
    \/ call[c].op = "destroy" /\ call' = [call EXCEPT ![c] = [@ EXCEPT !.pc = "rm", !.res = res]]
    \/ call[c].op \notin {"start", "destroy"} /\ Done(c, res)

(* What Inspect returned, "err" included.                                  *)
Status(c, st) ==
    \/ call[c].after = "start" /\ st = "running" /\ Done(c, st)
    \/ call[c].after = "start" /\ st # "running" /\ Goto(c, "launch")
    \/ call[c].after = "stop" /\ st = "err" /\ StopDone(c, "err")
    \/ call[c].after = "stop" /\ st = "stopped" /\ Goto(c, "unmark")
    \/ call[c].after = "stop" /\ st \notin {"err", "stopped"} /\ Find(c, "kill")
    \/ call[c].after \notin {"start", "stop"} /\ Done(c, st)

-----------------------------------------------------------------------------
(* A new call: Suspend and Resume look for the process at once, the others *)
(* derive the state first.                                                 *)
Fresh(op) ==
    [Idle EXCEPT !.op = op, !.from = Guest, !.force = (op \in {"kill", "destroy"}),
       !.pc = IF op = "create" THEN "layout" ELSE "live",
       !.then = IF op = "suspend" THEN "freeze" ELSE IF op = "resume" THEN "thaw" ELSE "derive",
       !.after = IF op = "start" THEN "start"
                 ELSE IF op \in {"stop", "kill", "destroy"} THEN "stop" ELSE "inspect"]

Begin(c) ==
    /\ call[c].pc \in {"idle", "done"}
    /\ \E op \in Ops :
         /\ op = "create" => Guest = "none"
         /\ call' = [call EXCEPT ![c] = Fresh(op)]
    /\ UNCHANGED <<disks, pidfile, marker, proc, crashes, events>>

(* Create: the stale pid file goes first, then the disks are made.         *)
CreateLayout(c) ==
    /\ At(c, "layout")
    /\ \/ Goto(c, "disks") /\ pidfile' = 0
       \/ Fault("runtime") /\ Done(c, "err") /\ UNCHANGED pidfile
    /\ UNCHANGED <<disks, marker, proc, crashes, events>>

CreateDisks(c) ==
    /\ At(c, "disks")
    /\ \/ Done(c, "stopped") /\ disks' = "all"
       \/ Fault("runtime") /\ Done(c, "err") /\ disks' \in {"none", "some", "all"}
    /\ UNCHANGED <<pidfile, marker, proc, crashes, events>>

-----------------------------------------------------------------------------
(* liveSandboxPID.                                                         *)

LiveRead(c) ==
    /\ At(c, "live")
    /\ IF pidfile = 0 THEN Hold(c, "found", 0)
       ELSE Hold(c, "check", pidfile)
    /\ UNCHANGED <<disks, pidfile, marker, proc, crashes, events>>

(* Wrong: a process that is stopped does not count as alive.               *)
LiveCheckRunning(c) ==
    /\ At(c, "check")
    /\ \/ IF proc[call[c].pid] = "qemu" THEN Hold(c, "found", call[c].pid) ELSE Goto(c, "forget")
       \/ /\ Fault("stop") /\ proc[call[c].pid] # "dead"
          /\ Goto(c, "lost")
    /\ UNCHANGED <<disks, pidfile, marker, proc, crashes, events>>

(* The process is alive and its command line is this sandbox's; otherwise  *)
(* both files are stale.  Asking for either may fail.                      *)
LiveCheck(c) ==
    /\ At(c, "check")
    /\ \/ IF call[c].pid \in Live THEN Hold(c, "found", call[c].pid) ELSE Goto(c, "forget")
       \/ /\ Fault("stop") /\ proc[call[c].pid] # "dead"
          /\ Goto(c, "lost")
    /\ UNCHANGED <<disks, pidfile, marker, proc, crashes, events>>

LiveForget(c) ==
    /\ At(c, "forget")
    /\ pidfile' = 0 /\ marker' = FALSE
    /\ Hold(c, "found", 0)
    /\ UNCHANGED <<disks, proc, crashes, events>>

(* The lookup failed: every call gives up, Start only after its Inspect.   *)
LiveError(c) ==
    /\ At(c, "lost")
    /\ IF call[c].then = "derive" THEN Status(c, "err")
       ELSE IF call[c].then = "kill" THEN StopDone(c, "err") ELSE Done(c, "err")
    /\ UNCHANGED <<disks, pidfile, marker, proc, crashes, events>>

(* No process: Inspect and Resume drop the marker.  Stop goes on, with     *)
(* pid 0, when the process was there at its Inspect and is not now.        *)
FoundNone(c) ==
    /\ At(c, "found") /\ call[c].pid = 0
    /\ \/ call[c].then = "derive" /\ Status(c, "stopped") /\ marker' = FALSE
       \/ call[c].then = "freeze" /\ Done(c, "stopped") /\ UNCHANGED marker
       \/ call[c].then = "thaw" /\ Done(c, "stopped") /\ marker' = FALSE
       \/ call[c].then = "kill" /\ Goto(c, "cont") /\ UNCHANGED marker
    /\ UNCHANGED <<disks, pidfile, proc, crashes, events>>

FoundOne(c) ==
    /\ At(c, "found") /\ call[c].pid # 0
    /\ Goto(c, IF call[c].then = "kill" THEN "cont" ELSE call[c].then)
    /\ UNCHANGED <<disks, pidfile, marker, proc, crashes, events>>

-----------------------------------------------------------------------------
(* deriveRuntimeState, once there is a process.                            *)

Derive(c) ==
    /\ At(c, "derive")
    /\ IF marker THEN Status(c, "suspended") ELSE Goto(c, "probe")
    /\ UNCHANGED <<disks, pidfile, marker, proc, crashes, events>>

(* A probe looks the process up again, with the same effect on stale files.*)
Looked ==
    IF pidfile # 0 /\ pidfile \notin Live THEN pidfile' = 0 /\ marker' = FALSE ELSE UNCHANGED <<pidfile, marker>>

Answers == pidfile \in Pids /\ proc[pidfile] = "qemu"

(* The guest answers or not; a boot failure in its log makes it an error,  *)
(* the age of the pid file tells booting from degraded.                    *)
Probe(c) ==
    /\ At(c, "probe")
    /\ Looked
    /\ \/ Answers /\ Status(c, "running")
       \/ /\ Answers => Fault("probe")
          /\ \E st \in {"error", "booting", "degraded"} : Status(c, st)
    /\ UNCHANGED <<disks, proc, crashes, events>>

-----------------------------------------------------------------------------
(* Start.                                                                  *)

(* QEMU refuses to run without its disks, and while another process holds  *)
(* the lock on them.  It writes the pid file before the command returns.   *)
Launch(c) ==
    /\ At(c, "launch")
    /\ \/ /\ disks # "all" \/ Live # {} \/ Fault("runtime")
          /\ Done(c, "err") /\ UNCHANGED <<proc, pidfile>>
       \/ /\ disks = "all" /\ Live = {}
          /\ \E p \in Pids : /\ proc[p] = "unused"
                             /\ proc' = [proc EXCEPT ![p] = "qemu"]
                             /\ pidfile' = p
          /\ Goto(c, "waitpid")
    /\ UNCHANGED <<disks, marker, crashes, events>>

WaitForPID(c) ==
    /\ At(c, "waitpid")
    /\ IF pidfile # 0 THEN Goto(c, "ready") ELSE Done(c, "err")
    /\ UNCHANGED <<disks, pidfile, marker, proc, crashes, events>>

(* Not ready in time: Start stops the guest again, Resume leaves it.       *)
WaitForReady(c) ==
    /\ At(c, "ready")
    /\ Looked
    /\ \/ Answers /\ DoInspect(c, "end")
       \/ /\ Answers => Fault("runtime")
          /\ IF call[c].op = "start" THEN DoInspect(c, "stop") ELSE Done(c, "err")
    /\ UNCHANGED <<disks, proc, crashes, events>>

-----------------------------------------------------------------------------
(* Stop.                                                                   *)

Unmark(c) ==
    /\ At(c, "unmark")
    /\ marker' = FALSE
    /\ StopDone(c, "stopped")
    /\ UNCHANGED <<disks, pidfile, proc, crashes, events>>

(* A suspended guest is woken for a graceful stop.                         *)
StopContinue(c) ==
    /\ At(c, "cont")
    /\ proc' = IF marker /\ ~call[c].force /\ call[c].pid # 0 /\ proc[call[c].pid] = "frozen"
               THEN [proc EXCEPT ![call[c].pid] = "qemu"] ELSE proc
    /\ Goto(c, IF call[c].force THEN "term" ELSE "shutdown")
    /\ UNCHANGED <<disks, pidfile, marker, crashes, events>>

(* The agent is asked to shut down, and may do so within five seconds.     *)
StopShutdown(c) ==
    /\ At(c, "shutdown")
    /\ \/ proc' = proc
       \/ call[c].pid # 0 /\ proc[call[c].pid] = "qemu" /\ proc' = [proc EXCEPT ![call[c].pid] = "dead"]
    /\ Goto(c, "term")
    /\ UNCHANGED <<disks, pidfile, marker, crashes, events>>

(* terminatePID.  Pid 0 stands for the process group of the caller.        *)
Terminate(c) ==
    /\ At(c, "term")
    /\ \/ /\ call[c].pid = 0
          /\ events' = events \cup {"struck"} /\ call' = [d \in Callers |-> Idle] /\ UNCHANGED proc
       \/ /\ call[c].pid # 0
          /\ proc' = [proc EXCEPT ![call[c].pid] = "dead"]
          /\ Goto(c, "clean") /\ UNCHANGED events
       \/ /\ call[c].pid # 0 /\ proc[call[c].pid] # "dead" /\ Fault("stop")
          /\ StopDone(c, "err") /\ UNCHANGED <<proc, events>>
    /\ UNCHANGED <<disks, pidfile, marker, crashes>>

Clean(c) ==
    /\ At(c, "clean")
    /\ pidfile' = 0 /\ marker' = FALSE
    /\ StopDone(c, "stopped")
    /\ UNCHANGED <<disks, proc, crashes, events>>

-----------------------------------------------------------------------------
(* Suspend, Resume, Destroy.                                               *)

Freeze(c) ==
    /\ At(c, "freeze")
    /\ \/ /\ proc[call[c].pid] # "dead"
          /\ proc' = IF call[c].pid \in Live THEN [proc EXCEPT ![call[c].pid] = "frozen"] ELSE proc
          /\ Goto(c, "mark")
       \/ /\ proc[call[c].pid] = "dead" \/ Fault("runtime")
          /\ Done(c, "err") /\ UNCHANGED proc
    /\ UNCHANGED <<disks, pidfile, marker, crashes, events>>

MarkSuspended(c) ==
    /\ At(c, "mark")
    /\ \/ marker' = TRUE /\ Done(c, "suspended")
       \/ Fault("runtime") /\ Done(c, "err") /\ UNCHANGED marker
    /\ UNCHANGED <<disks, pidfile, proc, crashes, events>>

Thaw(c) ==
    /\ At(c, "thaw")
    /\ \/ /\ proc[call[c].pid] # "dead"
          /\ proc' = IF call[c].pid \in Live THEN [proc EXCEPT ![call[c].pid] = "qemu"] ELSE proc
          /\ Goto(c, "thawed")
       \/ /\ proc[call[c].pid] = "dead" \/ Fault("runtime")
          /\ Done(c, "err") /\ UNCHANGED proc
    /\ UNCHANGED <<disks, pidfile, marker, crashes, events>>

(* Wrong: the marker stays.                                                *)
ThawedMarked(c) ==
    /\ At(c, "thawed")
    /\ Goto(c, "ready")
    /\ UNCHANGED <<disks, pidfile, marker, proc, crashes, events>>

Thawed(c) ==
    /\ At(c, "thawed")
    /\ marker' = FALSE /\ Goto(c, "ready")
    /\ UNCHANGED <<disks, pidfile, proc, crashes, events>>

(* RemoveAll goes through the directory and on past what it cannot remove: *)
(* when it fails, any of the files may be gone, and something is left.     *)
RemoveDir(c) ==
    /\ At(c, "rm")
    /\ \/ /\ disks' = "none" /\ pidfile' = 0 /\ marker' = FALSE
          /\ \E res \in {"ok"} \cup QB!May("runtime", {"err"}) : Done(c, res)
       \/ /\ Fault("runtime") /\ Done(c, "err")
          /\ disks' \in {disks} \cup {d \in {"some"} : disks # "none"}
          /\ pidfile' \in {pidfile, 0} /\ marker' \in {marker, FALSE}
    /\ events' = events \cup {e \in {"abandoned"} : call[c].res = "err"}
    /\ UNCHANGED <<proc, crashes>>

-----------------------------------------------------------------------------
(* The host.                                                               *)

GuestExit ==
    /\ \E p \in Live : proc' = [proc EXCEPT ![p] = "dead"]
    /\ call' = [c \in Callers |-> [call[c] EXCEPT !.exit = TRUE]]
    /\ UNCHANGED <<disks, pidfile, marker, crashes, events>>

(* An unrelated process gets a pid that was the guest's.                   *)
PidReuse ==
    /\ \E p \in Pids : proc[p] = "dead" /\ proc' = [proc EXCEPT ![p] = "other"]
    /\ UNCHANGED <<disks, pidfile, marker, call, crashes, events>>

Crash ==
    /\ crashes < MaxCrashes
    /\ crashes' = crashes + 1
    /\ call' = [c \in Callers |-> Idle]
    /\ UNCHANGED <<disks, pidfile, marker, proc, events>>

Init ==
    /\ disks = "none" /\ pidfile = 0 /\ marker = FALSE
    /\ proc = [p \in Pids |-> "unused"]
    /\ call = [c \in Callers |-> Idle]
    /\ crashes = 0 /\ events = {}

Step(c) ==
    \/ Begin(c) \/ CreateLayout(c) \/ CreateDisks(c)
    \/ LiveRead(c) \/ LiveCheck(c) \/ LiveForget(c) \/ LiveError(c) \/ FoundNone(c) \/ FoundOne(c)
    \/ Derive(c) \/ Probe(c) \/ Launch(c) \/ WaitForPID(c) \/ WaitForReady(c)
    \/ Unmark(c) \/ StopContinue(c) \/ StopShutdown(c) \/ Terminate(c) \/ Clean(c)
    \/ Freeze(c) \/ MarkSuspended(c) \/ Thaw(c) \/ Thawed(c) \/ RemoveDir(c)

Next == (\E c \in Callers : Step(c)) \/ GuestExit \/ PidReuse \/ Crash

Spec == Init /\ [][Next]_vars

-----------------------------------------------------------------------------
TypeOK ==
    /\ disks \in {"none", "some", "all"} /\ marker \in BOOLEAN /\ events \subseteq {"struck", "abandoned"}
    /\ pidfile \in Pids \cup {0}
    /\ proc \in [Pids -> {"unused", "qemu", "frozen", "dead", "other"}]
    /\ crashes \in 0..MaxCrashes
    /\ \A c \in Callers : call[c].op \in AllOps \cup {"none"} /\ call[c].pid \in Pids \cup {0}

(* The outcomes QemuBackend allows a call.                                 *)
Contract(op, g) ==
    CASE op = "create" -> QB!Create(g)
      [] op = "start" -> QB!Start(g)
      [] op \in {"stop", "kill"} -> QB!Stop(g)
      [] op = "suspend" -> QB!Suspend(g)
      [] op = "resume" -> QB!Resume(g)
      [] op = "destroy" -> QB!Destroy(g)
      [] op = "inspect" -> {<<g, st>> : st \in QB!Inspect(g)}

(* A call the guest did not exit during has one of the outcomes the        *)
(* service is modelled with: the state of the guest and the reported       *)
(* status, after every failure, crash and leftover file of earlier calls.  *)
OutcomesAreContract ==
    \A c \in Callers :
        call[c].pc = "done" /\ ~call[c].exit => <<Guest, call[c].res>> \in Contract(call[c].op, call[c].from)

(* The process of a sandbox can be found: a live QEMU is the one the pid   *)
(* file names, whatever call was cut short or failed (Start, Stop,         *)
(* liveSandboxPID), as long as no Destroy went on to remove the directory  *)
(* after its forced Stop had failed.                                       *)
ProcessIsTracked == "abandoned" \notin events => Live \subseteq {pidfile}

(* Stopping and deleting are safe however much of the sandbox is gone      *)
(* already: no call signals a process group that is not the guest's, the   *)
(* daemon's own above all (Stop, terminatePID).                            *)
StopSparesDaemon == "struck" \notin events

=============================================================================
