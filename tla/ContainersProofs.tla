-------------------------- MODULE ContainersProofs --------------------------
(***************************************************************************)
(* The safety properties of the container backends, for every row, backend *)
(* and fault, and any number of calls, commands and connections.  The      *)
(* lifecycle calls, the commands and the connections each have an          *)
(* inductive invariant of their own: what a call has done by each of its   *)
(* steps, how the parts of a command agree, and how a connection's state   *)
(* bounds that of its program.                                             *)
(***************************************************************************)
EXTENDS Containers, TLAPS

----------------------------------------------------------------------------
(* Connections.                                                            *)

ConnRec ==
    [st : {"idle", "await", "open", "cleanup", "reaping", "closing", "failed", "closed"},
     proc : {"none", "up", "exited", "reaped"}, line : {"none", "ready", "other"},
     waitCh : {"empty", "full", "taken"}]

(* A program that cmd.Wait has returned for is gone, and a connection that *)
(* has ended left its program as ConnectionsEnd says.                      *)
ConnGood(c, r) ==
    /\ r \in ConnRec
    /\ r.st = "idle" => r.proc = "none" /\ r.waitCh = "empty"
    /\ r.waitCh # "empty" => r.proc # "up" /\ (c \notin Ttys => r.proc = "reaped")
    /\ r.st \in {"failed", "closed"} =>
          r.proc \in {"none", "reaped"} \cup IF c \in Ttys THEN {"exited"} ELSE {}

ConnInv == conn \in [Conns -> ConnRec] /\ \A c \in Conns : ConnGood(c, conn[c])

(* A step of a connection, whoever takes it, keeps its program bounded.    *)
LEMMA ConnStepKeeps ==
    ASSUME ConnInv, NEW c \in Conns, ConnNext(c)
    PROVE  ConnInv'
<1>r. PICK r \in ConnRec : r = conn[c] /\ ConnGood(c, r)
  BY Zenon DEF ConnInv
<1>1. ASSUME NEW q, Put(c, q), ConnGood(c, q) PROVE ConnInv'
  <2>1. q \in ConnRec
    BY <1>1, Zenon DEF ConnGood
  <2>2. conn' \in [Conns -> ConnRec] /\ conn'[c] = q /\ \A d \in Conns \ {c} : conn'[d] = conn[d]
    BY <1>1, <2>1, Zenon DEF Put, ConnInv
  <2> QED BY <1>1, <2>2, Zenon DEF ConnInv
<1>2. CASE OpenSandboxLocalConn(c)
  <2>1. ConnGood(c, [r EXCEPT !.st = "await", !.proc = "up"])
    BY <1>r, <1>2, Zenon DEF OpenSandboxLocalConn, ConnGood, ConnRec
  <2>2. ConnGood(c, [r EXCEPT !.st = "failed"])
    BY <1>r, <1>2, Zenon DEF OpenSandboxLocalConn, ConnGood, ConnRec
  <2> QED BY <1>r, <1>1, <1>2, <2>1, <2>2, Zenon DEF OpenSandboxLocalConn
<1>3. CASE BridgeSpeaks(c)
  <2>1. PICK line \in {"ready", "other"} : Put(c, [r EXCEPT !.line = line])
    BY <1>r, <1>3, Zenon DEF BridgeSpeaks
  <2>2. ConnGood(c, [r EXCEPT !.line = line])
    BY <1>r, <2>1, SMT DEF ConnGood, ConnRec
  <2> QED BY <1>1, <2>1, <2>2, Zenon
<1>4. CASE ProcExits(c)
  <2>1. ConnGood(c, [r EXCEPT !.proc = "exited"])
    BY <1>r, <1>4, Zenon DEF ProcExits, ConnGood, ConnRec
  <2> QED BY <1>r, <1>1, <1>4, <2>1, Zenon DEF ProcExits
<1>5. CASE Reap(c)
  <2>1. ConnGood(c, [r EXCEPT !.proc = "reaped", !.waitCh = "full"])
    BY <1>r, <1>5, Zenon DEF Reap, ConnGood, ConnRec
  <2> QED BY <1>r, <1>1, <1>5, <2>1, Zenon DEF Reap
<1>6. CASE AwaitReady(c)
  <2>1. ASSUME NEW st \in {"open", "cleanup"}, r.st = "await" PROVE ConnGood(c, [r EXCEPT !.st = st])
    BY <1>r, <2>1, SMT DEF ConnGood, ConnRec
  <2>2. r.waitCh = "full" => ConnGood(c, [r EXCEPT !.st = "cleanup", !.waitCh = "taken"])
    BY <1>r, Zenon DEF ConnGood, ConnRec
  <2> QED BY <1>r, <1>1, <1>6, <2>1, <2>2, Zenon DEF AwaitReady
<1>7. CASE Abandon(c) \/ CloseBridge(c)
  <2>1. PICK p \in {r.proc, "exited"} : p = IF r.proc = "up" THEN "exited" ELSE r.proc
    BY Zenon
  <2>2. Killed(r) = [st |-> r.st, proc |-> p, line |-> r.line, waitCh |-> r.waitCh]
    BY <2>1, SMT DEF Killed, ConnRec
  <2>3. ASSUME NEW st \in {"reaping", "closing"} PROVE ConnGood(c, [Killed(r) EXCEPT !.st = st])
    BY <1>r, <2>1, <2>2, <2>3, SMT DEF ConnGood, ConnRec
  <2> QED BY <1>r, <1>1, <1>7, <2>3, Zenon DEF Abandon, CloseBridge
<1>8. CASE Abandoned(c) \/ BridgeClosed(c)
  <2>1. ASSUME NEW st \in {"failed", "closed"}, r.waitCh = "full"
        PROVE  ConnGood(c, [r EXCEPT !.st = st, !.waitCh = "taken"])
    BY <1>r, <2>1, Zenon DEF ConnGood, ConnRec
  <2> QED BY <1>r, <1>1, <1>8, <2>1, Zenon DEF Abandoned, BridgeClosed
<1>9. CASE AttachTTY(c)
  <2>1. ConnGood(c, [r EXCEPT !.st = "open", !.proc = "up"])
    BY <1>r, <1>9, Zenon DEF AttachTTY, ConnGood, ConnRec
  <2>2. ASSUME NEW proc \in {"none", "exited"} PROVE ConnGood(c, [r EXCEPT !.st = "failed", !.proc = proc])
    BY <1>r, <1>9, <2>2, Zenon DEF AttachTTY, ConnGood, ConnRec
  <2> QED BY <1>r, <1>1, <1>9, <2>1, <2>2, Zenon DEF AttachTTY
<1>10. CASE CloseTTY(c)
  <2>1. ASSUME NEW proc \in {"reaped", "exited"} PROVE ConnGood(c, [r EXCEPT !.st = "closed", !.proc = proc])
    BY <1>r, <1>10, <2>1, Zenon DEF CloseTTY, ConnGood, ConnRec
  <2> QED BY <1>r, <1>1, <1>10, <2>1, Zenon DEF CloseTTY
<1> QED BY <1>2, <1>3, <1>4, <1>5, <1>6, <1>7, <1>8, <1>9, <1>10, Zenon DEF ConnNext

----------------------------------------------------------------------------
(* Lifecycle calls.                                                        *)

Stages ==
    {"done", "create", "network", "container", "remove half", "container again", "command",
     "inspect", "remove network", "remove dirs", "task kill", "task delete", "containers delete",
     "containers ls"}

Results == Statuses \cup {"none", "ok", "err"}

CallRec == [op : Ops, pc : Stages, res : Results]

EngineTypes ==
    /\ box \in Boxes /\ seen \subseteq Sights
    /\ net \in BOOLEAN /\ dirs \in BOOLEAN /\ capped \in BOOLEAN
    /\ call \in CallRec /\ calls \in Nat

(* The calls that are at one of these steps.                               *)
OpsFit ==
    /\ call.pc = "create" => call.op = "create"
    /\ call.pc = "command" => call.op \notin {"create", "inspect"}
    /\ call.pc \in {"task kill", "task delete"} => call.op \in {"stop", "kill", "destroy"}
    /\ call.pc \in {"containers delete", "remove network", "remove dirs"} => call.op = "destroy"

(* A container is made once, on an engine without it, after its network,   *)
(* and the quota is dropped only for an engine that cannot enforce it; the *)
(* network goes after the container, or what Kata takes for its absence.   *)
Steps ==
    /\ calls = 0 => call.pc = "done"
    /\ calls = 0 /\ ~host.up => box = "absent"
    /\ call.pc \in {"create", "network", "container"} => box = "absent"
    /\ call.pc = "network" => host.internet
    /\ call.pc \in {"container", "remove half", "container again"} => (host.internet => net)
    /\ call.pc \in {"remove half", "container again"} => ~host.storageOpt
    /\ call.pc \in {"remove network", "remove dirs"}
          => box = "absent" \/ (backend = "kata" /\ "unreached" \in seen)
    /\ call.pc = "remove dirs" => ~net
    /\ net => backend = "docker" /\ host.internet

(* The call in progress has seen the container as it is; a Suspend that    *)
(* goes on to Inspect has seen it paused, and Kata's Inspect lists         *)
(* containers only when there is no task.                                  *)
Looks ==
    /\ call.pc # "done" => box \in seen
    /\ call.pc = "inspect" /\ call.op = "suspend" => "paused" \in seen
    /\ call.pc = "containers ls" => box \in {"created", "absent"}

EngineInv ==
    EngineTypes /\ OpsFit /\ Steps /\ Looks /\ DestroyedIsGone /\ ContainerIsConfined /\ AnswersWereTrue

(* The setting a step leaves alone decides the backend.                    *)
LEMMA SameBackend == ASSUME host' = host PROVE backend' = backend
BY Zenon DEF backend

(* An outcome is a pair.                                                   *)
LEMMA Pairs == \A x, y : <<x, y>>[1] = x /\ <<x, y>>[2] = y
BY SMT

(* What the docker program may do to a container, failures included.       *)
LEMMA DockerOutcomes ==
    ASSUME NEW cmd, NEW b \in Boxes, NEW o \in run(DockerCommand(cmd, b), b)
    PROVE  /\ o[1] \in Boxes
           /\ b = "absent" /\ cmd # "create" => o[1] = "absent"
           /\ cmd = "create" /\ b = "absent" => o[1] \in {"absent", "created"}
           /\ cmd = "create" /\ o[2] = "ok" => o[1] = "created"
           /\ cmd = "rm" /\ o[2] # "err" => o[1] = "absent"
           /\ cmd = "pause" /\ o[2] = "ok" => o[1] = "paused"
           /\ cmd = "inspect" => o[1] = b
           /\ o[2] \in {"ok", "missing", "err"}
<1>1. ASSUME NEW d \in DockerCommand(cmd, b)
      PROVE  /\ d[1] \in Boxes
             /\ b = "absent" /\ cmd # "create" => d[1] = "absent"
             /\ cmd = "create" /\ b = "absent" => d[1] = "created"
             /\ cmd = "create" /\ d[2] = "ok" => d[1] = "created"
             /\ cmd = "rm" => d[1] = "absent"
             /\ cmd = "pause" /\ d[2] = "ok" => d[1] = "paused"
             /\ cmd = "inspect" => d[1] = b
             /\ d[2] \in {"ok", "missing", "err"}
  BY <1>1, SMT DEF DockerCommand, Boxes
<1>2. CASE o \in DockerCommand(cmd, b)
  BY <1>1, <1>2, Zenon
<1>3. CASE o = <<b, "err">>
  BY <1>3, SMT
<1>4. CASE \E d \in DockerCommand(cmd, b) : o = <<d[1], "err">>
  BY <1>1, <1>4, SMT
<1> QED BY <1>2, <1>3, <1>4, Zenon DEF run

(* The same for the ctr program.                                           *)
LEMMA CtrOutcomes ==
    ASSUME NEW cmd, NEW b \in Boxes, NEW o \in run(CtrCommand(cmd, b), b)
    PROVE  /\ o[1] \in Boxes
           /\ b = "absent" /\ cmd # "run" => o[1] = "absent"
           /\ cmd = "containers delete" /\ o[2] # "err" => o[1] = "absent"
           /\ cmd = "task start" /\ o[2] = "ok" => o[1] = "running"
           /\ o[2] \in {"ok", "missing", "err"}
<1>1. ASSUME NEW d \in CtrCommand(cmd, b)
      PROVE  /\ d[1] \in Boxes
             /\ b = "absent" /\ cmd # "run" => d[1] = "absent"
             /\ cmd = "containers delete" /\ d[2] # "err" => d[1] = "absent"
             /\ cmd = "task start" /\ d[2] = "ok" => d[1] = "running"
             /\ d[2] \in {"ok", "missing", "err"}
  <2>1. \/ d = <<"running", "ok">> /\ cmd \in {"run", "task start"} /\ (b = "absent" => cmd = "run")
        \/ d = <<b, "err">>
        \/ d = <<b, "missing">> /\ (cmd = "containers delete" => b = "absent")
        \/ d = <<b, "ok">> /\ cmd = "task kill"
        \/ d = <<"exited", "ok">> /\ cmd = "task kill" /\ b # "absent"
        \/ d = <<"created", "ok">> /\ cmd = "task delete" /\ b # "absent"
        \/ d = <<"absent", "ok">> /\ cmd = "containers delete"
    BY <1>1, Zenon DEF CtrCommand
  <2>2. PICK x, y : d = <<x, y>>
    BY <2>1, Zenon
  <2>3. x = d[1] /\ y = d[2]
    BY <2>2, Pairs, Zenon
  <2> QED BY <2>1, <2>2, <2>3, Pairs, Zenon DEF Boxes
<1>2. CASE o \in CtrCommand(cmd, b)
  BY <1>1, <1>2, Zenon
<1>3. CASE o = <<b, "err">>
  BY <1>3, Pairs, Zenon
<1>4. CASE \E d \in CtrCommand(cmd, b) : o = <<d[1], "err">>
  <2>1. PICK d \in CtrCommand(cmd, b) : o = <<d[1], "err">>
    BY <1>4, Zenon
  <2>2. o[1] = d[1] /\ o[2] = "err"
    BY <2>1, Pairs, Zenon
  <2> QED BY <1>1, <2>2, Zenon
<1> QED BY <1>2, <1>3, <1>4, Zenon DEF run

(* What Goto and Return make of a call.                                    *)
LEMMA CallMoves ==
    ASSUME call \in CallRec
    PROVE  /\ \A pc \in Stages : Goto(pc) =>
                call' \in CallRec /\ call'.op = call.op /\ call'.pc = pc /\ call'.res = call.res
           /\ \A res \in Results : Return(res) =>
                call' \in CallRec /\ call'.op = call.op /\ call'.pc = "done" /\ call'.res = res
<1>r. PICK r \in CallRec : r = call
  BY Zenon
<1>0. "done" \in Stages
  BY Zenon DEF Stages
<1>1. ASSUME NEW pc \in Stages
      PROVE  LET q == [r EXCEPT !.pc = pc]
             IN  q \in CallRec /\ q.op = r.op /\ q.pc = pc /\ q.res = r.res
  BY <1>1, Zenon DEF CallRec
<1>2. ASSUME NEW res \in Results
      PROVE  LET q == [r EXCEPT !.pc = "done", !.res = res]
             IN  q \in CallRec /\ q.op = r.op /\ q.pc = "done" /\ q.res = res
  BY <1>0, <1>2, Zenon DEF CallRec
<1>3. ASSUME NEW pc \in Stages, Goto(pc)
      PROVE  call' \in CallRec /\ call'.op = call.op /\ call'.pc = pc /\ call'.res = call.res
  BY <1>r, <1>1, <1>3, Zenon DEF Goto
<1>4. ASSUME NEW res \in Results, Return(res)
      PROVE  call' \in CallRec /\ call'.op = call.op /\ call'.pc = "done" /\ call'.res = res
  BY <1>r, <1>2, <1>4, Zenon DEF Return
<1> QED BY <1>3, <1>4, Zenon

(* The statuses that are claims about the container, and the others.       *)
LEMMA Truths ==
    /\ Truth("running") = {"running", "paused"} /\ Truth("stopped") = {"created", "exited"}
    /\ Truth("suspended") = {"paused"} /\ Truth("deleted") = {"absent"}
    /\ Truth("err") = Boxes /\ Truth("ok") = Boxes /\ Truth("degraded") = Boxes /\ Truth("none") = Boxes
BY Zenon DEF Truth

(* A call that returns: it is enough that its answer was true, and that    *)
(* the container is confined, or gone after a Destroy.                     *)
LEMMA Returned ==
    ASSUME EngineInv, call.pc # "done", host' = host, calls' = calls,
           EngineTypes', call'.pc = "done", call'.op = call.op,
           net' => backend = "docker" /\ host.internet,
           DestroyedIsGone', ContainerIsConfined',
           \/ backend = "kata" /\ call.op \in {"create", "stop", "kill"}
           \/ \E b \in seen' : b \in Truth(call'.res)
    PROVE  EngineInv'
<1>0. backend' = backend
  BY SameBackend, Zenon
<1>1. OpsFit' /\ Looks'
  BY Zenon DEF OpsFit, Looks
<1>2. Steps'
  BY <1>0, Zenon DEF Steps, EngineInv
<1>3. AnswersWereTrue'
  BY <1>0, Zenon DEF AnswersWereTrue
<1> QED BY <1>1, <1>2, <1>3, Zenon DEF EngineInv

(* A call that goes on.                                                    *)
LEMMA Continues ==
    ASSUME EngineInv, host' = host, EngineTypes', call'.pc # "done",
           OpsFit', Steps', Looks', ContainerIsConfined'
    PROVE  EngineInv'
BY Zenon DEF EngineInv, DestroyedIsGone, AnswersWereTrue

(* What a step that is not the last of a Destroy may leave.                *)
LEMMA NotDestroyed ==
    ASSUME call'.op # "destroy" \/ call'.res # "ok"
    PROVE  DestroyedIsGone'
BY Zenon DEF DestroyedIsGone

(* The stages and results by name.                                         *)
LEMMA Names ==
    /\ {"done", "create", "network", "container", "remove half", "container again", "command", "inspect",
        "remove network", "remove dirs", "task kill", "task delete", "containers delete",
        "containers ls"} \subseteq Stages
    /\ {"err", "ok", "none", "stopped", "running", "suspended", "deleted", "degraded"} \subseteq Results
    /\ {"absent", "created", "running", "paused", "exited"} \subseteq Boxes
    /\ Boxes \subseteq Sights /\ "unreached" \in Sights
BY Zenon DEF Stages, Results, Statuses, Boxes, Sights

(* Docker's Create: the directories, the network, the container.           *)
LEMMA DockerCreates ==
    ASSUME EngineInv, DockerMkdirs \/ ensureNetwork \/ resolveSecurityOptions
    PROVE  EngineInv'
<1>0. call \in CallRec /\ host' = host /\ backend' = backend /\ box' = box /\ seen' = seen /\ capped' = capped
      /\ calls' = calls /\ backend = "docker"
  BY SameBackend, Zenon
     DEF EngineInv, EngineTypes, DockerMkdirs, ensureNetwork, resolveSecurityOptions, At
<1>b. call.pc # "done" => box \in seen /\ box \in Boxes /\ calls # 0
  BY Zenon DEF EngineInv, EngineTypes, Looks, Steps
<1>1. ASSUME Return("err"), net' \in BOOLEAN, dirs' \in BOOLEAN, call.pc # "done", net => net',
             net' => net \/ host.internet
      PROVE  EngineInv'
  <2>1. call' \in CallRec /\ call'.op = call.op /\ call'.pc = "done" /\ call'.res = "err"
    BY <1>0, <1>1, CallMoves, Names, Zenon
  <2>2. EngineTypes'
    BY <1>0, <1>1, <2>1, Zenon DEF EngineInv, EngineTypes
  <2>3. DestroyedIsGone' /\ ContainerIsConfined'
    BY <1>0, <1>1, <2>1, NotDestroyed, Zenon DEF EngineInv, ContainerIsConfined
  <2>4. net' => backend = "docker" /\ host.internet
    BY <1>0, <1>1, Zenon DEF EngineInv, Steps
  <2> QED BY <1>0, <1>b, <1>1, <2>1, <2>2, <2>3, <2>4, Returned, Truths, Zenon
<1>2. CASE DockerMkdirs
  <2>1. call.pc = "create" /\ net' = net /\ dirs' = TRUE
    BY <1>2, Zenon DEF DockerMkdirs, At
  <2>2. ASSUME Goto(IF host.internet THEN "network" ELSE "container") PROVE EngineInv'
    <3>1. /\ call' \in CallRec /\ call'.op = call.op /\ call'.pc \in {"network", "container"}
          /\ call'.pc = IF host.internet THEN "network" ELSE "container"
      BY <1>0, <2>2, CallMoves, Names, Zenon
    <3>2. EngineTypes' /\ OpsFit' /\ Looks'
      BY <1>0, <1>b, <2>1, <3>1, Zenon DEF EngineInv, EngineTypes, OpsFit, Looks
    <3>3. Steps' /\ ContainerIsConfined'
      BY <1>0, <1>b, <2>1, <3>1, Zenon DEF EngineInv, Steps, ContainerIsConfined
    <3> QED BY <1>0, <3>1, <3>2, <3>3, Continues, Zenon
  <2>3. ASSUME Return("err") PROVE EngineInv'
    <3>1. net' \in BOOLEAN /\ dirs' \in BOOLEAN
      BY <2>1, Zenon DEF EngineInv, EngineTypes
    <3> QED BY <1>1, <2>1, <2>3, <3>1, Zenon
  <2> QED BY <1>2, <2>2, <2>3, Zenon DEF DockerMkdirs
<1>3. CASE ensureNetwork
  <2>1. call.pc = "network" /\ dirs' = dirs
    BY <1>3, Zenon DEF ensureNetwork, At
  <2>2. ASSUME net' = TRUE, Goto("container") PROVE EngineInv'
    <3>1. call' \in CallRec /\ call'.op = call.op /\ call'.pc = "container"
      BY <1>0, <2>2, CallMoves, Names, Zenon
    <3>2. EngineTypes' /\ OpsFit' /\ Looks'
      BY <1>0, <1>b, <2>1, <2>2, <3>1, Zenon DEF EngineInv, EngineTypes, OpsFit, Looks
    <3>3. Steps' /\ ContainerIsConfined'
      BY <1>0, <1>b, <2>1, <2>2, <3>1, Zenon DEF EngineInv, Steps, ContainerIsConfined
    <3> QED BY <1>0, <3>1, <3>2, <3>3, Continues, Zenon
  <2>3. ASSUME net' \in {net, TRUE}, Return("err") PROVE EngineInv'
    <3>1. net \in BOOLEAN /\ net' \in BOOLEAN /\ dirs' \in BOOLEAN
      BY <2>1, <2>3, Zenon DEF EngineInv, EngineTypes
    <3>2. host.internet
      BY <2>1, Zenon DEF EngineInv, Steps
    <3>3. net => net'
      <4>1. CASE net' = net
        BY <4>1, Zenon
      <4>2. CASE net' = TRUE
        BY <4>2, Zenon
      <4> QED BY <2>3, <4>1, <4>2, Zenon
    <3> QED BY <1>1, <2>1, <2>3, <3>1, <3>2, <3>3, Zenon
  <2> QED BY <1>3, <2>2, <2>3, Zenon DEF ensureNetwork
<1>4. CASE resolveSecurityOptions
  BY <1>1, <1>4, Zenon DEF resolveSecurityOptions, EngineInv, EngineTypes, At
<1> QED BY <1>2, <1>3, <1>4, Zenon

(* A command that changes the container during a call is seen by it.       *)
LEMMA Boxed ==
    ASSUME EngineInv, NEW b \in Boxes, SetBox(b), call.pc # "done"
    PROVE  box' = b /\ b \in seen' /\ seen' \subseteq Sights /\ seen \subseteq seen'
BY Names, Zenon DEF SetBox, EngineInv, EngineTypes

(* The create command, with the disk quota where the engine knows it.      *)
LEMMA DockerCreated ==
    ASSUME EngineInv, DockerCreate
    PROVE  EngineInv'
<1>0. call \in CallRec /\ host' = host /\ backend' = backend /\ calls' = calls /\ net' = net /\ dirs' = dirs
      /\ backend = "docker" /\ call.pc = "container" /\ box \in Boxes /\ calls # 0
  BY SameBackend, Zenon DEF EngineInv, EngineTypes, Steps, DockerCreate, At
<1>1. box = "absent" /\ (host.internet => net) /\ (net => host.internet)
  BY <1>0, Zenon DEF EngineInv, Steps
<1>2. PICK o \in IF host.storageOpt THEN run(DockerCommand("create", box), box)
                 ELSE {<<b, "unsupported">> : b \in {box, "created"}} :
         /\ SetBox(o[1])
         /\ capped' = (o[1] = "created" /\ host.storageOpt)
         /\ IF dockerStorageOptUnsupported(o[2]) THEN Goto("remove half")
            ELSE Return(IF o[2] = "ok" THEN "stopped" ELSE "err")
  BY Zenon DEF DockerCreate
<1>3. /\ o[1] \in {"absent", "created"} /\ o[1] \in Boxes
      /\ o[2] = "ok" => o[1] = "created"
      /\ host.storageOpt <=> o[2] # "unsupported"
  <2>1. CASE host.storageOpt
    <3>1. o \in run(DockerCommand("create", box), box)
      BY <1>2, <2>1, Zenon
    <3> QED BY <1>0, <1>1, <2>1, <3>1, DockerOutcomes, Zenon
  <2>2. CASE ~host.storageOpt
    <3>1. PICK b \in {box, "created"} : o = <<b, "unsupported">>
      BY <1>2, <2>2, Zenon
    <3> QED BY <1>0, <1>1, <2>2, <3>1, Pairs, Names, Zenon
  <2> QED BY <2>1, <2>2, Zenon
<1>4. box' = o[1] /\ o[1] \in seen' /\ seen' \subseteq Sights
  BY <1>0, <1>2, <1>3, Boxed, Zenon
<1>5. capped' \in BOOLEAN /\ (host.storageOpt /\ box' # "absent" => capped')
  BY <1>2, <1>3, <1>4, Zenon
<1>6. ContainerIsConfined'
  BY <1>0, <1>1, <1>5, Zenon DEF ContainerIsConfined
<1>7. CASE o[2] = "unsupported"
  <2>1. call' \in CallRec /\ call'.op = call.op /\ call'.pc = "remove half"
    BY <1>0, <1>2, <1>7, CallMoves, Names, Zenon DEF dockerStorageOptUnsupported
  <2>2. EngineTypes' /\ OpsFit' /\ Looks'
    BY <1>0, <1>3, <1>4, <1>5, <2>1, Zenon DEF EngineInv, EngineTypes, OpsFit, Looks
  <2>3. Steps'
    BY <1>0, <1>1, <1>3, <1>7, <2>1, Zenon DEF Steps
  <2> QED BY <1>0, <1>6, <2>1, <2>2, <2>3, Continues, Zenon
<1>8. CASE o[2] # "unsupported"
  <2>1. /\ call' \in CallRec /\ call'.op = call.op /\ call'.pc = "done"
        /\ call'.res = IF o[2] = "ok" THEN "stopped" ELSE "err"
    BY <1>0, <1>2, <1>8, CallMoves, Names, Zenon DEF dockerStorageOptUnsupported
  <2>2. EngineTypes'
    BY <1>0, <1>3, <1>4, <1>5, <2>1, Zenon DEF EngineInv, EngineTypes
  <2>3. o[1] \in Truth(call'.res) /\ call'.res # "ok"
    BY <1>3, <2>1, Truths, Zenon
  <2> QED BY <1>0, <1>1, <1>4, <1>6, <2>1, <2>2, <2>3, NotDestroyed, Returned, Zenon
<1> QED BY <1>7, <1>8, Zenon

(* The second attempt without the quota, after an attempt to remove what   *)
(* the first one left.                                                     *)
LEMMA DockerRetries ==
    ASSUME EngineInv, DockerRemoveHalf \/ DockerCreateAgain
    PROVE  EngineInv'
<1>0. call \in CallRec /\ host' = host /\ backend' = backend /\ calls' = calls /\ net' = net /\ dirs' = dirs
      /\ backend = "docker" /\ call.pc \in {"remove half", "container again"} /\ box \in Boxes /\ calls # 0
  BY SameBackend, Zenon DEF EngineInv, EngineTypes, Steps, DockerRemoveHalf, DockerCreateAgain, At
<1>1. ~host.storageOpt /\ (host.internet => net) /\ (net => host.internet)
  BY <1>0, Zenon DEF EngineInv, Steps
<1>2. ContainerIsConfined'
  BY <1>0, <1>1, Zenon DEF ContainerIsConfined
<1>3. CASE DockerRemoveHalf
  <2>1. PICK o \in run(DockerCommand("rm", box), box) : SetBox(o[1]) /\ Goto("container again")
    BY <1>3, Zenon DEF DockerRemoveHalf, Docker
  <2>2. o[1] \in Boxes
    BY <1>0, <2>1, DockerOutcomes, Zenon
  <2>3. box' = o[1] /\ o[1] \in seen' /\ seen' \subseteq Sights /\ capped' = capped
    BY <1>0, <1>3, <2>1, <2>2, Boxed, Zenon DEF DockerRemoveHalf
  <2>4. call' \in CallRec /\ call'.op = call.op /\ call'.pc = "container again"
    BY <1>0, <2>1, CallMoves, Names, Zenon
  <2>5. EngineTypes' /\ OpsFit' /\ Looks'
    BY <1>0, <2>2, <2>3, <2>4, Zenon DEF EngineInv, EngineTypes, OpsFit, Looks
  <2>6. Steps'
    BY <1>0, <1>1, <2>4, Zenon DEF Steps
  <2> QED BY <1>0, <1>2, <2>4, <2>5, <2>6, Continues, Zenon
<1>4. CASE DockerCreateAgain
  <2>1. PICK o \in run(DockerCommand("create", box), box) :
           SetBox(o[1]) /\ Return(IF o[2] = "ok" THEN "stopped" ELSE "err")
    BY <1>4, Zenon DEF DockerCreateAgain, Docker
  <2>2. o[1] \in Boxes /\ (o[2] = "ok" => o[1] = "created")
    BY <1>0, <2>1, DockerOutcomes, Zenon
  <2>3. box' = o[1] /\ o[1] \in seen' /\ seen' \subseteq Sights /\ capped' = FALSE
    BY <1>0, <1>4, <2>1, <2>2, Boxed, Zenon DEF DockerCreateAgain
  <2>4. /\ call' \in CallRec /\ call'.op = call.op /\ call'.pc = "done"
        /\ call'.res = IF o[2] = "ok" THEN "stopped" ELSE "err"
    BY <1>0, <2>1, CallMoves, Names, Zenon
  <2>5. EngineTypes'
    BY <1>0, <2>2, <2>3, <2>4, Zenon DEF EngineInv, EngineTypes
  <2>6. o[1] \in Truth(call'.res) /\ call'.res # "ok"
    BY <2>2, <2>4, Truths, Zenon
  <2> QED BY <1>0, <1>1, <1>2, <2>3, <2>4, <2>5, <2>6, NotDestroyed, Returned, Zenon
<1> QED BY <1>3, <1>4, Zenon

(* The command of Start, Stop, Suspend, Resume and Destroy.                *)
LEMMA DockerCommands ==
    ASSUME EngineInv, DockerStep
    PROVE  EngineInv'
<1>0. call \in CallRec /\ host' = host /\ backend' = backend /\ calls' = calls /\ net' = net /\ dirs' = dirs
      /\ capped' = capped /\ backend = "docker" /\ call.pc = "command" /\ box \in Boxes /\ calls # 0
  BY SameBackend, Zenon DEF EngineInv, EngineTypes, Steps, DockerStep, At
<1>1. PICK o \in run(DockerCommand(CommandOf(call.op), box), box) :
         /\ SetBox(o[1])
         /\ IF ~Tolerated(o[2]) THEN Return("err")
            ELSE Goto(IF call.op = "destroy" THEN "remove network" ELSE "inspect")
  BY Zenon DEF DockerStep, Docker
<1>2. call.op \notin {"create", "inspect"} /\ CommandOf(call.op) # "create"
  BY <1>0, Zenon DEF EngineInv, OpsFit, CommandOf
<1>3. /\ o[1] \in Boxes /\ (box = "absent" => o[1] = "absent")
      /\ call.op = "destroy" /\ o[2] # "err" => o[1] = "absent"
      /\ call.op = "suspend" /\ o[2] = "ok" => o[1] = "paused"
  <2>1. PICK cmd : cmd = CommandOf(call.op)
    BY Zenon
  <2>2. /\ o[1] \in Boxes /\ (box = "absent" /\ cmd # "create" => o[1] = "absent")
        /\ cmd = "rm" /\ o[2] # "err" => o[1] = "absent"
        /\ cmd = "pause" /\ o[2] = "ok" => o[1] = "paused"
    <3>1. box \in Boxes /\ o \in run(DockerCommand(cmd, box), box)
      BY <1>0, <1>1, <2>1, Zenon
    <3> QED BY ONLY <3>1, DockerOutcomes
  <2>3. (call.op = "destroy" => cmd = "rm") /\ (call.op = "suspend" => cmd = "pause")
    BY <2>1, Zenon DEF CommandOf
  <2> QED BY <1>2, <2>1, <2>2, <2>3, Zenon
<1>4. box' = o[1] /\ o[1] \in seen' /\ seen' \subseteq Sights
  BY <1>0, <1>1, <1>3, Boxed, Zenon
<1>5. ContainerIsConfined'
  BY <1>0, <1>3, <1>4, Zenon DEF EngineInv, ContainerIsConfined
<1>6. CASE ~Tolerated(o[2])
  <2>1. call' \in CallRec /\ call'.op = call.op /\ call'.pc = "done" /\ call'.res = "err"
    BY <1>0, <1>1, <1>6, CallMoves, Names, Zenon
  <2>2. EngineTypes' /\ o[1] \in Truth(call'.res)
    BY <1>0, <1>3, <1>4, <2>1, Truths, Zenon DEF EngineInv, EngineTypes
  <2>3. net' => backend = "docker" /\ host.internet
    BY <1>0, Zenon DEF EngineInv, Steps
  <2> QED BY <1>0, <1>4, <1>5, <2>1, <2>2, <2>3, NotDestroyed, Returned, Zenon
<1>7. CASE Tolerated(o[2])
  <2>1. /\ call' \in CallRec /\ call'.op = call.op
        /\ call'.pc = IF call.op = "destroy" THEN "remove network" ELSE "inspect"
    BY <1>0, <1>1, <1>7, CallMoves, Names, Zenon
  <2>2. EngineTypes' /\ OpsFit'
    BY <1>0, <1>3, <1>4, <2>1, Zenon DEF EngineInv, EngineTypes, OpsFit
  <2>3. Looks'
    BY <1>3, <1>4, <1>7, <2>1, Zenon DEF Tolerated, Looks
  <2>4. call.op = "destroy" => box' = "absent"
    BY <1>3, <1>4, <1>7, Zenon DEF Tolerated
  <2>5. Steps'
    BY <1>0, <2>1, <2>4, Zenon DEF EngineInv, Steps
  <2> QED BY <1>0, <1>5, <2>1, <2>2, <2>3, <2>5, Continues, Zenon
<1> QED BY <1>6, <1>7, Zenon

(* Inspect on its own, or as the end of another call.                      *)
LEMMA DockerInspects ==
    ASSUME EngineInv, DockerInspect
    PROVE  EngineInv'
<1>0. call \in CallRec /\ host' = host /\ backend' = backend /\ calls' = calls /\ net' = net /\ dirs' = dirs
      /\ capped' = capped /\ backend = "docker" /\ call.pc = "inspect" /\ box \in Boxes /\ box \in seen
  BY SameBackend, Zenon DEF EngineInv, EngineTypes, Looks, DockerInspect, At
<1>1. PICK o \in run(DockerCommand("inspect", box), box) :
         /\ SetBox(o[1])
         /\ Return(IF o[2] = "err" THEN "err"
                   ELSE IF call.op = "suspend" THEN "suspended" ELSE DockerStatus(box))
  BY Zenon DEF DockerInspect, Docker
<1>2. o[1] = box
  <2>1. box \in Boxes /\ o \in run(DockerCommand("inspect", box), box)
    BY <1>0, <1>1, Zenon
  <2> QED BY ONLY <2>1, DockerOutcomes, Zenon
<1>3. box' = box /\ seen' \subseteq Sights /\ seen \subseteq seen'
  BY <1>0, <1>1, <1>2, Boxed, Zenon
<1>4. DockerStatus(box) \in {"running", "deleted", "stopped"} /\ box \in Truth(DockerStatus(box))
  <2>1. CASE box \in {"running", "paused"}
    BY <2>1, Truths, Zenon DEF DockerStatus
  <2>2. CASE box = "absent"
    BY <2>2, Truths, Zenon DEF DockerStatus
  <2>3. CASE box \in {"created", "exited"}
    BY <2>3, Truths, Zenon DEF DockerStatus
  <2> QED BY <1>0, <2>1, <2>2, <2>3, Zenon DEF Boxes
<1>5. /\ call' \in CallRec /\ call'.op = call.op /\ call'.pc = "done"
      /\ call'.res = IF o[2] = "err" THEN "err"
                     ELSE IF call.op = "suspend" THEN "suspended" ELSE DockerStatus(box)
  BY <1>0, <1>1, <1>4, CallMoves, Names, Zenon
<1>6. EngineTypes' /\ ContainerIsConfined' /\ (net' => backend = "docker" /\ host.internet)
  BY <1>0, <1>3, <1>5, Zenon DEF EngineInv, EngineTypes, ContainerIsConfined, Steps
<1>7. call.op = "suspend" => "paused" \in seen'
  BY <1>0, <1>3, Zenon DEF EngineInv, Looks
<1>8. \E b \in seen' : b \in Truth(call'.res)
  BY <1>0, <1>3, <1>4, <1>5, <1>7, Truths, Zenon
<1>9. call'.res # "ok"
  BY <1>4, <1>5, Zenon
<1> QED BY <1>0, <1>5, <1>6, <1>8, <1>9, NotDestroyed, Returned, Zenon

(* The end of Destroy: the network of a Docker sandbox, the directories.   *)
LEMMA DestroyEnds ==
    ASSUME EngineInv, DockerRemoveNetwork \/ RemoveDirs
    PROVE  EngineInv'
<1>0. call \in CallRec /\ host' = host /\ backend' = backend /\ calls' = calls /\ box' = box /\ seen' = seen
      /\ capped' = capped /\ call.pc \in {"remove network", "remove dirs"} /\ box \in Boxes /\ box \in seen
      /\ (box = "absent" \/ (backend = "kata" /\ "unreached" \in seen))
      /\ call.op = "destroy" /\ calls # 0
  BY SameBackend, Zenon
     DEF EngineInv, EngineTypes, Looks, Steps, OpsFit, DockerRemoveNetwork, RemoveDirs, At
<1>1. ContainerIsConfined'
  BY <1>0, Zenon DEF ContainerIsConfined
<1>2. ASSUME Return("err"), net' \in BOOLEAN, dirs' \in BOOLEAN, net' => net PROVE EngineInv'
  <2>1. call' \in CallRec /\ call'.op = call.op /\ call'.pc = "done" /\ call'.res = "err"
    BY <1>0, <1>2, CallMoves, Names, Zenon
  <2>2. EngineTypes' /\ (net' => backend = "docker" /\ host.internet) /\ box \in Truth(call'.res)
    BY <1>0, <1>2, <2>1, Truths, Zenon DEF EngineInv, EngineTypes, Steps
  <2> QED BY <1>0, <1>1, <2>1, <2>2, NotDestroyed, Returned, Zenon
<1>3. CASE DockerRemoveNetwork
  <2>0. net \in BOOLEAN /\ dirs' = dirs /\ dirs \in BOOLEAN /\ backend = "docker" /\ (net => host.internet)
    BY <1>3, Zenon DEF EngineInv, EngineTypes, Steps, DockerRemoveNetwork, At
  <2>1. ASSUME net' = (net /\ ~host.internet), Goto("remove dirs") PROVE EngineInv'
    <3>1. call' \in CallRec /\ call'.op = call.op /\ call'.pc = "remove dirs"
      BY <1>0, <2>1, CallMoves, Names, Zenon
    <3>2. net' = FALSE
      BY <2>0, <2>1, Zenon
    <3>3. EngineTypes' /\ OpsFit' /\ Looks'
      BY <1>0, <2>0, <3>1, <3>2, Zenon DEF EngineInv, EngineTypes, OpsFit, Looks
    <3>4. Steps'
      BY <1>0, <3>1, <3>2, Zenon DEF Steps
    <3> QED BY <1>0, <1>1, <3>1, <3>3, <3>4, Continues, Zenon
  <2>2. ASSUME net' \in {net, FALSE}, Return("err") PROVE EngineInv'
    <3>1. CASE net' = net
      BY <1>2, <2>0, <2>2, <3>1, Zenon
    <3>2. CASE net' = FALSE
      BY <1>2, <2>0, <2>2, <3>2, Zenon
    <3> QED BY <2>2, <3>1, <3>2, Zenon
  <2> QED BY <1>3, <2>1, <2>2, Zenon DEF DockerRemoveNetwork
<1>4. CASE RemoveDirs
  <2>0. call.pc = "remove dirs" /\ net' = net /\ net = FALSE /\ dirs \in BOOLEAN
    BY <1>4, Zenon DEF EngineInv, EngineTypes, Steps, RemoveDirs
  <2>1. ASSUME dirs' = FALSE, Return("ok") PROVE EngineInv'
    <3>1. call' \in CallRec /\ call'.op = call.op /\ call'.pc = "done" /\ call'.res = "ok"
      BY <1>0, <2>1, CallMoves, Names, Zenon
    <3>2. EngineTypes' /\ DestroyedIsGone' /\ box \in Truth(call'.res)
      BY <1>0, <2>0, <2>1, <3>1, Truths, Zenon DEF EngineInv, EngineTypes, DestroyedIsGone
    <3> QED BY <1>0, <1>1, <2>0, <3>1, <3>2, Returned, Zenon
  <2>2. ASSUME dirs' = dirs, Return("err") PROVE EngineInv'
    BY <1>2, <2>0, <2>2, Zenon
  <2> QED BY <1>4, <2>1, <2>2, Zenon DEF RemoveDirs
<1> QED BY <1>3, <1>4, Zenon

(* Every step of a Kata call: it has no network and no quota, and a        *)
(* container is deleted before the directories.                            *)
LEMMA KataCommands ==
    ASSUME EngineInv, KataCreate \/ KataStart \/ KataKill \/ KataDeleteTask \/ KataDeleteContainer
    PROVE  EngineInv'
<1>0. /\ call \in CallRec /\ host' = host /\ backend' = backend /\ calls' = calls /\ net' = net
      /\ capped' = capped /\ backend = "kata" /\ box \in Boxes /\ dirs \in BOOLEAN /\ dirs' \in {dirs, TRUE}
  BY SameBackend, Zenon
     DEF EngineInv, EngineTypes, KataCreate, KataStart, KataKill, KataDeleteTask, KataDeleteContainer, At
<1>1. call.pc # "done" /\ calls # 0 /\ box \in seen
  BY Zenon DEF EngineInv, Steps, Looks, KataCreate, KataStart, KataKill, KataDeleteTask, KataDeleteContainer, At
<1>2. ContainerIsConfined' /\ net = FALSE
  BY <1>0, Zenon DEF ContainerIsConfined, EngineInv, EngineTypes, Steps
<1>3. dirs' \in BOOLEAN
  BY <1>0, Zenon
<1>4. ASSUME NEW b \in Boxes, box' = b, b \in seen', seen' \subseteq Sights,
             NEW res \in Results \ {"ok"}, Return(res),
             call.op \in {"create", "stop", "kill"} \/ b \in Truth(res)
      PROVE  EngineInv'
  <2>1. box' = b /\ b \in seen' /\ seen' \subseteq Sights
    BY <1>4, Zenon
  <2>2. call' \in CallRec /\ call'.op = call.op /\ call'.pc = "done" /\ call'.res = res
    BY <1>0, <1>4, CallMoves, Zenon
  <2>3. EngineTypes'
    BY <1>0, <1>3, <2>1, <2>2, Zenon DEF EngineInv, EngineTypes
  <2>4. DestroyedIsGone'
    BY <1>4, <2>2, NotDestroyed, Zenon
  <2> QED BY <1>0, <1>1, <1>2, <1>4, <2>1, <2>2, <2>3, <2>4, Returned, Zenon
<1>5. ASSUME NEW b \in Boxes, box' = b, b \in seen', seen' \subseteq Sights,
             NEW pc \in {"task delete", "containers delete", "remove dirs"}, Goto(pc),
             pc = "task delete" => call.op \in {"stop", "kill", "destroy"},
             pc # "task delete" => call.op = "destroy",
             pc = "remove dirs" => b = "absent" \/ "unreached" \in seen'
      PROVE  EngineInv'
  <2>1. box' = b /\ b \in seen' /\ seen' \subseteq Sights
    BY <1>5, Zenon
  <2>2. call' \in CallRec /\ call'.op = call.op /\ call'.pc = pc
    BY <1>0, <1>5, CallMoves, Names, Zenon
  <2>3. EngineTypes'
    BY <1>0, <1>3, <2>1, <2>2, Zenon DEF EngineInv, EngineTypes
  <2>4. OpsFit' /\ Looks'
    BY <1>5, <2>1, <2>2, Zenon DEF OpsFit, Looks
  <2>5. Steps'
    BY <1>0, <1>1, <1>2, <1>5, <2>1, <2>2, Zenon DEF Steps
  <2> QED BY <1>0, <1>2, <1>5, <2>2, <2>3, <2>4, <2>5, Continues, Zenon
<1>u. PICK U : U = IF "cli" \in EngineFaults THEN {<<box, "unreached">>} ELSE {}
  BY Zenon
<1>6. ASSUME NEW cmd, NEW o \in run(CtrCommand(cmd, box), box) \cup U, box' = o[1],
             seen' = (seen \cap Boxes) \cup {o[1]} \cup ({"unreached"} \cap {o[2]})
      PROVE  /\ o[1] \in Boxes /\ o[1] \in seen' /\ seen' \subseteq Sights
             /\ cmd = "containers delete" /\ o[2] # "err" => o[1] = "absent" \/ "unreached" \in seen'
             /\ cmd = "task start" /\ o[2] = "ok" => o[1] = "running"
             /\ o[2] \in {"ok", "missing", "unreached", "err"}
  <2>1. /\ o[1] \in Boxes
        /\ cmd = "containers delete" /\ o[2] # "err" => o[1] = "absent" \/ o[2] = "unreached"
        /\ cmd = "task start" /\ o[2] = "ok" => o[1] = "running"
        /\ o[2] \in {"ok", "missing", "unreached", "err"}
    <3>1. CASE o \in run(CtrCommand(cmd, box), box)
      <4>1. /\ o[1] \in Boxes
            /\ cmd = "containers delete" /\ o[2] # "err" => o[1] = "absent"
            /\ cmd = "task start" /\ o[2] = "ok" => o[1] = "running"
            /\ o[2] \in {"ok", "missing", "err"}
        <5>1. box \in Boxes
          BY <1>0, Zenon
        <5> QED BY ONLY <3>1, <5>1, CtrOutcomes, Zenon
      <4> QED BY <4>1, Zenon
    <3>2. CASE o \in U
      <4>1. o = <<box, "unreached">>
        BY <1>u, <3>2, Zenon
      <4>2. o[1] = box /\ o[2] = "unreached"
        BY <4>1, Pairs, Zenon
      <4> QED BY <1>0, <4>2, Zenon
    <3> QED BY <1>6, <3>1, <3>2, Zenon
  <2>2. o[1] \in seen' /\ (o[2] = "unreached" => "unreached" \in seen')
    BY <1>6, Zenon
  <2>3. seen' \subseteq Sights
    BY <1>6, <2>1, Names, Zenon
  <2> QED BY <2>1, <2>2, <2>3, Zenon
<1>7. CASE KataCreate
  <2>1. call.op = "create"
    BY <1>7, Zenon DEF EngineInv, OpsFit, KataCreate, At
  <2>2. CASE Ctr("run", LAMBDA answer : Return(IF answer = "ok" THEN "stopped" ELSE "err"))
    <3>1. PICK o \in run(CtrCommand("run", box), box) \cup U :
             /\ box' = o[1] /\ seen' = (seen \cap Boxes) \cup {o[1]} \cup ({"unreached"} \cap {o[2]})
             /\ Return(IF o[2] = "ok" THEN "stopped" ELSE "err")
      BY <1>u, <2>2, Zenon DEF Ctr
    <3>2. (IF o[2] = "ok" THEN "stopped" ELSE "err") \in Results \ {"ok"}
      BY Names, Zenon
    <3> QED BY <1>4, <1>6, <2>1, <3>1, <3>2, Zenon
  <2>3. CASE Return("err") /\ UNCHANGED <<box, seen>>
    <3>1. box' = box /\ box \in seen' /\ seen' \subseteq Sights
      BY <1>1, <2>3, Zenon DEF EngineInv, EngineTypes
    <3> QED BY <1>0, <1>4, <2>1, <2>3, <3>1, Names, Zenon
  <2> QED BY <1>7, <2>2, <2>3, Zenon DEF KataCreate
<1>8. CASE KataStart
  <2>1. PICK o \in run(CtrCommand("task start", box), box) \cup U :
           /\ box' = o[1] /\ seen' = (seen \cap Boxes) \cup {o[1]} \cup ({"unreached"} \cap {o[2]})
           /\ Return(IF o[2] = "ok" THEN "running" ELSE "err")
    BY <1>u, <1>8, Zenon DEF KataStart, Ctr
  <2>2. PICK res \in {"running", "err"} : res = IF o[2] = "ok" THEN "running" ELSE "err"
    BY Zenon
  <2>3. res \in Results \ {"ok"} /\ o[1] \in Truth(res)
    BY <1>6, <2>1, <2>2, Truths, Names, Zenon
  <2> QED BY <1>4, <1>6, <2>1, <2>2, <2>3, Zenon
<1>9. CASE KataKill
  <2>1. call.op \in {"stop", "kill", "destroy"}
    BY <1>9, Zenon DEF EngineInv, OpsFit, KataKill, At
  <2>2. PICK o \in run(CtrCommand("task kill", box), box) \cup U :
           /\ box' = o[1] /\ seen' = (seen \cap Boxes) \cup {o[1]} \cup ({"unreached"} \cap {o[2]})
           /\ IF o[2] # "ok" /\ ~isNotFoundErr(o[2]) /\ call.op # "destroy" THEN Return("err") ELSE Goto("task delete")
    BY <1>u, <1>9, Zenon DEF KataKill, Ctr
  <2>3. o[1] \in Boxes /\ "err" \in Results \ {"ok"} /\ o[1] \in Truth("err")
    BY <1>6, <2>2, Truths, Names, Zenon
  <2> QED BY <1>4, <1>5, <1>6, <2>1, <2>2, <2>3, Zenon
<1>10. CASE KataDeleteTask
  <2>1. call.op \in {"stop", "kill", "destroy"}
    BY <1>10, Zenon DEF EngineInv, OpsFit, KataDeleteTask, At
  <2>2. PICK o \in run(CtrCommand("task delete", box), box) \cup U :
           /\ box' = o[1] /\ seen' = (seen \cap Boxes) \cup {o[1]} \cup ({"unreached"} \cap {o[2]})
           /\ IF call.op = "destroy" THEN Goto("containers delete") ELSE Return("stopped")
    BY <1>u, <1>10, Zenon DEF KataDeleteTask, Ctr
  <2>3. o[1] \in Boxes /\ "stopped" \in Results \ {"ok"}
    BY <1>6, <2>2, Names, Zenon
  <2> QED BY <1>4, <1>5, <1>6, <2>1, <2>2, <2>3, Zenon
<1>11. CASE KataDeleteContainer
  <2>1. call.op = "destroy"
    BY <1>11, Zenon DEF EngineInv, OpsFit, KataDeleteContainer, At
  <2>2. PICK o \in run(CtrCommand("containers delete", box), box) \cup U :
           /\ box' = o[1] /\ seen' = (seen \cap Boxes) \cup {o[1]} \cup ({"unreached"} \cap {o[2]})
           /\ IF o[2] # "ok" /\ ~isNotFoundErr(o[2]) THEN Return("err") ELSE Goto("remove dirs")
    BY <1>u, <1>11, Zenon DEF KataDeleteContainer, Ctr
  <2>3. o[1] \in Boxes /\ "err" \in Results \ {"ok"} /\ o[1] \in Truth("err")
        /\ (o[2] # "err" => o[1] = "absent" \/ "unreached" \in seen')
    BY <1>6, <2>2, Truths, Names, Zenon
  <2>4. /\ o[2] # "ok" /\ ~isNotFoundErr(o[2]) => o[2] = "err"
        /\ ~(o[2] # "ok" /\ ~isNotFoundErr(o[2])) => o[2] # "err"
    BY <1>6, <2>2, Zenon DEF isNotFoundErr
  <2> QED BY <1>4, <1>5, <1>6, <2>1, <2>2, <2>3, <2>4, Zenon
<1> QED BY <1>7, <1>8, <1>9, <1>10, <1>11, Zenon

(* Kata's Inspect: two listings, and the container may die in between.     *)
LEMMA KataInspects ==
    ASSUME EngineInv, KataInspect \/ KataListContainers
    PROVE  EngineInv'
<1>0. /\ call \in CallRec /\ host' = host /\ backend' = backend /\ calls' = calls /\ UNCHANGED <<box, net, dirs, capped, seen>>
      /\ backend = "kata" /\ box \in Boxes
  BY SameBackend, Zenon DEF EngineInv, EngineTypes, KataInspect, KataListContainers, At
<1>1. call.pc \in {"inspect", "containers ls"} /\ calls # 0 /\ box \in seen
  BY Zenon DEF EngineInv, Steps, Looks, KataInspect, KataListContainers, At
<1>2. ContainerIsConfined' /\ net = FALSE
  BY <1>0, Zenon DEF ContainerIsConfined, EngineInv, EngineTypes, Steps
<1>3. ASSUME NEW res \in {"running", "stopped", "deleted", "degraded"}, Return(res), box \in Truth(res)
      PROVE  EngineInv'
  <2>1. call' \in CallRec /\ call'.op = call.op /\ call'.pc = "done" /\ call'.res = res
    BY <1>0, <1>3, CallMoves, Names, Zenon
  <2>2. EngineTypes' /\ DestroyedIsGone'
    BY <1>0, <1>3, <2>1, NotDestroyed, Zenon DEF EngineInv, EngineTypes
  <2> QED BY <1>0, <1>1, <1>2, <1>3, <2>1, <2>2, Returned, Zenon
<1>4. ASSUME Goto("containers ls"), box \in {"created", "absent"} PROVE EngineInv'
  <2>1. call' \in CallRec /\ call'.op = call.op /\ call'.pc = "containers ls"
    BY <1>0, <1>4, CallMoves, Names, Zenon
  <2>2. EngineTypes' /\ OpsFit' /\ Looks'
    BY <1>0, <1>1, <1>4, <2>1, Zenon DEF EngineInv, EngineTypes, OpsFit, Looks
  <2>3. Steps'
    BY <1>0, <1>1, <1>2, <2>1, Zenon DEF Steps
  <2> QED BY <1>0, <1>2, <2>1, <2>2, <2>3, Continues, Zenon
<1>5. CASE KataInspect
  BY <1>0, <1>3, <1>4, <1>5, Truths, Zenon DEF KataInspect
<1>6. CASE KataListContainers
  <2>1. box \in {"created", "absent"}
    BY <1>6, Zenon DEF EngineInv, Looks, KataListContainers, At
  <2>2. PICK res \in {"deleted", "stopped"} : res = IF box = "absent" THEN "deleted" ELSE "stopped"
    BY Zenon
  <2>3. box \in Truth(res) /\ box \in Truth("degraded")
    BY <1>0, <2>1, <2>2, Truths, Zenon
  <2> QED BY <1>3, <1>6, <2>2, <2>3, Zenon DEF KataListContainers
<1> QED BY <1>5, <1>6, Zenon

(* A call begins: Create on an engine that has no such container.          *)
LEMMA CallBegins ==
    ASSUME EngineInv, NEW op \in Ops, Issue(op)
    PROVE  EngineInv'
<1>0. /\ host' = host /\ backend' = backend /\ UNCHANGED <<box, net, dirs, capped>> /\ seen' = {box} /\ box \in Boxes
      /\ calls \in Nat /\ calls' = calls + 1
  BY SameBackend, Zenon DEF EngineInv, EngineTypes, Issue
<1>1. calls' \in Nat /\ calls' # 0
  BY <1>0, SMT
<1>2. op = "create" => box = "absent"
  BY Zenon DEF EngineInv, Steps, Issue
<1>3. ContainerIsConfined'
  BY <1>0, Zenon DEF EngineInv, ContainerIsConfined
<1>4. net => backend = "docker" /\ host.internet
  BY Zenon DEF EngineInv, Steps
<1>5. CASE call' = [op |-> op, pc |-> "done", res |-> "err"]
  <2>1. call'.op = op /\ call'.pc = "done" /\ call'.res = "err" /\ call' \in CallRec
    BY <1>5, Names, Zenon DEF CallRec
  <2>2. EngineTypes'
    BY <1>0, <1>1, <2>1, Names, Zenon DEF EngineInv, EngineTypes
  <2>3. OpsFit' /\ Looks' /\ DestroyedIsGone'
    BY <2>1, NotDestroyed, Zenon DEF OpsFit, Looks
  <2>4. Steps'
    BY <1>0, <1>1, <1>4, <2>1, Zenon DEF Steps
  <2>5. AnswersWereTrue'
    BY <1>0, <2>1, Truths, Zenon DEF AnswersWereTrue
  <2> QED BY <1>3, <2>2, <2>3, <2>4, <2>5, Zenon DEF EngineInv
<1>6. CASE call' = [op |-> op, pc |-> FirstStep(op), res |-> "none"]
  <2>1. PICK pc \in {"create", "inspect", "task kill", "command"} : pc = FirstStep(op)
    BY Zenon DEF FirstStep
  <2>2. call'.op = op /\ call'.pc = pc /\ call' \in CallRec
    BY <1>6, <2>1, Names, Zenon DEF CallRec
  <2>3. /\ pc = "create" => op = "create"
        /\ pc = "inspect" => op \in {"create", "inspect"}
        /\ pc = "command" => op \notin {"create", "inspect"}
        /\ pc = "task kill" => op \in {"stop", "kill", "destroy"}
    BY <2>1, Zenon DEF FirstStep
  <2>4. EngineTypes'
    BY <1>0, <1>1, <2>2, Names, Zenon DEF EngineInv, EngineTypes
  <2>5. OpsFit'
    BY <2>1, <2>2, <2>3, Zenon DEF OpsFit
  <2>6. Looks'
    BY <1>0, <2>1, <2>2, <2>3, Zenon DEF Looks
  <2>7. Steps'
    BY <1>0, <1>1, <1>2, <1>4, <2>1, <2>2, <2>3, Zenon DEF Steps
  <2> QED BY <1>0, <1>3, <2>1, <2>2, <2>4, <2>5, <2>6, <2>7, Continues, Zenon
<1> QED BY <1>5, <1>6, Zenon DEF Issue

(* The process of the container ends by itself, during a call or between   *)
(* two of them.                                                            *)
LEMMA BoxEnds ==
    ASSUME EngineInv, BoxExits
    PROVE  EngineInv'
<1>0. /\ host' = host /\ backend' = backend /\ UNCHANGED <<net, dirs, capped, call, calls>>
      /\ box = "running" /\ box' = "exited" /\ SetBox("exited")
  BY SameBackend, Zenon DEF BoxExits, SetBox
<1>1. EngineTypes'
  BY <1>0, Names, Zenon DEF EngineInv, EngineTypes, SetBox
<1>2. OpsFit'
  BY <1>0, Zenon DEF EngineInv, OpsFit
<1>3. Steps'
  BY <1>0, Zenon DEF EngineInv, Steps, SetBox
<1>4. Looks'
  BY <1>0, Zenon DEF EngineInv, Looks, SetBox
<1>5. DestroyedIsGone' /\ ContainerIsConfined'
  BY <1>0, Zenon DEF EngineInv, DestroyedIsGone, ContainerIsConfined, SetBox
<1>6. AnswersWereTrue'
  BY <1>0, Zenon DEF EngineInv, AnswersWereTrue, SetBox
<1> QED BY <1>1, <1>2, <1>3, <1>4, <1>5, <1>6, Zenon DEF EngineInv

(* The invariant of the lifecycle calls holds when the daemon starts, and  *)
(* every step of a call, of a caller and of the engine keeps it.           *)
LEMMA EngineHolds ==
    /\ EngineInit => EngineInv
    /\ EngineInv /\ EngineNext => EngineInv'
    /\ EngineInv /\ UNCHANGED engineVars => EngineInv'
<1>1. ASSUME EngineInit PROVE EngineInv
  <2>0. /\ host \in Hosts /\ box = (IF host.up THEN "running" ELSE "absent") /\ dirs = host.up
        /\ net = (host.up /\ host.internet /\ backend = "docker") /\ capped = (host.up /\ host.storageOpt)
        /\ call = [op |-> "inspect", pc |-> "done", res |-> "none"] /\ calls = 0 /\ seen = {box}
    BY <1>1, Zenon DEF EngineInit
  <2>1. box \in Boxes /\ host.up \in BOOLEAN
    BY <2>0, Names, EngineAssumption, Zenon
  <2>2. call.op = "inspect" /\ call.pc = "done" /\ call.res = "none" /\ call \in CallRec
    BY <2>0, Names, Zenon DEF CallRec, Ops
  <2>3. EngineTypes
    <3>1. net \in BOOLEAN /\ dirs \in BOOLEAN /\ capped \in BOOLEAN
      BY <2>0, <2>1, Zenon
    <3>2. calls \in Nat
      BY <2>0, SMT
    <3> QED BY <2>0, <2>1, <2>2, <3>1, <3>2, Names, Zenon DEF EngineTypes
  <2>4. OpsFit /\ Looks /\ DestroyedIsGone
    BY <2>2, Zenon DEF OpsFit, Looks, DestroyedIsGone
  <2>5. Steps /\ ContainerIsConfined
    BY <2>0, <2>2, Zenon DEF Steps, ContainerIsConfined
  <2>6. AnswersWereTrue
    BY <2>0, <2>1, <2>2, Truths, Zenon DEF AnswersWereTrue
  <2> QED BY <2>3, <2>4, <2>5, <2>6, Zenon DEF EngineInv
<1>2. ASSUME EngineInv, EngineNext PROVE EngineInv'
  BY <1>2, DockerCreates, DockerCreated, DockerRetries, DockerCommands, DockerInspects, DestroyEnds,
     KataCommands, KataInspects, CallBegins, BoxEnds, Zenon DEF EngineNext, CallStep
<1>3. ASSUME EngineInv, UNCHANGED engineVars PROVE EngineInv'
  <2>1. UNCHANGED <<host, box, net, dirs, capped, call, calls, seen>> /\ backend' = backend
    BY <1>3, SameBackend, Zenon DEF engineVars
  <2>2. EngineTypes' /\ OpsFit'
    BY <1>3, <2>1, Zenon DEF EngineInv, EngineTypes, OpsFit
  <2>3. Steps' /\ Looks'
    BY <1>3, <2>1, Zenon DEF EngineInv, Steps, Looks
  <2>4. DestroyedIsGone' /\ ContainerIsConfined'
    BY <1>3, <2>1, Zenon DEF EngineInv, DestroyedIsGone, ContainerIsConfined
  <2>5. AnswersWereTrue'
    BY <1>3, <2>1, Zenon DEF EngineInv, AnswersWereTrue
  <2> QED BY <2>2, <2>3, <2>4, <2>5, Zenon DEF EngineInv
<1> QED BY <1>1, <1>2, <1>3, Zenon

----------------------------------------------------------------------------
(* Commands.                                                               *)

Causes == {"timed_out", "canceled"}

Phases == {"idle", "wait", "publish", "done"}

Groups == {"none", "up", "gone"}

Codes == {"ok", "fail"}

PidFiles == {"no", "yes", "removed"}

Clients == {"none", "up", "ok", "fail", "killed"}

Onces == {"free", "signal", "kill", "client", "done"}

Kinds == {""} \cup Causes

Sinks == {"ok", "stalled", "broken"}

Outcomes == {"none", "error", "detached", "succeeded", "failed"} \cup Causes

ExecRec ==
    [st : Phases, timeout : BOOLEAN, ctx : BOOLEAN, grp : Groups, code : Codes, pidfile : PidFiles,
     client : Clients, watch : BOOLEAN, once : Onces, kind : Kinds, hit : BOOLEAN, out : Nat,
     pipe : Nat, buf : 0..PreviewLimit, truncated : BOOLEAN, sink : Sinks, lost : BOOLEAN,
     end : Outcomes, res : Outcomes]

(* The values by name.                                                     *)
LEMMA ExecNames ==
    /\ "idle" \in Phases /\ "wait" \in Phases /\ "publish" \in Phases /\ "done" \in Phases
    /\ "none" \in Groups /\ "up" \in Groups /\ "gone" \in Groups
    /\ "ok" \in Codes /\ "fail" \in Codes /\ Codes \subseteq Clients
    /\ "no" \in PidFiles /\ "yes" \in PidFiles /\ "removed" \in PidFiles
    /\ "none" \in Clients /\ "up" \in Clients /\ "fail" \in Clients /\ "killed" \in Clients
    /\ "free" \in Onces /\ "signal" \in Onces /\ "kill" \in Onces /\ "client" \in Onces /\ "done" \in Onces
    /\ "" \in Kinds /\ Causes \subseteq Kinds /\ "" \notin Causes
    /\ "ok" \in Sinks /\ "stalled" \in Sinks /\ "broken" \in Sinks
    /\ "none" \in Outcomes /\ "error" \in Outcomes /\ "detached" \in Outcomes
    /\ "succeeded" \in Outcomes /\ "failed" \in Outcomes /\ Causes \subseteq Outcomes
    /\ "timed_out" \in Causes /\ "canceled" \in Causes
BY Zenon DEF Phases, Groups, Codes, PidFiles, Clients, Onces, Kinds, Sinks, Outcomes, Causes

(* The preview is the beginning of the output that was copied, as long as  *)
(* nothing was lost.                                                       *)
Previewed(r) ==
    /\ r.pipe <= r.out
    /\ r.lost => r.pipe = 0
    /\ ~r.lost => /\ r.buf = Least(r.out - r.pipe, PreviewLimit)
                  /\ r.truncated = (r.out - r.pipe > PreviewLimit)

(* What a command that was hit may be reported as; t says whether the      *)
(* handle stores a cause, which Kata's need not.                           *)
Honest(t, res) == res \in Causes \/ (~t /\ res = "failed")

(* How the parts of a command agree: a cancellation stores its cause       *)
(* before it hits anything, the result of a command that was hit is that   *)
(* cause, and a client that ends well ended after the command did.         *)
Agree(t, r) ==
    /\ r.st = "idle" => /\ r.client = "none" /\ r.grp = "none" /\ r.once = "free" /\ r.res = "none"
                        /\ r.end = "none" /\ ~r.watch /\ ~r.hit
    /\ r.st = "wait" => r.res = "none" /\ r.end = "none"
    /\ r.client = "up" => r.st = "wait"
    /\ r.once # "free" => r.kind # ""
    /\ r.hit => r.kind # "" \/ (~t /\ r.client = "killed")
    /\ r.hit /\ r.end # "none" => Honest(t, r.end)
    /\ r.hit /\ r.res # "none" => Honest(t, r.res)
    /\ r.client = "ok" => r.grp = "gone" /\ r.code = "ok"
    /\ r.end = "succeeded" => r.client = "ok" /\ ~r.lost /\ r.pipe = 0
    /\ r.res = "succeeded" => r.client = "ok" /\ ~r.lost /\ r.pipe = 0

ExecGood(t, r) == r \in ExecRec /\ Agree(t, r) /\ Previewed(r)

ExecInv == exec \in [Execs -> ExecRec] /\ \A e \in Execs : ExecGood(Tracks, exec[e])

(* A step that writes a good record keeps the invariant.                   *)
LEMMA SetKeeps ==
    ASSUME ExecInv, host' = host, NEW e \in Execs, NEW q, Set(e, q), ExecGood(Tracks, q)
    PROVE  ExecInv'
<1>0. Tracks' = Tracks
  BY SameBackend, Zenon DEF Tracks
<1>1. q \in ExecRec
  BY Zenon DEF ExecGood
<1>2. exec' \in [Execs -> ExecRec] /\ exec'[e] = q /\ \A d \in Execs \ {e} : exec'[d] = exec[d]
  BY <1>1, Zenon DEF Set, ExecInv
<1> QED BY <1>0, <1>2, Zenon DEF ExecInv

(* Steps that leave the output and the preview alone.                      *)
LEMMA KeepsPreview ==
    ASSUME NEW r, Previewed(r), NEW q,
           q.lost = r.lost /\ q.out = r.out /\ q.pipe = r.pipe /\ q.buf = r.buf /\ q.truncated = r.truncated
    PROVE  Previewed(q)
BY Zenon DEF Previewed

(* Starting a command, detached or with a client.                          *)
LEMMA StartGood ==
    ASSUME NEW t, NEW r, ExecGood(t, r), r.st = "idle", NEW timeout \in BOOLEAN
    PROVE  /\ ExecGood(t, [r EXCEPT !.st = "done", !.grp = "up", !.res = "detached"])
           /\ ExecGood(t, [r EXCEPT !.st = "done", !.res = "error"])
           /\ ExecGood(t, [r EXCEPT !.st = "wait", !.client = "up", !.timeout = timeout, !.watch = TRUE])
<1>0. r \in ExecRec /\ Agree(t, r) /\ Previewed(r)
  BY Zenon DEF ExecGood
<1>1. ASSUME NEW q, q = [r EXCEPT !.st = "done", !.grp = "up", !.res = "detached"] PROVE ExecGood(t, q)
  <2>1. q \in ExecRec
    BY <1>0, <1>1, ExecNames, Zenon DEF ExecRec
  <2>2. /\ q.lost = r.lost /\ q.out = r.out /\ q.buf = r.buf /\ q.truncated = r.truncated /\ q.pipe = r.pipe /\ q.end = r.end
        /\ q.st = "done" /\ q.res = "detached" /\ q.once = r.once /\ q.hit = r.hit /\ q.kind = r.kind
        /\ q.client = r.client
    BY <1>0, <1>1, Zenon DEF ExecRec
  <2>3. Agree(t, q)
    BY <1>0, <2>2, Zenon DEF Agree
  <2> QED BY <1>0, <2>1, <2>2, <2>3, KeepsPreview, Zenon DEF ExecGood
<1>2. ASSUME NEW q, q = [r EXCEPT !.st = "done", !.res = "error"] PROVE ExecGood(t, q)
  <2>1. q \in ExecRec
    BY <1>0, <1>2, ExecNames, Zenon DEF ExecRec
  <2>2. /\ q.lost = r.lost /\ q.out = r.out /\ q.buf = r.buf /\ q.truncated = r.truncated /\ q.pipe = r.pipe /\ q.end = r.end
        /\ q.st = "done" /\ q.res = "error" /\ q.once = r.once /\ q.hit = r.hit /\ q.kind = r.kind
        /\ q.client = r.client
    BY <1>0, <1>2, Zenon DEF ExecRec
  <2>3. Agree(t, q)
    BY <1>0, <2>2, Zenon DEF Agree
  <2> QED BY <1>0, <2>1, <2>2, <2>3, KeepsPreview, Zenon DEF ExecGood
<1>3. ASSUME NEW q, q = [r EXCEPT !.st = "wait", !.client = "up", !.timeout = timeout, !.watch = TRUE]
      PROVE  ExecGood(t, q)
  <2>1. q \in ExecRec
    BY <1>0, <1>3, ExecNames, Zenon DEF ExecRec
  <2>2. /\ q.lost = r.lost /\ q.out = r.out /\ q.buf = r.buf /\ q.truncated = r.truncated /\ q.pipe = r.pipe /\ q.end = r.end
        /\ q.st = "wait" /\ q.client = "up"
    BY <1>0, <1>3, Zenon DEF ExecRec
  <2>4. q.once = r.once /\ q.hit = r.hit /\ q.kind = r.kind /\ q.res = r.res
    BY <1>0, <1>3, Zenon DEF ExecRec
  <2>3. Agree(t, q)
    BY <1>0, <2>2, <2>4, Zenon DEF Agree
  <2> QED BY <1>0, <2>1, <2>2, <2>3, KeepsPreview, Zenon DEF ExecGood
<1> QED BY <1>1, <1>2, <1>3, Zenon

(* The command starts, writes its pid file and ends; the client ends.      *)
LEMMA GuestGood ==
    ASSUME NEW t, NEW r, ExecGood(t, r), NEW code \in Codes
    PROVE  /\ r.client # "none" /\ r.grp = "none" => ExecGood(t, [r EXCEPT !.grp = "up"])
           /\ r.client # "none" => ExecGood(t, [r EXCEPT !.pidfile = "yes"])
           /\ r.grp = "up" => ExecGood(t, [r EXCEPT !.grp = "gone", !.code = code])
           /\ r.client = "up" /\ r.grp = "gone" => ExecGood(t, [r EXCEPT !.client = r.code])
           /\ r.client = "up" => ExecGood(t, [r EXCEPT !.client = "fail"])
<1>0. r \in ExecRec /\ Agree(t, r) /\ Previewed(r)
  BY Zenon DEF ExecGood
<1>1. ASSUME NEW q, q = [r EXCEPT !.grp = "up"], r.client # "none", r.grp = "none"
      PROVE  ExecGood(t, q)
  <2>0. "up" \in Groups
    BY <1>0, ExecNames, Zenon
  <2>1. q \in ExecRec
    BY <1>0, <1>1, <2>0, Zenon DEF ExecRec
  <2>2. /\ q.st = r.st /\ q.res = r.res /\ q.once = r.once /\ q.kind = r.kind /\ q.hit = r.hit
        /\ q.client = r.client /\ q.grp = "up" /\ q.code = r.code /\ q.watch = r.watch /\ q.lost = r.lost
        /\ q.out = r.out /\ q.buf = r.buf /\ q.truncated = r.truncated /\ q.pipe = r.pipe /\ q.end = r.end
    BY <1>0, <1>1, Zenon DEF ExecRec
  <2>3. Agree(t, q)
    BY <1>0, <1>1, <2>2, Zenon DEF Agree
  <2> QED BY <1>0, <2>1, <2>2, <2>3, KeepsPreview, Zenon DEF ExecGood
<1>2. ASSUME NEW q, q = [r EXCEPT !.pidfile = "yes"], r.client # "none"
      PROVE  ExecGood(t, q)
  <2>0. "yes" \in PidFiles
    BY <1>0, ExecNames, Zenon
  <2>1. q \in ExecRec
    BY <1>0, <1>2, <2>0, Zenon DEF ExecRec
  <2>2. /\ q.st = r.st /\ q.res = r.res /\ q.once = r.once /\ q.kind = r.kind /\ q.hit = r.hit
        /\ q.client = r.client /\ q.grp = r.grp /\ q.code = r.code /\ q.watch = r.watch /\ q.lost = r.lost
        /\ q.out = r.out /\ q.buf = r.buf /\ q.truncated = r.truncated /\ q.pipe = r.pipe /\ q.end = r.end
    BY <1>0, <1>2, Zenon DEF ExecRec
  <2>3. Agree(t, q)
    BY <1>0, <1>2, <2>2, Zenon DEF Agree
  <2> QED BY <1>0, <2>1, <2>2, <2>3, KeepsPreview, Zenon DEF ExecGood
<1>3. ASSUME NEW q, q = [r EXCEPT !.grp = "gone", !.code = code], r.grp = "up"
      PROVE  ExecGood(t, q)
  <2>0. "gone" \in Groups /\ code \in Codes
    BY <1>0, ExecNames, Zenon
  <2>1. q \in ExecRec
    BY <1>0, <1>3, <2>0, Zenon DEF ExecRec
  <2>2. /\ q.st = r.st /\ q.res = r.res /\ q.once = r.once /\ q.kind = r.kind /\ q.hit = r.hit
        /\ q.client = r.client /\ q.grp = "gone" /\ q.code = code /\ q.watch = r.watch /\ q.lost = r.lost
        /\ q.out = r.out /\ q.buf = r.buf /\ q.truncated = r.truncated /\ q.pipe = r.pipe /\ q.end = r.end
    BY <1>0, <1>3, Zenon DEF ExecRec
  <2>3. Agree(t, q)
    BY <1>0, <1>3, <2>2, Zenon DEF Agree
  <2> QED BY <1>0, <2>1, <2>2, <2>3, KeepsPreview, Zenon DEF ExecGood
<1>4. ASSUME NEW q, q = [r EXCEPT !.client = r.code], r.client = "up", r.grp = "gone"
      PROVE  ExecGood(t, q)
  <2>0. r.code \in Clients
    BY <1>0, ExecNames, Zenon DEF ExecRec
  <2>1. q \in ExecRec
    BY <1>0, <1>4, <2>0, Zenon DEF ExecRec
  <2>2. /\ q.st = r.st /\ q.res = r.res /\ q.once = r.once /\ q.kind = r.kind /\ q.hit = r.hit
        /\ q.client = r.code /\ q.grp = r.grp /\ q.code = r.code /\ q.watch = r.watch /\ q.lost = r.lost
        /\ q.out = r.out /\ q.buf = r.buf /\ q.truncated = r.truncated /\ q.pipe = r.pipe /\ q.end = r.end
    BY <1>0, <1>4, Zenon DEF ExecRec
  <2>3. Agree(t, q)
    BY <1>0, <1>4, <2>2, Zenon DEF Agree
  <2> QED BY <1>0, <2>1, <2>2, <2>3, KeepsPreview, Zenon DEF ExecGood
<1>5. ASSUME NEW q, q = [r EXCEPT !.client = "fail"], r.client = "up"
      PROVE  ExecGood(t, q)
  <2>0. "fail" \in Clients
    BY <1>0, ExecNames, Zenon
  <2>1. q \in ExecRec
    BY <1>0, <1>5, <2>0, Zenon DEF ExecRec
  <2>2. /\ q.st = r.st /\ q.res = r.res /\ q.once = r.once /\ q.kind = r.kind /\ q.hit = r.hit
        /\ q.client = "fail" /\ q.grp = r.grp /\ q.code = r.code /\ q.watch = r.watch /\ q.lost = r.lost
        /\ q.out = r.out /\ q.buf = r.buf /\ q.truncated = r.truncated /\ q.pipe = r.pipe /\ q.end = r.end
    BY <1>0, <1>5, Zenon DEF ExecRec
  <2>3. Agree(t, q)
    BY <1>0, <1>5, <2>2, Zenon DEF Agree
  <2> QED BY <1>0, <2>1, <2>2, <2>3, KeepsPreview, Zenon DEF ExecGood
<1> QED BY <1>1, <1>2, <1>3, <1>4, <1>5, Zenon

(* What happens to the request: its caller stalls or goes, its context     *)
(* ends, its watching goroutine ends.                                      *)
LEMMA RequestGood ==
    ASSUME NEW t, NEW r, ExecGood(t, r), NEW sink \in Sinks
    PROVE  /\ ExecGood(t, [r EXCEPT !.sink = sink])
           /\ ExecGood(t, [r EXCEPT !.ctx = TRUE])
           /\ ExecGood(t, [r EXCEPT !.watch = FALSE])
<1>0. r \in ExecRec /\ Agree(t, r) /\ Previewed(r)
  BY Zenon DEF ExecGood
<1>1. ASSUME NEW q, q = [r EXCEPT !.sink = sink]
      PROVE  ExecGood(t, q)
  <2>1. q \in ExecRec
    BY <1>0, <1>1, Zenon DEF ExecRec
  <2>2. /\ q.st = r.st /\ q.res = r.res /\ q.once = r.once /\ q.kind = r.kind /\ q.hit = r.hit
        /\ q.client = r.client /\ q.grp = r.grp /\ q.code = r.code /\ q.watch = r.watch /\ q.lost = r.lost
        /\ q.out = r.out /\ q.buf = r.buf /\ q.truncated = r.truncated /\ q.pipe = r.pipe /\ q.end = r.end
    BY <1>0, <1>1, Zenon DEF ExecRec
  <2>3. Agree(t, q)
    BY <1>0, <1>1, <2>2, Zenon DEF Agree
  <2> QED BY <1>0, <2>1, <2>2, <2>3, KeepsPreview, Zenon DEF ExecGood
<1>2. ASSUME NEW q, q = [r EXCEPT !.ctx = TRUE]
      PROVE  ExecGood(t, q)
  <2>1. q \in ExecRec
    BY <1>0, <1>2, Zenon DEF ExecRec
  <2>2. /\ q.st = r.st /\ q.res = r.res /\ q.once = r.once /\ q.kind = r.kind /\ q.hit = r.hit
        /\ q.client = r.client /\ q.grp = r.grp /\ q.code = r.code /\ q.watch = r.watch /\ q.lost = r.lost
        /\ q.out = r.out /\ q.buf = r.buf /\ q.truncated = r.truncated /\ q.pipe = r.pipe /\ q.end = r.end
    BY <1>0, <1>2, Zenon DEF ExecRec
  <2>3. Agree(t, q)
    BY <1>0, <1>2, <2>2, Zenon DEF Agree
  <2> QED BY <1>0, <2>1, <2>2, <2>3, KeepsPreview, Zenon DEF ExecGood
<1>3. ASSUME NEW q, q = [r EXCEPT !.watch = FALSE]
      PROVE  ExecGood(t, q)
  <2>1. q \in ExecRec
    BY <1>0, <1>3, Zenon DEF ExecRec
  <2>2. /\ q.st = r.st /\ q.res = r.res /\ q.once = r.once /\ q.kind = r.kind /\ q.hit = r.hit
        /\ q.client = r.client /\ q.grp = r.grp /\ q.code = r.code /\ q.watch = FALSE /\ q.lost = r.lost
        /\ q.out = r.out /\ q.buf = r.buf /\ q.truncated = r.truncated /\ q.pipe = r.pipe /\ q.end = r.end
    BY <1>0, <1>3, Zenon DEF ExecRec
  <2>3. Agree(t, q)
    BY <1>0, <1>3, <2>2, Zenon DEF Agree
  <2> QED BY <1>0, <2>1, <2>2, <2>3, KeepsPreview, Zenon DEF ExecGood
<1> QED BY <1>1, <1>2, <1>3, Zenon

(* A cancellation stores its cause, then hits the command and the client.  *)
LEMMA CancelGood ==
    ASSUME NEW t, NEW r, ExecGood(t, r), NEW kind \in Causes
    PROVE  /\ r.st # "idle" => ExecGood(t, cancel(r, kind))
           /\ r.once # "free" \/ ~t => ExecGood(t, KillClient(r))
<1>0. r \in ExecRec /\ Agree(t, r) /\ Previewed(r)
  BY Zenon DEF ExecGood
<1>k. kind # "" /\ kind \in Kinds
  BY ExecNames, Zenon
<1>1. ASSUME NEW q, q = [r EXCEPT !.once = "signal", !.kind = kind], r.st # "idle"
      PROVE  ExecGood(t, q)
  <2>0. "signal" \in Onces /\ kind \in Kinds
    BY <1>0, <1>k, ExecNames, Zenon
  <2>1. q \in ExecRec
    BY <1>0, <1>1, <2>0, Zenon DEF ExecRec
  <2>2. /\ q.st = r.st /\ q.res = r.res /\ q.once = "signal" /\ q.kind = kind /\ q.hit = r.hit
        /\ q.client = r.client /\ q.grp = r.grp /\ q.code = r.code /\ q.watch = r.watch /\ q.lost = r.lost
        /\ q.out = r.out /\ q.buf = r.buf /\ q.truncated = r.truncated /\ q.pipe = r.pipe /\ q.end = r.end
    BY <1>0, <1>1, Zenon DEF ExecRec
  <2>3. Agree(t, q)
    BY <1>0, <1>1, <2>2, <1>k, Zenon DEF Agree
  <2> QED BY <1>0, <2>1, <2>2, <2>3, KeepsPreview, Zenon DEF ExecGood
<1>2. PICK c \in {r.client, "killed"} : c = IF r.client = "up" THEN "killed" ELSE r.client
  BY Zenon
<1>c. c \in Clients
  BY <1>0, <1>2, ExecNames, Zenon DEF ExecRec
<1>3. PICK h \in BOOLEAN : h = (r.hit \/ r.client = "up")
  BY Zenon
<1>4. KillClient(r) = [r EXCEPT !.client = c, !.hit = h]
  BY <1>2, <1>3, Zenon DEF KillClient
<1>5. ASSUME NEW q, q = [r EXCEPT !.client = c, !.hit = h], r.once # "free" \/ ~t
      PROVE  ExecGood(t, q)
  <2>0. c \in Clients
    BY <1>0, <1>2, <1>3, <1>c, ExecNames, Zenon
  <2>1. q \in ExecRec
    BY <1>0, <1>5, <2>0, Zenon DEF ExecRec
  <2>2. /\ q.st = r.st /\ q.res = r.res /\ q.once = r.once /\ q.kind = r.kind /\ q.hit = h
        /\ q.client = c /\ q.grp = r.grp /\ q.code = r.code /\ q.watch = r.watch /\ q.lost = r.lost
        /\ q.out = r.out /\ q.buf = r.buf /\ q.truncated = r.truncated /\ q.pipe = r.pipe /\ q.end = r.end
    BY <1>0, <1>5, Zenon DEF ExecRec
  <2>3. Agree(t, q)
    BY <1>0, <1>5, <2>2, <1>2, <1>3, <1>c, Zenon DEF Agree
  <2> QED BY <1>0, <2>1, <2>2, <2>3, KeepsPreview, Zenon DEF ExecGood
<1> QED BY <1>1, <1>4, <1>5, Zenon DEF cancel

(* Kata's waiting goroutine chooses the cause and kills the client.        *)
LEMMA KataSelectGood ==
    ASSUME NEW t, NEW r, ExecGood(t, r), NEW kind \in Causes, r.st = "wait"
    PROVE  ExecGood(t, [KillClient(r) EXCEPT !.watch = FALSE, !.kind = kind])
<1>0. r \in ExecRec /\ Agree(t, r) /\ Previewed(r)
  BY Zenon DEF ExecGood
<1>k. kind # "" /\ kind \in Kinds
  BY ExecNames, Zenon
<1>2. PICK c \in {r.client, "killed"} : c = IF r.client = "up" THEN "killed" ELSE r.client
  BY Zenon
<1>c. c \in Clients
  BY <1>0, <1>2, ExecNames, Zenon DEF ExecRec
<1>3. PICK h \in BOOLEAN : h = (r.hit \/ r.client = "up")
  BY Zenon
<1>4. PICK p : p = [r EXCEPT !.client = c, !.hit = h] /\ p = KillClient(r)
  BY <1>2, <1>3, Zenon DEF KillClient
<1>5. p \in ExecRec
  BY <1>0, <1>c, <1>3, <1>4, Zenon DEF ExecRec
<1>6. ASSUME NEW q, q = [p EXCEPT !.watch = FALSE, !.kind = kind]
      PROVE  ExecGood(t, q)
  <2>0. kind \in Kinds
    BY <1>0, <1>k, <1>2, <1>c, <1>5, ExecNames, Zenon
  <2>1. q \in ExecRec
    BY <1>5, <1>6, <2>0, Zenon DEF ExecRec
  <2>2. /\ q.st = r.st /\ q.res = r.res /\ q.once = r.once /\ q.kind = kind /\ q.hit = h
        /\ q.client = c /\ q.grp = r.grp /\ q.code = r.code /\ q.watch = FALSE /\ q.lost = r.lost
        /\ q.out = r.out /\ q.buf = r.buf /\ q.truncated = r.truncated /\ q.pipe = r.pipe /\ q.end = r.end
    BY <1>0, <1>5, <1>6, <1>4, Zenon DEF ExecRec
  <2>3. Agree(t, q)
    BY <1>0, <1>6, <2>2, <1>k, <1>2, <1>c, <1>5, Zenon DEF Agree
  <2> QED BY <1>0, <2>1, <2>2, <2>3, KeepsPreview, Zenon DEF ExecGood
<1> QED BY <1>4, <1>6, Zenon

(* The signals to the group, and the end of the cancellation.              *)
LEMMA SignalGood ==
    ASSUME NEW t, NEW r, ExecGood(t, r), r.once \in {"signal", "kill", "client"}, NEW grp \in {r.grp, "gone"}
    PROVE  /\ ExecGood(t, [r EXCEPT !.once = "kill", !.grp = grp,
                                 !.hit = @ \/ (r.grp = "up" /\ r.st = "wait"),
                                 !.code = IF r.grp = grp THEN @ ELSE "fail"])
           /\ ExecGood(t, [r EXCEPT !.once = "client"])
           /\ ExecGood(t, [r EXCEPT !.once = "client", !.grp = "gone", !.pidfile = "removed",
                                 !.code = IF r.grp = "up" THEN "fail" ELSE @])
           /\ ExecGood(t, [KillClient(r) EXCEPT !.once = "done"])
<1>0. r \in ExecRec /\ Agree(t, r) /\ Previewed(r)
  BY Zenon DEF ExecGood
<1>g. grp \in Groups /\ r.kind # ""
  BY <1>0, ExecNames, Zenon DEF ExecRec, Agree
<1>h. PICK h \in BOOLEAN : h = (r.hit \/ (r.grp = "up" /\ r.st = "wait"))
  BY Zenon
<1>c. PICK code \in Codes : code = IF r.grp = grp THEN r.code ELSE "fail"
  BY <1>0, ExecNames, Zenon DEF ExecRec
<1>1. ASSUME NEW q, q = [r EXCEPT !.once = "kill", !.grp = grp, !.hit = h, !.code = code]
      PROVE  ExecGood(t, q)
  <2>0. "kill" \in Onces /\ grp \in Groups /\ code \in Codes
    BY <1>0, <1>g, <1>h, <1>c, ExecNames, Zenon
  <2>1. q \in ExecRec
    BY <1>0, <1>1, <2>0, Zenon DEF ExecRec
  <2>2. /\ q.st = r.st /\ q.res = r.res /\ q.once = "kill" /\ q.kind = r.kind /\ q.hit = h
        /\ q.client = r.client /\ q.grp = grp /\ q.code = code /\ q.watch = r.watch /\ q.lost = r.lost
        /\ q.out = r.out /\ q.buf = r.buf /\ q.truncated = r.truncated /\ q.pipe = r.pipe /\ q.end = r.end
    BY <1>0, <1>1, Zenon DEF ExecRec
  <2>4. (r.client = "ok" => grp = "gone" /\ code = "ok") /\ (h => r.hit \/ r.st = "wait")
    BY <1>0, <1>h, <1>c, Zenon DEF Agree
  <2>3. Agree(t, q)
    BY <1>0, <1>g, <2>2, <2>4, Zenon DEF Agree
  <2> QED BY <1>0, <2>1, <2>2, <2>3, KeepsPreview, Zenon DEF ExecGood
<1>2. ASSUME NEW q, q = [r EXCEPT !.once = "client"]
      PROVE  ExecGood(t, q)
  <2>0. "client" \in Onces
    BY <1>0, <1>g, ExecNames, Zenon
  <2>1. q \in ExecRec
    BY <1>0, <1>2, <2>0, Zenon DEF ExecRec
  <2>2. /\ q.st = r.st /\ q.res = r.res /\ q.once = "client" /\ q.kind = r.kind /\ q.hit = r.hit
        /\ q.client = r.client /\ q.grp = r.grp /\ q.code = r.code /\ q.watch = r.watch /\ q.lost = r.lost
        /\ q.out = r.out /\ q.buf = r.buf /\ q.truncated = r.truncated /\ q.pipe = r.pipe /\ q.end = r.end
    BY <1>0, <1>2, Zenon DEF ExecRec
  <2>3. Agree(t, q)
    BY <1>0, <1>2, <2>2, <1>g, Zenon DEF Agree
  <2> QED BY <1>0, <2>1, <2>2, <2>3, KeepsPreview, Zenon DEF ExecGood
<1>d. PICK fail \in Codes : fail = IF r.grp = "up" THEN "fail" ELSE r.code
  BY <1>0, ExecNames, Zenon DEF ExecRec
<1>3. ASSUME NEW q, q = [r EXCEPT !.once = "client", !.grp = "gone", !.pidfile = "removed", !.code = fail]
      PROVE  ExecGood(t, q)
  <2>0. "client" \in Onces /\ "gone" \in Groups /\ "removed" \in PidFiles /\ fail \in Codes
    BY <1>0, <1>g, <1>d, ExecNames, Zenon
  <2>1. q \in ExecRec
    BY <1>0, <1>3, <2>0, Zenon DEF ExecRec
  <2>2. /\ q.st = r.st /\ q.res = r.res /\ q.once = "client" /\ q.kind = r.kind /\ q.hit = r.hit
        /\ q.client = r.client /\ q.grp = "gone" /\ q.code = fail /\ q.watch = r.watch /\ q.lost = r.lost
        /\ q.out = r.out /\ q.buf = r.buf /\ q.truncated = r.truncated /\ q.pipe = r.pipe /\ q.end = r.end
    BY <1>0, <1>3, Zenon DEF ExecRec
  <2>3. Agree(t, q)
    BY <1>0, <1>3, <2>2, <1>g, <1>d, Zenon DEF Agree
  <2> QED BY <1>0, <2>1, <2>2, <2>3, KeepsPreview, Zenon DEF ExecGood
<1>4. PICK c \in {r.client, "killed"} : c = IF r.client = "up" THEN "killed" ELSE r.client
  BY Zenon
<1>5. c \in Clients
  BY <1>0, <1>4, ExecNames, Zenon DEF ExecRec
<1>6. PICK b \in BOOLEAN : b = (r.hit \/ r.client = "up")
  BY Zenon
<1>7. PICK p : p = [r EXCEPT !.client = c, !.hit = b] /\ p = KillClient(r)
  BY <1>4, <1>6, Zenon DEF KillClient
<1>8. p \in ExecRec
  BY <1>0, <1>5, <1>6, <1>7, Zenon DEF ExecRec
<1>9. ASSUME NEW q, q = [p EXCEPT !.once = "done"]
      PROVE  ExecGood(t, q)
  <2>0. "done" \in Onces
    BY <1>0, <1>g, <1>4, <1>5, <1>6, <1>8, ExecNames, Zenon
  <2>1. q \in ExecRec
    BY <1>8, <1>9, <2>0, Zenon DEF ExecRec
  <2>2. /\ q.st = r.st /\ q.res = r.res /\ q.once = "done" /\ q.kind = r.kind /\ q.hit = b
        /\ q.client = c /\ q.grp = r.grp /\ q.code = r.code /\ q.watch = r.watch /\ q.lost = r.lost
        /\ q.out = r.out /\ q.buf = r.buf /\ q.truncated = r.truncated /\ q.pipe = r.pipe /\ q.end = r.end
    BY <1>0, <1>7, <1>8, <1>9, Zenon DEF ExecRec
  <2>4. (r.client = "ok" <=> c = "ok") /\ (b => r.hit \/ r.client = "up") /\ c # "up" /\ (r.client = "none" => c = "none")
    BY <1>4, <1>6, Zenon
  <2>3. Agree(t, q)
    BY <1>0, <1>g, <2>2, <2>4, Zenon DEF Agree
  <2> QED BY <1>0, <2>1, <2>2, <2>3, KeepsPreview, Zenon DEF ExecGood
<1> QED BY <1>h, <1>c, <1>d, <1>1, <1>2, <1>3, <1>7, <1>9, Zenon

(* The result is the cause of the cancellation, or how the client ended.   *)
LEMMA WaitGood ==
    ASSUME NEW t, NEW r, ExecGood(t, r), r.st = "wait", r.client # "up", r.pipe = 0, NEW watch \in BOOLEAN
    PROVE  ExecGood(t, [r EXCEPT !.st = "publish", !.end = Status(r), !.watch = watch])
<1>0. r \in ExecRec /\ Agree(t, r) /\ Previewed(r)
  BY Zenon DEF ExecGood
<1>1. /\ Status(r) \in Outcomes
      /\ r.kind # "" => Status(r) \in Causes
      /\ r.kind = "" /\ r.client = "killed" => Status(r) = "failed"
      /\ Status(r) = "succeeded" => r.client = "ok" /\ ~r.lost
  <2>1. CASE r.kind # ""
    <3>1. r.kind \in Causes /\ Status(r) = r.kind
      BY <1>0, <2>1, Zenon DEF ExecRec, Kinds, Status
    <3> QED BY <2>1, <3>1, ExecNames, Zenon DEF Causes
  <2>2. CASE r.kind = ""
    BY <2>2, ExecNames, Zenon DEF Status
  <2> QED BY <2>1, <2>2, Zenon
<1>2. r.hit => Honest(t, Status(r))
  BY <1>0, <1>1, Zenon DEF Agree, Honest
<1>3. ASSUME NEW q, q = [r EXCEPT !.st = "publish", !.end = Status(r), !.watch = watch]
      PROVE  ExecGood(t, q)
  <2>1. q \in ExecRec
    BY <1>0, <1>1, <1>3, ExecNames, Zenon DEF ExecRec
  <2>2. /\ q.st = "publish" /\ q.res = r.res /\ q.once = r.once /\ q.kind = r.kind /\ q.hit = r.hit
        /\ q.client = r.client /\ q.grp = r.grp /\ q.code = r.code /\ q.watch = watch /\ q.lost = r.lost
        /\ q.out = r.out /\ q.buf = r.buf /\ q.truncated = r.truncated /\ q.pipe = r.pipe /\ q.end = Status(r)
    BY <1>0, <1>3, Zenon DEF ExecRec
  <2>3. Agree(t, q)
    BY <1>0, <1>1, <1>2, <2>2, Zenon DEF Agree
  <2> QED BY <1>0, <2>1, <2>2, <2>3, KeepsPreview, Zenon DEF ExecGood
<1> QED BY <1>3, Zenon

(* The result that was drawn up is sent.                                   *)
LEMMA PublishGood ==
    ASSUME NEW t, NEW r, ExecGood(t, r), r.st = "publish"
    PROVE  ExecGood(t, [r EXCEPT !.st = "done", !.res = r.end])
<1>0. r \in ExecRec /\ Agree(t, r) /\ Previewed(r) /\ r.end \in Outcomes
  BY Zenon DEF ExecGood, ExecRec
<1>1. ASSUME NEW q, q = [r EXCEPT !.st = "done", !.res = r.end]
      PROVE  ExecGood(t, q)
  <2>1. q \in ExecRec
    BY <1>0, <1>1, ExecNames, Zenon DEF ExecRec
  <2>2. /\ q.st = "done" /\ q.res = r.end /\ q.once = r.once /\ q.kind = r.kind /\ q.hit = r.hit
        /\ q.client = r.client /\ q.grp = r.grp /\ q.code = r.code /\ q.watch = r.watch /\ q.lost = r.lost
        /\ q.out = r.out /\ q.buf = r.buf /\ q.truncated = r.truncated /\ q.pipe = r.pipe /\ q.end = r.end
    BY <1>0, <1>1, Zenon DEF ExecRec
  <2>3. Agree(t, q)
    BY <1>0, <2>2, Zenon DEF Agree
  <2> QED BY <1>0, <2>1, <2>2, <2>3, KeepsPreview, Zenon DEF ExecGood
<1> QED BY <1>1, Zenon

(* The container stops and the command with it.                            *)
LEMMA GroupGood ==
    ASSUME NEW t, NEW r, ExecGood(t, r), r.grp = "up"
    PROVE  ExecGood(t, [r EXCEPT !.grp = "gone", !.code = "fail"])
BY GuestGood, ExecNames, Zenon

(* Keeping n more bytes of a preview that is the beginning of the output.  *)
LEMMA KeepSums ==
    ASSUME NEW b \in 0..PreviewLimit, NEW o \in Nat, NEW n \in Nat \ {0}
    PROVE  /\ b + Least(n, PreviewLimit - b) \in 0..PreviewLimit
           /\ b = Least(o, PreviewLimit) =>
                /\ b + Least(n, PreviewLimit - b) = Least(o + n, PreviewLimit)
                /\ (o > PreviewLimit \/ n > PreviewLimit - b) = (o + n > PreviewLimit)
<1>1. PreviewLimit \in Nat
  BY EngineAssumption, Zenon
<1> QED BY <1>1, SMT DEF Least

(* Steps that change the output only.                                      *)
LEMMA OutputGood ==
    ASSUME NEW t, NEW r, ExecGood(t, r), NEW q \in ExecRec, Previewed(q),
           /\ q.st = r.st /\ q.res = r.res /\ q.end = r.end /\ q.once = r.once /\ q.kind = r.kind
           /\ q.hit = r.hit /\ q.client = r.client /\ q.grp = r.grp /\ q.code = r.code /\ q.watch = r.watch,
           r.client = "up" \/ r.pipe # 0
    PROVE  ExecGood(t, q)
<1>1. Agree(t, r)
  BY Zenon DEF ExecGood
<1>2. r.end # "succeeded" /\ r.res # "succeeded"
  BY <1>1, Zenon DEF Agree
<1>3. Agree(t, q)
  BY <1>1, <1>2, Zenon DEF Agree
<1> QED BY <1>3, Zenon DEF ExecGood

(* A write of the command goes to the pipe, as long as somebody copies.    *)
LEMMA WriteGood ==
    ASSUME NEW t, NEW r, ExecGood(t, r), r.client = "up", NEW n \in Nat
    PROVE  ExecGood(t, [r EXCEPT !.out = @ + n, !.pipe = IF r.lost THEN @ ELSE @ + n])
<1>0. r \in ExecRec /\ Previewed(r) /\ r.out \in Nat /\ r.pipe \in Nat
  BY Zenon DEF ExecGood, ExecRec
<1>1. PICK p : p = IF r.lost THEN r.pipe ELSE r.pipe + n
  BY Zenon
<1>2. r.out + n \in Nat /\ p \in Nat
  BY <1>0, <1>1, SMT
<1>3. PICK q : q = [r EXCEPT !.out = r.out + n, !.pipe = p]
  BY Zenon
<1>4. q \in ExecRec
  BY <1>0, <1>2, <1>3, Zenon DEF ExecRec
<1>5. /\ q.st = r.st /\ q.res = r.res /\ q.end = r.end /\ q.once = r.once /\ q.kind = r.kind
      /\ q.hit = r.hit /\ q.client = r.client /\ q.grp = r.grp /\ q.code = r.code /\ q.watch = r.watch
      /\ q.lost = r.lost /\ q.buf = r.buf /\ q.truncated = r.truncated /\ q.out = r.out + n /\ q.pipe = p
  BY <1>0, <1>3, Zenon DEF ExecRec
<1>6. p <= r.out + n /\ (~r.lost => (r.out + n) - p = r.out - r.pipe)
  <2>1. r.pipe <= r.out
    BY <1>0, Zenon DEF Previewed
  <2> QED BY <1>0, <1>1, <2>1, SMT
<1>7. r.lost => p = 0
  BY <1>0, <1>1, Zenon DEF Previewed
<1>8. Previewed(q)
  BY <1>0, <1>5, <1>6, <1>7, Zenon DEF Previewed
<1>9. ExecGood(t, q)
  BY <1>4, <1>5, <1>8, OutputGood, Zenon
<1> QED BY <1>1, <1>3, <1>9, Zenon

(* Copying what is in the pipe: the preview stays the beginning of what    *)
(* was copied, or the bytes are noted as lost.                             *)
LEMMA CopyGood ==
    ASSUME NEW t, NEW r, ExecGood(t, r), r.pipe > 0
    PROVE  LET o == [r EXCEPT !.pipe = 0]
           IN  ExecGood(t, previewWrite(o, r.pipe)) /\ ExecGood(t, KataPreviewWrite(o, r.pipe))
<1>0. r \in ExecRec /\ Previewed(r) /\ r.out \in Nat /\ r.pipe \in Nat /\ r.buf \in 0..PreviewLimit
  BY Zenon DEF ExecGood, ExecRec
<1>n. PICK n \in Nat \ {0} : n = r.pipe
  BY <1>0, SMT
<1>d. PICK d \in Nat : d = r.out - r.pipe /\ d + n = r.out - 0 /\ 0 <= r.out
  <2>1. r.pipe <= r.out
    BY <1>0, Zenon DEF Previewed
  <2> QED BY <1>0, <1>n, <2>1, SMT
<1>l. r.pipe # 0 /\ ~r.lost /\ 0 \in Nat
  <2>1. r.pipe # 0 /\ 0 \in Nat
    BY <1>n, SMT
  <2> QED BY <1>0, <2>1, Zenon DEF Previewed
<1>1. PICK o : o = [r EXCEPT !.pipe = 0]
  BY Zenon
<1>3. o \in ExecRec
  BY <1>0, <1>1, <1>l, Zenon DEF ExecRec
<1>4. /\ o.st = r.st /\ o.res = r.res /\ o.end = r.end /\ o.once = r.once /\ o.kind = r.kind
      /\ o.hit = r.hit /\ o.client = r.client /\ o.grp = r.grp /\ o.code = r.code /\ o.watch = r.watch
      /\ o.lost = r.lost /\ o.out = r.out /\ o.pipe = 0 /\ o.buf = r.buf /\ o.truncated = r.truncated
      /\ o.sink = r.sink
  BY <1>0, <1>1, Zenon DEF ExecRec
<1>7. PICK b \in 0..PreviewLimit : b = r.buf + Least(n, PreviewLimit - r.buf)
  BY <1>0, <1>d, KeepSums, Zenon
<1>8. PICK tr \in BOOLEAN : tr = (r.truncated \/ n > PreviewLimit - r.buf)
  BY Zenon
<1>9. PICK k : k = [o EXCEPT !.buf = b, !.truncated = tr] /\ k = Keep(o, n)
  BY <1>4, <1>7, <1>8, Zenon DEF Keep
<1>10. k \in ExecRec
  BY <1>3, <1>7, <1>8, <1>9, Zenon DEF ExecRec
<1>11. /\ k.st = r.st /\ k.res = r.res /\ k.end = r.end /\ k.once = r.once /\ k.kind = r.kind
       /\ k.hit = r.hit /\ k.client = r.client /\ k.grp = r.grp /\ k.code = r.code /\ k.watch = r.watch
       /\ k.lost = r.lost /\ k.out = r.out /\ k.pipe = 0 /\ k.buf = b /\ k.truncated = tr
  BY <1>3, <1>4, <1>9, Zenon DEF ExecRec
<1>12. b = Least(r.out - 0, PreviewLimit) /\ tr = (r.out - 0 > PreviewLimit)
  <2>2. r.buf = Least(d, PreviewLimit) /\ r.truncated = (d > PreviewLimit)
    BY <1>0, <1>d, <1>l, Zenon DEF Previewed
  <2>3. /\ r.buf + Least(n, PreviewLimit - r.buf) = Least(d + n, PreviewLimit)
        /\ (d > PreviewLimit \/ n > PreviewLimit - r.buf) = (d + n > PreviewLimit)
    BY <1>0, <2>2, KeepSums, Zenon
  <2>4. tr = (d > PreviewLimit \/ n > PreviewLimit - r.buf)
    BY <1>8, <2>2, Zenon
  <2> QED BY <1>d, <1>7, <2>3, <2>4, Zenon
<1>13. ExecGood(t, previewWrite(o, n))
  <2>1. CASE o.sink = "broken"
    <3>1. PICK q : q = [o EXCEPT !.lost = TRUE]
      BY Zenon
    <3>2. q \in ExecRec
      BY <1>3, <3>1, Zenon DEF ExecRec
    <3>3. /\ q.st = r.st /\ q.res = r.res /\ q.end = r.end /\ q.once = r.once /\ q.kind = r.kind
          /\ q.hit = r.hit /\ q.client = r.client /\ q.grp = r.grp /\ q.code = r.code /\ q.watch = r.watch
          /\ q.lost = TRUE /\ q.pipe = 0 /\ q.out = r.out
      BY <1>3, <1>4, <3>1, Zenon DEF ExecRec
    <3>4. Previewed(q)
      BY <1>d, <3>3, Zenon DEF Previewed
    <3>5. ExecGood(t, q)
      BY <1>l, <3>2, <3>3, <3>4, OutputGood, Zenon
    <3> QED BY <2>1, <3>1, <3>5, Zenon DEF previewWrite
  <2>2. CASE o.sink # "broken"
    <3>1. Previewed(k)
      BY <1>d, <1>l, <1>11, <1>12, Zenon DEF Previewed
    <3>2. ExecGood(t, k)
      BY <1>l, <1>10, <1>11, <3>1, OutputGood, Zenon
    <3> QED BY <1>9, <2>2, <3>2, Zenon DEF previewWrite
  <2> QED BY <2>1, <2>2, Zenon
<1>14. ExecGood(t, KataPreviewWrite(o, n))
  <2>1. PICK l \in BOOLEAN : l = (o.sink = "broken")
    BY Zenon
  <2>2. PICK q : q = [k EXCEPT !.lost = l]
    BY Zenon
  <2>3. q \in ExecRec
    BY <1>10, <2>1, <2>2, Zenon DEF ExecRec
  <2>4. /\ q.st = r.st /\ q.res = r.res /\ q.end = r.end /\ q.once = r.once /\ q.kind = r.kind
        /\ q.hit = r.hit /\ q.client = r.client /\ q.grp = r.grp /\ q.code = r.code /\ q.watch = r.watch
        /\ q.out = r.out /\ q.pipe = 0 /\ q.buf = b /\ q.truncated = tr
    BY <1>10, <1>11, <2>2, Zenon DEF ExecRec
  <2>5. Previewed(q)
    BY <1>d, <1>12, <2>4, Zenon DEF Previewed
  <2>6. ExecGood(t, q)
    BY <1>l, <2>3, <2>4, <2>5, OutputGood, Zenon
  <2> QED BY <1>9, <2>1, <2>2, <2>6, Zenon DEF KataPreviewWrite
<1> QED BY <1>n, <1>1, <1>13, <1>14, Zenon

(* Every step of a command, of its client and of its goroutines.           *)
LEMMA ExecStepKeeps ==
    ASSUME ExecInv, host' = host, NEW e \in Execs, ExecNext(e)
    PROVE  ExecInv'
<1>t. PICK t : t = Tracks
  BY Zenon
<1>r. PICK r \in ExecRec : r = exec[e] /\ ExecGood(t, r)
  BY <1>t, Zenon DEF ExecInv
<1>1. ASSUME NEW q, Set(e, q), ExecGood(t, q) PROVE ExecInv'
  BY <1>t, <1>1, SetKeeps, Zenon
<1>2. CASE ExecDetached(e)
  <2>1. r.st = "idle" /\ TRUE \in BOOLEAN
    BY <1>r, <1>2, Zenon DEF ExecDetached
  <2>2. /\ ExecGood(t, [r EXCEPT !.st = "done", !.grp = "up", !.res = "detached"])
        /\ ExecGood(t, [r EXCEPT !.st = "done", !.res = "error"])
    BY <1>r, <2>1, StartGood, Zenon
  <2> QED BY <1>r, <1>1, <1>2, <2>2, Zenon DEF ExecDetached
<1>3. CASE \E timeout \in BOOLEAN : DockerExec(e, timeout) \/ KataExec(e, timeout) \/ SshExec(e, timeout)
  <2>1. PICK timeout \in BOOLEAN : DockerExec(e, timeout) \/ KataExec(e, timeout) \/ SshExec(e, timeout)
    BY <1>3, Zenon
  <2>2. r.st = "idle"
    BY <1>r, <2>1, Zenon DEF DockerExec, KataExec, SshExec, StartClient
  <2>3. /\ ExecGood(t, [r EXCEPT !.st = "done", !.res = "error"])
        /\ ExecGood(t, [r EXCEPT !.st = "wait", !.client = "up", !.timeout = timeout, !.watch = TRUE])
    BY <1>r, <2>1, <2>2, StartGood, Zenon
  <2> QED BY <1>r, <1>1, <2>1, <2>3, Zenon DEF DockerExec, KataExec, SshExec, StartClient
<1>4. CASE GuestStarts(e) \/ GuestRecordsPid(e)
  <2>1. /\ r.client # "none" /\ r.grp = "none" => ExecGood(t, [r EXCEPT !.grp = "up"])
        /\ r.client # "none" => ExecGood(t, [r EXCEPT !.pidfile = "yes"])
    BY <1>r, ExecNames, GuestGood, Zenon
  <2> QED BY <1>r, <1>1, <1>4, <2>1, Zenon DEF GuestStarts, GuestRecordsPid
<1>5. CASE GuestExits(e)
  <2>1. PICK code \in {"ok", "fail"} : Set(e, [r EXCEPT !.grp = "gone", !.code = code])
    BY <1>r, <1>5, Zenon DEF GuestExits
  <2>2. code \in Codes /\ r.grp = "up"
    BY <1>r, <1>5, <2>1, Zenon DEF GuestExits, Codes
  <2>3. ExecGood(t, [r EXCEPT !.grp = "gone", !.code = code])
    BY <1>r, <2>2, GuestGood, Zenon
  <2> QED BY <1>1, <2>1, <2>3, Zenon
<1>6. CASE ClientExits(e) \/ ClientFails(e)
  <2>1. /\ r.client = "up" /\ r.grp = "gone" => ExecGood(t, [r EXCEPT !.client = r.code])
        /\ r.client = "up" => ExecGood(t, [r EXCEPT !.client = "fail"])
    BY <1>r, ExecNames, GuestGood, Zenon
  <2> QED BY <1>r, <1>1, <1>6, <2>1, Zenon DEF ClientExits, ClientFails
<1>7. CASE CommandContext(e) \/ KataCancel(e)
  <2>1. ~t /\ "canceled" \in Causes
    BY <1>t, <1>7, ExecNames, Zenon DEF CommandContext, KataCancel, Tracks
  <2>2. ExecGood(t, KillClient(r))
    BY <1>r, <2>1, CancelGood, Zenon
  <2> QED BY <1>r, <1>1, <1>7, <2>2, Zenon DEF CommandContext, KataCancel
<1>8. CASE GuestWrites(e)
  <2>1. r.client = "up"
    BY <1>r, <1>8, Zenon DEF GuestWrites
  <2>2. PICK n \in 1..(MaxOutput - r.out) :
           Set(e, [r EXCEPT !.out = @ + n, !.pipe = IF r.lost THEN @ ELSE @ + n])
    BY <1>r, <1>8, Zenon DEF GuestWrites
  <2>3. MaxOutput \in Nat /\ r.out \in Nat
    BY <1>r, EngineAssumption, Zenon DEF ExecRec
  <2>4. n \in Nat
    BY <2>3, SMT
  <2>5. ExecGood(t, [r EXCEPT !.out = @ + n, !.pipe = IF r.lost THEN @ ELSE @ + n])
    BY <1>r, <2>1, <2>4, WriteGood, Zenon
  <2> QED BY <1>1, <2>2, <2>5, Zenon
<1>9. CASE CopyOutput(e)
  <2>1. r.pipe > 0
    BY <1>r, <1>9, Zenon DEF CopyOutput
  <2>2. LET o == [r EXCEPT !.pipe = 0]
        IN  ExecGood(t, previewWrite(o, r.pipe)) /\ ExecGood(t, KataPreviewWrite(o, r.pipe))
    BY <1>r, <2>1, CopyGood, Zenon
  <2>3. LET o == [r EXCEPT !.pipe = 0]
        IN  Set(e, previewWrite(o, r.pipe)) \/ Set(e, KataPreviewWrite(o, r.pipe))
    <3>1. CASE Tracks
      BY <1>r, <1>9, <3>1, Zenon DEF CopyOutput
    <3>2. CASE ~Tracks
      BY <1>r, <1>9, <3>2, Zenon DEF CopyOutput
    <3> QED BY <3>1, <3>2, Zenon
  <2> QED BY <1>1, <2>2, <2>3, Zenon
<1>15. CASE SinkChanges(e)
  <2>1. PICK sink \in Sinks : Set(e, [r EXCEPT !.sink = sink])
    BY <1>r, <1>15, Zenon DEF SinkChanges, Sinks
  <2>2. ExecGood(t, [r EXCEPT !.sink = sink])
    BY <1>r, <2>1, RequestGood, Zenon
  <2> QED BY <1>1, <2>1, <2>2, Zenon
<1>16. CASE CtxCanceled(e) \/ WatchEnds(e)
  <2>1. ExecGood(t, [r EXCEPT !.ctx = TRUE]) /\ ExecGood(t, [r EXCEPT !.watch = FALSE])
    BY <1>r, RequestGood, ExecNames, Zenon
  <2> QED BY <1>r, <1>1, <1>16, <2>1, Zenon DEF CtxCanceled, WatchEnds
<1>10. CASE Cancel(e)
  <2>1. r.st # "idle" /\ "canceled" \in Causes
    BY <1>r, <1>10, ExecNames, Zenon DEF Cancel
  <2>2. ExecGood(t, cancel(r, "canceled"))
    BY <1>r, <2>1, CancelGood, Zenon
  <2> QED BY <1>r, <1>1, <1>10, <2>2, Zenon DEF Cancel
<1>11. CASE \E kind \in {"timed_out", "canceled"} : Watch(e, kind) \/ KataSelect(e, kind)
  <2>1. PICK kind \in Causes : Watch(e, kind) \/ KataSelect(e, kind)
    BY <1>11, Zenon DEF Causes
  <2>2. CASE Watch(e, kind)
    <3>1. PICK w : w = [r EXCEPT !.watch = FALSE] /\ ExecGood(t, w)
      BY <1>r, RequestGood, ExecNames, Zenon
    <3>2. w.st = r.st /\ r.watch
      BY <1>r, <2>2, <3>1, Zenon DEF Watch, ExecRec
    <3>3. w.st # "idle"
      BY <1>r, <3>2, Zenon DEF ExecGood, Agree
    <3>4. ExecGood(t, cancel(w, kind))
      BY <3>1, <3>3, CancelGood, Zenon
    <3> QED BY <1>r, <1>1, <2>2, <3>1, <3>4, Zenon DEF Watch
  <2>3. CASE KataSelect(e, kind)
    <3>1. r.st = "wait"
      BY <1>r, <2>3, Zenon DEF KataSelect
    <3>2. ExecGood(t, [KillClient(r) EXCEPT !.watch = FALSE, !.kind = kind])
      BY <1>r, <3>1, KataSelectGood, Zenon
    <3> QED BY <1>r, <1>1, <2>3, <3>2, Zenon DEF KataSelect
  <2> QED BY <2>1, <2>2, <2>3, Zenon
<1>12. CASE Terminate(e)
  <2>1. r.once \in {"signal", "kill", "client"}
    BY <1>r, <1>12, Zenon DEF Terminate
  <2>2. ASSUME NEW grp \in {r.grp, "gone"}
        PROVE  /\ ExecGood(t, [r EXCEPT !.once = "kill", !.grp = grp,
                                     !.hit = @ \/ (r.grp = "up" /\ r.st = "wait"),
                                     !.code = IF r.grp = grp THEN @ ELSE "fail"])
               /\ ExecGood(t, [r EXCEPT !.once = "client"])
    BY <1>r, <2>1, <2>2, SignalGood, Zenon
  <2>3. ASSUME NEW grp \in {r.grp, "gone"},
               Set(e, [r EXCEPT !.once = "kill", !.grp = grp,
                                !.hit = @ \/ (r.grp = "up" /\ r.st = "wait"),
                                !.code = IF r.grp = grp THEN @ ELSE "fail"])
        PROVE  ExecInv'
    BY <1>1, <2>2, <2>3, Zenon
  <2>4. ASSUME Set(e, [r EXCEPT !.once = "client"]) PROVE ExecInv'
    BY <1>1, <2>2, <2>4, Zenon
  <2> QED BY <1>r, <1>12, <2>3, <2>4, Zenon DEF Terminate
<1>13. CASE KillGroup(e) \/ CancelEnds(e)
  <2>1. r.once \in {"signal", "kill", "client"}
    BY <1>r, <1>13, Zenon DEF KillGroup, CancelEnds
  <2>2. /\ ExecGood(t, [r EXCEPT !.once = "client"])
        /\ ExecGood(t, [r EXCEPT !.once = "client", !.grp = "gone", !.pidfile = "removed",
                              !.code = IF r.grp = "up" THEN "fail" ELSE @])
        /\ ExecGood(t, [KillClient(r) EXCEPT !.once = "done"])
    BY <1>r, <2>1, SignalGood, Zenon
  <2> QED BY <1>r, <1>1, <1>13, <2>2, Zenon DEF KillGroup, CancelEnds
<1>14. CASE WaitReturns(e)
  <2>1. PICK watch \in BOOLEAN : watch = (r.watch /\ Tracks)
    BY Zenon
  <2>2. r.st = "wait" /\ r.client # "up" /\ r.pipe = 0
    BY <1>r, <1>14, Zenon DEF WaitReturns
  <2>3. ExecGood(t, [r EXCEPT !.st = "publish", !.end = Status(r), !.watch = watch])
    BY <1>r, <2>1, <2>2, WaitGood, Zenon
  <2> QED BY <1>r, <1>1, <1>14, <2>1, <2>3, Zenon DEF WaitReturns
<1>17. CASE Publish(e)
  <2>1. ExecGood(t, [r EXCEPT !.st = "done", !.res = r.end])
    BY <1>r, <1>17, PublishGood, Zenon DEF Publish
  <2> QED BY <1>r, <1>1, <1>17, <2>1, Zenon DEF Publish
<1> QED BY <1>2, <1>3, <1>4, <1>5, <1>6, <1>7, <1>8, <1>9, <1>10, <1>11, <1>12, <1>13, <1>14, <1>15,
           <1>16, <1>17, Zenon DEF ExecNext, Moves

(* A step of the engine ends the commands of a container that stops.       *)
LEMMA GroupsKeep ==
    ASSUME ExecInv, host' = host, GroupsFollow
    PROVE  ExecInv'
<1>0. Tracks' = Tracks
  BY SameBackend, Zenon DEF Tracks
<1>1. ASSUME NEW e \in Execs PROVE ExecGood(Tracks, exec'[e])
  <2>1. ExecGood(Tracks, exec[e])
    BY <1>1, Zenon DEF ExecInv
  <2>2. exec[e].grp = "up" => ExecGood(Tracks, [exec[e] EXCEPT !.grp = "gone", !.code = "fail"])
    BY <2>1, GroupGood, Zenon
  <2>3. exec'[e] = IF exec[e].grp = "up" /\ box' \notin {"running", "paused"}
                   THEN [exec[e] EXCEPT !.grp = "gone", !.code = "fail"] ELSE exec[e]
    BY <1>1, Zenon DEF GroupsFollow
  <2> QED BY <2>1, <2>2, <2>3, Zenon
<1>2. \A e \in Execs : exec'[e] \in ExecRec
  BY <1>1, Zenon DEF ExecGood
<1>3. exec' = [e \in Execs |-> exec'[e]]
  BY Zenon DEF GroupsFollow
<1>4. exec' \in [Execs -> ExecRec]
  BY <1>2, <1>3, Zenon
<1> QED BY <1>0, <1>1, <1>4, Zenon DEF ExecInv

----------------------------------------------------------------------------
(* The theorems.                                                           *)

ContainersInv == EngineInv /\ ExecInv /\ ConnInv

(* No step of a call changes the setting.                                  *)
LEMMA HostStays == ASSUME EngineNext PROVE host' = host
BY Zenon DEF EngineNext, CallStep, Issue, BoxExits, DockerMkdirs, ensureNetwork, resolveSecurityOptions,
             DockerCreate, DockerRemoveHalf, DockerCreateAgain, DockerStep, DockerInspect,
             DockerRemoveNetwork, RemoveDirs, KataCreate, KataStart, KataKill, KataDeleteTask,
             KataDeleteContainer, KataInspect, KataListContainers

(* The three invariants together hold in every reachable state: a          *)
(* lifecycle call, a command and a connection leave each other's state     *)
(* alone, but for the commands that die with the container.                *)
LEMMA ContainersInvHolds == Spec => []ContainersInv
<1>1. Init => ContainersInv
  <2>1. ASSUME Init PROVE ExecInv
    <3>1. Idle \in ExecRec
      <4>1. PreviewLimit \in Nat
        BY EngineAssumption, Zenon
      <4>2. 0 \in Nat /\ 0 \in 0..PreviewLimit
        BY <4>1, SMT
      <4> QED BY <4>2, ExecNames, Zenon DEF Idle, ExecRec
    <3>2. /\ Idle.st = "idle" /\ Idle.client = "none" /\ Idle.grp = "none" /\ Idle.once = "free"
          /\ Idle.res = "none" /\ Idle.watch = FALSE /\ Idle.hit = FALSE
          /\ Idle.out = 0 /\ Idle.pipe = 0 /\ Idle.buf = 0 /\ Idle.truncated = FALSE /\ Idle.end = "none"
          /\ Idle.lost = FALSE
      BY Zenon DEF Idle
    <3>3. Agree(Tracks, Idle)
      BY <3>2, Zenon DEF Agree
    <3>4. 0 = Least(0 - 0, PreviewLimit) /\ FALSE = (0 - 0 > PreviewLimit) /\ 0 <= 0
      BY EngineAssumption, SMT DEF Least
    <3>5. Previewed(Idle)
      BY <3>2, <3>4, Zenon DEF Previewed
    <3>6. exec \in [Execs -> ExecRec] /\ \A e \in Execs : exec[e] = Idle
      BY <2>1, <3>1, Zenon DEF Init, ExecInit
    <3> QED BY <3>1, <3>3, <3>5, <3>6, Zenon DEF ExecInv, ExecGood
  <2>2. ASSUME Init PROVE ConnInv
    <3>1. PICK r : r = [st |-> "idle", proc |-> "none", line |-> "none", waitCh |-> "empty"]
      BY Zenon
    <3>2. r \in ConnRec /\ r.st = "idle" /\ r.proc = "none" /\ r.waitCh = "empty"
      BY <3>1, Zenon DEF ConnRec
    <3>3. \A c : ConnGood(c, r)
      BY <3>2, Zenon DEF ConnGood
    <3>4. conn = [c \in Conns |-> r]
      BY <2>2, <3>1, Zenon DEF Init
    <3> QED BY <3>2, <3>3, <3>4, Zenon DEF ConnInv
  <2> QED BY <2>1, <2>2, EngineHolds, Zenon DEF Init, ContainersInv
<1>2. ContainersInv /\ [Next]_vars => ContainersInv'
  <2>0. SUFFICES ASSUME ContainersInv, [Next]_vars PROVE ContainersInv'
    BY Zenon
  <2>1. ASSUME exec' = exec, host' = host PROVE ExecInv'
    <3>1. Tracks' = Tracks
      BY <2>1, SameBackend, Zenon DEF Tracks
    <3> QED BY <2>0, <2>1, <3>1, Zenon DEF ContainersInv, ExecInv
  <2>2. ASSUME conn' = conn PROVE ConnInv'
    BY <2>0, <2>2, Zenon DEF ContainersInv, ConnInv
  <2>3. CASE Lifecycle
    BY <2>0, <2>2, <2>3, EngineHolds, HostStays, GroupsKeep, Zenon DEF Lifecycle, ContainersInv
  <2>4. ASSUME NEW e \in Execs, ExecStep(e) PROVE ContainersInv'
    BY <2>0, <2>2, <2>4, EngineHolds, ExecStepKeeps, Zenon DEF ExecStep, ContainersInv, engineVars
  <2>5. ASSUME NEW c \in Conns, ConnStep(c) PROVE ContainersInv'
    BY <2>0, <2>1, <2>5, EngineHolds, ConnStepKeeps, Zenon DEF ConnStep, ContainersInv, engineVars
  <2>6. CASE UNCHANGED vars
    <3>1. UNCHANGED engineVars /\ exec' = exec /\ conn' = conn /\ host' = host
      BY <2>6, Zenon DEF vars, engineVars
    <3> QED BY <2>0, <2>1, <2>2, <3>1, EngineHolds, Zenon DEF ContainersInv
  <2> QED BY <2>0, <2>3, <2>4, <2>5, <2>6, Zenon DEF Next
<1> QED BY <1>1, <1>2, PTL DEF Spec

(* Every reachable state of the container backends is well typed.          *)
THEOREM TypeCorrect == Spec => []TypeOK
<1>1. ContainersInv => TypeOK
  <2>1. SUFFICES ASSUME ContainersInv PROVE TypeOK
    BY Zenon
  <2>2. /\ box \in Boxes /\ seen \subseteq Sights /\ {net, dirs, capped} \subseteq BOOLEAN
        /\ call.op \in Ops /\ call.res \in Statuses \cup {"none", "ok", "err"} /\ calls \in Nat
    BY <2>1, Zenon DEF ContainersInv, EngineInv, EngineTypes, CallRec, Results
  <2>3. ASSUME NEW e \in Execs
        PROVE  /\ exec[e].grp \in {"none", "up", "gone"}
               /\ exec[e].client \in {"none", "up", "ok", "fail", "killed"}
               /\ exec[e].buf \in 0..PreviewLimit
               /\ exec[e].res \in {"none", "error", "detached", "succeeded", "failed", "timed_out", "canceled"}
    <3>1. exec[e].grp \in Groups /\ exec[e].client \in Clients /\ exec[e].buf \in 0..PreviewLimit
          /\ exec[e].res \in Outcomes
      BY <2>1, <2>3, Zenon DEF ContainersInv, ExecInv, ExecGood, ExecRec
    <3> QED BY <3>1, Zenon DEF Groups, Clients, Outcomes, Causes
  <2>4. ASSUME NEW c \in Conns PROVE conn[c].proc \in {"none", "up", "exited", "reaped"}
    BY <2>1, <2>4, Zenon DEF ContainersInv, ConnInv, ConnGood, ConnRec
  <2> QED BY <2>2, <2>3, <2>4, Zenon DEF TypeOK
<1> QED BY <1>1, ContainersInvHolds, PTL

(* A Destroy of either backend that reports no error has left no           *)
(* container, network or directory behind, whatever earlier calls left     *)
(* half done and whatever failed on the way; but for a Kata container when *)
(* the last ctr command of the call did not reach containerd and its error *)
(* was taken for a missing container.                                      *)
THEOREM DestroyedIsGoneHolds == Spec => []DestroyedIsGone
<1>1. ContainersInv => DestroyedIsGone
  BY Zenon DEF ContainersInv, EngineInv
<1> QED BY <1>1, ContainersInvHolds, PTL

(* A Docker container never exists without the network it asked for, and   *)
(* never without its disk quota on an engine that enforces one: Create     *)
(* makes the network first, Destroy removes it last, and only an engine    *)
(* that refuses the quota gets the second attempt.  An error that only     *)
(* mentions quotas is not told apart from such a refusal.                  *)
THEOREM ContainerIsConfinedHolds == Spec => []ContainerIsConfined
<1>1. ContainersInv => ContainerIsConfined
  BY Zenon DEF ContainersInv, EngineInv
<1> QED BY <1>1, ContainersInvHolds, PTL

(* The status a call returns was the truth at some moment of the call,     *)
(* also when the container exits between its commands.  Kata's Create and  *)
(* Stop are not claimed: they return stopped without looking.              *)
THEOREM AnswersWereTrueHolds == Spec => []AnswersWereTrue
<1>1. ContainersInv => AnswersWereTrue
  BY Zenon DEF ContainersInv, EngineInv
<1> QED BY <1>1, ContainersInvHolds, PTL

(* A command that was signalled before its result was drawn up, or whose   *)
(* client was killed, is reported as timed out or canceled, whichever of   *)
(* timer, context, Cancel, exit and Wait come first; for Kata, which kills *)
(* clients without a cause, it may be failed, but not succeeded.           *)
THEOREM KillIsReportedHolds == Spec => []KillIsReported
<1>1. ContainersInv => KillIsReported
  <2>1. SUFFICES ASSUME ContainersInv, NEW e \in Execs, exec[e].hit, exec[e].res # "none"
                 PROVE  exec[e].res \in {"timed_out", "canceled"} \cup IF Tracks THEN {} ELSE {"failed"}
    BY Zenon DEF KillIsReported
  <2>2. Agree(Tracks, exec[e])
    BY <2>1, Zenon DEF ContainersInv, ExecInv, ExecGood
  <2>3. exec[e].res \in Causes \/ (~Tracks /\ exec[e].res = "failed")
    BY <2>1, <2>2, Zenon DEF Agree, Honest
  <2> QED BY <2>3, Zenon DEF Causes
<1> QED BY <1>1, ContainersInvHolds, PTL

(* A command reported as succeeded ended by itself with exit code 0, and   *)
(* all of its output reached the caller and the preview.                   *)
THEOREM SucceededIsDeliveredHolds == Spec => []SucceededIsDelivered
<1>1. ContainersInv => SucceededIsDelivered
  <2>1. SUFFICES ASSUME ContainersInv, NEW e \in Execs, exec[e].res = "succeeded"
                 PROVE  /\ exec[e].grp = "gone" /\ exec[e].code = "ok"
                        /\ ~exec[e].lost
                        /\ exec[e].buf = Least(exec[e].out, PreviewLimit)
                        /\ exec[e].truncated = (exec[e].out > PreviewLimit)
    BY Zenon DEF SucceededIsDelivered
  <2>2. Agree(Tracks, exec[e]) /\ Previewed(exec[e]) /\ exec[e].out \in Nat
    BY <2>1, Zenon DEF ContainersInv, ExecInv, ExecGood, ExecRec
  <2>3. exec[e].grp = "gone" /\ exec[e].code = "ok" /\ ~exec[e].lost /\ exec[e].pipe = 0
    BY <2>1, <2>2, Zenon DEF Agree
  <2>4. exec[e].out - exec[e].pipe = exec[e].out
    BY <2>2, <2>3, SMT
  <2> QED BY <2>2, <2>3, <2>4, Zenon DEF Previewed
<1> QED BY <1>1, ContainersInvHolds, PTL

(* A bridge that failed to open or was closed has left no process, not     *)
(* even a zombie; a terminal has left none that runs.                      *)
THEOREM ConnectionsEndHolds == Spec => []ConnectionsEnd
<1>1. ContainersInv => ConnectionsEnd
  BY Zenon DEF ContainersInv, ConnInv, ConnGood, ConnectionsEnd
<1> QED BY <1>1, ContainersInvHolds, PTL

=============================================================================
