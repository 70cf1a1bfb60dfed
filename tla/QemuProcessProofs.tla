------------------------- MODULE QemuProcessProofs -------------------------
(***************************************************************************)
(* While one call at a time works on a sandbox, its process stays tracked  *)
(* until a Destroy gives it up.  The invariant that carries the proof says *)
(* of the call under way that the process it looked up is still the one in *)
(* the pid file (no one else writes it), that what it is about to forget   *)
(* is dead, that a Stop that succeeded left nothing running, and that it   *)
(* creates disks only for a sandbox without a process.  The second part    *)
(* follows each call from the guest it began with to the answer it gives,  *)
(* and shows the answer to be one of those of the abstract backend.        *)
(***************************************************************************)
EXTENDS QemuProcess, TLAPS

(* What follows a look for the process, and what follows an Inspect.       *)
Thens == {"none", "derive", "freeze", "thaw", "kill"}

Afters == {"none", "start", "stop", "end", "inspect"}

Results == {"none", "ok", "err", "stopped", "suspended", "running", "error", "booting", "degraded"}

(* The stages of a call that hold the pid it read.                         *)
Holding == {"check", "forget", "found", "lost", "cont", "shutdown", "term", "clean"}

Resting == {"idle", "done", "live", "none", "derive", "probe", "launch", "waitpid", "ready", "unmark",
            "freeze", "mark", "thaw", "thawed", "rm"}

Stages == Holding \cup Resting \cup {"layout", "disks"}

CallRec ==
    [op : AllOps \cup {"none"}, pc : Stages, then : Thens, after : Afters, pid : Pids \cup {0},
     force : BOOLEAN, from : QB!Guests, exit : BOOLEAN, res : Results]

HostOK ==
    /\ pidfile \in Pids \cup {0}
    /\ proc \in [Pids -> {"unused", "qemu", "frozen", "dead", "other"}]
    /\ call \in [Callers -> CallRec]

(* A pid file that is there names the process, if any.                     *)
FileIsTrue == pidfile # 0 => Live \subseteq {pidfile}

(* Nothing runs, or a process was given up before.                         *)
NoneLeft == Live = {} \/ "abandoned" \in events

(* A Stop that found no process, or killed it, left none.                  *)
StopIsTrue(c) ==
    call[c].pc = "unmark" \/ (call[c].pc = "rm" /\ call[c].res # "err") => NoneLeft

(* The pid in hand is the pid file's, or none was found.                   *)
PidInHand(c) ==
    /\ call[c].pc \in Holding => call[c].pid = 0 \/ call[c].pid = pidfile
    /\ call[c].pc \in {"check", "forget", "clean"} => call[c].pid # 0
    /\ call[c].pc \in {"forget", "clean"} => call[c].pid \notin Live
    /\ call[c].pc = "found" /\ call[c].pid = 0 => NoneLeft
    /\ call[c].pc \in {"layout", "disks"} => disks = "none" /\ Live = {}
    /\ StopIsTrue(c)

Inv == HostOK /\ FileIsTrue /\ ProcessIsTracked /\ \A c \in Callers : PidInHand(c)

(* The call goes to a stage that holds nothing.                            *)
Rests(c) ==
    /\ call' \in [Callers -> CallRec]
    /\ call'[c].pc \in Resting
    /\ StopIsTrue(c)'

-----------------------------------------------------------------------------
(* Found nothing is no process: pid 0 is not one.                          *)
LEMMA PidsArePositive == 0 \notin Pids
  BY DEF Pids

(* The record of a call at rest, the fields of any, and a guest's exit.    *)
LEMMA CallTypes ==
    /\ Idle \in CallRec /\ Idle.pc = "idle" /\ Idle.pid = 0
    /\ \A r \in CallRec : r.pid \in Pids \cup {0} /\ r.then \in Thens
    /\ \A r \in CallRec :
          LET new == [r EXCEPT !.exit = TRUE]
          IN  new \in CallRec /\ new.pc = r.pc /\ new.pid = r.pid /\ new.res = r.res
<1> USE DEF CallRec
<1>1. Idle \in CallRec /\ Idle.pc = "idle" /\ Idle.pid = 0
  BY Zenon DEF Idle, Thens, Afters, Results, Stages, Resting, QB!Guests
<1>2. \A r \in CallRec : r.pid \in Pids \cup {0} /\ r.then \in Thens
  OBVIOUS
<1>3. ASSUME NEW r \in CallRec
      PROVE  LET new == [r EXCEPT !.exit = TRUE]
             IN  new \in CallRec /\ new.pc = r.pc /\ new.pid = r.pid /\ new.res = r.res
  OBVIOUS
<1> QED BY <1>1, <1>2, <1>3, Zenon

(* A new call begins by looking for the process, or by creating the disks. *)
LEMMA FreshType ==
    ASSUME NEW op \in Ops
    PROVE  Fresh(op) \in CallRec /\ Fresh(op).pc = IF op = "create" THEN "layout" ELSE "live"
<1>1. op \in AllOps \cup {"none"} /\ Guest \in QB!Guests
  BY ProcessAssumption, Zenon DEF Guest, QB!Guests
<1> HIDE DEF Guest
<1>2. Fresh(op).pc = IF op = "create" THEN "layout" ELSE "live"
  BY Zenon DEF Fresh, Idle
<1>3. \A t \in Thens, a \in Afters, pc \in Stages, f \in BOOLEAN :
        [Idle EXCEPT !.op = op, !.from = Guest, !.force = f, !.pc = pc, !.then = t, !.after = a] \in CallRec
  BY <1>1 DEF Idle, CallRec, Thens, Results
<1>4. (op \in {"kill", "destroy"}) \in BOOLEAN
  OBVIOUS
<1>5. (IF op = "suspend" THEN "freeze" ELSE IF op = "resume" THEN "thaw" ELSE "derive") \in Thens
  BY Zenon DEF Thens
<1>6. /\ (IF op = "start" THEN "start"
          ELSE IF op \in {"stop", "kill", "destroy"} THEN "stop" ELSE "inspect") \in Afters
      /\ (IF op = "create" THEN "layout" ELSE "live") \in Stages
  BY Zenon DEF Afters, Stages, Resting
<1>7. Fresh(op) \in CallRec
  BY <1>3, <1>4, <1>5, <1>6, Zenon DEF Fresh
<1> QED BY <1>2, <1>7, Zenon

(* Where Goto, Hold, Done, Find and DoInspect leave a call.               *)
LEMMA Moves ==
    ASSUME HostOK, NEW c \in Callers
    PROVE  /\ \A pc \in Stages : Goto(c, pc) =>
                call' \in [Callers -> CallRec] /\ call'[c].pc = pc /\ call'[c].pid = call[c].pid
           /\ \A pc \in Stages, p \in Pids \cup {0} : Hold(c, pc, p) =>
                call' \in [Callers -> CallRec] /\ call'[c].pc = pc /\ call'[c].pid = p
           /\ \A res \in Results : Done(c, res) => call' \in [Callers -> CallRec] /\ call'[c].pc = "done"
           /\ \A then \in Thens : Find(c, then) => call' \in [Callers -> CallRec] /\ call'[c].pc = "live"
           /\ \A after \in Afters : DoInspect(c, after) =>
                call' \in [Callers -> CallRec] /\ call'[c].pc = "live"
<1>1. call \in [Callers -> CallRec] /\ call[c] \in CallRec
  BY Zenon DEF HostOK
<1>0. ASSUME NEW r \in CallRec, call' = [call EXCEPT ![c] = r]
      PROVE  call' \in [Callers -> CallRec] /\ call'[c] = r
  BY <1>0, <1>1, Zenon
<1>7. {"done", "live"} \subseteq Stages /\ "derive" \in Thens
  BY Zenon DEF Stages, Resting, Thens
<1>r. PICK r \in CallRec : r = call[c]
  BY <1>1, Zenon
<1>2. ASSUME NEW pc \in Stages, Goto(c, pc)
      PROVE  call' \in [Callers -> CallRec] /\ call'[c].pc = pc /\ call'[c].pid = call[c].pid
  <2> DEFINE new == [r EXCEPT !.pc = pc]
  <2>1. new \in CallRec /\ new.pc = pc /\ new.pid = r.pid
    BY <1>7, Zenon DEF CallRec
  <2>2. call' = [call EXCEPT ![c] = new]
    BY <1>r, <1>2, Zenon DEF Goto
  <2> HIDE DEF new
  <2> QED BY <1>0, <1>r, <2>1, <2>2, Zenon
<1>3. ASSUME NEW pc \in Stages, NEW p \in Pids \cup {0}, Hold(c, pc, p)
      PROVE  call' \in [Callers -> CallRec] /\ call'[c].pc = pc /\ call'[c].pid = p
  <2> DEFINE new == [r EXCEPT !.pc = pc, !.pid = p]
  <2>1. new \in CallRec /\ new.pc = pc /\ new.pid = p
    BY Zenon DEF CallRec
  <2>2. call' = [call EXCEPT ![c] = new]
    BY <1>r, <1>3, Zenon DEF Hold
  <2> HIDE DEF new
  <2> QED BY <1>0, <2>1, <2>2, Zenon
<1>4. ASSUME NEW res \in Results, Done(c, res)
      PROVE  call' \in [Callers -> CallRec] /\ call'[c].pc = "done"
  <2> DEFINE new == [r EXCEPT !.pc = "done", !.res = res]
  <2>1. new \in CallRec /\ new.pc = "done"
    BY <1>7, Zenon DEF CallRec
  <2>2. call' = [call EXCEPT ![c] = new]
    BY <1>r, <1>4, Zenon DEF Done
  <2> HIDE DEF new
  <2> QED BY <1>0, <2>1, <2>2, Zenon
<1>5. ASSUME NEW then \in Thens, Find(c, then)
      PROVE  call' \in [Callers -> CallRec] /\ call'[c].pc = "live"
  <2> DEFINE new == [r EXCEPT !.pc = "live", !.then = then]
  <2>1. new \in CallRec /\ new.pc = "live"
    BY <1>7, Zenon DEF CallRec
  <2>2. call' = [call EXCEPT ![c] = new]
    BY <1>r, <1>5, Zenon DEF Find
  <2> HIDE DEF new
  <2> QED BY <1>0, <2>1, <2>2, Zenon
<1>6. ASSUME NEW after \in Afters, DoInspect(c, after)
      PROVE  call' \in [Callers -> CallRec] /\ call'[c].pc = "live"
  <2> DEFINE new == [r EXCEPT !.pc = "live", !.then = "derive", !.after = after, !.force = (after = "stop")]
  <2>1. new \in CallRec /\ new.pc = "live"
    BY <1>7, Zenon DEF CallRec
  <2>2. call' = [call EXCEPT ![c] = new]
    BY <1>r, <1>6, Zenon DEF DoInspect
  <2> HIDE DEF new
  <2> QED BY <1>0, <2>1, <2>2, Zenon
<1> QED BY <1>2, <1>3, <1>4, <1>5, <1>6, Zenon

(* Most of them leave it at rest.                                          *)
LEMMA RestingMoves ==
    ASSUME HostOK, NEW c \in Callers
    PROVE  /\ \A pc \in Resting \ {"unmark", "rm"} : Goto(c, pc) => Rests(c)
           /\ \A res \in Results : Done(c, res) => Rests(c)
           /\ \A then \in Thens : Find(c, then) => Rests(c)
           /\ \A after \in Afters : DoInspect(c, after) => Rests(c)
<1>1. {"done", "live"} \subseteq Resting /\ Resting \subseteq Stages
  BY Zenon DEF Resting, Stages
<1>2. "done" \notin {"unmark", "rm"} /\ "live" \notin {"unmark", "rm"}
  OBVIOUS
<1>3. call'[c].pc \notin {"unmark", "rm"} => StopIsTrue(c)'
  BY Zenon DEF StopIsTrue
<1> QED BY Moves, <1>1, <1>2, <1>3, Zenon DEF Rests

(* The step from Stop to the removal keeps the record.                     *)
LEMMA ToRemoval ==
    ASSUME HostOK, NEW c \in Callers, NEW res \in Results,
           call' = [call EXCEPT ![c] = [@ EXCEPT !.pc = "rm", !.res = res]]
    PROVE  /\ call' \in [Callers -> CallRec] /\ call'[c].pc = "rm" /\ call'[c].res = res
           /\ call'[c].op = call[c].op /\ call'[c].from = call[c].from /\ call'[c].exit = call[c].exit
<1>1. call \in [Callers -> CallRec] /\ call[c] \in CallRec
  BY Zenon DEF HostOK
<1>2. PICK r \in CallRec : r = call[c]
  BY <1>1, Zenon
<1> DEFINE new == [r EXCEPT !.pc = "rm", !.res = res]
<1>3. "rm" \in Stages
  BY Zenon DEF Stages, Resting
<1>4. /\ new \in CallRec /\ new.pc = "rm" /\ new.res = res
      /\ new.op = r.op /\ new.from = r.from /\ new.exit = r.exit
  BY <1>3, Zenon DEF CallRec
<1>5. call' = [call EXCEPT ![c] = new]
  BY <1>2, Zenon
<1> HIDE DEF new
<1> QED BY <1>1, <1>2, <1>4, <1>5, Zenon

(* The end of Stop inside Start, Destroy or on its own is a resting stage. *)
LEMMA StopDoneRests ==
    ASSUME HostOK, NEW c \in Callers, NEW res \in Results, StopDone(c, res), res # "err" => NoneLeft'
    PROVE  Rests(c)
<1>1. "rm" \in Resting /\ "err" \in Results
  BY Zenon DEF Resting, Results
<1>2. CASE Done(c, "err") \/ Done(c, res)
  BY <1>1, <1>2, RestingMoves, Zenon
<1>3. CASE call' = [call EXCEPT ![c] = [@ EXCEPT !.pc = "rm", !.res = res]]
  <2>1. call' \in [Callers -> CallRec] /\ call'[c].pc = "rm" /\ call'[c].res = res
    BY <1>3, ToRemoval, Zenon
  <2> QED BY <1>1, <2>1, Zenon DEF Rests, StopIsTrue
<1> QED BY <1>2, <1>3, Zenon DEF StopDone

(* Whatever Inspect returned, its caller goes on at a resting stage.       *)
LEMMA StatusRests ==
    ASSUME HostOK, NEW c \in Callers, NEW st \in Results, Status(c, st), st = "stopped" => NoneLeft'
    PROVE  Rests(c)
<1>1. \/ Done(c, st) \/ Goto(c, "launch") \/ StopDone(c, "err") \/ Find(c, "kill")
      \/ st = "stopped" /\ Goto(c, "unmark")
  BY Zenon DEF Status
<1>2. "launch" \in Resting \ {"unmark", "rm"} /\ "unmark" \in Resting /\ Resting \subseteq Stages
  BY Zenon DEF Resting, Stages
<1>3. "kill" \in Thens /\ "err" \in Results
  BY Zenon DEF Thens, Results
<1>4. CASE st = "stopped" /\ Goto(c, "unmark")
  <2>1. call' \in [Callers -> CallRec] /\ call'[c].pc = "unmark"
    BY <1>2, <1>4, Moves, Zenon
  <2> QED BY <1>2, <1>4, <2>1, Zenon DEF Rests, StopIsTrue
<1> QED BY <1>1, <1>2, <1>3, <1>4, RestingMoves, StopDoneRests, Zenon

(* At rest, only the host's part of the invariant is to be shown.          *)
LEMMA RestingInv ==
    ASSUME NEW k, Callers = {k}, Rests(k),
           pidfile' \in Pids \cup {0},
           proc' \in [Pids -> {"unused", "qemu", "frozen", "dead", "other"}],
           FileIsTrue', ProcessIsTracked'
    PROVE  Inv'
<1>1. HostOK'
  BY Zenon DEF Rests, HostOK
<1>2. PidInHand(k)'
  BY Zenon DEF Rests, PidInHand, Holding, Resting
<1> QED BY <1>1, <1>2, Zenon DEF Inv

-----------------------------------------------------------------------------
(* Every step of the one call under way keeps the invariant.               *)
LEMMA CallStep ==
    ASSUME NEW k, Callers = {k}, Inv, Step(k)
    PROVE  Inv'
<1> USE DEF Inv
<1>0. /\ k \in Callers /\ PidInHand(k) /\ HostOK /\ call[k] \in CallRec
      /\ call[k].pid \in Pids \cup {0} /\ call[k].then \in Thens
  BY CallTypes, Zenon DEF HostOK
<1>a. ASSUME pidfile' = pidfile, proc' = proc, events \subseteq events', Rests(k) PROVE Inv'
  <2>1. ProcessIsTracked' /\ FileIsTrue'
    BY <1>a, Zenon DEF ProcessIsTracked, FileIsTrue, Live
  <2> QED BY <1>a, <1>0, <2>1, RestingInv, Zenon DEF HostOK
<1>b. ASSUME pidfile' = 0, proc' = proc, events' = events, Rests(k), NoneLeft PROVE Inv'
  <2>1. ProcessIsTracked' /\ FileIsTrue'
    BY <1>b, Zenon DEF ProcessIsTracked, FileIsTrue, NoneLeft, Live
  <2> QED BY <1>b, <1>0, <2>1, RestingInv, Zenon DEF HostOK
<1>c. ASSUME Looked, proc' = proc, events' = events, Rests(k) PROVE Inv'
  <2>1. CASE pidfile # 0 /\ pidfile \notin Live
    <3>1. NoneLeft
      BY <2>1, Zenon DEF FileIsTrue, NoneLeft
    <3> QED BY <2>1, <3>1, <1>b, <1>c, Zenon DEF Looked
  <2>2. CASE ~(pidfile # 0 /\ pidfile \notin Live)
    BY <2>2, <1>a, <1>c, Zenon DEF Looked
  <2> QED BY <2>1, <2>2, Zenon
<1>d. {"launch", "ready", "probe", "waitpid", "mark", "thawed", "derive", "freeze", "thaw"}
        \subseteq Resting \ {"unmark", "rm"}
  BY Zenon DEF Resting
<1>e. /\ Results = {"none", "ok", "err", "stopped", "suspended", "running", "error", "booting", "degraded"}
      /\ {"end", "stop"} \subseteq Afters
      /\ Holding \subseteq Stages /\ {"layout", "disks"} \subseteq Stages
  BY Zenon DEF Results, Afters, Stages
<1>f. Holding = {"check", "forget", "found", "lost", "cont", "shutdown", "term", "clean"}
  BY Zenon DEF Holding
<1>1. ASSUME Begin(k) PROVE Inv'
  <2>1. PICK op \in Ops :
          (op = "create" => Guest = "none") /\ call' = [call EXCEPT ![k] = Fresh(op)]
    BY <1>1, Zenon DEF Begin
  <2>3. /\ call' \in [Callers -> CallRec]
        /\ call'[k].pc = IF op = "create" THEN "layout" ELSE "live"
    BY <1>0, <2>1, FreshType, Zenon DEF HostOK
  <2>4. UNCHANGED <<disks, pidfile, proc, events>>
    BY <1>1, Zenon DEF Begin
  <2>5. CASE op # "create"
    BY <2>3, <2>4, <2>5, <1>a, Zenon DEF Rests, Resting, StopIsTrue
  <2>6. CASE op = "create"
    <3>1. disks = "none" /\ Live = {}
      BY <2>1, <2>6, Zenon DEF Guest
    <3>2. PidInHand(k)'
      BY <2>3, <2>4, <2>6, <3>1, Zenon DEF PidInHand, StopIsTrue, Holding, Live
    <3> QED BY <2>3, <2>4, <3>1, <3>2, <1>0, Zenon DEF HostOK, ProcessIsTracked, FileIsTrue, Live
  <2> QED BY <2>5, <2>6, Zenon
<1>2. ASSUME CreateLayout(k) PROVE Inv'
  <2>1. disks = "none" /\ Live = {}
    BY <1>0, <1>2, Zenon DEF CreateLayout, At, PidInHand
  <2>2. CASE Goto(k, "disks") /\ pidfile' = 0
    <3>1. call' \in [Callers -> CallRec] /\ call'[k].pc = "disks"
      BY <1>0, <2>2, <1>e, <1>f, Moves, Zenon
    <3>2. PidInHand(k)'
      BY <1>2, <2>1, <3>1, Zenon DEF PidInHand, StopIsTrue, Holding, Live, CreateLayout
    <3> QED BY <1>2, <2>1, <2>2, <3>1, <3>2, <1>0, Zenon
            DEF HostOK, ProcessIsTracked, FileIsTrue, Live, CreateLayout
  <2>3. CASE Done(k, "err") /\ UNCHANGED pidfile
    BY <1>0, <1>2, <2>3, <1>a, <1>e, RestingMoves, Zenon DEF CreateLayout
  <2> QED BY <1>2, <2>2, <2>3, Zenon DEF CreateLayout
<1>3. ASSUME CreateDisks(k) PROVE Inv'
  <2>1. Live = {}
    BY <1>0, <1>3, Zenon DEF CreateDisks, At, PidInHand
  <2>2. UNCHANGED <<pidfile, proc>> /\ Rests(k)
    BY <1>0, <1>3, <1>e, RestingMoves, Zenon DEF CreateDisks
  <2>3. ProcessIsTracked' /\ FileIsTrue'
    BY <2>1, <2>2, Zenon DEF ProcessIsTracked, FileIsTrue, Live
  <2> QED BY <2>2, <2>3, <1>0, RestingInv, Zenon DEF HostOK
<1>4. ASSUME LiveRead(k) PROVE Inv'
  <2>1. UNCHANGED <<pidfile, proc, events>>
    BY <1>4, Zenon DEF LiveRead
  <2>2. /\ call' \in [Callers -> CallRec]
        /\ \/ call'[k].pc = "found" /\ call'[k].pid = 0 /\ pidfile = 0
           \/ call'[k].pc = "check" /\ call'[k].pid = pidfile /\ pidfile # 0
    BY <1>0, <1>4, <1>e, <1>f, Moves, Zenon DEF LiveRead, HostOK
  <2>3. pidfile = 0 => NoneLeft'
    BY <2>1, PidsArePositive, Zenon DEF ProcessIsTracked, NoneLeft, Live
  <2>4. PidInHand(k)'
    BY <2>1, <2>2, <2>3, Zenon DEF PidInHand, StopIsTrue, Holding
  <2> QED BY <2>1, <2>2, <2>4, <1>0, Zenon DEF HostOK, ProcessIsTracked, FileIsTrue, Live
<1>5. ASSUME LiveCheck(k) PROVE Inv'
  <2>1. UNCHANGED <<pidfile, proc, events>> /\ call[k].pc = "check"
    BY <1>5, Zenon DEF LiveCheck, At
  <2>2. call[k].pid = pidfile /\ call[k].pid # 0
    BY <2>1, <1>0, Zenon DEF PidInHand, Holding
  <2>3. /\ call' \in [Callers -> CallRec] /\ call'[k].pid = call[k].pid
        /\ call'[k].pc \in {"found", "lost"} \/ (call'[k].pc = "forget" /\ call[k].pid \notin Live)
    BY <1>0, <1>5, <1>e, <1>f, Moves, Zenon DEF LiveCheck
  <2>4. PidInHand(k)'
    BY <2>1, <2>2, <2>3, Zenon DEF PidInHand, StopIsTrue, Holding, Live
  <2> QED BY <2>1, <2>3, <2>4, <1>0, Zenon DEF HostOK, ProcessIsTracked, FileIsTrue, Live
<1>6. ASSUME LiveForget(k) PROVE Inv'
  <2>1. UNCHANGED <<proc, events>> /\ pidfile' = 0 /\ call[k].pc = "forget"
    BY <1>6, Zenon DEF LiveForget, At
  <2>2. Live = {} /\ Live' = {}
    BY <2>1, <1>0, Zenon DEF PidInHand, Holding, FileIsTrue, Live
  <2>3. call' \in [Callers -> CallRec] /\ call'[k].pc = "found" /\ call'[k].pid = 0
    BY <1>0, <1>6, <1>e, <1>f, Moves, Zenon DEF LiveForget
  <2>4. PidInHand(k)'
    BY <2>1, <2>2, <2>3, Zenon DEF PidInHand, StopIsTrue, NoneLeft, Holding
  <2> QED BY <2>1, <2>2, <2>3, <2>4, <1>0, Zenon DEF HostOK, ProcessIsTracked, FileIsTrue
<1>7. ASSUME LiveError(k) PROVE Inv'
  <2>1. UNCHANGED <<pidfile, proc, events>>
    BY <1>7, Zenon DEF LiveError
  <2>2. Status(k, "err") \/ StopDone(k, "err") \/ Done(k, "err")
    BY <1>7, Zenon DEF LiveError
  <2> QED BY <2>1, <2>2, <1>0, <1>a, <1>e, StatusRests, StopDoneRests, RestingMoves, Zenon
<1>8. ASSUME FoundNone(k) PROVE Inv'
  <2>1. UNCHANGED <<pidfile, proc, events>> /\ call[k].pid = 0 /\ NoneLeft'
    BY <1>0, <1>8, Zenon DEF FoundNone, At, PidInHand, NoneLeft, Live
  <2>2. Status(k, "stopped") \/ Done(k, "stopped") \/ Goto(k, "cont")
    BY <1>8, Zenon DEF FoundNone
  <2>3. CASE Status(k, "stopped") \/ Done(k, "stopped")
    BY <2>1, <2>3, <1>0, <1>a, <1>e, StatusRests, RestingMoves, Zenon
  <2>4. CASE Goto(k, "cont")
    <3>1. call' \in [Callers -> CallRec] /\ call'[k].pc = "cont" /\ call'[k].pid = 0
      BY <1>0, <2>1, <2>4, <1>e, <1>f, Moves, Zenon
    <3>2. PidInHand(k)'
      BY <3>1, Zenon DEF PidInHand, StopIsTrue, Holding
    <3> QED BY <2>1, <3>1, <3>2, <1>0, Zenon DEF HostOK, ProcessIsTracked, FileIsTrue, Live
  <2> QED BY <2>2, <2>3, <2>4, Zenon
<1>9. ASSUME FoundOne(k) PROVE Inv'
  <2>1. UNCHANGED <<pidfile, proc, events>> /\ call[k].pid = pidfile /\ call[k].pid # 0
    BY <1>0, <1>9, Zenon DEF FoundOne, At, PidInHand, Holding
  <2>2. CASE call[k].then = "kill"
    <3>1. call' \in [Callers -> CallRec] /\ call'[k].pc = "cont" /\ call'[k].pid = call[k].pid
      BY <1>0, <1>9, <2>2, <1>e, <1>f, Moves, Zenon DEF FoundOne
    <3>2. PidInHand(k)'
      BY <2>1, <3>1, Zenon DEF PidInHand, StopIsTrue, Holding
    <3> QED BY <2>1, <3>1, <3>2, <1>0, Zenon DEF HostOK, ProcessIsTracked, FileIsTrue, Live
  <2>3. CASE call[k].then # "kill"
    <3>1. Goto(k, call[k].then)
      BY <1>9, <2>3, Zenon DEF FoundOne
    <3>2. call[k].then \in Resting \ {"unmark", "rm"}
      BY <1>0, <2>3, Zenon DEF Thens, Resting
    <3> QED BY <2>1, <3>1, <3>2, <1>0, <1>a, <1>e, RestingMoves, Zenon
  <2> QED BY <2>2, <2>3, Zenon
<1>10. ASSUME Derive(k) PROVE Inv'
  <2>1. UNCHANGED <<pidfile, proc, events>> /\ (Status(k, "suspended") \/ Goto(k, "probe"))
    BY <1>10, Zenon DEF Derive
  <2> QED BY <2>1, <1>0, <1>a, <1>d, <1>e, StatusRests, RestingMoves, Zenon
<1>11. ASSUME Probe(k) PROVE Inv'
  <2>1. Looked /\ UNCHANGED <<proc, events>> /\ \E st \in Results : st # "stopped" /\ Status(k, st)
    BY <1>11, <1>e, Zenon DEF Probe
  <2> QED BY <2>1, <1>0, <1>c, <1>e, StatusRests, Zenon
<1>12. ASSUME Launch(k) PROVE Inv'
  <2>1. CASE Done(k, "err") /\ UNCHANGED <<proc, pidfile>>
    BY <1>12, <2>1, <1>0, <1>a, <1>e, RestingMoves, Zenon DEF Launch
  <2>2. CASE /\ disks = "all" /\ Live = {}
             /\ \E p \in Pids : /\ proc[p] = "unused"
                                /\ proc' = [proc EXCEPT ![p] = "qemu"]
                                /\ pidfile' = p
             /\ Goto(k, "waitpid")
    <3>1. PICK p \in Pids : proc' = [proc EXCEPT ![p] = "qemu"] /\ pidfile' = p
      BY <2>2, Zenon
    <3>2. ProcessIsTracked' /\ FileIsTrue'
      BY <2>2, <3>1, <1>0, Zenon DEF ProcessIsTracked, FileIsTrue, Live, HostOK
    <3>3. Rests(k)
      BY <2>2, <1>0, <1>d, <1>e, RestingMoves, Zenon
    <3>4. proc' \in [Pids -> {"unused", "qemu", "frozen", "dead", "other"}] /\ pidfile' \in Pids \cup {0}
      BY <3>1, <1>0, Zenon DEF HostOK
    <3> QED BY <3>2, <3>3, <3>4, RestingInv, Zenon
  <2> QED BY <1>12, <2>1, <2>2, Zenon DEF Launch
<1>13. ASSUME WaitForPID(k) PROVE Inv'
  <2>1. UNCHANGED <<pidfile, proc, events>> /\ (Goto(k, "ready") \/ Done(k, "err"))
    BY <1>13, Zenon DEF WaitForPID
  <2> QED BY <2>1, <1>0, <1>a, <1>d, <1>e, RestingMoves, Zenon
<1>14. ASSUME WaitForReady(k) PROVE Inv'
  <2>1. Looked /\ UNCHANGED <<proc, events>>
    BY <1>14, Zenon DEF WaitForReady
  <2>2. DoInspect(k, "end") \/ DoInspect(k, "stop") \/ Done(k, "err")
    BY <1>14, Zenon DEF WaitForReady
  <2> QED BY <2>1, <2>2, <1>0, <1>c, <1>e, RestingMoves, Zenon
<1>15. ASSUME Unmark(k) PROVE Inv'
  <2>1. UNCHANGED <<pidfile, proc, events>> /\ StopDone(k, "stopped") /\ NoneLeft'
    BY <1>0, <1>15, Zenon DEF Unmark, At, PidInHand, StopIsTrue, NoneLeft, Live
  <2> QED BY <2>1, <1>0, <1>a, <1>e, StopDoneRests, Zenon
<1>16. ASSUME StopContinue(k) PROVE Inv'
  <2>1. UNCHANGED <<disks, pidfile>> /\ events \subseteq events' /\ call[k].pc = "cont"
    BY <1>16, Zenon DEF StopContinue, At
  <2>2. /\ call' \in [Callers -> CallRec] /\ call'[k].pid = call[k].pid
        /\ call'[k].pc \in {"term", "shutdown"}
    BY <1>0, <1>16, <1>e, <1>f, Moves, Zenon DEF StopContinue
  <2>3. proc' \in [Pids -> {"unused", "qemu", "frozen", "dead", "other"}] /\ Live' = Live
    BY <1>0, <1>16, Zenon DEF StopContinue, HostOK, Live
  <2>4. PidInHand(k)'
    BY <2>1, <2>2, <1>0, Zenon DEF PidInHand, StopIsTrue, Holding
  <2> QED BY <2>1, <2>2, <2>3, <2>4, <1>0, Zenon DEF HostOK, ProcessIsTracked, FileIsTrue
<1>17. ASSUME StopShutdown(k) PROVE Inv'
  <2>1. UNCHANGED <<disks, pidfile>> /\ events \subseteq events' /\ call[k].pc = "shutdown"
    BY <1>17, Zenon DEF StopShutdown, At
  <2>2. /\ call' \in [Callers -> CallRec] /\ call'[k].pid = call[k].pid /\ call'[k].pc = "term"
    BY <1>0, <1>17, <1>e, <1>f, Moves, Zenon DEF StopShutdown
  <2>3. proc' \in [Pids -> {"unused", "qemu", "frozen", "dead", "other"}] /\ Live' \subseteq Live
    BY <1>0, <1>17, Zenon DEF StopShutdown, HostOK, Live
  <2>4. PidInHand(k)'
    BY <2>1, <2>2, <1>0, Zenon DEF PidInHand, StopIsTrue, Holding
  <2> QED BY <2>1, <2>2, <2>3, <2>4, <1>0, Zenon DEF HostOK, ProcessIsTracked, FileIsTrue
<1>18. ASSUME Terminate(k) PROVE Inv'
  <2>1. UNCHANGED <<disks, pidfile>> /\ events \subseteq events' /\ call[k].pc = "term"
    BY <1>18, Zenon DEF Terminate, At
  <2>2. CASE call' = [d \in Callers |-> Idle] /\ UNCHANGED proc
    <3>1. Rests(k)
      BY <2>2, <1>0, CallTypes, Zenon DEF Rests, Resting, StopIsTrue
    <3> QED BY <2>1, <2>2, <3>1, <1>a, Zenon
  <2>3. CASE call[k].pid # 0 /\ proc' = [proc EXCEPT ![call[k].pid] = "dead"] /\ Goto(k, "clean")
    <3>1. call' \in [Callers -> CallRec] /\ call'[k].pc = "clean" /\ call'[k].pid = call[k].pid
      BY <1>0, <2>3, <1>e, <1>f, Moves, Zenon
    <3>2. call[k].pid = pidfile
      BY <1>0, <2>1, <2>3, Zenon DEF PidInHand, Holding
    <3>3. /\ proc' \in [Pids -> {"unused", "qemu", "frozen", "dead", "other"}]
          /\ Live' \subseteq Live /\ call[k].pid \notin Live'
      BY <1>0, <2>3, Zenon DEF HostOK, Live
    <3>4. PidInHand(k)'
      BY <2>1, <2>3, <3>1, <3>2, <3>3, Zenon DEF PidInHand, StopIsTrue, Holding
    <3> QED BY <2>1, <3>1, <3>3, <3>4, <1>0, Zenon DEF HostOK, ProcessIsTracked, FileIsTrue
  <2>4. CASE StopDone(k, "err") /\ UNCHANGED <<proc, events>>
    BY <2>1, <2>4, <1>0, <1>a, <1>e, StopDoneRests, Zenon
  <2> QED BY <1>18, <2>2, <2>3, <2>4, Zenon DEF Terminate
<1>19. ASSUME Clean(k) PROVE Inv'
  <2>1. pidfile' = 0 /\ UNCHANGED <<proc, events>> /\ call[k].pc = "clean" /\ StopDone(k, "stopped")
    BY <1>19, Zenon DEF Clean, At
  <2>2. NoneLeft /\ NoneLeft'
    BY <2>1, <1>0, Zenon DEF PidInHand, Holding, FileIsTrue, NoneLeft, Live
  <2> QED BY <2>1, <2>2, <1>0, <1>b, <1>e, StopDoneRests, Zenon
<1>20. ASSUME Freeze(k) \/ Thaw(k) PROVE Inv'
  <2>1. UNCHANGED <<pidfile, events>>
    BY <1>20, Zenon DEF Freeze, Thaw
  <2>2. Rests(k)
    BY <1>20, <1>0, <1>d, <1>e, RestingMoves, Zenon DEF Freeze, Thaw
  <2>3. proc' \in [Pids -> {"unused", "qemu", "frozen", "dead", "other"}] /\ Live' = Live
    BY <1>0, <1>20, Zenon DEF Freeze, Thaw, HostOK, Live
  <2>4. ProcessIsTracked' /\ FileIsTrue'
    BY <2>1, <2>3, Zenon DEF ProcessIsTracked, FileIsTrue
  <2> QED BY <2>1, <2>2, <2>3, <2>4, <1>0, RestingInv, Zenon DEF HostOK
<1>21. ASSUME MarkSuspended(k) \/ Thawed(k) PROVE Inv'
  <2>1. UNCHANGED <<pidfile, proc, events>> /\ Rests(k)
    BY <1>21, <1>0, <1>d, <1>e, RestingMoves, Zenon DEF MarkSuspended, Thawed
  <2> QED BY <2>1, <1>a, Zenon
<1>22. ASSUME RemoveDir(k) PROVE Inv'
  <2>1. pidfile' \in {pidfile, 0} /\ proc' = proc /\ \E res \in Results : Done(k, res)
    BY <1>22, <1>e, Zenon DEF RemoveDir, QB!May
  <2>2. events \subseteq events' /\ NoneLeft'
    <3>1. CASE call[k].res = "err"
      BY <1>22, <3>1, Zenon DEF RemoveDir, NoneLeft
    <3>2. CASE call[k].res # "err"
      <4>1. NoneLeft
        BY <1>0, <1>22, <3>2, Zenon DEF RemoveDir, At, PidInHand, StopIsTrue
      <4> QED BY <1>22, <4>1, Zenon DEF RemoveDir, NoneLeft, Live
    <3> QED BY <3>1, <3>2, Zenon
  <2>3. ProcessIsTracked' /\ FileIsTrue'
    BY <2>1, <2>2, Zenon DEF ProcessIsTracked, FileIsTrue, NoneLeft, Live
  <2> QED BY <2>1, <2>3, <1>0, RestingMoves, RestingInv, Zenon DEF HostOK
<1> QED BY <1>1, <1>2, <1>3, <1>4, <1>5, <1>6, <1>7, <1>8, <1>9, <1>10, <1>11, <1>12, <1>13, <1>14, <1>15,
           <1>16, <1>17, <1>18, <1>19, <1>20, <1>21, <1>22, Zenon DEF Step

(* A guest that exits, a pid that is reused and a crash of the daemon keep *)
(* it as well: none of them brings a process to life or touches the files. *)
LEMMA HostStep ==
    ASSUME NEW k, Callers = {k}, Inv, GuestExit \/ PidReuse \/ Crash
    PROVE  Inv'
<1>0. k \in Callers /\ PidInHand(k) /\ HostOK /\ call[k] \in CallRec
  BY Zenon DEF Inv, HostOK
<1>1. UNCHANGED <<disks, pidfile, events>>
  BY Zenon DEF GuestExit, PidReuse, Crash
<1>2. proc' \in [Pids -> {"unused", "qemu", "frozen", "dead", "other"}] /\ Live' \subseteq Live
  BY <1>0, Zenon DEF GuestExit, PidReuse, Crash, HostOK, Live
<1>3. /\ call' \in [Callers -> CallRec] /\ call'[k].pid \in {call[k].pid, 0}
      /\ \/ call'[k].pc = "idle"
         \/ call'[k].pc = call[k].pc /\ call'[k].pid = call[k].pid /\ call'[k].res = call[k].res
  <2>1. CASE GuestExit
    BY <2>1, <1>0, CallTypes, Zenon DEF GuestExit, HostOK
  <2>2. CASE PidReuse
    BY <2>2, <1>0, Zenon DEF PidReuse, HostOK
  <2>3. CASE Crash
    BY <2>3, <1>0, CallTypes, Zenon DEF Crash, HostOK
  <2> QED BY <2>1, <2>2, <2>3, Zenon
<1>4. PidInHand(k)'
  BY <1>0, <1>1, <1>2, <1>3, Zenon DEF PidInHand, StopIsTrue, NoneLeft, Holding
<1> QED BY <1>0, <1>1, <1>2, <1>3, <1>4, Zenon DEF Inv, HostOK, ProcessIsTracked, FileIsTrue

(* With one call at a time, a live QEMU of a sandbox is always the one its *)
(* pid file names until a Destroy removes the directory although its Stop  *)
(* failed, whichever host calls fail, however much of the directory a      *)
(* failed removal took, whenever the guest exits or the daemon crashes,    *)
(* and whatever number of processes is launched (Create, Start, Stop,      *)
(* Suspend, Resume, Destroy, Inspect and liveSandboxPID of the QEMU        *)
(* runtime).                                                               *)
THEOREM ProcessIsTrackedHolds ==
    ASSUME NEW k, Callers = {k}
    PROVE  Spec => []ProcessIsTracked
<1>1. Init => Inv
  BY CallTypes, Zenon DEF Init, Inv, HostOK, ProcessIsTracked, FileIsTrue, PidInHand, StopIsTrue, Live, Holding
<1>2. Inv /\ [Next]_vars => Inv'
  <2>1. ASSUME Inv, Next PROVE Inv'
    BY <2>1, CallStep, HostStep, Zenon DEF Next
  <2>2. ASSUME Inv, UNCHANGED vars PROVE Inv'
    BY <2>2, Zenon DEF vars, Inv, HostOK, ProcessIsTracked, FileIsTrue, PidInHand, StopIsTrue, NoneLeft, Live
  <2> QED BY <2>1, <2>2, Zenon
<1>3. Inv => ProcessIsTracked
  BY Zenon DEF Inv
<1> QED BY <1>1, <1>2, <1>3, PTL DEF Spec

-----------------------------------------------------------------------------
(* The outcomes of the calls.                                              *)

(* The stages between looking for the process and knowing its state.       *)
Looking == {"live", "check", "forget", "found", "lost", "derive", "probe"}

(* The calls that begin by stopping the guest.                             *)
Stopping == {"stop", "kill", "destroy"}

(* A guest that this call launched or woke.                                *)
Up(op, from, g) ==
    \/ op = "start" /\ from = "stopped" /\ (g = "running" \/ (g = "suspended" /\ Fault("stop")))
    \/ op = "resume" /\ ~QB!NoProcess(from) /\ g = "running"

(* What the forced Stop of Destroy may leave of a guest.                   *)
Removable(from, g) ==
    IF QB!NoProcess(from) THEN g = from ELSE g = "stopped" \/ (Fault("stop") /\ g = from)

(* A call that stops a live guest: one it found, or one it launched.       *)
Kills(op, from, g) ==
    \/ op \in Stopping /\ ~QB!NoProcess(from) /\ g = from
    \/ op = "start" /\ Up(op, from, g)

(* Such a call after the process died.                                     *)
Killed(op, from, g) ==
    /\ g = "stopped"
    /\ (op \in Stopping /\ ~QB!NoProcess(from)) \/ (op = "start" /\ from = "stopped")

(* The first look of a call sees the guest it began with.                  *)
FirstLook(r, g) ==
    /\ g = r.from
    /\ \/ r.op = "suspend" /\ r.then = "freeze"
       \/ r.op = "resume" /\ r.then = "thaw"
       \/ r.op = "inspect" /\ r.then = "derive" /\ r.after = "inspect"
       \/ r.op = "start" /\ r.then = "derive" /\ r.after = "start"
       \/ r.op \in Stopping /\ r.after = "stop" /\ r.then = "derive"
       \/ r.op \in Stopping /\ r.then = "kill" /\ ~QB!NoProcess(g)

(* A later one sees the guest the call brought up.                         *)
LaterLook(r, g) ==
    /\ Up(r.op, r.from, g)
    /\ \/ r.then = "derive" /\ r.after = "end"
       \/ r.op = "start" /\ r.then = "derive" /\ r.after = "stop"
       \/ r.op = "start" /\ r.then = "kill"

(* What the call knows, at each stage, of the guest and of the marker, as  *)
(* long as the guest does not exit by itself.                              *)
Sees(r, g, m) ==
    /\ r.pc \in {"layout", "disks"} => r.op = "create" /\ r.from = "none" /\ g = "none"
    /\ r.pc \in Looking => FirstLook(r, g) \/ LaterLook(r, g)
    /\ r.pc = "lost" => Fault("stop") /\ g \notin {"none", "leaked"}
    /\ r.pc = "forget" => QB!NoProcess(g)
    /\ r.pc = "found" => (r.pid = 0 <=> QB!NoProcess(g))
    /\ r.pc \in {"derive", "probe"} => r.then = "derive" /\ ~QB!NoProcess(g)
    /\ r.pc = "probe" => g = "running"
    /\ r.pc = "launch" => r.op = "start" /\ g = r.from /\ (g = "stopped" /\ m => Fault("stop"))
    /\ r.pc \in {"waitpid", "ready"} => Up(r.op, r.from, g)
    /\ r.pc = "unmark" => r.op \in Stopping /\ g = r.from /\ QB!NoProcess(g)
    /\ r.pc \in {"cont", "shutdown", "term"} => r.pid # 0
    /\ r.pc = "cont" => Kills(r.op, r.from, g)
    /\ r.pc \in {"shutdown", "term"} => Kills(r.op, r.from, g) \/ Killed(r.op, r.from, g)
    /\ r.pc = "clean" => Killed(r.op, r.from, g)
    /\ r.pc \in {"freeze", "mark"} => r.op = "suspend" /\ g = r.from /\ ~QB!NoProcess(g)
    /\ r.pc \in {"thaw", "thawed"} => r.op = "resume" /\ g = r.from /\ ~QB!NoProcess(g)
    /\ r.pc = "rm" => r.op = "destroy" /\ Removable(r.from, g)
    /\ r.pc = "done" => <<g, r.res>> \in Contract(r.op, r.from)

(* A sandbox without disks has no pid file.                                *)
NoStrayFile == disks = "none" => pidfile = 0

CallsSee == NoStrayFile /\ \A c \in Callers : ~call[c].exit => Sees(call[c], Guest, marker)

(* The caller goes on with the same call, made of the same guest.          *)
SameCall(c) ==
    call'[c].op = call[c].op /\ call'[c].from = call[c].from /\ call'[c].exit = call[c].exit

(* What Goto, Hold, Done, Find and DoInspect keep of a call.               *)
LEMMA Carries ==
    ASSUME HostOK, NEW c \in Callers
    PROVE  /\ \A pc \in Stages : Goto(c, pc) =>
                /\ SameCall(c) /\ call'[c].pc = pc /\ call'[c].pid = call[c].pid
                /\ call'[c].then = call[c].then /\ call'[c].after = call[c].after
           /\ \A pc \in Stages, p \in Pids \cup {0} : Hold(c, pc, p) =>
                /\ SameCall(c) /\ call'[c].pc = pc /\ call'[c].pid = p
                /\ call'[c].then = call[c].then /\ call'[c].after = call[c].after
           /\ \A res \in Results : Done(c, res) => SameCall(c) /\ call'[c].pc = "done" /\ call'[c].res = res
           /\ \A then \in Thens : Find(c, then) =>
                SameCall(c) /\ call'[c].pc = "live" /\ call'[c].then = then /\ call'[c].after = call[c].after
           /\ \A after \in Afters : DoInspect(c, after) =>
                SameCall(c) /\ call'[c].pc = "live" /\ call'[c].then = "derive" /\ call'[c].after = after
<1>1. call \in [Callers -> CallRec] /\ call[c] \in CallRec
  BY Zenon DEF HostOK
<1>2. ASSUME NEW r, call' = [call EXCEPT ![c] = r] PROVE call'[c] = r
  BY <1>1, <1>2, Zenon
<1>r. PICK r \in CallRec : r = call[c]
  BY <1>1, Zenon
<1>3. ASSUME NEW pc \in Stages, Goto(c, pc)
      PROVE  /\ SameCall(c) /\ call'[c].pc = pc /\ call'[c].pid = call[c].pid
             /\ call'[c].then = call[c].then /\ call'[c].after = call[c].after
  <2>1. call'[c] = [r EXCEPT !.pc = pc]
    BY <1>r, <1>2, <1>3, Zenon DEF Goto
  <2> QED BY <1>r, <2>1, Zenon DEF SameCall, CallRec
<1>4. ASSUME NEW pc \in Stages, NEW p \in Pids \cup {0}, Hold(c, pc, p)
      PROVE  /\ SameCall(c) /\ call'[c].pc = pc /\ call'[c].pid = p
             /\ call'[c].then = call[c].then /\ call'[c].after = call[c].after
  <2>1. call'[c] = [r EXCEPT !.pc = pc, !.pid = p]
    BY <1>r, <1>2, <1>4, Zenon DEF Hold
  <2> QED BY <1>r, <2>1, Zenon DEF SameCall, CallRec
<1>5. ASSUME NEW res \in Results, Done(c, res)
      PROVE  SameCall(c) /\ call'[c].pc = "done" /\ call'[c].res = res
  <2>1. call'[c] = [r EXCEPT !.pc = "done", !.res = res]
    BY <1>r, <1>2, <1>5, Zenon DEF Done
  <2> QED BY <1>r, <2>1, Zenon DEF SameCall, CallRec
<1>6. ASSUME NEW then \in Thens, Find(c, then)
      PROVE  SameCall(c) /\ call'[c].pc = "live" /\ call'[c].then = then /\ call'[c].after = call[c].after
  <2>1. call'[c] = [r EXCEPT !.pc = "live", !.then = then]
    BY <1>r, <1>2, <1>6, Zenon DEF Find
  <2> QED BY <1>r, <2>1, Zenon DEF SameCall, CallRec
<1>7. ASSUME NEW after \in Afters, DoInspect(c, after)
      PROVE  SameCall(c) /\ call'[c].pc = "live" /\ call'[c].then = "derive" /\ call'[c].after = after
  <2>1. call'[c] = [r EXCEPT !.pc = "live", !.then = "derive", !.after = after, !.force = (after = "stop")]
    BY <1>r, <1>2, <1>7, Zenon DEF DoInspect
  <2> QED BY <1>r, <2>1, Zenon DEF SameCall, CallRec
<1> QED BY <1>3, <1>4, <1>5, <1>6, <1>7, Zenon

(* How the host's files and processes tell the states of the guest apart.  *)
LEMMA GuestFacts ==
    ASSUME HostOK, FileIsTrue, NoStrayFile
    PROVE  /\ Guest \in QB!Guests
           /\ QB!NoProcess(Guest) <=> pidfile \notin Live
           /\ pidfile \in Live => Guest = IF marker THEN "suspended" ELSE "running"
           /\ pidfile # 0 => Guest \notin {"none", "leaked"}
           /\ Guest = "stopped" <=> Live = {} /\ disks # "none"
           /\ pidfile \in Live => disks # "none" /\ Live = {pidfile} /\ pidfile # 0
<1>1. pidfile \in Live => disks # "none" /\ Live = {pidfile} /\ pidfile # 0
  BY PidsArePositive, Zenon DEF FileIsTrue, NoStrayFile, Live
<1>2. pidfile # 0 => disks # "none" /\ Live \subseteq {pidfile}
  BY Zenon DEF FileIsTrue, NoStrayFile
<1> QED BY <1>1, <1>2, Zenon DEF Guest, QB!Guests, QB!NoProcess

(* The guest is the same when its processes, disks and marker are, and a   *)
(* guest without a process loses nothing with its pid file.                *)
LEMMA SameGuest ==
    ASSUME Live' = Live, (disks' = "none") <=> (disks = "none")
    PROVE  /\ pidfile' = pidfile /\ marker' = marker => Guest' = Guest
           /\ pidfile \notin Live /\ pidfile' \in {pidfile, 0} => Guest' = Guest
  BY PidsArePositive DEF Guest, Live

(* The outcomes of QemuBackend, call by call, when launches, signals, file *)
(* operations and probes may fail.                                         *)
LEMMA Outcomes ==
    ASSUME Fault("runtime"), Fault("probe"), NEW f \in QB!Guests
    PROVE  /\ {<<"none", "err">>, <<"stopped", "err">>, <<"stopped", "stopped">>} \subseteq Contract("create", "none")
           /\ <<f, "err">> \in Contract("start", f)
           /\ <<"running", "running">> \in Contract("start", "running")
           /\ \A op \in {"stop", "kill", "suspend", "resume"} :
                QB!NoProcess(f) => <<f, "stopped">> \in Contract(op, f)
           /\ \A op \in {"stop", "kill", "suspend", "resume"} :
                f \notin {"none", "leaked"} /\ Fault("stop") => <<f, "err">> \in Contract(op, f)
           /\ \A op \in {"stop", "kill"} :
                /\ ~QB!NoProcess(f) => <<"stopped", "stopped">> \in Contract(op, f)
                /\ ~QB!NoProcess(f) /\ Fault("stop") => <<"stopped", "err">> \in Contract(op, f)
           /\ ~QB!NoProcess(f) => /\ <<"suspended", "suspended">> \in Contract("suspend", f)
                                  /\ <<f, "err">> \in Contract("suspend", f)
                                  /\ <<f, "err">> \in Contract("resume", f)
                                  /\ <<"running", "err">> \in Contract("resume", f)
           /\ \A st \in QB!Inspect(f) : <<f, st>> \in Contract("inspect", f)
<1> USE DEF Contract, QB!May, QB!Guests, Fault
<1>1. {<<"none", "err">>, <<"stopped", "err">>, <<"stopped", "stopped">>} \subseteq Contract("create", "none")
  BY Zenon DEF QB!Create
<1>2. <<f, "err">> \in Contract("start", f) /\ <<"running", "running">> \in Contract("start", "running")
  BY Zenon DEF QB!Start
<1>3. ASSUME NEW op \in {"stop", "kill"}
      PROVE  /\ QB!NoProcess(f) => <<f, "stopped">> \in Contract(op, f)
             /\ f \notin {"none", "leaked"} /\ Fault("stop") => <<f, "err">> \in Contract(op, f)
             /\ ~QB!NoProcess(f) => <<"stopped", "stopped">> \in Contract(op, f)
             /\ ~QB!NoProcess(f) /\ Fault("stop") => <<"stopped", "err">> \in Contract(op, f)
  BY Zenon DEF QB!Stop, QB!LookupFails
<1>4. /\ QB!NoProcess(f) => <<f, "stopped">> \in Contract("suspend", f)
      /\ f \notin {"none", "leaked"} /\ Fault("stop") => <<f, "err">> \in Contract("suspend", f)
      /\ ~QB!NoProcess(f) => /\ <<"suspended", "suspended">> \in Contract("suspend", f)
                             /\ <<f, "err">> \in Contract("suspend", f)
  BY Zenon DEF QB!Suspend, QB!LookupFails
<1>5. /\ QB!NoProcess(f) => <<f, "stopped">> \in Contract("resume", f)
      /\ f \notin {"none", "leaked"} /\ Fault("stop") => <<f, "err">> \in Contract("resume", f)
      /\ ~QB!NoProcess(f) => /\ <<f, "err">> \in Contract("resume", f)
                             /\ <<"running", "err">> \in Contract("resume", f)
  BY Zenon DEF QB!Resume, QB!LookupFails
<1>6. \A st \in QB!Inspect(f) : <<f, st>> \in Contract("inspect", f)
  OBVIOUS
<1> QED BY <1>1, <1>2, <1>3, <1>4, <1>5, <1>6, Zenon

(* A call that brought the guest up may report any state Inspect sees, and *)
(* the failure of a Stop that was to take it down again.                   *)
LEMMA UpOutcomes ==
    ASSUME Fault("runtime"), NEW op, NEW f, NEW g, Up(op, f, g)
    PROVE  /\ \A st \in QB!Inspect(g) : <<g, st>> \in Contract(op, f)
           /\ Fault("stop") => <<g, "err">> \in Contract(op, f)
<1> USE DEF Contract, QB!May, Fault, Up
<1>1. CASE op = "start" /\ g = "running"
  BY <1>1, Zenon DEF QB!Start, QB!Inspect, QB!LookupFails
<1>2. CASE op = "start" /\ g = "suspended"
  <2>1. QB!Inspect(g) \subseteq {"suspended", "err"}
    BY <1>2 DEF QB!Inspect, QB!Derived, QB!NoProcess, QB!LookupFails
  <2> QED BY <1>2, <2>1, Zenon DEF QB!Start
<1>3. CASE op = "resume"
  BY <1>3, Zenon DEF QB!Resume, QB!Inspect, QB!LookupFails
<1> QED BY <1>1, <1>2, <1>3, Zenon

(* What Inspect reports of a guest: an error of the lookup, its absence,   *)
(* its suspension, or what the probe says.                                 *)
LEMMA Inspected ==
    ASSUME Fault("probe"), NEW g \in QB!Guests
    PROVE  /\ QB!NoProcess(g) => "stopped" \in QB!Inspect(g)
           /\ g = "suspended" => "suspended" \in QB!Inspect(g)
           /\ g = "running" => {"running", "error", "booting", "degraded"} \subseteq QB!Inspect(g)
           /\ g \notin {"none", "leaked"} /\ Fault("stop") => "err" \in QB!Inspect(g)
           /\ \A st \in QB!Inspect(g) : /\ st = "running" => g = "running"
                                        /\ st = "err" => Fault("stop") /\ g \notin {"none", "leaked"}
                                        /\ st # "err" => (st = "stopped" <=> QB!NoProcess(g))
                                        /\ st \in Results
<1> USE DEF Fault, QB!May
<1>1. /\ QB!NoProcess(g) => "stopped" \in QB!Inspect(g)
      /\ g = "suspended" => "suspended" \in QB!Inspect(g)
      /\ g = "running" => {"running", "error", "booting", "degraded"} \subseteq QB!Inspect(g)
  BY Zenon DEF QB!Inspect, QB!Derived, QB!NoProcess
<1>2. {o[2] : o \in QB!LookupFails(g)} = IF g \in {"none", "leaked"} \/ ~Fault("stop") THEN {} ELSE {"err"}
  <2>1. QB!LookupFails(g) = IF g \in {"none", "leaked"} \/ ~Fault("stop") THEN {} ELSE {<<g, "err">>}
    BY Zenon DEF QB!LookupFails
  <2>2. {o[2] : o \in {<<g, "err">>}} = {"err"}
    <3>1. <<g, "err">>[2] = "err"
      OBVIOUS
    <3> QED BY <3>1, Zenon
  <2>3. {o[2] : o \in {}} = {}
    OBVIOUS
  <2> QED BY <2>1, <2>2, <2>3, Zenon
<1>3. /\ g \notin {"none", "leaked"} /\ Fault("stop") => "err" \in QB!Inspect(g)
      /\ \A st \in QB!Inspect(g) :
            (st = "err" /\ Fault("stop") /\ g \notin {"none", "leaked"}) \/ st \in QB!Derived(g)
  BY <1>2, Zenon DEF QB!Inspect
<1>4. \A st \in QB!Derived(g) : /\ st = "running" => g = "running"
                                /\ st # "err"
                                /\ st = "stopped" <=> QB!NoProcess(g)
                                /\ st \in Results
  <2>1. QB!Derived(g) = IF QB!NoProcess(g) THEN {"stopped"} ELSE IF g = "suspended" THEN {"suspended"}
                        ELSE {"running", "error", "booting", "degraded"}
    BY Zenon DEF QB!Derived
  <2>2. QB!NoProcess(g) \/ g \in {"suspended", "running"}
    BY Zenon DEF QB!Guests, QB!NoProcess
  <2> QED BY <2>1, <2>2, Zenon DEF Results
<1> QED BY <1>1, <1>3, <1>4, Zenon DEF Results

(* The outcome with which the end of Stop meets the contract of its call.  *)
StopFits(op, f, g, res) ==
    /\ op = "start" => <<g, "err">> \in Contract(op, f)
    /\ op = "destroy" => Removable(f, g)
    /\ op \notin {"start", "destroy"} => <<g, res>> \in Contract(op, f)

(* A Stop that fails left the guest as it was, or killed it all the same.  *)
LEMMA StopFails ==
    ASSUME Fault("runtime"), Fault("probe"), Fault("stop"), NEW op, NEW f \in QB!Guests, NEW g,
           g \notin {"none", "leaked"},
           (op \in Stopping /\ g = f) \/ (op = "start" /\ Up(op, f, g)) \/ Killed(op, f, g)
    PROVE  StopFits(op, f, g, "err")
<1>1. CASE op \in Stopping /\ g = f
  BY <1>1, Outcomes, Zenon DEF StopFits, Removable, Stopping
<1>2. CASE op = "start" /\ Up(op, f, g)
  BY <1>2, UpOutcomes, Zenon DEF StopFits
<1>3. CASE Killed(op, f, g)
  BY <1>3, Outcomes, Zenon DEF StopFits, Removable, Killed, Stopping
<1> QED BY <1>1, <1>2, <1>3, Zenon

(* A Stop that succeeds found no process, or killed it.                    *)
LEMMA StopSucceeds ==
    ASSUME Fault("runtime"), Fault("probe"), NEW op, NEW f \in QB!Guests, NEW g,
           (op \in Stopping /\ g = f /\ QB!NoProcess(f)) \/ Killed(op, f, g)
    PROVE  StopFits(op, f, g, "stopped")
<1>1. CASE op \in Stopping /\ g = f /\ QB!NoProcess(f)
  BY <1>1, Outcomes, Zenon DEF StopFits, Removable, Stopping
<1>2. CASE Killed(op, f, g)
  BY <1>2, Outcomes, Zenon DEF StopFits, Removable, Killed, Stopping
<1> QED BY <1>1, <1>2, Zenon

(* A call that ends with an outcome of its contract.                       *)
LEMMA EndSees ==
    ASSUME HostOK, NEW k \in Callers, NEW res \in Results, Done(k, res),
           <<Guest', res>> \in Contract(call[k].op, call[k].from)
    PROVE  Sees(call'[k], Guest', marker')
<1>1. SameCall(k) /\ call'[k].pc = "done" /\ call'[k].res = res
  BY Carries, Zenon
<1> QED BY <1>1, Zenon DEF SameCall, Sees, Looking

(* Stop hands on what its call may report.                                 *)
LEMMA StopEnds ==
    ASSUME HostOK, NEW k \in Callers, NEW res \in Results, StopDone(k, res),
           StopFits(call[k].op, call[k].from, Guest', res)
    PROVE  Sees(call'[k], Guest', marker')
<1>0. "err" \in Results /\ "rm" \in Stages
  BY Zenon DEF Results, Stages, Resting
<1>1. CASE call[k].op = "start" /\ Done(k, "err")
  BY <1>0, <1>1, EndSees, Zenon DEF StopFits
<1>2. CASE call[k].op = "destroy" /\ call' = [call EXCEPT ![k] = [@ EXCEPT !.pc = "rm", !.res = res]]
  <2>1. SameCall(k) /\ call'[k].pc = "rm"
    BY <1>2, ToRemoval, Zenon DEF SameCall
  <2> QED BY <1>2, <2>1, Zenon DEF SameCall, Sees, Looking, StopFits
<1>3. CASE call[k].op \notin {"start", "destroy"} /\ Done(k, res)
  BY <1>3, EndSees, Zenon DEF StopFits
<1> QED BY <1>1, <1>2, <1>3, Zenon DEF StopDone

(* What a call makes of the status Inspect returned it, when that status   *)
(* is one of the guest's and no marker outlives a stopped guest.           *)
LEMMA StatusSees ==
    ASSUME Fault("runtime"), Fault("probe"), HostOK, NEW k \in Callers, Guest \in QB!Guests, Guest' = Guest,
           FirstLook(call[k], Guest) \/ LaterLook(call[k], Guest), call[k].then = "derive",
           NEW st \in QB!Inspect(Guest), Status(k, st), st = "stopped" => ~marker'
    PROVE  Sees(call'[k], Guest', marker')
<1> DEFINE op == call[k].op
           f == call[k].from
<1>0. st \in Results /\ f \in QB!Guests
  BY Inspected, Zenon DEF HostOK, CallRec
<1>1. /\ st = "running" => Guest = "running"
      /\ st = "err" => Fault("stop") /\ Guest \notin {"none", "leaked"}
      /\ st # "err" => (st = "stopped" <=> QB!NoProcess(Guest))
  BY Inspected, Zenon
<1>2. /\ {"launch", "unmark"} \subseteq Stages /\ "kill" \in Thens /\ "err" \in Results
  BY Zenon DEF Stages, Resting, Thens, Results
<1>3. CASE call[k].after = "start"
  <2>1. op = "start" /\ Guest = f
    BY <1>3, Zenon DEF FirstLook, LaterLook, Stopping
  <2>2. CASE st = "running" /\ Done(k, st)
    BY <1>0, <1>1, <2>1, <2>2, Outcomes, EndSees, Zenon
  <2>3. CASE st # "running" /\ Goto(k, "launch")
    <3>1. SameCall(k) /\ call'[k].pc = "launch"
      BY <1>2, <2>3, Carries, Zenon
    <3>2. Guest = "stopped" /\ marker' => Fault("stop")
      BY <1>1, Zenon DEF QB!NoProcess
    <3> QED BY <2>1, <3>1, <3>2, Zenon DEF SameCall, Sees, Looking
  <2> QED BY <1>3, <2>2, <2>3, Zenon DEF Status
<1>4. CASE call[k].after = "stop"
  <2>1. (op \in Stopping /\ Guest = f) \/ (op = "start" /\ Up(op, f, Guest))
    BY <1>4, Zenon DEF FirstLook, LaterLook
  <2>2. CASE st = "err" /\ StopDone(k, "err")
    <3>1. StopFits(op, f, Guest', "err")
      BY <1>0, <1>1, <2>1, <2>2, StopFails, Zenon
    <3> QED BY <1>2, <2>2, <3>1, StopEnds, Zenon
  <2>3. CASE st = "stopped" /\ Goto(k, "unmark")
    <3>1. SameCall(k) /\ call'[k].pc = "unmark"
      BY <1>2, <2>3, Carries, Zenon
    <3>2. op \in Stopping /\ Guest = f /\ QB!NoProcess(Guest)
      BY <1>1, <2>1, <2>3, Zenon DEF Up, QB!NoProcess
    <3> QED BY <3>1, <3>2, Zenon DEF SameCall, Sees, Looking
  <2>4. CASE st \notin {"err", "stopped"} /\ Find(k, "kill")
    <3>1. SameCall(k) /\ call'[k].pc = "live" /\ call'[k].then = "kill"
      BY <1>2, <2>4, Carries, Zenon
    <3>2. ~QB!NoProcess(Guest)
      BY <1>1, <2>4, Zenon
    <3>3. FirstLook(call'[k], Guest') \/ LaterLook(call'[k], Guest')
      BY <2>1, <3>1, <3>2, Zenon DEF SameCall, FirstLook, LaterLook
    <3> QED BY <3>1, <3>3, Zenon DEF Sees
  <2> QED BY <1>4, <2>2, <2>3, <2>4, Zenon DEF Status
<1>5. CASE call[k].after \notin {"start", "stop"}
  <2>1. Done(k, st)
    BY <1>5, Zenon DEF Status
  <2>2. (op = "inspect" /\ Guest = f) \/ Up(op, f, Guest)
    BY <1>5, Zenon DEF FirstLook, LaterLook
  <2>3. <<Guest', st>> \in Contract(op, f)
    BY <1>0, <2>2, Outcomes, UpOutcomes, Zenon
  <2> QED BY <1>0, <2>1, <2>3, EndSees, Zenon
<1> QED BY <1>3, <1>4, <1>5, Zenon

(* The call under way knows the guest, and the host's files are in order.  *)
Knows(k) ==
    /\ Fault("runtime") /\ Fault("probe")
    /\ k \in Callers /\ HostOK /\ FileIsTrue /\ NoStrayFile /\ PidInHand(k)
    /\ Sees(call[k], Guest, marker)

(* Looking for the process: liveSandboxPID.                                *)
LEMMA LookSees ==
    ASSUME NEW k, Knows(k), LiveRead(k) \/ LiveCheck(k) \/ LiveForget(k) \/ FoundOne(k)
    PROVE  Sees(call'[k], Guest', marker')
<1>0. k \in Callers /\ HostOK /\ Sees(call[k], Guest, marker) /\ PidInHand(k)
  BY Zenon DEF Knows
<1>1. /\ QB!NoProcess(Guest) <=> pidfile \notin Live
      /\ pidfile # 0 => Guest \notin {"none", "leaked"}
      /\ pidfile \in Live => pidfile # 0
  BY GuestFacts, Zenon DEF Knows
<1>2. {"found", "check", "forget", "lost", "cont", "derive", "freeze", "thaw"} \subseteq Stages
  BY Zenon DEF Stages, Holding, Resting
<1>3. pidfile \in Pids \cup {0} /\ call[k].pid \in Pids \cup {0} /\ 0 \in Pids \cup {0}
  BY <1>0, Zenon DEF HostOK, CallRec
<1>4. CASE LiveRead(k)
  <2>1. Guest' = Guest /\ marker' = marker /\ call[k].pc = "live"
    BY <1>4, SameGuest, Zenon DEF LiveRead, At, Live
  <2>2. /\ SameCall(k) /\ call'[k].then = call[k].then /\ call'[k].after = call[k].after
        /\ \/ call'[k].pc = "check"
           \/ call'[k].pc = "found" /\ call'[k].pid = 0 /\ pidfile = 0
    BY <1>0, <1>2, <1>3, <1>4, Carries DEF LiveRead
  <2>3. FirstLook(call'[k], Guest) \/ LaterLook(call'[k], Guest)
    BY <1>0, <2>1, <2>2, Zenon DEF Sees, Looking, SameCall, FirstLook, LaterLook
  <2> QED BY <1>1, <2>1, <2>2, <2>3, Zenon DEF Sees
<1>5. CASE LiveCheck(k)
  <2>1. Guest' = Guest /\ marker' = marker /\ call[k].pc = "check"
    BY <1>5, SameGuest, Zenon DEF LiveCheck, At, Live
  <2>0. call[k].pid = pidfile /\ pidfile # 0
    BY <1>0, <2>1, Zenon DEF PidInHand, Holding
  <2>2. /\ SameCall(k) /\ call'[k].then = call[k].then /\ call'[k].after = call[k].after
        /\ \/ call'[k].pc = "found" /\ call'[k].pid = pidfile /\ pidfile \in Live
           \/ call'[k].pc = "forget" /\ pidfile \notin Live
           \/ call'[k].pc = "lost" /\ Fault("stop")
    BY <1>0, <1>2, <1>3, <1>5, <2>0, Carries DEF LiveCheck
  <2>3. FirstLook(call'[k], Guest) \/ LaterLook(call'[k], Guest)
    BY <1>0, <2>1, <2>2, Zenon DEF Sees, Looking, SameCall, FirstLook, LaterLook
  <2> QED BY <1>1, <2>0, <2>1, <2>2, <2>3, Zenon DEF Sees
<1>6. CASE LiveForget(k)
  <2>1. call[k].pc = "forget" /\ QB!NoProcess(Guest)
    BY <1>0, <1>6, Zenon DEF LiveForget, At, Sees
  <2>2. Guest' = Guest
    BY <1>1, <1>6, <2>1, SameGuest, Zenon DEF LiveForget, Live
  <2>3. /\ SameCall(k) /\ call'[k].then = call[k].then /\ call'[k].after = call[k].after
        /\ call'[k].pc = "found" /\ call'[k].pid = 0
    BY <1>0, <1>2, <1>3, <1>6, Carries DEF LiveForget
  <2>4. FirstLook(call'[k], Guest) \/ LaterLook(call'[k], Guest)
    BY <1>0, <2>1, <2>3, Zenon DEF Sees, Looking, SameCall, FirstLook, LaterLook
  <2> QED BY <2>1, <2>2, <2>3, <2>4, Zenon DEF Sees
<1>7. CASE FoundOne(k)
  <2>1. /\ Guest' = Guest /\ marker' = marker /\ call[k].pid # 0
        /\ call[k].pc = "found" /\ ~QB!NoProcess(Guest)
    BY <1>0, <1>7, SameGuest, Zenon DEF FoundOne, At, Live, Sees
  <2>2. FirstLook(call[k], Guest) \/ LaterLook(call[k], Guest)
    BY <1>0, <2>1, Zenon DEF Sees, Looking
  <2>3. call[k].then \in {"derive", "freeze", "thaw", "kill"}
    BY <2>2, Zenon DEF FirstLook, LaterLook
  <2>4. /\ SameCall(k) /\ call'[k].then = call[k].then /\ call'[k].after = call[k].after
        /\ call'[k].pid = call[k].pid
        /\ call'[k].pc = IF call[k].then = "kill" THEN "cont" ELSE call[k].then
    BY <1>0, <1>2, <1>7, <2>3, Carries DEF FoundOne
  <2>5. CASE call[k].then = "kill"
    <3>1. Kills(call[k].op, call[k].from, Guest)
      BY <2>2, <2>5, Zenon DEF FirstLook, LaterLook, Kills
    <3> QED BY <2>1, <2>4, <2>5, <3>1, Zenon DEF Sees, SameCall, Looking
  <2>6. CASE call[k].then = "derive"
    <3>1. FirstLook(call'[k], Guest) \/ LaterLook(call'[k], Guest)
      BY <2>2, <2>4, Zenon DEF SameCall, FirstLook, LaterLook
    <3> QED BY <2>1, <2>4, <2>6, <3>1, Zenon DEF Sees
  <2>7. CASE call[k].then \in {"freeze", "thaw"}
    <3>1. /\ Guest = call[k].from
          /\ call[k].op = IF call[k].then = "freeze" THEN "suspend" ELSE "resume"
      BY <2>2, <2>7, Zenon DEF FirstLook, LaterLook
    <3> QED BY <2>1, <2>4, <2>7, <3>1, Zenon DEF Sees, SameCall, Looking
  <2> QED BY <2>3, <2>5, <2>6, <2>7, Zenon
<1> QED BY <1>4, <1>5, <1>6, <1>7, Zenon

(* What comes of it: Inspect and the calls that look for the process       *)
(* themselves.                                                             *)
LEMMA FoundSees ==
    ASSUME NEW k, Knows(k), LiveError(k) \/ FoundNone(k) \/ Derive(k) \/ Probe(k)
    PROVE  Sees(call'[k], Guest', marker')
<1>0. /\ Fault("runtime") /\ Fault("probe")
      /\ k \in Callers /\ HostOK /\ Sees(call[k], Guest, marker) /\ call[k].from \in QB!Guests
  BY Zenon DEF Knows, HostOK, CallRec
<1>1. /\ Guest \in QB!Guests
      /\ QB!NoProcess(Guest) <=> pidfile \notin Live
      /\ pidfile \in Live => Guest = IF marker THEN "suspended" ELSE "running"
  BY GuestFacts, Zenon DEF Knows
<1>2. {"err", "stopped"} \subseteq Results /\ "probe" \in Stages
  BY Zenon DEF Results, Stages, Resting
<1>3. call[k].pc \in Looking /\ (FirstLook(call[k], Guest) \/ LaterLook(call[k], Guest))
  BY <1>0, Zenon DEF LiveError, FoundNone, Derive, Probe, At, Looking, Sees
<1>4. CASE LiveError(k)
  <2>1. Guest' = Guest /\ call[k].pc = "lost"
    BY <1>4, SameGuest, Zenon DEF LiveError, At, Live
  <2>2. Fault("stop") /\ Guest \notin {"none", "leaked"}
    BY <1>0, <2>1, Zenon DEF Sees
  <2>3. CASE call[k].then = "derive"
    <3>1. "err" \in QB!Inspect(Guest) /\ Status(k, "err")
      BY <1>0, <1>1, <1>4, <2>2, <2>3, Inspected, Zenon DEF LiveError
    <3> QED BY <1>0, <1>1, <1>3, <2>1, <2>3, <3>1, StatusSees, Zenon
  <2>4. CASE call[k].then = "kill"
    <3>1. (call[k].op \in Stopping /\ Guest = call[k].from)
            \/ (call[k].op = "start" /\ Up(call[k].op, call[k].from, Guest))
      BY <1>3, <2>4, Zenon DEF FirstLook, LaterLook
    <3>2. StopFits(call[k].op, call[k].from, Guest', "err")
      BY <1>0, <2>1, <2>2, <3>1, StopFails, Zenon
    <3>3. StopDone(k, "err")
      BY <1>4, <2>4, Zenon DEF LiveError
    <3> QED BY <1>0, <1>2, <3>2, <3>3, StopEnds, Zenon
  <2>5. CASE call[k].then \notin {"derive", "kill"}
    <3>1. Done(k, "err") /\ call[k].op \in {"suspend", "resume"} /\ Guest = call[k].from
      BY <1>3, <1>4, <2>5, Zenon DEF LiveError, FirstLook, LaterLook
    <3>2. <<Guest', "err">> \in Contract(call[k].op, call[k].from)
      BY <1>0, <2>1, <2>2, <3>1, Outcomes, Zenon
    <3> QED BY <1>0, <1>2, <3>1, <3>2, EndSees, Zenon
  <2> QED BY <2>3, <2>4, <2>5, Zenon
<1>5. CASE FoundNone(k)
  <2>1. call[k].pc = "found" /\ QB!NoProcess(Guest)
    BY <1>0, <1>5, Zenon DEF FoundNone, At, Sees
  <2>2. Guest' = Guest
    BY <1>1, <1>5, <2>1, SameGuest, Zenon DEF FoundNone, Live
  <2>3. CASE call[k].then = "derive" /\ Status(k, "stopped") /\ marker' = FALSE
    <3>1. "stopped" \in QB!Inspect(Guest)
      BY <1>0, <1>1, <2>1, Inspected, Zenon
    <3> QED BY <1>0, <1>1, <1>3, <2>2, <2>3, <3>1, StatusSees, Zenon
  <2>4. CASE call[k].then \in {"freeze", "thaw"} /\ Done(k, "stopped")
    <3>1. call[k].op \in {"suspend", "resume"} /\ Guest = call[k].from
      BY <1>3, <2>4, Zenon DEF FirstLook, LaterLook
    <3>2. <<Guest', "stopped">> \in Contract(call[k].op, call[k].from)
      BY <1>0, <2>1, <2>2, <3>1, Outcomes, Zenon
    <3> QED BY <1>0, <1>2, <2>4, <3>2, EndSees, Zenon
  <2>5. call[k].then # "kill"
    BY <1>3, <2>1, Zenon DEF FirstLook, LaterLook, Up, QB!NoProcess
  <2> QED BY <1>5, <2>3, <2>4, <2>5, Zenon DEF FoundNone
<1>6. CASE Derive(k)
  <2>1. Guest' = Guest /\ call[k].pc = "derive" /\ marker' = marker
    BY <1>6, SameGuest, Zenon DEF Derive, At, Live
  <2>2. call[k].then = "derive" /\ ~QB!NoProcess(Guest)
    BY <1>0, <2>1, Zenon DEF Sees
  <2>3. CASE marker
    <3>1. Status(k, "suspended") /\ "suspended" \in QB!Inspect(Guest)
      BY <1>0, <1>1, <1>6, <2>2, <2>3, Inspected, Zenon DEF Derive
    <3> QED BY <1>0, <1>1, <1>3, <2>1, <2>2, <3>1, StatusSees, Zenon
  <2>4. CASE ~marker
    <3>1. SameCall(k) /\ call'[k].pc = "probe" /\ call'[k].then = call[k].then /\ call'[k].after = call[k].after
      BY <1>0, <1>2, <1>6, <2>4, Carries, Zenon DEF Derive
    <3>2. FirstLook(call'[k], Guest) \/ LaterLook(call'[k], Guest)
      BY <1>3, <3>1, Zenon DEF SameCall, FirstLook, LaterLook
    <3>3. Guest = "running"
      BY <1>1, <2>2, <2>4, Zenon
    <3> QED BY <2>1, <2>2, <3>1, <3>2, <3>3, Zenon DEF Sees
  <2> QED BY <2>3, <2>4, Zenon
<1>7. CASE Probe(k)
  <2>1. call[k].then = "derive" /\ Guest = "running" /\ pidfile \in Live
    BY <1>0, <1>1, <1>7, Zenon DEF Probe, At, Sees
  <2>2. Guest' = Guest
    BY <1>7, <2>1, SameGuest, Zenon DEF Probe, Looked, Live
  <2>3. PICK st \in {"running", "error", "booting", "degraded"} : Status(k, st)
    BY <1>7, Zenon DEF Probe
  <2>4. st \in QB!Inspect(Guest)
    BY <1>0, <1>1, <2>1, Inspected, Zenon
  <2> QED BY <1>0, <1>1, <1>3, <2>1, <2>2, <2>3, <2>4, StatusSees, Zenon
<1> QED BY <1>4, <1>5, <1>6, <1>7, Zenon

(* Launching the guest and waiting for it.                                 *)
LEMMA StartSees ==
    ASSUME NEW k, Knows(k), Launch(k) \/ WaitForPID(k) \/ WaitForReady(k)
    PROVE  Sees(call'[k], Guest', marker')
<1>0. /\ Fault("runtime") /\ Fault("probe")
      /\ k \in Callers /\ HostOK /\ Sees(call[k], Guest, marker) /\ call[k].from \in QB!Guests
  BY Zenon DEF Knows, HostOK, CallRec
<1>1. /\ QB!NoProcess(Guest) <=> pidfile \notin Live
      /\ Guest = "stopped" <=> Live = {} /\ disks # "none"
      /\ pidfile \in Live => pidfile # 0
  BY GuestFacts, Zenon DEF Knows
<1>2. "err" \in Results /\ {"waitpid", "ready"} \subseteq Stages /\ {"end", "stop"} \subseteq Afters
  BY Zenon DEF Results, Stages, Resting, Afters
<1>3. CASE Launch(k)
  <2>1. /\ call[k].op = "start" /\ Guest = call[k].from
        /\ Guest = "stopped" /\ marker => Fault("stop")
    BY <1>0, <1>3, Zenon DEF Launch, At, Sees
  <2>2. CASE Done(k, "err") /\ UNCHANGED <<proc, pidfile>>
    <3>1. Guest' = Guest
      BY <1>3, <2>2, SameGuest, Zenon DEF Launch, Live
    <3>2. <<Guest', "err">> \in Contract(call[k].op, call[k].from)
      BY <1>0, <2>1, <3>1, Outcomes, Zenon
    <3> QED BY <1>0, <1>2, <2>2, <3>2, EndSees, Zenon
  <2>3. CASE /\ disks = "all" /\ Live = {}
             /\ \E p \in Pids : /\ proc[p] = "unused"
                                /\ proc' = [proc EXCEPT ![p] = "qemu"]
                                /\ pidfile' = p
             /\ Goto(k, "waitpid")
    <3>1. PICK p \in Pids : proc' = [proc EXCEPT ![p] = "qemu"] /\ pidfile' = p
      BY <2>3, Zenon
    <3>2. pidfile' \in Live' /\ marker' = marker
      BY <1>0, <1>3, <3>1, Zenon DEF HostOK, Live, Launch
    <3>3. Guest' = IF marker THEN "suspended" ELSE "running"
      BY <3>2, Zenon DEF Guest
    <3>4. SameCall(k) /\ call'[k].pc = "waitpid"
      BY <1>0, <1>2, <2>3, Carries, Zenon
    <3>5. Up(call[k].op, call[k].from, Guest')
      BY <1>1, <2>1, <2>3, <3>3, Zenon DEF Up
    <3> QED BY <3>4, <3>5, Zenon DEF SameCall, Sees, Looking
  <2> QED BY <1>3, <2>2, <2>3, Zenon DEF Launch
<1>4. ASSUME call[k].pc \in {"waitpid", "ready"}
      PROVE  Up(call[k].op, call[k].from, Guest) /\ pidfile \in Live /\ pidfile # 0
  BY <1>0, <1>1, <1>4, Zenon DEF Sees, Up, QB!NoProcess
<1>5. CASE WaitForPID(k)
  <2>1. /\ Up(call[k].op, call[k].from, Guest) /\ pidfile # 0 /\ Guest' = Guest
    BY <1>4, <1>5, SameGuest, Zenon DEF WaitForPID, At, Live
  <2>2. SameCall(k) /\ call'[k].pc = "ready"
    BY <1>0, <1>2, <1>5, <2>1, Carries, Zenon DEF WaitForPID
  <2> QED BY <2>1, <2>2, Zenon DEF SameCall, Sees, Looking
<1>6. CASE WaitForReady(k)
  <2>1. Up(call[k].op, call[k].from, Guest) /\ pidfile \in Live
    BY <1>4, <1>6, Zenon DEF WaitForReady, At
  <2>2. Guest' = Guest
    BY <1>6, <2>1, SameGuest, Zenon DEF WaitForReady, Looked, Live
  <2>3. CASE \E after \in {"end", "stop"} : DoInspect(k, after) /\ (after = "stop" => call[k].op = "start")
    <3>1. PICK after \in {"end", "stop"} : DoInspect(k, after) /\ (after = "stop" => call[k].op = "start")
      BY <2>3, Zenon
    <3>2. SameCall(k) /\ call'[k].pc = "live" /\ call'[k].then = "derive" /\ call'[k].after = after
      BY <1>0, <1>2, <3>1, Carries, Zenon
    <3>3. LaterLook(call'[k], Guest')
      BY <2>1, <2>2, <3>1, <3>2, Zenon DEF SameCall, LaterLook
    <3> QED BY <3>2, <3>3, Zenon DEF Sees
  <2>4. CASE call[k].op # "start" /\ Done(k, "err")
    <3>1. call[k].op = "resume" /\ ~QB!NoProcess(call[k].from) /\ Guest = "running"
      BY <2>1, <2>4, Zenon DEF Up
    <3>2. <<Guest', "err">> \in Contract(call[k].op, call[k].from)
      BY <1>0, <2>2, <3>1, Outcomes, Zenon
    <3> QED BY <1>0, <1>2, <2>4, <3>2, EndSees, Zenon
  <2> QED BY <1>6, <2>3, <2>4, Zenon DEF WaitForReady
<1> QED BY <1>3, <1>5, <1>6, Zenon

(* Stopping it.                                                            *)
LEMMA StopSees ==
    ASSUME NEW k, Knows(k), Unmark(k) \/ StopContinue(k) \/ StopShutdown(k) \/ Terminate(k) \/ Clean(k)
    PROVE  Sees(call'[k], Guest', marker')
<1>0. /\ Fault("runtime") /\ Fault("probe")
      /\ k \in Callers /\ HostOK /\ Sees(call[k], Guest, marker) /\ PidInHand(k)
      /\ call[k].from \in QB!Guests /\ call[k].pid \in Pids \cup {0}
      /\ proc \in [Pids -> {"unused", "qemu", "frozen", "dead", "other"}]
  BY Zenon DEF Knows, HostOK, CallRec
<1>1. /\ QB!NoProcess(Guest) <=> pidfile \notin Live
      /\ Guest = "stopped" <=> Live = {} /\ disks # "none"
      /\ pidfile \in Live => disks # "none" /\ Live = {pidfile}
  BY GuestFacts, Zenon DEF Knows
<1>2. {"err", "stopped"} \subseteq Results /\ {"term", "shutdown", "clean"} \subseteq Stages
  BY Zenon DEF Results, Stages, Holding
<1>3. ASSUME call[k].pc \in {"cont", "shutdown", "term"}
      PROVE  call[k].pid = pidfile /\ pidfile # 0 /\ call[k].pid \in Pids
  BY <1>0, <1>3, Zenon DEF Sees, PidInHand, Holding
<1>4. ASSUME Kills(call[k].op, call[k].from, Guest) PROVE pidfile \in Live
  BY <1>1, <1>4, Zenon DEF Kills, Up, QB!NoProcess
<1>5. ASSUME call[k].pc \in {"shutdown", "term"}, disks' = disks, pidfile' = pidfile,
             proc' = [proc EXCEPT ![call[k].pid] = "dead"]
      PROVE  Killed(call[k].op, call[k].from, Guest')
  <2>1. Kills(call[k].op, call[k].from, Guest) \/ Killed(call[k].op, call[k].from, Guest)
    BY <1>0, <1>5, Zenon DEF Sees
  <2>2. disks # "none" /\ Live \subseteq {pidfile}
    BY <1>1, <1>4, <2>1, Zenon DEF Killed
  <2>3. Live' = {}
    BY <1>0, <1>3, <1>5, <2>2, Zenon DEF Live
  <2>4. Guest' = "stopped"
    BY <1>5, <2>2, <2>3, Zenon DEF Guest
  <2> QED BY <2>1, <2>4, Zenon DEF Kills, Killed, Up
<1>6. CASE Unmark(k)
  <2>1. /\ call[k].op \in Stopping /\ Guest = call[k].from /\ QB!NoProcess(Guest)
    BY <1>0, <1>6, Zenon DEF Unmark, At, Sees
  <2>2. Guest' = Guest
    BY <1>1, <1>6, <2>1, SameGuest, Zenon DEF Unmark, Live
  <2>3. StopFits(call[k].op, call[k].from, Guest', "stopped")
    BY <1>0, <2>1, <2>2, StopSucceeds, Zenon
  <2> QED BY <1>0, <1>2, <1>6, <2>3, StopEnds, Zenon DEF Unmark
<1>7. CASE StopContinue(k)
  <2>1. /\ call[k].pc = "cont" /\ Kills(call[k].op, call[k].from, Guest) /\ call[k].pid # 0
    BY <1>0, <1>7, Zenon DEF StopContinue, At, Sees
  <2>2. Live' = Live
    BY <1>0, <1>7, Zenon DEF StopContinue, Live
  <2>3. Guest' = Guest
    BY <1>7, <2>2, SameGuest, Zenon DEF StopContinue
  <2>4. SameCall(k) /\ call'[k].pc \in {"term", "shutdown"} /\ call'[k].pid = call[k].pid
    BY <1>0, <1>2, <1>7, Carries, Zenon DEF StopContinue
  <2> QED BY <2>1, <2>3, <2>4, Zenon DEF SameCall, Sees, Looking
<1>8. CASE StopShutdown(k)
  <2>1. /\ call[k].pc = "shutdown" /\ call[k].pid # 0
        /\ Kills(call[k].op, call[k].from, Guest) \/ Killed(call[k].op, call[k].from, Guest)
    BY <1>0, <1>8, Zenon DEF StopShutdown, At, Sees
  <2>2. Kills(call[k].op, call[k].from, Guest') \/ Killed(call[k].op, call[k].from, Guest')
    <3>1. CASE proc' = proc
      BY <1>8, <2>1, <3>1, SameGuest, Zenon DEF StopShutdown, Live
    <3>2. CASE proc' = [proc EXCEPT ![call[k].pid] = "dead"]
      BY <1>5, <1>8, <2>1, <3>2, Zenon DEF StopShutdown
    <3> QED BY <1>8, <3>1, <3>2, Zenon DEF StopShutdown
  <2>3. SameCall(k) /\ call'[k].pc = "term" /\ call'[k].pid = call[k].pid
    BY <1>0, <1>2, <1>8, Carries DEF StopShutdown
  <2> QED BY <2>1, <2>2, <2>3, Zenon DEF SameCall, Sees, Looking
<1>9. CASE Terminate(k)
  <2>1. /\ call[k].pc = "term" /\ call[k].pid # 0
        /\ Kills(call[k].op, call[k].from, Guest) \/ Killed(call[k].op, call[k].from, Guest)
    BY <1>0, <1>9, Zenon DEF Terminate, At, Sees
  <2>2. CASE proc' = [proc EXCEPT ![call[k].pid] = "dead"] /\ Goto(k, "clean")
    <3>1. Killed(call[k].op, call[k].from, Guest')
      BY <1>5, <1>9, <2>1, <2>2, Zenon DEF Terminate
    <3>2. SameCall(k) /\ call'[k].pc = "clean"
      BY <1>0, <1>2, <2>2, Carries, Zenon
    <3> QED BY <3>1, <3>2, Zenon DEF SameCall, Sees, Looking
  <2>3. CASE Fault("stop") /\ StopDone(k, "err") /\ UNCHANGED <<proc, events>>
    <3>1. Guest' = Guest
      BY <1>9, <2>3, SameGuest, Zenon DEF Terminate, Live
    <3>2. Guest \notin {"none", "leaked"}
      BY <2>1, Zenon DEF Kills, Killed, Up, QB!NoProcess
    <3>3. \/ call[k].op \in Stopping /\ Guest = call[k].from
          \/ call[k].op = "start" /\ Up(call[k].op, call[k].from, Guest)
          \/ Killed(call[k].op, call[k].from, Guest)
      BY <2>1, Zenon DEF Kills
    <3>4. StopFits(call[k].op, call[k].from, Guest', "err")
      BY <1>0, <2>3, <3>1, <3>2, <3>3, StopFails, Zenon
    <3> QED BY <1>0, <1>2, <2>3, <3>4, StopEnds, Zenon
  <2> QED BY <1>9, <2>1, <2>2, <2>3, Zenon DEF Terminate
<1>10. CASE Clean(k)
  <2>1. Killed(call[k].op, call[k].from, Guest)
    BY <1>0, <1>10, Zenon DEF Clean, At, Sees
  <2>2. Guest' = Guest
    BY <1>1, <1>10, <2>1, SameGuest, Zenon DEF Clean, Killed, Live
  <2>3. StopFits(call[k].op, call[k].from, Guest', "stopped")
    BY <1>0, <2>1, <2>2, StopSucceeds, Zenon
  <2> QED BY <1>0, <1>2, <1>10, <2>3, StopEnds, Zenon DEF Clean
<1> QED BY <1>6, <1>7, <1>8, <1>9, <1>10, Zenon

(* Destroy removes what its Stop left, or fails with any of it in place.   *)
LEMMA Removals ==
    ASSUME Fault("runtime"), NEW f, NEW g, Removable(f, g)
    PROVE  /\ <<g, "err">> \in Contract("destroy", f)
           /\ g = "suspended" => <<"running", "err">> \in Contract("destroy", f)
           /\ \A res \in {"ok", "err"} :
                <<IF g \in QB!LiveGuests THEN "leaked" ELSE "none", res>> \in Contract("destroy", f)
<1> DEFINE stopped == IF QB!NoProcess(f) THEN {f} ELSE {"stopped"} \cup QB!May("stop", {f})
           removed(h) == IF h \in QB!LiveGuests THEN "leaked" ELSE "none"
           partly(h) == {h, removed(h)} \cup (IF h = "suspended" THEN {"running"} ELSE {})
<1>1. g \in stopped
  BY Zenon DEF Removable, QB!May, Fault
<1>2. Contract("destroy", f) = {<<removed(h), "ok">> : h \in stopped}
                               \cup {<<h, "err">> : h \in UNION {partly(k) : k \in stopped}}
  <2>1. Contract("destroy", f) = QB!Destroy(f)
    BY Zenon DEF Contract
  <2> QED BY <2>1, Zenon DEF QB!Destroy, QB!May, Fault
<1>3. /\ g \in partly(g) /\ removed(g) \in partly(g)
      /\ g = "suspended" => "running" \in partly(g)
  BY Zenon
<1> HIDE DEF stopped, removed, partly
<1>4. \A h \in partly(g) : <<h, "err">> \in Contract("destroy", f)
  BY <1>1, <1>2, Zenon
<1>5. <<removed(g), "ok">> \in Contract("destroy", f)
  BY <1>1, <1>2, Zenon
<1> QED BY <1>3, <1>4, <1>5, Zenon DEF removed

(* Creating the disks, suspending, resuming and removing the directory.    *)
LEMMA RestSees ==
    ASSUME NEW k, Knows(k),
           \/ CreateLayout(k) \/ CreateDisks(k)
           \/ Freeze(k) \/ MarkSuspended(k) \/ Thaw(k) \/ Thawed(k) \/ RemoveDir(k)
    PROVE  Sees(call'[k], Guest', marker')
<1>0. /\ Fault("runtime") /\ Fault("probe")
      /\ k \in Callers /\ HostOK /\ Sees(call[k], Guest, marker) /\ PidInHand(k)
      /\ call[k].from \in QB!Guests
      /\ proc \in [Pids -> {"unused", "qemu", "frozen", "dead", "other"}]
  BY Zenon DEF Knows, HostOK, CallRec
<1>1. QB!NoProcess(Guest) <=> pidfile \notin Live
  BY GuestFacts, Zenon DEF Knows
<1>2. /\ {"err", "stopped", "suspended", "ok"} \subseteq Results
      /\ {"disks", "mark", "thawed", "ready"} \subseteq Stages
  BY Zenon DEF Results, Stages, Resting
<1>3. CASE CreateLayout(k) \/ CreateDisks(k)
  <2>1. call[k].op = "create" /\ call[k].from = "none" /\ Guest = "none" /\ disks = "none" /\ Live = {}
    <3>1. call[k].pc \in {"layout", "disks"}
      BY <1>3, Zenon DEF CreateLayout, CreateDisks, At
    <3> QED BY <1>0, <3>1, Zenon DEF Sees, PidInHand
  <2>2. Guest' = IF disks' = "none" THEN "none" ELSE "stopped"
    <3>1. Live' = {}
      BY <1>3, <2>1, Zenon DEF CreateLayout, CreateDisks, Live
    <3> QED BY <3>1, Zenon DEF Guest
  <2>3. CASE CreateLayout(k) /\ Goto(k, "disks")
    <3>1. SameCall(k) /\ call'[k].pc = "disks"
      BY <1>0, <1>2, <2>3, Carries, Zenon
    <3> QED BY <2>1, <2>2, <2>3, <3>1, Zenon DEF SameCall, Sees, Looking, CreateLayout
  <2>4. CASE \E res \in {"err", "stopped"} : Done(k, res) /\ (res = "stopped" => disks' = "all")
    <3>1. PICK res \in {"err", "stopped"} : Done(k, res) /\ (res = "stopped" => disks' = "all")
      BY <2>4, Zenon
    <3>2. <<Guest', res>> \in {<<"none", "err">>, <<"stopped", "err">>, <<"stopped", "stopped">>}
      BY <2>2, <3>1, Zenon
    <3>3. <<Guest', res>> \in Contract(call[k].op, call[k].from)
      BY <1>0, <2>1, <3>2, Outcomes, Zenon
    <3> QED BY <1>0, <1>2, <3>1, <3>3, EndSees, Zenon
  <2> QED BY <1>3, <2>3, <2>4, Zenon DEF CreateLayout, CreateDisks
<1>4. CASE Freeze(k) \/ Thaw(k)
  <2>1. /\ Guest = call[k].from /\ ~QB!NoProcess(Guest)
        /\ (Freeze(k) /\ call[k].op = "suspend") \/ (Thaw(k) /\ call[k].op = "resume")
    BY <1>0, <1>4, Zenon DEF Freeze, Thaw, At, Sees
  <2>2. Live' = Live
    BY <1>0, <1>4, Zenon DEF Freeze, Thaw, Live
  <2>3. Guest' = Guest
    BY <1>4, <2>2, SameGuest, Zenon DEF Freeze, Thaw
  <2>4. CASE (Freeze(k) /\ Goto(k, "mark")) \/ (Thaw(k) /\ Goto(k, "thawed"))
    <3>1. /\ SameCall(k)
          /\ (call'[k].pc = "mark" /\ call[k].op = "suspend") \/ (call'[k].pc = "thawed" /\ call[k].op = "resume")
      <4>1. At(k, "freeze") => call[k].op = "suspend"
        BY <1>0, Zenon DEF At, Sees
      <4>2. At(k, "thaw") => call[k].op = "resume"
        BY <1>0, Zenon DEF At, Sees
      <4> QED BY <1>0, <1>2, <2>4, <4>1, <4>2, Carries, Zenon DEF Freeze, Thaw
    <3> QED BY <2>1, <2>3, <3>1, Zenon DEF SameCall, Sees, Looking
  <2>5. CASE Done(k, "err")
    <3>1. <<Guest', "err">> \in Contract(call[k].op, call[k].from)
      BY <1>0, <2>1, <2>3, Outcomes, Zenon
    <3> QED BY <1>0, <1>2, <2>5, <3>1, EndSees, Zenon
  <2> QED BY <1>4, <2>4, <2>5, Zenon DEF Freeze, Thaw
<1>5. CASE MarkSuspended(k)
  <2>1. call[k].op = "suspend" /\ Guest = call[k].from /\ ~QB!NoProcess(Guest)
    BY <1>0, <1>5, Zenon DEF MarkSuspended, At, Sees
  <2>2. CASE marker' = TRUE /\ Done(k, "suspended")
    <3>1. pidfile' \in Live' /\ marker'
      BY <1>1, <1>5, <2>1, <2>2, Zenon DEF MarkSuspended, Live
    <3>2. Guest' = "suspended"
      BY <3>1, Zenon DEF Guest
    <3>3. <<Guest', "suspended">> \in Contract(call[k].op, call[k].from)
      BY <1>0, <2>1, <3>2, Outcomes, Zenon
    <3> QED BY <1>0, <1>2, <2>2, <3>3, EndSees, Zenon
  <2>3. CASE Done(k, "err") /\ UNCHANGED marker
    <3>1. Guest' = Guest
      BY <1>5, <2>3, SameGuest, Zenon DEF MarkSuspended, Live
    <3>2. <<Guest', "err">> \in Contract(call[k].op, call[k].from)
      BY <1>0, <2>1, <3>1, Outcomes, Zenon
    <3> QED BY <1>0, <1>2, <2>3, <3>2, EndSees, Zenon
  <2> QED BY <1>5, <2>2, <2>3, Zenon DEF MarkSuspended
<1>6. CASE Thawed(k)
  <2>1. call[k].op = "resume" /\ Guest = call[k].from /\ ~QB!NoProcess(Guest)
    BY <1>0, <1>6, Zenon DEF Thawed, At, Sees
  <2>2. pidfile' \in Live' /\ ~marker'
    BY <1>1, <1>6, <2>1, Zenon DEF Thawed, Live
  <2>3. Guest' = "running"
    BY <2>2, Zenon DEF Guest
  <2>4. SameCall(k) /\ call'[k].pc = "ready"
    BY <1>0, <1>2, <1>6, Carries, Zenon DEF Thawed
  <2>5. Up(call[k].op, call[k].from, Guest')
    BY <2>1, <2>3, Zenon DEF Up
  <2> QED BY <2>4, <2>5, Zenon DEF SameCall, Sees, Looking
<1>7. CASE RemoveDir(k)
  <2>1. call[k].op = "destroy" /\ Removable(call[k].from, Guest)
    BY <1>0, <1>7, Zenon DEF RemoveDir, At, Sees
  <2>2. Live' = Live
    BY <1>7, Zenon DEF RemoveDir, Live
  <2>3. CASE disks' = "none" /\ pidfile' = 0 /\ \E res \in {"ok"} \cup QB!May("runtime", {"err"}) : Done(k, res)
    <3>1. PICK res \in {"ok", "err"} : Done(k, res)
      BY <2>3, Zenon DEF QB!May
    <3>2. Guest' = IF Guest \in QB!LiveGuests THEN "leaked" ELSE "none"
      <4>1. Guest \in QB!LiveGuests <=> Live # {}
        BY Zenon DEF Guest, QB!LiveGuests
      <4>2. Guest' = IF Live' = {} THEN "none" ELSE "leaked"
        BY <2>3, PidsArePositive, Zenon DEF Guest, Live
      <4> QED BY <2>2, <4>1, <4>2, Zenon
    <3>3. <<Guest', res>> \in Contract(call[k].op, call[k].from)
      BY <1>0, <2>1, <3>1, <3>2, Removals, Zenon
    <3> QED BY <1>0, <1>2, <3>1, <3>3, EndSees, Zenon
  <2>4. CASE /\ Done(k, "err")
             /\ disks' \in {disks} \cup {d \in {"some"} : disks # "none"}
             /\ pidfile' \in {pidfile, 0} /\ marker' \in {marker, FALSE}
    <3>0. (disks' = "none") <=> (disks = "none")
      BY <2>4, Zenon
    <3>1. \/ Guest' = Guest
          \/ Guest = "suspended" /\ Guest' = "running"
          \/ Guest \in QB!LiveGuests /\ Guest' = "leaked"
      <4>1. CASE pidfile \notin Live
        BY <2>2, <2>4, <3>0, <4>1, SameGuest, Zenon
      <4>2. CASE pidfile \in Live /\ pidfile' = 0
        <5>1. Live' # {} /\ pidfile' \notin Live'
          BY <2>2, <4>2, PidsArePositive, Zenon DEF Live
        <5>2. Guest' = "leaked"
          BY <5>1, Zenon DEF Guest
        <5>3. Guest \in QB!LiveGuests
          BY <4>2, Zenon DEF Guest, QB!LiveGuests
        <5> QED BY <5>2, <5>3, Zenon
      <4>3. CASE pidfile \in Live /\ pidfile' = pidfile
        <5>1. Guest' = (IF marker' THEN "suspended" ELSE "running")
          BY <2>2, <4>3, Zenon DEF Guest
        <5>2. Guest = (IF marker THEN "suspended" ELSE "running")
          BY <4>3, Zenon DEF Guest
        <5>3. CASE marker' = marker
          BY <5>1, <5>2, <5>3, Zenon
        <5>4. CASE marker' = FALSE
          BY <5>1, <5>2, <5>4, Zenon
        <5> QED BY <2>4, <5>3, <5>4, Zenon
      <4> QED BY <2>4, <4>1, <4>2, <4>3, Zenon
    <3>2. <<Guest', "err">> \in Contract(call[k].op, call[k].from)
      BY <1>0, <2>1, <3>1, Removals, Zenon
    <3> QED BY <1>0, <1>2, <2>4, <3>2, EndSees, Zenon
  <2> QED BY <1>7, <2>3, <2>4, Zenon DEF RemoveDir
<1> QED BY <1>3, <1>4, <1>5, <1>6, <1>7, Zenon

(* A call is told of the guest's exit by the host alone.                   *)
LEMMA ExitStays ==
    ASSUME HostOK, NEW k \in Callers, Step(k)
    PROVE  Begin(k) \/ call'[k] = Idle \/ call'[k].exit = call[k].exit
<1>0. /\ {"disks", "found", "check", "forget", "lost", "cont", "derive", "freeze", "thaw", "none", "probe", "launch",
          "waitpid", "ready", "unmark", "shutdown", "term", "clean", "mark", "thawed", "rm"} \subseteq Stages
      /\ {"ok", "err", "stopped", "suspended", "running", "error", "booting", "degraded"} \subseteq Results
      /\ {"end", "stop"} \subseteq Afters /\ "kill" \in Thens
  BY Zenon DEF Stages, Holding, Resting, Results, Afters, Thens
<1>1. pidfile \in Pids \cup {0} /\ call[k].pid \in Pids \cup {0} /\ 0 \in Pids \cup {0} /\ call[k].then \in Thens
  BY Zenon DEF HostOK, CallRec
<1>2. /\ \A pc \in Stages : Goto(k, pc) => SameCall(k)
      /\ \A pc \in Stages, p \in Pids \cup {0} : Hold(k, pc, p) => SameCall(k)
      /\ \A res \in Results : Done(k, res) => SameCall(k)
      /\ \A then \in Thens : Find(k, then) => SameCall(k)
      /\ \A after \in Afters : DoInspect(k, after) => SameCall(k)
  BY Carries, Zenon
<1>3. \A res \in Results : StopDone(k, res) => SameCall(k)
  BY <1>0, <1>2, ToRemoval, Zenon DEF StopDone, SameCall
<1>4. \A st \in Results : Status(k, st) => SameCall(k)
  BY <1>0, <1>2, <1>3, Zenon DEF Status
<1>5. CreateLayout(k) \/ CreateDisks(k) => SameCall(k)
  BY <1>0, <1>2, Zenon DEF CreateLayout, CreateDisks
<1>6. LiveRead(k) \/ LiveCheck(k) \/ LiveForget(k) => SameCall(k)
  BY <1>0, <1>1, <1>2, Zenon DEF LiveRead, LiveCheck, LiveForget
<1>7. LiveError(k) \/ FoundNone(k) => SameCall(k)
  BY <1>0, <1>2, <1>3, <1>4, Zenon DEF LiveError, FoundNone
<1>8. FoundOne(k) => SameCall(k)
  BY <1>0, <1>1, <1>2, Zenon DEF FoundOne, Thens
<1>9. Derive(k) \/ Probe(k) => SameCall(k)
  BY <1>0, <1>2, <1>4, Zenon DEF Derive, Probe
<1>10. Launch(k) \/ WaitForPID(k) \/ WaitForReady(k) => SameCall(k)
  BY <1>0, <1>2, Zenon DEF Launch, WaitForPID, WaitForReady
<1>11. Unmark(k) \/ StopContinue(k) \/ StopShutdown(k) \/ Clean(k) => SameCall(k)
  BY <1>0, <1>2, <1>3, Zenon DEF Unmark, StopContinue, StopShutdown, Clean
<1>12. Terminate(k) => SameCall(k) \/ call'[k] = Idle
  BY <1>0, <1>2, <1>3, Zenon DEF Terminate
<1>13. Freeze(k) \/ MarkSuspended(k) \/ Thaw(k) \/ Thawed(k) => SameCall(k)
  BY <1>0, <1>2, Zenon DEF Freeze, MarkSuspended, Thaw, Thawed
<1>14. RemoveDir(k) => SameCall(k)
  BY <1>0, <1>2, Zenon DEF RemoveDir, QB!May
<1> QED BY <1>5, <1>6, <1>7, <1>8, <1>9, <1>10, <1>11, <1>12, <1>13, <1>14, Zenon DEF Step, SameCall

(* A new call sees the guest it is made of.                                *)
LEMMA BeginSees ==
    ASSUME HostOK, NEW k \in Callers, Begin(k)
    PROVE  Sees(call'[k], Guest', marker')
<1>1. PICK op \in Ops : (op = "create" => Guest = "none") /\ call' = [call EXCEPT ![k] = Fresh(op)]
  BY Zenon DEF Begin
<1>2. Guest' = Guest
  BY SameGuest, Zenon DEF Begin, Live
<1>3. call'[k] = Fresh(op) /\ op \in AllOps
  BY <1>1, ProcessAssumption, Zenon DEF HostOK
<1>4. /\ call'[k].op = op /\ call'[k].from = Guest
      /\ call'[k].pc = IF op = "create" THEN "layout" ELSE "live"
      /\ call'[k].then = IF op = "suspend" THEN "freeze" ELSE IF op = "resume" THEN "thaw" ELSE "derive"
      /\ call'[k].after = IF op = "start" THEN "start"
                          ELSE IF op \in {"stop", "kill", "destroy"} THEN "stop" ELSE "inspect"
  BY <1>3, Zenon DEF Fresh, Idle
<1>5. CASE op = "create"
  BY <1>1, <1>2, <1>4, <1>5 DEF Sees, Looking
<1>6. CASE op # "create"
  <2>1. FirstLook(call'[k], Guest)
    BY <1>3, <1>4, <1>6, Zenon DEF FirstLook, AllOps, Stopping
  <2> QED BY <1>2, <1>4, <1>6, <2>1, Zenon DEF Sees
<1> QED BY <1>5, <1>6, Zenon

(* No step leaves a pid file where there are no disks.                     *)
LEMMA FileStep ==
    ASSUME NEW k, Callers = {k}, Inv, NoStrayFile, Next
    PROVE  NoStrayFile'
<1>1. CASE UNCHANGED <<disks, pidfile>> \/ pidfile' = 0 \/ disks' \in {"some", "all"}
  BY <1>1, Zenon DEF NoStrayFile
<1>2. CASE Looked /\ disks' = disks
  BY <1>2, Zenon DEF NoStrayFile, Looked
<1>3. CASE Launch(k)
  BY <1>3, Zenon DEF NoStrayFile, Launch
<1>4. CASE CreateLayout(k) \/ CreateDisks(k)
  <2>1. CASE CreateLayout(k)
    BY <1>1, <2>1, Zenon DEF CreateLayout
  <2>2. CASE CreateDisks(k)
    <3>1. disks = "none" /\ pidfile' = pidfile
      BY <2>2, Zenon DEF CreateDisks, At, Inv, PidInHand
    <3> QED BY <3>1, Zenon DEF NoStrayFile
  <2> QED BY <1>4, <2>1, <2>2, Zenon
<1>5. CASE LiveForget(k) \/ Clean(k) \/ RemoveDir(k)
  BY <1>1, <1>5, Zenon DEF LiveForget, Clean, RemoveDir
<1>6. CASE Probe(k) \/ WaitForReady(k)
  BY <1>2, <1>6, Zenon DEF Probe, WaitForReady
<1>7. CASE \/ Begin(k) \/ LiveRead(k) \/ LiveCheck(k) \/ LiveError(k) \/ FoundNone(k) \/ FoundOne(k) \/ Derive(k)
           \/ WaitForPID(k) \/ Unmark(k) \/ StopContinue(k) \/ StopShutdown(k) \/ Terminate(k)
           \/ Freeze(k) \/ MarkSuspended(k) \/ Thaw(k) \/ Thawed(k) \/ GuestExit \/ PidReuse \/ Crash
  <2>1. UNCHANGED <<disks, pidfile>>
    BY <1>7, Zenon DEF Begin, LiveRead, LiveCheck, LiveError, FoundNone, FoundOne, Derive, WaitForPID, Unmark,
                StopContinue, StopShutdown, Terminate, Freeze, MarkSuspended, Thaw, Thawed,
                GuestExit, PidReuse, Crash
  <2> QED BY <1>1, <2>1, Zenon
<1> QED BY <1>3, <1>4, <1>5, <1>6, <1>7, Zenon DEF Next, Step

(* Every step of the call, and everything the host does, keeps what the    *)
(* call knows true as long as the guest does not exit.                     *)
LEMMA SeesStep ==
    ASSUME NEW k, Callers = {k}, Fault("runtime"), Fault("probe"), Inv, CallsSee, Next
    PROVE  CallsSee'
<1>0. k \in Callers /\ HostOK /\ FileIsTrue /\ NoStrayFile /\ PidInHand(k) /\ call[k] \in CallRec
  BY Zenon DEF Inv, CallsSee, HostOK
<1>1. NoStrayFile'
  BY <1>0, FileStep, Zenon
<1>i. \A g, m : Sees(Idle, g, m)
  BY Zenon DEF Sees, Idle, Looking
<1>2. ASSUME ~call'[k].exit PROVE Sees(call'[k], Guest', marker')
  <2>1. CASE Step(k) /\ (Begin(k) \/ call'[k] = Idle)
    BY <1>0, <1>i, <2>1, BeginSees, Zenon
  <2>2. CASE Step(k) /\ ~Begin(k) /\ call'[k].exit = call[k].exit
    <3>1. Knows(k)
      BY <1>0, <1>2, <2>2, Zenon DEF Knows, CallsSee
    <3> QED BY <2>2, <3>1, LookSees, FoundSees, StartSees, StopSees, RestSees, Zenon DEF Step
  <2>3. CASE GuestExit
    <3>1. call'[k] = [call[k] EXCEPT !.exit = TRUE]
      BY <1>0, <2>3, Zenon DEF GuestExit
    <3>2. call'[k].exit
      BY <1>0, <3>1, Zenon DEF CallRec
    <3> QED BY <1>2, <3>2, Zenon
  <2>4. CASE PidReuse
    <3>1. Live' = Live
      BY <1>0, <2>4, Zenon DEF PidReuse, HostOK, Live
    <3>2. Guest' = Guest /\ call' = call /\ marker' = marker
      BY <2>4, <3>1, SameGuest, Zenon DEF PidReuse
    <3> QED BY <1>0, <1>2, <3>2, Zenon DEF CallsSee
  <2>5. CASE Crash
    BY <1>0, <1>i, <2>5, Zenon DEF Crash
  <2> QED BY <1>0, <2>1, <2>2, <2>3, <2>4, <2>5, ExitStays, Zenon DEF Next
<1> QED BY <1>1, <1>2, Zenon DEF CallsSee

(* A call the guest does not exit during leaves the guest in one of the    *)
(* states, and reports one of the statuses, of the abstract backend the    *)
(* service is modelled with, whatever earlier calls, failures and crashes  *)
(* left behind and whether or not processes can be looked up and killed:   *)
(* every call of the QEMU runtime, one at a time, on a host where          *)
(* launches, signals, file operations and probes may fail.                 *)
THEOREM OutcomesAreContractHolds ==
    ASSUME NEW k, Callers = {k}, {"runtime", "probe"} \subseteq Faults
    PROVE  Spec => []OutcomesAreContract
<1>0. Fault("runtime") /\ Fault("probe")
  BY Zenon DEF Fault
<1>1. Init => Inv /\ CallsSee
  <2>1. Init => Inv
    BY CallTypes, Zenon DEF Init, Inv, HostOK, ProcessIsTracked, FileIsTrue, PidInHand, StopIsTrue, Live, Holding
  <2>2. \A g, m : Sees(Idle, g, m)
    BY Zenon DEF Sees, Idle, Looking
  <2>3. Init => CallsSee
    BY <2>2, Zenon DEF Init, CallsSee, NoStrayFile
  <2> QED BY <2>1, <2>3, Zenon
<1>2. Inv /\ CallsSee /\ [Next]_vars => (Inv /\ CallsSee)'
  <2>1. ASSUME Inv, CallsSee, Next PROVE Inv' /\ CallsSee'
    BY <1>0, <2>1, CallStep, HostStep, SeesStep, Zenon DEF Next
  <2>2. ASSUME Inv, CallsSee, UNCHANGED vars PROVE Inv' /\ CallsSee'
    <3>1. Live' = Live
      BY <2>2, Zenon DEF vars, Live
    <3>2. Guest' = Guest
      BY <2>2, <3>1, SameGuest, Zenon DEF vars
    <3> QED BY <2>2, <3>1, <3>2, Zenon DEF vars, Inv, HostOK, ProcessIsTracked, FileIsTrue, PidInHand,
                                            StopIsTrue, NoneLeft, CallsSee, NoStrayFile
  <2> QED BY <2>1, <2>2, Zenon
<1>3. CallsSee => OutcomesAreContract
  BY Zenon DEF CallsSee, OutcomesAreContract, Sees
<1> QED BY <1>1, <1>2, <1>3, PTL DEF Spec

=============================================================================
