----------------------- MODULE SandboxLifecycleProofs -----------------------
(***************************************************************************)
(* The quotas and limits of the sandbox lifecycle, and its rows against    *)
(* the guests on the host, for any number of sandboxes, tenants, requests  *)
(* and crashes, with the reconcile ticker running.  Each step of a request *)
(* moves that request alone, changes at most the row and the guest of its  *)
(* own sandbox, and leaves the handler at a step whose assumptions on the  *)
(* row hold as far as it still relies on any: it does when clients do not  *)
(* overlap calls on one sandbox (Serial) and no reconcile write overlapped *)
(* it (raced).  The control invariant is inductive on these terms, without *)
(* an assumption of its own; what the theorems assume is stated with them. *)
(***************************************************************************)
EXTENDS SandboxLifecycle, TLAPS

(* The requests.                                                           *)
ReqRec == [op : AllOps, sb : Sandboxes, pc : Pcs, st : RowStatus]

(* The status a row has between the reservation and the final write.       *)
MarkedStatus(op) ==
    IF op = "create" THEN "creating"
    ELSE IF op \in {"createStart", "start", "resume"} THEN "starting"
    ELSE IF op = "suspend" THEN "suspending" ELSE "stopping"

(* A row that exists, and that a serial client may work on.                *)
Alive(w) == w # "absent" /\ (Serial => w # "deleted")

(* What a handler at some step knows of its operation and the status it    *)
(* will write, and, when k says that nobody else wrote the row while it is *)
(* in flight, of the row.                                                  *)
Knows(op, pc, st, w, k) ==
    /\ pc \in {"lock", "admit", "reserve"} =>
         /\ op \in {"create", "createStart", "start", "resume"}
         /\ k => /\ op = "start" => w = "stopped"
                 /\ op = "resume" => w = "suspended"
    /\ pc = "rtcreate" => IsCreate(op) /\ (k => w = MarkedStatus(op))
    /\ pc = "runtime" => op \notin {"create", "touch"} /\ (k => w = MarkedStatus(op))
    /\ pc = "persist" => /\ op # "touch" /\ st = FinalStatus(op)
                         /\ k => w = MarkedStatus(op)
    /\ pc = "persisterr" => ~IsCreate(op) /\ (k => w \in Transitional)
    /\ pc = "finish" => op # "touch" /\ (k => w = FinalStatus(op))
    /\ pc \in {"rollback", "rollbackwrite"} =>
         IsCreate(op) /\ (k => w \in {"creating", "starting", "stopped", "running"})
    /\ pc = "rollbackwrite" => st \in {"deleted", "error"}
    /\ pc \in {"get", "mark"} =>
         /\ op \in {"stop", "suspend", "touch", "delete"}
         /\ k => w \in {"running", "suspended"} /\ (op = "suspend" => w = "running")
    /\ pc = "mark" => op # "touch"
    /\ pc = "touch" => op = "touch" /\ Alive(st) /\ (k => st = w)
    /\ pc \in {"delget", "delmark"} => op = "delete"
    /\ pc \in {"destroy", "rmstorage", "delpersist"} => op = "delete" /\ (k => w = "deleting")

(* The steps that hold the lock, and those before the insert of a create.  *)
Holding == {"admit", "reserve"}
Early == {"lock", "admit", "reserve"}

(* The row a handler works on: a create inserts it, the others found it.   *)
Stands(op, pc, w) ==
    IF IsCreate(op) /\ pc \in Early THEN Serial => w = "absent" ELSE Alive(w)

(* Nobody but its handler wrote the row of s while that was in flight:     *)
(* clients are serial, and no pass overlapped it.                          *)
Known(s) == Serial /\ s \notin raced

(* The handler of r knows what it relies on.                               *)
HandlerOK(r) ==
    /\ Knows(req[r].op, req[r].pc, req[r].st, row[req[r].sb], Known(req[r].sb))
    /\ InFlight(r) => Stands(req[r].op, req[r].pc, row[req[r].sb])

(* Requests of serial clients in flight are about different sandboxes.     *)
Apart ==
    Serial => \A q, r \in Requests : InFlight(q) /\ InFlight(r) /\ req[q].sb = req[r].sb => q = r

(* The lock is held between the quota check and the insert.                *)
LockInv ==
    /\ \A r \in Requests : r \in admissionMu <=> req[r].pc \in {"admit", "reserve"}
    /\ \A q, r \in admissionMu : q = r

(* The statuses a pass may read from the backend.                          *)
Seen == {"stopped", "suspended", "running", "error", "booting", "degraded", "err"}

(* A pass works on rows that exist; the first one runs before the daemon   *)
(* serves; and overlap says whether a request came in between.             *)
PassInv ==
    /\ rec.boot => rec.pc # "idle" /\ \A r \in Requests : ~InFlight(r)
    /\ \A s \in rec.todo : row[s] # "absent"
    /\ rec.pc \in {"idle", "list"} => rec.todo = {}
    /\ rec.pc = "write" =>
         /\ row[rec.sb] # "absent" /\ rec.sb \notin rec.todo /\ rec.st \in Seen
         /\ ~overlap => ~Busy(rec.sb)

(* The control invariant.                                                  *)
ControlInv ==
    /\ TypeOK
    /\ Apart
    /\ LockInv
    /\ PassInv
    /\ \A r \in Requests : HandlerOK(r)

-----------------------------------------------------------------------------
(* The operators that are given by cases.                                  *)

(* Where the handler of an operation begins.                               *)
LEMMA EntryPcs ==
    ASSUME NEW op \in AllOps
    PROVE  EntryPc(op) = IF op \in {"create", "createStart", "start", "resume"} THEN "lock"
                         ELSE IF op = "delete" THEN "delget" ELSE "get"
BY Zenon DEF EntryPc, AllOps

(* The status a handler persists when its runtime call succeeded.          *)
LEMMA FinalStatuses ==
    ASSUME NEW op
    PROVE  FinalStatus(op) = IF op \in {"createStart", "start", "resume"} THEN "running"
                             ELSE IF op = "suspend" THEN "suspended" ELSE "stopped"
BY Zenon DEF FinalStatus

(* The status a client that follows the documentation starts from.         *)
LEMMA ExpectedStatuses ==
    ASSUME NEW op \in AllOps \ {"create", "createStart"}, NEW st \in ExpectedStatus(op)
    PROVE  /\ st \in Status \ {"deleted"}
           /\ op = "start" => st = "stopped"
           /\ op = "resume" => st = "suspended"
           /\ op \in {"stop", "suspend", "touch"} => st = "running"
BY Zenon DEF ExpectedStatus, AllOps, Status

-----------------------------------------------------------------------------
(* How a request moves.                                                    *)

(* Request r is at p with st to write; the others have not moved.          *)
ReqMoved(r, p, st) ==
    /\ req' \in [Requests -> ReqRec]
    /\ \A q \in Requests : q # r => req'[q] = req[q]
    /\ req'[r].op = req[r].op /\ req'[r].sb = req[r].sb /\ req'[r].pc = p /\ req'[r].st = st

(* What it knows while it reserves, and until the backend has answered.    *)
LEMMA KnowsStarting ==
    ASSUME NEW op, NEW st, NEW w, NEW k
    PROVE  /\ \A pc \in Early :
                Knows(op, pc, st, w, k) <=>
                  /\ op \in {"create", "createStart", "start", "resume"}
                  /\ k => /\ op = "start" => w = "stopped"
                          /\ op = "resume" => w = "suspended"
           /\ Knows(op, "rtcreate", st, w, k) <=> IsCreate(op) /\ (k => w = MarkedStatus(op))
           /\ Knows(op, "runtime", st, w, k)
                <=> op \notin {"create", "touch"} /\ (k => w = MarkedStatus(op))
BY Zenon DEF Knows, Early

(* What it knows while it records the answer.                              *)
LEMMA KnowsOutcome ==
    ASSUME NEW op, NEW st, NEW w, NEW k
    PROVE  /\ Knows(op, "persist", st, w, k)
                <=> op # "touch" /\ st = FinalStatus(op) /\ (k => w = MarkedStatus(op))
           /\ Knows(op, "persisterr", st, w, k) <=> ~IsCreate(op) /\ (k => w \in Transitional)
           /\ Knows(op, "finish", st, w, k) <=> op # "touch" /\ (k => w = FinalStatus(op))
BY Zenon DEF Knows

(* What it knows while it rolls a create back.                             *)
LEMMA KnowsRollback ==
    ASSUME NEW op, NEW st, NEW w, NEW k
    PROVE  /\ Knows(op, "rollback", st, w, k)
                <=> IsCreate(op) /\ (k => w \in {"creating", "starting", "stopped", "running"})
           /\ Knows(op, "rollbackwrite", st, w, k)
                <=> Knows(op, "rollback", st, w, k) /\ st \in {"deleted", "error"}
BY Zenon DEF Knows

(* What it knows of a sandbox that runs.                                   *)
LEMMA KnowsRunning ==
    ASSUME NEW op, NEW st, NEW w, NEW k
    PROVE  /\ Knows(op, "get", st, w, k)
                <=> /\ op \in {"stop", "suspend", "touch", "delete"}
                    /\ k => w \in {"running", "suspended"} /\ (op = "suspend" => w = "running")
           /\ Knows(op, "mark", st, w, k) <=> Knows(op, "get", st, w, k) /\ op # "touch"
           /\ Knows(op, "touch", st, w, k) <=> op = "touch" /\ Alive(st) /\ (k => st = w)
BY Zenon DEF Knows

(* What a delete knows.                                                    *)
LEMMA KnowsDelete ==
    ASSUME NEW op, NEW st, NEW w, NEW k
    PROVE  /\ \A pc \in {"delget", "delmark"} : Knows(op, pc, st, w, k) <=> op = "delete"
           /\ \A pc \in {"destroy", "rmstorage", "delpersist"} :
                Knows(op, pc, st, w, k) <=> op = "delete" /\ (k => w = "deleting")
BY Zenon DEF Knows

(* What a handler knows that has not begun, or is over.                    *)
LEMMA KnowsNothing ==
    ASSUME NEW op, NEW st, NEW w, NEW k, NEW pc \in Final \cup {"idle"}
    PROVE  Knows(op, pc, st, w, k)
BY Zenon DEF Knows, Final

(* What the handler knows after such a step.                               *)
LEMMA NowKnows ==
    ASSUME NEW r \in Requests, NEW p, NEW st, ReqMoved(r, p, st), raced' = raced
    PROVE  HandlerOK(r)' <=>
             /\ Knows(req[r].op, p, st, row'[req[r].sb], Known(req[r].sb))
             /\ p \notin Final \cup {"idle"} => Stands(req[r].op, p, row'[req[r].sb])
<1>1. /\ req'[r].op = req[r].op /\ req'[r].sb = req[r].sb /\ req'[r].pc = p /\ req'[r].st = st
  BY Zenon DEF ReqMoved
<1>2. Known(req[r].sb)' = Known(req[r].sb)
  BY <1>1, Zenon DEF Known
<1> QED
  BY <1>1, <1>2, Zenon DEF HandlerOK, InFlight

(* Goto changes the step of one request.                                   *)
LEMMA GotoMoves ==
    ASSUME req \in [Requests -> ReqRec], NEW r \in Requests, NEW p \in Pcs, Goto(r, p)
    PROVE  ReqMoved(r, p, req[r].st)
<1>1. PICK o \in ReqRec : o = req[r]
  OBVIOUS
<1>2. req' = [req EXCEPT ![r] = [op |-> o.op, sb |-> o.sb, pc |-> p, st |-> o.st]]
  <2>1. req' = [req EXCEPT ![r] = [o EXCEPT !.pc = p]]
    BY <1>1, Zenon DEF Goto
  <2>2. [o EXCEPT !.pc = p] = [op |-> o.op, sb |-> o.sb, pc |-> p, st |-> o.st]
    BY DEF ReqRec
  <2> QED
    BY <2>1, <2>2, Zenon
<1>3. [op |-> o.op, sb |-> o.sb, pc |-> p, st |-> o.st] \in ReqRec
  BY <1>1, Zenon DEF ReqRec
<1> QED
  BY <1>1, <1>2, <1>3, Zenon DEF ReqMoved

(* GotoWith also replaces the status it will write.                        *)
LEMMA GotoWithMoves ==
    ASSUME req \in [Requests -> ReqRec], NEW r \in Requests, NEW p \in Pcs, NEW st \in RowStatus,
           GotoWith(r, p, st)
    PROVE  ReqMoved(r, p, st)
<1>1. PICK o \in ReqRec : o = req[r]
  OBVIOUS
<1>2. req' = [req EXCEPT ![r] = [op |-> o.op, sb |-> o.sb, pc |-> p, st |-> st]]
  <2> DEFINE n == [op |-> o.op, sb |-> o.sb, pc |-> p, st |-> o.st]
             f == [req EXCEPT ![r] = n]
  <2>1. [o EXCEPT !.pc = p] = n
    BY DEF ReqRec
  <2>2. [req EXCEPT ![r].pc = p] = f
    BY <1>1, <2>1, Zenon
  <2>3. req' = [f EXCEPT ![r].st = st]
    BY <2>2, Zenon DEF GotoWith
  <2>4. f[r] = n
    OBVIOUS
  <2>5. [n EXCEPT !.st = st] = [op |-> o.op, sb |-> o.sb, pc |-> p, st |-> st]
    OBVIOUS
  <2>6. req' = [f EXCEPT ![r] = [n EXCEPT !.st = st]]
    <3> HIDE DEF n, f
    <3> QED
      BY <2>3, <2>4, Zenon
  <2> QED
    BY <2>5, <2>6, Zenon
<1>3. [op |-> o.op, sb |-> o.sb, pc |-> p, st |-> st] \in ReqRec
  BY <1>1, Zenon DEF ReqRec
<1> QED
  BY <1>1, <1>2, <1>3, Zenon DEF ReqMoved

(* Return drops it.                                                        *)
LEMMA ReturnMoves ==
    ASSUME req \in [Requests -> ReqRec], NEW r \in Requests, NEW p \in Final, Return(r, p)
    PROVE  ReqMoved(r, p, "absent")
<1>1. p \in Pcs /\ "absent" \in RowStatus
  BY Zenon DEF Final, Pcs, RowStatus
<1>2. GotoWith(r, p, "absent")
  BY Zenon DEF Return, GotoWith
<1> QED
  BY <1>1, <1>2, GotoWithMoves, Zenon

-----------------------------------------------------------------------------
(* What the backend may do, from QemuBackend.                              *)

(* An inspection reports no status but these.                              *)
LEMMA InspectOutcomes ==
    ASSUME NEW g \in Rt!Guests, NEW st \in Rt!Inspect(g)
    PROVE  st \in Seen /\ Says(st, g)
BY DEF Seen, Rt!Inspect, Rt!Derived, Rt!LookupFails, Rt!NoProcess, Rt!May, Rt!Guests, Rt!LiveGuests, Says

(* A create that succeeds leaves a guest without a process.                *)
LEMMA CreateOutcomes ==
    ASSUME NEW g \in Rt!Guests, NEW out \in Rt!Create(g)
    PROVE  /\ out[1] \in {g, "stopped"} /\ out[1] \in Rt!Guests
           /\ out[2] # "err" => out[1] = "stopped"
BY DEF Rt!Create, Rt!May, Rt!Guests

(* A destroy that succeeds leaves nothing but a process it could not kill. *)
LEMMA DestroyOutcomes ==
    ASSUME NEW g \in Rt!Guests, NEW out \in Rt!Destroy(g)
    PROVE  /\ out[1] \in Rt!Guests
           /\ "stop" \notin Faults /\ g # "leaked" => out[1] # "leaked"
           /\ out[2] = "ok" => out[1] \in {"none", "leaked"}
BY DEF Rt!Destroy, Rt!May, Rt!NoProcess, Rt!Guests, Rt!LiveGuests

(* A call that succeeds leaves what the handler will persist, provided a   *)
(* resume or suspend met a process.                                        *)
LEMMA CallOutcomes ==
    ASSUME NEW g \in Rt!Guests, NEW op \in AllOps \ {"create", "touch"},
           NEW out \in RuntimeCall(op, g)
    PROVE  /\ out[1] \in Rt!Guests
           /\ g # "leaked" => out[1] # "leaked"
           /\ "stop" \notin Faults /\ out[2] # "err"
              /\ (op \in {"resume", "suspend"} => g \in {"running", "suspended"})
                => Says(FinalStatus(op), out[1])
<1>1. CASE op \in {"createStart", "start"}
  <2>1. RuntimeCall(op, g) = Rt!Start(g)
    BY <1>1, Zenon DEF RuntimeCall
  <2> QED
    BY <1>1, <2>1, FinalStatuses DEF Rt!Start, Rt!Inspect, Rt!Derived, Rt!LookupFails, Rt!NoProcess,
       Rt!May, Rt!Guests, Says
<1>2. CASE op = "resume"
  <2>1. RuntimeCall(op, g) = Rt!Resume(g)
    BY <1>2, Zenon DEF RuntimeCall
  <2> QED
    BY <1>2, <2>1, FinalStatuses DEF Rt!Resume, Rt!Inspect, Rt!Derived, Rt!LookupFails, Rt!NoProcess,
       Rt!May, Rt!Guests, Says
<1>3. CASE op = "suspend"
  <2>1. RuntimeCall(op, g) = Rt!Suspend(g)
    BY <1>3, Zenon DEF RuntimeCall
  <2> QED
    BY <1>3, <2>1, FinalStatuses DEF Rt!Suspend, Rt!LookupFails, Rt!NoProcess, Rt!May, Rt!Guests, Says
<1>4. CASE op \in {"stop", "delete"}
  <2>1. RuntimeCall(op, g) = Rt!Stop(g)
    BY <1>4, Zenon DEF RuntimeCall
  <2> QED
    BY <1>4, <2>1, FinalStatuses DEF Rt!Stop, Rt!LookupFails, Rt!NoProcess, Rt!May, Rt!Guests,
       Rt!LiveGuests, Says
<1> QED
  BY <1>1, <1>2, <1>3, <1>4, Zenon DEF AllOps

-----------------------------------------------------------------------------
(* A step of a handler moves that handler, and changes at most the row and *)
(* the guest of its own sandbox.                                           *)

(* The rows and guests of other sandboxes, the pass and the crashes are as *)
(* they were.                                                              *)
Framed(r) ==
    /\ row' \in [Sandboxes -> RowStatus]
    /\ guest' \in [Sandboxes -> Rt!Guests]
    /\ \A s \in Sandboxes : s # req[r].sb => row'[s] = row[s] /\ guest'[s] = guest[s]
    /\ row'[req[r].sb] = row[req[r].sb] \/ row'[req[r].sb] # "absent"
    /\ UNCHANGED <<rec, overlap, raced, crashes>>

(* It takes the lock only when nobody has it.                              *)
Locked(r, p) ==
    /\ admissionMu' = IF p \in Holding THEN admissionMu \cup {r} ELSE admissionMu \ {r}
    /\ p \in Holding => admissionMu \subseteq {r}

(* The step of a handler.                                                  *)
Moved(r) ==
    \E p \in Pcs \ {"idle"}, st \in RowStatus :
        ReqMoved(r, p, st) /\ Framed(r) /\ Locked(r, p) /\ HandlerOK(r)'

(* Holding the lock is being in the critical section, alone.               *)
LEMMA Lockers ==
    ASSUME ControlInv, NEW r \in Requests
    PROVE  /\ req \in [Requests -> ReqRec] /\ req[r] \in ReqRec
           /\ req[r].op \in AllOps /\ req[r].sb \in Sandboxes /\ req[r].st \in RowStatus
           /\ row \in [Sandboxes -> RowStatus] /\ guest \in [Sandboxes -> Rt!Guests]
           /\ HandlerOK(r)
           /\ req[r].pc \in Holding => admissionMu = {r}
           /\ req[r].pc \notin Holding => admissionMu \ {r} = admissionMu
<1> req \in [Requests -> ReqRec] /\ admissionMu \subseteq Requests
  BY Zenon DEF ControlInv, TypeOK, ReqRec
<1>2. req[r] \in ReqRec
  OBVIOUS
<1>3. req[r].op \in AllOps /\ req[r].sb \in Sandboxes /\ req[r].st \in RowStatus
  BY <1>2, Zenon DEF ReqRec
<1>4. /\ req[r].pc \in Holding => admissionMu = {r}
      /\ req[r].pc \notin Holding => admissionMu \ {r} = admissionMu
  BY Zenon DEF ControlInv, LockInv, Holding
<1> QED
  BY <1>2, <1>3, <1>4, Zenon DEF ControlInv, TypeOK

(* What the handler knows, and that its row stands.                        *)
LEMMA Relies ==
    ASSUME ControlInv, NEW r \in Requests
    PROVE  /\ Knows(req[r].op, req[r].pc, req[r].st, row[req[r].sb], Known(req[r].sb))
           /\ req[r].pc \notin Final \cup {"idle"} =>
                Stands(req[r].op, req[r].pc, row[req[r].sb])
BY Zenon DEF ControlInv, HandlerOK, InFlight

(* A step that leaves rows and guests alone.                               *)
LEMMA Untouched ==
    ASSUME ControlInv, NEW r \in Requests, UNCHANGED <<db, guest, pass, crashes>>
    PROVE  Framed(r) /\ row' = row
BY Lockers, Zenon DEF Framed, db, pass

(* A step that writes the row of the handler's sandbox.                    *)
LEMMA Wrote ==
    ASSUME ControlInv, NEW r \in Requests, NEW st \in Status,
           WriteRow(req[r].sb, st) \/ WriteReserved(req[r].sb, st), UNCHANGED <<guest, pass, crashes>>
    PROVE  Framed(r) /\ row'[req[r].sb] = st
<1>1. row' = [row EXCEPT ![req[r].sb] = st] /\ UNCHANGED <<guest, rec, overlap, raced, crashes>>
  BY Zenon DEF WriteRow, WriteReserved, pass
<1>2. st \in RowStatus /\ st # "absent"
  BY Zenon DEF RowStatus, Status
<1> QED
  BY <1>1, <1>2, Lockers, Zenon DEF Framed

(* A handler that returns knows nothing more.                              *)
LEMMA Returned ==
    ASSUME ControlInv, NEW r \in Requests, NEW p \in Final, Return(r, p),
           Framed(r), admissionMu' = admissionMu \ {r}
    PROVE  Moved(r)
<1>1. ReqMoved(r, p, "absent")
  BY Lockers, ReturnMoves, Zenon
<1>2. Locked(r, p)
  BY Zenon DEF Locked, Holding, Final
<1>3. HandlerOK(r)'
  BY <1>1, NowKnows, KnowsNothing, Zenon DEF Framed
<1>4. p \in Pcs \ {"idle"} /\ "absent" \in RowStatus
  BY Zenon DEF Final, Pcs, RowStatus
<1> QED
  BY <1>1, <1>2, <1>3, <1>4, Zenon DEF Moved

(* The steps under the lock.                                               *)
LEMMA ReservationMoves ==
    ASSUME ControlInv, NEW r \in Requests,
           LockAndCheckQuota(r) \/ CheckAdmission(r) \/ Reserve(r)
    PROVE  Moved(r)
<1> DEFINE o == req[r]
           w == row[o.sb]
           k == Known(o.sb)
<1>1. ASSUME NEW p \in Holding, Goto(r, p), admissionMu' = {r}, admissionMu \subseteq {r},
             o.pc \in {"lock", "admit"}, UNCHANGED <<db, guest, pass, crashes>>
      PROVE  Moved(r)
  <2>1. p \in Pcs \ {"idle"} /\ p \in Early /\ o.pc \in Early /\ o.pc \notin Final \cup {"idle"}
    BY <1>1, Zenon DEF Holding, Early, Pcs, Final
  <2>2. ReqMoved(r, p, o.st)
    BY <1>1, <2>1, Lockers, GotoMoves, Zenon
  <2>3. Framed(r) /\ row' = row
    BY <1>1, Untouched, Zenon
  <2>4. Locked(r, p)
    BY <1>1, Zenon DEF Locked
  <2>5. Knows(o.op, p, o.st, w, k)
    BY <2>1, Relies, KnowsStarting DEF Early
  <2>6. Stands(o.op, p, w)
    BY <2>1, Relies, Zenon DEF Stands
  <2>7. HandlerOK(r)'
    BY <2>2, <2>3, <2>5, <2>6, NowKnows, Zenon DEF Framed
  <2> QED
    BY <2>1, <2>2, <2>3, <2>4, <2>7, Lockers, Zenon DEF Moved
<1>2. ASSUME Return(r, "err"), admissionMu' = admissionMu \ {r}, Framed(r)
      PROVE  Moved(r)
  BY <1>2, Returned, Zenon DEF Final
<1>3. CASE LockAndCheckQuota(r)
  <2>1. /\ o.pc = "lock" /\ admissionMu = {} /\ UNCHANGED <<db, guest, pass, crashes>>
        /\ \/ Goto(r, "admit") /\ admissionMu' = {r}
           \/ Return(r, "err") /\ admissionMu' = admissionMu
    BY <1>3, Zenon DEF LockAndCheckQuota
  <2> QED
    BY <1>1, <1>2, <2>1, Untouched, Zenon DEF Holding
<1>4. CASE CheckAdmission(r)
  <2>1. /\ o.pc = "admit" /\ UNCHANGED <<db, guest, pass, crashes>>
        /\ \/ Goto(r, "reserve") /\ admissionMu' = admissionMu
           \/ Return(r, "err") /\ admissionMu' = admissionMu \ {r}
    BY <1>4, Zenon DEF CheckAdmission
  <2>2. admissionMu = {r}
    BY <2>1, Lockers, Zenon DEF Holding
  <2> QED
    BY <1>1, <1>2, <2>1, <2>2, Untouched, Zenon DEF Holding
<1>5. CASE Reserve(r)
  <2> o.pc = "reserve" /\ admissionMu' = admissionMu \ {r} /\ UNCHANGED <<guest, pass, crashes>>
    BY <1>5, Zenon DEF Reserve
  <2>2. ASSUME WriteReserved(o.sb, ReservedStatus(o.op)),
               Goto(r, IF IsCreate(o.op) THEN "rtcreate" ELSE "runtime")
        PROVE  Moved(r)
    <3> DEFINE p == IF IsCreate(o.op) THEN "rtcreate" ELSE "runtime"
               new == ReservedStatus(o.op)
    <3> p \in Pcs \ {"idle"} /\ p \notin Holding /\ p \notin Early
      BY Zenon DEF Pcs, Holding, Early
    <3>2. ReqMoved(r, p, o.st)
      BY <2>2, Lockers, GotoMoves, Zenon
    <3>3. new \in Status /\ Alive(new)
      BY Zenon DEF ReservedStatus, Status, Alive
    <3>4. Framed(r) /\ row'[o.sb] = new
      BY <2>2, <3>3, Wrote, Zenon
    <3>5. o.op \in {"create", "createStart", "start", "resume"}
      BY Relies, KnowsStarting DEF Early
    <3>6. new = MarkedStatus(o.op)
      BY <3>5, Zenon DEF ReservedStatus, MarkedStatus
    <3>7. Knows(o.op, p, o.st, new, k)
      BY <3>5, <3>6, KnowsStarting DEF IsCreate
    <3>8. Stands(o.op, p, new)
      BY <3>3, Zenon DEF Stands
    <3> HIDE DEF p, new
    <3>9. HandlerOK(r)'
      <4>1. raced' = raced
        BY <3>4, Zenon DEF Framed
      <4> QED
        BY <3>2, <3>4, <3>7, <3>8, <4>1, NowKnows, Zenon
    <3>10. Locked(r, p)
      BY Zenon DEF Locked
    <3> QED
      BY <3>2, <3>4, <3>9, <3>10, Lockers, Zenon DEF Moved
  <2>3. ASSUME StoreFails(r) PROVE Moved(r)
    <3>1. UNCHANGED <<db, guest, pass, crashes>> /\ Return(r, "err")
      BY <2>3, Zenon DEF StoreFails, WriteLost
    <3> QED
      BY <1>2, <3>1, Untouched, Zenon
  <2> QED
    BY <1>5, <2>2, <2>3, Zenon DEF Reserve
<1> QED
  BY <1>3, <1>4, <1>5, Zenon

(* The steps of a handler that runs without the lock.                      *)
Later == {"rtcreate", "runtime", "persist", "persisterr", "finish", "rollback", "rollbackwrite", "get",
          "mark", "touch", "delget", "delmark", "destroy", "rmstorage", "delpersist"}

(* At these the row of the sandbox exists.                                 *)
LEMMA LaterPcs ==
    /\ \A p \in Later : /\ p \in Pcs \ {"idle"}
                        /\ p \notin Holding /\ p \notin Early /\ p \notin Final \cup {"idle"}
    /\ \A op, w : \A p \in Later : Stands(op, p, w) <=> Alive(w)
<1>1. \A p \in Later : /\ p \in Pcs \ {"idle"}
                       /\ p \notin Holding /\ p \notin Early /\ p \notin Final \cup {"idle"}
  BY Zenon DEF Later, Pcs, Holding, Early, Final
<1> QED
  BY <1>1, Zenon DEF Stands

(* Such a handler goes on,                                                 *)
LEMMA GoesOnWith ==
    ASSUME ControlInv, NEW r \in Requests, NEW p \in Later, NEW st \in RowStatus,
           GotoWith(r, p, st) \/ (Goto(r, p) /\ st = req[r].st),
           req[r].pc \in Later, admissionMu' = admissionMu, Framed(r),
           row'[req[r].sb] = row[req[r].sb] \/ Alive(row'[req[r].sb]),
           Knows(req[r].op, p, st, row'[req[r].sb], Known(req[r].sb))
    PROVE  Moved(r)
<1>1. p \in Pcs \ {"idle"} /\ p \notin Holding /\ req[r].pc \notin Holding
  BY LaterPcs, Zenon
<1>2. ReqMoved(r, p, st)
  BY <1>1, Lockers, GotoMoves, GotoWithMoves
<1>3. Locked(r, p)
  BY <1>1, Lockers, Zenon DEF Locked
<1>4. Alive(row'[req[r].sb])
  BY LaterPcs, Relies, Zenon
<1>5. HandlerOK(r)'
  BY <1>2, <1>4, LaterPcs, NowKnows, Zenon DEF Framed
<1> QED
  BY <1>1, <1>2, <1>3, <1>5, Zenon DEF Moved

(* with the status it had,                                                 *)
LEMMA GoesOn ==
    ASSUME ControlInv, NEW r \in Requests, NEW p \in Later, Goto(r, p),
           req[r].pc \in Later, admissionMu' = admissionMu, Framed(r),
           row'[req[r].sb] = row[req[r].sb] \/ Alive(row'[req[r].sb]),
           Knows(req[r].op, p, req[r].st, row'[req[r].sb], Known(req[r].sb))
    PROVE  Moved(r)
BY Lockers, GoesOnWith, Zenon

(* or returns.                                                             *)
LEMMA Left ==
    ASSUME ControlInv, NEW r \in Requests, NEW p \in Final, Return(r, p), Framed(r),
           req[r].pc \in Later, admissionMu' = admissionMu
    PROVE  Moved(r)
<1>1. admissionMu' = admissionMu \ {r}
  BY Lockers, LaterPcs, Zenon
<1> QED
  BY <1>1, Returned, Zenon

(* A backend call changes the guest of the handler's sandbox.              *)
LEMMA Called ==
    ASSUME ControlInv, NEW r \in Requests, NEW g \in Rt!Guests,
           guest' = [guest EXCEPT ![req[r].sb] = g], UNCHANGED <<db, pass, crashes>>
    PROVE  Framed(r) /\ row'[req[r].sb] = row[req[r].sb]
BY Lockers, Zenon DEF Framed, db, pass

(* The steps that call the backend.                                        *)
LEMMA RuntimeMoves ==
    ASSUME ControlInv, NEW r \in Requests,
           RuntimeCreate(r) \/ RuntimeStep(r) \/ Rollback(r) \/ DeleteDestroy(r)
    PROVE  Moved(r)
<1> DEFINE o == req[r]
           w == row[o.sb]
           k == Known(o.sb)
<1> guest[o.sb] \in Rt!Guests /\ o.op \in AllOps
  BY Lockers, Zenon
<1> Knows(o.op, o.pc, o.st, w, k) /\ (o.pc \in Later => Alive(w))
  BY Relies, LaterPcs, Zenon
<1>1. CASE RuntimeCreate(r)
  <2>1. o.pc = "rtcreate" /\ UNCHANGED <<db, admissionMu, pass, crashes>>
    BY <1>1, Zenon DEF RuntimeCreate
  <2>2. PICK out \in Rt!Create(guest[o.sb]) :
          /\ guest' = [guest EXCEPT ![o.sb] = out[1]]
          /\ \/ Goto(r, "rollback")
             \/ o.op = "createStart" /\ Goto(r, "runtime")
             \/ o.op # "createStart" /\ GotoWith(r, "persist", "stopped")
    BY <1>1, Zenon DEF RuntimeCreate
  <2>3. Framed(r) /\ row'[o.sb] = w
    BY <2>1, <2>2, Called, CreateOutcomes, Zenon
  <2>4. o.op \in {"create", "createStart"} /\ (k => w = MarkedStatus(o.op))
    BY <2>1, KnowsStarting DEF IsCreate
  <2>5. /\ Knows(o.op, "rollback", o.st, w, k)
        /\ o.op = "createStart" => Knows(o.op, "runtime", o.st, w, k)
        /\ o.op # "createStart" => Knows(o.op, "persist", "stopped", w, k)
    BY <2>4, FinalStatuses, KnowsStarting, KnowsOutcome, KnowsRollback DEF IsCreate, MarkedStatus
  <2>6. "stopped" \in RowStatus
    BY Zenon DEF RowStatus, Status
  <2> QED
    BY <2>1, <2>2, <2>3, <2>5, <2>6, GoesOn, GoesOnWith, Zenon DEF Later
<1>2. CASE RuntimeStep(r)
  <2>1. o.pc = "runtime" /\ UNCHANGED <<db, admissionMu, pass, crashes>>
    BY <1>2, Zenon DEF RuntimeStep
  <2>2. PICK out \in RuntimeCall(o.op, guest[o.sb]) :
          /\ guest' = [guest EXCEPT ![o.sb] = out[1]]
          /\ \/ GotoWith(r, "persist", FinalStatus(o.op))
             \/ o.op = "createStart" /\ Goto(r, "rollback")
             \/ o.op # "createStart" /\ Goto(r, "persisterr")
    BY <1>2, Zenon DEF RuntimeStep
  <2>3. o.op \in AllOps \ {"create", "touch"} /\ (k => w = MarkedStatus(o.op))
    BY <2>1, KnowsStarting
  <2>4. Framed(r) /\ row'[o.sb] = w
    BY <2>1, <2>2, <2>3, Called, CallOutcomes, Zenon
  <2>5. FinalStatus(o.op) \in RowStatus
    BY FinalStatuses, Zenon DEF RowStatus, Status
  <2>6. /\ Knows(o.op, "persist", FinalStatus(o.op), w, k)
        /\ o.op = "createStart" => Knows(o.op, "rollback", o.st, w, k)
        /\ o.op # "createStart" => Knows(o.op, "persisterr", o.st, w, k)
    BY <2>3, KnowsOutcome, KnowsRollback DEF IsCreate, MarkedStatus, Transitional
  <2> QED
    BY <2>1, <2>2, <2>4, <2>5, <2>6, GoesOn, GoesOnWith, Zenon DEF Later
<1>3. CASE Rollback(r)
  <2>1. o.pc = "rollback" /\ UNCHANGED <<db, admissionMu, pass, crashes>>
    BY <1>3, Zenon DEF Rollback
  <2>2. PICK out \in Rt!Destroy(guest[o.sb]), st \in {"deleted", "error"} :
          guest' = [guest EXCEPT ![o.sb] = out[1]] /\ GotoWith(r, "rollbackwrite", st)
    BY <1>3, Zenon DEF Rollback, Rt!May
  <2>3. Framed(r) /\ row'[o.sb] = w
    BY <2>1, <2>2, Called, DestroyOutcomes, Zenon
  <2>4. Knows(o.op, "rollbackwrite", st, w, k)
    BY <2>1, KnowsRollback
  <2>5. st \in RowStatus
    BY Zenon DEF RowStatus, Status
  <2> QED
    BY <2>1, <2>2, <2>3, <2>4, <2>5, GoesOnWith, Zenon DEF Later
<1>4. CASE DeleteDestroy(r)
  <2>1. o.pc = "destroy" /\ UNCHANGED <<db, admissionMu, pass, crashes>>
    BY <1>4, Zenon DEF DeleteDestroy
  <2>2. PICK out \in Rt!Destroy(guest[o.sb]), p \in {"rmstorage", "persisterr"} :
          guest' = [guest EXCEPT ![o.sb] = out[1]] /\ Goto(r, p)
    BY <1>4, Zenon DEF DeleteDestroy
  <2>3. Framed(r) /\ row'[o.sb] = w
    BY <2>1, <2>2, Called, DestroyOutcomes, Zenon
  <2>4. Knows(o.op, p, o.st, w, k)
    BY <2>1, KnowsDelete, KnowsOutcome DEF IsCreate, Transitional
  <2> QED
    BY <2>1, <2>2, <2>3, <2>4, GoesOn, Zenon DEF Later
<1> QED
  BY <1>1, <1>2, <1>3, <1>4, Zenon

(* A store call that fails ends a handler and leaves the row alone.        *)
LEMMA Lost ==
    ASSUME ControlInv, NEW r \in Requests, StoreFails(r), req[r].pc \in Later,
           UNCHANGED <<guest, admissionMu, pass, crashes>>
    PROVE  Moved(r)
BY Left, Untouched, Zenon DEF StoreFails, WriteLost, Final

(* The steps that record the outcome of the backend.                       *)
LEMMA OutcomeMoves ==
    ASSUME ControlInv, NEW r \in Requests,
           Persist(r) \/ PersistError(r) \/ Finish(r) \/ RollbackWrite(r)
    PROVE  Moved(r)
<1> DEFINE o == req[r]
           w == row[o.sb]
           k == Known(o.sb)
<1> o.op \in AllOps /\ o.st \in RowStatus
  BY Lockers, Zenon
<1> Knows(o.op, o.pc, o.st, w, k) /\ (o.pc \in Later => Alive(w))
  BY Relies, LaterPcs, Zenon
<1>1. CASE Persist(r)
  <2> o.pc = "persist" /\ o.pc \in Later /\ UNCHANGED <<guest, admissionMu, pass, crashes>>
    BY <1>1, Zenon DEF Persist, Later
  <2>2. o.op # "touch" /\ o.st = FinalStatus(o.op) /\ (k => w = MarkedStatus(o.op))
    BY KnowsOutcome
  <2>3. CASE WriteRow(o.sb, o.st) /\ Goto(r, "finish")
    <3>1. o.st \in Status /\ Alive(o.st)
      BY <2>2, FinalStatuses DEF Status, Alive
    <3>2. Framed(r) /\ row'[o.sb] = o.st
      BY <2>3, <3>1, Wrote, Zenon
    <3>3. Knows(o.op, "finish", o.st, o.st, k)
      BY <2>2, KnowsOutcome, Zenon
    <3> QED
      BY <2>3, <3>1, <3>2, <3>3, GoesOn, Zenon DEF Later
  <2>4. CASE IsCreate(o.op) /\ WriteLost /\ Goto(r, "rollback")
    <3>1. Framed(r) /\ row'[o.sb] = w
      BY <2>4, Untouched, Zenon DEF WriteLost
    <3>2. Knows(o.op, "rollback", o.st, w, k)
      BY <2>2, <2>4, KnowsRollback DEF IsCreate, MarkedStatus
    <3> QED
      BY <2>4, <3>1, <3>2, GoesOn, Zenon DEF Later
  <2> QED
    BY <1>1, <2>3, <2>4, Lost, Zenon DEF Persist
<1>2. CASE PersistError(r)
  <2>1. /\ o.pc = "persisterr" /\ Return(r, "err") /\ UNCHANGED <<guest, admissionMu, pass, crashes>>
        /\ WriteRow(o.sb, "error") \/ UNCHANGED db
    BY <1>2, Zenon DEF PersistError, WriteLost
  <2>2. Framed(r)
    BY <2>1, Wrote, Untouched, Zenon DEF Status
  <2> QED
    BY <2>1, <2>2, Left, Zenon DEF Later, Final
<1>3. CASE Finish(r)
  <2> o.pc = "finish" /\ o.pc \in Later /\ UNCHANGED <<db, guest, admissionMu, pass, crashes>>
    BY <1>3, Zenon DEF Finish, Later
  <2>2. o.op # "touch" /\ (k => w = FinalStatus(o.op))
    BY KnowsOutcome
  <2>3. Framed(r) /\ row'[o.sb] = w
    BY Untouched, Zenon
  <2>4. CASE o.op = "delete" /\ Goto(r, "delmark")
    <3>1. Knows(o.op, "delmark", o.st, w, k)
      BY <2>4, KnowsDelete
    <3> QED
      BY <2>3, <2>4, <3>1, GoesOn, Zenon DEF Later
  <2>5. CASE IsCreate(o.op) /\ Goto(r, "rollback")
    <3>1. Knows(o.op, "rollback", o.st, w, k)
      BY <2>2, <2>5, FinalStatuses, KnowsRollback DEF IsCreate
    <3> QED
      BY <2>3, <2>5, <3>1, GoesOn, Zenon DEF Later
  <2>6. CASE Return(r, "ok") \/ Return(r, "err")
    BY <2>3, <2>6, Left, Zenon DEF Final
  <2> QED
    BY <1>3, <2>4, <2>5, <2>6, Zenon DEF Finish
<1>4. CASE RollbackWrite(r)
  <2>1. /\ o.pc = "rollbackwrite" /\ Return(r, "err") /\ UNCHANGED <<guest, admissionMu, pass, crashes>>
        /\ WriteRow(o.sb, o.st) \/ UNCHANGED db
    BY <1>4, Zenon DEF RollbackWrite
  <2>2. o.st \in Status
    BY <2>1, KnowsRollback DEF Status
  <2>3. Framed(r)
    BY <2>1, <2>2, Wrote, Untouched, Zenon
  <2> QED
    BY <2>1, <2>3, Left, Zenon DEF Later, Final
<1> QED
  BY <1>1, <1>2, <1>3, <1>4, Zenon

(* The steps of stop, suspend and touch.                                   *)
LEMMA PlainMoves ==
    ASSUME ControlInv, NEW r \in Requests, GetRow(r) \/ Mark(r) \/ Touch(r)
    PROVE  Moved(r)
<1> DEFINE o == req[r]
           w == row[o.sb]
           k == Known(o.sb)
<1> o.op \in AllOps /\ o.st \in RowStatus /\ w \in RowStatus
  BY Lockers, Zenon
<1> Knows(o.op, o.pc, o.st, w, k) /\ (o.pc \in Later => Alive(w))
  BY Relies, LaterPcs, Zenon
<1>1. CASE GetRow(r)
  <2> o.pc = "get" /\ o.pc \in Later /\ UNCHANGED <<guest, admissionMu, pass, crashes>>
    BY <1>1, Zenon DEF Later, GetRow
  <2>2. Knows(o.op, "get", o.st, w, k)
    BY Zenon
  <2>3. UNCHANGED db => Framed(r) /\ row'[o.sb] = w
    BY Untouched, Zenon
  <2>4. CASE o.op = "touch" /\ GotoWith(r, "touch", w) /\ UNCHANGED db
    <3>1. Knows(o.op, "touch", w, w, k)
      BY <2>2, <2>4, KnowsRunning
    <3> QED
      BY <2>3, <2>4, <3>1, GoesOnWith, Zenon DEF Later
  <2>5. CASE o.op # "touch" /\ Goto(r, "mark") /\ UNCHANGED db
    <3>1. Knows(o.op, "mark", o.st, w, k)
      BY <2>2, <2>5, KnowsRunning
    <3> QED
      BY <2>3, <2>5, <3>1, GoesOn, Zenon DEF Later
  <2> QED
    BY <1>1, <2>4, <2>5, Lost, Zenon DEF GetRow
<1>2. CASE Mark(r)
  <2> o.pc = "mark" /\ o.pc \in Later /\ UNCHANGED <<guest, admissionMu, pass, crashes>>
    BY <1>2, Zenon DEF Later, Mark
  <2>2. CASE WriteRow(o.sb, MarkedStatus(o.op)) /\ Goto(r, "runtime")
    <3>1. Framed(r) /\ row'[o.sb] = MarkedStatus(o.op)
      BY <2>2, Wrote, Zenon DEF MarkedStatus, Status
    <3>2. Knows(o.op, "runtime", o.st, MarkedStatus(o.op), k) /\ Alive(MarkedStatus(o.op))
      BY KnowsRunning, KnowsStarting DEF Alive, MarkedStatus
    <3> QED
      BY <2>2, <3>1, <3>2, GoesOn, Zenon DEF Later
  <2>3. (IF o.op = "suspend" THEN "suspending" ELSE "stopping") = MarkedStatus(o.op)
    BY KnowsRunning DEF MarkedStatus
  <2> QED
    BY <1>2, <2>2, <2>3, Lost, Zenon DEF Mark
<1>3. CASE Touch(r)
  <2>1. /\ o.pc = "touch" /\ Return(r, "ok") /\ UNCHANGED <<guest, admissionMu, pass, crashes>>
        /\ WriteRow(o.sb, o.st) \/ UNCHANGED db
    BY <1>3, Zenon DEF Touch, WriteLost
  <2>2. o.st \in Status
    BY <2>1, KnowsRunning DEF RowStatus, Alive
  <2>3. Framed(r)
    BY <2>1, <2>2, Wrote, Untouched, Zenon
  <2> QED
    BY <2>1, <2>3, Left, Zenon DEF Later, Final
<1> QED
  BY <1>1, <1>2, <1>3, Zenon

(* The steps of delete.                                                    *)
LEMMA DeleteMoves ==
    ASSUME ControlInv, NEW r \in Requests,
           DeleteGet(r) \/ DeleteMark(r) \/ DeleteStorage(r) \/ DeletePersist(r)
    PROVE  Moved(r)
<1> DEFINE o == req[r]
           w == row[o.sb]
           k == Known(o.sb)
<1> o.op \in AllOps /\ o.st \in RowStatus
  BY Lockers, Zenon
<1> Knows(o.op, o.pc, o.st, w, k) /\ (o.pc \in Later => Alive(w))
  BY Relies, LaterPcs, Zenon
<1>1. CASE DeleteGet(r)
  <2> o.pc = "delget" /\ o.pc \in Later /\ UNCHANGED <<guest, admissionMu, pass, crashes>>
    BY <1>1, Zenon DEF Later, DeleteGet
  <2>2. CASE UNCHANGED db /\ Goto(r, IF w \in {"running", "suspended"} THEN "get" ELSE "delmark")
    <3>1. Framed(r) /\ row'[o.sb] = w
      BY <2>2, Untouched, Zenon
    <3>2. PICK p \in {"get", "delmark"} :
            p = IF w \in {"running", "suspended"} THEN "get" ELSE "delmark"
      OBVIOUS
    <3>3. Knows(o.op, p, o.st, w, k)
      BY <3>2, KnowsDelete, KnowsRunning
    <3> QED
      BY <2>2, <3>1, <3>2, <3>3, GoesOn, Zenon DEF Later
  <2> QED
    BY <1>1, <2>2, Lost, Zenon DEF DeleteGet
<1>2. CASE DeleteMark(r)
  <2> o.pc = "delmark" /\ o.pc \in Later /\ UNCHANGED <<guest, admissionMu, pass, crashes>>
    BY <1>2, Zenon DEF Later, DeleteMark
  <2>2. CASE WriteRow(o.sb, "deleting") /\ Goto(r, "destroy")
    <3>1. Framed(r) /\ row'[o.sb] = "deleting"
      BY <2>2, Wrote, Zenon DEF Status
    <3>2. Knows(o.op, "destroy", o.st, "deleting", k) /\ Alive("deleting")
      BY KnowsDelete DEF Alive
    <3> QED
      BY <2>2, <3>1, <3>2, GoesOn, Zenon DEF Later
  <2> QED
    BY <1>2, <2>2, Lost, Zenon DEF DeleteMark
<1>3. CASE DeleteStorage(r)
  <2> o.pc = "rmstorage" /\ o.pc \in Later /\ UNCHANGED <<db, guest, admissionMu, pass, crashes>>
    BY <1>3, Zenon DEF Later, DeleteStorage
  <2>2. Framed(r) /\ row'[o.sb] = w
    BY Untouched, Zenon
  <2>3. Knows(o.op, "delpersist", o.st, w, k)
    BY KnowsDelete
  <2>4. CASE Goto(r, "delpersist")
    BY <2>2, <2>3, <2>4, GoesOn, Zenon DEF Later
  <2>5. CASE Return(r, "err")
    BY <2>2, <2>5, Left, Zenon DEF Final
  <2> QED
    BY <1>3, <2>4, <2>5, Zenon DEF DeleteStorage
<1>4. CASE DeletePersist(r)
  <2>1. o.pc \in Later /\ UNCHANGED <<guest, admissionMu, pass, crashes>>
    BY <1>4, Zenon DEF Later, DeletePersist
  <2>2. CASE WriteRow(o.sb, "deleted") /\ Return(r, "ok")
    <3>1. Framed(r)
      BY <2>1, <2>2, Wrote, Zenon DEF Status
    <3> QED
      BY <2>1, <2>2, <3>1, Left, Zenon DEF Final
  <2> QED
    BY <1>4, <2>1, <2>2, Lost, Zenon DEF DeletePersist
<1> QED
  BY <1>1, <1>2, <1>3, <1>4, Zenon

(* Every step of a handler.                                                *)
LEMMA HandlerMoves ==
    ASSUME ControlInv, NEW r \in Requests, RequestStep(r)
    PROVE  Moved(r) /\ InFlight(r)
<1>1. Moved(r)
  BY ReservationMoves, RuntimeMoves, OutcomeMoves, PlainMoves, DeleteMoves, Zenon DEF RequestStep
<1>2. InFlight(r)
  BY Zenon DEF RequestStep, InFlight, Final, LockAndCheckQuota, CheckAdmission, Reserve, RuntimeCreate,
     RuntimeStep, Persist, PersistError, Finish, Rollback, RollbackWrite, GetRow, Mark, Touch,
     DeleteGet, DeleteMark, DeleteDestroy, DeleteStorage, DeletePersist
<1> QED
  BY <1>1, <1>2, Zenon

-----------------------------------------------------------------------------
(* The control invariant is inductive.                                     *)

(* A handler that relies on no row.                                        *)
LEMMA KnowsBlind ==
    ASSUME NEW op, NEW pc, NEW st, NEW w, NEW v
    PROVE  Knows(op, pc, st, w, FALSE) => Knows(op, pc, st, v, FALSE)
BY Zenon DEF Knows

(* What a handler knows it knows less of when a pass overlapped it.        *)
LEMMA KnowsLess ==
    ASSUME NEW op, NEW pc, NEW st, NEW w, NEW k
    PROVE  Knows(op, pc, st, w, k) => Knows(op, pc, st, w, FALSE)
BY Zenon DEF Knows

(* A request in flight keeps what it knows while its row is left alone,    *)
(* and it relies on no row that others may write.                          *)
LEMMA StillKnows ==
    ASSUME NEW q \in Requests, HandlerOK(q), req'[q] = req[q],
           \/ row'[req[q].sb] = row[req[q].sb] /\ (Known(req[q].sb)' <=> Known(req[q].sb))
           \/ ~Known(req[q].sb)' /\ Alive(row'[req[q].sb]) /\ row[req[q].sb] # "absent"
           \/ ~InFlight(q)
    PROVE  HandlerOK(q)'
<1> DEFINE o == req[q]
<1> Knows(o.op, o.pc, o.st, row[o.sb], Known(o.sb)) /\ (InFlight(q) => Stands(o.op, o.pc, row[o.sb]))
  BY Zenon DEF HandlerOK
<1>0. ASSUME Knows(o.op, o.pc, o.st, row'[o.sb], Known(o.sb)'),
             InFlight(q) => Stands(o.op, o.pc, row'[o.sb])
      PROVE  HandlerOK(q)'
  <2>1. Known(req[q].sb)' = Known(o.sb)' /\ (InFlight(q)' <=> InFlight(q))
    BY Zenon DEF InFlight
  <2> QED
    BY <1>0, <2>1, Zenon DEF HandlerOK
<1>1. CASE row'[o.sb] = row[o.sb] /\ (Known(o.sb)' <=> Known(o.sb))
  <2>1. CASE Known(o.sb)
    <3>1. Known(o.sb) = TRUE /\ Known(o.sb)' = TRUE
      BY <1>1, <2>1, Zenon DEF Known
    <3> QED
      BY <1>0, <1>1, <3>1, Zenon
  <2>2. CASE ~Known(o.sb)
    <3>1. Known(o.sb) = FALSE /\ Known(o.sb)' = FALSE
      BY <1>1, <2>2, Zenon DEF Known
    <3> QED
      BY <1>0, <1>1, <3>1, Zenon
  <2> QED
    BY <2>1, <2>2, Zenon
<1>2. CASE ~Known(o.sb)' /\ Alive(row'[o.sb]) /\ row[o.sb] # "absent"
  <2>1. Known(o.sb)' = FALSE
    BY <1>2, Zenon DEF Known
  <2>2. Knows(o.op, o.pc, o.st, row[o.sb], FALSE)
    BY KnowsLess
  <2>3. Knows(o.op, o.pc, o.st, row'[o.sb], FALSE)
    BY <2>2, KnowsBlind, Zenon
  <2>4. InFlight(q) => Stands(o.op, o.pc, row'[o.sb])
    BY <1>2, Zenon DEF Stands
  <2> QED
    BY <1>0, <2>1, <2>3, <2>4, Zenon
<1>3. CASE ~InFlight(q)
  <2>1. o.pc \in Final \cup {"idle"}
    BY <1>3, Zenon DEF InFlight
  <2>2. Knows(o.op, o.pc, o.st, row'[o.sb], Known(o.sb)')
    BY <2>1, KnowsNothing
  <2> QED
    BY <1>0, <1>3, <2>2, Zenon
<1> QED
  BY <1>1, <1>2, <1>3, Zenon

(* What a handler does to the store: nothing, or the write of a status, or *)
(* the write of a reservation.                                             *)
LEMMA HandlerWrites ==
    ASSUME NEW r \in Requests, RequestStep(r)
    PROVE  \/ UNCHANGED db
           \/ req[r].pc \notin Early /\ \E st : WriteRow(req[r].sb, st)
           \/ Reserve(r) /\ WriteReserved(req[r].sb, ReservedStatus(req[r].op))
<1>1. CASE Reserve(r)
  BY <1>1, Zenon DEF Reserve, StoreFails, WriteLost
<1>2. CASE Persist(r) \/ PersistError(r) \/ RollbackWrite(r) \/ Mark(r) \/ Touch(r) \/ DeleteMark(r)
           \/ DeletePersist(r)
  BY <1>2, Zenon DEF Persist, PersistError, RollbackWrite, Mark, Touch, DeleteMark, DeletePersist,
     StoreFails, WriteLost, Early
<1>3. CASE LockAndCheckQuota(r) \/ CheckAdmission(r) \/ RuntimeCreate(r) \/ RuntimeStep(r) \/ Finish(r)
           \/ Rollback(r) \/ GetRow(r) \/ DeleteGet(r) \/ DeleteDestroy(r) \/ DeleteStorage(r)
  BY <1>3, Zenon DEF LockAndCheckQuota, CheckAdmission, RuntimeCreate, RuntimeStep, Finish, Rollback,
     GetRow, DeleteGet, DeleteDestroy, DeleteStorage, StoreFails, WriteLost
<1> QED
  BY <1>1, <1>2, <1>3, Zenon DEF RequestStep

(* The history of the rows is about sandboxes.                             *)
LEMMA HistoryTypes ==
    ASSUME NEW s \in Sandboxes, NEW st, TypeOK, WriteRow(s, st) \/ WriteReserved(s, st) \/ UNCHANGED db
    PROVE  revived' \in SUBSET Sandboxes /\ unreserved' \in SUBSET Sandboxes
<1>1. revived \in SUBSET Sandboxes /\ unreserved \in SUBSET Sandboxes
  BY Zenon DEF TypeOK
<1>2. revived' \subseteq revived \cup {s} /\ unreserved' \subseteq unreserved \cup {s}
  BY Zenon DEF WriteRow, WriteReserved, db
<1> QED
  BY <1>1, <1>2, Zenon

(* Steps of handlers.                                                      *)
LEMMA ControlHandler ==
    ASSUME ControlInv, NEW r \in Requests, RequestStep(r)
    PROVE  ControlInv'
<1> InFlight(r)
  BY HandlerMoves, Zenon
<1>2. PICK p \in Pcs \ {"idle"}, st \in RowStatus :
        ReqMoved(r, p, st) /\ Framed(r) /\ Locked(r, p) /\ HandlerOK(r)'
  BY HandlerMoves, Zenon DEF Moved
<1> /\ req'[r].sb = req[r].sb /\ req'[r].op = req[r].op /\ req'[r].pc = p
    /\ \A q \in Requests : q # r => req'[q] = req[q]
    /\ req' \in [Requests -> ReqRec]
  BY <1>2, Zenon DEF ReqMoved
<1> UNCHANGED <<rec, overlap, raced, crashes>>
  BY <1>2, Zenon DEF Framed
<1>4. \A q \in Requests : InFlight(q)' => InFlight(q)
  BY Zenon DEF InFlight
<1>5. \A q \in Requests : req'[q].sb = req[q].sb
  OBVIOUS
<1>6. \A s \in Sandboxes : row[s] # "absent" => row'[s] # "absent"
  BY <1>2, Zenon DEF Framed
<1>7. TypeOK'
  <2>1. revived' \in SUBSET Sandboxes /\ unreserved' \in SUBSET Sandboxes
    BY HandlerWrites, HistoryTypes, Lockers, Zenon DEF ControlInv
  <2>2. admissionMu' \in SUBSET Requests
    BY <1>2, Zenon DEF ControlInv, TypeOK, Locked
  <2> QED
    BY <1>2, <2>1, <2>2, Zenon DEF ControlInv, TypeOK, Framed, ReqRec
<1>8. Apart'
  BY <1>4, <1>5, Zenon DEF ControlInv, Apart
<1>9. LockInv'
  <2>1. admissionMu \subseteq Requests
    BY Zenon DEF ControlInv, TypeOK
  <2> QED
    BY <1>2, <2>1, Zenon DEF ControlInv, LockInv, Locked, Holding
<1>10. PassInv'
  <2>1. ~rec.boot /\ PassInv /\ rec.todo \subseteq Sandboxes /\ rec.sb \in Sandboxes
    BY Zenon DEF ControlInv, PassInv, TypeOK
  <2>2. Busy(rec.sb)' => Busy(rec.sb)
    BY <1>4, <1>5, Zenon DEF Busy
  <2> QED
    BY <1>6, <2>1, <2>2, Zenon DEF PassInv
<1>11. ASSUME NEW q \in Requests PROVE HandlerOK(q)'
  <2>1. CASE q = r
    BY <1>2, <2>1, Zenon
  <2>2. CASE q # r
    <3> HandlerOK(q) /\ req'[q] = req[q] /\ req[q].sb \in Sandboxes /\ row \in [Sandboxes -> RowStatus]
      BY <2>2, Lockers, Zenon
    <3>1. Known(req[q].sb)' <=> Known(req[q].sb)
      BY Zenon DEF Known
    <3>2. CASE Serial /\ InFlight(q)
      <4>1. req[q].sb # req[r].sb
        BY <2>2, <3>2, Zenon DEF ControlInv, Apart
      <4>2. row'[req[q].sb] = row[req[q].sb]
        BY <1>2, <4>1, Zenon DEF Framed
      <4> QED
        BY <3>1, <4>2, StillKnows, Zenon
    <3>3. CASE ~Serial /\ row[req[q].sb] # "absent"
      <4>1. ~Known(req[q].sb)' /\ Alive(row'[req[q].sb])
        BY <1>6, <3>3, Zenon DEF Known, Alive
      <4> QED
        BY <3>3, <4>1, StillKnows, Zenon
    <3>4. CASE ~Serial /\ row[req[q].sb] = "absent" /\ InFlight(q)
      <4>1. /\ Knows(req[q].op, req[q].pc, req[q].st, row[req[q].sb], FALSE)
            /\ IsCreate(req[q].op) /\ req[q].pc \in Early
        BY <3>4, KnowsLess, Zenon DEF HandlerOK, Stands, Alive
      <4>2. Knows(req[q].op, req[q].pc, req[q].st, row'[req[q].sb], FALSE)
        BY <4>1, KnowsBlind, Zenon
      <4>3. Known(req[q].sb)' = FALSE
        BY <3>4, Zenon DEF Known
      <4>4. Stands(req[q].op, req[q].pc, row'[req[q].sb])
        BY <3>4, <4>1, Zenon DEF Stands
      <4> QED
        BY <4>2, <4>3, <4>4, Zenon DEF HandlerOK
    <3>5. CASE ~InFlight(q)
      BY <3>5, StillKnows, Zenon
    <3> QED
      BY <3>2, <3>3, <3>4, <3>5, Zenon
  <2> QED
    BY <2>1, <2>2, Zenon
<1> QED
  BY <1>7, <1>8, <1>9, <1>10, <1>11, Zenon DEF ControlInv

(* The arrival of a request.                                               *)
LEMMA ControlIssue ==
    ASSUME ControlInv, NEW r \in Requests, Issue(r)
    PROVE  ControlInv'
<1>1. PICK op \in Ops, s \in Sandboxes :
        /\ ClientMay(op, s)
        /\ req' = [req EXCEPT ![r] = [op |-> op, sb |-> s, pc |-> EntryPc(op), st |-> row[s]]]
        /\ overlap' = (overlap \/ (rec.pc = "write" /\ rec.sb = s))
  BY Zenon DEF Issue
<1> /\ req[r].pc = "idle" /\ ~rec.boot
    /\ UNCHANGED <<row, revived, unreserved, guest, admissionMu, rec, raced, crashes>>
  BY Zenon DEF Issue, db
<1> op \in AllOps /\ req \in [Requests -> ReqRec] /\ row[s] \in RowStatus
  BY ConstantsAssumption, Lockers, Zenon
<1>4. EntryPc(op) \in {"lock", "delget", "get"}
  BY EntryPcs, Zenon
<1>5. PICK new \in ReqRec : /\ req' = [req EXCEPT ![r] = new]
                           /\ new.op = op /\ new.sb = s /\ new.pc = EntryPc(op) /\ new.st = row[s]
  <2>1. [op |-> op, sb |-> s, pc |-> EntryPc(op), st |-> row[s]] \in ReqRec
    BY <1>4, Zenon DEF ReqRec, Pcs
  <2> QED
    BY <1>1, <2>1, Zenon
<1> req'[r] = new /\ req' \in [Requests -> ReqRec] /\ \A q \in Requests : q # r => req'[q] = req[q]
  BY <1>5, Zenon
<1>6. overlap' \in BOOLEAN
  BY <1>1, Zenon
<1>7. TypeOK'
  BY <1>6, Zenon DEF ControlInv, TypeOK, ReqRec
<1>8. Serial => \A q \in Requests : InFlight(q) => req[q].sb # s
  BY <1>1, Zenon DEF ClientMay, FreshId, InFlight
<1>9. Apart'
  BY <1>5, <1>8 DEF ControlInv, Apart, InFlight
<1>10. LockInv'
  <2>1. LockInv /\ req[r].pc \notin Holding /\ new.pc \notin Holding
    BY <1>4, <1>5, Zenon DEF ControlInv, Holding
  <2> QED
    BY <2>1, Zenon DEF LockInv, Holding
<1>11. PassInv'
  <2>1. PassInv
    BY Zenon DEF ControlInv
  <2>2. ASSUME rec.pc = "write", ~overlap' PROVE ~Busy(rec.sb)'
    <3>1. s # rec.sb /\ ~overlap
      BY <1>1, <2>2, Zenon
    <3>2. ~Busy(rec.sb)
      BY <2>1, <2>2, <3>1, Zenon DEF PassInv
    <3> QED
      BY <1>5, <3>1, <3>2, Zenon DEF Busy, InFlight
  <2> QED
    BY <2>1, <2>2, Zenon DEF PassInv
<1>12. Knows(op, EntryPc(op), row[s], row[s], Known(s))
  <2>1. CASE IsCreate(op)
    <3>1. op \in {"create", "createStart"}
      BY <2>1, Zenon DEF IsCreate
    <3>2. EntryPc(op) = "lock"
      BY <3>1, EntryPcs, Zenon
    <3> QED
      BY <3>1, <3>2, KnowsStarting DEF Early
  <2>2. CASE ~IsCreate(op)
    <3>1. op \in AllOps \ {"create", "createStart"} /\ (Known(s) => row[s] \in ExpectedStatus(op))
      BY <1>1, <2>2, Zenon DEF ClientMay, IsCreate, Known
    <3>2. Known(s) => /\ op = "start" => row[s] = "stopped"
                      /\ op = "resume" => row[s] = "suspended"
                      /\ op \in {"stop", "suspend", "touch"} => row[s] = "running"
      BY <3>1, ExpectedStatuses, Zenon
    <3>3. CASE op \in {"start", "resume"}
      BY <3>2, <3>3, EntryPcs, KnowsStarting DEF Early
    <3>4. CASE op = "delete"
      BY <3>4, EntryPcs, KnowsDelete
    <3>5. CASE op \in {"stop", "suspend", "touch"}
      BY <3>2, <3>5, EntryPcs, KnowsRunning
    <3> QED
      BY <3>1, <3>3, <3>4, <3>5, Zenon DEF AllOps
  <2> QED
    BY <2>1, <2>2, Zenon
<1>13. Stands(op, EntryPc(op), row[s])
  <2>1. CASE IsCreate(op)
    <3>1. EntryPc(op) = "lock" /\ row[s] = "absent"
      BY <1>1, <2>1, EntryPcs, Zenon DEF IsCreate, ClientMay, FreshId
    <3> QED
      BY <2>1, <3>1, Zenon DEF Stands, Early
  <2>2. CASE ~IsCreate(op)
    <3>1. row[s] # "absent" /\ (Serial => row[s] \in ExpectedStatus(op))
      BY <1>1, <2>2, Zenon DEF ClientMay
    <3>2. Alive(row[s])
      BY <2>2, <3>1, ExpectedStatuses, Zenon DEF Alive, IsCreate
    <3> QED
      BY <2>2, <3>2, Zenon DEF Stands
  <2> QED
    BY <2>1, <2>2, Zenon
<1>14. ASSUME NEW q \in Requests PROVE HandlerOK(q)'
  <2>1. CASE q = r
    <3>1. Known(req[q].sb)' = Known(s)
      BY <1>5, <2>1, Zenon DEF Known
    <3> QED
      BY <1>5, <1>12, <1>13, <2>1, <3>1, Zenon DEF HandlerOK
  <2>2. CASE q # r
    <3>1. HandlerOK(q) /\ req'[q] = req[q] /\ row' = row
      BY <2>2, Zenon DEF ControlInv
    <3>2. Known(req[q].sb)' <=> Known(req[q].sb)
      BY <3>1, Zenon DEF Known
    <3> QED
      BY <3>1, <3>2, StillKnows, Zenon
  <2> QED
    BY <2>1, <2>2, Zenon
<1> QED
  BY <1>7, <1>9, <1>10, <1>11, <1>14, Zenon DEF ControlInv

(* The state of the reconcile pass.                                        *)
RecRec ==
    [pc : {"idle", "list", "next", "write"}, boot : BOOLEAN, todo : SUBSET Sandboxes,
     sb : Sandboxes, st : Status \cup {"err"}]

(* An id stands where none is meant.                                       *)
LEMMA AnyIdType == AnyId \in Sandboxes
BY ConstantsAssumption, Zenon DEF AnyId

(* What a pass writes for what it read.                                    *)
Written(st) == IF st = "err" THEN "degraded" ELSE st

(* A pass writes rows that exist, never makes one starting, deleted or     *)
(* absent, and marks the sandbox when a request on it is in flight.        *)
LEMMA PassWrites ==
    ASSUME ControlInv, ReconcileWrite
    PROVE  /\ rec.pc = "write" /\ rec.sb \in Sandboxes /\ row[rec.sb] # "absent"
           /\ WriteRow(rec.sb, Written(rec.st)) /\ row' = [row EXCEPT ![rec.sb] = Written(rec.st)]
           /\ Written(rec.st) \in Seen \ {"err"} /\ rec.st \in Seen
           /\ row' \in [Sandboxes -> RowStatus] /\ Alive(row'[rec.sb])
           /\ raced' = IF overlap THEN raced \cup {rec.sb} ELSE raced \ {rec.sb}
           /\ overlap' = FALSE /\ UNCHANGED <<guest, req, admissionMu, crashes>>
           /\ Busy(rec.sb) => overlap
<1> rec.sb \in Sandboxes /\ row \in [Sandboxes -> RowStatus]
  BY Zenon DEF ControlInv, TypeOK
<1>1. /\ WriteRow(rec.sb, Written(rec.st)) /\ rec.pc = "write"
      /\ raced' = IF overlap THEN raced \cup {rec.sb} ELSE raced \ {rec.sb}
      /\ overlap' = FALSE /\ UNCHANGED <<guest, req, admissionMu, crashes>>
  BY Zenon DEF ReconcileWrite, Written
<1>2. row' = [row EXCEPT ![rec.sb] = Written(rec.st)]
  BY <1>1, Zenon DEF WriteRow
<1>3. row[rec.sb] # "absent" /\ rec.st \in Seen /\ (Busy(rec.sb) => overlap)
  BY <1>1, Zenon DEF ControlInv, PassInv
<1>4. Written(rec.st) \in Seen \ {"err"}
  BY <1>3, Zenon DEF Written, Seen
<1>5. Written(rec.st) \in RowStatus /\ Alive(Written(rec.st))
  BY <1>4, Zenon DEF Seen, RowStatus, Status, Alive
<1> QED
  BY <1>1, <1>2, <1>3, <1>4, <1>5, Zenon

(* The other steps of a pass write nothing.                                *)
LEMMA PassSteps ==
    ASSUME ReconcileStep
    PROVE  /\ UNCHANGED <<guest, req, admissionMu, crashes>>
           /\ ReconcileWrite \/ (UNCHANGED db /\ UNCHANGED raced)
BY Zenon DEF ReconcileStep, ReconcileTick, ReconcileList, ReconcileInspect, ReconcileWrite,
   ReconcileWriteFails, ReconcileAborts, ReconcileDone

(* What a pass does to the handlers.                                       *)
LEMMA PassOverHandlers ==
    ASSUME ControlInv, ReconcileStep, NEW q \in Requests
    PROVE  HandlerOK(q)'
<1> HandlerOK(q) /\ req[q].sb \in Sandboxes /\ req' = req
  BY Lockers, PassSteps, Zenon
<1>1. CASE UNCHANGED db /\ UNCHANGED raced
  <2>1. row' = row /\ (Known(req[q].sb)' <=> Known(req[q].sb))
    BY <1>1, Zenon DEF db, Known
  <2> QED
    BY <2>1, StillKnows, Zenon
<1>2. CASE ReconcileWrite
  <2>1. CASE req[q].sb # rec.sb
    <3>1. row'[req[q].sb] = row[req[q].sb] /\ (req[q].sb \in raced' <=> req[q].sb \in raced)
      BY <1>2, <2>1, PassWrites, Lockers, Zenon
    <3>2. Known(req[q].sb)' <=> Known(req[q].sb)
      BY <3>1, Zenon DEF Known
    <3> QED
      BY <3>1, <3>2, StillKnows, Zenon
  <2>2. CASE req[q].sb = rec.sb /\ InFlight(q)
    <3>1. rec.sb \in raced' /\ Alive(row'[rec.sb]) /\ row[rec.sb] # "absent"
      BY <1>2, <2>2, PassWrites, Zenon DEF Busy
    <3>2. ~Known(req[q].sb)'
      BY <2>2, <3>1, Zenon DEF Known
    <3> QED
      BY <2>2, <3>1, <3>2, StillKnows, Zenon
  <2>3. CASE ~InFlight(q)
    BY <2>3, StillKnows, Zenon
  <2> QED
    BY <2>1, <2>2, <2>3, Zenon
<1> QED
  BY <1>1, <1>2, PassSteps, Zenon

(* Steps of a pass.                                                        *)
LEMMA ControlReconcile ==
    ASSUME ControlInv, ReconcileStep
    PROVE  ControlInv'
<1> rec \in RecRec /\ row \in [Sandboxes -> RowStatus] /\ guest \in [Sandboxes -> Rt!Guests]
  BY Zenon DEF ControlInv, TypeOK, RecRec
<1> UNCHANGED <<guest, req, admissionMu, crashes>>
  BY PassSteps, Zenon
<1>2. row' \in [Sandboxes -> RowStatus]
  BY PassSteps, PassWrites, Zenon DEF db
<1>3. \A s \in Sandboxes : row[s] # "absent" => row'[s] # "absent"
  BY PassSteps, PassWrites, Zenon DEF db, Alive
<1>4. revived' \in SUBSET Sandboxes /\ unreserved' \in SUBSET Sandboxes /\ raced' \in SUBSET Sandboxes
  <2>1. raced \in SUBSET Sandboxes /\ rec.sb \in Sandboxes
    BY Zenon DEF ControlInv, TypeOK
  <2>2. raced' \in SUBSET Sandboxes
    <3>1. raced' \subseteq raced \cup {rec.sb}
      BY PassSteps, PassWrites
    <3> QED
      BY <2>1, <3>1, Zenon
  <2>3. WriteRow(rec.sb, Written(rec.st)) \/ UNCHANGED db
    BY PassSteps, PassWrites, Zenon
  <2> QED
    BY <2>1, <2>2, <2>3, HistoryTypes, Zenon DEF ControlInv
<1>5. ASSUME rec' \in RecRec, overlap' \in BOOLEAN, PassInv'
      PROVE  ControlInv'
  <2>1. TypeOK'
    BY <1>2, <1>4, <1>5, Zenon DEF ControlInv, TypeOK, RecRec
  <2>2. Apart' /\ LockInv'
    BY Zenon DEF ControlInv, Apart, LockInv, InFlight
  <2> QED
    BY <1>5, <2>1, <2>2, PassOverHandlers, Zenon DEF ControlInv
<1> PassInv /\ overlap \in BOOLEAN
  BY Zenon DEF ControlInv, TypeOK
<1> \A s : Busy(s)' <=> Busy(s)
  BY Zenon DEF Busy, InFlight
<1> \A r \in Requests : InFlight(r)' <=> InFlight(r)
  BY Zenon DEF InFlight
<1>6. CASE ReconcileTick
  <2>1. rec.pc = "idle" /\ overlap' = overlap
    BY <1>6, Zenon DEF ReconcileTick
  <2>2. rec' = [pc |-> "list", boot |-> rec.boot, todo |-> rec.todo, sb |-> rec.sb, st |-> rec.st]
    BY <1>6, Zenon DEF ReconcileTick, RecRec
  <2>3. rec' \in RecRec
    BY <2>2, Zenon DEF RecRec
  <2>4. PassInv'
    BY <1>3, <2>1, <2>2, Zenon DEF PassInv
  <2> QED
    BY <1>5, <2>1, <2>3, <2>4, Zenon
<1>7. CASE ReconcileList
  <2>1. rec.pc = "list" /\ overlap' = overlap
    BY <1>7, Zenon DEF ReconcileList
  <2>2. rec' = [pc |-> "next", boot |-> rec.boot, todo |-> NonDeleted, sb |-> rec.sb, st |-> rec.st]
    BY <1>7, Zenon DEF ReconcileList, RecRec
  <2>3. NonDeleted \subseteq Sandboxes /\ \A s \in NonDeleted : row'[s] # "absent"
    BY <1>3, Zenon DEF NonDeleted
  <2>4. rec' \in RecRec
    BY <2>2, <2>3, Zenon DEF RecRec
  <2>5. PassInv'
    BY <2>1, <2>2, <2>3, Zenon DEF PassInv
  <2> QED
    BY <1>5, <2>1, <2>4, <2>5, Zenon
<1>8. CASE ReconcileInspect
  <2>1. rec.pc = "next"
    BY <1>8, Zenon DEF ReconcileInspect
  <2>2. PICK s \in rec.todo : \E out \in Rt!Inspect(guest[s]) :
          /\ rec' = [rec EXCEPT !.pc = "write", !.todo = @ \ {s}, !.sb = s, !.st = out]
          /\ overlap' = Busy(s)
    BY <1>8, Zenon DEF ReconcileInspect
  <2>3. PICK out \in Rt!Inspect(guest[s]) :
          /\ rec' = [rec EXCEPT !.pc = "write", !.todo = @ \ {s}, !.sb = s, !.st = out]
          /\ overlap' = Busy(s)
    BY <2>2, Zenon
  <2>4. rec' = [pc |-> "write", boot |-> rec.boot, todo |-> rec.todo \ {s}, sb |-> s, st |-> out]
    BY <2>2, <2>3, Zenon DEF RecRec
  <2>5. s \in Sandboxes /\ rec.todo \subseteq Sandboxes
    BY <2>2, Zenon DEF ControlInv, TypeOK
  <2>6. out \in Seen
    BY <2>3, <2>5, InspectOutcomes, Zenon
  <2>7. rec' \in RecRec
    BY <2>4, <2>5, <2>6, Zenon DEF RecRec, Status, Seen
  <2>8. row'[s] # "absent" /\ \A t \in rec.todo : row'[t] # "absent"
    BY <1>3, <2>2, <2>5, Zenon DEF PassInv
  <2>9. overlap' \in BOOLEAN
    BY <2>3, Zenon DEF Busy
  <2>10. PassInv'
    <3>1. rec'.pc = "write" /\ rec'.boot = rec.boot /\ rec'.todo = rec.todo \ {s} /\ rec'.sb = s /\ rec'.st = out
      BY <2>4, Zenon
    <3>2. ~overlap' => ~Busy(rec.sb)'
      BY <2>3, <3>1, Zenon DEF Busy, InFlight
    <3> QED
      BY <2>6, <2>8, <3>1, <3>2, Zenon DEF PassInv
  <2> QED
    BY <1>5, <2>7, <2>9, <2>10, Zenon
<1>9. CASE ReconcileWrite \/ ReconcileWriteFails
  <2>1. rec.pc = "write" /\ overlap' = FALSE
    BY <1>9, Zenon DEF ReconcileWrite, ReconcileWriteFails
  <2>2. rec' = [pc |-> "next", boot |-> rec.boot, todo |-> rec.todo, sb |-> AnyId, st |-> "stopped"]
    BY <1>9, Zenon DEF ReconcileWrite, ReconcileWriteFails, RecRec
  <2>3. rec' \in RecRec
    BY <2>2, AnyIdType, Zenon DEF RecRec, Status
  <2>4. \A t \in rec.todo : row'[t] # "absent"
    BY <1>3, Zenon DEF PassInv, RecRec
  <2>5. PassInv'
    BY <2>1, <2>2, <2>4, Zenon DEF PassInv
  <2> QED
    BY <1>5, <2>1, <2>3, <2>5, Zenon
<1>10. CASE ReconcileAborts \/ ReconcileDone
  <2>1. overlap' = overlap /\ rec.todo = {}
    BY <1>10, Zenon DEF ReconcileAborts, ReconcileDone, PassInv
  <2>2. rec' = [pc |-> "idle", boot |-> FALSE, todo |-> rec.todo, sb |-> rec.sb, st |-> rec.st]
    BY <1>10, Zenon DEF ReconcileAborts, ReconcileDone, RecRec
  <2>3. rec' \in RecRec
    BY <2>2, Zenon DEF RecRec
  <2>4. PassInv'
    BY <2>1, <2>2, Zenon DEF PassInv
  <2> QED
    BY <1>5, <2>1, <2>3, <2>4, Zenon
<1> QED
  BY <1>6, <1>7, <1>8, <1>9, <1>10, Zenon DEF ReconcileStep

(* A guest that ends by itself.                                            *)
LEMMA ControlExit ==
    ASSUME ControlInv, NEW s \in Sandboxes, GuestExit(s)
    PROVE  ControlInv'
<1>1. /\ guest' = [guest EXCEPT ![s] = "stopped"] /\ guest \in [Sandboxes -> Rt!Guests]
      /\ UNCHANGED <<row, revived, unreserved, req, admissionMu, rec, overlap, raced, crashes>>
  BY Zenon DEF ControlInv, TypeOK, GuestExit, db, pass
<1>2. guest' \in [Sandboxes -> Rt!Guests]
  BY <1>1, Zenon DEF Rt!Guests
<1>3. TypeOK' /\ Apart' /\ LockInv' /\ PassInv'
  BY <1>1, <1>2, Zenon DEF ControlInv, TypeOK, Apart, LockInv, PassInv, InFlight, Busy
<1>4. \A r \in Requests : HandlerOK(r)'
  BY <1>1, Zenon DEF ControlInv, HandlerOK, InFlight, Known
<1> QED
  BY <1>3, <1>4, Zenon DEF ControlInv

(* The first pass is due after a crash.                                    *)
LEMMA CrashRec ==
    ASSUME ControlInv, Crash
    PROVE  rec' = [pc |-> "list", boot |-> TRUE, todo |-> {}, sb |-> AnyId, st |-> "stopped"]
<1>1. rec \in RecRec
  BY Zenon DEF ControlInv, TypeOK, RecRec
<1>2. rec' = [rec EXCEPT !.pc = "list", !.boot = TRUE, !.todo = {}, !.sb = AnyId, !.st = "stopped"]
  BY Zenon DEF Crash
<1> QED
  BY <1>1, <1>2, Zenon DEF RecRec

(* The requests a crash leaves behind are over.                            *)
LEMMA CrashMoves ==
    ASSUME ControlInv, Crash, NEW r \in Requests
    PROVE  /\ req' \in [Requests -> ReqRec] /\ req'[r].pc \in Final \cup {"idle"}
           /\ ~InFlight(r)'
<1>1. req \in [Requests -> ReqRec]
  BY Zenon DEF ControlInv, TypeOK, ReqRec
<1>2. \A q \in Requests : [req[q] EXCEPT !.pc = "lost", !.st = "absent"]
                            = [op |-> req[q].op, sb |-> req[q].sb, pc |-> "lost", st |-> "absent"]
  <2> SUFFICES ASSUME NEW o \in ReqRec
               PROVE  [o EXCEPT !.pc = "lost", !.st = "absent"]
                        = [op |-> o.op, sb |-> o.sb, pc |-> "lost", st |-> "absent"]
    BY <1>1, Zenon
  <2> DEFINE n == [op |-> o.op, sb |-> o.sb, pc |-> "lost", st |-> o.st]
  <2>1. [o EXCEPT !.pc = "lost"] = n
    BY DEF ReqRec
  <2>2. [n EXCEPT !.st = "absent"] = [op |-> o.op, sb |-> o.sb, pc |-> "lost", st |-> "absent"]
    OBVIOUS
  <2> QED
    BY <2>1, <2>2, Zenon
<1>3. req' = [q \in Requests |->
                 IF InFlight(q)
                 THEN [op |-> req[q].op, sb |-> req[q].sb, pc |-> "lost", st |-> "absent"]
                 ELSE req[q]]
  BY <1>2, Zenon DEF Crash
<1>4. req' \in [Requests -> ReqRec]
  BY <1>1, <1>3, Zenon DEF ReqRec, Pcs, RowStatus
<1>5. req'[r].pc \in Final \cup {"idle"}
  BY <1>3, Zenon DEF InFlight, Final
<1> QED
  BY <1>4, <1>5, Zenon DEF InFlight

(* A crash of the daemon.                                                  *)
LEMMA ControlCrash ==
    ASSUME ControlInv, Crash
    PROVE  ControlInv'
<1> /\ admissionMu' = {} /\ row' = row /\ guest' = guest /\ raced' = raced /\ overlap' = FALSE
    /\ revived' = revived /\ unreserved' = unreserved
    /\ crashes \in 0..MaxCrashes /\ crashes < MaxCrashes /\ crashes' = crashes + 1
  BY Zenon DEF Crash, ControlInv, TypeOK, db
<1>1. rec' = [pc |-> "list", boot |-> TRUE, todo |-> {}, sb |-> AnyId, st |-> "stopped"]
  BY CrashRec, Zenon
<1>2. crashes' \in 0..MaxCrashes
  BY ConstantsAssumption
<1>3. req' \in [Requests -> ReqRec]
  <2>1. CASE Requests = {}
    BY <2>1, Zenon DEF Crash
  <2>2. CASE Requests # {}
    BY <2>2, CrashMoves, Zenon
  <2> QED
    BY <2>1, <2>2, Zenon
<1>4. TypeOK'
  BY <1>1, <1>2, <1>3, AnyIdType, Zenon DEF ControlInv, TypeOK, ReqRec, Status
<1> \A r \in Requests : ~InFlight(r)' /\ req'[r].pc \in Final \cup {"idle"}
  BY CrashMoves, Zenon
<1>6. Apart' /\ LockInv'
  BY Zenon DEF Apart, LockInv, Final
<1>7. PassInv'
  BY <1>1, Zenon DEF PassInv
<1>8. \A r \in Requests : HandlerOK(r)'
  BY KnowsNothing, Zenon DEF HandlerOK
<1> QED
  BY <1>4, <1>6, <1>7, <1>8, Zenon DEF ControlInv

(* Any step.                                                               *)
LEMMA ControlStep ==
    ASSUME ControlInv, [Next]_vars
    PROVE  ControlInv'
<1>1. CASE Next
  BY <1>1, ControlIssue, ControlHandler, ControlReconcile, ControlExit, ControlCrash, Zenon DEF Next
<1>2. CASE UNCHANGED vars
  <2>1. UNCHANGED <<row, revived, unreserved, guest, req, admissionMu, rec, overlap, raced, crashes>>
    BY <1>2, Zenon DEF vars, db, pass
  <2>2. TypeOK' /\ Apart' /\ LockInv' /\ PassInv'
    BY <2>1, Zenon DEF ControlInv, TypeOK, Apart, LockInv, PassInv, InFlight, Busy
  <2>3. \A r \in Requests : HandlerOK(r)'
    BY <2>1, Zenon DEF ControlInv, HandlerOK, InFlight, Known
  <2> QED
    BY <2>2, <2>3, Zenon DEF ControlInv
<1> QED
  BY <1>1, <1>2, Zenon

(* The initial states.                                                     *)
LEMMA ControlInit ==
    ASSUME Init
    PROVE  ControlInv
<1> req \in [Requests -> ReqRec] /\ \A r \in Requests : req[r].pc = "idle"
  BY AnyIdType, Zenon DEF Init, ReqRec, AllOps, Pcs, RowStatus
<1>2. TypeOK
  <2>1. row \in [Sandboxes -> RowStatus]
    BY Zenon DEF Init, SettledStatus, RowStatus, Status
  <2>2. guest \in [Sandboxes -> Rt!Guests]
    BY Zenon DEF Init, SettledStatus, GuestOf, Rt!Guests
  <2>3. rec \in RecRec
    BY AnyIdType, Zenon DEF Init, RecRec, Status
  <2>4. admissionMu \in SUBSET Requests /\ crashes \in 0..MaxCrashes
    BY ConstantsAssumption DEF Init
  <2>5. {revived, unreserved, raced} \subseteq SUBSET Sandboxes /\ overlap \in BOOLEAN
    BY Zenon DEF Init
  <2> QED
    BY <2>1, <2>2, <2>3, <2>4, <2>5, Zenon DEF TypeOK, ReqRec, RecRec
<1>3. Apart /\ LockInv /\ PassInv
  BY Zenon DEF Init, Apart, LockInv, PassInv, InFlight
<1>4. \A r \in Requests : HandlerOK(r)
  BY KnowsNothing, Zenon DEF HandlerOK, InFlight
<1> QED
  BY <1>2, <1>3, <1>4, Zenon DEF ControlInv

(* The control of every reachable state: however requests, passes and      *)
(* crashes interleave, a handler that knows its row is not surprised by    *)
(* it, and no step forgets that a row exists.                              *)
LEMMA ControlInvHolds == Spec => []ControlInv
<1>1. Init => ControlInv
  BY ControlInit, Zenon
<1>2. ControlInv /\ [Next]_vars => ControlInv'
  BY ControlStep, Zenon
<1> QED
  BY <1>1, <1>2, PTL DEF Spec

(* Types are kept.                                                         *)
THEOREM TypeCorrect == Spec => []TypeOK
<1>1. ControlInv => TypeOK
  BY Zenon DEF ControlInv
<1> QED
  BY <1>1, ControlInvHolds, PTL

-----------------------------------------------------------------------------
(* Quotas and limits.                                                      *)

(* The rows of a tenant and the load of the node that are accounted for.   *)
Rows(t) == OwnedBy(t) \ revived
Load == Consuming \ unreserved

(* What was checked under the lock still holds at the insert.              *)
RoomInv ==
    \A r \in admissionMu :
        /\ \A t \in Tenants : IsCreate(req[r].op) /\ Owner[req[r].sb] = t
                              => Cardinality(Rows(t)) < MaxSandboxes
        /\ req[r].pc = "reserve" /\ req[r].op # "create"
             => ~Exceeds(MaxNodeRunning, Cardinality(Load) + 1)

(* What is inductive, given the control invariant.                         *)
CountInv == RoomInv /\ SandboxQuota /\ NodeCapacity

Counting == INSTANCE FiniteSetTheorems

(* The library counts as the model does.                                   *)
LEMMA SameCount ==
    \A S : /\ Counting!IsFiniteSet(S) <=> IsFiniteSet(S)
           /\ Counting!Cardinality(S) = Cardinality(S)
<1>1. \A S : Counting!IsFiniteSet(S) <=> IsFiniteSet(S)
  BY Zenon DEF Counting!IsFiniteSet, IsFiniteSet
<1>2. \A S : Counting!Cardinality(S) = Cardinality(S)
  BY Zenon DEF Counting!Cardinality, Cardinality
<1> QED
  BY <1>1, <1>2, Zenon

(* Every set of sandboxes is finite.                                       *)
LEMMA FiniteRows ==
    ASSUME NEW S \in SUBSET Sandboxes
    PROVE  IsFiniteSet(S) /\ Cardinality(S) \in Nat
BY FiniteAssumption, SameCount, Counting!FS_Subset, Counting!FS_CardinalityType, Zenon

(* A set that loses elements.                                              *)
LEMMA Smaller ==
    ASSUME NEW S \in SUBSET Sandboxes, NEW T \in SUBSET S
    PROVE  Cardinality(T) <= Cardinality(S)
BY FiniteRows, SameCount, Counting!FS_Subset, Zenon

(* A set that gains one element at most.                                   *)
LEMMA OneMore ==
    ASSUME NEW S \in SUBSET Sandboxes, NEW s \in Sandboxes, NEW T \in SUBSET (S \cup {s})
    PROVE  Cardinality(T) <= Cardinality(S) + 1
<1> IsFiniteSet(S) /\ Cardinality(S) \in Nat /\ S \cup {s} \subseteq Sandboxes
  BY FiniteRows, Zenon
<1>2. Cardinality(S \cup {s}) <= Cardinality(S) + 1
  <2>1. Cardinality(S \cup {s}) = IF s \in S THEN Cardinality(S) ELSE Cardinality(S) + 1
    BY SameCount, Counting!FS_AddElement, Zenon
  <2> QED
    BY <2>1
<1>3. Cardinality(T) <= Cardinality(S \cup {s})
  BY Smaller, Zenon
<1>4. Cardinality(T) \in Nat /\ Cardinality(S \cup {s}) \in Nat
  BY FiniteRows, Zenon
<1> QED
  BY <1>2, <1>3, <1>4

(* A limit that a larger number keeps.                                     *)
LEMMA Within ==
    ASSUME NEW limit \in Nat, NEW m \in Nat, NEW n \in Nat, n <= m, ~Exceeds(limit, m)
    PROVE  ~Exceeds(limit, n)
BY DEF Exceeds

(* The sets that are counted are sets of sandboxes.                        *)
LEMMA Counted ==
    /\ \A t : /\ OwnedBy(t) \subseteq Sandboxes
              /\ Rows(t) \subseteq Sandboxes /\ Rows(t)' \subseteq Sandboxes
              /\ Cardinality(OwnedBy(t)) \in Nat
              /\ Cardinality(Rows(t)) \in Nat /\ Cardinality(Rows(t)') \in Nat
              /\ Cardinality(Rows(t)) <= Cardinality(OwnedBy(t))
    /\ Consuming \subseteq Sandboxes /\ Load \subseteq Sandboxes /\ Load' \subseteq Sandboxes
    /\ Cardinality(Consuming) \in Nat /\ Cardinality(Load) \in Nat /\ Cardinality(Load') \in Nat
    /\ Cardinality(Load) <= Cardinality(Consuming)
    /\ MaxSandboxes \in Nat /\ MaxNodeRunning \in Nat
<1>1. /\ \A t : /\ OwnedBy(t) \subseteq Sandboxes /\ Rows(t) \subseteq Sandboxes
                /\ Rows(t)' \subseteq Sandboxes /\ Rows(t) \subseteq OwnedBy(t)
      /\ Consuming \subseteq Sandboxes /\ Load \subseteq Consuming
      /\ Load \subseteq Sandboxes /\ Load' \subseteq Sandboxes
  BY Zenon DEF Rows, Load, OwnedBy, Consuming, NonDeleted
<1>2. /\ \A t : Cardinality(Rows(t)) <= Cardinality(OwnedBy(t))
      /\ Cardinality(Load) <= Cardinality(Consuming)
  BY <1>1, Smaller, Zenon
<1>3. MaxSandboxes \in Nat /\ MaxNodeRunning \in Nat
  BY ConstantsAssumption, Zenon
<1> QED
  BY <1>1, <1>2, <1>3, FiniteRows, Zenon

(* A write of a status to a row that exists adds to neither set: a row     *)
(* that was deleted counts as revived, one that consumed nothing as        *)
(* unreserved.                                                             *)
LEMMA WritesAddNothing ==
    ASSUME TypeOK, NEW s \in Sandboxes, row[s] # "absent", NEW st, WriteRow(s, st)
    PROVE  (\A t : Rows(t)' \subseteq Rows(t)) /\ Load' \subseteq Load
<1> row \in [Sandboxes -> RowStatus] /\ row' = [row EXCEPT ![s] = st]
  BY Zenon DEF TypeOK, WriteRow
<1> row'[s] = st /\ \A u \in Sandboxes : u # s => row'[u] = row[u]
  OBVIOUS
<1>1. \A u : /\ u # s => (u \in revived' <=> u \in revived) /\ (u \in unreserved' <=> u \in unreserved)
  BY DEF WriteRow
<1>2. /\ s \notin revived' /\ st # "deleted" => s \notin revived /\ row[s] # "deleted"
      /\ s \notin unreserved' /\ consumesNodeRuntimeCapacity(st) =>
           s \notin unreserved /\ consumesNodeRuntimeCapacity(row[s])
  BY Zenon DEF WriteRow
<1>3. \A w : consumesNodeRuntimeCapacity(w) => w \notin {"absent", "deleted"}
  BY Zenon DEF consumesNodeRuntimeCapacity
<1>4. ASSUME NEW t PROVE Rows(t)' \subseteq Rows(t)
  BY <1>1, <1>2, Zenon DEF Rows, OwnedBy, NonDeleted
<1>5. Load' \subseteq Load
  BY <1>1, <1>2, <1>3, Zenon DEF Load, Consuming, NonDeleted
<1> QED
  BY <1>4, <1>5, Zenon

(* The step that inserts the row,                                          *)
Inserts(r) == req[r].pc = "reserve" /\ IsCreate(req[r].op)

(* and the step that lets a sandbox consume capacity.                      *)
Reserves(r) == req[r].pc = "reserve" /\ req[r].op # "create"

(* What a handler's step does to the sets that are counted.                *)
LEMMA CountEffects ==
    ASSUME ControlInv, NEW r \in Requests, RequestStep(r)
    PROVE  /\ \A t \in Tenants : Rows(t)' \subseteq Rows(t) \cup {req[r].sb}
           /\ \A t \in Tenants : ~Inserts(r) \/ Owner[req[r].sb] # t => Rows(t)' \subseteq Rows(t)
           /\ Load' \subseteq Load \cup {req[r].sb}
           /\ ~Reserves(r) => Load' \subseteq Load
<1> DEFINE s == req[r].sb
<1> s \in Sandboxes /\ row \in [Sandboxes -> RowStatus] /\ TypeOK
  BY Lockers, Zenon DEF ControlInv
<1>1. CASE UNCHANGED db
  BY <1>1, Zenon DEF db, Rows, Load, OwnedBy, Consuming, NonDeleted
<1>2. ASSUME req[r].pc \notin Early, NEW st, WriteRow(s, st)
      PROVE  (\A t \in Tenants : Rows(t)' \subseteq Rows(t)) /\ Load' \subseteq Load
  <2>1. row[s] # "absent"
    <3>1. InFlight(r)
      BY HandlerMoves, Zenon
    <3> QED
      BY <1>2, <3>1, Lockers, Zenon DEF HandlerOK, Stands, Alive
  <2> QED
    BY <1>2, <2>1, WritesAddNothing, Zenon
<1>3. CASE Reserve(r) /\ WriteReserved(s, ReservedStatus(req[r].op))
  <2> DEFINE st == ReservedStatus(req[r].op)
  <2> /\ row' = [row EXCEPT ![s] = st] /\ req[r].pc = "reserve"
      /\ revived' = IF row[s] = "deleted" THEN revived \cup {s} ELSE revived
      /\ unreserved' = unreserved \ {s}
    BY <1>3, Zenon DEF WriteReserved, Reserve
  <2> row'[s] = st /\ \A u \in Sandboxes : u # s => row'[u] = row[u]
    OBVIOUS
  <2>1. (s \in revived \/ row[s] = "deleted" => s \in revived')
        /\ \A u : u # s => (u \in revived' <=> u \in revived) /\ (u \in unreserved' <=> u \in unreserved)
    OBVIOUS
  <2>2. ~Inserts(r) => row[s] # "absent"
    <3>1. InFlight(r)
      BY HandlerMoves, Zenon
    <3> QED
      BY <3>1, Lockers, Zenon DEF HandlerOK, Stands, Alive, Inserts
  <2>3. ~Reserves(r) => ~consumesNodeRuntimeCapacity(st)
    BY Zenon DEF Reserves, ReservedStatus, consumesNodeRuntimeCapacity
  <2>4. ASSUME NEW t \in Tenants
        PROVE  /\ Rows(t)' \subseteq Rows(t) \cup {s}
               /\ ~Inserts(r) \/ Owner[s] # t => Rows(t)' \subseteq Rows(t)
    BY <2>1, <2>2, Zenon DEF Rows, OwnedBy, NonDeleted
  <2>5. Load' \subseteq Load \cup {s} /\ (~Reserves(r) => Load' \subseteq Load)
    BY <2>1, <2>3, Zenon DEF Load, Consuming, NonDeleted
  <2> QED
    BY <2>4, <2>5, Zenon
<1> QED
  BY <1>1, <1>2, <1>3, HandlerWrites, Zenon

(* A step that leaves its handler in the critical section has just checked *)
(* the quotas or the admission limits.                                     *)
LEMMA LockSteps ==
    ASSUME ControlInv, NEW r \in Requests, RequestStep(r), r \in admissionMu'
    PROVE  /\ UNCHANGED db
           /\ \/ QuotaOK(req[r].op, Owner[req[r].sb]) /\ req'[r].pc = "admit"
              \/ AdmissionOK(req[r].op, Owner[req[r].sb]) /\ r \in admissionMu
<1>1. CASE LockAndCheckQuota(r)
  <2>1. QuotaOK(req[r].op, Owner[req[r].sb]) /\ Goto(r, "admit") /\ UNCHANGED db
    BY <1>1, Zenon DEF LockAndCheckQuota
  <2>2. ReqMoved(r, "admit", req[r].st)
    BY <2>1, Lockers, GotoMoves, Zenon DEF Pcs
  <2> QED
    BY <2>1, <2>2, Zenon DEF ReqMoved
<1>2. CASE CheckAdmission(r)
  BY <1>2, Zenon DEF CheckAdmission
<1>3. CASE Reserve(r)
  BY <1>3, Zenon DEF Reserve
<1>4. CASE ~(LockAndCheckQuota(r) \/ CheckAdmission(r) \/ Reserve(r))
  <2>1. admissionMu' = admissionMu /\ req[r].pc \notin Holding
    <3>1. CASE RuntimeCreate(r) \/ RuntimeStep(r) \/ Persist(r) \/ PersistError(r)
      BY <3>1 DEF RuntimeCreate, RuntimeStep, Persist, PersistError, Holding
    <3>2. CASE Finish(r) \/ Rollback(r) \/ RollbackWrite(r) \/ GetRow(r)
      BY <3>2 DEF Finish, Rollback, RollbackWrite, GetRow, Holding
    <3>3. CASE Mark(r) \/ Touch(r) \/ DeleteGet(r) \/ DeleteMark(r)
      BY <3>3 DEF Mark, Touch, DeleteGet, DeleteMark, Holding
    <3>4. CASE DeleteDestroy(r) \/ DeleteStorage(r) \/ DeletePersist(r)
      BY <3>4 DEF DeleteDestroy, DeleteStorage, DeletePersist, Holding
    <3> QED
      BY <1>4, <3>1, <3>2, <3>3, <3>4, Zenon DEF RequestStep
  <2>2. admissionMu \ {r} = admissionMu
    BY <2>1, Lockers, Zenon
  <2> QED
    BY <2>1, <2>2, Zenon
<1> QED
  BY <1>1, <1>2, <1>3, <1>4, Zenon

(* Steps of handlers keep the counts within the limits.                    *)
LEMMA CountHandler ==
    ASSUME ControlInv, CountInv, NEW r \in Requests, RequestStep(r)
    PROVE  CountInv'
<1> DEFINE s == req[r].sb
<1>1. PICK p \in Pcs \ {"idle"}, st \in RowStatus :
        ReqMoved(r, p, st) /\ Framed(r) /\ Locked(r, p)
  BY HandlerMoves, Zenon DEF Moved
<1> /\ s \in Sandboxes /\ Owner[s] \in Tenants /\ req'[r].sb = s /\ req'[r].op = req[r].op
    /\ \A q \in Requests : q # r => req'[q] = req[q]
  BY <1>1, Lockers, ConstantsAssumption, Zenon DEF ReqMoved
<1>3. SandboxQuota'
  <2> SUFFICES ASSUME NEW t \in Tenants
               PROVE  Cardinality(Rows(t)') <= MaxSandboxes
    BY Zenon DEF SandboxQuota, Rows
  <2>1. CASE Inserts(r) /\ Owner[s] = t
    <3>1. admissionMu = {r} /\ IsCreate(req[r].op)
      BY <2>1, Lockers, Zenon DEF Inserts, Holding
    <3>2. Cardinality(Rows(t)) < MaxSandboxes
      BY <2>1, <3>1, Zenon DEF CountInv, RoomInv
    <3>3. Cardinality(Rows(t)') <= Cardinality(Rows(t)) + 1
      BY CountEffects, Counted, OneMore, Zenon
    <3> QED
      BY <3>2, <3>3, Counted
  <2>2. CASE ~(Inserts(r) /\ Owner[s] = t)
    <3>1. Cardinality(Rows(t)') <= Cardinality(Rows(t))
      BY <2>2, CountEffects, Counted, Smaller, Zenon
    <3>2. Cardinality(Rows(t)) <= MaxSandboxes
      BY Zenon DEF CountInv, SandboxQuota, Rows
    <3> QED
      BY <3>1, <3>2, Counted
  <2> QED
    BY <2>1, <2>2, Zenon
<1>4. NodeCapacity'
  <2>1. CASE Reserves(r)
    <3>1. admissionMu = {r}
      BY <2>1, Lockers, Zenon DEF Reserves, Holding
    <3>2. ~Exceeds(MaxNodeRunning, Cardinality(Load) + 1)
      BY <2>1, <3>1, Zenon DEF CountInv, RoomInv, Reserves
    <3>3. Cardinality(Load') <= Cardinality(Load) + 1
      BY CountEffects, Counted, OneMore, Zenon
    <3>4. ~Exceeds(MaxNodeRunning, Cardinality(Load'))
      BY <3>2, <3>3, Counted, Within
    <3> QED
      BY <3>4, Zenon DEF NodeCapacity, Load
  <2>2. CASE ~Reserves(r)
    <3>1. Cardinality(Load') <= Cardinality(Load)
      BY <2>2, CountEffects, Counted, Smaller, Zenon
    <3>2. ~Exceeds(MaxNodeRunning, Cardinality(Load))
      BY Zenon DEF CountInv, NodeCapacity, Load
    <3>3. ~Exceeds(MaxNodeRunning, Cardinality(Load'))
      BY <3>1, <3>2, Counted, Within, Zenon
    <3> QED
      BY <3>3, Zenon DEF NodeCapacity, Load
  <2> QED
    BY <2>1, <2>2, Zenon
<1>5. RoomInv'
  <2> SUFFICES ASSUME NEW q \in admissionMu'
               PROVE  /\ \A t \in Tenants : IsCreate(req'[q].op) /\ Owner[req'[q].sb] = t
                                            => Cardinality(Rows(t)') < MaxSandboxes
                      /\ req'[q].pc = "reserve" /\ req'[q].op # "create"
                           => ~Exceeds(MaxNodeRunning, Cardinality(Load') + 1)
    BY Zenon DEF RoomInv
  <2>1. CASE q = r
    <3>1. /\ UNCHANGED db
          /\ \/ QuotaOK(req[r].op, Owner[s]) /\ req'[r].pc = "admit"
             \/ AdmissionOK(req[r].op, Owner[s]) /\ r \in admissionMu
      BY <2>1, LockSteps, Zenon
    <3>2. (\A t \in Tenants : Rows(t)' = Rows(t)) /\ Load' = Load
      BY <3>1, Zenon DEF Rows, Load, OwnedBy, Consuming, NonDeleted, db
    <3>3. CASE QuotaOK(req[r].op, Owner[s]) /\ req'[r].pc = "admit"
      <4>1. IsCreate(req[r].op) => Cardinality(OwnedBy(Owner[s])) < MaxSandboxes
        BY <3>3, Zenon DEF QuotaOK
      <4>2. IsCreate(req[r].op) => Cardinality(Rows(Owner[s])) < MaxSandboxes
        BY <4>1, Counted
      <4> QED
        BY <2>1, <3>2, <3>3, <4>2, Zenon
    <3>4. CASE AdmissionOK(req[r].op, Owner[s]) /\ r \in admissionMu
      <4>1. req[r].op # "create" => ~Exceeds(MaxNodeRunning, Cardinality(Consuming) + 1)
        BY <3>4, Zenon DEF AdmissionOK
      <4>2. req[r].op # "create" => ~Exceeds(MaxNodeRunning, Cardinality(Load) + 1)
        BY <4>1, Counted DEF Exceeds
      <4> QED
        BY <2>1, <3>2, <3>4, <4>2, Zenon DEF CountInv, RoomInv
    <3> QED
      BY <3>1, <3>3, <3>4, Zenon
  <2>2. CASE q # r
    <3> q \in admissionMu /\ q \in Requests
      BY <1>1, <2>2, Zenon DEF Locked, ControlInv, TypeOK
    <3>2. req[r].pc \notin Holding
      BY <2>2, Lockers, Zenon
    <3>3. ~Inserts(r) /\ ~Reserves(r)
      BY <3>2, Zenon DEF Inserts, Reserves, Holding
    <3>4. req'[q] = req[q]
      BY <2>2, Zenon
    <3>5. \A t \in Tenants : Cardinality(Rows(t)') <= Cardinality(Rows(t))
      BY <3>3, CountEffects, Counted, Smaller, Zenon
    <3>6. Cardinality(Load') <= Cardinality(Load)
      BY <3>3, CountEffects, Counted, Smaller, Zenon
    <3>7. /\ \A t \in Tenants : IsCreate(req[q].op) /\ Owner[req[q].sb] = t
                                => Cardinality(Rows(t)) < MaxSandboxes
          /\ req[q].pc = "reserve" /\ req[q].op # "create"
               => ~Exceeds(MaxNodeRunning, Cardinality(Load) + 1)
      BY Zenon DEF CountInv, RoomInv
    <3> QED
      BY <3>4, <3>5, <3>6, <3>7, Counted DEF Exceeds
  <2> QED
    BY <2>1, <2>2, Zenon
<1> QED
  BY <1>3, <1>4, <1>5, Zenon DEF CountInv

(* A step that adds nothing and lets nobody into the critical section.     *)
LEMMA CountKept ==
    ASSUME CountInv, (\A t \in Tenants : Rows(t)' \subseteq Rows(t)) /\ Load' \subseteq Load,
           admissionMu' \subseteq admissionMu, \A r \in admissionMu' : req'[r] = req[r]
    PROVE  CountInv'
<1>1. /\ \A t \in Tenants : Cardinality(Rows(t)') <= Cardinality(Rows(t))
      /\ Cardinality(Load') <= Cardinality(Load)
  BY Counted, Smaller, Zenon
<1>2. /\ \A t \in Tenants : Cardinality(Rows(t)) <= MaxSandboxes
      /\ ~Exceeds(MaxNodeRunning, Cardinality(Load))
  BY Zenon DEF CountInv, SandboxQuota, NodeCapacity, Rows, Load
<1>3. /\ \A t \in Tenants : Cardinality(Rows(t)') <= MaxSandboxes
      /\ ~Exceeds(MaxNodeRunning, Cardinality(Load'))
  BY <1>1, <1>2, Counted DEF Exceeds
<1>4. RoomInv'
  BY <1>1, Counted DEF CountInv, RoomInv, Exceeds
<1> QED
  BY <1>3, <1>4, Zenon DEF CountInv, SandboxQuota, NodeCapacity, Rows, Load

(* The store is left alone.                                                *)
LEMMA NothingAdded ==
    ASSUME UNCHANGED db
    PROVE  (\A t \in Tenants : Rows(t)' \subseteq Rows(t)) /\ Load' \subseteq Load
BY Zenon DEF db, Rows, Load, OwnedBy, Consuming, NonDeleted

(* Any step keeps the counts within the limits.                            *)
LEMMA CountStep ==
    ASSUME ControlInv, CountInv, [Next]_vars
    PROVE  CountInv'
<1> admissionMu \subseteq Requests
  BY Zenon DEF ControlInv, TypeOK
<1>1. ASSUME NEW r \in Requests, Issue(r) PROVE CountInv'
  <2>1. /\ req[r].pc = "idle" /\ UNCHANGED db /\ admissionMu' = admissionMu
        /\ \A q \in Requests : q # r => req'[q] = req[q]
    BY <1>1, Lockers, Zenon DEF Issue
  <2>2. r \notin admissionMu
    BY <2>1, Zenon DEF ControlInv, LockInv
  <2> QED
    BY <2>1, <2>2, CountKept, NothingAdded, Zenon
<1>2. ASSUME NEW r \in Requests, RequestStep(r) PROVE CountInv'
  BY <1>2, CountHandler, Zenon
<1>3. CASE ReconcileStep
  <2>1. req' = req /\ admissionMu' = admissionMu
    BY <1>3, PassSteps, Zenon
  <2>2. (\A t \in Tenants : Rows(t)' \subseteq Rows(t)) /\ Load' \subseteq Load
    BY <1>3, PassSteps, PassWrites, WritesAddNothing, NothingAdded, Zenon DEF ControlInv
  <2> QED
    BY <2>1, <2>2, CountKept, Zenon
<1>4. ASSUME NEW s \in Sandboxes, GuestExit(s) PROVE CountInv'
  BY <1>4, CountKept, NothingAdded, Zenon DEF GuestExit
<1>5. CASE Crash
  <2>1. UNCHANGED db /\ admissionMu' = {}
    BY <1>5, Zenon DEF Crash
  <2> QED
    BY <2>1, CountKept, NothingAdded, Zenon
<1>6. CASE UNCHANGED vars
  BY <1>6, CountKept, NothingAdded, Zenon DEF vars
<1> QED
  BY <1>1, <1>2, <1>3, <1>4, <1>5, <1>6, Zenon DEF Next

(* The limits are kept in every reachable state.                           *)
LEMMA CountInvHolds == Spec => []CountInv
<1>1. Init => CountInv
  <2> SUFFICES ASSUME Init PROVE CountInv
    OBVIOUS
  <2>1. /\ \A t \in Tenants : Cardinality(OwnedBy(t)) <= MaxSandboxes
        /\ ~Exceeds(MaxNodeRunning, Cardinality(Consuming)) /\ admissionMu = {}
    BY Zenon DEF Init
  <2>2. /\ \A t \in Tenants : Cardinality(Rows(t)) <= MaxSandboxes
        /\ ~Exceeds(MaxNodeRunning, Cardinality(Load))
    BY <2>1, Counted DEF Exceeds
  <2> QED
    BY <2>1, <2>2, Zenon DEF CountInv, RoomInv, SandboxQuota, NodeCapacity, Rows, Load
<1>2. ControlInv /\ CountInv /\ [Next]_vars => CountInv'
  BY CountStep, Zenon
<1> QED
  BY <1>1, <1>2, ControlInvHolds, PTL DEF Spec

(* A tenant never holds more non-deleted sandboxes than its quota, but for *)
(* rows an old copy was written over after their delete: for every         *)
(* interleaving of requests, reconcile passes, faults and restarts.        *)
THEOREM SandboxQuotaHolds == Spec => []SandboxQuota
<1>1. CountInv => SandboxQuota
  BY Zenon DEF CountInv
<1> QED
  BY <1>1, CountInvHolds, PTL

(* The rows that consume capacity through a reservation never exceed the   *)
(* node's running limit, for every interleaving too.                       *)
THEOREM NodeCapacityHolds == Spec => []NodeCapacity
<1>1. CountInv => NodeCapacity
  BY Zenon DEF CountInv
<1> QED
  BY <1>1, CountInvHolds, PTL

-----------------------------------------------------------------------------
(* What a step of a handler does to the row of its sandbox.                *)

(* The steps that write, and what they write.                              *)
LEMMA RowWrites ==
    ASSUME ControlInv, NEW r \in Requests, RequestStep(r)
    PROVE  \/ row' = row
           \/ req[r].pc = "reserve" /\ row'[req[r].sb] = ReservedStatus(req[r].op)
           \/ req[r].pc \in {"persist", "rollbackwrite", "touch"} /\ row'[req[r].sb] = req[r].st
           \/ req[r].pc = "persisterr" /\ row'[req[r].sb] = "error"
           \/ req[r].pc = "mark" /\ row'[req[r].sb] \in {"suspending", "stopping"}
           \/ req[r].pc = "delmark" /\ row'[req[r].sb] = "deleting"
           \/ req[r].pc = "delpersist" /\ row'[req[r].sb] = "deleted"
<1>0. /\ \A st : WriteRow(req[r].sb, st) \/ WriteReserved(req[r].sb, st) => row'[req[r].sb] = st
      /\ UNCHANGED db => row' = row
  BY Lockers, Zenon DEF WriteRow, WriteReserved, db
<1>1. CASE LockAndCheckQuota(r) \/ CheckAdmission(r) \/ Reserve(r)
  BY <1>0, <1>1, Zenon DEF LockAndCheckQuota, CheckAdmission, Reserve, StoreFails, WriteLost
<1>2. CASE RuntimeCreate(r) \/ RuntimeStep(r) \/ Rollback(r) \/ DeleteDestroy(r)
  BY <1>0, <1>2, Zenon DEF RuntimeCreate, RuntimeStep, Rollback, DeleteDestroy
<1>3. CASE Persist(r) \/ PersistError(r) \/ Finish(r) \/ RollbackWrite(r)
  BY <1>0, <1>3, Zenon DEF Persist, PersistError, Finish, RollbackWrite, StoreFails, WriteLost
<1>4. CASE GetRow(r) \/ Mark(r) \/ Touch(r)
  BY <1>0, <1>4, Zenon DEF GetRow, Mark, Touch, StoreFails, WriteLost
<1>5. CASE DeleteGet(r) \/ DeleteMark(r) \/ DeleteStorage(r) \/ DeletePersist(r)
  BY <1>0, <1>5, Zenon DEF DeleteGet, DeleteMark, DeleteStorage, DeletePersist, StoreFails, WriteLost
<1> QED
  BY <1>1, <1>2, <1>3, <1>4, <1>5, Zenon DEF RequestStep

(* Which steps lead to the steps that rely on the guest.                   *)
LEMMA Targets ==
    ASSUME ControlInv, NEW r \in Requests, RequestStep(r)
    PROVE  /\ req'[r].op = req[r].op /\ req'[r].sb = req[r].sb
           /\ req'[r].pc = "rmstorage" => DeleteDestroy(r)
           /\ req'[r].pc = "delpersist" => DeleteStorage(r)
           /\ req'[r].pc = "rollbackwrite" => Rollback(r)
           /\ req'[r].pc = "persist" => RuntimeCreate(r) \/ RuntimeStep(r)
           /\ req'[r].pc = "runtime" => RuntimeCreate(r) \/ Reserve(r) \/ Mark(r)
<1> req'[r].op = req[r].op /\ req'[r].sb = req[r].sb
  <2>1. PICK p \in Pcs \ {"idle"}, st \in RowStatus : ReqMoved(r, p, st)
    BY HandlerMoves, Zenon DEF Moved
  <2> QED
    BY <2>1, Zenon DEF ReqMoved
<1> req \in [Requests -> ReqRec] /\ row[req[r].sb] \in RowStatus
  BY Lockers, Zenon
<1>2. ASSUME NEW p \in Pcs, Goto(r, p) PROVE req'[r].pc = p
  <2>1. ReqMoved(r, p, req[r].st)
    BY <1>2, GotoMoves, Zenon
  <2> QED
    BY <2>1, Zenon DEF ReqMoved
<1>3. ASSUME NEW p \in Final, Return(r, p) PROVE req'[r].pc = p
  <2>1. ReqMoved(r, p, "absent")
    BY <1>3, ReturnMoves, Zenon
  <2> QED
    BY <2>1, Zenon DEF ReqMoved
<1>4. ASSUME NEW p \in Pcs, NEW st \in RowStatus, GotoWith(r, p, st) PROVE req'[r].pc = p
  <2>1. ReqMoved(r, p, st)
    BY <1>4, GotoWithMoves, Zenon
  <2> QED
    BY <2>1, Zenon DEF ReqMoved
<1>5. CASE LockAndCheckQuota(r) \/ CheckAdmission(r)
  BY <1>2, <1>3, <1>5, Zenon DEF LockAndCheckQuota, CheckAdmission, Pcs, Final
<1>6. CASE Reserve(r)
  BY <1>2, <1>3, <1>6, Zenon DEF Reserve, StoreFails, Pcs, Final
<1>7. CASE RuntimeStep(r)
  <2>1. FinalStatus(req[r].op) \in RowStatus
    BY FinalStatuses, Zenon DEF RowStatus, Status
  <2>2. req'[r].pc \in {"persist", "rollback", "persisterr"}
    BY <1>2, <1>4, <1>7, <2>1, Zenon DEF RuntimeStep, Pcs
  <2> QED
    BY <1>7, <2>2, Zenon
<1>8. CASE RuntimeCreate(r)
  <2>1. req'[r].pc \in {"persist", "rollback", "runtime"}
    BY <1>2, <1>4, <1>8, Zenon DEF RuntimeCreate, Pcs, RowStatus, Status
  <2> QED
    BY <1>8, <2>1, Zenon
<1>9. CASE Rollback(r)
  <2>1. req'[r].pc = "rollbackwrite"
    BY <1>4, <1>9, Zenon DEF Rollback, Rt!May, Pcs, RowStatus, Status
  <2> QED
    BY <1>9, <2>1, Zenon
<1>10. CASE DeleteDestroy(r)
  <2>1. req'[r].pc \in {"rmstorage", "persisterr"}
    BY <1>2, <1>10, Zenon DEF DeleteDestroy, Pcs
  <2> QED
    BY <1>10, <2>1, Zenon
<1>11. CASE Persist(r) \/ PersistError(r) \/ Finish(r) \/ RollbackWrite(r)
  BY <1>2, <1>3, <1>11, Zenon DEF Persist, PersistError, Finish, RollbackWrite, StoreFails, Pcs, Final
<1>12. CASE GetRow(r) \/ Touch(r)
  BY <1>2, <1>3, <1>4, <1>12, Zenon DEF GetRow, Touch, StoreFails, Pcs, Final
<1>13. CASE Mark(r)
  BY <1>2, <1>3, <1>13, Zenon DEF Mark, StoreFails, Pcs, Final
<1>14. CASE DeleteGet(r) \/ DeleteMark(r) \/ DeletePersist(r)
  BY <1>2, <1>3, <1>14, Zenon DEF DeleteGet, DeleteMark, DeletePersist, StoreFails, Pcs, Final
<1>15. CASE DeleteStorage(r)
  BY <1>2, <1>3, <1>15, Zenon DEF DeleteStorage, Pcs, Final
<1> QED
  BY <1>5, <1>6, <1>7, <1>8, <1>9, <1>10, <1>11, <1>12, <1>13, <1>14, <1>15, Zenon DEF RequestStep

(* A handler knows its row and status.                                     *)
LEMMA Facts ==
    ASSUME ControlInv, NEW r \in Requests
    PROVE  /\ req[r].pc = "rtcreate" => IsCreate(req[r].op)
           /\ req[r].pc = "runtime" => req[r].op \in AllOps \ {"create", "touch"}
           /\ req[r].pc = "persist" => req[r].st = FinalStatus(req[r].op)
           /\ req[r].pc = "rollbackwrite" => req[r].st \in {"deleted", "error"}
           /\ req[r].pc = "touch" => Alive(req[r].st)
           /\ Known(req[r].sb) =>
                /\ req[r].pc \in {"rtcreate", "runtime"} => row[req[r].sb] = MarkedStatus(req[r].op)
                /\ req[r].pc = "destroy" => row[req[r].sb] = "deleting"
                /\ req[r].pc = "touch" => req[r].st = row[req[r].sb]
                /\ req[r].pc = "reserve" /\ req[r].op = "resume" => row[req[r].sb] = "suspended"
                /\ req[r].pc = "mark" /\ req[r].op = "suspend" => row[req[r].sb] = "running"
                /\ req[r].pc = "reserve" => req[r].op # "suspend"
                /\ req[r].pc = "mark" => req[r].op # "resume"
<1> DEFINE o == req[r]
<1> o.op \in AllOps /\ Knows(o.op, o.pc, o.st, row[o.sb], Known(o.sb))
  BY Lockers, Relies, Zenon
<1>1. CASE o.pc = "reserve"
  BY <1>1, KnowsStarting DEF Early
<1>2. CASE o.pc \in {"rtcreate", "runtime"}
  BY <1>2, KnowsStarting DEF Early
<1>3. CASE o.pc \in {"persist", "rollbackwrite"}
  BY <1>3, KnowsOutcome, KnowsRollback
<1>4. CASE o.pc \in {"touch", "mark"}
  BY <1>4, KnowsRunning
<1>5. CASE o.pc = "destroy"
  BY <1>5, KnowsDelete
<1> QED
  BY <1>1, <1>2, <1>3, <1>4, <1>5, Zenon

-----------------------------------------------------------------------------
(* The host.                                                               *)

(* Nothing is left but a process that could not be killed.                 *)
Gone(g) == g = "none" \/ ("stop" \in Faults /\ g = "leaked")

(* A handler that has destroyed the sandbox.                               *)
Destroyed(r) ==
    \/ req[r].pc \in {"rmstorage", "delpersist"}
    \/ req[r].pc = "rollbackwrite" /\ req[r].st = "deleted"

(* What is on the host.                                                    *)
HostInv ==
    /\ \A s \in Sandboxes : guest[s] = "leaked" => "stop" \in Faults
    /\ \A s \in Sandboxes : row[s] = "deleted" => Gone(guest[s])
    /\ \A r \in Requests : Destroyed(r) => Gone(guest[req[r].sb])

(* What a step of a handler does to the guest of its sandbox.              *)
LEMMA HostEffects ==
    ASSUME Serial, ControlInv, HostInv, NEW r \in Requests, RequestStep(r)
    PROVE  /\ guest'[req[r].sb] = "leaked" => "stop" \in Faults
           /\ row'[req[r].sb] = "deleted" => Gone(guest'[req[r].sb])
           /\ Destroyed(r)' => Gone(guest'[req[r].sb])
<1> DEFINE o == req[r]
           g == guest[o.sb]
<1> /\ HandlerOK(r) /\ o.sb \in Sandboxes /\ g \in Rt!Guests /\ (g = "leaked" => "stop" \in Faults)
    /\ guest \in [Sandboxes -> Rt!Guests] /\ o.op \in AllOps /\ row \in [Sandboxes -> RowStatus]
  BY Lockers, Zenon DEF HostInv
<1> row[o.sb] # "deleted"
  <2>1. InFlight(r)
    BY HandlerMoves, Zenon
  <2> QED
    BY <2>1, Zenon DEF HandlerOK, Stands, Alive
<1>1. ASSUME NEW out \in Rt!Destroy(g)
      PROVE  (out[1] = "leaked" => "stop" \in Faults) /\ (out[2] = "ok" => Gone(out[1]))
  BY <1>1, DestroyOutcomes, Zenon DEF Gone
<1>2. CASE DeleteDestroy(r)
  <2>1. PICK out \in Rt!Destroy(g) :
          /\ guest' = [guest EXCEPT ![o.sb] = out[1]]
          /\ Goto(r, IF out[2] = "ok" THEN "rmstorage" ELSE "persisterr")
    BY <1>2, Zenon DEF DeleteDestroy
  <2>2. row' = row /\ guest'[o.sb] = out[1]
    BY <1>2, <2>1, Zenon DEF DeleteDestroy, db
  <2>3. (out[1] = "leaked" => "stop" \in Faults) /\ (out[2] = "ok" => Gone(out[1]))
    BY <1>1, <2>1, Zenon
  <2>4. ReqMoved(r, IF out[2] = "ok" THEN "rmstorage" ELSE "persisterr", o.st)
    BY <2>1, Lockers, GotoMoves, Zenon DEF Pcs
  <2> QED
    BY <2>2, <2>3, <2>4, Zenon DEF ReqMoved, Destroyed
<1>3. CASE Rollback(r)
  <2>1. PICK out \in Rt!Destroy(g), st \in {"deleted", "error"} :
          /\ guest' = [guest EXCEPT ![o.sb] = out[1]]
          /\ GotoWith(r, "rollbackwrite", st)
          /\ st = "deleted" => out[2] = "ok"
    BY <1>3, Zenon DEF Rollback, Rt!May
  <2>2. row' = row /\ guest'[o.sb] = out[1]
    BY <1>3, <2>1, Zenon DEF Rollback, db
  <2>3. (out[1] = "leaked" => "stop" \in Faults) /\ (out[2] = "ok" => Gone(out[1]))
    BY <1>1, <2>1, Zenon
  <2>4. ReqMoved(r, "rollbackwrite", st)
    BY <2>1, Lockers, GotoWithMoves, Zenon DEF Pcs, RowStatus, Status
  <2> QED
    BY <2>1, <2>2, <2>3, <2>4, Zenon DEF ReqMoved, Destroyed
<1>4. CASE RuntimeCreate(r)
  <2>1. PICK out \in Rt!Create(g) : guest' = [guest EXCEPT ![o.sb] = out[1]]
    BY <1>4, Zenon DEF RuntimeCreate
  <2>2. row' = row /\ guest'[o.sb] = out[1] /\ o.pc = "rtcreate"
    BY <1>4, <2>1, Zenon DEF RuntimeCreate, db
  <2>3. out[1] = "leaked" => "stop" \in Faults
    BY <2>1, CreateOutcomes, Zenon
  <2>4. ~DeleteDestroy(r) /\ ~DeleteStorage(r) /\ ~Rollback(r)
    BY <2>2, Zenon DEF DeleteDestroy, DeleteStorage, Rollback
  <2> QED
    BY <2>2, <2>3, <2>4, Targets, Zenon DEF Destroyed
<1>5. CASE RuntimeStep(r)
  <2>1. PICK out \in RuntimeCall(o.op, g) : guest' = [guest EXCEPT ![o.sb] = out[1]]
    BY <1>5, Zenon DEF RuntimeStep
  <2> row' = row /\ guest'[o.sb] = out[1] /\ o.pc = "runtime"
    BY <1>5, <2>1, Zenon DEF RuntimeStep, db
  <2>3. out[1] = "leaked" => "stop" \in Faults
    BY <2>1, Facts, CallOutcomes, Zenon
  <2>4. ~DeleteDestroy(r) /\ ~DeleteStorage(r) /\ ~Rollback(r)
    BY Zenon DEF DeleteDestroy, DeleteStorage, Rollback
  <2> QED
    BY <2>3, <2>4, Targets, Zenon DEF Destroyed
<1>6. CASE guest' = guest /\ ~DeleteDestroy(r) /\ ~Rollback(r)
  <2>1. row'[o.sb] = "deleted" => Destroyed(r)
    <3>1. o.pc = "persist" => o.st # "deleted"
      BY Facts, FinalStatuses, Zenon
    <3>2. o.pc = "touch" => o.st # "deleted"
      BY Facts, Zenon DEF Alive
    <3> QED
      BY <3>1, <3>2, RowWrites, Zenon DEF ReservedStatus, Destroyed
  <2>2. Destroyed(r)' => Destroyed(r)
    BY <1>6, Targets, Zenon DEF DeleteStorage, Destroyed
  <2> QED
    BY <1>6, <2>1, <2>2, Zenon DEF HostInv
<1>7. DeleteDestroy(r) \/ Rollback(r) \/ RuntimeCreate(r) \/ RuntimeStep(r) \/ guest' = guest
  BY Zenon DEF RequestStep, LockAndCheckQuota, CheckAdmission, Reserve, Persist, PersistError, Finish,
     RollbackWrite, GetRow, Mark, Touch, DeleteGet, DeleteMark, DeleteStorage, DeletePersist
<1> QED
  BY <1>2, <1>3, <1>4, <1>5, <1>6, <1>7, Zenon

(* A request in flight keeps its row and guest while another one moves.    *)
LEMMA OthersKept ==
    ASSUME Serial, ControlInv, NEW r \in Requests, RequestStep(r)
    PROVE  /\ \A q \in Requests : q # r => req'[q] = req[q]
           /\ \A q \in Requests : q # r /\ InFlight(q) =>
                guest'[req[q].sb] = guest[req[q].sb] /\ req[q].sb # req[r].sb
           /\ \A s \in Sandboxes : s # req[r].sb => row'[s] = row[s] /\ guest'[s] = guest[s]
           /\ UNCHANGED <<rec, overlap, raced>> /\ ~rec.boot
<1>1. PICK p \in Pcs \ {"idle"}, st \in RowStatus : ReqMoved(r, p, st) /\ Framed(r)
  BY HandlerMoves, Zenon DEF Moved
<1>2. InFlight(r)
  BY HandlerMoves, Zenon
<1>3. \A q \in Requests : q # r /\ InFlight(q) => req[q].sb # req[r].sb /\ req[q].sb \in Sandboxes
  BY <1>2, Lockers, Zenon DEF ControlInv, Apart
<1>4. ~rec.boot
  BY <1>2, Zenon DEF ControlInv, PassInv
<1> QED
  BY <1>1, <1>3, <1>4, Zenon DEF ReqMoved, Framed

(* Requests that arrive are at their first step.                           *)
LEMMA Arrives ==
    ASSUME ControlInv, NEW r \in Requests, Issue(r)
    PROVE  /\ UNCHANGED <<row, guest, rec, raced>> /\ (overlap => overlap')
           /\ req[r].pc = "idle" /\ req'[r].pc \in {"lock", "delget", "get"}
           /\ \A q \in Requests : q # r => req'[q] = req[q]
<1>1. PICK op \in Ops, s \in Sandboxes :
        /\ req' = [req EXCEPT ![r] = [op |-> op, sb |-> s, pc |-> EntryPc(op), st |-> row[s]]]
        /\ overlap' = (overlap \/ (rec.pc = "write" /\ rec.sb = s))
  BY Zenon DEF Issue
<1>2. EntryPc(op) \in {"lock", "delget", "get"}
  BY ConstantsAssumption, EntryPcs, Zenon
<1> QED
  BY <1>1, <1>2, Lockers, Zenon DEF Issue, db

(* Any step keeps what is known of the host.                               *)
LEMMA HostStep ==
    ASSUME Serial, ControlInv, HostInv, [Next]_vars
    PROVE  HostInv'
<1>1. ASSUME NEW r \in Requests, RequestStep(r) PROVE HostInv'
  <2>1. /\ guest'[req[r].sb] = "leaked" => "stop" \in Faults
        /\ row'[req[r].sb] = "deleted" => Gone(guest'[req[r].sb])
        /\ Destroyed(r)' => Gone(guest'[req[r].sb])
    BY <1>1, HostEffects, Zenon
  <2>2. req'[r].sb = req[r].sb
    BY <1>1, Targets, Zenon
  <2>3. \A s \in Sandboxes : /\ guest'[s] = "leaked" => "stop" \in Faults
                             /\ row'[s] = "deleted" => Gone(guest'[s])
    BY <1>1, <2>1, OthersKept, Zenon DEF HostInv
  <2>4. ASSUME NEW q \in Requests, Destroyed(q)' PROVE Gone(guest'[req'[q].sb])
    <3>1. CASE q = r
      BY <2>1, <2>2, <2>4, <3>1, Zenon
    <3>2. CASE q # r
      <4>1. req'[q] = req[q]
        BY <1>1, <3>2, OthersKept, Zenon
      <4>2. Destroyed(q) /\ InFlight(q)
        BY <2>4, <4>1, Zenon DEF InFlight, Final, Destroyed
      <4>3. guest'[req[q].sb] = guest[req[q].sb]
        BY <1>1, <3>2, <4>2, OthersKept, Zenon
      <4> QED
        BY <4>1, <4>2, <4>3, Zenon DEF HostInv
    <3> QED
      BY <3>1, <3>2, Zenon
  <2> QED
    BY <2>3, <2>4, Zenon DEF HostInv
<1>2. ASSUME NEW r \in Requests, Issue(r) PROVE HostInv'
  <2>1. \A q \in Requests : Destroyed(q)' => q # r
    BY <1>2, Arrives, Zenon DEF Destroyed
  <2>2. \A q \in Requests : Destroyed(q)' => Destroyed(q) /\ req'[q] = req[q]
    BY <1>2, <2>1, Arrives, Zenon DEF Destroyed
  <2> QED
    BY <1>2, <2>2, Arrives, Zenon DEF HostInv
<1>3. CASE ReconcileStep
  <2>1. guest' = guest /\ req' = req
    BY <1>3, PassSteps, Zenon
  <2>2. \A s \in Sandboxes : row'[s] = "deleted" => row[s] = "deleted"
    <3>1. CASE ReconcileWrite
      <4>1. /\ row' = [row EXCEPT ![rec.sb] = Written(rec.st)] /\ row \in [Sandboxes -> RowStatus]
            /\ Written(rec.st) # "deleted"
        BY <3>1, PassWrites, Zenon DEF Seen, ControlInv, TypeOK
      <4> QED
        BY <4>1, Zenon
    <3>2. CASE UNCHANGED db
      BY <3>2, Zenon DEF db
    <3> QED
      BY <1>3, <3>1, <3>2, PassSteps, Zenon
  <2> QED
    BY <2>1, <2>2, Zenon DEF HostInv, Destroyed
<1>4. ASSUME NEW s \in Sandboxes, GuestExit(s) PROVE HostInv'
  <2>1. /\ row' = row /\ req' = req /\ ~Gone(guest[s]) /\ guest' = [guest EXCEPT ![s] = "stopped"]
        /\ guest \in [Sandboxes -> Rt!Guests]
    BY <1>4, Zenon DEF GuestExit, ControlInv, TypeOK, Gone, db
  <2>2. \A u \in Sandboxes : /\ Gone(guest[u]) => Gone(guest'[u])
                             /\ guest'[u] = "leaked" => guest[u] = "leaked"
    BY <2>1, Zenon
  <2>3. \A q \in Requests : req[q].sb \in Sandboxes
    BY Lockers, Zenon
  <2> QED
    BY <2>1, <2>2, <2>3, Zenon DEF HostInv, Destroyed
<1>5. CASE Crash
  <2>1. row' = row /\ guest' = guest
    BY <1>5, Zenon DEF Crash, db
  <2>2. \A q \in Requests : ~Destroyed(q)'
    BY <1>5, CrashMoves, Zenon DEF Final, Destroyed
  <2> QED
    BY <2>1, <2>2, Zenon DEF HostInv
<1>6. CASE UNCHANGED vars
  BY <1>6, Zenon DEF vars, db, HostInv, Destroyed
<1> QED
  BY <1>1, <1>2, <1>3, <1>4, <1>5, <1>6, Zenon DEF Next

(* What is known of the host holds in every reachable state.               *)
LEMMA HostInvHolds ==
    ASSUME Serial
    PROVE  Spec => []HostInv
<1>1. Init => HostInv
  <2> SUFFICES ASSUME Init PROVE HostInv
    OBVIOUS
  <2>1. \A s \in Sandboxes : guest[s] # "leaked" /\ (row[s] = "deleted" => guest[s] = "none")
    BY Zenon DEF Init, GuestOf, SettledStatus
  <2>2. \A r \in Requests : req[r].pc = "idle"
    BY Zenon DEF Init
  <2> QED
    BY <2>1, <2>2, Zenon DEF HostInv, Destroyed, Gone
<1>2. ControlInv /\ HostInv /\ [Next]_vars => HostInv'
  BY HostStep, Zenon
<1> QED
  BY <1>1, <1>2, ControlInvHolds, PTL DEF Spec

(* With clients that do not overlap calls on one sandbox nothing is left   *)
(* on the host of a deleted sandbox but a process that could not be        *)
(* killed, whatever reconcile passes, faults and restarts come in between. *)
THEOREM DeletedHasNoGuestHolds ==
    ASSUME Serial
    PROVE  Spec => []DeletedHasNoGuest
<1>1. HostInv => DeletedHasNoGuest
  BY Zenon DEF HostInv, DeletedHasNoGuest, Gone
<1> QED
  BY <1>1, HostInvHolds, PTL

-----------------------------------------------------------------------------
(* The truth of settled rows.                                              *)

(* Processes can be killed and do not end by themselves, and the store     *)
(* answers.                                                                *)
Reliable == Faults \cap {"stop", "exit", "store"} = {}

(* A create of s failed, and is being taken back.                          *)
RollingBack(s) ==
    \E r \in Requests : req[r].pc \in {"rollback", "rollbackwrite"} /\ req[r].sb = s

(* What a handler relies on of its guest.                                  *)
GuestOK(r) ==
    /\ req[r].pc = "persist" => Says(req[r].st, guest[req[r].sb])
    /\ req[r].pc = "runtime" /\ req[r].op \in {"resume", "suspend"}
         => guest[req[r].sb] \in {"running", "suspended"}

(* The rows no overlapping pass wrote are true, but for those of a create  *)
(* that is taken back and those the first pass has not reached.            *)
TruthInv ==
    /\ ~rec.boot => \A s \in Sandboxes \ raced : Says(row[s], guest[s]) \/ RollingBack(s)
    /\ rec.boot /\ rec.pc \in {"next", "write"} =>
         \A s \in Sandboxes \ (raced \cup rec.todo) :
            (rec.pc = "write" => s # rec.sb) => Says(row[s], guest[s])
    /\ rec.pc = "write" /\ ~overlap => Says(rec.st, guest[rec.sb])
    /\ \A r \in Requests : req[r].sb \notin raced => GuestOK(r)

(* What a step of a handler does to the truth of its row.                  *)
LEMMA TruthEffects ==
    ASSUME Serial, Reliable, ControlInv, HostInv, TruthInv, NEW r \in Requests, RequestStep(r),
           req[r].sb \notin raced
    PROVE  /\ \/ Says(row'[req[r].sb], guest'[req[r].sb])
              \/ req'[r].pc \in {"rollback", "rollbackwrite"}
           /\ req'[r].pc = "persist" => Says(req'[r].st, guest'[req[r].sb])
           /\ req'[r].pc = "runtime" /\ req'[r].op \in {"resume", "suspend"}
                => guest'[req[r].sb] \in {"running", "suspended"}
<1> DEFINE o == req[r]
           g == guest[o.sb]
<1> /\ o.sb \in Sandboxes /\ g \in Rt!Guests /\ Known(o.sb)
    /\ guest \in [Sandboxes -> Rt!Guests] /\ o.op \in AllOps /\ row \in [Sandboxes -> RowStatus]
  BY Lockers, Zenon DEF Known
<1> o.pc \notin {"rollback", "rollbackwrite"} => Says(row[o.sb], g)
  <2>1. \A q \in Requests : req[q].pc \in {"rollback", "rollbackwrite"} /\ req[q].sb = o.sb => q = r
    BY OthersKept, Zenon DEF InFlight, Final
  <2> QED
    BY <2>1, OthersKept, Zenon DEF TruthInv, RollingBack
<1>2. ASSUME NEW st, NEW h, st \notin {"running", "suspended", "stopped"} PROVE Says(st, h)
  BY <1>2, Zenon DEF Says
<1>3. CASE Rollback(r)
  <2>1. PICK out \in Rt!Destroy(g), st \in {"deleted", "error"} : GotoWith(r, "rollbackwrite", st)
    BY <1>3, Zenon DEF Rollback, Rt!May
  <2>2. ReqMoved(r, "rollbackwrite", st)
    BY <2>1, Lockers, GotoWithMoves, Zenon DEF Pcs, RowStatus, Status
  <2> QED
    BY <2>2, Zenon DEF ReqMoved
<1>4. CASE DeleteDestroy(r)
  <2> row' = row /\ o.pc = "destroy"
    BY <1>4, Zenon DEF DeleteDestroy, db
  <2>2. row[o.sb] = "deleting"
    BY Facts, Zenon
  <2>3. req'[r].pc \notin {"persist", "runtime"}
    BY Targets, Zenon DEF RuntimeCreate, RuntimeStep, Reserve, Mark
  <2> QED
    BY <1>2, <2>2, <2>3, Zenon
<1>5. CASE RuntimeCreate(r)
  <2>1. PICK out \in Rt!Create(g) :
          /\ guest' = [guest EXCEPT ![o.sb] = out[1]]
          /\ IF out[2] = "err" THEN Goto(r, "rollback")
             ELSE IF o.op = "createStart" THEN Goto(r, "runtime")
             ELSE GotoWith(r, "persist", "stopped")
    BY <1>5, Zenon DEF RuntimeCreate
  <2>2. row' = row /\ o.pc = "rtcreate" /\ guest'[o.sb] = out[1]
    BY <1>5, <2>1, Zenon DEF RuntimeCreate, db
  <2>3. IsCreate(o.op) /\ row[o.sb] = MarkedStatus(o.op)
    BY <2>2, Facts, Zenon
  <2>4. Says(row[o.sb], out[1])
    BY <2>3, Zenon DEF Says, MarkedStatus, IsCreate
  <2>5. \/ ReqMoved(r, "rollback", o.st)
        \/ ReqMoved(r, "runtime", o.st)
        \/ ReqMoved(r, "persist", "stopped") /\ out[2] # "err"
    BY <2>1, Lockers, GotoMoves, GotoWithMoves, Zenon DEF Pcs, RowStatus, Status
  <2>6. out[2] # "err" => Says("stopped", out[1])
    BY <2>1, CreateOutcomes, Zenon DEF Says
  <2> QED
    BY <2>2, <2>3, <2>4, <2>5, <2>6, Zenon DEF ReqMoved, IsCreate
<1>6. CASE RuntimeStep(r)
  <2>1. PICK out \in RuntimeCall(o.op, g) :
          /\ guest' = [guest EXCEPT ![o.sb] = out[1]]
          /\ IF out[2] # "err" THEN GotoWith(r, "persist", FinalStatus(o.op))
             ELSE IF o.op = "createStart" THEN Goto(r, "rollback")
             ELSE Goto(r, "persisterr")
    BY <1>6, Zenon DEF RuntimeStep
  <2> row' = row /\ o.pc = "runtime" /\ guest'[o.sb] = out[1]
    BY <1>6, <2>1, Zenon DEF RuntimeStep, db
  <2>3. o.op \in AllOps \ {"create", "touch"} /\ row[o.sb] = MarkedStatus(o.op)
    BY Facts, Zenon
  <2>4. Says(row[o.sb], out[1])
    BY <2>3, Zenon DEF Says, MarkedStatus
  <2>5. FinalStatus(o.op) \in RowStatus
    BY FinalStatuses, Zenon DEF RowStatus, Status
  <2>6. \/ ReqMoved(r, "persist", FinalStatus(o.op)) /\ out[2] # "err"
        \/ ReqMoved(r, "rollback", o.st)
        \/ ReqMoved(r, "persisterr", o.st)
    BY <2>1, <2>5, Lockers, GotoMoves, GotoWithMoves, Zenon DEF Pcs
  <2>7. o.op \in {"resume", "suspend"} => g \in {"running", "suspended"}
    BY Zenon DEF TruthInv, GuestOK
  <2>8. out[2] # "err" => Says(FinalStatus(o.op), out[1])
    BY <2>1, <2>3, <2>7, CallOutcomes, Zenon DEF Reliable
  <2> QED
    BY <2>4, <2>6, <2>8, Zenon DEF ReqMoved
<1>7. CASE guest' = guest /\ ~Rollback(r) /\ ~RuntimeCreate(r) /\ ~RuntimeStep(r)
  <2>1. Says(row'[o.sb], g) \/ req'[r].pc \in {"rollback", "rollbackwrite"}
    <3>1. CASE o.pc = "rollbackwrite"
      <4>1. WriteRow(o.sb, o.st)
        BY <3>1, Zenon DEF Reliable, RequestStep, LockAndCheckQuota, CheckAdmission, Reserve, RuntimeCreate,
           RuntimeStep, Persist, PersistError, Finish, Rollback, RollbackWrite, GetRow, Mark, Touch,
           DeleteGet, DeleteMark, DeleteDestroy, DeleteStorage, DeletePersist
      <4>2. o.st \in {"deleted", "error"} /\ row'[o.sb] = o.st
        BY <3>1, <4>1, Facts, Zenon DEF WriteRow
      <4> QED
        BY <1>2, <4>2, Zenon
    <3>2. CASE o.pc = "persist"
      BY <3>2, RowWrites, Zenon DEF TruthInv, GuestOK
    <3>3. CASE o.pc = "touch"
      BY <3>3, RowWrites, Facts, Zenon
    <3>4. CASE o.pc \notin {"rollbackwrite", "persist", "touch"}
      <4>1. o.pc # "rollback"
        BY <1>7, Zenon DEF RequestStep, LockAndCheckQuota, CheckAdmission, Reserve,
           Persist, PersistError, Finish, RollbackWrite, GetRow, Mark, Touch,
           DeleteGet, DeleteMark, DeleteDestroy, DeleteStorage, DeletePersist
      <4> QED
        BY <1>2, <3>4, <4>1, RowWrites, Zenon DEF ReservedStatus
    <3> QED
      BY <3>1, <3>2, <3>3, <3>4, Zenon
  <2>2. req'[r].pc # "persist"
    BY <1>7, Targets, Zenon
  <2>3. req'[r].pc = "runtime" /\ o.op \in {"resume", "suspend"} => g \in {"running", "suspended"}
    <3>1. req'[r].pc = "runtime" => Reserve(r) \/ Mark(r)
      BY <1>7, Targets, Zenon
    <3>2. Reserve(r) /\ o.op \in {"resume", "suspend"} => row[o.sb] = "suspended" /\ o.pc = "reserve"
      BY Facts, Zenon DEF Reserve
    <3>3. Mark(r) /\ o.op \in {"resume", "suspend"} => row[o.sb] = "running" /\ o.pc = "mark"
      BY Facts, Zenon DEF Mark
    <3> QED
      BY <3>1, <3>2, <3>3, Zenon DEF Says
  <2> QED
    BY <1>7, <2>1, <2>2, <2>3, Targets, Zenon
<1>8. DeleteDestroy(r) \/ Rollback(r) \/ RuntimeCreate(r) \/ RuntimeStep(r) \/ guest' = guest
  BY Zenon DEF RequestStep, LockAndCheckQuota, CheckAdmission, Reserve, Persist, PersistError, Finish,
     RollbackWrite, GetRow, Mark, Touch, DeleteGet, DeleteMark, DeleteStorage, DeletePersist
<1> QED
  BY <1>3, <1>4, <1>5, <1>6, <1>7, <1>8, Zenon

(* Steps of handlers keep rows true.                                       *)
LEMMA TruthHandler ==
    ASSUME Serial, Reliable, ControlInv, HostInv, TruthInv, NEW r \in Requests, RequestStep(r)
    PROVE  TruthInv'
<1> UNCHANGED <<rec, overlap, raced>> /\ ~rec.boot
  BY OthersKept, Zenon
<1>2. req'[r].sb = req[r].sb /\ req'[r].op = req[r].op /\ req[r].sb \in Sandboxes
  BY Targets, Lockers, Zenon
<1>3. ASSUME NEW s \in Sandboxes \ raced PROVE Says(row'[s], guest'[s]) \/ RollingBack(s)'
  <2>1. CASE s = req[r].sb
    BY <1>2, <2>1, TruthEffects, Zenon DEF RollingBack
  <2>2. CASE s # req[r].sb
    <3>1. row'[s] = row[s] /\ guest'[s] = guest[s]
      BY <2>2, OthersKept, Zenon
    <3>2. Says(row[s], guest[s]) \/ RollingBack(s)
      BY Zenon DEF TruthInv
    <3>3. RollingBack(s) => RollingBack(s)'
      BY <2>2, OthersKept, Zenon DEF RollingBack
    <3> QED
      BY <3>1, <3>2, <3>3, Zenon
  <2> QED
    BY <2>1, <2>2, Zenon
<1>4. ASSUME NEW q \in Requests, req'[q].sb \notin raced PROVE GuestOK(q)'
  <2>1. CASE q = r
    BY <1>2, <1>4, <2>1, TruthEffects, Zenon DEF GuestOK
  <2>2. CASE q # r /\ req[q].pc \in {"persist", "runtime"}
    <3>1. req'[q] = req[q] /\ guest'[req[q].sb] = guest[req[q].sb]
      BY <2>2, OthersKept, Zenon DEF InFlight, Final
    <3> QED
      BY <1>4, <3>1, Zenon DEF TruthInv, GuestOK
  <2>3. CASE q # r /\ req[q].pc \notin {"persist", "runtime"}
    BY <2>3, OthersKept, Zenon DEF GuestOK
  <2> QED
    BY <2>1, <2>2, <2>3, Zenon
<1>5. rec.pc = "write" /\ ~overlap => Says(rec.st, guest'[rec.sb])
  <2> SUFFICES ASSUME rec.pc = "write", ~overlap PROVE Says(rec.st, guest'[rec.sb])
    OBVIOUS
  <2>1. InFlight(r) /\ ~Busy(rec.sb) /\ rec.sb \in Sandboxes
    BY HandlerMoves, Zenon DEF ControlInv, PassInv, TypeOK
  <2>2. rec.sb # req[r].sb
    BY <2>1, Zenon DEF Busy
  <2> QED
    BY <2>1, <2>2, OthersKept, Zenon DEF TruthInv
<1> QED
  BY <1>3, <1>4, <1>5, Zenon DEF TruthInv

(* Steps of a pass: the first one settles one row after the other, a later *)
(* one writes what it read, or marks the row.                              *)
LEMMA TruthReconcile ==
    ASSUME Reliable, ControlInv, TruthInv, ReconcileStep
    PROVE  TruthInv'
<1> /\ rec \in RecRec /\ row \in [Sandboxes -> RowStatus] /\ guest \in [Sandboxes -> Rt!Guests]
    /\ rec.todo \subseteq Sandboxes /\ rec.sb \in Sandboxes
  BY Zenon DEF ControlInv, TypeOK, RecRec
<1> guest' = guest /\ req' = req
  BY PassSteps, Zenon
<1> \A s : RollingBack(s)' <=> RollingBack(s)
  BY Zenon DEF RollingBack
<1> \A r \in Requests : GuestOK(r)' <=> GuestOK(r)
  BY Zenon DEF GuestOK
<1>0. ASSUME row' = row, raced' = raced,
             \/ ~rec.boot /\ ~rec'.boot
             \/ rec'.boot /\ rec'.pc \in {"idle", "list"}
             \/ \A s \in Sandboxes \ raced :
                  \/ Says(row[s], guest[s])
                  \/ rec'.boot /\ (s \in rec'.todo \/ (rec'.pc = "write" /\ s = rec'.sb)),
             rec'.pc = "write" /\ ~overlap' => Says(rec'.st, guest[rec'.sb])
      PROVE  TruthInv'
  BY <1>0, Zenon DEF TruthInv
<1>1. CASE ReconcileTick
  <2>1. row' = row /\ raced' = raced /\ rec.pc = "idle"
    BY <1>1, Zenon DEF ReconcileTick, db
  <2>2. rec' = [pc |-> "list", boot |-> rec.boot, todo |-> rec.todo, sb |-> rec.sb, st |-> rec.st]
    BY <1>1, Zenon DEF ReconcileTick, RecRec
  <2>3. ~rec.boot
    BY <2>1, Zenon DEF ControlInv, PassInv
  <2>4. rec'.boot = rec.boot /\ rec'.pc = "list"
    BY <2>2, Zenon
  <2> QED
    BY <1>0, <2>1, <2>3, <2>4, Zenon
<1>2. CASE ReconcileList
  <2>1. row' = row /\ raced' = raced
    BY <1>2, Zenon DEF ReconcileList, db
  <2>2. rec' = [pc |-> "next", boot |-> rec.boot, todo |-> NonDeleted, sb |-> rec.sb, st |-> rec.st]
    BY <1>2, Zenon DEF ReconcileList, RecRec
  <2>3. \A s \in Sandboxes \ NonDeleted : Says(row[s], guest[s])
    BY Zenon DEF NonDeleted, Says
  <2>4. rec'.boot = rec.boot /\ rec'.pc = "next" /\ rec'.todo = NonDeleted
    BY <2>2, Zenon
  <2>5. CASE rec.boot
    BY <1>0, <2>1, <2>3, <2>4, <2>5, Zenon
  <2>6. CASE ~rec.boot
    BY <1>0, <2>1, <2>4, <2>6, Zenon
  <2> QED
    BY <2>5, <2>6, Zenon
<1>3. CASE ReconcileInspect
  <2>1. rec.pc = "next" /\ row' = row /\ raced' = raced
    BY <1>3, Zenon DEF ReconcileInspect, db
  <2>2. PICK s \in rec.todo : \E out \in Rt!Inspect(guest[s]) :
          rec' = [rec EXCEPT !.pc = "write", !.todo = @ \ {s}, !.sb = s, !.st = out]
    BY <1>3, Zenon DEF ReconcileInspect
  <2>3. PICK out \in Rt!Inspect(guest[s]) :
          rec' = [rec EXCEPT !.pc = "write", !.todo = @ \ {s}, !.sb = s, !.st = out]
    BY <2>2, Zenon
  <2>4. rec' = [pc |-> "write", boot |-> rec.boot, todo |-> rec.todo \ {s}, sb |-> s, st |-> out]
    BY <2>2, <2>3, Zenon DEF RecRec
  <2>5. Says(out, guest[s])
    BY <2>2, <2>3, InspectOutcomes, Zenon
  <2>6. rec.boot => \A u \in Sandboxes \ (raced \cup rec.todo) : Says(row[u], guest[u])
    BY <2>1, Zenon DEF TruthInv
  <2>7. /\ rec'.boot = rec.boot /\ rec'.pc = "write" /\ rec'.todo = rec.todo \ {s}
        /\ rec'.sb = s /\ rec'.st = out
    BY <2>4, Zenon
  <2>8. CASE rec.boot
    BY <1>0, <2>1, <2>5, <2>6, <2>7, <2>8, Zenon
  <2>9. CASE ~rec.boot
    BY <1>0, <2>1, <2>5, <2>7, <2>9, Zenon
  <2> QED
    BY <2>8, <2>9, Zenon
<1>4. CASE ReconcileWrite
  <2> DEFINE b == rec.sb
             w == Written(rec.st)
  <2> /\ rec.pc = "write" /\ row' = [row EXCEPT ![b] = w] /\ overlap' = FALSE
      /\ raced' = IF overlap THEN raced \cup {b} ELSE raced \ {b}
    BY <1>4, PassWrites, Zenon
  <2>1. rec' = [pc |-> "next", boot |-> rec.boot, todo |-> rec.todo, sb |-> AnyId, st |-> "stopped"]
    BY <1>4, Zenon DEF ReconcileWrite, RecRec
  <2>2. ~overlap => Says(w, guest[b])
    BY Zenon DEF TruthInv, Says, Written
  <2>3. ~overlap => \A r \in Requests : req[r].sb = b => GuestOK(r)
    <3>1. ~overlap => \A r \in Requests : req[r].sb = b => ~InFlight(r)
      BY Zenon DEF ControlInv, PassInv, Busy
    <3> QED
      BY <3>1, Zenon DEF GuestOK, InFlight, Final
  <2>4. \A s \in Sandboxes \ raced' : s = b => ~overlap
    OBVIOUS
  <2>5. \A s : s # b => (s \in raced' <=> s \in raced)
    OBVIOUS
  <2>6. rec'.boot = rec.boot /\ rec'.pc = "next" /\ rec'.todo = rec.todo
    BY <2>1, Zenon
  <2>7. ASSUME ~rec.boot, NEW s \in Sandboxes \ raced' PROVE Says(row'[s], guest[s]) \/ RollingBack(s)
    <3>1. CASE s = b
      BY <2>2, <2>4, <3>1, Zenon
    <3>2. CASE s # b
      BY <2>5, <2>7, <3>2, Zenon DEF TruthInv
    <3> QED
      BY <3>1, <3>2, Zenon
  <2>8. ASSUME rec.boot, NEW s \in Sandboxes \ (raced' \cup rec.todo) PROVE Says(row'[s], guest[s])
    <3>1. CASE s = b
      BY <2>2, <2>4, <3>1, Zenon
    <3>2. CASE s # b
      BY <2>5, <2>8, <3>2, Zenon DEF TruthInv
    <3> QED
      BY <3>1, <3>2, Zenon
  <2>9. ASSUME NEW r \in Requests, req[r].sb \notin raced' PROVE GuestOK(r)
    <3>1. req[r].sb = b => ~overlap
      BY <2>9
    <3> QED
      BY <2>3, <2>5, <2>9, <3>1, Zenon DEF TruthInv
  <2> QED
    BY <2>6, <2>7, <2>8, <2>9, Zenon DEF TruthInv
<1>5. CASE ReconcileDone
  <2>1. row' = row /\ rec.pc = "next" /\ rec.todo = {} /\ raced' = raced
    BY <1>5, Zenon DEF ReconcileDone, db
  <2>2. rec' = [pc |-> "idle", boot |-> FALSE, todo |-> rec.todo, sb |-> rec.sb, st |-> rec.st]
    BY <1>5, Zenon DEF ReconcileDone, RecRec
  <2>3. rec'.pc = "idle" /\ ~rec'.boot
    BY <2>2, Zenon
  <2>4. CASE rec.boot
    <3>1. \A s \in Sandboxes \ raced : Says(row[s], guest[s])
      BY <2>1, <2>4, Zenon DEF TruthInv
    <3> QED
      BY <1>0, <2>1, <2>3, <3>1, Zenon
  <2>5. CASE ~rec.boot
    BY <1>0, <2>1, <2>3, <2>5, Zenon
  <2> QED
    BY <2>4, <2>5, Zenon
<1>6. ~ReconcileWriteFails /\ ~ReconcileAborts
  BY Zenon DEF Reliable, ReconcileWriteFails, ReconcileAborts
<1> QED
  BY <1>1, <1>2, <1>3, <1>4, <1>5, <1>6, Zenon DEF ReconcileStep

(* Any step.                                                               *)
LEMMA TruthStep ==
    ASSUME Serial, Reliable, ControlInv, HostInv, TruthInv, [Next]_vars
    PROVE  TruthInv'
<1>1. ASSUME NEW r \in Requests, Issue(r) PROVE TruthInv'
  <2> /\ row' = row /\ guest' = guest /\ rec' = rec /\ raced' = raced /\ (overlap => overlap')
      /\ req[r].pc = "idle" /\ req'[r].pc \in {"lock", "delget", "get"}
      /\ \A q \in Requests : q # r => req'[q] = req[q]
    BY <1>1, Arrives, Zenon
  <2>2. \A s \in Sandboxes : RollingBack(s) => RollingBack(s)'
    BY Zenon DEF RollingBack
  <2>3. ASSUME NEW q \in Requests, req'[q].sb \notin raced PROVE GuestOK(q)'
    <3>1. CASE q = r
      BY <3>1, Zenon DEF GuestOK
    <3>2. CASE q # r
      BY <2>3, <3>2, Zenon DEF GuestOK, TruthInv
    <3> QED
      BY <3>1, <3>2, Zenon
  <2> QED
    BY <2>2, <2>3, Zenon DEF TruthInv
<1>2. CASE Crash
  <2>1. rec'.boot /\ rec'.pc = "list"
    BY <1>2, CrashRec
  <2>2. \A q \in Requests : GuestOK(q)'
    BY <1>2, CrashMoves, Zenon DEF Final, GuestOK
  <2> QED
    BY <2>1, <2>2, Zenon DEF TruthInv
<1>3. CASE UNCHANGED vars
  BY <1>3, Zenon DEF vars, db, pass, TruthInv, RollingBack, GuestOK
<1>4. ~\E s \in Sandboxes : GuestExit(s)
  BY Zenon DEF Reliable, GuestExit
<1> QED
  BY <1>1, <1>2, <1>3, <1>4, TruthHandler, TruthReconcile, Zenon DEF Next

(* With processes that can be killed and do not end by themselves, and a   *)
(* store that answers, a settled status of a sandbox nobody works on is    *)
(* true, whatever requests failed, were canceled or died with the daemon,  *)
(* and however the ticker ran, unless the last pass over the sandbox       *)
(* overlapped a request on it.                                             *)
THEOREM SettledRowsAreTrueHolds ==
    ASSUME Serial, Reliable
    PROVE  Spec => []SettledRowsAreTrue
<1>1. Init => TruthInv
  <2> SUFFICES ASSUME Init PROVE TruthInv
    OBVIOUS
  <2>1. \A s \in Sandboxes : Says(row[s], guest[s])
    BY Zenon DEF Init, GuestOf, SettledStatus, Says
  <2>2. (\A r \in Requests : req[r].pc = "idle") /\ rec.pc = "idle"
    BY Zenon DEF Init
  <2> QED
    BY <2>1, <2>2, Zenon DEF TruthInv, GuestOK
<1>2. ControlInv /\ HostInv /\ TruthInv /\ [Next]_vars => TruthInv'
  BY TruthStep, Zenon
<1>3. TruthInv => SettledRowsAreTrue
  <2>1. \A s \in Sandboxes : RollingBack(s) => Busy(s)
    BY Zenon DEF RollingBack, Busy, InFlight, Final
  <2> QED
    BY <2>1, Zenon DEF TruthInv, SettledRowsAreTrue
<1> QED
  BY <1>1, <1>2, <1>3, HostInvHolds, ControlInvHolds, PTL DEF Spec

=============================================================================
