-------------------------- MODULE SandboxLifecycle --------------------------
(***************************************************************************)
(* The sandbox lifecycle of the control plane: the handlers of             *)
(* internal/service that create, start, resume, stop, suspend, delete and  *)
(* touch a sandbox, the admission and quota checks they make under         *)
(* admissionMu, the reconcile loop, and daemon crashes.                    *)
(*                                                                         *)
(* A request is one HTTP call and runs in its own goroutine.  Its steps    *)
(* are the calls it makes to the store and to the runtime: between two of  *)
(* them any other request, or the reconcile loop, may run.  A request      *)
(* keeps the status it read or will persist (st) and writes it back        *)
(* whatever the row has become, as UpdateSandboxState does.  Of the row    *)
(* the model keeps the status; the second write of a handler,              *)
(* UpdateRuntimeState, changes only columns no decision reads, so it is a  *)
(* step that can fail.                                                     *)
(***************************************************************************)
EXTENDS Naturals, FiniteSets

CONSTANTS
    Sandboxes,          \* sandbox ids
    Tenants,
    Owner,              \* the tenant of each id
    Requests,           \* HTTP requests, each issued at most once
    Ops,                \* the operations clients issue in this instance
    Serial,             \* clients do not overlap calls on one sandbox
    Ticker,             \* the reconcile loop ticks while requests are served
    Faults,             \* the calls that may fail; see QemuBackend, and:
                        \*   "cancel" the request's context may be canceled,
                        \*   "store"  any store call may fail,
                        \*   "exit"   a guest process may end by itself
    MaxCrashes,
    MaxSandboxes,       \* tenant quota
    MaxRunning,         \* tenant quota
    MaxNodeSandboxes,   \* admission limits of the node, 0 disables
    MaxNodeRunning,
    MaxTenantStarts,
    MaxTenantHeavy

AllOps == {"create", "createStart", "start", "resume", "stop", "suspend",
           "delete", "touch"}

ASSUME ConstantsAssumption ==
    /\ Sandboxes # {} /\ Owner \in [Sandboxes -> Tenants]
    /\ Ops \subseteq AllOps
    /\ Serial \in BOOLEAN /\ Ticker \in BOOLEAN
    /\ {MaxCrashes, MaxSandboxes, MaxRunning, MaxNodeSandboxes,
        MaxNodeRunning, MaxTenantStarts, MaxTenantHeavy} \subseteq Nat

ASSUME FiniteAssumption == IsFiniteSet(Sandboxes) /\ IsFiniteSet(Requests)

VARIABLES
    row,            \* the status in the persisted row of each sandbox
    guest,          \* the guest of each sandbox on the host
    req,            \* the local state of each request
    admissionMu,    \* the requests inside the admission lock
    rec,            \* the reconcile loop
    crashes,
    \* History, which no step reads:
    revived,        \* rows that were deleted and have been written since
    unreserved,     \* rows that consume capacity no reservation was made for
    overlap,        \* a request on the sandbox of the current inspection was
                    \* in flight at some time since
    raced           \* the sandboxes whose last reconcile write had overlapped

(* What a write to the store changes, and what the reconcile loop changes. *)
db == <<row, revived, unreserved>>
pass == <<rec, overlap, raced>>

vars == <<db, guest, req, admissionMu, pass, crashes>>

Rt == INSTANCE QemuBackend

Status == {"creating", "booting", "degraded", "stopped", "starting",
           "running", "suspending", "suspended", "stopping", "deleting",
           "deleted", "error"}

(* "absent" stands for a sandbox id that has no row.                       *)
RowStatus == Status \cup {"absent"}

Transitional == {"creating", "starting", "stopping", "suspending", "deleting"}

Pcs == {"idle", "lock", "admit", "reserve", "rtcreate", "runtime", "rollback",
        "rollbackwrite", "get", "mark", "persist", "persisterr", "finish",
        "delget", "delmark", "destroy", "rmstorage",
        "delpersist", "touch", "ok", "err", "lost"}

Final == {"ok", "err", "lost"}

(* What an id field holds while it stands for nothing.                     *)
AnyId == CHOOSE s \in Sandboxes : TRUE

InFlight(r) == req[r].pc \notin Final \cup {"idle"}

Busy(s) == \E r \in Requests : InFlight(r) /\ req[r].sb = s

-----------------------------------------------------------------------------
(* Counting rows: TenantUsage and admissionSnapshot.                       *)

consumesNodeRuntimeCapacity(st) ==
    st \in {"booting", "starting", "running", "suspending", "suspended"}

isConcurrentStartStatus(st) == st \in {"creating", "booting", "starting"}

isHeavyOperationStatus(st) ==
    st \in {"creating", "starting", "stopping", "deleting", "suspending"}

NonDeleted == {s \in Sandboxes : row[s] \notin {"absent", "deleted"}}

OwnedBy(t) == {s \in NonDeleted : Owner[s] = t}

RunningOf(t) == {s \in OwnedBy(t) : row[s] = "running"}

Consuming == {s \in NonDeleted : consumesNodeRuntimeCapacity(row[s])}

StartsOf(t) == {s \in OwnedBy(t) : isConcurrentStartStatus(row[s])}

(* The snapshots the tenant is creating count too; see CheckAdmission.     *)
HeavyOf(t) == {s \in OwnedBy(t) : isHeavyOperationStatus(row[s])}

IsCreate(op) == op \in {"create", "createStart"}

(* Wrong: the new row itself is forgotten.                                 *)
QuotaOffByOne(op, t) ==
    /\ IsCreate(op) => Cardinality(OwnedBy(t)) <= MaxSandboxes
    /\ op # "create" => Cardinality(RunningOf(t)) < MaxRunning

(* checkQuota for a create, checkRunningQuota for what is to run.          *)
QuotaOK(op, t) ==
    /\ IsCreate(op) => Cardinality(OwnedBy(t)) < MaxSandboxes
    /\ op # "create" => Cardinality(RunningOf(t)) < MaxRunning

Exceeds(limit, n) == limit > 0 /\ n > limit

(* Wrong: the delta of the operation is not added.                         *)
AdmissionWithoutDelta(op, t) ==
    /\ ~Exceeds(MaxNodeSandboxes, Cardinality(NonDeleted))
    /\ ~Exceeds(MaxNodeRunning, Cardinality(Consuming))
    /\ ~Exceeds(MaxTenantStarts, Cardinality(StartsOf(t)))
    /\ ~Exceeds(MaxTenantHeavy, Cardinality(HeavyOf(t)))

(* evaluateAdmission on the current rows, with the delta of the operation: *)
(* a create that does not start adds no start and no running sandbox.      *)
AdmissionOK(op, t) ==
    LET new    == IF IsCreate(op) THEN 1 ELSE 0
        active == IF op = "create" THEN 0 ELSE 1
    IN  /\ ~Exceeds(MaxNodeSandboxes, Cardinality(NonDeleted) + new)
        /\ ~Exceeds(MaxNodeRunning, Cardinality(Consuming) + active)
        /\ ~Exceeds(MaxTenantStarts, Cardinality(StartsOf(t)) + active)
        /\ ~Exceeds(MaxTenantHeavy, Cardinality(HeavyOf(t)) + 1)

-----------------------------------------------------------------------------
(* Arrival of requests.                                                    *)

EntryPc(op) ==
    CASE op \in {"create", "createStart", "start", "resume"} -> "lock"
      [] op = "delete" -> "delget"
      [] OTHER -> "get"

(* The state an operation is documented to start from.                     *)
ExpectedStatus(op) ==
    CASE op = "start"   -> {"stopped"}
      [] op = "resume"  -> {"suspended"}
      [] op = "suspend" -> {"running"}
      [] op = "stop"    -> {"running"}
      [] op = "touch"   -> {"running"}
      [] OTHER          -> Status \ {"deleted"}

FreshId(s) ==
    /\ row[s] = "absent"
    /\ \A q \in Requests : req[q].pc # "idle" => req[q].sb # s

ClientMay(op, s) ==
    IF IsCreate(op) THEN FreshId(s)
    ELSE /\ row[s] # "absent"
         /\ Serial => /\ \A q \in Requests : InFlight(q) => req[q].sb # s
                      /\ row[s] \in ExpectedStatus(op)

Issue(r) ==
    /\ req[r].pc = "idle"
    /\ ~rec.boot
    /\ \E op \in Ops, s \in Sandboxes :
         /\ ClientMay(op, s)
         /\ req' = [req EXCEPT ![r] = [op |-> op, sb |-> s, pc |-> EntryPc(op),
                                       st |-> row[s]]]
         /\ overlap' = (overlap \/ (rec.pc = "write" /\ rec.sb = s))
    /\ UNCHANGED <<db, guest, admissionMu, rec, raced, crashes>>

-----------------------------------------------------------------------------
(* Steps shared by the handlers.                                           *)

Goto(r, pc) == req' = [req EXCEPT ![r].pc = pc]

(* The handler returns; its copy of the row goes with it.                  *)
Return(r, result) ==
    req' = [req EXCEPT ![r].pc = result, ![r].st = "absent"]

(* Moving on with the status the handler will write.                       *)
GotoWith(r, pc, st) == req' = [req EXCEPT ![r].pc = pc, ![r].st = st]

(* UpdateSandboxState: unconditional, whatever the row is by now.          *)
WriteRow(s, st) ==
    /\ row' = [row EXCEPT ![s] = st]
    /\ revived' = IF st = "deleted" THEN revived \ {s}
                  ELSE IF row[s] = "deleted" THEN revived \cup {s} ELSE revived
    /\ unreserved' = IF ~consumesNodeRuntimeCapacity(st) THEN unreserved \ {s}
                     ELSE IF ~consumesNodeRuntimeCapacity(row[s]) THEN unreserved \cup {s}
                     ELSE unreserved

(* A store call made with the request's context fails: nothing is written. *)
WriteLost == Faults \cap {"store", "cancel"} # {} /\ UNCHANGED db

StoreFails(r) == WriteLost /\ Return(r, "err")

-----------------------------------------------------------------------------
(* Reservations under admissionMu.                                         *)

(* Lock, read the row (start and resume), check the quotas.  A denial, or  *)
(* a read that fails, returns and so releases the lock.                    *)
LockAndCheckQuota(r) ==
    LET ok == QuotaOK(req[r].op, Owner[req[r].sb])
    IN  /\ req[r].pc = "lock"
        /\ admissionMu = {}
        /\ \/ ok /\ Goto(r, "admit") /\ admissionMu' = {r}
           \/ (~ok \/ WriteLost) /\ Return(r, "err") /\ UNCHANGED admissionMu
        /\ UNCHANGED <<db, guest, pass, crashes>>

(* Wrong: a denial keeps the lock.                                         *)
DenialKeepsLock(r) ==
    LET ok == AdmissionOK(req[r].op, Owner[req[r].sb])
    IN  /\ req[r].pc = "admit"
        /\ \/ ok /\ Goto(r, "reserve")
           \/ ~ok /\ Return(r, "err")
        /\ UNCHANGED <<db, guest, admissionMu, pass, crashes>>

(* enforceAdmission, with the same ways out.  Under a limit on heavy       *)
(* operations it may also deny because of snapshots in creation, which are *)
(* counted with them and are not rows of this module.                      *)
CheckAdmission(r) ==
    LET ok == AdmissionOK(req[r].op, Owner[req[r].sb])
    IN  /\ req[r].pc = "admit"
        /\ \/ ok /\ Goto(r, "reserve") /\ UNCHANGED admissionMu
           \/ (~ok \/ MaxTenantHeavy > 0 \/ WriteLost) /\ Return(r, "err")
              /\ admissionMu' = admissionMu \ {r}
        /\ UNCHANGED <<db, guest, pass, crashes>>

ReservedStatus(op) == IF op = "create" THEN "creating" ELSE "starting"

(* The write of a reservation: what the row consumes is accounted for.     *)
WriteReserved(s, st) ==
    /\ row' = [row EXCEPT ![s] = st]
    /\ revived' = IF row[s] = "deleted" THEN revived \cup {s} ELSE revived
    /\ unreserved' = unreserved \ {s}

(* Insert the row, or persist the transitional status, and unlock.         *)
Reserve(r) ==
    LET st == ReservedStatus(req[r].op)
    IN  /\ req[r].pc = "reserve"
        /\ \/ /\ WriteReserved(req[r].sb, st)
              /\ Goto(r, IF IsCreate(req[r].op) THEN "rtcreate" ELSE "runtime")
           \/ StoreFails(r)
        /\ admissionMu' = admissionMu \ {r}
        /\ UNCHANGED <<guest, pass, crashes>>

-----------------------------------------------------------------------------
(* Runtime calls.                                                          *)

RuntimeCreate(r) ==
    /\ req[r].pc = "rtcreate"
    /\ \E out \in Rt!Create(guest[req[r].sb]) :
         /\ guest' = [guest EXCEPT ![req[r].sb] = out[1]]
         /\ IF out[2] = "err" THEN Goto(r, "rollback")
            ELSE IF req[r].op = "createStart" THEN Goto(r, "runtime")
            ELSE GotoWith(r, "persist", "stopped")
    /\ UNCHANGED <<db, admissionMu, pass, crashes>>

RuntimeCall(op, g) ==
    CASE op \in {"createStart", "start"} -> Rt!Start(g)
      [] op = "resume"  -> Rt!Resume(g)
      [] op = "suspend" -> Rt!Suspend(g)
      [] op \in {"stop", "delete"} -> Rt!Stop(g)

FinalStatus(op) ==
    CASE op \in {"createStart", "start", "resume"} -> "running"
      [] op = "suspend" -> "suspended"
      [] OTHER -> "stopped"

(* Wrong: the error of the runtime is dropped.                             *)
RuntimeErrorDropped(r) ==
    /\ req[r].pc = "runtime"
    /\ \E out \in RuntimeCall(req[r].op, guest[req[r].sb]) :
         /\ guest' = [guest EXCEPT ![req[r].sb] = out[1]]
         /\ GotoWith(r, "persist", FinalStatus(req[r].op))
    /\ UNCHANGED <<db, admissionMu, pass, crashes>>

(* The runtime operation of the handler.  The status it will persist is    *)
(* fixed by the operation; what the runtime reported goes to RuntimeStatus *)
(* only.                                                                   *)
RuntimeStep(r) ==
    /\ req[r].pc = "runtime"
    /\ \E out \in RuntimeCall(req[r].op, guest[req[r].sb]) :
         /\ guest' = [guest EXCEPT ![req[r].sb] = out[1]]
         /\ IF out[2] # "err" THEN GotoWith(r, "persist", FinalStatus(req[r].op))
            ELSE IF req[r].op = "createStart" THEN Goto(r, "rollback")
            ELSE Goto(r, "persisterr")
    /\ UNCHANGED <<db, admissionMu, pass, crashes>>

(* UpdateSandboxState after the runtime call.                              *)
Persist(r) ==
    /\ req[r].pc = "persist"
    /\ \/ WriteRow(req[r].sb, req[r].st) /\ Goto(r, "finish")
       \/ IF IsCreate(req[r].op)
          THEN WriteLost /\ Goto(r, "rollback")
          ELSE StoreFails(r)
    /\ UNCHANGED <<guest, admissionMu, pass, crashes>>

(* A failed runtime call persists the error status; a failure of this      *)
(* write is dropped.                                                       *)
PersistError(r) ==
    /\ req[r].pc = "persisterr"
    /\ \/ WriteRow(req[r].sb, "error")
       \/ WriteLost
    /\ Return(r, "err")
    /\ UNCHANGED <<guest, admissionMu, pass, crashes>>

(* UpdateRuntimeState, refreshStorage, the revocation of tunnels and the   *)
(* final read: none changes the status, each may fail.  A create is rolled *)
(* back only when UpdateRuntimeState fails; a delete goes on after its     *)
(* stop.                                                                   *)
Finish(r) ==
    /\ req[r].pc = "finish"
    /\ \/ IF req[r].op = "delete" THEN Goto(r, "delmark") ELSE Return(r, "ok")
       \/ WriteLost /\ Return(r, "err")
       \/ WriteLost /\ IsCreate(req[r].op) /\ Goto(r, "rollback")
    /\ UNCHANGED <<db, guest, admissionMu, pass, crashes>>

(* Wrong: a cleanup that failed is recorded as done.                       *)
RollbackIgnoresCleanup(r) ==
    /\ req[r].pc = "rollback"
    /\ \E out \in Rt!Destroy(guest[req[r].sb]) :
         /\ guest' = [guest EXCEPT ![req[r].sb] = out[1]]
         /\ GotoWith(r, "rollbackwrite", "deleted")
    /\ UNCHANGED <<db, admissionMu, pass, crashes>>

(* rollbackFailedCreate: destroy what the create left on the host ...      *)
Rollback(r) ==
    /\ req[r].pc = "rollback"
    /\ \E out \in Rt!Destroy(guest[req[r].sb]) :
         /\ guest' = [guest EXCEPT ![req[r].sb] = out[1]]
         /\ \E st \in (IF out[2] = "ok" THEN {"deleted"} ELSE {"error"})
                      \cup Rt!May("runtime", {"error"}) :
              GotoWith(r, "rollbackwrite", st)
    /\ UNCHANGED <<db, admissionMu, pass, crashes>>

(* ... and persist the outcome with a context that outlives the request,   *)
(* dropping a failure of the write.                                        *)
RollbackWrite(r) ==
    /\ req[r].pc = "rollbackwrite"
    /\ \/ WriteRow(req[r].sb, req[r].st)
       \/ "store" \in Faults /\ UNCHANGED db
    /\ Return(r, "err")
    /\ UNCHANGED <<guest, admissionMu, pass, crashes>>

-----------------------------------------------------------------------------
(* Stop, suspend and touch: no lock and no check of the current status.    *)
(* The status a stop or suspend read is replaced before it is written.     *)

GetRow(r) ==
    /\ req[r].pc = "get"
    /\ \/ IF req[r].op = "touch"
          THEN GotoWith(r, "touch", row[req[r].sb]) /\ UNCHANGED db
          ELSE Goto(r, "mark") /\ UNCHANGED db
       \/ StoreFails(r)
    /\ UNCHANGED <<guest, admissionMu, pass, crashes>>

Mark(r) ==
    LET st == IF req[r].op = "suspend" THEN "suspending" ELSE "stopping"
    IN  /\ req[r].pc = "mark"
        /\ \/ WriteRow(req[r].sb, st) /\ Goto(r, "runtime")
           \/ StoreFails(r)
        /\ UNCHANGED <<guest, admissionMu, pass, crashes>>

(* touchSandboxActivity at the end of exec, tty, file, archive and tunnel  *)
(* requests: the copy read when the request began is written back.         *)
Touch(r) ==
    /\ req[r].pc = "touch"
    /\ \/ WriteRow(req[r].sb, req[r].st)
       \/ WriteLost
    /\ Return(r, "ok")
    /\ UNCHANGED <<guest, admissionMu, pass, crashes>>

-----------------------------------------------------------------------------
(* Delete.                                                                 *)

DeleteGet(r) ==
    /\ req[r].pc = "delget"
    /\ \/ /\ Goto(r, IF row[req[r].sb] \in {"running", "suspended"} THEN "get" ELSE "delmark")
          /\ UNCHANGED db
       \/ StoreFails(r)
    /\ UNCHANGED <<guest, admissionMu, pass, crashes>>

DeleteMark(r) ==
    /\ req[r].pc = "delmark"
    /\ \/ WriteRow(req[r].sb, "deleting") /\ Goto(r, "destroy")
       \/ StoreFails(r)
    /\ UNCHANGED <<guest, admissionMu, pass, crashes>>

DeleteDestroy(r) ==
    /\ req[r].pc = "destroy"
    /\ \E out \in Rt!Destroy(guest[req[r].sb]) :
         /\ guest' = [guest EXCEPT ![req[r].sb] = out[1]]
         /\ Goto(r, IF out[2] = "ok" THEN "rmstorage" ELSE "persisterr")
    /\ UNCHANGED <<db, admissionMu, pass, crashes>>

(* Removing the storage and snapshot directories; a failure of the first   *)
(* returns and leaves the row deleting.                                    *)
DeleteStorage(r) ==
    /\ req[r].pc = "rmstorage"
    /\ \/ Goto(r, "delpersist")
       \/ "runtime" \in Faults /\ Return(r, "err")
    /\ UNCHANGED <<db, guest, admissionMu, pass, crashes>>

DeletePersist(r) ==
    /\ req[r].pc = "delpersist"
    /\ \/ WriteRow(req[r].sb, "deleted") /\ Return(r, "ok")
       \/ StoreFails(r)
    /\ UNCHANGED <<guest, admissionMu, pass, crashes>>

-----------------------------------------------------------------------------
(* The reconcile loop.                                                     *)

ReconcileTick ==
    /\ Ticker
    /\ rec.pc = "idle"
    /\ rec' = [rec EXCEPT !.pc = "list"]
    /\ UNCHANGED <<db, guest, req, admissionMu, overlap, raced, crashes>>

(* Wrong: rows that name no guest are not looked at.                       *)
ListsActiveRows ==
    /\ rec.pc = "list"
    /\ rec' = [rec EXCEPT !.pc = "next", !.todo = {s \in NonDeleted : row[s] # "stopped"}]
    /\ UNCHANGED <<db, guest, req, admissionMu, overlap, raced, crashes>>

(* Wrong: rows with an operation in progress are left to its handler.      *)
ListsSettledRows ==
    /\ rec.pc = "list"
    /\ rec' = [rec EXCEPT !.pc = "next", !.todo = {s \in NonDeleted : row[s] \notin Transitional}]
    /\ UNCHANGED <<db, guest, req, admissionMu, overlap, raced, crashes>>

ReconcileList ==
    /\ rec.pc = "list"
    /\ rec' = [rec EXCEPT !.pc = "next", !.todo = NonDeleted]
    /\ UNCHANGED <<db, guest, req, admissionMu, overlap, raced, crashes>>

(* Inspect one of the listed sandboxes.                                    *)
ReconcileInspect ==
    /\ rec.pc = "next"
    /\ \E s \in rec.todo : \E out \in Rt!Inspect(guest[s]) :
         /\ rec' = [rec EXCEPT !.pc = "write", !.todo = @ \ {s}, !.sb = s, !.st = out]
         /\ overlap' = Busy(s)
    /\ UNCHANGED <<db, guest, req, admissionMu, raced, crashes>>

ReconcileWrite ==
    /\ rec.pc = "write"
    /\ WriteRow(rec.sb, IF rec.st = "err" THEN "degraded" ELSE rec.st)
    /\ rec' = [rec EXCEPT !.pc = "next", !.sb = AnyId, !.st = "stopped"]
    /\ raced' = IF overlap THEN raced \cup {rec.sb} ELSE raced \ {rec.sb}
    /\ overlap' = FALSE
    /\ UNCHANGED <<guest, req, admissionMu, crashes>>

(* A write that fails is logged and the pass goes on.                      *)
ReconcileWriteFails ==
    /\ "store" \in Faults
    /\ rec.pc = "write"
    /\ rec' = [rec EXCEPT !.pc = "next", !.sb = AnyId, !.st = "stopped"]
    /\ overlap' = FALSE
    /\ UNCHANGED <<db, guest, req, admissionMu, raced, crashes>>

(* A listing that fails ends the pass; the first pass is no exception, the *)
(* daemon serves all the same.                                             *)
ReconcileAborts ==
    /\ "store" \in Faults
    /\ rec.pc = "list"
    /\ rec' = [rec EXCEPT !.pc = "idle", !.boot = FALSE]
    /\ UNCHANGED <<db, guest, req, admissionMu, overlap, raced, crashes>>

(* The pass is over; after the first one the daemon starts serving.        *)
ReconcileDone ==
    /\ rec.pc = "next"
    /\ rec.todo = {}
    /\ rec' = [rec EXCEPT !.pc = "idle", !.boot = FALSE]
    /\ UNCHANGED <<db, guest, req, admissionMu, overlap, raced, crashes>>

-----------------------------------------------------------------------------
(* The environment.                                                        *)

GuestExit(s) ==
    /\ "exit" \in Faults
    /\ guest[s] \in {"running", "suspended"}
    /\ guest' = [guest EXCEPT ![s] = "stopped"]
    /\ UNCHANGED <<db, req, admissionMu, pass, crashes>>

(* The daemon dies and is restarted: rows and guests survive, goroutines   *)
(* and the lock do not, and a full reconcile pass runs before serving.     *)
Crash ==
    /\ crashes < MaxCrashes
    /\ crashes' = crashes + 1
    /\ req' = [r \in Requests |->
                  IF InFlight(r)
                  THEN [req[r] EXCEPT !.pc = "lost", !.st = "absent"]
                  ELSE req[r]]
    /\ admissionMu' = {}
    /\ rec' = [rec EXCEPT !.pc = "list", !.boot = TRUE, !.todo = {},
                          !.sb = AnyId, !.st = "stopped"]
    /\ overlap' = FALSE
    /\ UNCHANGED <<db, guest, raced>>

-----------------------------------------------------------------------------
(* A sandbox between requests: its row says what its guest is.             *)
SettledStatus == {"absent", "stopped", "running", "suspended", "deleted"}

GuestOf(st) == IF st \in {"absent", "deleted"} THEN "none" ELSE st

Init ==
    /\ row \in [Sandboxes -> SettledStatus]
    /\ guest = [s \in Sandboxes |-> GuestOf(row[s])]
    /\ \A t \in Tenants : /\ Cardinality(OwnedBy(t)) <= MaxSandboxes
                          /\ Cardinality(RunningOf(t)) <= MaxRunning
    /\ ~Exceeds(MaxNodeSandboxes, Cardinality(NonDeleted))
    /\ ~Exceeds(MaxNodeRunning, Cardinality(Consuming))
    /\ req = [r \in Requests |-> [op |-> "touch", sb |-> AnyId, pc |-> "idle",
                                  st |-> "absent"]]
    /\ admissionMu = {}
    /\ rec = [pc |-> "idle", boot |-> FALSE, todo |-> {}, sb |-> AnyId, st |-> "stopped"]
    /\ crashes = 0
    /\ revived = {} /\ unreserved = {} /\ raced = {} /\ overlap = FALSE

RequestStep(r) ==
    \/ LockAndCheckQuota(r) \/ CheckAdmission(r) \/ Reserve(r)
    \/ RuntimeCreate(r) \/ RuntimeStep(r)
    \/ Persist(r) \/ PersistError(r) \/ Finish(r)
    \/ Rollback(r) \/ RollbackWrite(r)
    \/ GetRow(r) \/ Mark(r) \/ Touch(r)
    \/ DeleteGet(r) \/ DeleteMark(r) \/ DeleteDestroy(r)
    \/ DeleteStorage(r) \/ DeletePersist(r)

ReconcileStep ==
    \/ ReconcileTick \/ ReconcileList \/ ReconcileInspect \/ ReconcileWrite
    \/ ReconcileWriteFails \/ ReconcileAborts \/ ReconcileDone

Next ==
    \/ \E r \in Requests : Issue(r) \/ RequestStep(r)
    \/ ReconcileStep
    \/ \E s \in Sandboxes : GuestExit(s)
    \/ Crash

Spec == Init /\ [][Next]_vars

(* The Go scheduler runs every goroutine that can run.                     *)
HandlersRun == \A r \in Requests : WF_vars(RequestStep(r))

(* The ticker fires for as long as the daemon is up, and the store does    *)
(* not refuse the same call of every pass.                                 *)
PassesRun ==
    /\ WF_vars(ReconcileStep)
    /\ SF_vars(ReconcileList)
    /\ \A s \in Sandboxes : SF_vars(rec.sb = s /\ ReconcileWrite)

ServingSpec == Spec /\ HandlersRun

FairSpec == ServingSpec /\ PassesRun

-----------------------------------------------------------------------------
(* Properties.                                                             *)

TypeOK ==
    /\ row \in [Sandboxes -> RowStatus]
    /\ guest \in [Sandboxes -> Rt!Guests]
    /\ req \in [Requests -> [op : AllOps, sb : Sandboxes, pc : Pcs, st : RowStatus]]
    /\ admissionMu \in SUBSET Requests
    /\ rec \in [pc : {"idle", "list", "next", "write"}, boot : BOOLEAN,
                todo : SUBSET Sandboxes, sb : Sandboxes, st : Status \cup {"err"}]
    /\ crashes \in 0..MaxCrashes
    /\ {revived, unreserved, raced} \subseteq SUBSET Sandboxes /\ overlap \in BOOLEAN

(* However creates, deletes, reconcile passes, failures and restarts       *)
(* interleave, the non-deleted rows of a tenant stay within its quota, but *)
(* for rows an old copy was written over after their delete: checkQuota    *)
(* and the insert of reserveSandboxCreate are one critical section, and no *)
(* other step makes a row count that did not.                              *)
SandboxQuota ==
    \A t \in Tenants : Cardinality(OwnedBy(t) \ revived) <= MaxSandboxes

(* The rows that consume capacity through a reservation stay within the    *)
(* admission limit: starting is counted from the reservation on, so no two *)
(* overlapping starts take the last place.  What exceeds the limit are     *)
(* rows a pass adopted, and rows whose reservation a pass erased before    *)
(* the start of the sandbox was persisted.                                 *)
NodeCapacity ==
    ~Exceeds(MaxNodeRunning, Cardinality(Consuming \ unreserved))

(* The row of a sandbox says deleted only once nothing of it is left on    *)
(* the host: reconcile skips deleted rows, so whatever is left then is     *)
(* never looked at again.  The exception is a process that could not be    *)
(* killed: Destroy drops that error.                                       *)
DeletedHasNoGuest ==
    \A s \in Sandboxes : row[s] = "deleted" =>
        guest[s] = "none" \/ ("stop" \in Faults /\ guest[s] = "leaked")

(* No process survives the sandbox it belongs to.                          *)
NoGuestLeaks == \A s \in Sandboxes : row[s] = "deleted" => guest[s] = "none"

(* The status tells the truth about the guest, if it tells anything.       *)
Says(st, g) ==
    /\ st = "running" => g = "running"
    /\ st = "suspended" => g = "suspended"
    /\ st = "stopped" => g \notin {"running", "suspended"}

(* While the daemon serves, the row of a sandbox without a request in      *)
(* flight is true, also when the last request failed, was canceled or died *)
(* with the daemon, unless the last reconcile pass over it overlapped a    *)
(* request on it: such a pass may have written what it saw in between, and *)
(* the next one that meets the sandbox idle repairs it.                    *)
SettledRowsAreTrue ==
    ~rec.boot => \A s \in Sandboxes \ raced : ~Busy(s) => Says(row[s], guest[s])

(* Every row is true in the end: whatever the last requests, passes and    *)
(* faults left in it, the ticker makes it what the guest is.               *)
RowsBecomeTrue ==
    \A s \in Sandboxes : <>[]Says(row[s], guest[s])

(* A deleted sandbox stays deleted: no handler that still holds an older   *)
(* copy of the row, and no reconcile pass, writes it back to life.         *)
DeletedIsFinal ==
    [][\A s \in Sandboxes : row[s] = "deleted" => row'[s] = "deleted"]_vars

(* The rows that consume runtime capacity stay within the admission limit. *)
RunningLimit ==
    ~Exceeds(MaxNodeRunning, Cardinality(Consuming))

(* Every request comes to an end: admissionMu is released on every path.   *)
RequestsFinish ==
    \A r \in Requests : InFlight(r) ~> ~InFlight(r)

(* No row keeps a transitional status: what a failed, canceled or crashed  *)
(* handler left behind is settled by a later reconcile pass.               *)
NoRowStaysTransitional ==
    \A s \in Sandboxes : (row[s] \in Transitional) ~> (row[s] \notin Transitional)

(* The number of rows with status running stays within the tenant's quota. *)
RunningQuota ==
    \A t \in Tenants : Cardinality(RunningOf(t)) <= MaxRunning

(* The tenant's concurrent create, start and boot operations stay within   *)
(* the admission limit until a restart.                                    *)
TenantStarts ==
    crashes = 0 => \A t \in Tenants : ~Exceeds(MaxTenantStarts, Cardinality(StartsOf(t)))

=============================================================================
