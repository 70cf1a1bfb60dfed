----------------------------- MODULE Executions -----------------------------
(***************************************************************************)
(* Executions: ExecSandbox with its slot reservation under admissionMu,    *)
(* the command in the guest, the record that is kept of it, and            *)
(* reconcileOrphanedExecutions, which closes the records of commands whose *)
(* handler is gone.                                                        *)
(*                                                                         *)
(* Each e in Execs is one exec request and the record it inserts.  The row *)
(* of the sandbox, which the handler reads on entry and touches on its way *)
(* out, is the business of SandboxLifecycle; here the entry checks pass or *)
(* refuse.                                                                 *)
(***************************************************************************)
EXTENDS Naturals, FiniteSets

CONSTANTS
    Execs,
    Owner,          \* the tenant of each request
    MaxConcurrentExecs,
    MaxCrashes

ASSUME ExecsAssumption == IsFiniteSet(Execs)
ASSUME QuotaAssumption == MaxConcurrentExecs \in Nat
ASSUME CrashesAssumption == MaxCrashes \in Nat

VARIABLES
    row,            \* status of each execution record
    pc,             \* where each handler is
    result,         \* the status the handler is about to record
    admissionMu,    \* the handlers inside the admission lock
    rec,            \* the reconcile loop
    crashes

vars == <<row, pc, result, admissionMu, rec, crashes>>

(* "orphaned" is status canceled with the preview that reconcile writes.   *)
Terminal == {"succeeded", "failed", "timed_out", "canceled", "detached", "orphaned"}

Status == Terminal \cup {"absent", "running"}

Pcs == {"idle", "lock", "insert", "exec", "wait", "update", "done", "lost"}

InFlight(e) == pc[e] \notin {"idle", "done", "lost"}

(* The records TenantUsage counts as concurrent executions of a tenant.    *)
RunningOf(t) == {e \in Execs : row[e] = "running" /\ Owner[e] = t}

Goto(e, to) == pc' = [pc EXCEPT ![e] = to]

-----------------------------------------------------------------------------
(* ExecSandbox.                                                            *)

(* The sandbox must be running and the policy must allow the request.      *)
Begin(e) ==
    /\ pc[e] = "idle"
    /\ ~rec.boot
    /\ Goto(e, "lock") \/ Goto(e, "done")
    /\ UNCHANGED <<row, result, admissionMu, rec, crashes>>

(* Wrong: the record about to be inserted is forgotten.                    *)
CheckSlotOffByOne(e) ==
    /\ pc[e] = "lock"
    /\ admissionMu = {}
    /\ \/ /\ Cardinality(RunningOf(Owner[e])) <= MaxConcurrentExecs
          /\ Goto(e, "insert")
          /\ admissionMu' = {e}
       \/ Goto(e, "done") /\ UNCHANGED admissionMu
    /\ UNCHANGED <<row, result, rec, crashes>>

(* Wrong: the lock is released between the check and the insert.           *)
CheckSlotUnlocks(e) ==
    /\ pc[e] = "lock"
    /\ admissionMu = {}
    /\ \/ /\ Cardinality(RunningOf(Owner[e])) < MaxConcurrentExecs
          /\ Goto(e, "insert")
       \/ Goto(e, "done")
    /\ UNCHANGED <<row, result, admissionMu, rec, crashes>>

(* reserveExecutionSlot: lock and compare the usage with the quota; the    *)
(* query may fail.                                                         *)
CheckSlot(e) ==
    /\ pc[e] = "lock"
    /\ admissionMu = {}
    /\ \/ /\ Cardinality(RunningOf(Owner[e])) < MaxConcurrentExecs
          /\ Goto(e, "insert")
          /\ admissionMu' = {e}
       \/ Goto(e, "done") /\ UNCHANGED admissionMu
    /\ UNCHANGED <<row, result, rec, crashes>>

(* CreateExecution inserts the record, or fails, and the lock is released. *)
InsertRecord(e) ==
    /\ pc[e] = "insert"
    /\ \/ row' = [row EXCEPT ![e] = "running"] /\ Goto(e, "exec")
       \/ UNCHANGED row /\ Goto(e, "done")
    /\ admissionMu' = admissionMu \ {e}
    /\ UNCHANGED <<result, rec, crashes>>

(* runtime.Exec fails, or launches a command that is detached or waited    *)
(* for.                                                                    *)
Launch(e) ==
    /\ pc[e] = "exec"
    /\ \/ Goto(e, "wait") /\ UNCHANGED result
       \/ /\ Goto(e, "update")
          /\ \E st \in {"failed", "detached"} : result' = [result EXCEPT ![e] = st]
    /\ UNCHANGED <<row, admissionMu, rec, crashes>>

(* handle.Wait returns: the command ended, timed out or was canceled, or   *)
(* the stream to the guest was lost.                                       *)
WaitReturns(e) ==
    /\ pc[e] = "wait"
    /\ \E st \in {"succeeded", "failed", "timed_out", "canceled"} :
         result' = [result EXCEPT ![e] = st]
    /\ Goto(e, "update")
    /\ UNCHANGED <<row, admissionMu, rec, crashes>>

(* UpdateExecution writes the result whatever the record says by now, with *)
(* a context that cannot be canceled; the write may fail.                  *)
RecordResult(e) ==
    /\ pc[e] = "update"
    /\ row' = [row EXCEPT ![e] = result[e]] \/ UNCHANGED row
    /\ Goto(e, "done")
    /\ result' = [result EXCEPT ![e] = "absent"]
    /\ UNCHANGED <<admissionMu, rec, crashes>>

-----------------------------------------------------------------------------
(* reconcileOrphanedExecutions.                                            *)

ReconcileTick ==
    /\ rec.pc = "idle"
    /\ rec' = [rec EXCEPT !.pc = "list"]
    /\ UNCHANGED <<row, pc, result, admissionMu, crashes>>

ListRunningExecutions ==
    /\ rec.pc = "list"
    /\ rec' = [rec EXCEPT !.pc = "cancel", !.todo = {e \in Execs : row[e] = "running"}]
    /\ UNCHANGED <<row, pc, result, admissionMu, crashes>>

(* Wrong: a record whose handler was lost is passed over.                  *)
CancelSkipsLost(e) ==
    /\ rec.pc = "cancel"
    /\ e \in rec.todo
    /\ row' = IF pc[e] = "lost" THEN row ELSE [row EXCEPT ![e] = "orphaned"]
    /\ rec' = [rec EXCEPT !.todo = rec.todo \ {e}]
    /\ UNCHANGED <<pc, result, admissionMu, crashes>>

CancelListed(e) ==
    /\ rec.pc = "cancel"
    /\ e \in rec.todo
    /\ row' = [row EXCEPT ![e] = "orphaned"]
    /\ rec' = [rec EXCEPT !.todo = rec.todo \ {e}]
    /\ UNCHANGED <<pc, result, admissionMu, crashes>>

(* The rest of the pass does not touch executions.  A store error ends the *)
(* pass early; at startup it is logged and the daemon serves all the same. *)
ReconcileReturns ==
    /\ rec.pc \in {"list", "cancel"}
    /\ rec' = [pc |-> "idle", boot |-> FALSE, todo |-> {}]
    /\ UNCHANGED <<row, pc, result, admissionMu, crashes>>

(* The daemon dies and restarts: records and commands survive, handlers    *)
(* and the lock do not, and a reconcile pass runs before serving.          *)
Crash ==
    /\ crashes < MaxCrashes
    /\ crashes' = crashes + 1
    /\ pc' = [e \in Execs |-> IF InFlight(e) THEN "lost" ELSE pc[e]]
    /\ admissionMu' = {}
    /\ rec' = [pc |-> "list", boot |-> TRUE, todo |-> {}]
    /\ result' = [e \in Execs |-> "absent"]
    /\ UNCHANGED row

-----------------------------------------------------------------------------
Init ==
    /\ row = [e \in Execs |-> "absent"]
    /\ pc = [e \in Execs |-> "idle"]
    /\ result = [e \in Execs |-> "absent"]
    /\ admissionMu = {}
    /\ rec = [pc |-> "idle", boot |-> FALSE, todo |-> {}]
    /\ crashes = 0

Handler(e) ==
    \/ Begin(e) \/ CheckSlot(e) \/ InsertRecord(e) \/ Launch(e) \/ WaitReturns(e)
    \/ RecordResult(e)

Next ==
    \/ \E e \in Execs : Handler(e) \/ CancelListed(e)
    \/ ReconcileTick \/ ListRunningExecutions \/ ReconcileReturns
    \/ Crash

Spec == Init /\ [][Next]_vars

(* The ticker keeps ticking, and the store does not fail every pass.  No   *)
(* handler is assumed to make progress: an exec without a timeout may wait *)
(* for ever.                                                               *)
FairSpec ==
    /\ Spec
    /\ WF_vars(ReconcileTick)
    /\ SF_vars(ListRunningExecutions)
    /\ \A e \in Execs : SF_vars(CancelListed(e))
    /\ WF_vars(ReconcileReturns)

-----------------------------------------------------------------------------
(* Properties.                                                             *)

TypeOK ==
    /\ row \in [Execs -> Status]
    /\ pc \in [Execs -> Pcs]
    /\ result \in [Execs -> Terminal \cup {"absent"}]
    /\ admissionMu \in SUBSET Execs
    /\ rec \in [pc : {"idle", "list", "cancel"}, boot : BOOLEAN, todo : SUBSET Execs]
    /\ crashes \in 0..MaxCrashes

(* However exec requests, reconcile passes and restarts interleave, no     *)
(* tenant has more running execution records than MaxConcurrentExecs.      *)
ExecQuota ==
    \A e \in Execs : Cardinality(RunningOf(Owner[e])) <= MaxConcurrentExecs

(* Execution records implement a slot pool: running is a held slot, and a  *)
(* record that left running never becomes running again.                   *)
Pool == INSTANCE SlotPool WITH
            Slots <- Execs,
            Limit <- MaxConcurrentExecs,
            held  <- {e \in Execs : row[e] = "running"},
            spent <- {e \in Execs : row[e] \in Terminal}

ImplementsSlotPool == Pool!Spec

(* A handler that has not recorded its result still holds its slot, so the *)
(* commands being waited for are within the quota too.                     *)
HandlerHoldsSlot ==
    \A e \in Execs : pc[e] \in {"exec", "wait", "update"} => row[e] = "running"

(* A record does not stay running: its handler closes it, or a reconcile   *)
(* pass does after the handler was lost or failed to write.                *)
SlotsAreReturned ==
    \A e \in Execs : (row[e] = "running") ~> (row[e] # "running")

=============================================================================
