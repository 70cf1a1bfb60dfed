-------------------------- MODULE ExecutionsProofs --------------------------
(***************************************************************************)
(* Execution records implement a slot pool, and so no tenant exceeds its   *)
(* exec quota, for any number of requests, tenants, restarts and ticks.    *)
(***************************************************************************)
EXTENDS Executions, FiniteSetTheorems, TLAPS

(* The lock: only the handler between the quota check and the insert is    *)
(* inside it, and there is at most one.                                    *)
LockInv ==
    /\ admissionMu = {e \in Execs : pc[e] = "insert"}
    /\ \A e, f \in admissionMu : e = f

(* The quota check is still true when the record is inserted: the only     *)
(* step that adds a running record is taken inside the lock.               *)
RoomInv ==
    \A e \in Execs :
        pc[e] = "insert" => Cardinality(RunningOf(Owner[e])) < MaxConcurrentExecs

(* Before its insert a request has no record, a handler about to record a  *)
(* result has one, and reconcile only lists records that exist.            *)
RecordInv ==
    /\ \A e \in Execs : pc[e] \in {"idle", "lock", "insert"} => row[e] = "absent"
    /\ \A e \in Execs : pc[e] = "update" => result[e] \in Terminal /\ row[e] # "absent"
    /\ \A e \in Execs : pc[e] \in {"exec", "wait"} => row[e] # "absent"
    /\ \A e \in rec.todo : row[e] # "absent"

IInv == TypeOK /\ LockInv /\ RoomInv /\ RecordInv

USE ExecsAssumption, QuotaAssumption, CrashesAssumption

(* The running records of a tenant are finitely many.                      *)
LEMMA RunningFinite ==
    \A t : IsFiniteSet(RunningOf(t)) /\ Cardinality(RunningOf(t)) \in Nat
<1>1. \A t : RunningOf(t) \subseteq Execs
  BY Zenon DEF RunningOf
<1> QED
  BY <1>1, FS_Subset, FS_CardinalityType, Zenon

(* A step that makes no record running does not raise any tenant's count.  *)
LEMMA FewerRunning ==
    ASSUME \A e \in Execs : row'[e] = "running" => row[e] = "running"
    PROVE  \A t : Cardinality(RunningOf(t)') <= Cardinality(RunningOf(t))
<1>1. \A t : RunningOf(t)' \subseteq RunningOf(t)
  BY Zenon DEF RunningOf
<1> QED
  BY <1>1, RunningFinite, FS_Subset, Zenon

(* Every step keeps the state well typed.                                  *)
LEMMA TypeStep == TypeOK /\ RecordInv /\ [Next]_vars => TypeOK'
<1> SUFFICES ASSUME TypeOK, RecordInv, [Next]_vars PROVE TypeOK'
  OBVIOUS
<1> USE DEF TypeOK, Goto, Pcs, Status, Terminal
<1>1. CASE UNCHANGED vars
  BY <1>1, Zenon DEF vars
<1>2. ASSUME NEW e \in Execs, Begin(e) PROVE TypeOK'
  BY <1>2, Zenon DEF Begin
<1>3. ASSUME NEW e \in Execs, CheckSlot(e) PROVE TypeOK'
  BY <1>3, Zenon DEF CheckSlot
<1>4. ASSUME NEW e \in Execs, InsertRecord(e) PROVE TypeOK'
  BY <1>4, Zenon DEF InsertRecord
<1>5. ASSUME NEW e \in Execs, Launch(e) PROVE TypeOK'
  BY <1>5 DEF Launch
<1>6. ASSUME NEW e \in Execs, WaitReturns(e) PROVE TypeOK'
  BY <1>6 DEF WaitReturns
<1>7. ASSUME NEW e \in Execs, RecordResult(e) PROVE TypeOK'
  BY <1>7, Zenon DEF RecordResult, RecordInv
<1>8. ASSUME NEW e \in Execs, CancelListed(e) PROVE TypeOK'
  BY <1>8, Zenon DEF CancelListed
<1>9. CASE ReconcileTick
  BY <1>9, Zenon DEF ReconcileTick
<1>10. CASE ListRunningExecutions
  BY <1>10, Zenon DEF ListRunningExecutions
<1>11. CASE ReconcileReturns
  BY <1>11, Zenon DEF ReconcileReturns
<1>12. CASE Crash
  BY <1>12 DEF Crash, InFlight
<1> QED
  BY <1>1, <1>2, <1>3, <1>4, <1>5, <1>6, <1>7, <1>8, <1>9, <1>10, <1>11, <1>12, Zenon
     DEF Next, Handler

(* Every step keeps the lock exclusive.                                    *)
LEMMA LockStep == IInv /\ [Next]_vars => LockInv'
<1> SUFFICES ASSUME IInv, [Next]_vars PROVE LockInv'
  OBVIOUS
<1> USE DEF IInv, TypeOK, LockInv, Goto
<1>1. CASE UNCHANGED vars
  BY <1>1, Zenon DEF vars
<1>2. ASSUME NEW e \in Execs, Begin(e) PROVE LockInv'
  BY <1>2, Zenon DEF Begin
<1>3. ASSUME NEW e \in Execs, CheckSlot(e) PROVE LockInv'
  BY <1>3 DEF CheckSlot
<1>4. ASSUME NEW e \in Execs, InsertRecord(e) PROVE LockInv'
  BY <1>4, Zenon DEF InsertRecord
<1>5. ASSUME NEW e \in Execs, Launch(e) PROVE LockInv'
  BY <1>5 DEF Launch
<1>6. ASSUME NEW e \in Execs, WaitReturns(e) PROVE LockInv'
  BY <1>6, Zenon DEF WaitReturns
<1>7. ASSUME NEW e \in Execs, RecordResult(e) PROVE LockInv'
  BY <1>7, Zenon DEF RecordResult
<1>8. ASSUME NEW e \in Execs, CancelListed(e) PROVE LockInv'
  BY <1>8, Zenon DEF CancelListed
<1>9. CASE ReconcileTick \/ ListRunningExecutions \/ ReconcileReturns
  BY <1>9, Zenon DEF ReconcileTick, ListRunningExecutions, ReconcileReturns
<1>10. CASE Crash
  BY <1>10, Zenon DEF Crash, InFlight
<1> QED
  BY <1>1, <1>2, <1>3, <1>4, <1>5, <1>6, <1>7, <1>8, <1>9, <1>10, Zenon DEF Next, Handler

(* Every step keeps the records in step with the handlers.                 *)
LEMMA RecordStep == IInv /\ [Next]_vars => RecordInv'
<1> SUFFICES ASSUME IInv, [Next]_vars PROVE RecordInv'
  OBVIOUS
<1> USE DEF IInv, TypeOK, RecordInv, Goto, Terminal
<1>1. CASE UNCHANGED vars
  BY <1>1, Zenon DEF vars
<1>2. ASSUME NEW e \in Execs, Begin(e) PROVE RecordInv'
  BY <1>2, Zenon DEF Begin
<1>3. ASSUME NEW e \in Execs, CheckSlot(e) PROVE RecordInv'
  BY <1>3, Zenon DEF CheckSlot
<1>4. ASSUME NEW e \in Execs, InsertRecord(e) PROVE RecordInv'
  BY <1>4 DEF InsertRecord
<1>5. ASSUME NEW e \in Execs, Launch(e) PROVE RecordInv'
  BY <1>5 DEF Launch
<1>6. ASSUME NEW e \in Execs, WaitReturns(e) PROVE RecordInv'
  BY <1>6, Zenon DEF WaitReturns
<1>7. ASSUME NEW e \in Execs, RecordResult(e) PROVE RecordInv'
  BY <1>7, Zenon DEF RecordResult
<1>8. ASSUME NEW e \in Execs, CancelListed(e) PROVE RecordInv'
  BY <1>8, Zenon DEF CancelListed
<1>9. CASE ReconcileTick
  BY <1>9, Zenon DEF ReconcileTick
<1>10. CASE ListRunningExecutions
  BY <1>10, Zenon DEF ListRunningExecutions
<1>11. CASE ReconcileReturns
  BY <1>11, Zenon DEF ReconcileReturns
<1>12. CASE Crash
  BY <1>12, Zenon DEF Crash, InFlight
<1> QED
  BY <1>1, <1>2, <1>3, <1>4, <1>5, <1>6, <1>7, <1>8, <1>9, <1>10, <1>11, <1>12, Zenon
     DEF Next, Handler

(* Only an insert makes a record running.                                  *)
LEMMA OnlyInsertRuns ==
    ASSUME IInv, [Next]_vars, \A e \in Execs : ~InsertRecord(e)
    PROVE  \A e \in Execs : row'[e] = "running" => row[e] = "running"
<1> USE DEF IInv, TypeOK, RecordInv, Terminal
<1>1. ASSUME NEW e \in Execs, RecordResult(e)
      PROVE  \A f \in Execs : row'[f] = "running" => row[f] = "running"
  BY <1>1, Zenon DEF RecordResult
<1>2. ASSUME NEW e \in Execs, CancelListed(e)
      PROVE  \A f \in Execs : row'[f] = "running" => row[f] = "running"
  BY <1>2, Zenon DEF CancelListed
<1>3. CASE row' = row
  BY <1>3, Zenon
<1>4. \/ \E e \in Execs : RecordResult(e) \/ CancelListed(e)
      \/ row' = row
  BY Zenon DEF Next, Handler, vars, Begin, CheckSlot, Launch, WaitReturns, ReconcileTick,
         ListRunningExecutions, ReconcileReturns, Crash
<1> QED
  BY <1>1, <1>2, <1>3, <1>4, Zenon

(* Every step leaves room for the record whose quota check has passed.     *)
LEMMA RoomStep == IInv /\ [Next]_vars => RoomInv'
<1> SUFFICES ASSUME IInv, [Next]_vars, NEW f \in Execs, pc'[f] = "insert"
             PROVE  Cardinality(RunningOf(Owner[f])') < MaxConcurrentExecs
  BY Zenon DEF RoomInv, RunningOf
<1>1. ASSUME NEW e \in Execs, InsertRecord(e) PROVE FALSE
  <2>1. pc[f] = "insert" /\ f # e
    BY <1>1, Zenon DEF InsertRecord, Goto, IInv, TypeOK
  <2> QED
    BY <1>1, <2>1, Zenon DEF InsertRecord, IInv, LockInv
<1>2. \A t : Cardinality(RunningOf(t)') <= Cardinality(RunningOf(t))
  BY <1>1, OnlyInsertRuns, FewerRunning, Zenon
<1>3. Cardinality(RunningOf(Owner[f])) < MaxConcurrentExecs
  <2>1. CASE pc[f] = "insert"
    BY <2>1, Zenon DEF IInv, RoomInv
  <2>2. CASE pc[f] # "insert"
    <3>1. CheckSlot(f)
      BY <2>2 DEF IInv, TypeOK, Next, Handler, vars, Begin, CheckSlot, InsertRecord, Launch,
         WaitReturns, RecordResult, CancelListed, ReconcileTick,
         ListRunningExecutions, ReconcileReturns, Crash, InFlight, Goto
    <3> QED
      BY <3>1, <2>2, Zenon DEF CheckSlot, Goto, IInv, TypeOK
  <2> QED
    BY <2>1, <2>2, Zenon
<1>4. Cardinality(RunningOf(Owner[f])') \in Nat
  <2>1. RunningOf(Owner[f])' \subseteq Execs
    BY Zenon DEF RunningOf
  <2> QED
    BY <2>1, FS_Subset, FS_CardinalityType, Zenon
<1> QED
  BY <1>2, <1>3, <1>4, RunningFinite

(* The inductive invariant holds in every reachable state.                 *)
THEOREM Invariance == Spec => []IInv
<1>1. Init => IInv
  BY DEF Init, IInv, TypeOK, LockInv, RoomInv, RecordInv, Status, Pcs, Terminal
<1>2. IInv /\ [Next]_vars => IInv'
  BY TypeStep, LockStep, RoomStep, RecordStep, Zenon DEF IInv
<1> QED
  BY <1>1, <1>2, PTL DEF Spec

(* The state of the handlers, records and reconcile loop stays well typed. *)
THEOREM TypeCorrect == Spec => []TypeOK
  BY Invariance, PTL DEF IInv

-----------------------------------------------------------------------------
(* Refinement.                                                             *)

Held == {e \in Execs : row[e] = "running"}

Spent == {e \in Execs : row[e] \in Terminal}

(* The pool counts with the same cardinality.                              *)
LEMMA SameCount == \A S : Pool!Cardinality(S) = Cardinality(S)
  BY Zenon DEF Pool!Cardinality, Cardinality

(* An insert takes a slot or changes no record.                            *)
LEMMA InsertAcquires ==
    ASSUME IInv, NEW e \in Execs, InsertRecord(e)
    PROVE  Pool!Acquire(e) \/ row' = row
<1>1. CASE row' = [row EXCEPT ![e] = "running"]
  <2>1. row[e] = "absent"
    BY Zenon DEF IInv, RecordInv, InsertRecord
  <2>2. e \notin Held \cup Spent
    BY <2>1, Zenon DEF Held, Spent, Terminal
  <2>3. Pool!HeldBy(Owner[e]) = RunningOf(Owner[e])
    BY Zenon DEF Pool!HeldBy, RunningOf, Held
  <2>4. Held' = Held \cup {e}
    BY <1>1, Zenon DEF Held, IInv, TypeOK
  <2>5. Spent' = Spent
    <3>1. \A f \in Execs : row'[f] = IF f = e THEN "running" ELSE row[f]
      BY <1>1, Zenon DEF IInv, TypeOK
    <3> QED
      BY <2>1, <3>1, Zenon DEF Spent, Terminal
  <2>6. Cardinality(RunningOf(Owner[e])) < MaxConcurrentExecs
    BY Zenon DEF IInv, RoomInv, InsertRecord
  <2> QED
    BY <2>2, <2>3, <2>4, <2>5, <2>6, SameCount, Zenon DEF Pool!Acquire, Held, Spent
<1> QED
  BY <1>1, Zenon DEF InsertRecord

(* Recording a result gives a slot back, or replaces one result by another.*)
LEMMA WriteReleases ==
    ASSUME IInv, NEW e \in Execs, NEW st \in Terminal, row[e] # "absent",
           row' = [row EXCEPT ![e] = st]
    PROVE  Pool!Release(e) \/ (Held' = Held /\ Spent' = Spent)
<1> USE DEF IInv, TypeOK, Held, Spent, Terminal
<1>1. CASE row[e] = "running"
  <2>1. Held' = Held \ {e}
    BY <1>1, Zenon
  <2>2. Spent' = Spent \cup {e}
    BY <1>1, Zenon
  <2> QED
    BY <1>1, <2>1, <2>2, Zenon DEF Pool!Release
<1>2. CASE row[e] # "running"
  <2>1. row[e] \in Terminal
    BY <1>2, Zenon DEF Status
  <2> QED
    BY <1>2, <2>1, Zenon
<1> QED
  BY <1>1, <1>2, Zenon

(* Execution records implement a slot pool: running is a held slot, taken  *)
(* once, under the quota, and never taken again after it is closed.        *)
THEOREM ExecutionsImplementSlotPool == Spec => ImplementsSlotPool
<1>1. Init => Pool!Init
  BY Zenon DEF Init, Pool!Init, Held, Spent, Terminal
<1>2. IInv /\ [Next]_vars => [Pool!Next]_(Pool!poolVars)
  <2> SUFFICES ASSUME IInv, [Next]_vars PROVE Pool!Next \/ (Held' = Held /\ Spent' = Spent)
    BY Zenon DEF Pool!poolVars, Held, Spent
  <2>1. ASSUME NEW e \in Execs, InsertRecord(e)
        PROVE  Pool!Next \/ (Held' = Held /\ Spent' = Spent)
    BY <2>1, InsertAcquires, Zenon DEF Pool!Next, Held, Spent
  <2>2. ASSUME NEW e \in Execs, RecordResult(e)
        PROVE  Pool!Next \/ (Held' = Held /\ Spent' = Spent)
    <3>1. result[e] \in Terminal /\ row[e] # "absent"
      BY <2>2, Zenon DEF RecordResult, IInv, RecordInv
    <3> QED
      BY <2>2, <3>1, WriteReleases, Zenon DEF RecordResult, Pool!Next, Held, Spent
  <2>3. ASSUME NEW e \in Execs, CancelListed(e)
        PROVE  Pool!Next \/ (Held' = Held /\ Spent' = Spent)
    <3>1. row[e] # "absent" /\ "orphaned" \in Terminal
      BY <2>3, Zenon DEF CancelListed, IInv, RecordInv, Terminal
    <3> QED
      BY <2>3, <3>1, WriteReleases, Zenon DEF CancelListed, Pool!Next
  <2>4. CASE row' = row
    BY <2>4, Zenon DEF Held, Spent
  <2> QED
    BY <2>1, <2>2, <2>3, <2>4, Zenon DEF Next, Handler, vars, Begin, CheckSlot, Launch,
       WaitReturns, ReconcileTick, ListRunningExecutions, ReconcileReturns, Crash
<1> QED
  BY <1>1, <1>2, Invariance, PTL DEF Spec, Pool!Spec, ImplementsSlotPool

-----------------------------------------------------------------------------
(* The quota.                                                              *)

PoolProofs == INSTANCE SlotPoolProofs WITH
                  Slots <- Execs, Limit <- MaxConcurrentExecs, held <- Held, spent <- Spent

(* No tenant ever has more running executions than its quota allows: what  *)
(* every slot pool guarantees, carried over by the refinement.             *)
THEOREM ExecQuotaHolds == Spec => []ExecQuota
<1>1. \A S : PoolProofs!Cardinality(S) = Cardinality(S)
  BY Zenon DEF PoolProofs!Cardinality, Cardinality
<1>2. PoolProofs!IsFiniteSet(Execs)
  BY Zenon DEF PoolProofs!IsFiniteSet, IsFiniteSet
<1>3. ExecQuota <=> PoolProofs!WithinLimit
  <2>1. \A t : PoolProofs!HeldBy(t) = RunningOf(t)
    BY Zenon DEF PoolProofs!HeldBy, RunningOf, Held
  <2> QED
    BY <1>1, <2>1, Zenon DEF ExecQuota, PoolProofs!WithinLimit
<1>4. Pool!Spec => PoolProofs!Spec
  <2>1. Pool!Init => PoolProofs!Init
    BY Zenon DEF Pool!Init, PoolProofs!Init, Held, Spent
  <2>2. \A t : PoolProofs!HeldBy(t) = Pool!HeldBy(t)
    BY Zenon DEF PoolProofs!HeldBy, Pool!HeldBy, Held
  <2>3. \A e \in Execs : Pool!Acquire(e) => PoolProofs!Acquire(e)
    BY <1>1, <2>2, SameCount, Zenon DEF Pool!Acquire, PoolProofs!Acquire, Held, Spent
  <2>4. \A e \in Execs : Pool!Release(e) => PoolProofs!Release(e)
    BY Zenon DEF Pool!Release, PoolProofs!Release, Held, Spent
  <2>5. [Pool!Next]_(Pool!poolVars) => [PoolProofs!Next]_(PoolProofs!poolVars)
    BY <2>3, <2>4, Zenon DEF Pool!Next, PoolProofs!Next, Pool!poolVars, PoolProofs!poolVars, Held, Spent
  <2> QED
    BY <2>1, <2>5, PTL DEF Pool!Spec, PoolProofs!Spec
<1>5. PoolProofs!Spec => []PoolProofs!WithinLimit
  BY <1>2, PoolProofs!PoolWithinLimit, Zenon
<1> QED
  BY <1>3, <1>4, <1>5, ExecutionsImplementSlotPool, PTL DEF ImplementsSlotPool

=============================================================================
