--------------------------- MODULE SlotPoolProofs ---------------------------
(***************************************************************************)
(* A slot pool never exceeds its limit, whatever the slots, the tenants    *)
(* and the limit are.                                                      *)
(***************************************************************************)
EXTENDS SlotPool, FiniteSetTheorems, TLAPS

(* Taking a slot while there is room, or giving one back, keeps every      *)
(* tenant within the limit.                                                *)
LEMMA StepWithinLimit ==
    ASSUME IsFiniteSet(Slots), Limit \in Nat, TypeOK, WithinLimit, [Next]_poolVars
    PROVE  TypeOK' /\ WithinLimit'
<1>1. \A t : IsFiniteSet(HeldBy(t))
  BY FS_Subset DEF TypeOK, HeldBy
<1>2. \A t : Cardinality(HeldBy(t)) \in Nat
  BY <1>1, FS_CardinalityType
<1>3. CASE UNCHANGED poolVars
  BY <1>3 DEF poolVars, TypeOK, WithinLimit, HeldBy
<1>4. ASSUME NEW x \in Slots, Acquire(x) PROVE TypeOK' /\ WithinLimit'
  <2>1. TypeOK'
    BY <1>4 DEF Acquire, TypeOK
  <2>2. SUFFICES ASSUME NEW y \in Slots PROVE Cardinality(HeldBy(Owner[y])') <= Limit
    BY <2>1 DEF WithinLimit, HeldBy
  <2>3. CASE Owner[y] = Owner[x]
    <3>1. HeldBy(Owner[y])' = HeldBy(Owner[y]) \cup {x}
      BY <1>4, <2>3 DEF Acquire, HeldBy
    <3>2. x \notin HeldBy(Owner[y])
      BY <1>4 DEF Acquire, HeldBy
    <3>3. Cardinality(HeldBy(Owner[y])') = Cardinality(HeldBy(Owner[y])) + 1
      BY <1>1, <3>1, <3>2, FS_AddElement
    <3> QED
      BY <1>2, <1>4, <2>3, <3>3 DEF Acquire
  <2>4. CASE Owner[y] # Owner[x]
    <3>1. HeldBy(Owner[y])' = HeldBy(Owner[y])
      BY <1>4, <2>4 DEF Acquire, HeldBy
    <3> QED
      BY <3>1 DEF WithinLimit
  <2> QED
    BY <2>3, <2>4
<1>5. ASSUME NEW x \in Slots, Release(x) PROVE TypeOK' /\ WithinLimit'
  <2>1. TypeOK'
    BY <1>5 DEF Release, TypeOK
  <2>2. SUFFICES ASSUME NEW y \in Slots PROVE Cardinality(HeldBy(Owner[y])') <= Limit
    BY <2>1 DEF WithinLimit, HeldBy
  <2>3. HeldBy(Owner[y])' \subseteq HeldBy(Owner[y])
    BY <1>5 DEF Release, HeldBy
  <2>4. Cardinality(HeldBy(Owner[y])') <= Cardinality(HeldBy(Owner[y])) /\ IsFiniteSet(HeldBy(Owner[y])')
    BY <1>1, <2>3, FS_Subset
  <2>5. Cardinality(HeldBy(Owner[y])') \in Nat
    BY <2>4, FS_CardinalityType
  <2> QED
    BY <1>2, <2>4, <2>5 DEF WithinLimit
<1> QED
  BY <1>3, <1>4, <1>5 DEF Next

(* No tenant of a slot pool ever holds more slots than the limit.          *)
THEOREM PoolWithinLimit ==
    ASSUME IsFiniteSet(Slots), Limit \in Nat
    PROVE  Spec => []WithinLimit
<1>1. Init => TypeOK /\ WithinLimit
  <2>1. Init => \A t : HeldBy(t) = {}
    BY DEF Init, HeldBy
  <2> QED
    BY <2>1, FS_EmptySet DEF Init, TypeOK, WithinLimit
<1>2. TypeOK /\ WithinLimit /\ [Next]_poolVars => (TypeOK /\ WithinLimit)'
  BY StepWithinLimit
<1> QED
  BY <1>1, <1>2, PTL DEF Spec

=============================================================================
