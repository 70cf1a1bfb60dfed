------------------------------ MODULE SlotPool ------------------------------
(***************************************************************************)
(* What a tenant quota promises, whatever is counted: a slot is taken at   *)
(* most once, only while its tenant holds fewer slots than the limit, and  *)
(* a slot given back is never taken again.  Executions and Tunnels are     *)
(* shown to implement it.                                                  *)
(***************************************************************************)
EXTENDS Naturals, FiniteSets

CONSTANTS
    Slots,      \* every slot that may ever be taken: fresh record ids
    Owner,      \* the tenant of each slot
    Limit       \* the quota of a tenant

VARIABLES
    held,       \* slots taken and not given back
    spent       \* slots given back

poolVars == <<held, spent>>

HeldBy(t) == {x \in held : Owner[x] = t}

Acquire(x) ==
    /\ x \in Slots \ (held \cup spent)
    /\ Cardinality(HeldBy(Owner[x])) < Limit
    /\ held' = held \cup {x}
    /\ UNCHANGED spent

Release(x) ==
    /\ x \in held
    /\ held' = held \ {x}
    /\ spent' = spent \cup {x}

Init == held = {} /\ spent = {}

Next == \E x \in Slots : Acquire(x) \/ Release(x)

Spec == Init /\ [][Next]_poolVars

TypeOK == held \in SUBSET Slots /\ spent \in SUBSET Slots

(* No tenant ever holds more slots than the limit.                         *)
WithinLimit == \A x \in Slots : Cardinality(HeldBy(Owner[x])) <= Limit

=============================================================================
