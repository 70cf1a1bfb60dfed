CONSTANTS
    e1 = e1
    e2 = e2
    e3 = e3
    t1 = t1
    t2 = t2
    Execs = {e1, e2, e3}
    Owner <- MCOwner
    MaxConcurrentExecs = 1
    MaxCrashes = 0
SPECIFICATION Spec
INVARIANTS HandlerHoldsSlot
