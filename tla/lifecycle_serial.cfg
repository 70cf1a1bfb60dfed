CONSTANTS
    t1 = t1
    Sandboxes = {s1, s2}
    Tenants = {t1}
    Requests = {r1, r2}
    Owner <- MCOwner
    Ops = {"createStart", "start", "resume", "stop", "suspend", "delete", "touch"}
    Serial = TRUE
    Ticker = TRUE
    Faults = {"cancel", "runtime"}
    MaxCrashes = 1
    MaxSandboxes = 2
    MaxRunning = 2
    MaxNodeSandboxes = 0
    MaxNodeRunning = 1
    MaxTenantStarts = 0
    MaxTenantHeavy = 2
SPECIFICATION Spec
INVARIANTS NodeCapacity DeletedHasNoGuest SettledRowsAreTrue
CHECK_DEADLOCK FALSE
SYMMETRY RequestSymmetry
