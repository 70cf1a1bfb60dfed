CONSTANTS
    t1 = t1
    Sandboxes = {s1}
    Tenants = {t1}
    Requests = {r1}
    Owner <- MCOwner
    Ops = {"create", "createStart", "start", "resume", "stop", "suspend", "delete", "touch"}
    Serial = FALSE
    Ticker = TRUE
    Faults = {"cancel", "store", "runtime", "probe", "stop", "exit"}
    MaxCrashes = 1
    MaxSandboxes = 1
    MaxRunning = 1
    MaxNodeSandboxes = 1
    MaxNodeRunning = 1
    MaxTenantStarts = 1
    MaxTenantHeavy = 2
SPECIFICATION FairSpec
PROPERTIES NoRowStaysTransitional RowsBecomeTrue
