CONSTANTS
    t1 = t1
    Sandboxes = {s1, s2}
    Tenants = {t1}
    Requests = {r1, r2}
    Owner <- MCOwner
    Ops = {"createStart", "start", "delete"}
    Serial = FALSE
    Ticker = TRUE
    Faults = {"cancel"}
    MaxCrashes = 0
    MaxSandboxes = 1
    MaxRunning = 1
    MaxNodeSandboxes = 0
    MaxNodeRunning = 1
    MaxTenantStarts = 1
    MaxTenantHeavy = 2
SPECIFICATION ServingSpec
INVARIANTS SandboxQuota
PROPERTIES RequestsFinish

