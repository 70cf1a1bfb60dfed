CONSTANTS
    t1 = t1
    t2 = t2
    a = a
    tenant = tenant
    w1 = w1
    l1 = l1
    p1 = p1
    p2 = p2
    Tunnels = {t1, t2}
    Sandboxes = {a}
    SandboxOf <- MCSandboxOf
    Owner <- MCOwner
    MaxTunnels = 1
    QuotaReadable = TRUE
    Enders = {w1}
    Links = {l1}
    Proxies = {p1, p2}
    MaxCrashes = 1
SPECIFICATION Spec
INVARIANTS RevokedStaysShut EndRevokesTunnels UsedCapabilityIsSpent
PROPERTIES ImplementsSlotPool
CHECK_DEADLOCK FALSE
