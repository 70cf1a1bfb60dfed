CONSTANTS
    PathOrder <- MCPathOrder
    Parent <- MCParent
    Base <- MCBase
    MaxBytes = 2
    GuestMax = 1
    MaxFiles = 2
    MaxRatio = 2
    Requests = {r1, r2}
    r1 = r1
    r2 = r2
    Loads <- MCLoads
    Backends = {"qemu", "docker"}
    WsFaults = {"guest", "host", "stream"}
    MaxSize = 3
SPECIFICATION FairSpec
INVARIANTS RefusedChangesNothing ImportIsWhole TransfersAreLimited ArchiveIsWellFormed HostExportIsComplete
PROPERTIES UsageConverges
CHECK_DEADLOCK FALSE
