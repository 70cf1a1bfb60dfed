SPECIFICATION FairSpec
CONSTANTS
    Calls = {1, 2}
    Mixes <- MCMixes
    Unstable <- MCUnstable
    Limit = 1
    Events = 1
    PortCap = 2
    MaxSessions = 2
    MaxPid = 2
INVARIANTS RepliesMatch StreamsAreWhole ExecResultIsGuests WriteIsWhole OpenSessionIsKnown
PROPERTIES WaitsEnd
CHECK_DEADLOCK FALSE
