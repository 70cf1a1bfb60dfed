SPECIFICATION Spec
CONSTANTS
    Callers = {c1}
    Ops = {"create", "start", "stop", "kill", "suspend", "resume", "destroy", "inspect"}
    Faults = {"runtime", "probe", "stop"}
    MaxPid = 3
    MaxCrashes = 2
INVARIANTS OutcomesAreContract ProcessIsTracked
CHECK_DEADLOCK FALSE
