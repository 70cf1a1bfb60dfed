CONSTANTS
    r1 = r1
    r2 = r2
    a = a
    b = b
    n1 = n1
    Sandboxes = {a, b}
    Snaps = {n1}
    Requests = {r1, r2}
    Nodes <- MCNodes
    MaxHeavy = 1
    MaxCrashes = 1
SPECIFICATION Spec
INVARIANT BaseImageStays
CHECK_DEADLOCK FALSE
