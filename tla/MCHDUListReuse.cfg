SPECIFICATION Spec
CONSTANTS
    p = p
    a = a
    b = b
    n = n
    Obj = {p, a, b, n}
    Opened <- MCOpened
    Compressed = {a}
    Options <- MCOptions
    FailAt = {}
    None = None
    Reuse = TRUE
    Retry = FALSE
    MaxOps = 3
    MaxFaults = 1
INVARIANT EditsLandHome
CHECK_DEADLOCK FALSE
