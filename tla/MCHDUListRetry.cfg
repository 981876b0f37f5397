SPECIFICATION Spec
CONSTANTS
    p = p
    a = a
    b = b
    n = n
    Obj = {p, a, b, n}
    Opened <- MCOpened
    Compressed = {a}
    Options <- MCOptions
    FailAt = {"delete"}
    None = None
    Reuse = FALSE
    Retry = TRUE
    MaxOps = 3
    MaxFaults = 1
INVARIANT RetryKeepsHDUs
CHECK_DEADLOCK FALSE
