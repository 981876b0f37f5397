SPECIFICATION Spec
CONSTANTS
    p = p
    a = a
    b = b
    n = n
    Obj = {p, a, b, n}
    Opened <- MCOpened
    Compressed = {a}
    Options <- MCOptions
    FailAt = {"copy", "create", "fill", "undo", "delete", "deleted", "write", "sync"}
    None = None
    Reuse = FALSE
    Retry = FALSE
    MaxOps = 4
    MaxFaults = 2
INVARIANTS FlushPersists NeverMissing AppendRollsBack NoFalseConflict WritesWhatIsSeen
CHECK_DEADLOCK FALSE
