SPECIFICATION Spec
CONSTANTS
    Row = {1, 2, 3}
    Cap = 4
    MaxOff = 2
    MaxLen = 2
    InitDescs <- MCDescs
    Ranges <- MCRanges
    MaxCalls = 4
    MaxFaults = 1
INVARIANTS Accounting Coalesced CellsKept
CHECK_DEADLOCK FALSE
