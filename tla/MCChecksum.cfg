SPECIFICATION Spec
CONSTANTS
    InitHdus <- MCHdus
    Value <- MCValue
    MaxEdits = 1
    MaxFaults = 1
INVARIANTS FlushedSums ChangeIsFound
PROPERTY FlushReturns
