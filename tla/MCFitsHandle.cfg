SPECIFICATION Spec
CONSTANTS
    Cell <- MCCell
    Zero <- MCZero
    Space <- MCSpace
    Value <- MCValue
    Block = 2
    Chunk = 3
    Window = 6
    Hdr <- MCHdr
    Malformed <- MCMalformed
    InitDevices <- MCDevices
    MaxHduCount = 3
    MaxSize = 20
    MaxEdits = 2
    MaxFaults = 1
INVARIANTS
    ListMatchesDisk PaddingClean WindowFresh PriorHdusUntouched
    AddingIsAtomic ReplaceRollsBack
