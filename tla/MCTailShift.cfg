SPECIFICATION Spec
CONSTANTS
    Cell <- MCCell
    Zero = 0
    Chunk = 3
    InitDevices <- MCDevices
    MaxSize = 10
    MaxFaults = 1
INVARIANTS TypeOK ShiftContract PrefixUntouched ShortTailRollback
CHECK_DEADLOCK FALSE
