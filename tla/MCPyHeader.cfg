SPECIFICATION Spec
CONSTANTS
    Valued = {"BITPIX", "A", "B", "DATASUM"}
    Structural = {"BITPIX"}
    Sum = "DATASUM"
    NewSum = "sum"
    Commentary = {"COMMENT", ""}
    Blank = ""
    Empty = ""
    Val = {"2"}
    Texts <- MCTexts
    Attempts = 2
    Theirs = "f"
    FirstCards <- MCCards
    MaxEdits = 2
    MaxOthers = 2
    MaxFaults = 1
INVARIANTS HeaderIsFile SavedIsSeen
PROPERTIES TextKept
CHECK_DEADLOCK FALSE
