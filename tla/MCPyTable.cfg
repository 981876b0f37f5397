SPECIFICATION Spec
CONSTANTS
    FileColumns <- MCFile
    Arrays <- MCArrays
    Kinds <- MCKinds
    Unset = Unset
    None = None
    Torn = Torn
    Absent = Absent
    Partial = Partial
    Others = {other}
    MaxOthers = 1
    MaxFaults = 2
    MaxOps = 5
    Counts = {0, 1, 3}
    Widths = {0, 1, 5}
    NumColumns = 2
    MaxColumns = 3
    Alternates = {"", "A"}
    Labels = {"a", "b"}
INVARIANTS FlushExact BaselineIsDisk SavedIsSeen ColumnRoundTrip MetadataFollows
PROPERTY DestinationWhole
CHECK_DEADLOCK FALSE
