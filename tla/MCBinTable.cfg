SPECIFICATION Spec
CONSTANTS
    Cell <- MCCell
    Zero = 0
    Fresh = 29
    Foreign = 30
    Column <- MCColumn
    Width <- MCWidth
    Vla = {"v"}
    Heap = 3
    Chunk = 2
    WindowRows = 2
    Tables <- MCTables
    None = None
    MaxRows = 3
    MaxEdits = 2
    MaxFaults = 1
    MaxForeign = 1
INVARIANTS Described EditTouchesOnly IteratesBound
CHECK_DEADLOCK FALSE
