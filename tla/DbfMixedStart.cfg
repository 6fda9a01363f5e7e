SPECIFICATION DbfSpec
CONSTANTS
    s1 = s1
    s2 = s2
    None = None
    Panels = {"panel"}
    Starts = {s1, s2}
    Files = {"file1", "file2"}
    Keys <- OneKey
    Stores = {"store1"}
INVARIANT StagedFromSource
SYMMETRY Symmetry
CHECK_DEADLOCK FALSE
