SPECIFICATION Spec
CONSTANTS
    t1 = t1
    t2 = t2
    l1 = l1
    l2 = l2
    Txns = {t1, t2}
    Files = {"file1"}
    Lines = {l1}
    MaxRows = 1
    NewGates = {"pending"}
    None = None
INVARIANTS
    NoMutualWait
CHECK_DEADLOCK FALSE
