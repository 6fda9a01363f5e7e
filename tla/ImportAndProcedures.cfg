SPECIFICATION MCSpec
CONSTANTS
    t1 = t1
    t2 = t2
    l1 = l1
    l2 = l2
    Txns = {t1, t2}
    Files = {"file1"}
    Lines = {l1, l2}
    MaxRows = 2
    NewGates = {"passed", "pending"}
    None = None
    Pages = {t1, t2}
    Cases = {"case1"}
    StepsOf <- Checklists
    MaxCaseVersion = 3
INVARIANTS
    ComponentsTypeOK
    SealedMembership
    ValidLinesJustified
    ConfirmedOnChecklist
PROPERTIES
    ImplementsBatchRecord
    DeskTransitions
CONSTRAINT GatesOfOneLine
SYMMETRY ImportSymmetry
CHECK_DEADLOCK FALSE
