SPECIFICATION MCSpec
CONSTANTS
    i1 = i1
    i2 = i2
    c1 = c1
    c2 = c2
    h1 = h1
    h2 = h2
    h3 = h3
    Intents = {i1, i2}
    Messages = {"to_ann", "to_bob"}
    Calls = {c1, c2}
    Handlers = {h1, h2, h3}
    None = None
    Versions = {1, 2}
    Children <- ChildOfFirst
    Facts = {"fact"}
    VersionOf <- InFirst
    Amount <- OfTwo
    Targets = {"store", "corporation"}
    Txns = {c1, c2}
SYMMETRY DeliverySymmetry
INVARIANTS
    ComponentsTypeOK
    AtMostOnce
    RowIsTruthful
    AnswerIsTruthful
    AllocationsReconcile
PROPERTIES
    ImplementsMessageDelivery
    EvidenceStands
CHECK_DEADLOCK FALSE
