SPECIFICATION Spec
CONSTANTS
    i1 = i1
    i2 = i2
    c1 = c1
    c2 = c2
    h1 = h1
    h2 = h2
    h3 = h3
    Intents = {i1, i2}
    Messages = {"to_ann"}
    Calls = {c1, c2}
    Handlers = {h1, h2}
    None = None
SYMMETRY DeliverySymmetry
INVARIANTS
    FreshApprovalRetries
CHECK_DEADLOCK FALSE
