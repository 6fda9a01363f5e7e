SPECIFICATION Spec
CONSTANTS
    v1 = v1
    v2 = v2
    v3 = v3
    p1 = p1
    k1 = k1
    k2 = k2
    p2 = p2
    svc = svc
    ann = ann
    Versions = {v1, v2, v3}
    Streams = {"budget"}
    ActualStreams = {}
    Codes = {"journal_completeness"}
    Journal = "journal_completeness"
    Cycles = {"cycle1"}
    Actors = {svc, ann}
    Humans = {ann}
    ApprovalTypes = {"accounting_confirmed", "publication_approved"}
    Contents <- RegularContents
    MaxSequence = 3
    MaxDecisions = 1
    None = None
    Sessions = {p1, p2}
    RequestKeys = {k1, k2}
    Memos = {"m"}
SYMMETRY RaceSymmetry
INVARIANTS
    PublicationTypeOK
    SingleCurrent
    RequestsIdempotent
PROPERTIES
    CurrentMovesForward
    ImplementsPublicationStream
CHECK_DEADLOCK FALSE
CONSTRAINT ServicePrepares
