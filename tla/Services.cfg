SPECIFICATION ServicesSpec
CONSTANTS
    v1 = v1
    v2 = v2
    svc = svc
    ann = ann
    bob = bob
    Versions = {v1}
    Streams = {"actual"}
    ActualStreams = {"actual"}
    Codes = {"journal_completeness", "account_validity"}
    Journal = "journal_completeness"
    Cycles = {"cycle1", "cycle2"}
    Actors = {svc, ann, bob}
    Humans = {ann, bob}
    ApprovalTypes = {"accounting_confirmed", "publication_approved"}
    Contents <- MCContents
    MaxSequence = 1
    MaxDecisions = 2
    None = None
    a1 = a1
    a2 = a2
    b1 = b1
    b2 = b2
    e1 = e1
    e2 = e2
    Rows = {"n1", "n2", "n3"}
    Posts = {}
    Calls = {}
    Runs = {a1, a2}
    Kind <- RowKinds
    BatchSize = 2
    Destinations = {"employee"}
    MaxFaults = 1
    HandoffCodes = {"code1"}
    Exchanges = {a1, a2}
    Pages = {b1, b2}
    HandoffTTL = 1
    SessionTTL = 2
    HubExpires = 3
    MaxTime = 3
    Panels = {b1, b2}
    Starts = {"start"}
    Files = {a1, a2}
    Keys <- SourceRows
    Stores = {e1, e2}
    Students = {a1, a2}
    Loads = {b1, b2}
    MaxVersion = 3
    New = "new"
INVARIANTS
    ServicesTypeOK
    OneEvidenceCycle
    MakerChecker
    ApprovalIsFinal
    RejectedOnEvidence
    
    RightAudience
    SentIsTruthful
    RepeatedOnlyWhenExcused
    OneSessionPerCode
    WithinHubSession
    OneActiveVersion
    StagedOnMappings
    ShowsOwnWrites
PROPERTIES
    EvidenceAppendOnly
    SavedAsAWhole
    ImplementsReportedFigures
SYMMETRY Symmetry
CHECK_DEADLOCK FALSE
