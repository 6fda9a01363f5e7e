SPECIFICATION ProgressSpec
CONSTANTS
    v1 = v1
    v2 = v2
    p1 = p1
    p2 = p2
    svc = svc
    ann = ann
    n1 = n1
    n2 = n2
    r1 = r1
    r2 = r2
    Versions = {v1, v2}
    Streams = {"april", "may"}
    ActualStreams = {}
    Codes = {"journal_completeness"}
    Journal = "journal_completeness"
    Cycles = {"cycle1"}
    Actors = {svc, ann}
    Humans = {ann}
    ApprovalTypes = {"accounting_confirmed", "publication_approved"}
    Contents <- RegularContents
    MaxSequence = 2
    MaxDecisions = 1
    None = None
    Sessions = {p1, p2}
    RequestKeys = {"k1"}
    Memos = {"m"}
    Rows = {n1, n2}
    Posts = {"post1"}
    Calls = {"call1"}
    Runs = {r1, r2}
    Kind <- RowKinds
    BatchSize = 1
    Destinations = {"store"}
    MaxFaults = 1
PROPERTIES
    
    QueueDrains
CHECK_DEADLOCK FALSE
