SPECIFICATION Spec
CONSTANTS
    v1 = v1
    v2 = v2
    v3 = v3
    k1 = k1
    k2 = k2
    p1 = p1
    p2 = p2
    svc = svc
    ann = ann
    Versions = {v1, v2, v3}
    Streams = {"budget", "actual"}
    ActualStreams = {"actual"}
    Codes = {"journal_completeness"}
    Journal = "journal_completeness"
    Cycles = {"cycle1"}
    Actors = {svc, ann}
    Humans = {ann}
    ApprovalTypes = {"import_validated", "operations_confirmed", "accounting_confirmed",
                     "publication_approved", "reversal_approved"}
    Contents <- CorrectionContents
    MaxSequence = 3
    MaxDecisions = 1
    None = None
    Sessions = {p1}
    RequestKeys = {"k1", "k2", "k3"}
    Memos = {"m"}
SYMMETRY VersionSymmetry
INVARIANTS
    SupersedeChain
    LineageOrdered
    
CONSTRAINT StreamStories
CHECK_DEADLOCK FALSE
