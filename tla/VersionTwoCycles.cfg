SPECIFICATION VersionSpec
CONSTANTS
    v1 = v1
    v2 = v2
    svc = svc
    ann = ann
    bob = bob
    Versions = {v1}
    Streams = {"actual"}
    ActualStreams = {"actual"}
    Codes = {"journal_completeness", "account_validity"}
    Journal = "journal_completeness"
    Cycles = {"cycle1", "cycle2"}
    Actors = {svc, ann, bob}
    Humans = {ann, bob}
    ApprovalTypes = {"accounting_confirmed", "publication_approved"}
    Contents <- MCContents
    MaxSequence = 1
    MaxDecisions = 2
    None = None
INVARIANTS
    PassingCyclePermitsValidated
CHECK_DEADLOCK FALSE
