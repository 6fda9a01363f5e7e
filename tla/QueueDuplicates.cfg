SPECIFICATION QueueSpec
CONSTANTS
    n1 = n1
    n2 = n2
    r1 = r1
    None = None
    Rows = {n1, n2}
    Posts = {"post1"}
    Calls = {"call1", "call2"}
    Runs = {r1}
    Kind <- OfAPost
    BatchSize = 1
    Destinations = {"channel"}
    MaxFaults = 0
INVARIANTS
    OneRowPerPost
CHECK_DEADLOCK FALSE
