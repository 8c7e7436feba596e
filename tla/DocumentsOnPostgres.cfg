SPECIFICATION Spec
CONSTANTS
    Clients = {c1, c2}
    None = None
    Stale = Stale
    MaxRequests <- RequestsPerArea
    MaxCuts = 1
    Areas = {"knowledge"}
    Seeds <- SeedsOf
    Emails = {"ann", "new", "newer"}
    Companies = {"acme"}
    MaxFailures = 2
    Addresses = {"a", "b"}
    Limit = 1
    MaxBuckets = 1
    MaxClock = 1
    Businesses = {"acme"}
    Chunks = {2}
    StrategyDocs = 1
    FleetTemplates <- Fleet
    MaxDays = 1
    Rows <- StoreRows
SYMMETRY Symmetry
CHECK_DEADLOCK FALSE
INVARIANT PastesAreIndexed
