SPECIFICATION Spec
CONSTANTS
    Job = {j1, j2}
    Kid = {"k1", "k2"}
    FirstKid = "k1"
    Identity = {"i1", "i2"}
    FirstIdentity = "i1"
    Tokens <- Workload
    Requests <- Asks
    Backends = {"pg", "memory"}
    OrgWide = {"i2"}
    IpBudget = 3
    IdBudget = 1
    MaxTtl = 2
    Ttl = 2
    ShortTtl = 1
    MaxStale = 1
    Backoff = 1
    ForceGap = 1
    Window = 2
    PruneAt = 8
    MaxUsed = 4
INVARIANTS
    BodiesAreAttested
    KeyCacheBounded
    RefusalsAgree
PROPERTIES
    EveryRequestEnds
CHECK_DEADLOCK FALSE
