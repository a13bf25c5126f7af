SPECIFICATION AdmitSpec
CONSTANTS
    Replica = {"r1", "r2"}
    Slot = {1, 2}
    Clients = {"a1", "a2", "b1"}
    Net <- Networks
    Agents = {"g1", "g2"}
    Fleets <- Deployed
    Arrivals <- From
    PerIp = 1
    Global = 2
    ChallengePerAgent = 1
    ChallengeGlobal = 2
    AnonymousReads = 2
    PrincipalReads = 1
    Timeout = 1
    Expiry = 6
    StartTime = 5
    MaxTime = 7
    Window = 2
    PruneAt = 1
INVARIANTS
    SharedBounds
    LocalBounds
CHECK_DEADLOCK FALSE
