SPECIFICATION HintSpec
CONSTANTS
    c1 = c1  c2 = c2  a1 = a1  o1 = o1  s1 = s1  w1 = w1  w2 = w2
    Ctx = {c1, c2}
    Agent = {a1}
    Reader = {o1}
    Entry <- Entries
    LineageOf <- OwnLineages
    ProducerOf <- OneProducer
    VisibleTo <- Visibility
    Watch <- Watches
    Hash <- Hashes
    MaxDigit = 1
    MinScanRows = 1
    MaxScans = 1
    MaxSeq = 2
    MaxEras = 0
    LegacyFeeds = {FALSE}
    SubId = {s1}
    OwnerOf <- Owners
    Worker = {w1, w2}
    Unservable = {}
    MaxSubs = 1
    Lease = 2
    AttemptTimeout = 1
    MinInterval = 1
    RetryBase = 1
    RetryCap = 2
    DisableAfter = 1
    MaxFaults = 1
INVARIANTS
    HintedUpToPosition
PROPERTIES
    HintSteps
    NoHintOwedForever
CHECK_DEADLOCK FALSE
