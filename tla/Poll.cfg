SPECIFICATION PollSpec
CONSTANTS
    c1 = c1  c2 = c2  c3 = c3
    a1 = a1  a2 = a2
    r1 = r1  r2 = r2  r3 = r3  r4 = r4
    Ctx = {c1, c2, c3}
    Agent = {a1, a2}
    Reader = {r1, r2, r3, r4}
    Poller = {r1}
    Entry <- Entries
    LineageOf <- AllLineages
    ProducerOf <- AllProducers
    VisibleTo <- Visibility
    Watch <- Watches
    Hash <- Hashes
    MaxDigit = 2
    Limits = {1, 2}
    MinScanRows = 1
    MaxScans = 2
    MaxSeq = 3
    MaxEras = 1
    LegacyFeeds = {TRUE, FALSE}
    MaxLosses = 1
INVARIANTS
    FilterParity
    NothingSkipped
PROPERTIES
    NeverLeftBehind
CHECK_DEADLOCK FALSE
