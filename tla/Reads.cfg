\* Reads torn by publishes, lifecycle events, the receipt sweep and pruning.
SPECIFICATION ReadSpec
CONSTANTS
    c1 = c1
    c2 = c2
    a1 = a1
    Ctx = {c1, c2}
    Agent = {a1}
    t0 = t0
    Tenant = {t0}
    DefaultTenant = t0
    Key = {}
    e1 = e1
    e2 = e2
    EventId = {e1, e2}
    NoCtx = NoCtx
    NoKey = NoKey
    NoTenant = NoTenant
    NoRead = NoRead
    Content <- LineageContent
    ExpiresAt <- FirstExpires
    Minting <- Both
    LogEnabled = FALSE
    TTL = 1
    Skew = 0
    FeedSkew = 0
    LockWait = 0
    Retention = 0
    Margin = 0
    Batch = 2
    Gap = 0
    MaxTime = 1
VIEW StoreAndRead
SYMMETRY IdSymmetry
INVARIANTS
    EventsSound
PROPERTIES
    StatusNeverMilder
    HeadIsNewest
    AuditBlamesOnlyRetraction
    HistoryKept
CHECK_DEADLOCK FALSE
