\* Racing transactions on Postgres: publishes, events, the sweep, pruning.
SPECIFICATION PgSpec
CONSTANTS
    a1 = a1
    Agent = {a1}
    t0 = t0
    Tenant = {t0}
    DefaultTenant = t0
    NoCtx = NoCtx
    NoKey = NoKey
    NoTenant = NoTenant
    Skew = 0
    FeedSkew = 0
    LockWait = 0
    c1 = c1
    c2 = c2
    c3 = c3
    Ctx = {c1, c2, c3}
    k1 = k1
    Key = {k1}
    e1 = e1
    EventId = {e1}
    w1 = w1
    w2 = w2
    Worker = {w1, w2}
    Ops = {"publish", "lifecycle", "backfill", "prune"}
    Content <- RaceContent
    Asked <- RaceRequest
    Minting <- Both
    LogEnabled = TRUE
    TTL = 1
    Retention = 0
    Margin = 0
    Batch = 2
    Gap = 0
    MaxTx = 0
    MaxTime = 1
CONSTRAINT OneLineage
VIEW Database
SYMMETRY PgSymmetry
INVARIANTS
    NoDeadlock
    FeedSound
PROPERTIES
    AnswersAreTrue
    ImplementsStore
CHECK_DEADLOCK FALSE
