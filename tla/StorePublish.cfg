\* Racing keyed publishes: lineages, idempotency, tenants and the log.
SPECIFICATION Spec
CONSTANTS
    c1 = c1
    c2 = c2
    c3 = c3
    a1 = a1
    a2 = a2
    Ctx = {c1, c2, c3}
    Agent = {a1, a2}
    Contributor = a2
    t0 = t0
    t1 = t1
    Tenant = {t0, t1}
    DefaultTenant = t0
    k1 = k1
    Key = {k1}
    e1 = e1
    EventId = {e1}
    NoCtx = NoCtx
    NoKey = NoKey
    NoTenant = NoTenant
    Content <- PublishContent
    Minting <- Both
    LogEnabled = TRUE
    TTL = 2
    Skew = 0
    FeedSkew = 0
    LockWait = 1
    Retention = 0
    Margin = 0
    Batch = 1
    Gap = 0
    MaxTime = 3
SYMMETRY IdSymmetry
CONSTRAINT IdsLeft
ACTION_CONSTRAINT FewSideSteps
INVARIANTS
    LineageSound
    KeysSound
    LogMirrorsContexts
CHECK_DEADLOCK FALSE
