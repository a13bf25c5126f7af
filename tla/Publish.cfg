SPECIFICATION Spec
CONSTANTS
    w1 = w1  w2 = w2  web = web  key = key
    Worker = {w1, w2}
    Agent = {web, key}
    MethodOf <- Methods
    BindingOf <- Bindings
    Publishes <- PublishRequests
    Events <- EventRequests
    Deployment <- Deployments
    Playgrounds <- Cells
    Window = 1
    PruneAt = 1
    Limit = 1
    KeyTtl = 1
    QueueCapacity = 1
    MaxRetries = 2
    MaxUsed = 3
INVARIANTS
    ChargesSound
    NoUnverifiedWithReceipts
    ContextsSound
    WebhooksInOrder
PROPERTIES
    ComesToRest
CHECK_DEADLOCK FALSE
