SPECIFICATION ListSpec
CONSTANTS
    Ctx = {1, 2, 3, 4}
    Body <- Bodies
    Stopwords = {"the"}
    Queries <- Asks
    PublicOpen = FALSE
    Backend = {"sqlite", "pg"}
    Tables <- Written
    RefillMax = 2
    Never = 9
    CursorTtl = 1
    MaxTime = 2
    MaxWrites = 3
INVARIANTS
    WalkIsExact
    BackendsAgree
CHECK_DEADLOCK FALSE
