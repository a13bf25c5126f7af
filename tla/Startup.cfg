SPECIFICATION Spec
CONSTANTS
    Ctx = {x1, x2}
    Deployments <- Deployed
    Overrides <- Variables
    MaxEdits = 2
    MaxUsed = 4
INVARIANTS
    ServingKeepsPromises
    BootsCleanly
CHECK_DEADLOCK FALSE
