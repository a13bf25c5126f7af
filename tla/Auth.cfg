\* Handshakes, revocations, evictions and a peer's feed.
SPECIFICATION Spec
CONSTANTS
    a1 = a1
    a2 = a2
    Agent = {a1, a2}
    n1 = n1
    Nonce = {n1}
    j1 = j1
    j2 = j2
    Jti = {j1, j2}
    k1 = k1
    k2 = k2
    Client = {k1, k2}
    None = None
    Second = 2
    ChallengeTtl = 1
    TokenTtl = 1
    Leeway = 1
    Page = 2
    MaxFeed = 2
    MaxTime = 5
SYMMETRY AuthSymmetry
INVARIANTS
    OneTokenPerChallenge
    TokensAreRevocable
    CursorSkipsNothing
PROPERTIES
    RevokedStaysRefused
CHECK_DEADLOCK FALSE
