\* Two requests at a time racing two publishes and a witness poller.
SPECIFICATION Spec
CONSTANTS
    c1 = c1
    c2 = c2
    Ctx = {c1, c2}
    Readable = {c1}
    k1 = k1
    k2 = k2
    Client = {k1, k2}
    Witness = {w1}
    w1 = w1
    Ops = {"checkpoint", "by_ctx", "by_index", "consistency", "entries"}
    PageCap = 1
    None = None
SYMMETRY LogSymmetry
INVARIANTS
    CheckpointsConsistent
    ProofsVerify
    CosignaturesMatch
