CONSTANTS
    u1 = u1
    u2 = u2
    k1 = k1
    k2 = k2
    m1 = m1
    Users = {u1, u2}
    Keys = {k1}
    Mids = {m1}
    None = None
    Workers = {w1, w2}
    Ops = {"add", "trusted_add", "add_auth", "add_register", "trusted_update"}
    MaxRows = 3
    MaxRequests = 3
    InitialTables <- Empty
    HermesStatuses = {403}
    Faults = TRUE
SPECIFICATION Spec
SYMMETRY AnySymmetry
INVARIANTS
    TypeOK
    EveryLinkAnnounced
    TrustedCardsDated
