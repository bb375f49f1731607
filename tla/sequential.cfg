CONSTANTS
    u1 = u1
    u2 = u2
    k1 = k1
    k2 = k2
    m1 = m1
    Users = {u1, u2}
    Keys = {k1, k2}
    Mids = {m1, m2}
    None = None
    Workers = {w1}
    Ops = {"add", "trusted_add", "authorise", "register", "delete", "join", "put_join"}
    MaxRows = 3
    MaxRequests = 3
    InitialTables <- Empty
    HermesStatuses = {901}
    Faults = TRUE
SPECIFICATION Spec
SYMMETRY AnySymmetry
INVARIANTS
    
    OneKeyPerMid
    OneJoinInFlight
