CONSTANTS
    u1 = u1
    u2 = u2
    k1 = k1
    k2 = k2
    m1 = m1
    Users = {u1, u2}
    Keys = {k1}
    Mids = {m1}
    None = None
    Workers = {w1, w2}
    Ops = {"put_join", "delete_join"}
    MaxRows = 3
    MaxRequests = 2
    InitialTables <- OneJoin
    HermesStatuses = {1}
    Faults = FALSE
SPECIFICATION Spec
PROPERTIES
    RemovedAfterFailure
