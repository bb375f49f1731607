CONSTANTS
    u1 = u1
    u2 = u2
    k1 = k1
    k2 = k2
    m1 = m1
    Users = {u1, u2}
    Keys = {k1}
    Mids = {m1}
    None = None
    Workers = {w1, w2}
    Ops = {"join", "put_join", "delete_join", "authorise", "delete"}
    MaxRows = 4
    MaxRequests = 2
    InitialTables <- JoinAndCard
    HermesStatuses = {901}
    Faults = TRUE
SPECIFICATION FairSpec
INVARIANTS
    MessageIntegrity
    JoinAccountedFor
    NoOrphanCards
PROPERTIES
    JoinTaken
    KeepsPromise
    SettlesPromise
