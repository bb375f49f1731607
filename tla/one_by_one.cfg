CONSTANTS
    x1 = x1
    x2 = x2
    e1 = e1
    e2 = e2
    e3 = e3
    k1 = k1
    k2 = k2
    m1 = m1
    m2 = m2
    f1 = f1
    f2 = f2
    None = None
    Workers = {w1}
    Tables <- UserOnly
    Requests <- Changes
    MaxRequests = 4
    BrokerFails = FALSE
    MaxFaults = 1
SPECIFICATION Spec
INVARIANTS
    OneUserPerEmail
