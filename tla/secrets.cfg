CONSTANTS
    c1 = c1
    Procs = {p1, p2}
    Clients = {c1}
    PublicKeys = {b1}
    ClientOf <- OneClient
    PayloadKeys = {j1}
    Bundles = {h1}
    Passwords = {s1, s2}
    MaxKid = 2
    MaxVersion = 2
    MaxChanges = 4
    MaxTokens = 3
SPECIFICATION Spec
SYMMETRY AnySymmetry
CONSTRAINT OneThingAtATime
INVARIANTS
    TypeOK
    EveryAnswerOnceTrue
    NeverSignsEmpty
    RefusedOnlyIfStale
    RefusedOnlyIfAbsent
