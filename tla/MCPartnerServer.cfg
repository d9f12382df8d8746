SPECIFICATION Spec
CONSTANTS
    pa = pa
    k1 = k1
    i1 = i1
    i2 = i2
    c1 = c1
    c2 = c2
    c3 = c3
    d1 = d1
    r1 = r1
    n1 = n1
    n2 = n2
    n3 = n3
    n4 = n4
    n5 = n5
    None = None
    Clients = {pa}
    Keys = {k1}
    Nonces = {n1, n2, n3, n4, n5}
    RequestIds = {c1, c2, c3, d1, r1}
    Intents = {i1, i2}
    Requests <- Lifecycle
    Copies = {1, 2}
    Directories <- MCDirectories
    Skew = 1
    Window = 2
    MaxTime = 3
INVARIANTS
    TypeOK
    RegistriesConsistent
    AnswersMatchIntent
    CleanMeansNothing
    ProcessedNeverReplayed
PROPERTIES
    RevocationSettles
CONSTRAINT
    RepeatedOrOnce
