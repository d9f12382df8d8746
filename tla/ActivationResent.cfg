SPECIFICATION ServiceSpec
CONSTANTS
    pa = pa
    k1 = k1
    k2 = k2
    i1 = i1
    a1 = a1
    a2 = a2
    None = None
    Clients = {pa}
    Arma = pa
    Keys = {k1, k2}
    Nonces <- MCRequestIds
    RequestIds <- MCRequestIds
    Intents = {i1}
    Requests <- MCRequests
    Copies = {1}
    Directories <- Steady
    Skew = 1
    Window = 2
    MaxTime = 0
    Locals = {a1, a2}
    IntentOf <- MCIntentOf
    KeyOf <- MCKeyOf
    Keyed = {a1}
    Workers = {1}
    MaxAttempts = 2
    StatusAttempts = 2
    Switches = {FALSE}
    Draws = 2
    Changes = 1
PROPERTIES
    NoBlindResend
