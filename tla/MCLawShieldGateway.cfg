SPECIFICATION MCSpec
CONSTANTS
    t1 = t1
    t2 = t2
    k1 = k1
    k2 = k2
    p1 = p1
    p2 = p2
    pBad = pBad
    n1 = n1
    n2 = n2
    armaOrg = armaOrg
    tenant1 = tenant1
    tenant2 = tenant2
    incident = incident
    case1 = case1
    case2 = case2
    joy = joy
    user = user
    None = None
    Transfers <- MCTransfers
    Keys <- MCKeys
    Payloads <- MCPayloads
    Nonces = {n1, n2}
    ArmaOrgs = {armaOrg}
    LawShieldOrgs = {tenant1, tenant2}
    Incidents = {incident}
    Cases = {case1, case2}
    Users = {user, joy}
    AiActors = {joy}
    PolicyVerdict <- MCVerdict
    Requests <- MCRequests
    Seeds <- MCSeeds
    GatewaySettings <- MCSettings
    Timestamps = {1, 3}
    Skew = 1
    Window = 2
    MaxTime = 3
INVARIANTS
    TypeOK
    RecordsAgree
    GatewayTypeOK
    ReceiptsTrue
PROPERTIES
    DecisionsFinal
    AnswersStable
    TenantIsolation
    ForgetsOnlyStale
CONSTRAINT
    DirectOrRelayed
SYMMETRY Symmetric
