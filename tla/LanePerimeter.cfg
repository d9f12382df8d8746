SPECIFICATION LaneSpec
CONSTANTS
    t1 = t1
    k1 = k1
    p1 = p1
    n1 = n1
    n2 = n2
    armaOrg = armaOrg
    lsOrg1 = lsOrg1
    incident = incident
    case1 = case1
    user = user
    joy = joy
    None = None
    Transfers = {t1}
    Keys = {k1}
    Payloads = {p1}
    Nonces = {n1, n2}
    ArmaOrgs = {armaOrg}
    LawShieldOrgs = {lsOrg1}
    Incidents = {incident}
    Cases = {case1}
    Users = {user, joy}
    AiActors = {joy}
    PolicyVerdict <- MCVerdict
    Requests <- MCRequests
    Seeds <- MCSeeds
    GatewaySettings <- MCSettings
    Timestamps = {0}
    Skew = 1
    Window = 2
    MaxTime = 0
    Drafts <- MCDrafts
    Identities <- MCIdentities
    MaxRetries = 1
    ReuseIds = FALSE
INVARIANT
    PerimeterRejectionNeverLeft
SYMMETRY Symmetric
CONSTRAINT
    Attended
