SPECIFICATION Spec
CONSTANTS
    None = None
    ann = ann
    bob = bob
    eve = eve
    org1 = org1
    org2 = org2
    out1 = out1
    out2 = out2
    destroy = destroy
    rewrite = rewrite
    Actions = {destroy, rewrite}
    HumanActions = {destroy}
    BlockActions = {destroy}
    Orgs = {org1, org2}
    Reviewers <- MCReviewers
    Engines = {engine1}
    Versions = {v1, v2}
    Registrations <- MCRegistrations
    engine1 = engine1
    v1 = v1
    v2 = v2
    Outputs = {out1, out2}
    Forbidden = {out2}
    Policies = {active, stale}
    active = active
    stale = stale
    ActivePolicy = active
    StorePolicy = active
    Asks <- MCAsks
    Skew = 0
    MaxTime = 1
    Lives <- MCOneLife
INVARIANTS
    AdvisoryFresh
