--------------------------- MODULE MCLawShieldLane ---------------------------
(* One transfer on its way through ARMA, the gateway and the processor.    *)
EXTENDS LawShieldLane, TLC

CONSTANTS t1, k1, p1, n1, n2, armaOrg, lsOrg1, incident, case1, user, joy

MCVerdict == [p \in Payloads |-> TRUE]

MCDrafts == [transfer: {t1}, key: {k1}, payload: {p1}, org: {armaOrg},
             incident: {incident}, dest: {lsOrg1}]

MCRequests == [transfer: {t1}, key: Keys, payload: Payloads, org: {armaOrg}, dest: {lsOrg1},
               incident: {incident, None}, case: {case1, None}, authorizer: {user, joy},
               sentAt: Timestamps, expiresAt: {at + 3 : at \in Timestamps}]

MCIdentities == [u \in {user, joy} |-> [org |-> armaOrg, human |-> u = user, authorizer |-> TRUE]]

MCSeeds == {[orgs |-> [o \in {armaOrg} |-> [org |-> lsOrg1, active |-> TRUE]],
             cases |-> [i \in {armaOrg} \X {incident} |->
                            [org |-> lsOrg1, case |-> case1, active |-> TRUE]],
             users |-> [u \in {user, joy} |->
                            IF u = user THEN [org |-> armaOrg, active |-> TRUE] ELSE None]]}

Configured == [disabled: {FALSE}, processor: {TRUE}, signing: {TRUE}]
MCSettings == Configured \cup [disabled: {FALSE}, processor: {TRUE}, signing: {FALSE}]

(* Bound: of the directory of the processor only the org mapping changes.  *)
Attended == \E d \in MCSeeds : authorizers = d.users /\ caseMappings = d.cases

Symmetric == Permutations(Nonces)
=============================================================================
