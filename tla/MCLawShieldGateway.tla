-------------------------- MODULE MCLawShieldGateway --------------------------
(* A small instance of gateway and processor for TLC.  While the gateway   *)
(* is shut, anybody delivers to the processor; while it is open, signed    *)
(* requests reach the processor through it alone.                          *)
EXTENDS LawShieldGateway, TLC

CONSTANTS t1, t2, k1, k2, p1, p2, pBad, n1, n2, armaOrg, tenant1, tenant2,
          incident, case1, case2, user, joy

MCTransfers == {t1, t2}
MCKeys == {k1, k2}
MCPayloads == {p1, p2, pBad}
MCVerdict == [p \in MCPayloads |-> p /= pBad]

Env(t, k, p) ==
    [transfer |-> t, key |-> k, payload |-> p, org |-> armaOrg, dest |-> tenant1,
     incident |-> None, case |-> None, authorizer |-> user, sentAt |-> 1, expiresAt |-> 9]

(* The honest request, the same transfer under a second key, other content *)
(* under the same key and under the same id, another transfer under the    *)
(* same key, and a payload the policy refuses.                             *)
Deliveries ==
    {Env(t1, k, p) : k \in MCKeys, p \in {p1, p2}}
    \cup {Env(t2, k1, p1), Env(t2, k2, pBad)}

(* One record for either tenant, filed under either case or under none,    *)
(* and once signed by what is no human.                                    *)
Disclosures ==
    LET Disclosed(dest, case, authorizer) ==
            [Env(t1, k1, p1) EXCEPT !.dest = dest, !.incident = incident, !.case = case,
                                    !.authorizer = authorizer, !.sentAt = 0]
    IN  {Disclosed(d, c, user) : d \in {tenant1, tenant2}, c \in {case1, None}}
        \cup {Disclosed(tenant1, case2, user), Disclosed(tenant1, case1, joy)}

MCRequests == Deliveries \cup Disclosures

(* Two requests for one transfer, with neither key nor payload in common. *)
TwoRequests == {Env(t1, k1, p1), Env(t1, k2, p2)}

Symmetric == Permutations({n1, n2})

Unmapped == [orgs |-> [o \in ArmaOrgs |-> None],
             cases |-> [i \in ArmaOrgs \X Incidents |-> None],
             users |-> [u \in Users |-> None]]
Mapped == [Unmapped EXCEPT !.orgs = [o \in ArmaOrgs |-> [org |-> tenant1, active |-> TRUE]],
                           !.users[user] = [org |-> armaOrg, active |-> TRUE]]
MCSeeds == {Unmapped, Mapped}

Shut == [disabled |-> TRUE, processor |-> TRUE, signing |-> TRUE]
Open == {[disabled |-> FALSE, processor |-> b, signing |-> b] : b \in BOOLEAN}
MCSettings == {Shut} \cup Open

MCNext ==
    \/ settings \in Open /\ GatewayNext
    \/ settings = Shut /\ Next /\ UNCHANGED gatewayVars

MCSpec == GatewayInit /\ [][MCNext]_laneVars

-----------------------------------------------------------------------------
(* Bounds *)

Unadministered == ~disabled /\ directory = <<Mapped.orgs, Mapped.cases, Mapped.users>>

(* Many kinds of deliveries at two instants, under one tenant and without  *)
(* incidents, while the directory changes at these instants; or            *)
(* disclosures, each once and at time 0, while the directory changes.      *)
Delivering ==
    /\ \A o \in ArmaOrgs : orgMappings[o] /= None => orgMappings[o].org = tenant1
    /\ \A i \in DOMAIN caseMappings : caseMappings[i] = None
    /\ authorizers[joy] = None
    /\ \A t \in DurableIds : transfers[t] /= None => transfers[t].incident = None
    /\ \A n \in Nonces : nonces[n] /= None => nonces[n].at \in {0, MaxTime}
    /\ now \in {0, MaxTime} \/ Unadministered

Disclosing ==
    /\ now = 0
    /\ \A n, m \in Nonces : nonces[n] /= None /\ nonces[m] /= None => n = m
    /\ \A t \in DurableIds : transfers[t] /= None => transfers[t].incident /= None

(* The processor on its own. *)
Direct == settings = Shut /\ signed = {} /\ (Delivering \/ Disclosing)

(* The two requests through the gateway, nobody administers the processor. *)
Relayed ==
    /\ settings \in Open
    /\ signed = {} => audit = {} /\ now = 0
    /\ \A r \in signed : r.env \in TwoRequests
    /\ Unadministered

DirectOrRelayed == Direct \/ Relayed
=============================================================================
