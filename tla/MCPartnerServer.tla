---------------------------- MODULE MCPartnerServer ----------------------------
(* Three creates under one key, two with the same body and one with        *)
(* another, and a deactivation and a revocation of what the first creates. *)
EXTENDS PartnerServer, FiniteSets

CONSTANTS pa, k1, i1, i2, c1, c2, c3, d1, r1, n1, n2, n3, n4, n5

CreateOf(id, client, nonce, at, intent) ==
    [kind |-> "create", id |-> id, client |-> client, nonce |-> nonce, at |-> at,
     key |-> k1, intent |-> intent]
ChangeOf(kind, id, client, nonce, at) ==
    [kind |-> kind, id |-> id, client |-> client, nonce |-> nonce, at |-> at,
     target |-> c1]

First == CreateOf(c1, pa, n1, 1, i1)
Retry == CreateOf(c2, pa, n2, 1, i1)
Other == CreateOf(c3, pa, n3, 1, i2)
Deactivation == ChangeOf("deactivate", d1, pa, n4, 2)
Revocation == ChangeOf("revoke", r1, pa, n5, 2)

Lifecycle == {First, Retry, Other, Deactivation, Revocation}

Allowing(standing, rights) ==
    [disabled |-> FALSE, standing |-> standing,
     activatable |-> rights, entitled |-> rights]
Rights == {pa} \X {i1, i2}
Granted == Allowing({pa}, Rights)
Lapsed == Allowing({pa}, {})

Closed == [Granted EXCEPT !.disabled = TRUE]

MCDirectories == {Granted, Lapsed, Closed}
Steady == {Granted}

(* Bound: either the network repeats the first create and nothing comes    *)
(* under its key, or it repeats nothing and makes four deliveries.         *)
Twice == {r \in Requests : <<r, 2>> \in arrived}
RepeatedOrOnce ==
    \/ Twice = {} /\ Cardinality(arrived) <= 4
    \/ Twice = {First} /\ arrived \cap ({Retry, Other} \X Copies) = {}
=============================================================================
