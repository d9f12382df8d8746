-------------------------- MODULE MCActivationService --------------------------
(* An intent, or two calls for one intent with different keys, in front of *)
(* a server whose directory changes.                                       *)
EXTENDS ActivationService

CONSTANTS pa, k1, k2, i1, a1, a2

MCIntentOf == [a \in Locals |-> i1]
MCKeyOf == [a \in Locals |-> IF a = a1 THEN k1 ELSE k2]

(* The changes are made to what the first create of the first call activates. *)
MCRequests ==
    {CreateRequest(a, n) : a \in Locals, n \in 1..Draws} \cup
    {ChangeRequest(kind, <<a1, 1>>, 1) : kind \in {"deactivate", "revoke"}}
MCRequestIds == {r.id : r \in MCRequests}

Allowing(standing, rights) ==
    [disabled |-> FALSE, standing |-> standing,
     activatable |-> rights, entitled |-> rights]
Granted == Allowing({pa}, {pa} \X {i1})
Lapsed == Allowing({pa}, {})
Suspended == Allowing({}, {pa} \X {i1})

MCDirectories == {Granted, Lapsed, Suspended}
Steady == {Granted}
=============================================================================
