------------------------------ MODULE Disclosure ------------------------------
(***************************************************************************)
(* What the ARMA to Law Shield lane promises, without its mechanism.  A    *)
(* human authorises a transfer; Law Shield may then take it, once, with    *)
(* exactly the content that was authorised; and ARMA calls it accepted     *)
(* only if Law Shield did take it.                                         *)
(***************************************************************************)
CONSTANTS
    Transfers,
    Contents,    \* key, payload and authorising human of a transfer
    None

VARIABLES
    authorized,  \* transfer -> the content a human authorised
    disclosed,   \* transfer -> the content Law Shield took
    confirmed    \* the transfers ARMA calls accepted

vars == <<authorized, disclosed, confirmed>>

Init ==
    /\ authorized = [t \in Transfers |-> None]
    /\ disclosed = [t \in Transfers |-> None]
    /\ confirmed = {}

Authorize(t, c) ==
    /\ authorized[t] = None
    /\ authorized' = [authorized EXCEPT ![t] = c]
    /\ UNCHANGED <<disclosed, confirmed>>

Disclose(t) ==
    /\ authorized[t] /= None
    /\ disclosed[t] = None
    /\ disclosed' = [disclosed EXCEPT ![t] = authorized[t]]
    /\ UNCHANGED <<authorized, confirmed>>

Confirm(t) ==
    /\ disclosed[t] /= None
    /\ confirmed' = confirmed \cup {t}
    /\ UNCHANGED <<authorized, disclosed>>

Next ==
    \E t \in Transfers :
        \/ \E c \in Contents : Authorize(t, c)
        \/ Disclose(t)
        \/ Confirm(t)

Spec == Init /\ [][Next]_vars
=============================================================================
