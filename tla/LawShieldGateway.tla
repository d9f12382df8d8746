--------------------------- MODULE LawShieldGateway ---------------------------
(***************************************************************************)
(* The Law Shield gateway (arma-integration.js, _integrationSecurity.js)   *)
(* in front of the durable processor.  Its handler is suspended once, in   *)
(* the fetch to the processor; everything before that await and everything *)
(* after it is one step.  The replay guard lives in the memory of the      *)
(* gateway and is lost when the gateway restarts.                          *)
(*                                                                         *)
(* Abstractions.  A signature is genuine or the request is refused, so     *)
(* only signed requests are followed; the network may lose, delay, reorder *)
(* and repeat them.  The unit of time is the clock skew the gateway        *)
(* tolerates (minutes): what is on the way to the processor arrives or is  *)
(* lost before the clock moves, as the fetch gives up after ten seconds.   *)
(* Every refusal the sender handles alike has one code.                    *)
(***************************************************************************)
EXTENDS LawShieldProcessor

CONSTANTS
    Timestamps,       \* x-arma-timestamp values a sender's clock may show
    Skew,             \* MAX_CLOCK_SKEW_MS
    GatewaySettings   \* the environments the gateway may run in

ASSUME SkewAssumption == Skew \in Nat /\ Timestamps \subseteq Int
(* NONCE_VALIDITY_WINDOW_MS is twice MAX_CLOCK_SKEW_MS. *)
ASSUME WindowAssumption == Window >= 2 * Skew
ASSUME SettingsAssumption ==
    GatewaySettings \subseteq [disabled: BOOLEAN, processor: BOOLEAN, signing: BOOLEAN]

VARIABLES
    settings,   \* kill switch, processor configured, receipt signing configured
    signed,     \* every request signed so far; each nonce is drawn once
    seen,       \* replaySeen: nonce -> when
    awaiting,   \* requests whose handler is suspended in the fetch
    forwards,   \* requests on the way to the processor
    orphans,    \* the same, but nobody waits for the answer any more
    results,    \* the processor's answers on the way back
    answer      \* what the last step answered to the sender, or None

gatewayVars == <<settings, signed, seen, awaiting, forwards, orphans, results, answer>>
laneVars == <<procVars, gatewayVars>>

-----------------------------------------------------------------------------
(* Types *)

Signed == [env: Requests, nonce: Nonces, at: Timestamps]
Result == [req: Signed, reply: Reply]
Code == {"RECEIPT", "PERIMETER_REFUSED", "PROCESSOR_REFUSED", "PROCESSOR_UNAVAILABLE",
         "PROCESSOR_TIMEOUT", "PROCESSOR_RECEIPT_MISMATCH", "INTEGRATION_REJECTED",
         "RECEIPT_SIGNING_NOT_CONFIGURED"}
GatewayAnswer == [req: Signed, code: Code]

ASSUME GatewayNoneAssumption == None \notin Int /\ None \notin GatewayAnswer

GatewayTypeOK ==
    /\ settings \in GatewaySettings
    /\ signed \subseteq Signed
    /\ seen \in [Nonces -> Int \cup {None}]
    /\ awaiting \subseteq signed
    /\ forwards \subseteq awaiting
    /\ orphans \subseteq signed
    /\ results \subseteq Result
    /\ answer \in GatewayAnswer \cup {None}

GatewayInit ==
    /\ Init
    /\ settings \in GatewaySettings
    /\ signed = {}
    /\ seen = [n \in Nonces |-> None]
    /\ awaiting = {}
    /\ forwards = {}
    /\ orphans = {}
    /\ results = {}
    /\ answer = None

-----------------------------------------------------------------------------
(* The perimeter: what happens before the fetch *)

(* Mutant: only old requests are refused, not those dated in the future. *)
NotStale(r) == now - r.at <= Skew

InSkew(r) == now - r.at <= Skew /\ r.at - now <= Skew

(* verifyIntegrationRequest *)
Verified(r) == ~settings.disabled /\ InSkew(r) /\ ValidEnvelope(r.env)

Outlived(m) == seen[m] /= None /\ now - seen[m] > 2 * Skew

(* replayGuard.remember prunes first, so an outlived nonce is new again. *)
Pruned == [m \in Nonces |-> IF Outlived(m) THEN None ELSE seen[m]]
Replayed(r) == Pruned[r.nonce] /= None
Remembered(r) == [Pruned EXCEPT ![r.nonce] = now]

AnswerSender(r, code) == answer' = [req |-> r, code |-> code]

(* generateNonce: a sender never draws the same nonce twice. *)
Sign(e, n, at) ==
    /\ \A r \in signed : r.nonce /= n
    /\ signed' = signed \cup {[env |-> e, nonce |-> n, at |-> at]}
    /\ answer' = None
    /\ UNCHANGED <<procVars, settings, seen, awaiting, forwards, orphans, results>>

RefuseRequest(r) ==
    /\ ~Verified(r)
    /\ AnswerSender(r, "PERIMETER_REFUSED")
    /\ UNCHANGED <<procVars, settings, signed, seen, awaiting, forwards, orphans, results>>

RefuseReplay(r) ==
    /\ Verified(r)
    /\ Replayed(r)
    /\ seen' = Pruned
    /\ AnswerSender(r, "PERIMETER_REFUSED")
    /\ UNCHANGED <<procVars, settings, signed, awaiting, forwards, orphans, results>>

(* The nonce is spent although nothing was forwarded. *)
RefuseUnconfigured(r) ==
    /\ Verified(r)
    /\ ~Replayed(r)
    /\ ~settings.processor
    /\ seen' = Remembered(r)
    /\ AnswerSender(r, "PERIMETER_REFUSED")
    /\ UNCHANGED <<procVars, settings, signed, awaiting, forwards, orphans, results>>

Forward(r) ==
    /\ Verified(r)
    /\ ~Replayed(r)
    /\ settings.processor
    /\ seen' = Remembered(r)
    /\ awaiting' = awaiting \cup {r}
    /\ forwards' = forwards \cup {r}
    /\ answer' = None
    /\ UNCHANGED <<procVars, settings, signed, orphans, results>>

-----------------------------------------------------------------------------
(* The processor's side of the fetch *)

DeliverTo(r) ==
    /\ Deliver(r.env, r.nonce)
    /\ UNCHANGED <<now, disabled, directory>>

ProcessForward(r) ==
    /\ r \in forwards
    /\ DeliverTo(r)
    /\ forwards' = forwards \ {r}
    /\ results' = results \cup {[req |-> r, reply |-> reply']}
    /\ answer' = None
    /\ UNCHANGED <<settings, signed, seen, awaiting, orphans>>

ProcessOrphan(r) ==
    /\ r \in orphans
    /\ DeliverTo(r)
    /\ orphans' = orphans \ {r}
    /\ answer' = None
    /\ UNCHANGED <<settings, signed, seen, awaiting, forwards, results>>

-----------------------------------------------------------------------------
(* What the gateway answers when the fetch settles *)

Settle(r) ==
    /\ awaiting' = awaiting \ {r}
    /\ results' = {x \in results : x.req /= r}

(* Mutant: what was given up is still taken for a live exchange. *)
FetchFailsHalfway(r) ==
    /\ r \in awaiting
    /\ AnswerSender(r, "PROCESSOR_TIMEOUT")
    /\ orphans' = orphans \cup ({r} \cap forwards)
    /\ Settle(r)
    /\ UNCHANGED <<procVars, settings, signed, seen, forwards>>

(* The fetch throws.  A connection refused never delivered the request; a  *)
(* timeout or a connection reset says nothing about it, but only the       *)
(* timeout is classified as such (classifyTransportError).                 *)
FetchFails(r) ==
    /\ r \in awaiting
    /\ \E code \in {"PROCESSOR_TIMEOUT", "PROCESSOR_UNAVAILABLE"} : AnswerSender(r, code)
    /\ forwards' = forwards \ {r}
    /\ orphans' \in {orphans, orphans \cup ({r} \cap forwards)}
    /\ Settle(r)
    /\ UNCHANGED <<procVars, settings, signed, seen>>

Mismatch(x) ==
    /\ x.reply.receipt /= None
    /\ \/ x.reply.transfer /= x.req.env.transfer
       \/ x.reply.receipt.payload /= x.req.env.payload

(* Mutant: neither accepted nor receiptId of the answer is looked at. *)
AnyAnswerSucceeds(x) ==
    IF x.reply.kind = "FAULT" THEN "PROCESSOR_UNAVAILABLE" ELSE "RECEIPT"

CodeFor(x) ==
    IF x.reply.receipt = None
    THEN IF x.reply.kind = "FAULT" THEN "PROCESSOR_UNAVAILABLE" ELSE "PROCESSOR_REFUSED"
    ELSE IF Mismatch(x) THEN "PROCESSOR_RECEIPT_MISMATCH"
    ELSE IF settings.signing THEN "RECEIPT" ELSE "RECEIPT_SIGNING_NOT_CONFIGURED"

(* The headers are in but the body cannot be read: the error surfaces      *)
(* outside the inner try, as a generic refusal.                            *)
BodyLost(x) ==
    /\ x \in results
    /\ AnswerSender(x.req, "INTEGRATION_REJECTED")
    /\ Settle(x.req)
    /\ UNCHANGED <<procVars, settings, signed, seen, forwards, orphans>>

Respond(x) ==
    /\ x \in results
    /\ AnswerSender(x.req, CodeFor(x))
    /\ Settle(x.req)
    /\ UNCHANGED <<procVars, settings, signed, seen, forwards, orphans>>

-----------------------------------------------------------------------------
(* The gateway process and the rest of the system *)

RestartGateway ==
    /\ settings' \in GatewaySettings
    /\ seen' = [n \in Nonces |-> None]
    /\ awaiting' = {}
    /\ results' = {}
    /\ forwards' = {}
    /\ orphans' \in {orphans, orphans \cup forwards}
    /\ answer' = None
    /\ UNCHANGED <<procVars, signed>>

GatewayTick ==
    /\ awaiting = {} /\ orphans = {}
    /\ Tick
    /\ answer' = None
    /\ UNCHANGED <<settings, signed, seen, awaiting, forwards, orphans, results>>

AdministerProcessor ==
    /\ ChangeDirectory \/ SwitchProcessor
    /\ answer' = None
    /\ UNCHANGED <<settings, signed, seen, awaiting, forwards, orphans, results>>

(* One step of the handler of request r. *)
HandleRequest(r) ==
    \/ RefuseRequest(r)
    \/ RefuseReplay(r)
    \/ RefuseUnconfigured(r)
    \/ Forward(r)
    \/ ProcessForward(r)
    \/ ProcessOrphan(r)
    \/ FetchFails(r)

GatewayStep ==
    \/ \E r \in signed : HandleRequest(r)
    \/ \E x \in results : BodyLost(x) \/ Respond(x)
    \/ RestartGateway
    \/ GatewayTick
    \/ AdministerProcessor

GatewayNext ==
    \/ \E e \in Requests, n \in Nonces, at \in Timestamps : Sign(e, n, at)
    \/ GatewayStep

GatewaySpec == GatewayInit /\ [][GatewayNext]_laneVars

-----------------------------------------------------------------------------
(* What must hold *)

(* A signed receipt is never wrong: the processor holds the receipt of     *)
(* that transfer for that payload, and the key is bound to its acceptance. *)
ReceiptTrue ==
    answer /= None /\ answer.code = "RECEIPT" =>
        LET e == answer.req.env IN
        /\ receipts[e.transfer] /= None
        /\ receipts[e.transfer].payload = e.payload
        /\ idempotency[e.key] =
              [transfer |-> e.transfer, payload |-> e.payload, outcome |-> "ACCEPTED"]

(* With this processor the integrity check of the gateway (D2) never       *)
(* fires: a receipt is only ever sent for the content it was issued for.   *)
NeverMismatched == answer /= None => answer.code /= "PROCESSOR_RECEIPT_MISMATCH"

(* What the gateway signs is true, and it never has a reason to doubt it.  *)
ReceiptsTrue == ReceiptTrue /\ NeverMismatched

(* Nothing is decided twice for one signed request, although the gateway's *)
(* own guard is lost with every restart: the processor forgets a nonce     *)
(* only when no request carrying it can pass the gateway again, and none   *)
(* is on the way.  NONCE_VALIDITY_WINDOW_MS is twice the skew because a    *)
(* request may be dated one skew ahead and stays valid one skew behind.    *)
ForgetsStaleNonces ==
    \A r \in signed : nonces[r.nonce] /= None /\ nonces'[r.nonce] = None =>
        /\ ~InSkew(r)
        /\ r \notin forwards \cup orphans

ForgetsOnlyStale == [][ForgetsStaleNonces]_laneVars

=============================================================================
