---------------------------- MODULE LawShieldLane ----------------------------
(***************************************************************************)
(* The whole lane: ARMA's transfer service (law-shield/arma) sending       *)
(* through the gateway to the durable processor.  send is the only         *)
(* operation with an await: the record is stored as SENT, the service is   *)
(* suspended in the fetch, and what comes back (or does not) decides the   *)
(* next status.  Every other operation is one step.                        *)
(*                                                                         *)
(* Abstractions.  The redaction is done when the draft is made, so a       *)
(* payload is the redacted one.  The event hash chain and the audit events *)
(* are left out.  The gateway's answer and the step of send that consumes  *)
(* it are one step: an answer that is late or lost is the fetch that       *)
(* throws.  nextRetryAt is not kept: send does not read it.                *)
(***************************************************************************)
EXTENDS LawShieldGateway

CONSTANTS
    Drafts,       \* the transfers a caller may ask for
    Identities,   \* the authenticated directory of ARMA's users
    MaxRetries,   \* RETRY_SCHEDULE_MS.length
    ReuseIds      \* whether a caller may name the id of an existing transfer

Status == {"DRAFT", "AUTHORIZED", "READY_TO_SEND", "SENT", "ACCEPTED", "REJECTED",
           "RECONCILIATION_REQUIRED"}
Draft == [transfer: Transfers, key: Keys, payload: Payloads, org: ArmaOrgs,
          incident: Incidents \cup {None}, dest: LawShieldOrgs \cup {None}]
Identity == [org: ArmaOrgs, human: BOOLEAN, authorizer: BOOLEAN]

ASSUME DraftAssumption == Drafts \subseteq Draft
ASSUME IdentityAssumption == Identities \in [Users -> Identity]
ASSUME RetryAssumption == MaxRetries \in Nat /\ ReuseIds \in BOOLEAN

(* Among the requests the gateway may see are those ARMA can make: any     *)
(* content, dated now, good for fifteen minutes.                           *)
Posted == [transfer: Transfers, key: Keys, payload: Payloads, org: ArmaOrgs,
           dest: LawShieldOrgs, incident: Incidents \cup {None}, case: Cases \cup {None},
           authorizer: Users, sentAt: 0 .. MaxTime, expiresAt: 3 .. MaxTime + 3]

ASSUME SenderAssumption ==
    /\ 0 .. MaxTime \subseteq Timestamps
    /\ \A e \in Posted : e.expiresAt = e.sentAt + 3 => e \in Requests

VARIABLES
    outboundDisabled,                  \* ARMA_LAW_SHIELD_OUTBOUND_DISABLED
    armaOrgMappings, armaCaseMappings, \* ARMA's own mappings
    outbound,        \* transfer -> ARMA's record of it
    keysUsed,        \* transfersByIdempotency
    authorizations,  \* transfer -> the human on record
    reconciliation,  \* transfer -> status of its reconciliation record
    sending,         \* the sends suspended in the fetch
    outgoing         \* requests on the way to the gateway

armaMappings == <<armaOrgMappings, armaCaseMappings>>
armaStore == <<outbound, keysUsed, authorizations, reconciliation>>
armaVars == <<outboundDisabled, armaMappings, armaStore, sending, outgoing>>
vars == <<laneVars, armaVars>>

-----------------------------------------------------------------------------
(* Types *)

OutboundRecord == [key: Keys, payload: Payloads, org: ArmaOrgs,
                   incident: Incidents \cup {None}, dest: LawShieldOrgs \cup {None},
                   case: Cases \cup {None}, authorizer: Users \cup {None},
                   status: Status, retries: Nat, cause: {"PERIMETER", "OTHER"}]

ASSUME LaneNoneAssumption ==
    /\ None \notin Users \cup LawShieldOrgs
    /\ None \notin OutboundRecord
    /\ None \notin {"OPEN", "RESOLVED", "QUARANTINED"}
    /\ None \notin [key: Keys, payload: Payloads, user: Users]

(* A suspended send holds the record it started from, so it counts the     *)
(* retries of that record whatever has been stored under the id since.     *)
Suspended == [req: Signed, retries: Nat]

LaneTypeOK ==
    /\ outboundDisabled \in BOOLEAN
    /\ armaOrgMappings \in [ArmaOrgs -> Mapping \cup {None}]
    /\ armaCaseMappings \in [ArmaOrgs \X Incidents -> CaseMapping \cup {None}]
    /\ outbound \in [Transfers -> OutboundRecord \cup {None}]
    /\ keysUsed \subseteq Keys
    /\ authorizations \in [Transfers -> Users \cup {None}]
    /\ reconciliation \in [Transfers -> {"OPEN", "RESOLVED", "QUARANTINED", None}]
    /\ sending \subseteq Suspended
    /\ \A s \in sending : s.req \in signed
    /\ outgoing \subseteq signed

LaneInit ==
    /\ GatewayInit
    /\ outboundDisabled = FALSE
    /\ \E d \in Seeds : armaOrgMappings = d.orgs /\ armaCaseMappings = d.cases
    /\ outbound = [t \in Transfers |-> None]
    /\ keysUsed = {}
    /\ authorizations = [t \in Transfers |-> None]
    /\ reconciliation = [t \in Transfers |-> None]
    /\ sending = {}
    /\ outgoing = {}

-----------------------------------------------------------------------------
(* From the draft to READY_TO_SEND *)

HasStatus(t, allowed) == outbound[t] /= None /\ outbound[t].status \in allowed

Patched(t, status, cause, retries) ==
    [outbound EXCEPT ![t].status = status, ![t].cause = cause, ![t].retries = retries]

(* createTransfer refuses a key it has seen.  It does not look at the id:  *)
(* a draft under the id of an existing transfer replaces that record.      *)
CreateDraft(d) ==
    /\ ~outboundDisabled
    /\ d.key \notin keysUsed
    /\ ReuseIds \/ outbound[d.transfer] = None
    /\ outbound' = [outbound EXCEPT ![d.transfer] =
          [key |-> d.key, payload |-> d.payload, org |-> d.org, incident |-> d.incident,
           dest |-> d.dest, case |-> None, authorizer |-> None, status |-> "DRAFT",
           retries |-> 0, cause |-> "OTHER"]]
    /\ keysUsed' = keysUsed \cup {d.key}
    /\ UNCHANGED <<laneVars, outboundDisabled, armaMappings, authorizations,
                   reconciliation, sending, outgoing>>

ActiveOrg(o) == armaOrgMappings[o] /= None /\ armaOrgMappings[o].active

ActiveCase(o, i, dest) ==
    /\ armaCaseMappings[<<o, i>>] /= None
    /\ armaCaseMappings[<<o, i>>].active
    /\ armaCaseMappings[<<o, i>>].org = dest

(* Mutant: the guard trusts the role and forgets who holds it. *)
MayAuthorizeByRole(u, rec) == Identities[u].authorizer

(* checkDisclosureAuthorization *)
MayAuthorize(u, rec) ==
    /\ Identities[u].human
    /\ Identities[u].authorizer
    /\ Identities[u].org = rec.org
    /\ ActiveOrg(rec.org)
    /\ rec.incident /= None => ActiveCase(rec.org, rec.incident, rec.dest)

Authorize(t, u) ==
    /\ ~outboundDisabled
    /\ HasStatus(t, {"DRAFT"})
    /\ MayAuthorize(u, outbound[t])
    /\ authorizations' = [authorizations EXCEPT ![t] = u]
    /\ outbound' = [outbound EXCEPT ![t].status = "AUTHORIZED", ![t].authorizer = u]
    /\ UNCHANGED <<laneVars, outboundDisabled, armaMappings, keysUsed, reconciliation,
                   sending, outgoing>>

(* The destination may be named again here; it must be the mapped one. *)
Ready(t, dest, case) ==
    LET rec == outbound[t] IN
    /\ ~outboundDisabled
    /\ HasStatus(t, {"AUTHORIZED"})
    /\ ActiveOrg(rec.org)
    /\ armaOrgMappings[rec.org].org = dest
    /\ IF rec.incident /= None
       THEN /\ ActiveCase(rec.org, rec.incident, dest)
            /\ case = armaCaseMappings[<<rec.org, rec.incident>>].case
       ELSE TRUE
    /\ outbound' = [outbound EXCEPT ![t].status = "READY_TO_SEND",
                                    ![t].dest = dest, ![t].case = case]
    /\ UNCHANGED <<laneVars, outboundDisabled, armaMappings, keysUsed, authorizations,
                   reconciliation, sending, outgoing>>

-----------------------------------------------------------------------------
(* send: up to the await *)

(* buildEnvelope; the envelope expires after fifteen minutes. *)
EnvelopeOf(t) ==
    LET rec == outbound[t] IN
    [transfer |-> t, key |-> rec.key, payload |-> rec.payload, org |-> rec.org,
     dest |-> rec.dest, incident |-> rec.incident, case |-> rec.case,
     authorizer |-> rec.authorizer, sentAt |-> now, expiresAt |-> now + 3]

(* Mutant: a send may start from a transfer whose outcome is open. *)
SendableWhileOpen == {"READY_TO_SEND", "RECONCILIATION_REQUIRED"}

Sendable == {"READY_TO_SEND"}

Send(t, n) ==
    LET r == [env |-> EnvelopeOf(t), nonce |-> n, at |-> now] IN
    /\ ~outboundDisabled
    /\ HasStatus(t, Sendable)
    /\ ValidEnvelope(r.env)
    /\ Sign(r.env, n, now)
    /\ outbound' = [outbound EXCEPT ![t].status = "SENT"]
    /\ sending' = sending \cup {[req |-> r, retries |-> outbound[t].retries]}
    /\ outgoing' = outgoing \cup {r}
    /\ UNCHANGED <<outboundDisabled, armaMappings, keysUsed, authorizations, reconciliation>>

-----------------------------------------------------------------------------
(* send: after the await *)

OpenReconciliation(t) ==
    reconciliation' = [reconciliation EXCEPT ![t] = "OPEN"]

Accepted200(s) ==
    /\ outbound' = [outbound EXCEPT ![s.req.env.transfer].status = "ACCEPTED"]
    /\ UNCHANGED reconciliation

(* Mutant: the reconciliation record is forgotten. *)
AmbiguousUnrecorded(s) ==
    /\ outbound' = Patched(s.req.env.transfer, "RECONCILIATION_REQUIRED", "OTHER", s.retries + 1)
    /\ UNCHANGED reconciliation

Ambiguous(s) ==
    LET t == s.req.env.transfer IN
    /\ outbound' = Patched(t, "RECONCILIATION_REQUIRED", "OTHER", s.retries + 1)
    /\ OpenReconciliation(t)

(* computeBackoff: the schedule has MaxRetries entries. *)
RetryOrGiveUp(s) ==
    LET t == s.req.env.transfer IN
    /\ outbound' = IF s.retries >= MaxRetries
                   THEN [outbound EXCEPT ![t].status = "REJECTED", ![t].cause = "OTHER"]
                   ELSE Patched(t, "READY_TO_SEND", "OTHER", s.retries + 1)
    /\ UNCHANGED reconciliation

(* Mutant: the error code is stored as the status. *)
RefuseWithCode(s) ==
    /\ outbound' = [outbound EXCEPT ![s.req.env.transfer].status = "PERIMETER_REFUSED"]
    /\ UNCHANGED reconciliation

Refuse(s) ==
    /\ outbound' = [outbound EXCEPT ![s.req.env.transfer].status = "REJECTED",
                                    ![s.req.env.transfer].cause = "PERIMETER"]
    /\ UNCHANGED reconciliation

AmbiguousCodes == {"PROCESSOR_RECEIPT_MISMATCH", "PROCESSOR_TIMEOUT"}

(* classifyGatewayFailure, canAutoRetry.  A receipt that cannot be         *)
(* verified is as ambiguous as a timeout.                                  *)
Conclude(s, code) ==
    \/ code = "RECEIPT" /\ (Accepted200(s) \/ Ambiguous(s))
    \/ code \in AmbiguousCodes /\ Ambiguous(s)
    \/ code = "PROCESSOR_UNAVAILABLE" /\ RetryOrGiveUp(s)
    \/ code \notin AmbiguousCodes \cup {"RECEIPT", "PROCESSOR_UNAVAILABLE"} /\ Refuse(s)

(* The fetch of send throws: by its name a timeout, or anything else. *)
SendThrows(s) ==
    /\ s \in sending
    /\ \E code \in {"PROCESSOR_TIMEOUT", "PROCESSOR_UNAVAILABLE"} : Conclude(s, code)
    /\ sending' = sending \ {s}
    /\ outgoing' \in {outgoing, outgoing \ {s.req}}
    /\ UNCHANGED <<laneVars, outboundDisabled, armaMappings, keysUsed, authorizations>>

(* What the gateway answers reaches the send that waits for it. *)
Consume ==
    LET waiting == {s \in sending : answer' /= None /\ answer'.req = s.req} IN
    /\ IF waiting = {} THEN UNCHANGED <<outbound, reconciliation>>
       ELSE \E s \in waiting : Conclude(s, answer'.code)
    /\ sending' = sending \ waiting
    /\ UNCHANGED <<outboundDisabled, armaMappings, keysUsed, authorizations>>

GatewayReceives(r) ==
    /\ r \in outgoing
    /\ RefuseRequest(r) \/ RefuseReplay(r) \/ RefuseUnconfigured(r) \/ Forward(r)
    /\ outgoing' = outgoing \ {r}
    /\ Consume

GatewayWorks ==
    /\ \/ \E r \in signed : ProcessForward(r) \/ ProcessOrphan(r) \/ FetchFails(r)
       \/ \E x \in results : BodyLost(x) \/ Respond(x)
       \/ RestartGateway
       \/ AdministerProcessor
    /\ Consume
    /\ UNCHANGED outgoing

LaneTick ==
    /\ sending = {} /\ outgoing = {}
    /\ GatewayTick
    /\ UNCHANGED armaVars

-----------------------------------------------------------------------------
(* What humans and operators do *)

(* Mutant: a human may reject what is under way. *)
RejectableWhileSent == Status \ {"ACCEPTED", "REJECTED"}

Rejectable == {"DRAFT", "AUTHORIZED", "READY_TO_SEND", "RECONCILIATION_REQUIRED"}

(* reject; the actor is any human of the directory. *)
Reject(t, u) ==
    /\ Identities[u].human
    /\ HasStatus(t, Rejectable)
    /\ outbound' = [outbound EXCEPT ![t].status = "REJECTED", ![t].cause = "OTHER"]
    /\ UNCHANGED <<laneVars, outboundDisabled, armaMappings, keysUsed, authorizations,
                   reconciliation, sending, outgoing>>

(* Only the reconciliation record changes, never the transfer. *)
ResolveReconciliation(t, u, outcome) ==
    /\ Identities[u].human
    /\ Identities[u].authorizer
    /\ outbound[t] /= None /\ Identities[u].org = outbound[t].org
    /\ reconciliation[t] \in {"OPEN", "QUARANTINED"}
    /\ reconciliation' = [reconciliation EXCEPT ![t] = outcome]
    /\ UNCHANGED <<laneVars, outboundDisabled, armaMappings, outbound, keysUsed,
                   authorizations, sending, outgoing>>

(* The process stops: the suspended sends are gone, the store remains. *)
RestartArma ==
    /\ sending' = {}
    /\ outgoing' \in SUBSET outgoing
    /\ UNCHANGED <<laneVars, outboundDisabled, armaMappings, armaStore>>

SwitchOutbound ==
    /\ outboundDisabled' = ~outboundDisabled
    /\ UNCHANGED <<laneVars, armaMappings, armaStore, sending, outgoing>>

MapArmaOrg(o, dest) ==
    /\ armaOrgMappings' = [armaOrgMappings EXCEPT ![o] = [org |-> dest, active |-> TRUE]]
    /\ UNCHANGED armaCaseMappings
UnmapArmaOrg(o) ==
    /\ armaOrgMappings[o] /= None
    /\ armaOrgMappings' = [armaOrgMappings EXCEPT ![o].active = FALSE]
    /\ UNCHANGED armaCaseMappings
MapArmaCase(o, i, dest, c) ==
    /\ armaCaseMappings' = [armaCaseMappings EXCEPT ![<<o, i>>] =
                                [org |-> dest, case |-> c, active |-> TRUE]]
    /\ UNCHANGED armaOrgMappings

AdministerArma ==
    /\ \/ \E o \in ArmaOrgs, d \in LawShieldOrgs : MapArmaOrg(o, d)
       \/ \E o \in ArmaOrgs : UnmapArmaOrg(o)
       \/ \E o \in ArmaOrgs, i \in Incidents, d \in LawShieldOrgs, c \in Cases :
              MapArmaCase(o, i, d, c)
    /\ UNCHANGED <<laneVars, outboundDisabled, armaStore, sending, outgoing>>

LaneNext ==
    \/ \E d \in Drafts : CreateDraft(d)
    \/ \E t \in Transfers, u \in Users :
          \/ Authorize(t, u)
          \/ Reject(t, u)
          \/ \E outcome \in {"RESOLVED", "QUARANTINED"} : ResolveReconciliation(t, u, outcome)
    \/ \E t \in Transfers, dest \in LawShieldOrgs, case \in Cases \cup {None} :
          Ready(t, dest, case)
    \/ \E t \in Transfers, n \in Nonces : Send(t, n)
    \/ \E s \in sending : SendThrows(s)
    \/ \E r \in outgoing : GatewayReceives(r)
    \/ GatewayWorks
    \/ LaneTick
    \/ RestartArma
    \/ SwitchOutbound
    \/ AdministerArma

LaneSpec == LaneInit /\ [][LaneNext]_vars

-----------------------------------------------------------------------------
(* What must hold *)

Content(rec) == [key |-> rec.key, payload |-> rec.payload, user |-> rec.authorizer]

(* The lane keeps the promise of Disclosure: Law Shield takes a transfer   *)
(* at most once, with the key, the payload and the human that ARMA has on  *)
(* record, and ARMA says ACCEPTED only of what Law Shield took.            *)
D == INSTANCE Disclosure WITH
        Contents <- [key: Keys, payload: Payloads, user: {u \in Users : Identities[u].human}],
        authorized <- [t \in Transfers |->
                          IF authorizations[t] = None THEN None ELSE Content(outbound[t])],
        disclosed <- [t \in Transfers |->
                          IF receipts[t] = None THEN None ELSE Content(transfers[t])],
        confirmed <- {t \in Transfers : HasStatus(t, {"ACCEPTED"})}

KeepsPromise == D!Spec

(* "An accepted disclosure must never be duplicated": a transfer is sent   *)
(* only as READY_TO_SEND, never while another send of it waits for an      *)
(* answer, nor while a human has not resolved an ambiguous outcome of it.  *)
NoBlindResend ==
    /\ \A r \in signed' \ signed :
          /\ outbound[r.env.transfer].status = "READY_TO_SEND"
          /\ \A s \in sending : s.req.env.transfer /= r.env.transfer
    /\ \A t \in Transfers : reconciliation[t] \notin {None, "RESOLVED"} =>
          ~\E r \in signed' \ signed : r.env.transfer = t

NeverResentBlindly == [][NoBlindResend]_vars

(* A human must look at every ambiguous outcome: the transfer waits in     *)
(* RECONCILIATION_REQUIRED under a reconciliation record until then.       *)
AmbiguityRecorded ==
    \A t \in Transfers : HasStatus(t, {"RECONCILIATION_REQUIRED"}) => reconciliation[t] /= None

(* The state machine in the header of transferService.js reaches ACCEPTED  *)
(* from SENT only.  A send that returns updates whatever record is stored  *)
(* under the id by then, a draft nobody authorised included.               *)
AcceptsSentOnly ==
    \A t \in Transfers :
        HasStatus(t, {"ACCEPTED"})' => HasStatus(t, {"SENT", "ACCEPTED"})

FollowsStateMachine == [][AcceptsSentOnly]_vars

-----------------------------------------------------------------------------
(* What the comments and reports of the repository say, and the code does  *)
(* not do                                                                  *)

(* transferService.js, of a terminal perimeter rejection: "the transfer    *)
(* never left ARMA".  The gateway answers so when it fails after the       *)
(* processor accepted: no receipt secret, or a body that cannot be read.   *)
PerimeterRejectionNeverLeft ==
    \A t \in Transfers :
        HasStatus(t, {"REJECTED"}) /\ outbound[t].cause = "PERIMETER" => receipts[t] = None

=============================================================================
