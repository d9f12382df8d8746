-------------------------- MODULE LawShieldProcessor --------------------------
(***************************************************************************)
(* The durable Law Shield processor: the handler that decides a transfer   *)
(* (durable/processor.js) over its store (durable/store.js).  Once the     *)
(* body is read the handler is synchronous, and the runtime runs one       *)
(* handler at a time, so one request is one step.  A transaction is all or *)
(* nothing: a write that throws (the store's fail points, or a guard of    *)
(* the store) restores the snapshot taken when the transaction began.      *)
(*                                                                         *)
(* Abstractions.  A payload stands for its SHA-256 hash, and PolicyVerdict *)
(* says what enforceDisclosurePolicy answers for it.  Error codes are kept *)
(* where a caller treats them differently.  The audit trail keeps the      *)
(* decisions (accepted, rejected, quarantined) as a set; the diagnostic    *)
(* events are kept only as writes that may fail.                           *)
(***************************************************************************)
EXTENDS Integers

CONSTANTS
    Transfers,      \* transfer ids a sender may use
    Keys,           \* idempotency keys
    Payloads,       \* payloads, one per payload hash
    Nonces,         \* request nonces
    ArmaOrgs, LawShieldOrgs, Incidents, Cases, Users,
    AiActors,       \* user ids the validator takes for an AI
    PolicyVerdict,  \* what the minimum-necessary policy says of a payload
    Requests,       \* the envelopes the senders may deliver
    Seeds,          \* directories the processor may start with
    Window,         \* NONCE_VALIDITY_WINDOW_MS
    MaxTime,        \* bound: the clock stops here
    None            \* null

(* The synthetic id under which a conflicting delivery is quarantined. *)
ConflictId(t) == <<"CONFLICT", t>>
DurableIds == Transfers \cup {ConflictId(t) : t \in Transfers}

Envelope == [transfer: Transfers, key: Keys, payload: Payloads,
             org: ArmaOrgs, dest: LawShieldOrgs,
             incident: Incidents \cup {None}, case: Cases \cup {None},
             authorizer: Users, sentAt: Int, expiresAt: Int]

Outcomes == {"ACCEPTED", "REJECTED", "QUARANTINED"}

ASSUME EnvelopeAssumption == Requests \subseteq Envelope
ASSUME VerdictAssumption == PolicyVerdict \in [Payloads -> BOOLEAN]
ASSUME TimeAssumption == Window \in Nat /\ MaxTime \in Nat
ASSUME ConflictIdAssumption ==
    Transfers \cap {ConflictId(t) : t \in Transfers} = {}

VARIABLES
    now,          \* Date.now()
    disabled,     \* LAW_SHIELD_PROCESSOR_DISABLED
    orgMappings, caseMappings, authorizers,  \* the replicated directory
    nonces,       \* nonce -> when and for which transfer it was seen
    idempotency,  \* key -> binding, first writer wins
    transfers,    \* durable transfer records
    receipts,     \* transfer -> the receipt RCP-<transfer>
    audit,        \* the decisions written to the audit trail
    reply         \* the answer the last step sent, None if it sent none

registries == <<nonces, idempotency, transfers, receipts, audit>>
directory == <<orgMappings, caseMappings, authorizers>>
procVars == <<now, disabled, directory, registries, reply>>

-----------------------------------------------------------------------------
(* Types *)

Mapping == [org: LawShieldOrgs, active: BOOLEAN]
CaseMapping == [org: LawShieldOrgs, case: Cases, active: BOOLEAN]
Authorizer == [org: ArmaOrgs, active: BOOLEAN]
NonceRecord == [at: Int, transfer: Transfers]
Binding == [transfer: Transfers, payload: Payloads, outcome: Outcomes]
Record == [key: Keys, payload: Payloads, status: Outcomes, authorizer: Users,
           org: ArmaOrgs, dest: LawShieldOrgs, incident: Incidents \cup {None}]
Receipt == [key: Keys, payload: Payloads, acceptedAt: Int]
Decision == [event: Outcomes, transfer: DurableIds, key: Keys]
Reply == [transfer: Transfers, key: Keys,
          kind: {"ACCEPTED", "DUPLICATE", "REJECTED", "QUARANTINED",
                 "ERROR", "FAULT", "DISABLED"},
          receipt: Receipt \cup {None}]

Directory == [orgs: [ArmaOrgs -> Mapping \cup {None}],
              cases: [ArmaOrgs \X Incidents -> CaseMapping \cup {None}],
              users: [Users -> Authorizer \cup {None}]]

ASSUME SeedAssumption == Seeds \subseteq Directory

ASSUME NoneAssumption ==
    /\ None \notin Incidents \cup Cases
    /\ None \notin Mapping \cup CaseMapping \cup Authorizer
    /\ None \notin NonceRecord \cup Binding \cup Record \cup Receipt \cup Reply

TypeOK ==
    /\ now \in Int
    /\ disabled \in BOOLEAN
    /\ orgMappings \in [ArmaOrgs -> Mapping \cup {None}]
    /\ caseMappings \in [ArmaOrgs \X Incidents -> CaseMapping \cup {None}]
    /\ authorizers \in [Users -> Authorizer \cup {None}]
    /\ nonces \in [Nonces -> NonceRecord \cup {None}]
    /\ idempotency \in [Keys -> Binding \cup {None}]
    /\ transfers \in [DurableIds -> Record \cup {None}]
    /\ receipts \in [Transfers -> Receipt \cup {None}]
    /\ audit \subseteq Decision
    /\ reply \in Reply \cup {None}

Init ==
    /\ now = 0
    /\ disabled = FALSE
    /\ \E d \in Seeds :
          orgMappings = d.orgs /\ caseMappings = d.cases /\ authorizers = d.users
    /\ nonces = [n \in Nonces |-> None]
    /\ idempotency = [k \in Keys |-> None]
    /\ transfers = [t \in DurableIds |-> None]
    /\ receipts = [t \in Transfers |-> None]
    /\ audit = {}
    /\ reply = None

-----------------------------------------------------------------------------
(* What the handler reads *)

(* validateEnvelope: the rules whose outcome depends on who sends and when. *)
ValidEnvelope(e) ==
    /\ e.authorizer \notin AiActors
    /\ e.incident /= None => e.case /= None
    /\ e.expiresAt > now

Fresh(e) == now - e.sentAt <= Window /\ e.sentAt - now <= Window

AuthorizerAllowed(e) ==
    /\ authorizers[e.authorizer] /= None
    /\ authorizers[e.authorizer].active
    /\ authorizers[e.authorizer].org = e.org

OrgMapped(e) ==
    /\ orgMappings[e.org] /= None
    /\ orgMappings[e.org].active
    /\ orgMappings[e.org].org = e.dest

(* Mutant: the case mapping is not compared with the tenant. *)
CaseMappedToAnyTenant(e) ==
    e.incident /= None =>
        /\ caseMappings[<<e.org, e.incident>>] /= None
        /\ caseMappings[<<e.org, e.incident>>].active

CaseMapped(e) ==
    e.incident /= None =>
        LET m == caseMappings[<<e.org, e.incident>>] IN
        /\ m /= None
        /\ m.active
        /\ m.org = e.dest
        /\ e.case /= None => m.case = e.case

DirectoryAllows(e) == AuthorizerAllowed(e) /\ OrgMapped(e) /\ CaseMapped(e)

(* Mutant: the error code is stored as the status of the transfer. *)
ErrorCodeAsOutcome(e) ==
    IF ~DirectoryAllows(e) THEN "REJECTED"
    ELSE IF PolicyVerdict[e.payload] THEN "ACCEPTED" ELSE "MINIMUM_NECESSARY_VIOLATION"

(* The business checks run in this order, so only a payload whose sender   *)
(* and mappings are in order can be quarantined by the policy.             *)
BusinessOutcome(e) ==
    IF ~DirectoryAllows(e) THEN "REJECTED"
    ELSE IF PolicyVerdict[e.payload] THEN "ACCEPTED" ELSE "QUARANTINED"

(* Mutant: only accepted outcomes are collapsed, refusals are decided anew. *)
BoundWhenAccepted(e) ==
    idempotency[e.key] /= None /\ idempotency[e.key].outcome = "ACCEPTED"

(* resolveIdempotencyKey *)
Bound(e) == idempotency[e.key] /= None
ExactDuplicate(e) ==
    /\ idempotency[e.key].transfer = e.transfer
    /\ idempotency[e.key].payload = e.payload
Conflicting(e) == Bound(e) /\ ~ExactDuplicate(e)

(* An accepted binding without its receipt is an integrity anomaly too.    *)
Diverged(e) ==
    /\ Bound(e)
    /\ ExactDuplicate(e)
    /\ idempotency[e.key].outcome = "ACCEPTED"
    /\ receipts[e.transfer] = None

(* The guards a request passes before the registries are consulted. *)
Admitted(e, n) ==
    /\ ~disabled
    /\ ValidEnvelope(e)
    /\ Fresh(e)
    /\ nonces[n] = None

-----------------------------------------------------------------------------
(* What a transaction writes *)

(* registerNonce first prunes every nonce that has outlived the window. *)
Registered(e, n) ==
    [m \in Nonces |->
        IF m = n THEN [at |-> now, transfer |-> e.transfer]
        ELSE IF nonces[m] /= None /\ now - nonces[m].at > Window THEN None
        ELSE nonces[m]]

(* Mutant: the re-create check forgets the payload. *)
CreatableForAnyPayload(id, e, status) ==
    transfers[id] = None \/ transfers[id].status = status

(* createDurableTransfer throws when the id is taken, unless the same      *)
(* payload was decided the same way before.                                *)
Creatable(id, e, status) ==
    \/ transfers[id] = None
    \/ transfers[id].payload = e.payload /\ transfers[id].status = status

(* Mutant: a second delivery rewrites the record. *)
Upserted(id, e, status) ==
    [transfers EXCEPT ![id] =
        [key |-> e.key, payload |-> e.payload, status |-> status,
         authorizer |-> e.authorizer, org |-> e.org, dest |-> e.dest,
         incident |-> e.incident]]

Created(id, e, status) ==
    IF transfers[id] /= None THEN transfers
    ELSE [transfers EXCEPT ![id] =
            [key |-> e.key, payload |-> e.payload, status |-> status,
             authorizer |-> e.authorizer, org |-> e.org, dest |-> e.dest,
             incident |-> e.incident]]

Answer(e, kind, receipt) ==
    [transfer |-> e.transfer, key |-> e.key, kind |-> kind, receipt |-> receipt]

Audited(event, id, e) ==
    audit \cup {[event |-> event, transfer |-> id, key |-> e.key]}

(* A transaction threw: the snapshot taken when it began is restored.      *)
RolledBack(e, n) == UNCHANGED registries

(* The store refuses the write: some record already holds the id.          *)
Refused(e) ==
    IF Conflicting(e) \/ Diverged(e)
    THEN /\ transfers[e.transfer] = None \/ transfers[e.transfer].payload = e.payload
         /\ ~Creatable(ConflictId(e.transfer), e, "QUARANTINED")
    ELSE /\ ~Bound(e)
         /\ ~Creatable(e.transfer, e, BusinessOutcome(e))

-----------------------------------------------------------------------------
(* The answers that leave the registries alone *)

(* The kill switch is read when the request arrives, and again when its    *)
(* body is read: a switch thrown in between surfaces as a fault.           *)
Unavailable(e, n) ==
    /\ disabled
    /\ \E kind \in {"DISABLED", "FAULT"} : reply' = Answer(e, kind, None)
    /\ UNCHANGED registries

(* Forwarded headers that are malformed or disagree with the envelope. *)
BadRequest(e, n) ==
    /\ ~disabled
    /\ reply' = Answer(e, "ERROR", None)
    /\ UNCHANGED registries

RejectEnvelope(e, n) ==
    /\ ~disabled
    /\ ~ValidEnvelope(e) \/ ~Fresh(e)
    /\ reply' = Answer(e, "REJECTED", None)
    /\ UNCHANGED registries

(* The pre-check does not prune: an expired nonce still rejects here.  The *)
(* only write is an audit event; when it throws the server answers 503.    *)
RejectReplay(e, n) ==
    /\ ~disabled
    /\ ValidEnvelope(e)
    /\ Fresh(e)
    /\ nonces[n] /= None
    /\ \E kind \in {"REJECTED", "FAULT"} : reply' = Answer(e, kind, None)
    /\ UNCHANGED registries

(* The transaction threw, at any of its writes or at a guard of the store. *)
(* Only the duplicate paths let the exception reach the server.            *)
FailTransaction(e, n) ==
    /\ Admitted(e, n)
    /\ reply' = Answer(e,
          IF Bound(e) /\ ~Conflicting(e) /\ ~Diverged(e) THEN "FAULT" ELSE "ERROR",
          None)
    /\ RolledBack(e, n)

-----------------------------------------------------------------------------
(* The transactions that commit *)

(* Same key, other content: quarantined for human review.  A prior record  *)
(* of this transfer id with other content stays as it is.                  *)
QuarantineConflict(e, n) ==
    /\ Admitted(e, n)
    /\ Conflicting(e) \/ Diverged(e)
    /\ ~Refused(e)
    /\ nonces' = Registered(e, n)
    /\ IF transfers[e.transfer] /= None /\ transfers[e.transfer].payload /= e.payload
       THEN /\ audit' = Audited("QUARANTINED", e.transfer, e)
            /\ UNCHANGED transfers
       ELSE /\ transfers' = Created(ConflictId(e.transfer), e, "QUARANTINED")
            /\ audit' = Audited("QUARANTINED", ConflictId(e.transfer), e)
    /\ reply' = Answer(e, "QUARANTINED", None)
    /\ UNCHANGED <<idempotency, receipts>>

(* Exact duplicate: the stored outcome is replayed, whatever it was. *)
CollapseDuplicate(e, n) ==
    /\ Admitted(e, n)
    /\ Bound(e)
    /\ ExactDuplicate(e)
    /\ ~Diverged(e)
    /\ nonces' = Registered(e, n)
    /\ reply' = Answer(e, "DUPLICATE",
          IF idempotency[e.key].outcome = "ACCEPTED" THEN receipts[e.transfer] ELSE None)
    /\ UNCHANGED <<idempotency, transfers, receipts, audit>>

Bind(e, outcome) ==
    [idempotency EXCEPT ![e.key] =
        [transfer |-> e.transfer, payload |-> e.payload, outcome |-> outcome]]

(* First delivery of the key, refused by a business check. *)
RecordRefusal(e, n) ==
    /\ Admitted(e, n)
    /\ ~Bound(e)
    /\ BusinessOutcome(e) /= "ACCEPTED"
    /\ ~Refused(e)
    /\ nonces' = Registered(e, n)
    /\ transfers' = Created(e.transfer, e, BusinessOutcome(e))
    /\ idempotency' = Bind(e, BusinessOutcome(e))
    /\ audit' = Audited(BusinessOutcome(e), e.transfer, e)
    /\ reply' = Answer(e, BusinessOutcome(e), None)
    /\ UNCHANGED receipts

(* createReceiptRecord: generated once, never a second receipt. *)
ReceiptOf(e) ==
    IF receipts[e.transfer] /= None THEN receipts[e.transfer]
    ELSE [key |-> e.key, payload |-> e.payload, acceptedAt |-> now]

(* First delivery of the key, accepted: five writes, one transaction. *)
Accept(e, n) ==
    /\ Admitted(e, n)
    /\ ~Bound(e)
    /\ BusinessOutcome(e) = "ACCEPTED"
    /\ ~Refused(e)
    /\ nonces' = Registered(e, n)
    /\ transfers' = Created(e.transfer, e, "ACCEPTED")
    /\ receipts' = [receipts EXCEPT ![e.transfer] = ReceiptOf(e)]
    /\ idempotency' = Bind(e, "ACCEPTED")
    /\ audit' = Audited("ACCEPTED", e.transfer, e)
    /\ reply' = Answer(e, "ACCEPTED", ReceiptOf(e))

(* One delivery of envelope e under nonce n, as the gateway forwards it. *)
Deliver(e, n) ==
    \/ Unavailable(e, n)
    \/ RejectEnvelope(e, n)
    \/ RejectReplay(e, n)
    \/ FailTransaction(e, n)
    \/ QuarantineConflict(e, n)
    \/ CollapseDuplicate(e, n)
    \/ RecordRefusal(e, n)
    \/ Accept(e, n)

Process(e, n) ==
    /\ Deliver(e, n) \/ BadRequest(e, n)
    /\ UNCHANGED <<now, disabled, directory>>

-----------------------------------------------------------------------------
(* The directory, the kill switch and the clock *)

UpsertOrgMapping(o, d) ==
    /\ orgMappings' = [orgMappings EXCEPT ![o] = [org |-> d, active |-> TRUE]]
    /\ UNCHANGED <<caseMappings, authorizers>>

DeactivateOrgMapping(o) ==
    /\ orgMappings[o] /= None
    /\ orgMappings' = [orgMappings EXCEPT ![o].active = FALSE]
    /\ UNCHANGED <<caseMappings, authorizers>>

UpsertCaseMapping(o, i, d, c) ==
    /\ caseMappings' = [caseMappings EXCEPT ![<<o, i>>] =
                            [org |-> d, case |-> c, active |-> TRUE]]
    /\ UNCHANGED <<orgMappings, authorizers>>

DeactivateCaseMapping(o, i) ==
    /\ caseMappings[<<o, i>>] /= None
    /\ caseMappings' = [caseMappings EXCEPT ![<<o, i>>].active = FALSE]
    /\ UNCHANGED <<orgMappings, authorizers>>

UpsertAuthorizer(u, o) ==
    /\ authorizers' = [authorizers EXCEPT ![u] = [org |-> o, active |-> TRUE]]
    /\ UNCHANGED <<orgMappings, caseMappings>>

DeactivateAuthorizer(u) ==
    /\ authorizers[u] /= None
    /\ authorizers' = [authorizers EXCEPT ![u].active = FALSE]
    /\ UNCHANGED <<orgMappings, caseMappings>>

ChangeDirectory ==
    /\ \/ \E o \in ArmaOrgs, d \in LawShieldOrgs : UpsertOrgMapping(o, d)
       \/ \E o \in ArmaOrgs : DeactivateOrgMapping(o)
       \/ \E o \in ArmaOrgs, i \in Incidents, d \in LawShieldOrgs, c \in Cases :
              UpsertCaseMapping(o, i, d, c)
       \/ \E o \in ArmaOrgs, i \in Incidents : DeactivateCaseMapping(o, i)
       \/ \E u \in Users, o \in ArmaOrgs : UpsertAuthorizer(u, o)
       \/ \E u \in Users : DeactivateAuthorizer(u)
    /\ reply' = None
    /\ UNCHANGED <<now, disabled, registries>>

SwitchProcessor ==
    /\ disabled' = ~disabled
    /\ reply' = None
    /\ UNCHANGED <<now, directory, registries>>

Tick ==
    /\ now < MaxTime
    /\ now' = now + 1
    /\ reply' = None
    /\ UNCHANGED <<disabled, directory, registries>>

Next ==
    \/ \E e \in Requests, n \in Nonces : Process(e, n)
    \/ ChangeDirectory
    \/ SwitchProcessor
    \/ Tick

Spec == Init /\ [][Next]_procVars

-----------------------------------------------------------------------------
(* What must hold *)

Accepted(t) == transfers[t] /= None /\ transfers[t].status = "ACCEPTED"

(* The header of store.js: nonce, idempotency, transfer, receipt and audit *)
(* can never partially diverge.  A binding is backed by the transfer it    *)
(* names, decided the same way for the same payload, and by an audit       *)
(* event; an accepted one by a receipt for that payload.                   *)
BindingsBacked ==
    \A k \in Keys : idempotency[k] /= None =>
        LET b == idempotency[k] IN
        /\ transfers[b.transfer] /= None
        /\ transfers[b.transfer].status = b.outcome
        /\ transfers[b.transfer].payload = b.payload
        /\ [event |-> b.outcome, transfer |-> b.transfer, key |-> k] \in audit
        /\ b.outcome = "ACCEPTED" => receipts[b.transfer] /= None

(* A receipt exists exactly for the accepted transfers, for the payload    *)
(* that was accepted, and the key on it is bound to that transfer: nothing *)
(* is disclosed under a key the registry does not know.                    *)
ReceiptsJustified ==
    \A t \in Transfers :
        /\ receipts[t] /= None <=> Accepted(t)
        /\ receipts[t] /= None =>
            LET k == receipts[t].key IN
            /\ receipts[t].payload = transfers[t].payload
            /\ idempotency[k] /= None
            /\ idempotency[k].transfer = t
            /\ idempotency[k].outcome = "ACCEPTED"

(* A transfer record was committed with the binding of the key that        *)
(* created it, so buildStatusResponse, which looks the binding up by that  *)
(* key, reports one outcome for the transfer and for its key.              *)
StatusConsistent ==
    \A t \in Transfers : transfers[t] /= None =>
        LET k == transfers[t].key IN
        /\ idempotency[k] /= None
        /\ idempotency[k].transfer = t
        /\ idempotency[k].outcome = transfers[t].status

(* A nonce is in the registry only with a decision that used it: a request *)
(* that failed half way leaves no nonce behind and can be sent again.      *)
NoncesDecided ==
    \A n \in Nonces : nonces[n] /= None =>
        \E d \in audit : d.transfer \in {nonces[n].transfer, ConflictId(nonces[n].transfer)}

(* Whatever is asked of the store, its collections tell one story.         *)
RecordsAgree == BindingsBacked /\ ReceiptsJustified /\ StatusConsistent /\ NoncesDecided

(* A decision is final: no later delivery, directory change or failure     *)
(* rewrites a binding, a transfer record or a receipt, and the audit trail *)
(* only grows.                                                             *)
KeepsDecisions ==
    /\ \A k \in Keys : idempotency[k] /= None => idempotency'[k] = idempotency[k]
    /\ \A t \in DurableIds : transfers[t] /= None => transfers'[t] = transfers[t]
    /\ \A t \in Transfers : receipts[t] /= None => receipts'[t] = receipts[t]
    /\ audit \subseteq audit'

DecisionsFinal == [][KeepsDecisions]_procVars

(* Every acceptance sent back carries the one receipt of its transfer, and *)
(* whatever answers a key that was bound before, no record of a transfer   *)
(* changes: a retry can never cause a second disclosure.                   *)
AnswersFromRecord ==
    reply' /= None => LET r == reply' IN
        /\ r.receipt /= None => /\ r.receipt = receipts'[r.transfer]
                                /\ idempotency'[r.key].transfer = r.transfer
        /\ idempotency[r.key] /= None =>
              /\ UNCHANGED <<idempotency, receipts>>
              /\ \A t \in Transfers : transfers'[t] = transfers[t]

AnswersStable == [][AnswersFromRecord]_procVars

(* An acceptance is decided on the directory of that very moment: the      *)
(* human who signed is an active authorizer of the sending organisation,   *)
(* and both the organisation and the incident map to the one tenant that   *)
(* receives the record (no cross-tenant disclosure).                       *)
AcceptsForMappedTenant ==
    \A t \in Transfers : Accepted(t)' /\ ~Accepted(t) =>
        LET r == transfers'[t] IN
        /\ r.authorizer \notin AiActors
        /\ authorizers[r.authorizer] = [org |-> r.org, active |-> TRUE]
        /\ orgMappings[r.org] = [org |-> r.dest, active |-> TRUE]
        /\ r.incident /= None =>
              /\ caseMappings[<<r.org, r.incident>>].active
              /\ caseMappings[<<r.org, r.incident>>].org = r.dest

TenantIsolation == [][AcceptsForMappedTenant]_procVars

=============================================================================
