----------------------------- MODULE PartnerServer -----------------------------
(***************************************************************************)
(* The PATCHES partner API: patches/lib/server.ts over store.ts, with the  *)
(* checks of policy.ts and security.ts.  A handler runs without a break,   *)
(* except that a create is suspended while it awaits the downstream        *)
(* protection service.  The store survives a restart of the process.       *)
(*                                                                         *)
(* Abstractions.  A partner has one client.  Signatures are genuine: what  *)
(* else authentication reads of a partner is one bit, its standing.  The   *)
(* body of a create is an intent (organization, capability, binding) and a *)
(* key, and stands for its hash.  The activation id ACT-<id> is the id of  *)
(* the request.  The rate limiter may refuse any request.  The audit trail *)
(* is the set of its successes.  Time is measured in units of the skew.    *)
(***************************************************************************)
EXTENDS Integers

CONSTANTS
    Clients,
    Keys,           \* idempotency keys
    Nonces,
    RequestIds,     \* x-request-id
    Intents,        \* bodies of create requests, but for the key
    Requests,       \* the requests that the partners send
    Copies,         \* the deliveries the network may make of a request
    Directories,    \* what the operator may configure
    Skew,           \* MAX_CLOCK_SKEW_MS
    Window,         \* NONCE_VALIDITY_WINDOW_MS
    MaxTime,        \* bound: the clock stops here
    None            \* null

Create == [kind: {"create"}, id: RequestIds, client: Clients, nonce: Nonces,
           at: Int, key: Keys, intent: Intents]
Change == [kind: {"deactivate", "revoke"}, id: RequestIds, client: Clients,
           nonce: Nonces, at: Int, target: RequestIds]

(* Kill switch, partners and keys in order, what a partner may activate    *)
(* (organization, entitlement, capability and binding at once), and on     *)
(* whose activations it may still act (organization and entitlement).      *)
Directory == [disabled: BOOLEAN, standing: SUBSET Clients,
              activatable: SUBSET (Clients \X Intents),
              entitled: SUBSET (Clients \X Intents)]

ASSUME RequestAssumption == Requests \subseteq Create \cup Change
(* The client draws a fresh id and a fresh nonce for every attempt. *)
ASSUME FreshAssumption ==
    \A r, s \in Requests : r.id = s.id \/ r.nonce = s.nonce => r = s
ASSUME DirectoryAssumption == Directories \subseteq Directory
ASSUME ClockAssumption == Skew \in Nat /\ MaxTime \in Nat /\ Window \in Nat
(* NONCE_VALIDITY_WINDOW_MS is twice MAX_CLOCK_SKEW_MS. *)
ASSUME WindowAssumption == Window >= 2 * Skew

VARIABLES
    now,           \* Date.now()
    directory,     \* partners, organizations, entitlements, bindings
    arrived,       \* the deliveries made so far
    pending,       \* the creates suspended in awaitDownstream
    nonces,        \* when a nonce was first seen
    activations,   \* id -> activation record
    idempotency,   \* client and key -> what they are bound to
    receipts, events, audit,   \* one entry per operation
    answer         \* what the last step answered, None if nothing

registries == <<activations, idempotency, receipts, events, audit>>
serverVars == <<now, directory, arrived, pending, nonces, registries, answer>>

-----------------------------------------------------------------------------
(* Types *)

Status == {"ACTIVE", "DEACTIVATED", "REVOKED"}
Activation == [client: Clients, key: Keys, intent: Intents, status: Status]
Binding == [intent: Intents, activation: RequestIds]
Entry == [request: RequestIds, operation: {"create", "deactivate", "revoke"},
          activation: RequestIds]
Handler == [req: Requests \cap Create, copy: Copies, at: Int]
Code == {"SUCCESS", "DUPLICATE", "IDEMPOTENCY_KEY_CONFLICT", "FORBIDDEN",
         "ACTIVATION_UNKNOWN", "ACTIVATION_REVOKED", "UNAUTHENTICATED", "RATE_LIMITED",
         "PARTNER_API_DISABLED", "DOWNSTREAM_UNAVAILABLE", "PARTNER_PERSISTENCE_FAILED",
         "FAULT"}
Answer == [req: Requests, code: Code, activation: RequestIds \cup {None}]

ASSUME NoneAssumption ==
    /\ None \notin RequestIds \cup Int
    /\ None \notin Activation \cup Binding \cup Answer

TypeOK ==
    /\ now \in Int
    /\ directory \in Directories
    /\ arrived \subseteq Requests \X Copies
    /\ pending \subseteq Handler
    /\ nonces \in [Clients \X Nonces -> Int \cup {None}]
    /\ activations \in [RequestIds -> Activation \cup {None}]
    /\ idempotency \in [Clients \X Keys -> Binding \cup {None}]
    /\ receipts \subseteq Entry
    /\ events \subseteq Entry
    /\ audit \subseteq Entry
    /\ answer \in Answer \cup {None}

Init ==
    /\ now = 0
    /\ directory \in Directories
    /\ arrived = {}
    /\ pending = {}
    /\ nonces = [n \in Clients \X Nonces |-> None]
    /\ activations = [a \in RequestIds |-> None]
    /\ idempotency = [k \in Clients \X Keys |-> None]
    /\ receipts = {} /\ events = {} /\ audit = {}
    /\ answer = None

-----------------------------------------------------------------------------
(* Authentication *)

Timely(r) == now - r.at <= Skew /\ r.at - now <= Skew

Expired(n) == nonces[n] /= None /\ now - nonces[n] > Window

Replayed(r) == nonces[<<r.client, r.nonce>>] /= None /\ ~Expired(<<r.client, r.nonce>>)

(* verifyPartnerAuth looks the nonce up and does not register it. *)
Authentic(r) == r.client \in directory.standing /\ Timely(r) /\ ~Replayed(r)

(* Mutant: the window is as long as the skew. *)
PrunedEarly ==
    [n \in Clients \X Nonces |->
        IF nonces[n] /= None /\ now - nonces[n] > Skew THEN None ELSE nonces[n]]

(* What has outlived the window is pruned by the next request that comes. *)
Pruned == [n \in Clients \X Nonces |-> IF Expired(n) THEN None ELSE nonces[n]]

(* registerNonce keeps the record that is there. *)
Registered(table, r, at) ==
    [table EXCEPT ![<<r.client, r.nonce>>] = IF @ = None THEN at ELSE @]

Answers(r, code, a) == answer' = [req |-> r, code |-> code, activation |-> a]

-----------------------------------------------------------------------------
(* What a request finds when it arrives *)

Bound(r) == idempotency[<<r.client, r.key>>] /= None
BoundTo(r) == idempotency[<<r.client, r.key>>]

(* Mutant: the key alone decides what is a duplicate. *)
NeverConflicting(r) == FALSE
(* resolveIdempotency *)
Conflicting(r) == Bound(r) /\ BoundTo(r).intent /= r.intent

(* authorizeOrg, checkEntitlement, checkCapability, checkBinding *)
MayActivate(r) == <<r.client, r.intent>> \in directory.activatable
MayChange(r) == <<r.client, activations[r.target].intent>> \in directory.entitled

(* Mutant: a status the schema does not know. *)
Lapse(kind) == IF kind = "revoke" THEN "REVOKED" ELSE "INACTIVE"
After(kind) == IF kind = "revoke" THEN "REVOKED" ELSE "DEACTIVATED"

(* Mutant: revocation is a status like any other. *)
NeverTerminal(r) == FALSE
Terminal(r) == activations[r.target].status = "REVOKED" /\ r.kind /= "revoke"

NoOp(r) == activations[r.target].status = After(r.kind)

-----------------------------------------------------------------------------
(* Requests that are answered without a transaction *)

RefuseDisabled(r) ==
    /\ directory.disabled
    /\ Answers(r, "PARTNER_API_DISABLED", None)
    /\ UNCHANGED <<pending, nonces, registries>>

RefuseAuthentication(r) ==
    /\ ~directory.disabled
    /\ ~Authentic(r)
    /\ \E code \in {"UNAUTHENTICATED", "FAULT"} : Answers(r, code, None)
    /\ UNCHANGED <<pending, nonces, registries>>

(* The limiter runs after authentication and registers no nonce.  When an  *)
(* audit event cannot be written outside a transaction, the handler throws *)
(* and registers none either.                                              *)
RefuseEarly(r) ==
    /\ ~directory.disabled
    /\ Authentic(r)
    /\ \E code \in {"RATE_LIMITED", "FAULT"} : Answers(r, code, None)
    /\ nonces' = Pruned
    /\ UNCHANGED <<pending, registries>>

Admitted(r) == ~directory.disabled /\ Authentic(r)

(* A refusal or a repetition, decided from what is on record. *)
AnswerFromRecord(r, code, a) ==
    /\ Answers(r, code, a)
    /\ nonces' = Registered(Pruned, r, now)
    /\ UNCHANGED <<pending, registries>>

AnswerCreate(r) ==
    /\ r.kind = "create"
    /\ Admitted(r)
    /\ \/ ~MayActivate(r) /\ AnswerFromRecord(r, "FORBIDDEN", None)
       \/ /\ MayActivate(r) /\ Bound(r)
          /\ IF Conflicting(r)
             THEN AnswerFromRecord(r, "IDEMPOTENCY_KEY_CONFLICT", BoundTo(r).activation)
             ELSE AnswerFromRecord(r, "DUPLICATE", BoundTo(r).activation)

AnswerChange(r) ==
    /\ r.kind /= "create"
    /\ Admitted(r)
    /\ IF activations[r.target] = None
       THEN AnswerFromRecord(r, "ACTIVATION_UNKNOWN", None)
       ELSE \/ ~MayChange(r) /\ AnswerFromRecord(r, "FORBIDDEN", None)
            \/ MayChange(r) /\ NoOp(r) /\ AnswerFromRecord(r, "SUCCESS", r.target)
            \/ MayChange(r) /\ Terminal(r) /\ AnswerFromRecord(r, "ACTIVATION_REVOKED", None)

-----------------------------------------------------------------------------
(* The transactions *)

Subject(r) == IF r.kind = "create" THEN r.id ELSE r.target

(* Mutant: events are not part of the snapshot. *)
EventKept(r) ==
    /\ events' = events \cup
          {[request |-> r.id, operation |-> r.kind, activation |-> Subject(r)]}
    /\ UNCHANGED <<activations, idempotency, receipts, audit>>

(* A write failed: runTransaction restores its snapshot of the store. *)
RolledBack(r) == UNCHANGED registries

Record(r) ==
    LET entry == [request |-> r.id, operation |-> r.kind, activation |-> Subject(r)] IN
    /\ receipts' = receipts \cup {entry}
    /\ events' = events \cup {entry}
    /\ audit' = audit \cup {entry}

(* A fresh key: the handler waits for the downstream, and its nonce is not *)
(* registered yet.                                                         *)
Suspend(r, c) ==
    /\ r.kind = "create"
    /\ Admitted(r)
    /\ MayActivate(r)
    /\ ~Bound(r)
    /\ pending' = pending \cup {[req |-> r, copy |-> c, at |-> now]}
    /\ nonces' = Pruned
    /\ answer' = None
    /\ UNCHANGED registries

ApplyChange(r) ==
    /\ r.kind /= "create"
    /\ Admitted(r)
    /\ activations[r.target] /= None
    /\ MayChange(r)
    /\ ~NoOp(r)
    /\ ~Terminal(r)
    /\ activations' = [activations EXCEPT ![r.target].status = After(r.kind)]
    /\ Record(r)
    /\ nonces' = Registered(Pruned, r, now)
    /\ Answers(r, "SUCCESS", r.target)
    /\ UNCHANGED <<pending, idempotency>>

(* The transaction of a change failed; the failure is audited in a         *)
(* transaction of its own, and when that fails too the handler throws.     *)
FailChange(r) ==
    /\ r.kind /= "create"
    /\ Admitted(r)
    /\ activations[r.target] /= None
    /\ MayChange(r)
    /\ ~NoOp(r)
    /\ ~Terminal(r)
    /\ \E code \in {"PARTNER_PERSISTENCE_FAILED", "FAULT"} : Answers(r, code, None)
    /\ nonces' = Pruned
    /\ RolledBack(r)
    /\ UNCHANGED pending

Arrive(r, c) ==
    \/ RefuseDisabled(r)
    \/ RefuseAuthentication(r)
    \/ RefuseEarly(r)
    \/ AnswerCreate(r)
    \/ AnswerChange(r)
    \/ Suspend(r, c)
    \/ ApplyChange(r)
    \/ FailChange(r)

-----------------------------------------------------------------------------
(* After the await *)

WriteActivation(r) ==
    /\ activations' = [activations EXCEPT ![r.id] =
           [client |-> r.client, key |-> r.key, intent |-> r.intent, status |-> "ACTIVE"]]
    /\ idempotency' = [idempotency EXCEPT ![<<r.client, r.key>>] =
           [intent |-> r.intent, activation |-> r.id]]
    /\ Record(r)

CommitCreate(h) ==
    /\ WriteActivation(h.req)
    /\ nonces' = Registered(nonces, h.req, h.at)
    /\ Answers(h.req, "SUCCESS", h.req.id)

(* Mutant: the transaction comes before the downstream check. *)
PersistFirst(h) ==
    /\ WriteActivation(h.req)
    /\ nonces' = Registered(nonces, h.req, h.at)
    /\ Answers(h.req, "DOWNSTREAM_UNAVAILABLE", None)

(* The downstream refused or threw: nothing is persisted but the nonce. *)
RefuseDownstream(h) ==
    /\ nonces' = Registered(nonces, h.req, h.at)
    /\ Answers(h.req, "DOWNSTREAM_UNAVAILABLE", None)
    /\ UNCHANGED registries

FailCreate(h) ==
    /\ \E code \in {"PARTNER_PERSISTENCE_FAILED", "FAULT"} : Answers(h.req, code, None)
    /\ RolledBack(h.req)
    /\ UNCHANGED nonces

Resume(h) ==
    /\ h \in pending
    /\ pending' = pending \ {h}
    /\ CommitCreate(h) \/ RefuseDownstream(h) \/ FailCreate(h)

-----------------------------------------------------------------------------
(* The rest of the system *)

Deliver(r, c) ==
    /\ <<r, c>> \notin arrived
    /\ arrived' = arrived \cup {<<r, c>>}
    /\ Arrive(r, c)
    /\ UNCHANGED <<now, directory>>

Conclude(h) ==
    /\ Resume(h)
    /\ UNCHANGED <<now, directory, arrived>>

Administer ==
    /\ directory' \in Directories
    /\ answer' = None
    /\ UNCHANGED <<now, arrived, pending, nonces, registries>>

(* Suspended handlers are lost, the store is not. *)
RestartServer ==
    /\ pending' = {}
    /\ answer' = None
    /\ UNCHANGED <<now, directory, arrived, nonces, registries>>

Tick ==
    /\ now < MaxTime
    /\ now' = now + 1
    /\ answer' = None
    /\ UNCHANGED <<directory, arrived, pending, nonces, registries>>

Next ==
    \/ \E r \in Requests, c \in Copies : Deliver(r, c)
    \/ \E h \in pending : Conclude(h)
    \/ Administer
    \/ RestartServer
    \/ Tick

Spec == Init /\ [][Next]_serverVars

-----------------------------------------------------------------------------
(* What must hold *)

(* One transaction writes the activation, its receipt, its binding, its    *)
(* event and its audit entry: whichever write fails, and however creates   *)
(* overlap, they never diverge.                                            *)
NoDivergence ==
    /\ receipts = events /\ receipts = audit
    /\ \A a \in RequestIds : activations[a] /= None <=>
          [request |-> a, operation |-> "create", activation |-> a] \in receipts
    /\ \A k \in Clients \X Keys : idempotency[k] /= None =>
          LET a == activations[idempotency[k].activation] IN
          /\ a /= None
          /\ <<a.client, a.key>> = k
          /\ a.intent = idempotency[k].intent

(* An activation is what its last receipt says: nothing but a recorded     *)
(* operation of this activation moves it out of ACTIVE.                    *)
StatusWitnessed ==
    \A a \in RequestIds :
        activations[a] /= None /\ activations[a].status /= "ACTIVE" =>
            \E entry \in receipts :
                /\ entry.activation = a
                /\ entry.operation /= "create"
                /\ After(entry.operation) = activations[a].status

(* The store never tells two stories of one activation. *)
RegistriesConsistent == NoDivergence /\ StatusWitnessed

(* A create is answered with an activation of the same partner, for the    *)
(* same body, under the same key, whoever created it.                      *)
AnswersMatchIntent ==
    answer /= None /\ answer.code \in {"SUCCESS", "DUPLICATE"} /\ answer.req.kind = "create" =>
        LET a == activations[answer.activation] IN
        /\ answer.activation \in RequestIds /\ a /= None
        /\ a.client = answer.req.client
        /\ a.intent = answer.req.intent
        /\ a.key = answer.req.key

(* A request whose operation is on record never passes authentication      *)
(* again: its nonce is held for as long as its timestamp is in the window, *)
(* although a create registers its nonce only after the await.             *)
ProcessedNeverReplayed ==
    \A r \in Requests :
        (\E entry \in receipts : entry.request = r.id) /\ Timely(r) => Replayed(r)

(* The network has delivered the request more than once. *)
Repeated(r) == \E c, d \in Copies : c /= d /\ {<<r, c>>, <<r, d>>} \subseteq arrived

(* This delivery was made, and no handler of it is left. *)
Over(r, c) == <<r, c>> \in arrived /\ \A h \in pending : h.req = r => h.copy /= c

(* What the partner takes for "provably not processed" was not processed,  *)
(* by this delivery: at most by another one of the same request.           *)
CleanMeansNothing ==
    answer /= None
    /\ answer.code \in {"RATE_LIMITED", "PARTNER_API_DISABLED", "DOWNSTREAM_UNAVAILABLE",
                        "PARTNER_PERSISTENCE_FAILED"}
    /\ (\E entry \in receipts : entry.request = answer.req.id)
        => Repeated(answer.req)

Creates == {r \in Requests : r.kind = "create"}
InFlight(r) == \E h \in pending : h.req = r

(* REVOKED is terminal as soon as no delivery of the create waits for the  *)
(* downstream: whatever the network repeats, an activation that is on      *)
(* record gets no further handler, and once it is revoked it stays so.     *)
RevocationSettles ==
    [][\A r \in Creates :
          activations[r.id] /= None /\ ~InFlight(r) =>
              /\ ~InFlight(r)'
              /\ activations[r.id].status = "REVOKED" =>
                     activations'[r.id].status = "REVOKED"]_serverVars

(* server.ts:255-257: "a REVOKED activation cannot be reactivated".  False *)
(* of a create whose second delivery passed the nonce check while the      *)
(* first one was waiting.                                                  *)
RevocationSticks ==
    \A entry \in receipts :
        entry.operation = "revoke" => activations[entry.activation].status = "REVOKED"

=============================================================================
