------------------------ MODULE LawShieldGateway_proofs ------------------------
(***************************************************************************)
(* Proofs about the durable processor and the gateway in front of it, for  *)
(* every value of their constants.  First the processor alone: IInv is its *)
(* inductive invariant, the types and the conditions that tie the five     *)
(* collections of the store to one another.  Then the gateway: a step of   *)
(* the two together is a step of the processor or leaves it alone, so      *)
(* everything proved of the processor holds here; what the gateway adds is *)
(* that its receipts are true and that forgetting a nonce is harmless.     *)
(***************************************************************************)
EXTENDS LawShieldGateway, TLAPS

USE DEF procVars, registries, directory

-----------------------------------------------------------------------------
(* Facts about the values the transactions write *)

LEMMA AnswerType ==
  ASSUME NEW e \in Requests,
         NEW kind \in {"ACCEPTED", "DUPLICATE", "REJECTED", "QUARANTINED",
                       "ERROR", "FAULT", "DISABLED"},
         NEW receipt \in Receipt \cup {None}
  PROVE  Answer(e, kind, receipt) \in Reply
BY EnvelopeAssumption DEF Answer, Reply, Envelope

LEMMA RegisteredType ==
  ASSUME TypeOK, NEW e \in Requests, NEW n \in Nonces
  PROVE  Registered(e, n) \in [Nonces -> NonceRecord \cup {None}]
<1>1. e.transfer \in Transfers
  BY EnvelopeAssumption DEF Envelope
<1>2. [at |-> now, transfer |-> e.transfer] \in NonceRecord
  BY <1>1 DEF TypeOK, NonceRecord
<1>3. QED
  BY <1>2 DEF TypeOK, Registered

LEMMA CreatedType ==
  ASSUME TypeOK, NEW e \in Requests, NEW id \in DurableIds, NEW s \in Outcomes
  PROVE  Created(id, e, s) \in [DurableIds -> Record \cup {None}]
<1>1. e \in Envelope
  BY EnvelopeAssumption
<1>2. [key |-> e.key, payload |-> e.payload, status |-> s,
       authorizer |-> e.authorizer, org |-> e.org, dest |-> e.dest,
       incident |-> e.incident] \in Record
  BY <1>1 DEF Envelope, Record
<1>3. QED
  BY <1>2 DEF TypeOK, Created

LEMMA BusinessOutcomeType ==
  ASSUME NEW e PROVE BusinessOutcome(e) \in Outcomes
BY DEF BusinessOutcome, Outcomes

LEMMA BindType ==
  ASSUME TypeOK, NEW e \in Requests, NEW s \in Outcomes
  PROVE  Bind(e, s) \in [Keys -> Binding \cup {None}]
<1>1. e \in Envelope
  BY EnvelopeAssumption
<1>2. [transfer |-> e.transfer, payload |-> e.payload, outcome |-> s] \in Binding
  BY <1>1 DEF Envelope, Binding
<1>3. QED
  BY <1>2 DEF TypeOK, Bind

LEMMA AuditedType ==
  ASSUME TypeOK, NEW e \in Requests, NEW id \in DurableIds, NEW s \in Outcomes
  PROVE  Audited(s, id, e) \subseteq Decision
<1>1. e \in Envelope
  BY EnvelopeAssumption
<1>2. [event |-> s, transfer |-> id, key |-> e.key] \in Decision
  BY <1>1 DEF Envelope, Decision
<1>3. QED
  BY <1>2 DEF TypeOK, Audited

LEMMA ReceiptOfType ==
  ASSUME TypeOK, NEW e \in Requests
  PROVE  ReceiptOf(e) \in Receipt
<1>1. e \in Envelope
  BY EnvelopeAssumption
<1>2. [key |-> e.key, payload |-> e.payload, acceptedAt |-> now] \in Receipt
  BY <1>1 DEF Envelope, Receipt, TypeOK
<1>3. QED
  BY <1>1, <1>2 DEF TypeOK, ReceiptOf, Envelope

LEMMA EnvelopeIds ==
  ASSUME NEW e \in Requests
  PROVE  /\ e.transfer \in Transfers
         /\ e.transfer \in DurableIds
         /\ ConflictId(e.transfer) \in DurableIds
         /\ ConflictId(e.transfer) \notin Transfers
         /\ e.key \in Keys
         /\ e.payload \in Payloads
BY EnvelopeAssumption, ConflictIdAssumption DEF Envelope, DurableIds

-----------------------------------------------------------------------------
(* Type correctness *)

LEMMA DeliverType ==
  ASSUME TypeOK, NEW e \in Requests, NEW n \in Nonces, Process(e, n)
  PROVE  TypeOK'
<1> USE EnvelopeIds
<1>1. Outcomes = {"ACCEPTED", "REJECTED", "QUARANTINED"}
  BY DEF Outcomes
<1>2. UNCHANGED <<now, disabled, directory>>
  BY DEF Process
<1>3. CASE Unavailable(e, n) \/ RejectEnvelope(e, n) \/ RejectReplay(e, n)
           \/ FailTransaction(e, n) \/ BadRequest(e, n)
  <2>1. UNCHANGED registries
    BY <1>3 DEF Unavailable, RejectEnvelope, RejectReplay, FailTransaction,
                BadRequest, RolledBack
  <2>2. reply' \in Reply
    BY <1>3, AnswerType DEF Unavailable, RejectEnvelope, RejectReplay,
                            FailTransaction, BadRequest
  <2>3. QED
    BY <1>2, <2>1, <2>2 DEF TypeOK
<1>4. CASE QuarantineConflict(e, n)
  <2>1. nonces' \in [Nonces -> NonceRecord \cup {None}]
    BY <1>4, RegisteredType DEF QuarantineConflict
  <2>2. transfers' \in [DurableIds -> Record \cup {None}]
    <3>1. Created(ConflictId(e.transfer), e, "QUARANTINED")
             \in [DurableIds -> Record \cup {None}]
      BY <1>1, CreatedType
    <3>2. QED
      BY <1>4, <3>1 DEF QuarantineConflict, TypeOK
  <2>3. audit' \subseteq Decision
    BY <1>1, <1>4, AuditedType DEF QuarantineConflict
  <2>4. reply' \in Reply
    BY <1>4, AnswerType DEF QuarantineConflict
  <2>5. QED
    BY <1>2, <1>4, <2>1, <2>2, <2>3, <2>4 DEF TypeOK, QuarantineConflict
<1>5. CASE CollapseDuplicate(e, n)
  <2>1. nonces' \in [Nonces -> NonceRecord \cup {None}]
    BY <1>5, RegisteredType DEF CollapseDuplicate
  <2>2. reply' \in Reply
    <3>1. receipts[e.transfer] \in Receipt \cup {None}
      BY DEF TypeOK
    <3>2. QED
      BY <1>5, <3>1, AnswerType DEF CollapseDuplicate
  <2>3. QED
    BY <1>2, <1>5, <2>1, <2>2 DEF TypeOK, CollapseDuplicate
<1>6. CASE RecordRefusal(e, n)
  <2>1. nonces' \in [Nonces -> NonceRecord \cup {None}]
    BY <1>6, RegisteredType DEF RecordRefusal
  <2>2. transfers' \in [DurableIds -> Record \cup {None}]
    BY <1>6, CreatedType, BusinessOutcomeType DEF RecordRefusal
  <2>3. idempotency' \in [Keys -> Binding \cup {None}]
    BY <1>6, BindType, BusinessOutcomeType DEF RecordRefusal
  <2>4. audit' \subseteq Decision
    BY <1>6, AuditedType, BusinessOutcomeType DEF RecordRefusal
  <2>5. reply' \in Reply
    BY <1>1, <1>6, AnswerType, BusinessOutcomeType DEF RecordRefusal
  <2>6. QED
    BY <1>2, <1>6, <2>1, <2>2, <2>3, <2>4, <2>5 DEF TypeOK, RecordRefusal
<1>7. CASE Accept(e, n)
  <2>1. nonces' \in [Nonces -> NonceRecord \cup {None}]
    BY <1>7, RegisteredType DEF Accept
  <2>2. transfers' \in [DurableIds -> Record \cup {None}]
    BY <1>1, <1>7, CreatedType DEF Accept
  <2>3. idempotency' \in [Keys -> Binding \cup {None}]
    BY <1>1, <1>7, BindType DEF Accept
  <2>4. audit' \subseteq Decision
    BY <1>1, <1>7, AuditedType DEF Accept
  <2>5. reply' \in Reply
    BY <1>7, AnswerType, ReceiptOfType DEF Accept
  <2>6. receipts' \in [Transfers -> Receipt \cup {None}]
    BY <1>7, ReceiptOfType DEF Accept, TypeOK
  <2>7. QED
    BY <1>2, <1>7, <2>1, <2>2, <2>3, <2>4, <2>5, <2>6 DEF TypeOK, Accept
<1>8. QED
  BY <1>3, <1>4, <1>5, <1>6, <1>7 DEF Process, Deliver

LEMMA DirectoryType ==
  ASSUME TypeOK, ChangeDirectory
  PROVE  TypeOK'
<1>1. orgMappings' \in [ArmaOrgs -> Mapping \cup {None}]
  <2>1. ASSUME NEW o \in ArmaOrgs, NEW d \in LawShieldOrgs, UpsertOrgMapping(o, d)
        PROVE  orgMappings' \in [ArmaOrgs -> Mapping \cup {None}]
    <3>1. [org |-> d, active |-> TRUE] \in Mapping
      BY DEF Mapping
    <3>2. QED
      BY <2>1, <3>1 DEF UpsertOrgMapping, TypeOK
  <2>2. ASSUME NEW o \in ArmaOrgs, DeactivateOrgMapping(o)
        PROVE  orgMappings' \in [ArmaOrgs -> Mapping \cup {None}]
    <3>1. [orgMappings[o] EXCEPT !.active = FALSE] \in Mapping
      BY <2>2 DEF DeactivateOrgMapping, TypeOK, Mapping
    <3>2. orgMappings' = [orgMappings EXCEPT ![o] = [orgMappings[o] EXCEPT !.active = FALSE]]
      BY <2>2 DEF DeactivateOrgMapping
    <3>3. QED
      BY <3>1, <3>2 DEF TypeOK
  <2>3. QED
    BY <2>1, <2>2 DEF ChangeDirectory, UpsertCaseMapping, DeactivateCaseMapping,
                      UpsertAuthorizer, DeactivateAuthorizer, TypeOK
<1>2. caseMappings' \in [ArmaOrgs \X Incidents -> CaseMapping \cup {None}]
  <2>1. ASSUME NEW o \in ArmaOrgs, NEW i \in Incidents, NEW d \in LawShieldOrgs,
               NEW c \in Cases, UpsertCaseMapping(o, i, d, c)
        PROVE  caseMappings' \in [ArmaOrgs \X Incidents -> CaseMapping \cup {None}]
    <3>1. [org |-> d, case |-> c, active |-> TRUE] \in CaseMapping
      BY DEF CaseMapping
    <3>2. QED
      BY <2>1, <3>1 DEF UpsertCaseMapping, TypeOK
  <2>2. ASSUME NEW o \in ArmaOrgs, NEW i \in Incidents, DeactivateCaseMapping(o, i)
        PROVE  caseMappings' \in [ArmaOrgs \X Incidents -> CaseMapping \cup {None}]
    <3>1. [caseMappings[<<o, i>>] EXCEPT !.active = FALSE] \in CaseMapping
      BY <2>2 DEF DeactivateCaseMapping, TypeOK, CaseMapping
    <3>2. caseMappings' = [caseMappings EXCEPT ![<<o, i>>] =
                              [caseMappings[<<o, i>>] EXCEPT !.active = FALSE]]
      BY <2>2 DEF DeactivateCaseMapping
    <3>3. QED
      BY <3>1, <3>2 DEF TypeOK
  <2>3. QED
    BY <2>1, <2>2 DEF ChangeDirectory, UpsertOrgMapping, DeactivateOrgMapping,
                      UpsertAuthorizer, DeactivateAuthorizer, TypeOK
<1>3. authorizers' \in [Users -> Authorizer \cup {None}]
  <2>1. ASSUME NEW u \in Users, NEW o \in ArmaOrgs, UpsertAuthorizer(u, o)
        PROVE  authorizers' \in [Users -> Authorizer \cup {None}]
    <3>1. [org |-> o, active |-> TRUE] \in Authorizer
      BY DEF Authorizer
    <3>2. QED
      BY <2>1, <3>1 DEF UpsertAuthorizer, TypeOK
  <2>2. ASSUME NEW u \in Users, DeactivateAuthorizer(u)
        PROVE  authorizers' \in [Users -> Authorizer \cup {None}]
    <3>1. [authorizers[u] EXCEPT !.active = FALSE] \in Authorizer
      BY <2>2 DEF DeactivateAuthorizer, TypeOK, Authorizer
    <3>2. authorizers' = [authorizers EXCEPT ![u] = [authorizers[u] EXCEPT !.active = FALSE]]
      BY <2>2 DEF DeactivateAuthorizer
    <3>3. QED
      BY <3>1, <3>2 DEF TypeOK
  <2>3. QED
    BY <2>1, <2>2 DEF ChangeDirectory, UpsertOrgMapping, DeactivateOrgMapping,
                      UpsertCaseMapping, DeactivateCaseMapping, TypeOK
<1>4. QED
  BY <1>1, <1>2, <1>3 DEF ChangeDirectory, TypeOK

LEMMA NextType ==
  ASSUME TypeOK, [Next]_procVars
  PROVE  TypeOK'
<1>1. CASE \E e \in Requests, n \in Nonces : Process(e, n)
  BY <1>1, DeliverType
<1>2. CASE ChangeDirectory
  BY <1>2, DirectoryType
<1>3. CASE SwitchProcessor
  BY <1>3 DEF SwitchProcessor, TypeOK
<1>4. CASE Tick
  BY <1>4 DEF Tick, TypeOK
<1>5. CASE UNCHANGED procVars
  BY <1>5 DEF TypeOK
<1>6. QED
  BY <1>1, <1>2, <1>3, <1>4, <1>5 DEF Next

LEMMA InitType == Init => TypeOK
<1> SUFFICES ASSUME Init PROVE TypeOK
  OBVIOUS
<1>1. now \in Int
  BY DEF Init
<1>5. disabled \in BOOLEAN
  BY Zenon DEF Init
<1>6. audit \subseteq Decision /\ reply \in Reply \cup {None}
  BY DEF Init
<1>2. /\ orgMappings \in [ArmaOrgs -> Mapping \cup {None}]
      /\ caseMappings \in [ArmaOrgs \X Incidents -> CaseMapping \cup {None}]
      /\ authorizers \in [Users -> Authorizer \cup {None}]
  BY SeedAssumption DEF Init, Directory
<1>3. /\ nonces \in [Nonces -> NonceRecord \cup {None}]
      /\ idempotency \in [Keys -> Binding \cup {None}]
      /\ transfers \in [DurableIds -> Record \cup {None}]
      /\ receipts \in [Transfers -> Receipt \cup {None}]
  BY DEF Init
<1>4. QED
  BY <1>1, <1>2, <1>3, <1>5, <1>6 DEF TypeOK

(* The collections of the durable store and the answer of the handler keep *)
(* their types, whatever is delivered.                                     *)
THEOREM TypeCorrect == Spec => []TypeOK
<1>1. TypeOK /\ [Next]_procVars => TypeOK'
  BY NextType
<1>2. QED
  BY InitType, <1>1, PTL DEF Spec

-----------------------------------------------------------------------------
(* Integrity of the store *)

Integrity ==
    BindingsBacked /\ ReceiptsJustified /\ StatusConsistent /\ NoncesDecided

IInv == TypeOK /\ Integrity

(* createDurableTransfer, when its guard lets it through: the record of the *)
(* id has the payload and the status asked for, and no other record moves. *)
LEMMA CreatedFacts ==
  ASSUME TypeOK, NEW e \in Requests, NEW id \in DurableIds, NEW s \in Outcomes,
         Creatable(id, e, s)
  PROVE  /\ Created(id, e, s)[id] /= None
         /\ Created(id, e, s)[id].status = s
         /\ Created(id, e, s)[id].payload = e.payload
         /\ transfers[id] = None => Created(id, e, s)[id].key = e.key
         /\ transfers[id] /= None => Created(id, e, s)[id] = transfers[id]
         /\ \A d \in DurableIds \ {id} : Created(id, e, s)[d] = transfers[d]
<1>1. e \in Envelope
  BY EnvelopeAssumption
<1> DEFINE r == [key |-> e.key, payload |-> e.payload, status |-> s,
                 authorizer |-> e.authorizer, org |-> e.org, dest |-> e.dest,
                 incident |-> e.incident]
<1>2. r \in Record /\ r /= None
  BY <1>1, NoneAssumption DEF Envelope, Record
<1>3. CASE transfers[id] = None
  <2>1. Created(id, e, s) = [transfers EXCEPT ![id] = r]
    BY <1>3 DEF Created
  <2>2. r.status = s /\ r.payload = e.payload /\ r.key = e.key
    OBVIOUS
  <2> HIDE DEF r
  <2>3. QED
    BY <1>2, <1>3, <2>1, <2>2 DEF TypeOK
<1>4. CASE transfers[id] /= None
  <2>1. Created(id, e, s) = transfers
    BY <1>4 DEF Created
  <2>2. QED
    BY <1>4, <2>1 DEF Creatable
<1>5. QED
  BY <1>3, <1>4

(* The steps that answer without a transaction, or whose transaction was   *)
(* rolled back, and the steps of the environment.                          *)
LEMMA IntegrityFrame ==
  ASSUME IInv, UNCHANGED registries
  PROVE  Integrity'
BY DEF IInv, Integrity, BindingsBacked, ReceiptsJustified, StatusConsistent,
       NoncesDecided, Accepted

(* A nonce enters the registry only together with a decision about the     *)
(* transfer it came with.                                                  *)
LEMMA NoncesPreserved ==
  ASSUME IInv, NEW e \in Requests, NEW n \in Nonces,
         nonces' = Registered(e, n),
         audit \subseteq audit',
         \E d \in audit' : d.transfer \in {e.transfer, ConflictId(e.transfer)}
  PROVE  NoncesDecided'
<1> SUFFICES ASSUME NEW m \in Nonces, nonces'[m] /= None
             PROVE  \E d \in audit' : d.transfer \in
                        {nonces'[m].transfer, ConflictId(nonces'[m].transfer)}
  BY DEF NoncesDecided
<1>1. CASE m = n
  <2>1. nonces'[m].transfer = e.transfer
    BY <1>1 DEF Registered
  <2>2. QED
    BY <2>1
<1>2. CASE m /= n
  <2>1. nonces'[m] = nonces[m]
    BY <1>2 DEF Registered
  <2>2. QED
    BY <2>1 DEF IInv, Integrity, NoncesDecided
<1>3. QED
  BY <1>1, <1>2

(* The registry and the receipts cannot diverge, so the handler's own      *)
(* check for it never fires.                                               *)
LEMMA NeverDiverged ==
  ASSUME IInv, NEW e \in Requests
  PROVE  ~Diverged(e)
BY EnvelopeIds DEF IInv, Integrity, BindingsBacked, Diverged, Bound, ExactDuplicate

LEMMA QuarantineIntegrity ==
  ASSUME IInv, NEW e \in Requests, NEW n \in Nonces, QuarantineConflict(e, n)
  PROVE  Integrity'
<1> USE EnvelopeIds
<1> DEFINE c == ConflictId(e.transfer)
<1>1. /\ UNCHANGED <<idempotency, receipts>>
      /\ audit \subseteq audit'
      /\ \E d \in audit' : d.transfer \in {e.transfer, c}
  <2>1. PICK id \in {e.transfer, c} : audit' = Audited("QUARANTINED", id, e)
    BY DEF QuarantineConflict
  <2>2. [event |-> "QUARANTINED", transfer |-> id, key |-> e.key] \in audit'
    BY <2>1 DEF Audited
  <2>3. \E d \in audit' : d.transfer \in {e.transfer, c}
    BY <2>2
  <2>4. audit \subseteq audit'
    BY <2>1 DEF Audited
  <2>5. QED
    BY <2>3, <2>4 DEF QuarantineConflict
<1>2. \A t \in Transfers : transfers'[t] = transfers[t]
  <2>1. CASE UNCHANGED transfers
    BY <2>1
  <2>2. CASE transfers' = Created(c, e, "QUARANTINED")
    <3>1. CASE transfers[c] /= None
      BY <2>2, <3>1 DEF Created
    <3>2. CASE transfers[c] = None
      BY <2>2, <3>2 DEF Created, IInv, TypeOK, DurableIds
    <3>3. QED
      BY <3>1, <3>2
  <2>3. QED
    BY <2>1, <2>2 DEF QuarantineConflict
<1>3. NoncesDecided'
  BY <1>1, NoncesPreserved DEF QuarantineConflict
<1>4. \A k \in Keys : idempotency[k] /= None => idempotency[k].transfer \in Transfers
  BY DEF IInv, TypeOK, Binding
<1> HIDE DEF c
<1>5. BindingsBacked'
  BY <1>1, <1>2, <1>4 DEF IInv, Integrity, BindingsBacked
<1>6. ReceiptsJustified'
  BY <1>1, <1>2 DEF IInv, Integrity, ReceiptsJustified, Accepted
<1>7. StatusConsistent'
  BY <1>1, <1>2 DEF IInv, Integrity, StatusConsistent
<1>8. QED
  BY <1>3, <1>5, <1>6, <1>7 DEF Integrity

LEMMA CollapseIntegrity ==
  ASSUME IInv, NEW e \in Requests, NEW n \in Nonces, CollapseDuplicate(e, n)
  PROVE  Integrity'
<1> USE EnvelopeIds
<1>1. UNCHANGED <<idempotency, transfers, receipts, audit>>
  BY DEF CollapseDuplicate
<1>2. \E d \in audit : d.transfer = e.transfer
  <2>1. /\ idempotency[e.key] /= None
        /\ idempotency[e.key].transfer = e.transfer
    BY DEF CollapseDuplicate, Bound, ExactDuplicate
  <2>2. [event |-> idempotency[e.key].outcome, transfer |-> e.transfer,
         key |-> e.key] \in audit
    BY <2>1 DEF IInv, Integrity, BindingsBacked
  <2>3. QED
    BY <2>2
<1>3. NoncesDecided'
  BY <1>1, <1>2, NoncesPreserved DEF CollapseDuplicate
<1>4. BindingsBacked' /\ ReceiptsJustified' /\ StatusConsistent'
  BY <1>1 DEF IInv, Integrity, BindingsBacked, ReceiptsJustified,
              StatusConsistent, Accepted
<1>5. QED
  BY <1>3, <1>4 DEF Integrity

(* A first delivery decided as s: the transfer, its binding and its audit  *)
(* event are written together, and the receipt when s is an acceptance.    *)
LEMMA DecisionIntegrity ==
  ASSUME IInv, NEW e \in Requests, NEW n \in Nonces, NEW s \in Outcomes,
         ~Bound(e),
         Creatable(e.transfer, e, s),
         nonces' = Registered(e, n),
         transfers' = Created(e.transfer, e, s),
         idempotency' = Bind(e, s),
         audit' = Audited(s, e.transfer, e),
         IF s = "ACCEPTED"
         THEN receipts' = [receipts EXCEPT ![e.transfer] = ReceiptOf(e)]
         ELSE UNCHANGED receipts
  PROVE  Integrity'
<1> USE EnvelopeIds
<1> DEFINE t0 == e.transfer
           k0 == e.key
<1>0. TypeOK
  BY DEF IInv
<1>1. /\ transfers'[t0] /= None
      /\ transfers'[t0].status = s
      /\ transfers'[t0].payload = e.payload
      /\ transfers[t0] = None => transfers'[t0].key = k0
      /\ transfers[t0] /= None => transfers'[t0] = transfers[t0]
      /\ \A d \in DurableIds \ {t0} : transfers'[d] = transfers[d]
  BY <1>0, CreatedFacts
<1>2. /\ idempotency'[k0] = [transfer |-> t0, payload |-> e.payload, outcome |-> s]
      /\ idempotency'[k0] /= None
      /\ \A k \in Keys \ {k0} : idempotency'[k] = idempotency[k]
  <2>1. [transfer |-> t0, payload |-> e.payload, outcome |-> s] \in Binding
    BY DEF Binding
  <2>2. QED
    BY <1>0, <2>1, NoneAssumption DEF Bind, TypeOK
<1>3. idempotency[k0] = None
  BY DEF Bound
<1>4. /\ audit \subseteq audit'
      /\ [event |-> s, transfer |-> t0, key |-> k0] \in audit'
  BY DEF Audited
<1>5. /\ \A t \in Transfers \ {t0} : receipts'[t] = receipts[t]
      /\ receipts[t0] /= None => receipts'[t0] = receipts[t0]
      /\ s = "ACCEPTED" => receipts'[t0] /= None
      /\ s = "ACCEPTED" /\ receipts[t0] = None =>
            receipts'[t0].key = k0 /\ receipts'[t0].payload = e.payload
      /\ s /= "ACCEPTED" => receipts'[t0] = receipts[t0]
  <2>1. CASE s = "ACCEPTED"
    <3>1. receipts'[t0] = ReceiptOf(e)
      BY <1>0, <2>1 DEF TypeOK
    <3>2. ReceiptOf(e) /= None
      BY <1>0, ReceiptOfType, NoneAssumption
    <3>3. \A t \in Transfers \ {t0} : receipts'[t] = receipts[t]
      BY <1>0, <2>1 DEF TypeOK
    <3>4. QED
      BY <2>1, <3>1, <3>2, <3>3 DEF ReceiptOf
  <2>2. CASE s /= "ACCEPTED"
    BY <2>2
  <2>3. QED
    BY <2>1, <2>2
<1> HIDE DEF t0, k0
<1>6. t0 \in Transfers /\ t0 \in DurableIds /\ k0 \in Keys
  BY DEF t0, k0
<1>7. /\ \A k \in Keys : idempotency[k] /= None => idempotency[k].transfer \in DurableIds
      /\ \A k \in Keys : idempotency[k] /= None => idempotency[k].transfer \in Transfers
      /\ \A t \in Transfers : t \in DurableIds
  BY <1>0 DEF TypeOK, Binding, DurableIds
<1>8. BindingsBacked'
  <2> SUFFICES ASSUME NEW k \in Keys, idempotency'[k] /= None
               PROVE  LET b == idempotency'[k] IN
                      /\ transfers'[b.transfer] /= None
                      /\ transfers'[b.transfer].status = b.outcome
                      /\ transfers'[b.transfer].payload = b.payload
                      /\ [event |-> b.outcome, transfer |-> b.transfer, key |-> k] \in audit'
                      /\ b.outcome = "ACCEPTED" => receipts'[b.transfer] /= None
    BY DEF BindingsBacked
  <2>1. CASE k = k0
    BY <1>1, <1>2, <1>4, <1>5, <2>1
  <2>2. CASE k /= k0
    <3> DEFINE b == idempotency[k]
    <3>1. idempotency'[k] = b /\ b /= None
      BY <1>2, <2>2
    <3> HIDE DEF b
    <3>2. /\ transfers[b.transfer] /= None
          /\ transfers[b.transfer].status = b.outcome
          /\ transfers[b.transfer].payload = b.payload
          /\ [event |-> b.outcome, transfer |-> b.transfer, key |-> k] \in audit
          /\ b.outcome = "ACCEPTED" => receipts[b.transfer] /= None
      BY <3>1 DEF IInv, Integrity, BindingsBacked, b
    <3>3. b.transfer \in Transfers /\ b.transfer \in DurableIds
      BY <1>7, <3>1 DEF b
    <3>4. transfers'[b.transfer] = transfers[b.transfer]
      BY <1>1, <3>2, <3>3
    <3>5. receipts[b.transfer] /= None => receipts'[b.transfer] /= None
      BY <1>5, <3>3
    <3>6. QED
      BY <1>4, <3>1, <3>2, <3>4, <3>5
  <2>3. QED
    BY <2>1, <2>2
<1>9. ReceiptsJustified'
  <2> SUFFICES ASSUME NEW t \in Transfers
               PROVE  /\ receipts'[t] /= None <=> Accepted(t)'
                      /\ receipts'[t] /= None =>
                            LET k == receipts'[t].key IN
                            /\ receipts'[t].payload = transfers'[t].payload
                            /\ idempotency'[k] /= None
                            /\ idempotency'[k].transfer = t
                            /\ idempotency'[k].outcome = "ACCEPTED"
    BY DEF ReceiptsJustified
  <2>0. /\ receipts[t] /= None <=> transfers[t] /= None /\ transfers[t].status = "ACCEPTED"
        /\ receipts[t] /= None =>
              /\ receipts[t].payload = transfers[t].payload
              /\ idempotency[receipts[t].key] /= None
              /\ idempotency[receipts[t].key].transfer = t
              /\ idempotency[receipts[t].key].outcome = "ACCEPTED"
    BY DEF IInv, Integrity, ReceiptsJustified, Accepted
  <2>1. receipts[t] /= None => receipts[t].key \in Keys \ {k0}
    BY <1>0, <1>3, <2>0 DEF TypeOK, Receipt
  <2>2. CASE t /= t0
    BY <1>1, <1>2, <1>5, <1>7, <2>0, <2>1, <2>2 DEF Accepted
  <2>3. CASE t = t0 /\ receipts[t0] /= None
    BY <1>1, <1>2, <1>5, <2>0, <2>1, <2>3 DEF Accepted
  <2>4. CASE t = t0 /\ receipts[t0] = None /\ s = "ACCEPTED"
    <3>1. idempotency'[k0].transfer = t0 /\ idempotency'[k0].outcome = "ACCEPTED"
      BY <1>2, <2>4
    <3>2. QED
      BY <1>1, <1>2, <1>5, <2>4, <3>1 DEF Accepted
  <2>5. CASE t = t0 /\ receipts[t0] = None /\ s /= "ACCEPTED"
    BY <1>1, <1>5, <2>5 DEF Accepted
  <2>6. QED
    BY <2>2, <2>3, <2>4, <2>5
<1>10. StatusConsistent'
  <2> SUFFICES ASSUME NEW t \in Transfers, transfers'[t] /= None
               PROVE  LET k == transfers'[t].key IN
                      /\ idempotency'[k] /= None
                      /\ idempotency'[k].transfer = t
                      /\ idempotency'[k].outcome = transfers'[t].status
    BY DEF StatusConsistent
  <2>1. CASE transfers[t] /= None
    <3>1. transfers'[t] = transfers[t]
      BY <1>1, <1>7, <2>1
    <3>2. /\ idempotency[transfers[t].key] /= None
          /\ idempotency[transfers[t].key].transfer = t
          /\ idempotency[transfers[t].key].outcome = transfers[t].status
      BY <2>1 DEF IInv, Integrity, StatusConsistent
    <3>3. transfers[t].key \in Keys \ {k0}
      BY <1>0, <1>3, <1>7, <2>1, <3>2 DEF TypeOK, Record
    <3>4. QED
      BY <1>2, <3>1, <3>2, <3>3
  <2>2. CASE transfers[t] = None
    <3>1. t = t0
      BY <1>1, <1>7, <2>2
    <3>2. transfers'[t].key = k0 /\ transfers'[t].status = s
      BY <1>1, <2>2, <3>1
    <3>3. QED
      BY <1>2, <3>1, <3>2
  <2>3. QED
    BY <2>1, <2>2
<1>11. NoncesDecided'
  <2>1. \E d \in audit' : d.transfer \in {e.transfer, ConflictId(e.transfer)}
    BY <1>4 DEF t0
  <2>2. QED
    BY <1>4, <2>1, NoncesPreserved
<1>12. QED
  BY <1>8, <1>9, <1>10, <1>11 DEF Integrity

LEMMA RefusalIntegrity ==
  ASSUME IInv, NEW e \in Requests, NEW n \in Nonces, RecordRefusal(e, n)
  PROVE  Integrity'
<1>1. BusinessOutcome(e) \in Outcomes /\ BusinessOutcome(e) /= "ACCEPTED"
  BY BusinessOutcomeType DEF RecordRefusal
<1>2. ~Bound(e) /\ Creatable(e.transfer, e, BusinessOutcome(e))
  BY DEF RecordRefusal, Refused, Conflicting, Diverged
<1>3. QED
  BY <1>1, <1>2, DecisionIntegrity DEF RecordRefusal

LEMMA AcceptIntegrity ==
  ASSUME IInv, NEW e \in Requests, NEW n \in Nonces, Accept(e, n)
  PROVE  Integrity'
<1>1. "ACCEPTED" \in Outcomes
  BY DEF Outcomes
<1>2. ~Bound(e) /\ Creatable(e.transfer, e, "ACCEPTED")
  BY DEF Accept, Refused, Conflicting, Diverged
<1>3. QED
  BY <1>1, <1>2, DecisionIntegrity DEF Accept

LEMMA NextIntegrity ==
  ASSUME IInv, [Next]_procVars
  PROVE  Integrity'
<1>1. ASSUME NEW e \in Requests, NEW n \in Nonces, Process(e, n)
      PROVE  Integrity'
  <2>1. CASE Unavailable(e, n) \/ RejectEnvelope(e, n) \/ RejectReplay(e, n)
             \/ FailTransaction(e, n) \/ BadRequest(e, n)
    <3>1. UNCHANGED registries
      BY <2>1 DEF Unavailable, RejectEnvelope, RejectReplay, FailTransaction,
                  BadRequest, RolledBack
    <3>2. QED
      BY <3>1, IntegrityFrame
  <2>2. CASE QuarantineConflict(e, n)
    BY <2>2, QuarantineIntegrity
  <2>3. CASE CollapseDuplicate(e, n)
    BY <2>3, CollapseIntegrity
  <2>4. CASE RecordRefusal(e, n)
    BY <2>4, RefusalIntegrity
  <2>5. CASE Accept(e, n)
    BY <2>5, AcceptIntegrity
  <2>6. QED
    BY <1>1, <2>1, <2>2, <2>3, <2>4, <2>5 DEF Process, Deliver
<1>2. CASE ChangeDirectory
  BY <1>2, IntegrityFrame DEF ChangeDirectory
<1>3. CASE SwitchProcessor
  BY <1>3, IntegrityFrame DEF SwitchProcessor
<1>4. CASE Tick
  BY <1>4, IntegrityFrame DEF Tick
<1>5. CASE UNCHANGED procVars
  BY <1>5, IntegrityFrame
<1>6. QED
  BY <1>1, <1>2, <1>3, <1>4, <1>5 DEF Next

LEMMA InitIntegrity == Init => Integrity
BY DEF Init, Integrity, BindingsBacked, ReceiptsJustified, StatusConsistent,
       NoncesDecided, Accepted, DurableIds

THEOREM Invariance == Spec => []IInv
<1>1. Init => IInv
  BY InitType, InitIntegrity DEF IInv
<1>2. IInv /\ [Next]_procVars => IInv'
  BY NextType, NextIntegrity DEF IInv
<1>3. QED
  BY <1>1, <1>2, PTL DEF Spec

(* store.js's header, for every reachable state: what the idempotency      *)
(* registry says of a key is what the transfer, the receipt and the audit  *)
(* trail say, a receipt exists exactly for an accepted transfer, the       *)
(* status query reports one outcome for a transfer and its key, and a      *)
(* nonce is consumed only by a decision.                                   *)
THEOREM RegistryIntegrity == Spec => []RecordsAgree
<1>1. IInv => RecordsAgree
  BY DEF IInv, Integrity, RecordsAgree
<1>2. QED
  BY <1>1, Invariance, PTL

-----------------------------------------------------------------------------
(* Decisions are final and duplicates replay them *)

LEMMA CreatedKeeps ==
  ASSUME TypeOK, NEW e, NEW id \in DurableIds, NEW s
  PROVE  \A t \in DurableIds :
            transfers[t] /= None => Created(id, e, s)[t] = transfers[t]
BY DEF Created, TypeOK

LEMMA ProcessKeeps ==
  ASSUME IInv, NEW e \in Requests, NEW n \in Nonces, Process(e, n)
  PROVE  KeepsDecisions
<1> USE EnvelopeIds DEF KeepsDecisions
<1>0. TypeOK
  BY DEF IInv
<1>1. CASE UNCHANGED registries
  BY <1>1
<1>2. CASE QuarantineConflict(e, n)
  BY <1>0, <1>2, CreatedKeeps DEF QuarantineConflict, Audited
<1>3. CASE CollapseDuplicate(e, n)
  BY <1>3 DEF CollapseDuplicate
<1>4. CASE RecordRefusal(e, n)
  <2>1. \A k \in Keys : idempotency[k] /= None => idempotency'[k] = idempotency[k]
    BY <1>0, <1>4 DEF RecordRefusal, Bind, Bound, TypeOK
  <2>2. QED
    BY <1>0, <1>4, <2>1, CreatedKeeps DEF RecordRefusal, Audited
<1>5. CASE Accept(e, n)
  <2>1. \A k \in Keys : idempotency[k] /= None => idempotency'[k] = idempotency[k]
    BY <1>0, <1>5 DEF Accept, Bind, Bound, TypeOK
  <2>2. \A t \in Transfers : receipts[t] /= None => receipts'[t] = receipts[t]
    BY <1>0, <1>5 DEF Accept, ReceiptOf, TypeOK
  <2>3. QED
    BY <1>0, <1>5, <2>1, <2>2, CreatedKeeps DEF Accept, Audited
<1>6. QED
  BY <1>1, <1>2, <1>3, <1>4, <1>5 DEF Process, Deliver, Unavailable, BadRequest,
     RejectEnvelope, RejectReplay, FailTransaction, RolledBack

(* No step of the processor or of its environment rewrites a decision.     *)
THEOREM Finality == Spec => DecisionsFinal
<1>1. IInv /\ [Next]_procVars => [KeepsDecisions]_procVars
  <2> SUFFICES ASSUME IInv, Next PROVE KeepsDecisions
    OBVIOUS
  <2>1. CASE \E e \in Requests, n \in Nonces : Process(e, n)
    BY <2>1, ProcessKeeps
  <2>2. CASE ChangeDirectory \/ SwitchProcessor \/ Tick
    BY <2>2 DEF ChangeDirectory, SwitchProcessor, Tick, KeepsDecisions
  <2>3. QED
    BY <2>1, <2>2 DEF Next
<1>2. QED
  BY Invariance, <1>1, PTL DEF Spec, DecisionsFinal

LEMMA AnswerFields ==
  ASSUME NEW e \in Requests, NEW kind, NEW receipt
  PROVE  /\ Answer(e, kind, receipt).transfer = e.transfer
         /\ Answer(e, kind, receipt).key = e.key
         /\ Answer(e, kind, receipt).receipt = receipt
BY DEF Answer

LEMMA ProcessAnswers ==
  ASSUME IInv, NEW e \in Requests, NEW n \in Nonces, Process(e, n)
  PROVE  AnswersFromRecord
<1> USE EnvelopeIds, AnswerFields DEF AnswersFromRecord
<1>0. TypeOK
  BY DEF IInv
<1>1. CASE Unavailable(e, n) \/ RejectEnvelope(e, n) \/ RejectReplay(e, n)
           \/ FailTransaction(e, n) \/ BadRequest(e, n)
  <2>1. reply'.receipt = None
    BY <1>1 DEF Unavailable, RejectEnvelope, RejectReplay, FailTransaction, BadRequest
  <2>2. UNCHANGED registries
    BY <1>1 DEF Unavailable, RejectEnvelope, RejectReplay, FailTransaction,
                BadRequest, RolledBack
  <2>3. QED
    BY <2>1, <2>2
<1>2. CASE QuarantineConflict(e, n)
  <2>1. reply'.receipt = None /\ UNCHANGED <<idempotency, receipts>>
    BY <1>2 DEF QuarantineConflict
  <2>2. \A t \in Transfers : transfers'[t] = transfers[t]
    <3>1. \A t \in Transfers : Created(ConflictId(e.transfer), e, "QUARANTINED")[t] = transfers[t]
      BY <1>0 DEF Created, TypeOK, DurableIds
    <3>2. QED
      BY <1>2, <3>1 DEF QuarantineConflict
  <2>3. QED
    BY <2>1, <2>2
<1>3. CASE CollapseDuplicate(e, n)
  <2>1. UNCHANGED <<idempotency, transfers, receipts>>
    BY <1>3 DEF CollapseDuplicate
  <2>2. reply'.transfer = e.transfer /\ reply'.key = e.key
    BY <1>3 DEF CollapseDuplicate
  <2>3. reply'.receipt \in {receipts[e.transfer], None}
    BY <1>3 DEF CollapseDuplicate
  <2>4. idempotency[e.key].transfer = e.transfer
    BY <1>3 DEF CollapseDuplicate, ExactDuplicate
  <2>5. QED
    BY <2>1, <2>2, <2>3, <2>4
<1>4. CASE RecordRefusal(e, n)
  <2>1. reply'.receipt = None /\ reply'.key = e.key
    BY <1>4 DEF RecordRefusal
  <2>2. QED
    BY <1>4, <2>1 DEF RecordRefusal, Bound
<1>5. CASE Accept(e, n)
  <2>1. /\ reply'.receipt = ReceiptOf(e)
        /\ reply'.transfer = e.transfer
        /\ reply'.key = e.key
    BY <1>5 DEF Accept
  <2>2. receipts'[e.transfer] = ReceiptOf(e)
    BY <1>0, <1>5 DEF Accept, TypeOK
  <2>3. idempotency'[e.key].transfer = e.transfer
    BY <1>0, <1>5 DEF Accept, Bind, TypeOK
  <2>4. idempotency[e.key] = None
    BY <1>5 DEF Accept, Bound
  <2>5. QED
    BY <2>1, <2>2, <2>3, <2>4
<1>6. QED
  BY <1>1, <1>2, <1>3, <1>4, <1>5 DEF Process, Deliver

(* An accepted answer always carries the stored receipt, and an answer for *)
(* a bound key changes no decision.                                        *)
THEOREM DuplicatesCollapse == Spec => AnswersStable
<1>1. IInv /\ [Next]_procVars => [AnswersFromRecord]_procVars
  <2> SUFFICES ASSUME IInv, Next PROVE AnswersFromRecord
    OBVIOUS
  <2>1. CASE \E e \in Requests, n \in Nonces : Process(e, n)
    BY <2>1, ProcessAnswers
  <2>2. CASE ChangeDirectory \/ SwitchProcessor \/ Tick
    BY <2>2 DEF ChangeDirectory, SwitchProcessor, Tick, AnswersFromRecord
  <2>3. QED
    BY <2>1, <2>2 DEF Next
<1>2. QED
  BY Invariance, <1>1, PTL DEF Spec, AnswersStable

-----------------------------------------------------------------------------
(* Nothing is accepted for a tenant the directory does not lead to *)

LEMMA AcceptIsolates ==
  ASSUME IInv, NEW e \in Requests, NEW n \in Nonces, Accept(e, n)
  PROVE  AcceptsForMappedTenant
<1> USE EnvelopeIds
<1> SUFFICES ASSUME NEW t \in Transfers, Accepted(t)', ~Accepted(t)
             PROVE  LET r == transfers'[t] IN
                    /\ r.authorizer \notin AiActors
                    /\ authorizers[r.authorizer] = [org |-> r.org, active |-> TRUE]
                    /\ orgMappings[r.org] = [org |-> r.dest, active |-> TRUE]
                    /\ r.incident /= None =>
                          /\ caseMappings[<<r.org, r.incident>>].active
                          /\ caseMappings[<<r.org, r.incident>>].org = r.dest
  BY DEF AcceptsForMappedTenant
<1>0. TypeOK /\ e \in Envelope
  BY EnvelopeAssumption DEF IInv
<1>1. t \in DurableIds /\ transfers' = Created(e.transfer, e, "ACCEPTED")
  BY DEF Accept, DurableIds
<1>2. t = e.transfer /\ transfers[t] = None
  <2>1. transfers[t] /= None => transfers'[t] = transfers[t]
    BY <1>0, <1>1, CreatedKeeps
  <2>2. transfers[t] = None
    BY <2>1 DEF Accepted
  <2>3. t /= e.transfer => transfers'[t] = transfers[t]
    BY <1>0, <1>1 DEF Created, TypeOK
  <2>4. QED
    BY <2>2, <2>3 DEF Accepted
<1>3. /\ transfers'[t].authorizer = e.authorizer
      /\ transfers'[t].org = e.org
      /\ transfers'[t].dest = e.dest
      /\ transfers'[t].incident = e.incident
  BY <1>0, <1>1, <1>2 DEF Created, TypeOK
<1>4. DirectoryAllows(e) /\ e.authorizer \notin AiActors
  BY DEF Accept, Admitted, ValidEnvelope, BusinessOutcome
<1>5. authorizers[e.authorizer] = [org |-> e.org, active |-> TRUE]
  BY <1>0, <1>4 DEF DirectoryAllows, AuthorizerAllowed, TypeOK, Authorizer, Envelope
<1>6. orgMappings[e.org] = [org |-> e.dest, active |-> TRUE]
  BY <1>0, <1>4 DEF DirectoryAllows, OrgMapped, TypeOK, Mapping, Envelope
<1>7. e.incident /= None => /\ caseMappings[<<e.org, e.incident>>].active
                           /\ caseMappings[<<e.org, e.incident>>].org = e.dest
  BY <1>4 DEF DirectoryAllows, CaseMapped
<1>8. QED
  BY <1>3, <1>4, <1>5, <1>6, <1>7

(* An acceptance follows the directory of its moment: an active human of   *)
(* the sending organisation, and one tenant for organisation and incident. *)
THEOREM Isolation == Spec => TenantIsolation
<1>1. IInv /\ [Next]_procVars => [AcceptsForMappedTenant]_procVars
  <2> SUFFICES ASSUME IInv, Next PROVE AcceptsForMappedTenant
    OBVIOUS
  <2>1. UNCHANGED transfers => AcceptsForMappedTenant
    BY DEF AcceptsForMappedTenant, Accepted
  <2>2. CASE ChangeDirectory \/ SwitchProcessor \/ Tick
    BY <2>1, <2>2 DEF ChangeDirectory, SwitchProcessor, Tick
  <2>3. ASSUME NEW e \in Requests, NEW n \in Nonces, Process(e, n)
        PROVE  AcceptsForMappedTenant
    <3>1. CASE Accept(e, n)
      BY <3>1, AcceptIsolates
    <3>2. CASE QuarantineConflict(e, n)
      <4>1. \A t \in Transfers : transfers'[t] = transfers[t]
        BY <3>2, EnvelopeIds DEF QuarantineConflict, Created, IInv, TypeOK, DurableIds
      <4>2. QED
        BY <4>1 DEF AcceptsForMappedTenant, Accepted
    <3>3. CASE RecordRefusal(e, n)
      <4>1. \A t \in Transfers : Accepted(t)' => Accepted(t)
        BY <3>3, EnvelopeIds DEF RecordRefusal, Created, IInv, TypeOK, DurableIds, Accepted
      <4>2. QED
        BY <4>1 DEF AcceptsForMappedTenant
    <3>4. QED
      BY <2>1, <2>3, <3>1, <3>2, <3>3 DEF Process, Deliver, CollapseDuplicate,
         Unavailable, BadRequest, RejectEnvelope, RejectReplay, FailTransaction,
         RolledBack
  <2>4. QED
    BY <2>2, <2>3 DEF Next
<1>2. QED
  BY Invariance, <1>1, PTL DEF Spec, TenantIsolation

-----------------------------------------------------------------------------
(* The gateway over the processor *)

LEMMA SignedParts ==
  ASSUME GatewayTypeOK, NEW r \in signed
  PROVE  /\ r \in Signed
         /\ r.env \in Requests
         /\ r.nonce \in Nonces
         /\ r.at \in Int
BY SkewAssumption DEF GatewayTypeOK, Signed

(* What arrives at the processor is one of its deliveries. *)
LEMMA DeliveryIsProcess ==
  ASSUME GatewayTypeOK, NEW r \in signed, DeliverTo(r)
  PROVE  Process(r.env, r.nonce)
BY DEF DeliverTo, Process

(* A step of the gateway is a step of the processor, or none. *)
LEMMA GatewayStepRefines ==
  ASSUME GatewayTypeOK, [GatewayNext]_laneVars
  PROVE  [Next]_procVars
<1>1. ASSUME NEW r \in signed, DeliverTo(r) PROVE Next
  BY <1>1, DeliveryIsProcess, SignedParts DEF Next
<1>2. CASE \E r \in signed : HandleRequest(r)
  BY <1>1, <1>2 DEF HandleRequest, RefuseRequest, RefuseReplay, RefuseUnconfigured,
     Forward, ProcessForward, ProcessOrphan, FetchFails
<1>3. CASE \E x \in results : BodyLost(x) \/ Respond(x)
  BY <1>3 DEF BodyLost, Respond
<1>4. CASE RestartGateway \/ GatewayTick \/ AdministerProcessor
  BY <1>4 DEF RestartGateway, GatewayTick, AdministerProcessor, Next
<1>5. CASE \E e \in Requests, n \in Nonces, at \in Timestamps : Sign(e, n, at)
  BY <1>5 DEF Sign
<1>6. CASE UNCHANGED laneVars
  BY <1>6 DEF laneVars
<1>7. QED
  BY <1>2, <1>3, <1>4, <1>5, <1>6 DEF GatewayNext, GatewayStep

(* Every delivery is answered, about the transfer and the key delivered.   *)
LEMMA DeliverReply ==
  ASSUME TypeOK, NEW e \in Requests, NEW n \in Nonces, Deliver(e, n)
  PROVE  /\ reply' \in Reply
         /\ reply'.transfer = e.transfer
<1> USE EnvelopeIds, AnswerFields
<1>1. \E kind \in {"ACCEPTED", "DUPLICATE", "REJECTED", "QUARANTINED",
                   "ERROR", "FAULT", "DISABLED"}, receipt \in Receipt \cup {None} :
         reply' = Answer(e, kind, receipt)
  <2>1. CASE Unavailable(e, n)
    BY <2>1 DEF Unavailable
  <2>2. CASE RejectEnvelope(e, n)
    BY <2>2 DEF RejectEnvelope
  <2>3. CASE RejectReplay(e, n)
    BY <2>3 DEF RejectReplay
  <2>4. CASE FailTransaction(e, n)
    BY <2>4 DEF FailTransaction
  <2>5. CASE QuarantineConflict(e, n)
    BY <2>5 DEF QuarantineConflict
  <2>6. CASE CollapseDuplicate(e, n)
    BY <2>6 DEF CollapseDuplicate, TypeOK
  <2>7. CASE RecordRefusal(e, n)
    <3>1. BusinessOutcome(e) \in {"REJECTED", "QUARANTINED"}
      BY <2>7 DEF RecordRefusal, BusinessOutcome
    <3>2. QED
      BY <2>7, <3>1 DEF RecordRefusal
  <2>8. CASE Accept(e, n)
    BY <2>8, ReceiptOfType DEF Accept
  <2>9. QED
    BY <2>1, <2>2, <2>3, <2>4, <2>5, <2>6, <2>7, <2>8 DEF Deliver
<1>2. QED
  BY <1>1, AnswerType

-----------------------------------------------------------------------------
(* Type correctness *)

(* While a handler waits for its fetch the guard still holds its nonce, so *)
(* no second handler serves the request, and an answer belongs to a fetch  *)
(* that is over.                                                           *)
Pending ==
    /\ \A r \in awaiting : seen[r.nonce] = now
    /\ \A x \in results : x.req \in awaiting \ forwards

GatewayShape == GatewayTypeOK /\ Pending

LEMMA DeliverToType ==
  ASSUME TypeOK, GatewayTypeOK, NEW r \in signed, DeliverTo(r)
  PROVE  [req |-> r, reply |-> reply'] \in Result
<1>1. Deliver(r.env, r.nonce)
  BY DEF DeliverTo
<1>2. reply' \in Reply
  BY <1>1, SignedParts, DeliverReply
<1>3. QED
  BY <1>2, SignedParts DEF Result

LEMMA RememberedType ==
  ASSUME TypeOK, GatewayTypeOK, NEW r \in signed
  PROVE  /\ Pruned \in [Nonces -> Int \cup {None}]
         /\ Remembered(r) \in [Nonces -> Int \cup {None}]
BY DEF TypeOK, GatewayTypeOK, Pruned, Remembered

LEMMA AnswerSenderType ==
  ASSUME GatewayTypeOK, NEW r \in signed, NEW c \in Code, AnswerSender(r, c)
  PROVE  answer' \in GatewayAnswer \cup {None}
BY SignedParts DEF AnswerSender, GatewayAnswer

LEMMA CodeForType ==
  ASSUME NEW x PROVE CodeFor(x) \in Code
BY DEF CodeFor, Code

(* What the gateway knows of a request shrinks when its fetch settles.     *)
LEMMA SettleType ==
  ASSUME GatewayTypeOK, NEW r \in signed, Settle(r)
  PROVE  /\ awaiting' \subseteq signed
         /\ forwards \ {r} \subseteq awaiting'
         /\ results' \subseteq Result
BY DEF GatewayTypeOK, Settle

LEMMA HandleType ==
  ASSUME TypeOK, GatewayTypeOK, NEW r \in signed, HandleRequest(r)
  PROVE  GatewayTypeOK'
<1> USE SignedParts
<1>1. {"PERIMETER_REFUSED", "PROCESSOR_TIMEOUT", "PROCESSOR_UNAVAILABLE"} \subseteq Code
  BY DEF Code
<1>2. CASE RefuseRequest(r)
  BY <1>1, <1>2, AnswerSenderType DEF RefuseRequest, GatewayTypeOK
<1>3. CASE RefuseReplay(r)
  BY <1>1, <1>3, AnswerSenderType, RememberedType DEF RefuseReplay, GatewayTypeOK
<1>4. CASE RefuseUnconfigured(r)
  BY <1>1, <1>4, AnswerSenderType, RememberedType DEF RefuseUnconfigured, GatewayTypeOK
<1>5. CASE Forward(r)
  BY <1>5, RememberedType DEF Forward, GatewayTypeOK
<1>6. CASE ProcessForward(r)
  BY <1>6, DeliverToType DEF ProcessForward, GatewayTypeOK
<1>7. CASE ProcessOrphan(r)
  BY <1>7 DEF ProcessOrphan, GatewayTypeOK
<1>8. CASE FetchFails(r)
  <2>1. answer' \in GatewayAnswer \cup {None}
    BY <1>1, <1>8, AnswerSenderType DEF FetchFails
  <2>2. /\ awaiting' \subseteq signed
        /\ forwards \ {r} \subseteq awaiting'
        /\ results' \subseteq Result
    BY <1>8, SettleType DEF FetchFails
  <2>3. QED
    BY <1>8, <2>1, <2>2 DEF FetchFails, GatewayTypeOK
<1>9. QED
  BY <1>2, <1>3, <1>4, <1>5, <1>6, <1>7, <1>8 DEF HandleRequest

LEMMA AnswerResultType ==
  ASSUME GatewayShape, NEW x \in results, BodyLost(x) \/ Respond(x)
  PROVE  GatewayShape'
<1>0. GatewayTypeOK /\ Pending
  BY DEF GatewayShape
<1>1. "INTEGRATION_REJECTED" \in Code
  BY DEF Code
<1>2. x.req \in Signed
  BY <1>0 DEF GatewayTypeOK, Result
<1>3. answer' \in GatewayAnswer \cup {None}
  BY <1>1, <1>2, CodeForType DEF BodyLost, Respond, AnswerSender, GatewayAnswer
<1>4. /\ awaiting' = awaiting \ {x.req}
      /\ results' = {y \in results : y.req /= x.req}
      /\ UNCHANGED <<now, settings, signed, seen, forwards, orphans>>
  BY DEF BodyLost, Respond, Settle, procVars
<1>5. GatewayTypeOK'
  BY <1>0, <1>3, <1>4 DEF GatewayTypeOK, Pending
<1>6. Pending'
  BY <1>0, <1>4 DEF Pending
<1>7. QED
  BY <1>5, <1>6 DEF GatewayShape

LEMMA HandlePending ==
  ASSUME TypeOK, GatewayShape, NEW r \in signed, HandleRequest(r)
  PROVE  Pending'
<1> USE SkewAssumption
<1>0. GatewayTypeOK /\ Pending /\ now \in Int
  BY DEF GatewayShape, TypeOK
<1>1. now' = now
  BY DEF HandleRequest, RefuseRequest, RefuseReplay, RefuseUnconfigured, Forward,
     ProcessForward, ProcessOrphan, FetchFails, DeliverTo, procVars
<1>2. \A s \in awaiting : s.nonce \in Nonces /\ Pruned[s.nonce] = now
  <2>1. ASSUME NEW s \in awaiting PROVE s.nonce \in Nonces
    BY <1>0, SignedParts DEF GatewayTypeOK
  <2>2. QED
    BY <1>0, <2>1, GatewayNoneAssumption DEF Pending, Pruned, Outlived
<1>3. \A s \in awaiting : Remembered(r)[s.nonce] = now
  BY <1>0, <1>2, SignedParts DEF Remembered, Pruned
<1>4. CASE RefuseRequest(r)
  BY <1>0, <1>1, <1>4 DEF RefuseRequest, Pending
<1>5. CASE RefuseReplay(r)
  BY <1>0, <1>1, <1>2, <1>5 DEF RefuseReplay, Pending
<1>6. CASE RefuseUnconfigured(r)
  BY <1>0, <1>1, <1>3, <1>6 DEF RefuseUnconfigured, Pending
<1>7. CASE Forward(r)
  <2>1. r \notin awaiting
    BY <1>0, <1>2, <1>7, GatewayNoneAssumption DEF Forward, Replayed
  <2>2. Remembered(r)[r.nonce] = now
    BY <1>0, SignedParts DEF Remembered, Pruned
  <2>3. QED
    BY <1>0, <1>1, <1>3, <1>7, <2>1, <2>2 DEF Forward, Pending
<1>8. CASE ProcessForward(r)
  BY <1>0, <1>1, <1>8 DEF ProcessForward, Pending, GatewayTypeOK
<1>9. CASE ProcessOrphan(r)
  BY <1>0, <1>1, <1>9 DEF ProcessOrphan, Pending
<1>10. CASE FetchFails(r)
  BY <1>0, <1>1, <1>10 DEF FetchFails, Settle, Pending
<1>11. QED
  BY <1>4, <1>5, <1>6, <1>7, <1>8, <1>9, <1>10 DEF HandleRequest

LEMMA GatewayNextShape ==
  ASSUME TypeOK, GatewayShape, [GatewayNext]_laneVars
  PROVE  GatewayShape'
<1>0. GatewayTypeOK /\ Pending
  BY DEF GatewayShape
<1>1. CASE \E r \in signed : HandleRequest(r)
  BY <1>0, <1>1, HandleType, HandlePending DEF GatewayShape
<1>2. CASE \E x \in results : BodyLost(x) \/ Respond(x)
  BY <1>2, AnswerResultType
<1>3. CASE RestartGateway
  <2>1. seen' \in [Nonces -> Int \cup {None}]
    BY <1>3 DEF RestartGateway
  <2>2. QED
    BY <1>0, <1>3, <2>1 DEF RestartGateway, GatewayShape, GatewayTypeOK, Pending
<1>4. CASE GatewayTick
  BY <1>0, <1>4 DEF GatewayTick, GatewayShape, GatewayTypeOK, Pending
<1>5. CASE AdministerProcessor
  BY <1>0, <1>5 DEF AdministerProcessor, ChangeDirectory, SwitchProcessor,
     GatewayShape, GatewayTypeOK, Pending
<1>6. ASSUME NEW e \in Requests, NEW n \in Nonces, NEW at \in Timestamps, Sign(e, n, at)
      PROVE  GatewayShape'
  <2>1. [env |-> e, nonce |-> n, at |-> at] \in Signed
    BY DEF Signed
  <2>2. QED
    BY <1>0, <1>6, <2>1 DEF Sign, procVars, GatewayShape, GatewayTypeOK, Pending
<1>7. CASE UNCHANGED laneVars
  BY <1>0, <1>7 DEF laneVars, procVars, gatewayVars, GatewayShape, GatewayTypeOK, Pending
<1>8. QED
  BY <1>1, <1>2, <1>3, <1>4, <1>5, <1>6, <1>7 DEF GatewayNext, GatewayStep

LEMMA GatewayInitShape == GatewayInit => GatewayShape
BY DEF GatewayInit, GatewayShape, GatewayTypeOK, Pending

(* The gateway with its processor behaves as the processor alone would:    *)
(* every theorem about the processor holds behind the gateway too.         *)
THEOREM GatewayRefinesProcessor == GatewaySpec => Spec
<1>1. TypeOK /\ GatewayShape /\ [GatewayNext]_laneVars
        => [Next]_procVars /\ TypeOK' /\ GatewayShape'
  BY GatewayStepRefines, NextType, GatewayNextShape DEF GatewayShape
<1>2. GatewayInit => Init /\ TypeOK /\ GatewayShape
  BY InitType, GatewayInitShape DEF GatewayInit
<1>3. QED
  BY <1>1, <1>2, PTL DEF GatewaySpec, Spec

THEOREM GatewayTypeCorrect == GatewaySpec => []GatewayTypeOK
<1>1. TypeOK /\ GatewayShape /\ [GatewayNext]_laneVars => GatewayShape'
  BY GatewayNextShape
<1>2. GatewayInit => GatewayShape
  BY GatewayInitShape
<1>3. GatewayShape => GatewayTypeOK
  BY DEF GatewayShape
<1>4. QED
  BY <1>1, <1>2, <1>3, TypeCorrect, GatewayRefinesProcessor, PTL DEF GatewaySpec

-----------------------------------------------------------------------------
(* Receipts *)

(* The processor has accepted the content of e under its key. *)
Held(e) ==
    /\ receipts[e.transfer] /= None
    /\ receipts[e.transfer].payload = e.payload
    /\ idempotency[e.key] =
          [transfer |-> e.transfer, payload |-> e.payload, outcome |-> "ACCEPTED"]

(* An answer of the processor, however long it is on its way, speaks of    *)
(* what it was asked, and a receipt in it of what the processor holds.     *)
Truthful ==
    \A x \in results :
        /\ x.reply.transfer = x.req.env.transfer
        /\ x.reply.receipt /= None =>
              x.reply.receipt.payload = x.req.env.payload /\ Held(x.req.env)

LEMMA BindingParts ==
  ASSUME TypeOK, NEW k \in Keys, idempotency[k] /= None
  PROVE  idempotency[k] = [transfer |-> idempotency[k].transfer,
                           payload |-> idempotency[k].payload,
                           outcome |-> idempotency[k].outcome]
BY DEF TypeOK, Binding

(* The two deliveries that are answered with a receipt. *)
LEMMA DeliveryTruthful ==
  ASSUME IInv, NEW e \in Requests, NEW n \in Nonces, Deliver(e, n), reply'.receipt /= None
  PROVE  reply'.receipt.payload = e.payload /\ Held(e)'
<1> USE EnvelopeIds, AnswerFields
<1>0. TypeOK /\ BindingsBacked /\ ReceiptsJustified
  BY DEF IInv, Integrity
<1>1. CASE CollapseDuplicate(e, n)
  <2>1. /\ idempotency[e.key] /= None
        /\ idempotency[e.key].transfer = e.transfer
        /\ idempotency[e.key].payload = e.payload
        /\ ~Diverged(e)
        /\ UNCHANGED <<idempotency, transfers, receipts>>
    BY <1>1 DEF CollapseDuplicate, ExactDuplicate, Bound
  <2>2. /\ idempotency[e.key].outcome = "ACCEPTED"
        /\ reply'.receipt = receipts[e.transfer]
    BY <1>1 DEF CollapseDuplicate
  <2>3. transfers[e.transfer].payload = e.payload
    BY <1>0, <2>1 DEF BindingsBacked
  <2>4. receipts[e.transfer] /= None /\ receipts[e.transfer].payload = e.payload
    BY <1>0, <2>2, <2>3 DEF ReceiptsJustified
  <2>5. idempotency[e.key] = [transfer |-> e.transfer, payload |-> e.payload,
                              outcome |-> "ACCEPTED"]
    BY <1>0, <2>1, <2>2, BindingParts
  <2>6. QED
    BY <2>1, <2>2, <2>4, <2>5 DEF Held
<1>2. CASE Accept(e, n)
  <2>1. /\ reply'.receipt = ReceiptOf(e)
        /\ receipts'[e.transfer] = ReceiptOf(e)
        /\ idempotency'[e.key] = [transfer |-> e.transfer, payload |-> e.payload,
                                  outcome |-> "ACCEPTED"]
    BY <1>0, <1>2 DEF Accept, Bind, TypeOK
  <2>2. ReceiptOf(e).payload = e.payload
    <3>1. CASE receipts[e.transfer] = None
      BY <3>1 DEF ReceiptOf
    <3>2. CASE receipts[e.transfer] /= None
      <4>1. Accepted(e.transfer) /\ receipts[e.transfer].payload = transfers[e.transfer].payload
        BY <1>0, <3>2 DEF ReceiptsJustified
      <4>2. Creatable(e.transfer, e, "ACCEPTED")
        BY <1>2 DEF Accept, Refused, Conflicting, Diverged
      <4>3. QED
        BY <3>2, <4>1, <4>2 DEF ReceiptOf, Creatable, Accepted
    <3>3. QED
      BY <3>1, <3>2
  <2>3. QED
    BY <2>1, <2>2 DEF Held
<1>3. CASE \/ Unavailable(e, n) \/ RejectEnvelope(e, n) \/ RejectReplay(e, n)
           \/ FailTransaction(e, n) \/ QuarantineConflict(e, n) \/ RecordRefusal(e, n)
  BY <1>3 DEF Unavailable, RejectEnvelope, RejectReplay, FailTransaction,
     QuarantineConflict, RecordRefusal
<1>4. QED
  BY <1>1, <1>2, <1>3 DEF Deliver

(* Decisions are final, so what the processor held once it still holds.    *)
LEMMA HeldStays ==
  ASSUME NEW e \in Requests, KeepsDecisions, Held(e)
  PROVE  Held(e)'
<1>1. [transfer |-> e.transfer, payload |-> e.payload, outcome |-> "ACCEPTED"] /= None
  BY EnvelopeIds, NoneAssumption DEF Binding, Outcomes
<1>2. QED
  BY <1>1, EnvelopeIds DEF Held, KeepsDecisions

LEMMA NextKeeps ==
  ASSUME IInv, [Next]_procVars
  PROVE  KeepsDecisions
<1>1. CASE \E e \in Requests, n \in Nonces : Process(e, n)
  BY <1>1, ProcessKeeps
<1>2. CASE ChangeDirectory \/ SwitchProcessor \/ Tick \/ UNCHANGED procVars
  BY <1>2 DEF ChangeDirectory, SwitchProcessor, Tick, procVars, registries, KeepsDecisions
<1>3. QED
  BY <1>1, <1>2 DEF Next

LEMMA TruthfulStep ==
  ASSUME IInv, GatewayTypeOK, Truthful, [GatewayNext]_laneVars
  PROVE  Truthful'
<1>0. TypeOK
  BY DEF IInv
<1>1. KeepsDecisions
  BY <1>0, GatewayStepRefines, NextKeeps
<1>2. ASSUME NEW x \in results
      PROVE  /\ x.reply.transfer = x.req.env.transfer
             /\ x.reply.receipt /= None =>
                   x.reply.receipt.payload = x.req.env.payload /\ Held(x.req.env)'
  <2>1. x.req.env \in Requests
    BY DEF GatewayTypeOK, Result, Signed
  <2>2. QED
    BY <1>1, <2>1, HeldStays DEF Truthful
<1>3. results' \subseteq results => Truthful'
  BY <1>2 DEF Truthful
<1>4. ASSUME NEW r \in signed, ProcessForward(r)
      PROVE  Truthful'
  <2>1. Deliver(r.env, r.nonce)
    BY <1>4 DEF ProcessForward, DeliverTo
  <2>2. /\ reply'.transfer = r.env.transfer
        /\ reply'.receipt /= None =>
              reply'.receipt.payload = r.env.payload /\ Held(r.env)'
    BY <1>0, <2>1, SignedParts, DeliverReply, DeliveryTruthful
  <2>3. results' = results \cup {[req |-> r, reply |-> reply']}
    BY <1>4 DEF ProcessForward
  <2>4. QED
    BY <1>2, <2>2, <2>3 DEF Truthful
<1>5. ASSUME NEW r \in signed, HandleRequest(r), ~ProcessForward(r)
      PROVE  results' \subseteq results
  BY <1>5 DEF HandleRequest, RefuseRequest, RefuseReplay, RefuseUnconfigured, Forward,
     ProcessOrphan, FetchFails, Settle
<1>6. CASE \E x \in results : BodyLost(x) \/ Respond(x)
  BY <1>3, <1>6 DEF BodyLost, Respond, Settle
<1>7. CASE RestartGateway \/ GatewayTick \/ AdministerProcessor
  BY <1>3, <1>7 DEF RestartGateway, GatewayTick, AdministerProcessor
<1>8. CASE \E e \in Requests, n \in Nonces, at \in Timestamps : Sign(e, n, at)
  BY <1>3, <1>8 DEF Sign
<1>9. CASE UNCHANGED laneVars
  BY <1>3, <1>9 DEF laneVars, gatewayVars
<1>10. QED
  BY <1>3, <1>4, <1>5, <1>6, <1>7, <1>8, <1>9 DEF GatewayNext, GatewayStep

(* Only Respond sends a receipt, and it finds the answer truthful.         *)
LEMMA AnswerStep ==
  ASSUME GatewayTypeOK, Truthful, ReceiptTrue, NeverMismatched, [GatewayNext]_laneVars
  PROVE  ReceiptTrue' /\ NeverMismatched'
<1>1. answer' = None => ReceiptTrue' /\ NeverMismatched'
  BY DEF ReceiptTrue, NeverMismatched
<1>2. ASSUME NEW x \in results, Respond(x)
      PROVE  ReceiptTrue' /\ NeverMismatched'
  <2>1. answer' = [req |-> x.req, code |-> CodeFor(x)] /\ UNCHANGED <<receipts, idempotency>>
    BY <1>2 DEF Respond, AnswerSender, procVars, registries
  <2>2. /\ x.reply.transfer = x.req.env.transfer
        /\ x.reply.receipt /= None =>
              x.reply.receipt.payload = x.req.env.payload /\ Held(x.req.env)
    BY DEF Truthful
  <2>3. CodeFor(x) /= "PROCESSOR_RECEIPT_MISMATCH"
    BY <2>2 DEF CodeFor, Mismatch
  <2>4. CodeFor(x) = "RECEIPT" => Held(x.req.env)
    BY <2>2 DEF CodeFor
  <2>5. QED
    BY <2>1, <2>3, <2>4 DEF Held, ReceiptTrue, NeverMismatched
<1>3. ASSUME NEW r, NEW c \in {"PERIMETER_REFUSED", "PROCESSOR_TIMEOUT",
                               "PROCESSOR_UNAVAILABLE", "INTEGRATION_REJECTED"},
             AnswerSender(r, c)
      PROVE  ReceiptTrue' /\ NeverMismatched'
  BY <1>3 DEF AnswerSender, ReceiptTrue, NeverMismatched
<1>4. CASE \E r \in signed : HandleRequest(r)
  BY <1>1, <1>3, <1>4 DEF HandleRequest, RefuseRequest, RefuseReplay, RefuseUnconfigured,
     Forward, ProcessForward, ProcessOrphan, FetchFails
<1>5. CASE \E x \in results : BodyLost(x)
  BY <1>3, <1>5 DEF BodyLost
<1>6. CASE RestartGateway \/ GatewayTick \/ AdministerProcessor
  BY <1>1, <1>6 DEF RestartGateway, GatewayTick, AdministerProcessor
<1>7. CASE \E e \in Requests, n \in Nonces, at \in Timestamps : Sign(e, n, at)
  BY <1>1, <1>7 DEF Sign
<1>8. CASE UNCHANGED laneVars
  BY <1>8 DEF laneVars, procVars, registries, gatewayVars, ReceiptTrue, NeverMismatched
<1>9. QED
  BY <1>2, <1>4, <1>5, <1>6, <1>7, <1>8 DEF GatewayNext, GatewayStep

LEMMA AnswerInit == GatewayInit => Truthful /\ ReceiptTrue /\ NeverMismatched
BY DEF GatewayInit, Truthful, ReceiptTrue, NeverMismatched

(* A signed receipt is never wrong, and the integrity check of the gateway *)
(* never has to fire: what the processor answers is always truthful.       *)
THEOREM ReceiptsNeverWrong == GatewaySpec => []ReceiptsTrue
<1>1. IInv /\ GatewayTypeOK /\ Truthful /\ ReceiptTrue /\ NeverMismatched
         /\ [GatewayNext]_laneVars
        => Truthful' /\ ReceiptTrue' /\ NeverMismatched'
  BY TruthfulStep, AnswerStep
<1>2. GatewayInit => Truthful /\ ReceiptTrue /\ NeverMismatched
  BY AnswerInit
<1>3. QED
  BY <1>1, <1>2, Invariance, GatewayRefinesProcessor, GatewayTypeCorrect, PTL
     DEF GatewaySpec, ReceiptsTrue

-----------------------------------------------------------------------------
(* Forgotten nonces *)

(* Why forgetting is harmless: a nonce stands for one request, it was      *)
(* registered at most one skew before that request's date, and whatever is *)
(* still on the way is within the skew, as the clock waits for it.         *)
NoncesTimely ==
    /\ \A r, s \in signed : r.nonce = s.nonce => r = s
    /\ \A n \in Nonces : nonces[n] /= None =>
          \E r \in signed : r.nonce = n /\ r.at - nonces[n].at <= Skew
    /\ \A r \in forwards \cup orphans : InSkew(r)

(* A delivery registers its own nonce at this moment and may prune others. *)
LEMMA DeliveredNonces ==
  ASSUME TypeOK, NEW e \in Requests, NEW n \in Nonces, Deliver(e, n)
  PROVE  nonces' = nonces \/ nonces' = Registered(e, n)
BY DEF Deliver, Unavailable, RejectEnvelope, RejectReplay, FailTransaction, RolledBack,
   QuarantineConflict, CollapseDuplicate, RecordRefusal, Accept, registries

LEMMA RegisteredTimely ==
  ASSUME TypeOK, GatewayTypeOK, NoncesTimely,
         NEW r \in forwards \cup orphans, DeliverTo(r)
  PROVE  \A n \in Nonces : nonces'[n] /= None =>
            \E s \in signed : s.nonce = n /\ s.at - nonces'[n].at <= Skew
<1>1. r \in signed /\ Deliver(r.env, r.nonce)
  BY DEF GatewayTypeOK, DeliverTo
<1>2. CASE nonces' = nonces
  BY <1>2 DEF NoncesTimely
<1>3. CASE nonces' = Registered(r.env, r.nonce)
  <2> SUFFICES ASSUME NEW n \in Nonces, nonces'[n] /= None
               PROVE  \E s \in signed : s.nonce = n /\ s.at - nonces'[n].at <= Skew
    OBVIOUS
  <2>1. CASE n = r.nonce
    <3>1. nonces'[n].at = now
      BY <1>3, <2>1 DEF Registered
    <3>2. r.at - now <= Skew
      BY DEF NoncesTimely, InSkew
    <3>3. QED
      BY <1>1, <2>1, <3>1, <3>2
  <2>2. CASE n /= r.nonce
    <3>1. nonces'[n] = nonces[n]
      BY <1>3, <2>2 DEF Registered
    <3>2. QED
      BY <3>1 DEF NoncesTimely
  <2>3. QED
    BY <2>1, <2>2
<1>4. QED
  BY <1>1, <1>2, <1>3, SignedParts, DeliveredNonces

(* Only a delivery to the processor touches its nonces. *)
LEMMA OthersKeepNonces ==
  ASSUME [GatewayNext]_laneVars,
         \A r \in signed : ~ProcessForward(r) /\ ~ProcessOrphan(r)
  PROVE  nonces' = nonces
<1>1. CASE \E r \in signed : HandleRequest(r)
  BY <1>1 DEF HandleRequest, RefuseRequest, RefuseReplay, RefuseUnconfigured, Forward,
     FetchFails, procVars, registries
<1>2. CASE \E x \in results : BodyLost(x) \/ Respond(x)
  BY <1>2 DEF BodyLost, Respond, procVars, registries
<1>3. CASE RestartGateway \/ GatewayTick \/ AdministerProcessor
  BY <1>3 DEF RestartGateway, GatewayTick, AdministerProcessor, ChangeDirectory,
     SwitchProcessor, Tick, procVars, registries
<1>4. CASE \E e \in Requests, n \in Nonces, at \in Timestamps : Sign(e, n, at)
  BY <1>4 DEF Sign, procVars, registries
<1>5. CASE UNCHANGED laneVars
  BY <1>5 DEF laneVars, procVars, registries
<1>6. QED
  BY <1>1, <1>2, <1>3, <1>4, <1>5 DEF GatewayNext, GatewayStep

(* What is on the way stays within the skew: it was when it was forwarded, *)
(* and the clock does not move while it is on the way.                     *)
LEMMA OnTheWayTimely ==
  ASSUME TypeOK, GatewayTypeOK, NoncesTimely, [GatewayNext]_laneVars
  PROVE  \A r \in forwards' \cup orphans' : InSkew(r)'
<1>1. ASSUME now' = now, forwards' \cup orphans' \subseteq forwards \cup orphans
      PROVE  \A r \in forwards' \cup orphans' : InSkew(r)'
  BY <1>1 DEF NoncesTimely, InSkew
<1>2. CASE \E r \in signed : Forward(r)
  BY <1>2 DEF Forward, Verified, NoncesTimely, InSkew, procVars
<1>3. CASE \E r \in signed : HandleRequest(r) /\ ~Forward(r)
  <2>1. PICK r \in signed : HandleRequest(r) /\ ~Forward(r)
    BY <1>3
  <2>2. now' = now
    BY <2>1 DEF HandleRequest, RefuseRequest, RefuseReplay, RefuseUnconfigured,
       ProcessForward, ProcessOrphan, FetchFails, DeliverTo, procVars
  <2>3. forwards' \cup orphans' \subseteq forwards \cup orphans
    BY <2>1 DEF HandleRequest, RefuseRequest, RefuseReplay, RefuseUnconfigured,
       ProcessForward, ProcessOrphan, FetchFails
  <2>4. QED
    BY <1>1, <2>2, <2>3
<1>4. CASE \E x \in results : BodyLost(x) \/ Respond(x)
  BY <1>1, <1>4 DEF BodyLost, Respond, procVars
<1>5. CASE RestartGateway \/ AdministerProcessor
  BY <1>1, <1>5 DEF RestartGateway, AdministerProcessor, ChangeDirectory,
     SwitchProcessor, procVars
<1>6. CASE GatewayTick
  BY <1>6 DEF GatewayTick, GatewayTypeOK
<1>7. CASE \E e \in Requests, n \in Nonces, at \in Timestamps : Sign(e, n, at)
  BY <1>1, <1>7 DEF Sign, procVars
<1>8. CASE UNCHANGED laneVars
  BY <1>1, <1>8 DEF laneVars, procVars, gatewayVars
<1>9. QED
  BY <1>2, <1>3, <1>4, <1>5, <1>6, <1>7, <1>8 DEF GatewayNext, GatewayStep

(* A sender never draws a nonce twice, and no request is ever unsigned. *)
LEMMA SignedUnique ==
  ASSUME NoncesTimely, [GatewayNext]_laneVars
  PROVE  /\ signed \subseteq signed'
         /\ \A r, s \in signed' : r.nonce = s.nonce => r = s
<1>1. CASE signed' = signed
  BY <1>1 DEF NoncesTimely
<1>2. CASE \E e \in Requests, n \in Nonces, at \in Timestamps : Sign(e, n, at)
  BY <1>2 DEF Sign, NoncesTimely
<1>3. CASE GatewayStep
  BY <1>1, <1>3 DEF GatewayStep, HandleRequest, RefuseRequest, RefuseReplay,
     RefuseUnconfigured, Forward, ProcessForward, ProcessOrphan, FetchFails, BodyLost,
     Respond, RestartGateway, GatewayTick, AdministerProcessor
<1>4. QED
  BY <1>1, <1>2, <1>3 DEF GatewayNext, laneVars, gatewayVars

LEMMA TimelyStep ==
  ASSUME TypeOK, GatewayTypeOK, NoncesTimely, [GatewayNext]_laneVars
  PROVE  NoncesTimely'
<1>1. \A n \in Nonces : nonces'[n] /= None =>
         \E s \in signed : s.nonce = n /\ s.at - nonces'[n].at <= Skew
  <2>1. CASE nonces' = nonces
    BY <2>1 DEF NoncesTimely
  <2>2. CASE \E r \in signed : ProcessForward(r) \/ ProcessOrphan(r)
    BY <2>2, RegisteredTimely DEF ProcessForward, ProcessOrphan
  <2>3. QED
    BY <2>1, <2>2, OthersKeepNonces
<1>2. QED
  BY <1>1, SignedUnique, OnTheWayTimely DEF NoncesTimely

LEMMA TimelyForgets ==
  ASSUME TypeOK, GatewayTypeOK, NoncesTimely, [GatewayNext]_laneVars
  PROVE  ForgetsStaleNonces
<1> SUFFICES ASSUME NEW r \in signed, nonces[r.nonce] /= None, nonces'[r.nonce] = None
             PROVE  ~InSkew(r) /\ r \notin forwards \cup orphans
  BY DEF ForgetsStaleNonces
<1>1. PICK s \in signed : (ProcessForward(s) \/ ProcessOrphan(s))
  BY OthersKeepNonces
<1>2. nonces' = Registered(s.env, s.nonce)
  BY <1>1, SignedParts, DeliveredNonces DEF ProcessForward, ProcessOrphan, DeliverTo
<1>3. now - nonces[r.nonce].at > Window
  <2>1. [at |-> now, transfer |-> s.env.transfer] /= None
    BY SignedParts, EnvelopeIds, NoneAssumption DEF NonceRecord, TypeOK
  <2>2. QED
    BY <1>2, <2>1, SignedParts DEF Registered
<1>4. r.at - nonces[r.nonce].at <= Skew
  BY SignedParts DEF NoncesTimely
<1>5. now \in Int /\ nonces[r.nonce].at \in Int
  BY SignedParts DEF TypeOK, NonceRecord
<1>6. now - r.at > Skew
  BY <1>3, <1>4, <1>5, SignedParts, SkewAssumption, WindowAssumption, TimeAssumption
<1>7. QED
  BY <1>5, <1>6, SignedParts, SkewAssumption DEF InSkew, NoncesTimely

LEMMA TimelyInit == GatewayInit => NoncesTimely
BY DEF GatewayInit, Init, NoncesTimely

(* No nonce is forgotten while a request that carries it could still be    *)
(* decided: nothing is decided twice for one signed request.               *)
THEOREM ForgettingIsHarmless == GatewaySpec => ForgetsOnlyStale
<1>1. IInv /\ GatewayTypeOK /\ NoncesTimely /\ [GatewayNext]_laneVars
        => NoncesTimely' /\ ForgetsStaleNonces
  BY TimelyStep, TimelyForgets DEF IInv
<1>2. GatewayInit => NoncesTimely
  BY TimelyInit
<1>3. IInv /\ GatewayTypeOK /\ NoncesTimely /\ [GatewayNext]_laneVars
        => [ForgetsStaleNonces]_laneVars
  BY <1>1
<1>4. QED
  BY <1>1, <1>2, <1>3, Invariance, GatewayRefinesProcessor, GatewayTypeCorrect, PTL
     DEF GatewaySpec, ForgetsOnlyStale

=============================================================================
