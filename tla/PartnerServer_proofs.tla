------------------------- MODULE PartnerServer_proofs -------------------------
(***************************************************************************)
(* Proofs about the partner server, for every value of its constants.      *)
(***************************************************************************)
EXTENDS PartnerServer, TLAPS

USE DEF registries, serverVars

-----------------------------------------------------------------------------
(* Requests *)

LEMMA RequestParts ==
  ASSUME NEW r \in Requests
  PROVE  /\ r.id \in RequestIds
         /\ r.client \in Clients
         /\ r.nonce \in Nonces
         /\ r.at \in Int
         /\ <<r.client, r.nonce>> \in Clients \X Nonces
         /\ r.kind \in {"create", "deactivate", "revoke"}
<1>1. r \in Create \cup Change
  BY RequestAssumption
<1>2. QED
  BY <1>1 DEF Create, Change

LEMMA CreateParts ==
  ASSUME NEW r \in Requests, r.kind = "create"
  PROVE  /\ r \in Requests \cap Create
         /\ r.key \in Keys
         /\ r.intent \in Intents
         /\ <<r.client, r.key>> \in Clients \X Keys
<1>1. r \in Create \cup Change
  BY RequestAssumption
<1>2. r \notin Change
  BY DEF Change
<1>3. QED
  BY <1>1, <1>2 DEF Create

LEMMA ChangeParts ==
  ASSUME NEW r \in Requests, r.kind /= "create"
  PROVE  r.target \in RequestIds
<1>1. r \in Create \cup Change
  BY RequestAssumption
<1>2. r \notin Create
  BY DEF Create
<1>3. QED
  BY <1>1, <1>2 DEF Change

LEMMA HandlerParts ==
  ASSUME TypeOK, NEW h \in pending
  PROVE  /\ h.req \in Requests /\ h.req \in Create
         /\ h.req.kind = "create"
         /\ h.copy \in Copies
         /\ h.at \in Int
BY DEF TypeOK, Handler, Create

LEMMA AnswersType ==
  ASSUME NEW r \in Requests, NEW code \in Code, NEW a \in RequestIds \cup {None},
         Answers(r, code, a)
  PROVE  answer' \in Answer \cup {None}
BY DEF Answers, Answer

LEMMA PrunedType ==
  ASSUME TypeOK
  PROVE  Pruned \in [Clients \X Nonces -> Int \cup {None}]
BY DEF TypeOK, Pruned

LEMMA RegisteredType ==
  ASSUME NEW table \in [Clients \X Nonces -> Int \cup {None}],
         NEW r \in Requests, NEW at \in Int
  PROVE  Registered(table, r, at) \in [Clients \X Nonces -> Int \cup {None}]
BY RequestParts DEF Registered

LEMMA BoundToType ==
  ASSUME TypeOK, NEW r \in Requests, r.kind = "create", Bound(r)
  PROVE  BoundTo(r) \in Binding
BY CreateParts DEF TypeOK, Bound, BoundTo

LEMMA RecordType ==
  ASSUME TypeOK, NEW r \in Requests, Subject(r) \in RequestIds, Record(r)
  PROVE  receipts' \subseteq Entry /\ events' \subseteq Entry /\ audit' \subseteq Entry
<1>1. [request |-> r.id, operation |-> r.kind, activation |-> Subject(r)] \in Entry
  BY RequestParts DEF Entry
<1>2. QED
  BY <1>1 DEF Record, TypeOK

-----------------------------------------------------------------------------
(* Type correctness *)

(* The part of TypeOK that the steps of a handler may disturb. *)
Registers ==
    /\ activations \in [RequestIds -> Activation \cup {None}]
    /\ idempotency \in [Clients \X Keys -> Binding \cup {None}]
    /\ receipts \subseteq Entry
    /\ events \subseteq Entry
    /\ audit \subseteq Entry

LEMMA ChangeTyped ==
  ASSUME TypeOK, NEW r \in Requests, ApplyChange(r)
  PROVE  Registers'
<1>1. r.target \in RequestIds /\ r.kind /= "create"
  BY ChangeParts DEF ApplyChange
<1>2. activations[r.target] \in Activation
  BY <1>1 DEF TypeOK, ApplyChange
<1>3. After(r.kind) \in Status
  BY DEF After, Status
<1>4. [activations[r.target] EXCEPT !.status = After(r.kind)] \in Activation
  BY <1>2, <1>3 DEF Activation
<1>5. activations' \in [RequestIds -> Activation \cup {None}]
  BY <1>1, <1>4 DEF TypeOK, ApplyChange
<1>6. receipts' \subseteq Entry /\ events' \subseteq Entry /\ audit' \subseteq Entry
  BY <1>1, RecordType DEF ApplyChange, Subject
<1>7. QED
  BY <1>5, <1>6 DEF Registers, ApplyChange, TypeOK

LEMMA CreateTyped ==
  ASSUME TypeOK, NEW r \in Requests, r.kind = "create", WriteActivation(r)
  PROVE  Registers'
<1>1. r.id \in RequestIds
  BY RequestParts
<1>2. [client |-> r.client, key |-> r.key, intent |-> r.intent, status |-> "ACTIVE"]
        \in Activation
  BY RequestParts, CreateParts DEF Activation, Status
<1>3. [intent |-> r.intent, activation |-> r.id] \in Binding
  BY <1>1, CreateParts DEF Binding
<1>4. activations' \in [RequestIds -> Activation \cup {None}]
  BY <1>1, <1>2 DEF TypeOK, WriteActivation
<1>5. idempotency' \in [Clients \X Keys -> Binding \cup {None}]
  BY <1>3, CreateParts DEF TypeOK, WriteActivation
<1>6. receipts' \subseteq Entry /\ events' \subseteq Entry /\ audit' \subseteq Entry
  BY <1>1, RecordType DEF WriteActivation, Subject
<1>7. QED
  BY <1>4, <1>5, <1>6 DEF Registers

LEMMA ArriveTyped ==
  ASSUME TypeOK, NEW r \in Requests, NEW c \in Copies, Arrive(r, c)
  PROVE  /\ Registers'
         /\ pending' \subseteq Handler
         /\ nonces' \in [Clients \X Nonces -> Int \cup {None}]
         /\ answer' \in Answer \cup {None}
<1> USE PrunedType, RegisteredType
<1>0. now \in Int /\ (UNCHANGED registries => Registers')
  BY DEF TypeOK, Registers
<1>1. CASE RefuseDisabled(r)
  <2>1. answer' \in Answer \cup {None}
    BY <1>1, AnswersType DEF RefuseDisabled, Code
  <2>2. QED
    BY <1>0, <1>1, <2>1 DEF RefuseDisabled, TypeOK
<1>2. CASE RefuseAuthentication(r)
  <2>1. answer' \in Answer \cup {None}
    BY <1>2, AnswersType DEF RefuseAuthentication, Code
  <2>2. QED
    BY <1>0, <1>2, <2>1 DEF RefuseAuthentication, TypeOK
<1>3. CASE RefuseEarly(r)
  <2>1. answer' \in Answer \cup {None}
    BY <1>3, AnswersType DEF RefuseEarly, Code
  <2>2. QED
    BY <1>0, <1>3, <2>1 DEF RefuseEarly, TypeOK
<1>4. ASSUME NEW code \in Code, NEW a \in RequestIds \cup {None},
             AnswerFromRecord(r, code, a)
      PROVE  /\ Registers'
             /\ pending' \subseteq Handler
             /\ nonces' \in [Clients \X Nonces -> Int \cup {None}]
             /\ answer' \in Answer \cup {None}
  BY <1>0, <1>4, AnswersType DEF AnswerFromRecord, TypeOK
<1>5. CASE AnswerCreate(r)
  <2>1. Bound(r) => BoundTo(r).activation \in RequestIds
    BY <1>5, BoundToType DEF AnswerCreate, Binding
  <2>2. QED
    BY <1>4, <1>5, <2>1 DEF AnswerCreate, Code
<1>6. CASE AnswerChange(r)
  BY <1>4, <1>6, ChangeParts DEF AnswerChange, Code
<1>7. CASE Suspend(r, c)
  <2>1. [req |-> r, copy |-> c, at |-> now] \in Handler
    BY <1>0, <1>7, CreateParts DEF Suspend, Handler
  <2>2. QED
    BY <1>0, <1>7, <2>1 DEF Suspend, TypeOK
<1>8. CASE ApplyChange(r)
  <2>1. answer' \in Answer \cup {None}
    BY <1>8, AnswersType, ChangeParts DEF ApplyChange, Code
  <2>2. QED
    BY <1>0, <1>8, <2>1, ChangeTyped DEF ApplyChange, TypeOK
<1>9. CASE FailChange(r)
  <2>1. answer' \in Answer \cup {None}
    BY <1>9, AnswersType DEF FailChange, Code
  <2>2. QED
    BY <1>0, <1>9, <2>1 DEF FailChange, RolledBack, TypeOK
<1>10. QED
  BY <1>1, <1>2, <1>3, <1>5, <1>6, <1>7, <1>8, <1>9 DEF Arrive

LEMMA ResumeTyped ==
  ASSUME TypeOK, NEW h \in pending, Resume(h)
  PROVE  /\ Registers'
         /\ pending' \subseteq Handler
         /\ nonces' \in [Clients \X Nonces -> Int \cup {None}]
         /\ answer' \in Answer \cup {None}
<1> DEFINE r == h.req
<1>0. r \in Requests /\ r.kind = "create" /\ h.at \in Int /\ r.id \in RequestIds
  BY HandlerParts, RequestParts
<1>1. pending' \subseteq Handler
  BY DEF Resume, TypeOK
<1>2. Registered(nonces, r, h.at) \in [Clients \X Nonces -> Int \cup {None}]
  BY <1>0, RegisteredType DEF TypeOK
<1>3. UNCHANGED registries => Registers'
  BY DEF TypeOK, Registers
<1>4. CASE CommitCreate(h)
  <2>1. answer' \in Answer \cup {None}
    BY <1>0, <1>4, AnswersType DEF CommitCreate, Code
  <2>2. QED
    BY <1>0, <1>1, <1>2, <1>4, <2>1, CreateTyped DEF CommitCreate
<1>5. CASE RefuseDownstream(h)
  <2>1. answer' \in Answer \cup {None}
    BY <1>0, <1>5, AnswersType DEF RefuseDownstream, Code
  <2>2. QED
    BY <1>0, <1>1, <1>2, <1>3, <1>5, <2>1 DEF RefuseDownstream
<1>6. CASE FailCreate(h)
  <2>1. answer' \in Answer \cup {None}
    BY <1>0, <1>6, AnswersType DEF FailCreate, Code
  <2>2. QED
    BY <1>1, <1>3, <1>6, <2>1 DEF FailCreate, RolledBack, TypeOK
<1>7. QED
  BY <1>4, <1>5, <1>6 DEF Resume

LEMMA TypeInit == Init => TypeOK
BY DEF Init, TypeOK

LEMMA TypeStep == TypeOK /\ [Next]_serverVars => TypeOK'
<1> SUFFICES ASSUME TypeOK, [Next]_serverVars PROVE TypeOK'
  OBVIOUS
<1>1. ASSUME NEW r \in Requests, NEW c \in Copies, Deliver(r, c) PROVE TypeOK'
  <2>1. arrived' \subseteq Requests \X Copies
    BY <1>1 DEF Deliver, TypeOK
  <2>2. QED
    BY <1>1, <2>1, ArriveTyped DEF Deliver, TypeOK, Registers
<1>2. ASSUME NEW h \in pending, Conclude(h) PROVE TypeOK'
  BY <1>2, ResumeTyped DEF Conclude, TypeOK, Registers
<1>3. CASE Administer
  BY <1>3 DEF Administer, TypeOK
<1>4. CASE RestartServer
  BY <1>4 DEF RestartServer, TypeOK
<1>5. CASE Tick
  BY <1>5 DEF Tick, TypeOK
<1>6. CASE UNCHANGED serverVars
  BY <1>6 DEF TypeOK
<1>7. QED
  BY <1>1, <1>2, <1>3, <1>4, <1>5, <1>6 DEF Next

(* The store keeps its types through every request, failure, restart and   *)
(* change of the directory.                                                *)
THEOREM TypeCorrect == Spec => []TypeOK
BY TypeInit, TypeStep, PTL DEF Spec

-----------------------------------------------------------------------------
(* The registries.  Only two kinds of step write them. *)

LEMMA RegistrySteps ==
  ASSUME [Next]_serverVars
  PROVE  \/ UNCHANGED registries
         \/ \E r \in Requests : ApplyChange(r)
         \/ \E h \in pending : WriteActivation(h.req)
<1>1. ASSUME NEW r \in Requests, NEW c \in Copies, Arrive(r, c), ~ApplyChange(r)
      PROVE  UNCHANGED registries
  BY <1>1 DEF Arrive, RefuseDisabled, RefuseAuthentication, RefuseEarly, AnswerCreate,
     AnswerChange, AnswerFromRecord, Suspend, FailChange, RolledBack
<1>2. ASSUME NEW h \in pending, Resume(h), ~WriteActivation(h.req)
      PROVE  UNCHANGED registries
  BY <1>2 DEF Resume, CommitCreate, RefuseDownstream, FailCreate, RolledBack
<1>3. CASE Administer \/ RestartServer \/ Tick
  BY <1>3 DEF Administer, RestartServer, Tick
<1>4. QED
  BY <1>1, <1>2, <1>3 DEF Next, Deliver, Conclude

(* An activation is what the create with its id asked for. *)
Attributed ==
    \A a \in RequestIds : activations[a] /= None =>
        \E r \in Requests :
            /\ r.kind = "create" /\ r.id = a
            /\ activations[a].client = r.client
            /\ activations[a].key = r.key
            /\ activations[a].intent = r.intent

RegistryInv == TypeOK /\ Attributed /\ NoDivergence /\ StatusWitnessed

EntryOf(r) == [request |-> r.id, operation |-> r.kind, activation |-> Subject(r)]

LEMMA RecordAdds ==
  ASSUME NEW r, Record(r)
  PROVE  /\ receipts' = receipts \cup {EntryOf(r)}
         /\ events' = events \cup {EntryOf(r)}
         /\ audit' = audit \cup {EntryOf(r)}
BY DEF Record, EntryOf

(* What a change of status does to the record of its target. *)
LEMMA ChangeEffect ==
  ASSUME TypeOK, NEW r \in Requests, ApplyChange(r)
  PROVE  /\ r.kind \in {"deactivate", "revoke"}
         /\ r.target \in RequestIds
         /\ activations[r.target] /= None
         /\ \A a \in RequestIds : activations'[a] /= None <=> activations[a] /= None
         /\ \A a \in RequestIds : activations[a] /= None =>
               /\ activations'[a].client = activations[a].client
               /\ activations'[a].key = activations[a].key
               /\ activations'[a].intent = activations[a].intent
         /\ \A a \in RequestIds \ {r.target} : activations'[a] = activations[a]
         /\ activations'[r.target].status = After(r.kind)
         /\ idempotency' = idempotency
         /\ EntryOf(r) = [request |-> r.id, operation |-> r.kind, activation |-> r.target]
<1>1. /\ r.target \in RequestIds /\ r.kind /= "create"
      /\ activations[r.target] \in Activation
      /\ activations' = [activations EXCEPT ![r.target].status = After(r.kind)]
  BY ChangeParts DEF TypeOK, ApplyChange
<1> DEFINE new == [activations[r.target] EXCEPT !.status = After(r.kind)]
<1>2. /\ new.client = activations[r.target].client
      /\ new.key = activations[r.target].key
      /\ new.intent = activations[r.target].intent
      /\ new.status = After(r.kind)
      /\ new \in Activation
  <2>1. After(r.kind) \in Status
    BY DEF After, Status
  <2>2. QED
    BY <1>1, <2>1 DEF Activation
<1>3. new /= None /\ activations[r.target] /= None
  BY <1>1, <1>2, NoneAssumption
<1>4. activations'[r.target] = new
  BY <1>1 DEF TypeOK
<1>5. \A a \in RequestIds \ {r.target} : activations'[a] = activations[a]
  BY <1>1 DEF TypeOK
<1>6. idempotency' = idempotency
  BY DEF ApplyChange
<1>7. EntryOf(r) = [request |-> r.id, operation |-> r.kind, activation |-> r.target]
  BY <1>1 DEF EntryOf, Subject
<1>8. r.kind \in {"deactivate", "revoke"}
  BY <1>1, RequestParts
<1> HIDE DEF new
<1>9. QED
  BY <1>1, <1>2, <1>3, <1>4, <1>5, <1>6, <1>7, <1>8

(* What a create writes. *)
LEMMA CreateEffect ==
  ASSUME TypeOK, NEW r \in Requests, r.kind = "create", WriteActivation(r)
  PROVE  /\ r.id \in RequestIds
         /\ <<r.client, r.key>> \in Clients \X Keys
         /\ activations'[r.id] /= None
         /\ activations'[r.id].client = r.client
         /\ activations'[r.id].key = r.key
         /\ activations'[r.id].intent = r.intent
         /\ activations'[r.id].status = "ACTIVE"
         /\ \A a \in RequestIds \ {r.id} : activations'[a] = activations[a]
         /\ idempotency'[<<r.client, r.key>>] = [intent |-> r.intent, activation |-> r.id]
         /\ \A k \in (Clients \X Keys) \ {<<r.client, r.key>>} : idempotency'[k] = idempotency[k]
         /\ EntryOf(r) = [request |-> r.id, operation |-> "create", activation |-> r.id]
<1> DEFINE new == [client |-> r.client, key |-> r.key, intent |-> r.intent, status |-> "ACTIVE"]
<1>1. r.id \in RequestIds /\ <<r.client, r.key>> \in Clients \X Keys
  BY RequestParts, CreateParts
<1>2. new \in Activation
  BY RequestParts, CreateParts DEF Activation, Status
<1>3. new /= None
  BY <1>2, NoneAssumption
<1>4. activations' = [activations EXCEPT ![r.id] = new]
  BY DEF WriteActivation
<1>5. activations'[r.id] = new /\ \A a \in RequestIds \ {r.id} : activations'[a] = activations[a]
  BY <1>1, <1>4 DEF TypeOK
<1>6. /\ idempotency'[<<r.client, r.key>>] = [intent |-> r.intent, activation |-> r.id]
      /\ \A k \in (Clients \X Keys) \ {<<r.client, r.key>>} : idempotency'[k] = idempotency[k]
  BY <1>1 DEF TypeOK, WriteActivation
<1>7. EntryOf(r) = [request |-> r.id, operation |-> "create", activation |-> r.id]
  BY DEF EntryOf, Subject
<1>8. QED
  BY <1>1, <1>3, <1>5, <1>6, <1>7

LEMMA AttributedStep ==
  ASSUME RegistryInv, [Next]_serverVars
  PROVE  Attributed'
<1> USE DEF RegistryInv
<1>1. CASE UNCHANGED registries
  BY <1>1 DEF Attributed
<1>2. ASSUME NEW r \in Requests, ApplyChange(r) PROVE Attributed'
  BY <1>2, ChangeEffect DEF Attributed
<1>3. ASSUME NEW h \in pending, WriteActivation(h.req) PROVE Attributed'
  <2>1. h.req \in Requests /\ h.req.kind = "create"
    BY HandlerParts
  <2> DEFINE r == h.req
  <2> HIDE DEF r
  <2>2. r \in Requests /\ r.kind = "create" /\ WriteActivation(r)
    BY <1>3, <2>1 DEF r
  <2>3. SUFFICES ASSUME NEW a \in RequestIds, activations'[a] /= None
                 PROVE  \E s \in Requests :
                           /\ s.kind = "create" /\ s.id = a
                           /\ activations'[a].client = s.client
                           /\ activations'[a].key = s.key
                           /\ activations'[a].intent = s.intent
    BY DEF Attributed
  <2>4. CASE a = r.id
    BY <2>2, <2>4, CreateEffect
  <2>5. CASE a /= r.id
    <3>1. activations'[a] = activations[a]
      BY <2>2, <2>5, CreateEffect
    <3>2. QED
      BY <2>3, <3>1 DEF Attributed
  <2>6. QED
    BY <2>4, <2>5
<1>4. QED
  BY <1>1, <1>2, <1>3, RegistrySteps

LEMMA NoDivergenceStep ==
  ASSUME RegistryInv, [Next]_serverVars
  PROVE  NoDivergence'
<1> USE DEF RegistryInv
<1>1. CASE UNCHANGED registries
  BY <1>1 DEF NoDivergence
<1>2. ASSUME NEW r \in Requests, ApplyChange(r) PROVE NoDivergence'
  <2>1. Record(r)
    BY <1>2 DEF ApplyChange
  <2>2. \A a \in RequestIds :
           [request |-> a, operation |-> "create", activation |-> a] \in receipts' <=>
           [request |-> a, operation |-> "create", activation |-> a] \in receipts
    BY <1>2, <2>1, RecordAdds, ChangeEffect
  <2>3. receipts' = events' /\ receipts' = audit'
    BY <2>1, RecordAdds DEF NoDivergence
  <2>4. \A k \in Clients \X Keys : idempotency[k] /= None =>
           idempotency[k].activation \in RequestIds
    BY DEF TypeOK, Binding
  <2>5. \A k \in Clients \X Keys : idempotency'[k] /= None =>
          LET a == activations'[idempotency'[k].activation] IN
          /\ a /= None
          /\ <<a.client, a.key>> = k
          /\ a.intent = idempotency'[k].intent
    BY <1>2, <2>4, ChangeEffect DEF NoDivergence
  <2>6. QED
    BY <1>2, <2>2, <2>3, <2>5, ChangeEffect DEF NoDivergence
<1>3. ASSUME NEW h \in pending, WriteActivation(h.req) PROVE NoDivergence'
  <2> DEFINE r == h.req
  <2>1. r \in Requests /\ r.kind = "create"
    BY HandlerParts
  <2> HIDE DEF r
  <2>2. WriteActivation(r) /\ Record(r)
    BY <1>3 DEF WriteActivation, r
  <2>3. ASSUME NEW a \in RequestIds
        PROVE  activations'[a] /= None <=>
                  [request |-> a, operation |-> "create", activation |-> a] \in receipts'
    <3>1. receipts' = receipts \cup
             {[request |-> r.id, operation |-> "create", activation |-> r.id]}
      BY <2>1, <2>2, RecordAdds, CreateEffect
    <3>2. CASE a = r.id
      BY <2>1, <2>2, <3>1, <3>2, CreateEffect
    <3>3. CASE a /= r.id
      <4>1. activations'[a] = activations[a]
        BY <2>1, <2>2, <3>3, CreateEffect
      <4>2. [request |-> a, operation |-> "create", activation |-> a] \in receipts' <=>
            [request |-> a, operation |-> "create", activation |-> a] \in receipts
        BY <3>1, <3>3
      <4>3. QED
        BY <4>1, <4>2 DEF NoDivergence
    <3>4. QED
      BY <3>2, <3>3
  <2>4. receipts' = events' /\ receipts' = audit'
    BY <2>2, RecordAdds DEF NoDivergence
  <2>5. ASSUME NEW k \in Clients \X Keys, idempotency'[k] /= None
        PROVE  /\ activations'[idempotency'[k].activation] /= None
               /\ <<activations'[idempotency'[k].activation].client,
                    activations'[idempotency'[k].activation].key>> = k
               /\ activations'[idempotency'[k].activation].intent = idempotency'[k].intent
    <3>1. CASE k = <<r.client, r.key>>
      <4>0. idempotency'[<<r.client, r.key>>] = [intent |-> r.intent, activation |-> r.id]
        BY <2>1, <2>2, CreateEffect
      <4>1. idempotency'[k].activation = r.id /\ idempotency'[k].intent = r.intent
        BY <3>1, <4>0
      <4>2. /\ activations'[r.id] /= None
            /\ activations'[r.id].client = r.client
            /\ activations'[r.id].key = r.key
            /\ activations'[r.id].intent = r.intent
        BY <2>1, <2>2, CreateEffect
      <4>3. QED
        BY <3>1, <4>1, <4>2
    <3>2. CASE k /= <<r.client, r.key>>
      <4> DEFINE b == idempotency[k].activation
      <4>1. idempotency'[k] = idempotency[k]
        BY <2>1, <2>2, <3>2, CreateEffect
      <4>2. /\ b \in RequestIds
            /\ activations[b] /= None
            /\ <<activations[b].client, activations[b].key>> = k
            /\ activations[b].intent = idempotency[k].intent
        BY <2>5, <4>1 DEF NoDivergence, TypeOK, Binding
      (* The create with this id has another key, so it is not r. *)
      <4>3. b /= r.id
        <5>1. PICK s \in Requests : /\ s.kind = "create" /\ s.id = b
                                    /\ activations[b].client = s.client
                                    /\ activations[b].key = s.key
          BY <4>2 DEF Attributed
        <5>2. s /= r
          BY <3>2, <4>2, <5>1
        <5>3. QED
          BY <2>1, <5>1, <5>2, FreshAssumption
      <4>4. activations'[b] = activations[b]
        BY <2>1, <2>2, <4>2, <4>3, CreateEffect
      <4>5. QED
        BY <4>1, <4>2, <4>4
    <3>3. QED
      BY <3>1, <3>2
  <2>6. QED
    BY <2>3, <2>4, <2>5 DEF NoDivergence
<1>4. QED
  BY <1>1, <1>2, <1>3, RegistrySteps

LEMMA StatusWitnessedStep ==
  ASSUME RegistryInv, [Next]_serverVars
  PROVE  StatusWitnessed'
<1> USE DEF RegistryInv
<1>1. CASE UNCHANGED registries
  BY <1>1 DEF StatusWitnessed, After
<1>2. ASSUME NEW r \in Requests, ApplyChange(r) PROVE StatusWitnessed'
  <2>1. receipts' = receipts \cup {EntryOf(r)}
    BY <1>2, RecordAdds DEF ApplyChange
  <2>2. QED
    BY <1>2, <2>1, ChangeEffect DEF StatusWitnessed, After
<1>3. ASSUME NEW h \in pending, WriteActivation(h.req) PROVE StatusWitnessed'
  <2>1. h.req \in Requests /\ h.req.kind = "create"
    BY HandlerParts
  <2> DEFINE r == h.req
  <2> HIDE DEF r
  <2>2. r \in Requests /\ r.kind = "create" /\ WriteActivation(r)
    BY <1>3, <2>1 DEF r
  <2>3. receipts \subseteq receipts'
    BY <2>2, RecordAdds DEF WriteActivation
  <2>4. SUFFICES ASSUME NEW a \in RequestIds, activations'[a] /= None,
                        activations'[a].status /= "ACTIVE"
                 PROVE  \E entry \in receipts' :
                           /\ entry.activation = a
                           /\ entry.operation /= "create"
                           /\ After(entry.operation) = activations'[a].status
    BY DEF StatusWitnessed, After
  <2>5. activations'[a] = activations[a]
    BY <2>2, <2>4, CreateEffect
  <2>6. QED
    BY <2>3, <2>4, <2>5 DEF StatusWitnessed
<1>4. QED
  BY <1>1, <1>2, <1>3, RegistrySteps

LEMMA RegistryInit == Init => RegistryInv
BY DEF Init, TypeOK, RegistryInv, Attributed, NoDivergence, StatusWitnessed

(* The inductive invariant of the registries. *)
THEOREM RegistryInvariance == Spec => []RegistryInv
<1>1. RegistryInv /\ [Next]_serverVars => RegistryInv'
  BY TypeStep, AttributedStep, NoDivergenceStep, StatusWitnessedStep DEF RegistryInv
<1>2. QED
  BY <1>1, RegistryInit, PTL DEF Spec

(* Activations, bindings, receipts, events and audit never diverge, and no *)
(* activation leaves ACTIVE without an operation on record.                *)
THEOREM RegistriesAgree == Spec => []RegistriesConsistent
<1>1. RegistryInv => RegistriesConsistent
  BY DEF RegistryInv, RegistriesConsistent
<1>2. QED
  BY <1>1, RegistryInvariance, PTL

-----------------------------------------------------------------------------
(* Answers *)

LEMMA AnswerStep ==
  ASSUME RegistryInv, [Next]_serverVars, AnswersMatchIntent
  PROVE  AnswersMatchIntent'
<1> USE DEF RegistryInv
(* Answers that carry no activation, or are not about a create. *)
<1>1. ASSUME NEW r \in Requests, NEW code \in Code, NEW a \in RequestIds \cup {None},
             Answers(r, code, a), code \notin {"SUCCESS", "DUPLICATE"} \/ r.kind /= "create"
      PROVE  AnswersMatchIntent'
  BY <1>1 DEF Answers, AnswersMatchIntent
<1>2. ASSUME NEW r \in Requests, NEW c \in Copies, Arrive(r, c) PROVE AnswersMatchIntent'
  <2>1. CASE RefuseDisabled(r)
    BY <1>1, <2>1 DEF RefuseDisabled, Code
  <2>2. CASE RefuseAuthentication(r)
    BY <1>1, <2>2 DEF RefuseAuthentication, Code
  <2>3. CASE RefuseEarly(r)
    BY <1>1, <2>3 DEF RefuseEarly, Code
  <2>4. CASE AnswerCreate(r)
    <3>1. CASE AnswerFromRecord(r, "FORBIDDEN", None)
      BY <1>1, <3>1 DEF AnswerFromRecord, Code
    <3>2. CASE Bound(r) /\ AnswerFromRecord(r, "IDEMPOTENCY_KEY_CONFLICT", BoundTo(r).activation)
      BY <3>2 DEF AnswerFromRecord, Answers, AnswersMatchIntent
    <3>3. CASE /\ Bound(r) /\ ~Conflicting(r)
               /\ AnswerFromRecord(r, "DUPLICATE", BoundTo(r).activation)
      <4> DEFINE a == BoundTo(r).activation
      <4>1. r.kind = "create" /\ <<r.client, r.key>> \in Clients \X Keys
        BY <2>4, CreateParts DEF AnswerCreate
      <4>2. /\ activations[a] /= None
            /\ <<activations[a].client, activations[a].key>> = <<r.client, r.key>>
            /\ activations[a].intent = r.intent
        BY <3>3, <4>1 DEF NoDivergence, Bound, BoundTo, Conflicting
      <4>3. UNCHANGED activations /\ answer' = [req |-> r, code |-> "DUPLICATE", activation |-> a]
        BY <3>3 DEF AnswerFromRecord, Answers
      <4>4. a \in RequestIds
        BY <3>3, <4>1 DEF TypeOK, Bound, BoundTo, Binding
      <4>5. QED
        BY <4>2, <4>3, <4>4 DEF AnswersMatchIntent
    <3>4. QED
      BY <2>4, <3>1, <3>2, <3>3 DEF AnswerCreate
  <2>5. CASE AnswerChange(r)
    BY <2>5 DEF AnswerChange, AnswerFromRecord, Answers, AnswersMatchIntent
  <2>6. CASE Suspend(r, c)
    BY <2>6 DEF Suspend, AnswersMatchIntent
  <2>7. CASE ApplyChange(r)
    BY <2>7 DEF ApplyChange, Answers, AnswersMatchIntent
  <2>8. CASE FailChange(r)
    BY <2>8 DEF FailChange, Answers, AnswersMatchIntent
  <2>9. QED
    BY <1>2, <2>1, <2>2, <2>3, <2>4, <2>5, <2>6, <2>7, <2>8 DEF Arrive
<1>3. ASSUME NEW h \in pending, Resume(h) PROVE AnswersMatchIntent'
  <2> DEFINE r == h.req
  <2>1. r \in Requests /\ r.kind = "create" /\ r.id \in RequestIds
    BY HandlerParts, RequestParts
  <2>2. CASE CommitCreate(h)
    <3>1. /\ activations'[r.id] /= None
          /\ activations'[r.id].client = r.client
          /\ activations'[r.id].key = r.key
          /\ activations'[r.id].intent = r.intent
      BY <2>1, <2>2, CreateEffect DEF CommitCreate
    <3>2. answer' = [req |-> r, code |-> "SUCCESS", activation |-> r.id]
      BY <2>2 DEF CommitCreate, Answers
    <3>3. QED
      BY <2>1, <3>1, <3>2 DEF AnswersMatchIntent
  <2>3. CASE RefuseDownstream(h)
    BY <2>3 DEF RefuseDownstream, Answers, AnswersMatchIntent
  <2>4. CASE FailCreate(h)
    BY <2>4 DEF FailCreate, Answers, AnswersMatchIntent
  <2>5. QED
    BY <1>3, <2>2, <2>3, <2>4 DEF Resume
<1>4. CASE Administer \/ RestartServer \/ Tick
  BY <1>4 DEF Administer, RestartServer, Tick, AnswersMatchIntent
<1>5. CASE UNCHANGED serverVars
  BY <1>5 DEF AnswersMatchIntent
<1>6. QED
  BY <1>2, <1>3, <1>4, <1>5 DEF Next, Deliver, Conclude

(* Whatever is answered about an activation is about the asker's own. *)
THEOREM AnswersTrue == Spec => []AnswersMatchIntent
<1>1. Init => AnswersMatchIntent
  BY DEF Init, AnswersMatchIntent
<1>2. QED
  BY <1>1, AnswerStep, RegistryInvariance, PTL DEF Spec

-----------------------------------------------------------------------------
(* Nonces *)

(* A nonce is dated at most one skew before its request. *)
Dated ==
    \A r \in Requests : nonces[<<r.client, r.nonce>>] /= None =>
        r.at - nonces[<<r.client, r.nonce>>] <= Skew

(* So is the arrival of a create that is suspended. *)
Patient == \A h \in pending : h.req.at - h.at <= Skew

Processed(r) == \E entry \in receipts : entry.request = r.id

(* What was processed is known by its nonce, or too old to come again. *)
Held ==
    \A r \in Requests : Processed(r) =>
        nonces[<<r.client, r.nonce>>] /= None \/ now - r.at > Skew

NonceInv == Dated /\ Patient /\ Held

(* How a step may change the nonces: prune them, and register one. *)
LEMMA NonceSteps ==
  ASSUME TypeOK, [Next]_serverVars
  PROVE  \/ /\ nonces' \in {nonces, Pruned}
            /\ UNCHANGED receipts
         \/ \E r \in Requests : /\ Timely(r)
                                /\ nonces' = Registered(Pruned, r, now)
                                /\ receipts' \subseteq receipts \cup {EntryOf(r)}
         \/ \E h \in pending : /\ nonces' = Registered(nonces, h.req, h.at)
                               /\ receipts' \subseteq receipts \cup {EntryOf(h.req)}
<1>1. ASSUME NEW r \in Requests, NEW c \in Copies, Arrive(r, c)
      PROVE  \/ nonces' \in {nonces, Pruned} /\ UNCHANGED receipts
             \/ /\ Timely(r)
                /\ nonces' = Registered(Pruned, r, now)
                /\ receipts' \subseteq receipts \cup {EntryOf(r)}
  <2>1. ApplyChange(r) => receipts' = receipts \cup {EntryOf(r)}
    BY RecordAdds DEF ApplyChange
  <2>2. QED
    BY <1>1, <2>1 DEF Arrive, RefuseDisabled, RefuseAuthentication, RefuseEarly,
       AnswerCreate, AnswerChange, AnswerFromRecord, Suspend, ApplyChange, FailChange,
       RolledBack, Admitted, Authentic
<1>2. ASSUME NEW h \in pending, Resume(h)
      PROVE  \/ nonces' = nonces /\ UNCHANGED receipts
             \/ /\ nonces' = Registered(nonces, h.req, h.at)
                /\ receipts' \subseteq receipts \cup {EntryOf(h.req)}
  <2>1. CommitCreate(h) => receipts' = receipts \cup {EntryOf(h.req)}
    BY RecordAdds DEF CommitCreate, WriteActivation
  <2>2. QED
    BY <1>2, <2>1 DEF Resume, CommitCreate, RefuseDownstream, FailCreate, RolledBack
<1>3. CASE Administer \/ RestartServer \/ Tick
  BY <1>3 DEF Administer, RestartServer, Tick
<1>4. QED
  BY <1>1, <1>2, <1>3 DEF Next, Deliver, Conclude

(* Time passes, and a handler is suspended when its request is timely. *)
LEMMA PatientStep ==
  ASSUME TypeOK, [Next]_serverVars, Patient
  PROVE  Patient' /\ now' \in Int /\ now' >= now
<1>0. now \in Int /\ now' \in {now, now + 1}
  <2>1. now \in Int
    BY DEF TypeOK
  <2>2. now' \in {now, now + 1}
    BY DEF Next, Deliver, Conclude, Administer, RestartServer, Tick
  <2>3. QED
    BY <2>1, <2>2
<1>1. now' \in Int /\ now' >= now
  BY <1>0
<1>2. ASSUME NEW r \in Requests, NEW c \in Copies, Arrive(r, c) PROVE Patient'
  <2>1. CASE Suspend(r, c)
    <3>1. Timely(r)
      BY <2>1 DEF Suspend, Admitted, Authentic
    <3>2. pending' = pending \cup {[req |-> r, copy |-> c, at |-> now]}
      BY <2>1 DEF Suspend
    <3>3. QED
      BY <3>1, <3>2 DEF Patient, Timely
  <2>2. CASE pending' = pending
    BY <2>2 DEF Patient
  <2>3. QED
    BY <1>2, <2>1, <2>2 DEF Arrive, RefuseDisabled, RefuseAuthentication, RefuseEarly,
       AnswerCreate, AnswerChange, AnswerFromRecord, ApplyChange, FailChange
<1>3. ASSUME pending' \subseteq pending PROVE Patient'
  BY <1>3 DEF Patient
<1>4. QED
  BY <1>1, <1>2, <1>3 DEF Next, Deliver, Conclude, Resume, Administer, RestartServer, Tick

(* A table in which a nonce is missing only when its request is too old.   *)
LEMMA PruneDrops ==
  ASSUME TypeOK, Dated, NEW r \in Requests
  PROVE  /\ Pruned[<<r.client, r.nonce>>] \in {nonces[<<r.client, r.nonce>>], None}
         /\ \/ Pruned[<<r.client, r.nonce>>] = nonces[<<r.client, r.nonce>>]
            \/ now - r.at > Skew
<1> DEFINE n == <<r.client, r.nonce>>
<1>1. n \in Clients \X Nonces /\ r.at \in Int
  BY RequestParts
<1>2. Pruned[n] = IF Expired(n) THEN None ELSE nonces[n]
  BY <1>1 DEF Pruned
<1>3. ASSUME Expired(n) PROVE now - r.at > Skew
  <2>1. nonces[n] \in Int /\ now \in Int
    BY <1>1, <1>3 DEF TypeOK, Expired
  <2>2. now - nonces[n] > Window /\ r.at - nonces[n] <= Skew
    BY <1>3 DEF Expired, Dated
  <2>3. QED
    BY <1>1, <2>1, <2>2, ClockAssumption, WindowAssumption
<1>4. QED
  BY <1>2, <1>3

(* Registering one nonce touches no other request's. *)
LEMMA RegisterAdds ==
  ASSUME NEW table \in [Clients \X Nonces -> Int \cup {None}],
         NEW r \in Requests, NEW s \in Requests, NEW at \in Int
  PROVE  LET n == <<s.client, s.nonce>> IN
         /\ table[n] /= None => Registered(table, r, at)[n] = table[n]
         /\ s /= r => Registered(table, r, at)[n] = table[n]
         /\ Registered(table, s, at)[n] \in {table[n], at}
         /\ Registered(table, s, at)[n] /= None
<1>1. /\ <<s.client, s.nonce>> \in Clients \X Nonces
      /\ <<r.client, r.nonce>> \in Clients \X Nonces
  BY RequestParts
<1>2. s /= r => <<s.client, s.nonce>> /= <<r.client, r.nonce>>
  BY FreshAssumption
<1>3. at /= None
  BY NoneAssumption
<1>4. QED
  BY <1>1, <1>2, <1>3 DEF Registered

LEMMA NonceStep ==
  ASSUME TypeOK, TypeOK', [Next]_serverVars, NonceInv
  PROVE  NonceInv'
<1> USE DEF NonceInv
<1>1. Patient' /\ now \in Int /\ now' \in Int /\ now' >= now
  BY PatientStep DEF TypeOK
<1>2. \A r \in Requests : r.at \in Int /\ r.id \in RequestIds
  BY RequestParts
(* Once too old, always too old. *)
<1>3. \A r \in Requests : now - r.at > Skew => now' - r.at > Skew
  BY <1>1, <1>2, ClockAssumption
<1>4. CASE nonces' \in {nonces, Pruned} /\ UNCHANGED receipts
  <2>1. ASSUME NEW r \in Requests
        PROVE  \/ nonces'[<<r.client, r.nonce>>] = nonces[<<r.client, r.nonce>>]
               \/ nonces'[<<r.client, r.nonce>>] = None /\ now - r.at > Skew
    BY <1>4, PruneDrops
  <2>2. Dated'
    BY <2>1 DEF Dated
  <2>3. Held'
    BY <1>3, <1>4, <2>1 DEF Held, Processed
  <2>4. QED
    BY <1>1, <2>2, <2>3
<1>5. ASSUME NEW table \in [Clients \X Nonces -> Int \cup {None}],
             NEW r \in Requests, NEW at \in Int,
             nonces' = Registered(table, r, at), r.at - at <= Skew,
             receipts' \subseteq receipts \cup {EntryOf(r)},
             \A s \in Requests :
                \/ table[<<s.client, s.nonce>>] = nonces[<<s.client, s.nonce>>]
                \/ table[<<s.client, s.nonce>>] = None /\ now - s.at > Skew
      PROVE  NonceInv'
  <2>1. ASSUME NEW s \in Requests, s /= r
        PROVE  nonces'[<<s.client, s.nonce>>] = table[<<s.client, s.nonce>>]
    BY <1>5, <2>1, RegisterAdds
  <2>2. /\ nonces'[<<r.client, r.nonce>>] \in {table[<<r.client, r.nonce>>], at}
        /\ nonces'[<<r.client, r.nonce>>] /= None
    BY <1>5, RegisterAdds
  <2>3. Dated'
    BY <1>5, <2>1, <2>2 DEF Dated
  <2>4. \A s \in Requests : s /= r /\ Processed(s)' => Processed(s)
    BY <1>5, FreshAssumption DEF Processed, EntryOf
  <2>5. Held'
    BY <1>3, <1>5, <2>1, <2>2, <2>4 DEF Held
  <2>6. QED
    BY <1>1, <2>3, <2>5
<1>6. ASSUME NEW r \in Requests, Timely(r), nonces' = Registered(Pruned, r, now),
             receipts' \subseteq receipts \cup {EntryOf(r)}
      PROVE  NonceInv'
  <2>1. r.at - now <= Skew
    BY <1>6 DEF Timely
  <2>2. \A s \in Requests :
           \/ Pruned[<<s.client, s.nonce>>] = nonces[<<s.client, s.nonce>>]
           \/ Pruned[<<s.client, s.nonce>>] = None /\ now - s.at > Skew
    BY PruneDrops
  <2>3. QED
    BY <1>1, <1>5, <1>6, <2>1, <2>2, PrunedType
<1>7. ASSUME NEW h \in pending, nonces' = Registered(nonces, h.req, h.at),
             receipts' \subseteq receipts \cup {EntryOf(h.req)}
      PROVE  NonceInv'
  <2>1. h.req \in Requests /\ h.at \in Int /\ h.req.at - h.at <= Skew
    BY HandlerParts DEF Patient
  <2>2. nonces \in [Clients \X Nonces -> Int \cup {None}]
    BY DEF TypeOK
  <2>3. QED
    BY <1>5, <1>7, <2>1, <2>2
<1>8. QED
  BY <1>4, <1>6, <1>7, NonceSteps

(* A processed request is never authenticated again.                       *)
THEOREM NeverReplayed == Spec => []ProcessedNeverReplayed
<1>1. Init => NonceInv
  BY RequestParts DEF Init, NonceInv, Dated, Patient, Held, Processed
<1>2. TypeOK /\ NonceInv => ProcessedNeverReplayed
  <2> SUFFICES ASSUME TypeOK, NonceInv, NEW r \in Requests, Processed(r), Timely(r)
               PROVE  Replayed(r)
    BY DEF ProcessedNeverReplayed, Processed
  <2> DEFINE n == <<r.client, r.nonce>>
  <2>1. n \in Clients \X Nonces /\ r.at \in Int /\ now \in Int
    BY RequestParts DEF TypeOK
  <2>2. nonces[n] /= None /\ r.at - nonces[n] <= Skew
    BY <2>1, ClockAssumption DEF NonceInv, Held, Dated, Timely
  <2>3. nonces[n] \in Int
    BY <2>1, <2>2 DEF TypeOK
  <2>4. ~(now - nonces[n] > Window)
    BY <2>1, <2>2, <2>3, ClockAssumption, WindowAssumption DEF Timely
  <2>5. QED
    BY <2>2, <2>4 DEF Replayed, Expired
<1>3. QED
  BY <1>1, <1>2, NonceStep, TypeCorrect, PTL DEF Spec

-----------------------------------------------------------------------------
(* Deliveries, as often as the network repeats them *)

(* A delivery has at most one handler, and what has an entry has it from a *)
(* delivery that is over.                                                  *)
DeliveryInv ==
    /\ \A h \in pending : <<h.req, h.copy>> \in arrived
    /\ \A g, h \in pending : g.req = h.req /\ g.copy = h.copy => g = h
    /\ \A r \in Requests : Processed(r) => \E c \in Copies : Over(r, c)

(* Nothing has been created by a create that has no entry. *)
LEMMA UnprocessedUnknown ==
  ASSUME RegistryInv, NEW r \in Requests, ~Processed(r)
  PROVE  r.id \in RequestIds /\ activations[r.id] = None
<1>1. r.id \in RequestIds
  BY RequestParts
<1>2. [request |-> r.id, operation |-> "create", activation |-> r.id] \notin receipts
  BY DEF Processed
<1>3. QED
  BY <1>1, <1>2 DEF RegistryInv, NoDivergence

(* An entry of one request processes no other. *)
LEMMA EntryProcesses ==
  ASSUME NEW r \in Requests, NEW s \in Requests, s /= r,
         receipts' = receipts \cup {EntryOf(r)}, ~Processed(s)
  PROVE  ~Processed(s)'
<1>1. s.id /= r.id
  BY FreshAssumption
<1>2. QED
  BY <1>1 DEF Processed, EntryOf

(* A new delivery brings at most one handler, its own. *)
LEMMA DeliveryAdds ==
  ASSUME NEW r \in Requests, NEW c \in Copies, Deliver(r, c)
  PROVE  /\ <<r, c>> \notin arrived
         /\ arrived' = arrived \cup {<<r, c>>}
         /\ \/ UNCHANGED pending
            \/ /\ pending' = pending \cup {[req |-> r, copy |-> c, at |-> now]}
               /\ Suspend(r, c)
         /\ \A h \in pending' \ pending : h.req = r /\ h.copy = c /\ Suspend(r, c)
<1>1. /\ <<r, c>> \notin arrived
      /\ arrived' = arrived \cup {<<r, c>>}
      /\ \/ UNCHANGED pending
         \/ /\ pending' = pending \cup {[req |-> r, copy |-> c, at |-> now]}
            /\ Suspend(r, c)
  BY DEF Deliver, Arrive, RefuseDisabled, RefuseAuthentication, RefuseEarly, AnswerCreate,
     AnswerChange, AnswerFromRecord, Suspend, ApplyChange, FailChange
<1>2. ASSUME NEW h \in pending' \ pending PROVE h.req = r /\ h.copy = c /\ Suspend(r, c)
  <2>1. h = [req |-> r, copy |-> c, at |-> now] /\ Suspend(r, c)
    BY <1>1, <1>2
  <2>2. QED
    BY <2>1
<1>3. QED
  BY <1>1, <1>2

LEMMA StepShape ==
  ASSUME [Next]_serverVars
  PROVE  \/ \E r \in Requests, c \in Copies : Deliver(r, c)
         \/ \E h \in pending : /\ pending' = pending \ {h}
                               /\ arrived' = arrived
                               /\ Conclude(h)
         \/ pending' \subseteq pending /\ UNCHANGED <<arrived, registries>>
BY DEF Next, Conclude, Resume, Administer, RestartServer, Tick

(* What is over stays over. *)
LEMMA OverStays ==
  ASSUME [Next]_serverVars, NEW r, NEW c, Over(r, c)
  PROVE  Over(r, c)'
<1>1. CASE arrived' = arrived /\ pending' \subseteq pending
  BY <1>1 DEF Over
<1>2. ASSUME NEW s \in Requests, NEW d \in Copies, Deliver(s, d) PROVE Over(r, c)'
  <2>1. ~(s = r /\ d = c) /\ <<r, c>> \in arrived'
    BY <1>2, DeliveryAdds DEF Over
  <2>2. ASSUME NEW h \in pending' \ pending PROVE h.req = s /\ h.copy = d
    BY <1>2, <2>2, DeliveryAdds
  <2>3. ASSUME NEW h \in pending', h.req = r PROVE h.copy /= c
    BY <2>1, <2>2, <2>3 DEF Over
  <2>4. QED
    BY <2>1, <2>3 DEF Over
<1>3. QED
  BY <1>1, <1>2, StepShape

LEMMA DeliveryStep ==
  ASSUME RegistryInv, DeliveryInv, [Next]_serverVars
  PROVE  DeliveryInv'
<1> USE DEF DeliveryInv
<1>1. ASSUME NEW s \in Requests, Processed(s) PROVE (\E c \in Copies : Over(s, c))'
  BY <1>1, OverStays
<1>2. ASSUME NEW r \in Requests, NEW c \in Copies, Deliver(r, c) PROVE DeliveryInv'
  <2>1. /\ <<r, c>> \notin arrived
        /\ arrived' = arrived \cup {<<r, c>>}
        /\ \A h \in pending : ~(h.req = r /\ h.copy = c)
    BY <1>2, DeliveryAdds
  <2>2. /\ \A h \in pending' : <<h.req, h.copy>> \in arrived'
        /\ \A g, h \in pending' : g.req = h.req /\ g.copy = h.copy => g = h
    BY <1>2, <2>1, DeliveryAdds
  <2>3. CASE UNCHANGED registries
    BY <1>1, <2>2, <2>3 DEF Processed
  <2>4. CASE ApplyChange(r)
    <3>1. receipts' = receipts \cup {EntryOf(r)} /\ UNCHANGED pending
      BY <2>4, RecordAdds DEF ApplyChange
    <3>2. Over(r, c)'
      BY <2>1, <3>1 DEF Over
    <3>3. \A s \in Requests : s /= r /\ Processed(s)' => Processed(s)
      BY <3>1, EntryProcesses
    <3>4. QED
      BY <1>1, <2>2, <3>2, <3>3
  <2>5. QED
    BY <1>2, <2>3, <2>4 DEF Deliver, Arrive, RefuseDisabled, RefuseAuthentication, RefuseEarly,
       AnswerCreate, AnswerChange, AnswerFromRecord, Suspend, FailChange, RolledBack
<1>3. ASSUME NEW h \in pending, pending' = pending \ {h}, arrived' = arrived, Conclude(h)
      PROVE  DeliveryInv'
  <2> DEFINE r == h.req
  <2>1. r \in Requests /\ h.copy \in Copies
    BY HandlerParts DEF RegistryInv
  <2>2. Over(r, h.copy)'
    BY <1>3 DEF Over
  <2>3. CASE UNCHANGED registries
    BY <1>1, <1>3, <2>3 DEF Processed
  <2>4. CASE WriteActivation(r)
    <3>1. receipts' = receipts \cup {EntryOf(r)}
      BY <2>4, RecordAdds DEF WriteActivation
    <3> HIDE DEF r
    <3>2. \A s \in Requests : s /= r /\ Processed(s)' => Processed(s)
      BY <2>1, <3>1, EntryProcesses
    <3>3. \A s \in Requests : Processed(s)' => (\E c \in Copies : Over(s, c))'
      BY <1>1, <2>1, <2>2, <3>2
    <3>4. QED
      BY <1>3, <3>3
  <2>5. QED
    BY <1>3, <2>3, <2>4 DEF Conclude, Resume, CommitCreate, RefuseDownstream, FailCreate,
       RolledBack
<1>4. CASE pending' \subseteq pending /\ UNCHANGED <<arrived, registries>>
  BY <1>1, <1>4 DEF Processed
<1>5. QED
  BY <1>2, <1>3, <1>4, StepShape

LEMMA DeliveryInvariance == Spec => []DeliveryInv
<1>1. Init => DeliveryInv
  BY DEF Init, DeliveryInv, Processed
<1>2. QED
  BY <1>1, DeliveryStep, RegistryInvariance, PTL DEF Spec

-----------------------------------------------------------------------------
(* Clean failures *)

(* The entry of a request that a handler is about, or that arrives, comes  *)
(* from another delivery.                                                  *)
LEMMA OtherDelivery ==
  ASSUME DeliveryInv, NEW r \in Requests, NEW c \in Copies, Processed(r), ~Over(r, c),
         arrived \cup {<<r, c>>} \subseteq arrived'
  PROVE  Repeated(r)'
<1>1. PICK d \in Copies : Over(r, d)
  BY DEF DeliveryInv
<1>2. d /= c /\ {<<r, c>>, <<r, d>>} \subseteq arrived'
  BY <1>1 DEF Over
<1>3. QED
  BY <1>2 DEF Repeated

LEMMA CleanStep ==
  ASSUME RegistryInv, DeliveryInv, [Next]_serverVars, CleanMeansNothing
  PROVE  CleanMeansNothing'
(* A refusal, with the store as it was. *)
<1>1. ASSUME NEW r \in Requests, NEW c \in Copies, NEW code, NEW a, Answers(r, code, a),
             UNCHANGED registries, ~Over(r, c), arrived \cup {<<r, c>>} \subseteq arrived'
      PROVE  CleanMeansNothing'
  <2>1. answer'.req = r /\ (Processed(r) => Repeated(r)')
    BY <1>1, OtherDelivery DEF Answers
  <2>2. QED
    BY <1>1, <2>1 DEF Processed, CleanMeansNothing
(* A success is not a clean failure. *)
<1>2. ASSUME NEW r, NEW a, Answers(r, "SUCCESS", a) PROVE CleanMeansNothing'
  BY <1>2 DEF Answers, CleanMeansNothing
<1>3. ASSUME answer' = None PROVE CleanMeansNothing'
  BY <1>3 DEF CleanMeansNothing
<1>4. ASSUME NEW r \in Requests, NEW c \in Copies, Deliver(r, c) PROVE CleanMeansNothing'
  <2>1. ~Over(r, c) /\ arrived \cup {<<r, c>>} \subseteq arrived'
    BY <1>4, DeliveryAdds DEF Over
  <2>2. CASE ApplyChange(r)
    BY <1>2, <2>2 DEF ApplyChange
  <2>3. CASE Suspend(r, c)
    BY <1>3, <2>3 DEF Suspend
  <2>4. CASE AnswerCreate(r) \/ AnswerChange(r)
    <3>1. UNCHANGED registries /\ \E code, a : Answers(r, code, a)
      BY <2>4 DEF AnswerCreate, AnswerChange, AnswerFromRecord
    <3>2. QED
      BY <1>1, <2>1, <3>1
  <2>5. CASE RefuseDisabled(r) \/ RefuseAuthentication(r) \/ RefuseEarly(r) \/ FailChange(r)
    <3>1. UNCHANGED registries /\ \E code, a : Answers(r, code, a)
      BY <2>5 DEF RefuseDisabled, RefuseAuthentication, RefuseEarly, FailChange, RolledBack
    <3>2. QED
      BY <1>1, <2>1, <3>1
  <2>6. QED
    BY <1>4, <2>2, <2>3, <2>4, <2>5 DEF Deliver, Arrive
<1>5. ASSUME NEW h \in pending, Conclude(h) PROVE CleanMeansNothing'
  <2>1. /\ h.req \in Requests /\ h.copy \in Copies
        /\ ~Over(h.req, h.copy)
        /\ arrived \cup {<<h.req, h.copy>>} \subseteq arrived'
    BY <1>5, HandlerParts DEF RegistryInv, DeliveryInv, Over, Conclude
  <2>2. CASE CommitCreate(h)
    BY <1>2, <2>2 DEF CommitCreate
  <2>3. CASE RefuseDownstream(h) \/ FailCreate(h)
    <3>1. UNCHANGED registries /\ \E code, a : Answers(h.req, code, a)
      BY <2>3 DEF RefuseDownstream, FailCreate, RolledBack
    <3>2. QED
      BY <1>1, <2>1, <3>1
  <2>4. QED
    BY <1>5, <2>2, <2>3 DEF Conclude, Resume
<1>6. CASE Administer \/ RestartServer \/ Tick
  BY <1>3, <1>6 DEF Administer, RestartServer, Tick
<1>7. CASE UNCHANGED serverVars
  BY <1>7 DEF CleanMeansNothing, Repeated
<1>8. QED
  BY <1>4, <1>5, <1>6, <1>7 DEF Next

(* However often the network repeats requests: the delivery that is        *)
(* answered as cleanly failed has left nothing behind.                     *)
THEOREM CleanFailure == Spec => []CleanMeansNothing
<1>1. Init => CleanMeansNothing
  BY DEF Init, CleanMeansNothing
<1>2. QED
  BY <1>1, CleanStep, DeliveryInvariance, RegistryInvariance, PTL DEF Spec

-----------------------------------------------------------------------------
(* Revocation *)

(* What a create has written keeps its key bound. *)
KeysBound == \A r \in Creates : activations[r.id] /= None => Bound(r)

LEMMA KeysStep ==
  ASSUME RegistryInv, KeysBound, [Next]_serverVars
  PROVE  KeysBound'
<1> SUFFICES ASSUME NEW r \in Creates, activations'[r.id] /= None PROVE Bound(r)'
  BY DEF KeysBound, Creates
<1>1. r \in Requests /\ r.kind = "create" /\ r.id \in RequestIds
      /\ <<r.client, r.key>> \in Clients \X Keys
  BY RequestParts, CreateParts DEF Creates
<1>2. CASE UNCHANGED registries
  BY <1>2 DEF KeysBound, Bound
<1>3. ASSUME NEW s \in Requests, ApplyChange(s) PROVE Bound(r)'
  <2>1. activations[r.id] /= None /\ idempotency' = idempotency
    BY <1>1, <1>3, ChangeEffect DEF RegistryInv
  <2>2. QED
    BY <2>1 DEF KeysBound, Bound
<1>4. ASSUME NEW h \in pending, WriteActivation(h.req) PROVE Bound(r)'
  <2>1. PICK s \in Requests : s = h.req /\ s.kind = "create" /\ WriteActivation(s)
    BY <1>4, HandlerParts DEF RegistryInv
  <2>2. CASE <<r.client, r.key>> = <<s.client, s.key>>
    <3>1. idempotency'[<<s.client, s.key>>] = [intent |-> s.intent, activation |-> s.id]
      BY <2>1, CreateEffect DEF RegistryInv
    <3>2. [intent |-> s.intent, activation |-> s.id] \in Binding
      BY <2>1, CreateParts, RequestParts DEF Binding
    <3>3. QED
      BY <2>2, <3>1, <3>2, NoneAssumption DEF Bound
  <2>3. CASE <<r.client, r.key>> /= <<s.client, s.key>>
    <3>1. r.id /= s.id
      BY <1>1, <2>1, <2>3, FreshAssumption
    <3>2. /\ activations'[r.id] = activations[r.id]
          /\ idempotency'[<<r.client, r.key>>] = idempotency[<<r.client, r.key>>]
      BY <1>1, <2>1, <2>3, <3>1, CreateEffect DEF RegistryInv
    <3>3. QED
      BY <3>2 DEF KeysBound, Bound
  <2>4. QED
    BY <2>2, <2>3
<1>5. QED
  BY <1>2, <1>3, <1>4, RegistrySteps

(* The step of one create. *)
LEMMA RevokedStays ==
  ASSUME RegistryInv, KeysBound, [Next]_serverVars, NEW r \in Creates,
         activations[r.id] /= None, ~InFlight(r)
  PROVE  /\ ~InFlight(r)'
         /\ activations[r.id].status = "REVOKED" => activations'[r.id].status = "REVOKED"
<1>1. r \in Requests /\ r.kind = "create" /\ r.id \in RequestIds /\ Bound(r)
  BY RequestParts DEF Creates, KeysBound
<1>2. ~InFlight(r)'
  <2>1. ASSUME NEW s \in Requests, NEW c \in Copies, Deliver(s, c) PROVE ~InFlight(r)'
    <3>1. Suspend(s, c) => s /= r
      BY <1>1 DEF Suspend
    <3>2. ASSUME NEW h \in pending' \ pending PROVE h.req = s /\ Suspend(s, c)
      BY <2>1, <3>2, DeliveryAdds
    <3>3. QED
      BY <3>1, <3>2 DEF InFlight
  <2>2. CASE pending' \subseteq pending
    BY <2>2 DEF InFlight
  <2>3. QED
    BY <2>1, <2>2, StepShape
<1>3. ASSUME activations[r.id].status = "REVOKED" PROVE activations'[r.id].status = "REVOKED"
  <2>1. CASE UNCHANGED registries
    BY <1>3, <2>1
  <2>2. ASSUME NEW s \in Requests, ApplyChange(s) PROVE activations'[r.id].status = "REVOKED"
    <3>1. CASE s.target = r.id
      <4>1. s.kind = "revoke"
        BY <1>3, <2>2, <3>1 DEF ApplyChange, Terminal
      <4>2. QED
        BY <2>2, <3>1, <4>1, ChangeEffect DEF RegistryInv, After
    <3>2. CASE s.target /= r.id
      <4>1. activations'[r.id] = activations[r.id]
        BY <1>1, <2>2, <3>2, ChangeEffect DEF RegistryInv
      <4>2. QED
        BY <1>3, <4>1
    <3>3. QED
      BY <3>1, <3>2
  <2>3. ASSUME NEW h \in pending, WriteActivation(h.req)
        PROVE  activations'[r.id].status = "REVOKED"
    <3>1. PICK s \in Requests : s = h.req /\ s.kind = "create" /\ WriteActivation(s)
      BY <2>3, HandlerParts DEF RegistryInv
    <3>2. s.id /= r.id
      BY <1>1, <3>1, FreshAssumption DEF InFlight
    <3>3. activations'[r.id] = activations[r.id]
      BY <1>1, <3>1, <3>2, CreateEffect DEF RegistryInv
    <3>4. QED
      BY <1>3, <3>3
  <2>4. QED
    BY <2>1, <2>2, <2>3, RegistrySteps
<1>4. QED
  BY <1>2, <1>3

(* However often the network repeats requests: once no delivery of its     *)
(* create waits for the downstream, an activation gets no further handler  *)
(* and its revocation is final.                                            *)
THEOREM RevocationFinal == Spec => RevocationSettles
<1>1. Init => KeysBound
  BY RequestParts DEF Init, KeysBound, Creates
<1>2. RegistryInv /\ KeysBound /\ [Next]_serverVars =>
      [\A r \in Creates :
          activations[r.id] /= None /\ ~InFlight(r) =>
              /\ ~InFlight(r)'
              /\ activations[r.id].status = "REVOKED" =>
                     activations'[r.id].status = "REVOKED"]_serverVars
  BY RevokedStays
<1>3. RegistryInv /\ KeysBound /\ [Next]_serverVars => KeysBound'
  BY KeysStep
<1>4. QED
  BY <1>1, <1>2, <1>3, RegistryInvariance, PTL DEF Spec, RevocationSettles

===============================================================================
