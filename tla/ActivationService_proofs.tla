------------------------ MODULE ActivationService_proofs ------------------------
(***************************************************************************)
(* Proofs about ARMA's activation service in front of the partner server,  *)
(* for every value of the constants.                                       *)
(***************************************************************************)
EXTENDS ActivationService, PartnerServer_proofs, WellFoundedInduction

USE DEF registries, serverVars, serviceVars, allVars

-----------------------------------------------------------------------------
(* The service is a client of the server: the server's theorems hold *)

SentTyped == sent \subseteq Requests

LEMMA SendCreateTyped ==
  ASSUME SentTyped, NEW w \in Workers, NEW a \in Locals, NEW recs,
         SendCreate(w, a, recs)
  PROVE  SentTyped'
BY DEF SentTyped, SendCreate, Sending

LEMMA SentStep == SentTyped /\ [ServiceNext]_allVars => SentTyped'
<1> SUFFICES ASSUME SentTyped, [ServiceNext]_allVars PROVE SentTyped'
  OBVIOUS
<1>1. ASSUME NEW w \in Workers, NEW a \in Locals, Operate(w, a) PROVE SentTyped'
  <2>1. CASE ActivateNew(w, a)
    BY <2>1, SendCreateTyped DEF ActivateNew
  <2>2. CASE ActivateAgain(w, a)
    <3>1. PICK prior : SendCreate(w, prior, records)
      BY <2>2 DEF ActivateAgain
    <3>2. QED
      BY <3>1 DEF SentTyped, SendCreate, Sending
  <2>3. CASE ResumeUnsent(w, a)
    BY <2>3, SendCreateTyped DEF ResumeUnsent
  <2>4. CASE \E kind \in {"deactivate", "revoke"} : ChangeRemotely(w, a, kind)
    BY <2>4 DEF SentTyped, ChangeRemotely, Sending
  <2>5. CASE Reconcile(w, a) \/ ResumeSent(w, a) \/ Sync(w, a)
    BY <2>5 DEF SentTyped, Reconcile, ResumeSent, Sync
  <2>6. QED
    BY <1>1, <2>1, <2>2, <2>3, <2>4, <2>5 DEF Operate
<1>2. ASSUME NEW w \in Workers, Continue(w) PROVE SentTyped'
  <2>1. CASE RetryCreate(w)
    BY <2>1 DEF SentTyped, RetryCreate, Sending
  <2>2. CASE ConcludeReconcile(w)
    BY <2>2 DEF SentTyped, ConcludeReconcile, SendCreate, Sending
  <2>3. CASE GiveUp(w) \/ ConcludeCreate(w) \/ AnswerQuery(w) \/ DenyQuery(w) \/ FailQuery(w)
    BY <2>3 DEF SentTyped, GiveUp, ConcludeCreate, AnswerQuery, DenyQuery, FailQuery
  <2>4. CASE ConcludeSync(w) \/ ConcludeChange(w)
    BY <2>4 DEF SentTyped, ConcludeSync, ConcludeChange
  <2>5. QED
    BY <1>2, <2>1, <2>2, <2>3, <2>4 DEF Continue
<1>3. CASE \E a \in Locals : QuarantineNew(a) \/ RevokeLocally(a)
  BY <1>3 DEF SentTyped, QuarantineNew, RevokeLocally
<1>4. CASE RestartService \/ SwitchOutbound \/ ServerStep \/ UNCHANGED allVars
  BY <1>4 DEF SentTyped, RestartService, SwitchOutbound, ServerStep
<1>5. QED
  BY <1>1, <1>2, <1>3, <1>4 DEF ServiceNext, ServiceStep

(* To the server, what the service does by itself is a visit to the        *)
(* directory that changes nothing.                                         *)
LEMMA ServerStepRefines ==
  TypeOK /\ SentTyped /\ [ServiceNext]_allVars => [Next]_serverVars
<1> SUFFICES ASSUME TypeOK, SentTyped, [ServiceNext]_allVars PROVE [Next]_serverVars
  OBVIOUS
<1>1. CASE ServiceStep
  <2>1. Administer
    BY <1>1 DEF ServiceStep, Administer, TypeOK
  <2>2. QED
    BY <2>1 DEF Next
<1>2. CASE ServerStep
  BY <1>2 DEF ServerStep, Next, SentTyped
<1>3. CASE UNCHANGED allVars
  BY <1>3
<1>4. QED
  BY <1>1, <1>2, <1>3 DEF ServiceNext

(* Together, ARMA and the partner server are the partner server with a     *)
(* client that behaves: every theorem about the server holds for them.     *)
THEOREM ServiceRefinesServer == ServiceSpec => Spec
<1>1. ServiceInit => Init /\ TypeOK /\ SentTyped
  BY TypeInit DEF ServiceInit, SentTyped
<1>2. TypeOK /\ SentTyped /\ [ServiceNext]_allVars => TypeOK' /\ SentTyped'
  BY ServerStepRefines, TypeStep, SentStep
<1>3. QED
  BY <1>1, <1>2, ServerStepRefines, PTL DEF ServiceSpec, Spec

-----------------------------------------------------------------------------
(* Identities *)

(* The id of an attempt that the record's own operations have made. *)
OwnId(a, id) == \E n \in 1..Draws : id = <<a, n>>

(* acts[id] is an activation that a asked for. *)
Mine(acts, a, id) ==
    /\ id \in RequestIds
    /\ acts[id] /= None
    /\ acts[id].intent = IntentOf[a]
    /\ acts[id].key = KeyOf[a]

LEMMA CreatesAreOwn ==
  ASSUME NEW a \in Locals, NEW n, CreateRequest(a, n) \in Requests
  PROVE  /\ n \in 1..Draws
         /\ CreateRequest(a, n).id \in RequestIds
         /\ OwnId(a, CreateRequest(a, n).id)
<1>1. CreateRequest(a, n).id \in RequestIds
  BY RequestParts
<1>2. PICK b \in Locals, m \in 1..Draws : CreateRequest(a, n) = CreateRequest(b, m)
  BY PoolAssumption DEF CreateRequest, ChangeRequest
<1>3. n = m
  BY <1>2 DEF CreateRequest
<1>4. QED
  BY <1>1, <1>3 DEF OwnId, CreateRequest

(* What has the id of an attempt is what the attempt asked for. *)
LEMMA OwnIsMine ==
  ASSUME Attributed, NEW a \in Locals, NEW id \in RequestIds,
         OwnId(a, id), activations[id] /= None
  PROVE  Mine(activations, a, id)
<1>1. PICK r \in Requests :
        /\ r.kind = "create" /\ r.id = id
        /\ activations[id].key = r.key
        /\ activations[id].intent = r.intent
  BY DEF Attributed
<1>2. PICK b \in Locals, m \in 1..Draws : r = CreateRequest(b, m)
  BY <1>1, PoolAssumption DEF CreateRequest, ChangeRequest
<1>3. PICK n \in 1..Draws : id = <<a, n>>
  BY DEF OwnId
<1>4. b = a
  BY <1>1, <1>2, <1>3 DEF CreateRequest
<1>5. QED
  BY <1>1, <1>2, <1>4 DEF Mine, CreateRequest

(* The server forgets no activation and changes only its status. *)
Stays(acts, later) ==
    \A id \in RequestIds : acts[id] /= None =>
        /\ later[id] /= None
        /\ later[id].intent = acts[id].intent
        /\ later[id].key = acts[id].key

LEMMA AskedFor ==
  ASSUME Attributed, NEW id \in RequestIds, activations[id] /= None
  PROVE  \E q \in Requests :
            q.id = id /\ activations[id].key = q.key /\ activations[id].intent = q.intent
BY DEF Attributed

LEMMA ActivationsStay ==
  ASSUME RegistryInv, [Next]_serverVars
  PROVE  Stays(activations, activations')
<1> USE DEF RegistryInv
<1>1. CASE UNCHANGED registries
  BY <1>1 DEF Stays
<1>2. ASSUME NEW r \in Requests, ApplyChange(r) PROVE Stays(activations, activations')
  BY <1>2, ChangeEffect DEF Stays
<1>3. ASSUME NEW h \in pending, WriteActivation(h.req) PROVE Stays(activations, activations')
  <2> DEFINE r == h.req
  <2>1. r \in Requests /\ r.kind = "create"
    BY HandlerParts
  <2> HIDE DEF r
  <2>2. WriteActivation(r)
    BY <1>3 DEF r
  <2>3. ASSUME activations[r.id] /= None
        PROVE  activations[r.id].intent = r.intent /\ activations[r.id].key = r.key
    <3>1. PICK q \in Requests :
            q.id = r.id /\ activations[r.id].key = q.key /\ activations[r.id].intent = q.intent
      BY <2>1, <2>3, RequestParts, AskedFor
    <3>2. q = r
      BY <2>1, <3>1, FreshAssumption
    <3>3. QED
      BY <3>1, <3>2
  <2>4. QED
    BY <2>1, <2>2, <2>3, CreateEffect DEF Stays
<1>4. QED
  BY <1>1, <1>2, <1>3, RegistrySteps

(* The first match in the order of the Map exists when there is one. *)
LEMMA FirstFound ==
  ASSUME order \in Seq(Locals), NEW S, S \cap Tracked /= {}
  PROVE  /\ FirstIn(S) \in S
         /\ \E i \in DOMAIN order : /\ FirstIn(S) = order[i]
                                   /\ \A j \in 1..(i - 1) : order[j] \notin S
<1> DEFINE T == {i \in DOMAIN order : order[i] \in S}
<1>1. T \subseteq Nat /\ T /= {}
  BY DEF Tracked
<1>2. PICK i \in T : \A j \in T : ~(<<j, i>> \in OpToRel(<, Nat))
  BY <1>1, WFMin, NatLessThanWellFounded
<1>3. \A j \in T : ~(j < i)
  BY <1>1, <1>2 DEF OpToRel
<1>4. \A j \in 1..(i - 1) : order[j] \notin S
  BY <1>1, <1>3
<1>5. i \in DOMAIN order /\ order[i] \in S
  OBVIOUS
<1>6. QED
  BY <1>4, <1>5 DEF FirstIn

-----------------------------------------------------------------------------
(* The invariant *)

(* What a record says of the server is true, or is about an own attempt. *)
TrueRecord(acts, a, rec) ==
    /\ rec \in ArmaRecord
    /\ rec.status = "ACTIVE" => rec.patches /= None
    /\ rec.patches /= None => Mine(acts, a, rec.patches)
    /\ rec.hint /= None => OwnId(a, rec.hint)

(* A reply that reports an activation reports one that exists. *)
TrueReply(acts, c, reply) ==
    /\ c.op = "create" /\ reply.code \in {"SUCCESS", "DUPLICATE"}
          => Mine(acts, c.local, reply.activation)
    /\ reply.code = "FOUND" => acts[c.subject] /= None

TrueCall(recs, acts, c) ==
    /\ c \in Call
    /\ recs[c.local] \in ArmaRecord
    /\ c.op = "create" =>
          /\ OwnId(c.local, c.subject)
          /\ c.req.kind = "create"
          /\ c.req.intent = IntentOf[c.local] /\ c.req.key = KeyOf[c.local]
    /\ c.op \in {"reconcile", "sync"} =>
          /\ OwnId(c.local, c.subject) \/ Mine(acts, c.local, c.subject)
          /\ c.count \in 0..StatusAttempts
    /\ c.reply /= None => TrueReply(acts, c, c.reply)

RecordsTrue(recs, acts) ==
    /\ recs \in [Locals -> ArmaRecord \cup {None}]
    /\ \A a \in Locals : recs[a] /= None => TrueRecord(acts, a, recs[a])
CallsTrue(ops, recs, acts) ==
    /\ ops \in [Workers -> Call \cup {None}]
    /\ \A w \in Workers : ops[w] /= None => TrueCall(recs, acts, ops[w])

(* Who is in the order of the Map has a record, and none is removed. *)
Followed(ids, recs) ==
    /\ ids \in Seq(Locals)
    /\ \A i \in DOMAIN ids : recs[ids[i]] \in ArmaRecord
Kept(recs, later) == \A a \in Locals : recs[a] \in ArmaRecord => later[a] \in ArmaRecord

ServiceInv ==
    /\ RecordsTrue(records, activations)
    /\ CallsTrue(calls, records, activations)
    /\ Followed(order, records)
    /\ queries \in [Locals -> 0..StatusAttempts]
    /\ sent \subseteq Requests
    /\ paused \in Switches

-----------------------------------------------------------------------------
(* What preserves its parts *)

LEMMA StatusTrue ==
  ASSUME NEW acts, NEW a \in Locals, NEW rec, TrueRecord(acts, a, rec),
         NEW status \in Live \cup Final, status = "ACTIVE" => rec.patches /= None
  PROVE  TrueRecord(acts, a, [rec EXCEPT !.status = status])
BY DEF TrueRecord, ArmaRecord

LEMMA OneRecord ==
  ASSUME NEW recs, NEW acts, RecordsTrue(recs, acts), NEW a \in Locals,
         NEW rec, TrueRecord(acts, a, rec)
  PROVE  /\ RecordsTrue([recs EXCEPT ![a] = rec], acts)
         /\ Kept(recs, [recs EXCEPT ![a] = rec])
         /\ [recs EXCEPT ![a] = rec][a] = rec
BY DEF RecordsTrue, TrueRecord, Kept

LEMMA CallStays ==
  ASSUME NEW recs, NEW later, NEW acts, NEW acts2, Kept(recs, later), Stays(acts, acts2),
         NEW c, TrueCall(recs, acts, c)
  PROVE  TrueCall(later, acts2, c)
<1>1. c \in Call /\ c.local \in Locals /\ c.subject \in RequestIds
  BY DEF TrueCall, Call
<1>2. \A id : Mine(acts, c.local, id) => Mine(acts2, c.local, id)
  BY DEF Stays, Mine
<1>3. c.reply /= None => TrueReply(acts2, c, c.reply)
  BY <1>1, <1>2 DEF TrueCall, TrueReply, Stays
<1>4. later[c.local] \in ArmaRecord
  BY <1>1 DEF TrueCall, Kept
<1>5. QED
  BY <1>2, <1>3, <1>4 DEF TrueCall

LEMMA RecordsStay ==
  ASSUME NEW recs, NEW acts, NEW acts2, RecordsTrue(recs, acts), Stays(acts, acts2)
  PROVE  RecordsTrue(recs, acts2)
BY DEF RecordsTrue, TrueRecord, Stays, Mine

LEMMA OneCall ==
  ASSUME NEW ops, NEW recs, NEW later, NEW acts, CallsTrue(ops, recs, acts),
         Kept(recs, later), NEW w \in Workers,
         NEW c, c = None \/ TrueCall(later, acts, c)
  PROVE  CallsTrue([ops EXCEPT ![w] = c], later, acts)
<1>1. Stays(acts, acts)
  BY DEF Stays
<1>2. \A v \in Workers : ops[v] /= None => TrueCall(later, acts, ops[v])
  BY <1>1, CallStays DEF CallsTrue
<1>3. c \in Call \cup {None}
  BY DEF TrueCall
<1>4. QED
  BY <1>2, <1>3 DEF CallsTrue

LEMMA NoCalls ==
  ASSUME NEW recs, NEW acts
  PROVE  CallsTrue([w \in Workers |-> None], recs, acts)
BY DEF CallsTrue

LEMMA SameCalls ==
  ASSUME NEW ops, NEW recs, NEW later, NEW acts, CallsTrue(ops, recs, acts), Kept(recs, later)
  PROVE  CallsTrue(ops, later, acts)
<1>1. Stays(acts, acts)
  BY DEF Stays
<1>2. QED
  BY <1>1, CallStays DEF CallsTrue

LEMMA StillFollowed ==
  ASSUME NEW ids, NEW recs, NEW later, Followed(ids, recs), Kept(recs, later)
  PROVE  Followed(ids, later)
BY DEF Followed, Kept

-----------------------------------------------------------------------------
(* The steps of the service *)

LEMMA AtOnce ==
  ASSUME NEW acts, NEW c
  PROVE  /\ AnswerAtOnce \in Reply \cup {None}
         /\ AnswerAtOnce /= None => TrueReply(acts, c, AnswerAtOnce)
BY DEF AnswerAtOnce, Failed, Reply, TrueReply, Code

LEMMA CallParts ==
  ASSUME NEW recs, NEW acts, NEW c, TrueCall(recs, acts, c)
  PROVE  /\ c \in Call
         /\ c.local \in Locals /\ c.subject \in RequestIds
         /\ c.reply \in Reply \cup {None}
         /\ recs[c.local] \in ArmaRecord
BY DEF TrueCall, Call

LEMMA SendCreateTrue ==
  ASSUME ServiceInv, NEW w \in Workers, NEW a \in Locals, NEW recs,
         RecordsTrue(recs, activations), Kept(records, recs), recs[a] \in ArmaRecord,
         SendCreate(w, a, recs)
  PROVE  /\ RecordsTrue(records', activations) /\ Kept(records, records')
         /\ CallsTrue(calls', records', activations)
         /\ sent' \subseteq Requests
<1>1. TrueRecord(activations, a, recs[a])
  BY RecordAssumption DEF RecordsTrue
<1>2. ASSUME NEW status \in {"READY_TO_ACTIVATE", "ACTIVATION_SENT"},
             records' = [recs EXCEPT ![a].status = status]
      PROVE  RecordsTrue(records', activations) /\ Kept(recs, records')
  <2> DEFINE rec == [recs[a] EXCEPT !.status = status]
  <2>1. TrueRecord(activations, a, rec)
    BY <1>1, StatusTrue DEF Live
  <2>2. records' = [recs EXCEPT ![a] = rec]
    BY <1>2
  <2> HIDE DEF rec
  <2>3. QED
    BY <2>1, <2>2, OneRecord
<1>3. CASE /\ NextCreate(a) \in Requests
           /\ Sending(NextCreate(a))
           /\ Begin(w, "create", a, NextCreate(a), NextCreate(a).id, 1)
           /\ records' = [recs EXCEPT ![a].status = "ACTIVATION_SENT"]
  <2>1. /\ RecordsTrue(records', activations)
        /\ Kept(recs, records') /\ Kept(records, records')
    BY <1>2, <1>3 DEF Kept
  <2>2. sent' \subseteq Requests
    BY <1>3 DEF ServiceInv, Sending
  <2>3. PICK n : NextCreate(a) = CreateRequest(a, n)
    BY DEF NextCreate
  <2>4. /\ CreateRequest(a, n) \in Requests
        /\ CreateRequest(a, n).id \in RequestIds
        /\ OwnId(a, CreateRequest(a, n).id)
    BY <1>3, <2>3, CreatesAreOwn
  <2> DEFINE c == [op |-> "create", local |-> a, req |-> CreateRequest(a, n),
                   subject |-> CreateRequest(a, n).id, count |-> 1,
                   active |-> records[a] /= None /\ records[a].status = "ACTIVE",
                   reply |-> AnswerAtOnce]
  <2>5. calls' = [calls EXCEPT ![w] = c]
    BY <1>3, <2>3 DEF Begin
  <2>6. records'[a] \in ArmaRecord
    BY <2>1 DEF Kept
  <2>7. TrueCall(records', activations, c)
    <3>1. c \in Call
      BY <2>4, AtOnce DEF Call
    <3>2. c.req.kind = "create" /\ c.req.intent = IntentOf[a] /\ c.req.key = KeyOf[a]
      BY DEF CreateRequest
    <3>3. c.reply /= None => TrueReply(activations, c, c.reply)
      BY AtOnce
    <3>4. c.op = "create" /\ c.local = a /\ c.subject = CreateRequest(a, n).id
      OBVIOUS
    <3> HIDE DEF c
    <3>5. QED
      BY <2>4, <2>6, <3>1, <3>2, <3>3, <3>4 DEF TrueCall
  <2> HIDE DEF c
  <2>8. CallsTrue(calls', records', activations)
    BY <2>1, <2>5, <2>7, OneCall DEF ServiceInv
  <2>9. QED
    BY <2>1, <2>2, <2>8
<1>4. CASE /\ ProcessStops
           /\ records' \in {recs, [recs EXCEPT ![a].status = "READY_TO_ACTIVATE"]}
           /\ UNCHANGED sent
  <2>1. RecordsTrue(records', activations) /\ Kept(records, records')
    BY <1>2, <1>4 DEF Kept
  <2>2. QED
    BY <1>4, <2>1, NoCalls DEF ProcessStops, ServiceInv
<1>5. QED
  BY <1>3, <1>4 DEF SendCreate

(* A query is about what the record takes for its identity. *)
LEMMA QueryTrue ==
  ASSUME ServiceInv, NEW w \in Workers, NEW a \in Locals, NEW op \in {"reconcile", "sync"},
         records[a] /= None, Identity(a) /= None, Kept(records, records'),
         Query(w, op, a)
  PROVE  CallsTrue(calls', records', activations)
<1>1. TrueRecord(activations, a, records[a])
  BY DEF ServiceInv, RecordsTrue
<1>2. /\ Identity(a) \in RequestIds
      /\ OwnId(a, Identity(a)) \/ Mine(activations, a, Identity(a))
  BY <1>1 DEF Identity, TrueRecord, ArmaRecord
<1> DEFINE c == [op |-> op, local |-> a, req |-> None, subject |-> Identity(a),
                 count |-> AtMostStatusAttempts(queries[a] + 1),
                 active |-> records[a] /= None /\ records[a].status = "ACTIVE",
                 reply |-> AnswerAtOnce]
<1>3. calls' = [calls EXCEPT ![w] = c]
  BY DEF Query, Begin
<1>4. c.count \in 0..StatusAttempts
  BY CallAssumption DEF AtMostStatusAttempts, ServiceInv
<1>5. c \in Call
  BY <1>2, <1>4, AtOnce DEF Call
<1>6. records'[a] \in ArmaRecord
  BY <1>1 DEF TrueRecord, Kept
<1>7. c.reply /= None => TrueReply(activations, c, c.reply)
  BY AtOnce
<1>8. c.op = op /\ c.local = a /\ c.subject = Identity(a)
  OBVIOUS
<1> HIDE DEF c
<1>9. TrueCall(records', activations, c)
  BY <1>2, <1>4, <1>5, <1>6, <1>7, <1>8 DEF TrueCall
<1>10. QED
  BY <1>3, <1>9, OneCall DEF ServiceInv

LEMMA SetStatusTrue ==
  ASSUME ServiceInv, NEW a \in Locals, records[a] /= None,
         NEW status \in (Live \cup Final) \ {"ACTIVE"}, SetStatus(a, status)
  PROVE  RecordsTrue(records', activations) /\ Kept(records, records')
<1> DEFINE rec == [records[a] EXCEPT !.status = status]
<1>1. TrueRecord(activations, a, rec)
  BY StatusTrue DEF ServiceInv, RecordsTrue
<1>2. records' = [records EXCEPT ![a] = rec]
  BY DEF SetStatus
<1> HIDE DEF rec
<1>3. QED
  BY <1>1, <1>2, OneRecord DEF ServiceInv

LEMMA Unchanged ==
  ASSUME ServiceInv, records' = records
  PROVE  RecordsTrue(records', activations) /\ Kept(records, records')
BY DEF ServiceInv, Kept

(* What the steps below establish, before the order and the counters. *)
Truthful ==
    /\ RecordsTrue(records', activations) /\ Kept(records, records')
    /\ CallsTrue(calls', records', activations)
    /\ sent' \subseteq Requests

LEMMA FreshTrue ==
  ASSUME ServiceInv, NEW a \in Locals, NEW status \in {"PENDING", "QUARANTINED"}
  PROVE  LET recs == [records EXCEPT ![a] = FreshRecord(status)] IN
         RecordsTrue(recs, activations) /\ Kept(records, recs) /\ recs[a] \in ArmaRecord
<1>1. TrueRecord(activations, a, FreshRecord(status))
  BY DEF TrueRecord, FreshRecord, ArmaRecord, Live, Final
<1>2. QED
  BY <1>1, OneRecord DEF ServiceInv, TrueRecord

LEMMA ActivateTrue ==
  ASSUME ServiceInv, NEW w \in Workers, NEW a \in Locals,
         ActivateNew(w, a) \/ ActivateAgain(w, a) \/ ResumeUnsent(w, a)
  PROVE  Truthful /\ Followed(order', records')
<1>1. CASE ActivateNew(w, a)
  <2> DEFINE recs == [records EXCEPT ![a] = FreshRecord("PENDING")]
  <2>1. RecordsTrue(recs, activations) /\ Kept(records, recs) /\ recs[a] \in ArmaRecord
    BY FreshTrue
  <2>2. SendCreate(w, a, recs) /\ order' = Append(order, a)
    BY <1>1 DEF ActivateNew
  <2> HIDE DEF recs
  <2>3. Truthful
    BY <2>1, <2>2, SendCreateTrue DEF Truthful
  <2>4. records'[a] \in ArmaRecord
    <3>1. CASE records' = recs
      BY <2>1, <3>1
    <3>2. ASSUME NEW status \in {"READY_TO_ACTIVATE", "ACTIVATION_SENT"},
                 records' = [recs EXCEPT ![a].status = status]
          PROVE  records'[a] \in ArmaRecord
      BY <2>1, <3>2 DEF RecordsTrue, ArmaRecord, Live
    <3>3. QED
      BY <2>2, <3>1, <3>2 DEF SendCreate
  <2>5. QED
    BY <2>2, <2>3, <2>4 DEF Truthful, Kept, Followed, ServiceInv
<1>2. CASE ActivateAgain(w, a)
  <2> DEFINE prior == FirstIn(SameKey(a))
  <2>1. SameKey(a) \cap Tracked /= {} /\ SendCreate(w, prior, records) /\ order' = order
    BY <1>2 DEF ActivateAgain, SameKey
  <2>2. \E i \in DOMAIN order : prior = order[i]
    BY <2>1, FirstFound DEF ServiceInv, Followed
  <2> HIDE DEF prior
  <2>3. prior \in Locals /\ records[prior] \in ArmaRecord
    BY <2>2 DEF ServiceInv, Followed
  <2>4. RecordsTrue(records, activations) /\ Kept(records, records)
    BY DEF ServiceInv, Kept
  <2>5. Truthful
    BY <2>1, <2>3, <2>4, SendCreateTrue DEF Truthful
  <2>6. QED
    BY <2>1, <2>5, StillFollowed DEF Truthful, ServiceInv
<1>3. CASE ResumeUnsent(w, a)
  <2>1. SendCreate(w, a, records) /\ order' = order /\ records[a] /= None
    BY <1>3 DEF ResumeUnsent
  <2>2. /\ RecordsTrue(records, activations) /\ Kept(records, records)
        /\ records[a] \in ArmaRecord
    BY <2>1 DEF ServiceInv, Kept, RecordsTrue
  <2>3. Truthful
    BY <2>1, <2>2, SendCreateTrue DEF Truthful
  <2>4. QED
    BY <2>1, <2>3, StillFollowed DEF Truthful, ServiceInv
<1>4. QED
  BY <1>1, <1>2, <1>3

LEMMA AskTrue ==
  ASSUME ServiceInv, NEW w \in Workers, NEW a \in Locals,
         Reconcile(w, a) \/ ResumeSent(w, a) \/ Sync(w, a)
  PROVE  Truthful
<1>1. records[a] /= None
  BY DEF Reconcile, ResumeSent, Sync
<1>2. /\ sent' = sent
      /\ \/ records' = records
         \/ SetStatus(a, "RECONCILIATION_REQUIRED") \/ SetStatus(a, "QUARANTINED")
      /\ \/ calls' = calls \/ ProcessStops
         \/ /\ Identity(a) /= None
            /\ Query(w, "reconcile", a) \/ Query(w, "sync", a)
  BY DEF Reconcile, ResumeSent, Sync, Identity
<1>3. RecordsTrue(records', activations) /\ Kept(records, records')
  BY <1>1, <1>2, SetStatusTrue, Unchanged DEF Live, Final
<1>4. CallsTrue(calls', records', activations)
  <2>1. CASE calls' = calls
    BY <1>3, <2>1, SameCalls DEF ServiceInv
  <2>2. CASE ProcessStops
    BY <2>2, NoCalls DEF ProcessStops
  <2>3. CASE Query(w, "reconcile", a) \/ Query(w, "sync", a)
    BY <1>1, <1>2, <1>3, <2>1, <2>2, <2>3, QueryTrue
  <2>4. QED
    BY <1>2, <2>1, <2>2, <2>3
<1>5. QED
  BY <1>2, <1>3, <1>4 DEF Truthful, ServiceInv

LEMMA ReplyTrue ==
  ASSUME ServiceInv, NEW w \in Workers, calls[w] /= None, NEW reply \in Reply,
         TrueReply(activations, calls[w], reply),
         calls' = [calls EXCEPT ![w].reply = reply], records' = records
  PROVE  CallsTrue(calls', records', activations)
<1> DEFINE c == [calls[w] EXCEPT !.reply = reply]
<1>1. TrueCall(records, activations, calls[w])
  BY DEF ServiceInv, CallsTrue
<1>2. /\ c \in Call /\ c.reply = reply
      /\ c.local = calls[w].local /\ c.subject = calls[w].subject
      /\ c.op = calls[w].op /\ c.req = calls[w].req /\ c.count = calls[w].count
  BY <1>1, CallParts DEF Call
<1>3. calls' = [calls EXCEPT ![w] = c]
  OBVIOUS
<1> HIDE DEF c
<1>4. TrueCall(records', activations, c)
  BY <1>1, <1>2 DEF TrueCall, TrueReply
<1>5. Kept(records, records') /\ CallsTrue(calls, records, activations)
  BY Unchanged DEF ServiceInv
<1>6. CallsTrue([calls EXCEPT ![w] = c], records', activations)
  BY <1>4, <1>5, OneCall
<1>7. QED
  BY <1>3, <1>6

LEMMA AnsweredTrue ==
  ASSUME TypeOK, ServiceInv, NEW w \in Workers,
         GiveUp(w) \/ AnswerQuery(w) \/ DenyQuery(w) \/ FailQuery(w)
  PROVE  Truthful
<1>1. calls[w] /= None /\ UNCHANGED <<records, sent>>
  BY DEF GiveUp, AnswerQuery, DenyQuery, FailQuery, Asking, Waiting
<1>2. calls[w].subject \in RequestIds
  BY <1>1, CallParts DEF ServiceInv, CallsTrue
<1>3. ASSUME NEW code \in {"FAULT", "FORBIDDEN", "ACTIVATION_UNKNOWN"},
             calls' = [calls EXCEPT ![w].reply = Failed(code)]
      PROVE  CallsTrue(calls', records', activations)
  <2>1. Failed(code) \in Reply /\ TrueReply(activations, calls[w], Failed(code))
    BY DEF Failed, Reply, TrueReply, Code
  <2>2. QED
    BY <1>1, <1>3, <2>1, ReplyTrue
<1>4. ASSUME AnswerQuery(w), activations[calls[w].subject] /= None
      PROVE  CallsTrue(calls', records', activations)
  <2> DEFINE reply == [code |-> "FOUND", activation |-> calls[w].subject,
                       status |-> activations[calls[w].subject].status]
  <2>1. calls' = [calls EXCEPT ![w].reply = reply]
    BY <1>4 DEF AnswerQuery
  <2>2. activations[calls[w].subject] \in Activation
    BY <1>2, <1>4 DEF TypeOK
  <2>3. reply \in Reply
    BY <1>2, <2>2 DEF Reply, Activation
  <2>4. TrueReply(activations, calls[w], reply)
    BY <1>4 DEF TrueReply
  <2> HIDE DEF reply
  <2>5. QED
    BY <1>1, <2>1, <2>3, <2>4, ReplyTrue
<1>5. QED
  BY <1>1, <1>3, <1>4, Unchanged
     DEF GiveUp, AnswerQuery, DenyQuery, FailQuery, Truthful, ServiceInv

LEMMA RetryTrue ==
  ASSUME ServiceInv, NEW w \in Workers, RetryCreate(w)
  PROVE  Truthful
<1> DEFINE a == calls[w].local
           r == NextCreate(a)
           c == [calls[w] EXCEPT !.req = r, !.count = @ + 1, !.reply = AnswerAtOnce]
<1>1. TrueCall(records, activations, calls[w]) /\ calls[w].op = "create"
  BY DEF ServiceInv, CallsTrue, RetryCreate, Answered
<1>2. a \in Locals /\ r \in Requests /\ sent' \subseteq Requests /\ records' = records
  BY <1>1, CallParts DEF RetryCreate, Sending, ServiceInv
<1>3. r.kind = "create" /\ r.intent = IntentOf[a] /\ r.key = KeyOf[a]
  BY DEF NextCreate, CreateRequest
<1>4. calls' = [calls EXCEPT ![w] = c]
  BY DEF RetryCreate
<1> HIDE DEF r
<1>5. /\ c \in Call /\ c.op = "create" /\ c.local = a /\ c.req = r
      /\ c.subject = calls[w].subject /\ c.reply = AnswerAtOnce
  <2>1. calls[w] \in Call
    BY <1>1, CallParts
  <2>2. AnswerAtOnce \in Reply \cup {None}
    BY AtOnce
  <2>3. c \in Call
    <3>1. [calls[w] EXCEPT !.req = r] \in Call
      BY <1>2, <2>1 DEF Call
    <3>2. calls[w].count + 1 \in Nat
      BY <2>1 DEF Call
    <3>3. \A n \in Nat : [calls[w] EXCEPT !.req = r, !.count = n] \in Call
      BY <1>2, <2>1, <3>1 DEF Call
    <3>4. [calls[w] EXCEPT !.req = r, !.count = calls[w].count + 1] \in Call
      BY <3>2, <3>3
    <3>5. QED
      BY <2>2, <3>4 DEF Call
  <2>4. /\ c.local = a /\ c.req = r /\ c.subject = calls[w].subject
        /\ c.op = calls[w].op /\ c.reply = AnswerAtOnce
    BY <2>1 DEF Call
  <2>5. QED
    BY <1>1, <2>3, <2>4
<1>6. c.reply /= None => TrueReply(activations, c, c.reply)
  BY <1>5, AtOnce
<1> HIDE DEF c
<1>7. TrueCall(records', activations, c)
  BY <1>1, <1>2, <1>3, <1>5, <1>6 DEF TrueCall
<1>8. QED
  BY <1>2, <1>4, <1>7, Unchanged, OneCall DEF Truthful, ServiceInv

LEMMA ConcludeCreateTrue ==
  ASSUME ServiceInv, NEW w \in Workers, ConcludeCreate(w)
  PROVE  Truthful
<1> DEFINE c == calls[w]
           a == c.local
           status == StatusAfter(c.reply.code)
           hinted == [records[a] EXCEPT !.hint = c.subject]
           done == [hinted EXCEPT !.status = status,
                        !.patches = IF status = "ACTIVE" THEN c.reply.activation ELSE @]
<1>1. TrueCall(records, activations, c) /\ c.op = "create" /\ c.reply /= None
  BY DEF ServiceInv, CallsTrue, ConcludeCreate, Answered
<1>2. a \in Locals /\ c.subject \in RequestIds /\ records[a] \in ArmaRecord
  BY <1>1, CallParts
<1>3. TrueRecord(activations, a, records[a])
  BY <1>2, RecordAssumption DEF ServiceInv, RecordsTrue
<1>4. TrueRecord(activations, a, hinted)
  BY <1>1, <1>2, <1>3 DEF TrueRecord, TrueCall, ArmaRecord
<1>5. status \in Live \cup Final
  BY DEF StatusAfter, Live, Final
<1>6. status = "ACTIVE" => Mine(activations, a, c.reply.activation)
  BY <1>1 DEF StatusAfter, TrueCall, TrueReply, Clean
<1> HIDE DEF hinted, status
<1>7. TrueRecord(activations, a, done)
  BY <1>4, <1>5, <1>6, NoneAssumption DEF TrueRecord, ArmaRecord, Mine
<1>8. \/ records' = [records EXCEPT ![a] = done] /\ Finish(w)
      \/ records' = [records EXCEPT ![a] = hinted] /\ ProcessStops
  BY <1>2 DEF ConcludeCreate, hinted, status, ServiceInv, RecordsTrue
<1> HIDE DEF done
<1>9. RecordsTrue(records', activations) /\ Kept(records, records')
  BY <1>2, <1>4, <1>7, <1>8, OneRecord DEF ServiceInv
<1>10. CallsTrue(calls', records', activations)
  BY <1>8, <1>9, OneCall, NoCalls DEF Finish, ProcessStops, ServiceInv
<1>11. QED
  BY <1>9, <1>10 DEF Truthful, ConcludeCreate, ServiceInv

(* An answer that names an activation names one that was asked for. *)
LEMMA FoundIsMine ==
  ASSUME Attributed, ServiceInv, NEW w \in Workers, calls[w] /= None,
         calls[w].op \in {"reconcile", "sync"}, calls[w].reply /= None,
         calls[w].reply.code = "FOUND"
  PROVE  Mine(activations, calls[w].local, calls[w].subject)
<1>1. TrueCall(records, activations, calls[w])
  BY DEF ServiceInv, CallsTrue
<1>2. calls[w].local \in Locals /\ calls[w].subject \in RequestIds
  BY <1>1, CallParts
<1>3. activations[calls[w].subject] /= None
  BY <1>1 DEF TrueCall, TrueReply
<1>4. QED
  BY <1>1, <1>2, <1>3, OwnIsMine DEF TrueCall

LEMMA FoundRecord ==
  ASSUME Attributed, ServiceInv, NEW w \in Workers, calls[w] /= None,
         calls[w].op \in {"reconcile", "sync"}, calls[w].reply /= None,
         calls[w].reply.code = "FOUND",
         records' = [records EXCEPT ![calls[w].local].status = "ACTIVE",
                                    ![calls[w].local].patches = calls[w].subject]
  PROVE  RecordsTrue(records', activations) /\ Kept(records, records')
<1> DEFINE a == calls[w].local
           rec == [records[a] EXCEPT !.status = "ACTIVE", !.patches = calls[w].subject]
<1>1. a \in Locals /\ records[a] \in ArmaRecord
  BY CallParts DEF ServiceInv, CallsTrue
<1>2. TrueRecord(activations, a, records[a])
  BY <1>1, RecordAssumption DEF ServiceInv, RecordsTrue
<1>3. Mine(activations, a, calls[w].subject)
  BY FoundIsMine
<1>4. TrueRecord(activations, a, rec)
  BY <1>2, <1>3, NoneAssumption DEF TrueRecord, ArmaRecord, Mine, Live
<1>5. records' = [records EXCEPT ![a] = rec]
  BY <1>1 DEF ServiceInv, RecordsTrue
<1> HIDE DEF rec, a
<1>6. RecordsTrue(records, activations)
  BY DEF ServiceInv
<1>7. /\ RecordsTrue([records EXCEPT ![a] = rec], activations)
      /\ Kept(records, [records EXCEPT ![a] = rec])
  BY <1>1, <1>4, <1>6, OneRecord
<1>8. QED
  BY <1>5, <1>7

LEMMA ConcludeReconcileTrue ==
  ASSUME Attributed, ServiceInv, NEW w \in Workers, ConcludeReconcile(w)
  PROVE  Truthful /\ queries' \in [Locals -> 0..StatusAttempts]
<1> DEFINE c == calls[w]
           a == c.local
<1>1. /\ TrueCall(records, activations, c) /\ c.op = "reconcile"
      /\ c /= None /\ c.reply /= None
  BY DEF ServiceInv, CallsTrue, ConcludeReconcile, Answered
<1>2. a \in Locals /\ records[a] \in ArmaRecord /\ records[a] /= None
  BY <1>1, CallParts, RecordAssumption
<1>3. queries' \in [Locals -> 0..StatusAttempts]
  BY <1>1 DEF ConcludeReconcile, ServiceInv, TrueCall
<1>4. CASE SendCreate(w, a, records)
  BY <1>2, <1>3, <1>4, SendCreateTrue DEF Truthful, ServiceInv, Kept
<1>5. CASE Finish(w) /\ UNCHANGED sent /\ RecordsTrue(records', activations)
           /\ Kept(records, records')
  BY <1>3, <1>5, OneCall DEF Finish, Truthful, ServiceInv
<1>6. CASE SetStatus(a, "QUARANTINED") /\ Finish(w) /\ UNCHANGED sent
  BY <1>2, <1>5, <1>6, SetStatusTrue DEF Final
<1>7. CASE /\ c.reply.code = "FOUND" /\ Finish(w) /\ UNCHANGED sent
           /\ records' = [records EXCEPT ![a].status = "ACTIVE", ![a].patches = c.subject]
  BY <1>1, <1>5, <1>7, FoundRecord
<1>8. CASE Finish(w) /\ UNCHANGED <<records, sent>>
  BY <1>5, <1>8, Unchanged
<1>9. QED
  BY <1>4, <1>6, <1>7, <1>8 DEF ConcludeReconcile, Says

LEMMA ConcludeOthersTrue ==
  ASSUME Attributed, ServiceInv, NEW w \in Workers, ConcludeSync(w) \/ ConcludeChange(w)
  PROVE  Truthful
<1> DEFINE c == calls[w]
           a == c.local
<1>1. /\ TrueCall(records, activations, c)
      /\ c /= None /\ c.reply /= None /\ Finish(w) /\ UNCHANGED sent
  BY DEF ServiceInv, CallsTrue, ConcludeSync, ConcludeChange, Answered
<1>2. a \in Locals /\ records[a] \in ArmaRecord /\ records[a] /= None
  BY <1>1, CallParts, RecordAssumption
<1>3. CASE RecordsTrue(records', activations) /\ Kept(records, records')
  BY <1>1, <1>3, OneCall DEF Finish, Truthful, ServiceInv
<1>4. ASSUME NEW status \in {"DEACTIVATED", "REVOKED", "RECONCILIATION_REQUIRED"},
             SetStatus(a, status)
      PROVE  Truthful
  BY <1>2, <1>3, <1>4, SetStatusTrue DEF Live, Final
<1>5. CASE /\ c.op = "sync" /\ c.reply.code = "FOUND"
           /\ records' = [records EXCEPT ![a].status = "ACTIVE", ![a].patches = c.subject]
  BY <1>1, <1>3, <1>5, FoundRecord
<1>6. CASE records' = records
  BY <1>3, <1>6, Unchanged
<1>7. CASE ConcludeSync(w)
  <2>1. c.op = "sync"
    BY <1>7 DEF ConcludeSync, Answered
  <2>2. QED
    BY <1>4, <1>5, <1>6, <1>7, <2>1 DEF ConcludeSync, Says
<1>8. CASE ConcludeChange(w)
  BY <1>4, <1>6, <1>8 DEF ConcludeChange, After
<1>9. QED
  BY <1>7, <1>8

LEMMA ChangeTrue ==
  ASSUME ServiceInv, NEW w \in Workers, NEW a \in Locals,
         NEW kind \in {"deactivate", "revoke"}, ChangeRemotely(w, a, kind)
  PROVE  Truthful
<1> DEFINE r == NextChange(kind, records[a].patches)
           c == [op |-> kind, local |-> a, req |-> r, subject |-> r.target, count |-> 1,
                 active |-> records[a] /= None /\ records[a].status = "ACTIVE",
                 reply |-> AnswerAtOnce]
<1>1. r \in Requests /\ r.kind /= "create" /\ sent' \subseteq Requests
  BY DEF ChangeRemotely, Sending, ServiceInv, NextChange, ChangeRequest
<1>2. r.target \in RequestIds
  BY <1>1, ChangeParts
<1>3. calls' = [calls EXCEPT ![w] = c]
  BY DEF ChangeRemotely, Begin
<1>4. records[a] \in ArmaRecord /\ records' = records
  BY DEF ChangeRemotely, ServiceInv, RecordsTrue
<1> HIDE DEF r
<1>5. c \in Call
  BY <1>1, <1>2, AtOnce DEF Call
<1>6. c.reply /= None => TrueReply(activations, c, c.reply)
  BY AtOnce
<1>7. c.op = kind /\ c.local = a
  OBVIOUS
<1> HIDE DEF c
<1>8. TrueCall(records', activations, c)
  BY <1>4, <1>5, <1>6, <1>7 DEF TrueCall
<1>9. QED
  BY <1>1, <1>3, <1>4, <1>8, Unchanged, OneCall DEF Truthful, ServiceInv

LEMMA LocalTrue ==
  ASSUME ServiceInv, NEW a \in Locals, RevokeLocally(a) \/ QuarantineNew(a)
  PROVE  Truthful /\ Followed(order', records')
<1>1. CASE RevokeLocally(a)
  <2>1. RecordsTrue(records', activations) /\ Kept(records, records')
    BY <1>1, SetStatusTrue DEF RevokeLocally, Final
  <2>2. QED
    BY <1>1, <2>1, SameCalls, StillFollowed DEF RevokeLocally, Truthful, ServiceInv
<1>2. CASE QuarantineNew(a)
  <2> DEFINE recs == [records EXCEPT ![a] = FreshRecord("QUARANTINED")]
  <2>1. RecordsTrue(recs, activations) /\ Kept(records, recs) /\ recs[a] \in ArmaRecord
    BY FreshTrue
  <2>2. records' = recs /\ order' = Append(order, a) /\ UNCHANGED <<calls, sent>>
    BY <1>2 DEF QuarantineNew
  <2> HIDE DEF recs
  <2>3. Truthful
    BY <2>1, <2>2, SameCalls DEF Truthful, ServiceInv
  <2>4. QED
    BY <2>1, <2>2, <2>3 DEF Kept, Followed, ServiceInv
<1>3. QED
  BY <1>1, <1>2

(* The service alone: the server's registries are as they were. *)
LEMMA AloneTrue ==
  ASSUME TypeOK, Attributed, ServiceInv, ServiceStep
  PROVE  ServiceInv'
<1> USE CallAssumption
<1>1. activations' = activations
  BY DEF ServiceStep
<1>2. ASSUME Truthful, Followed(order', records'), queries' = queries, paused' \in Switches
      PROVE  ServiceInv'
  BY <1>1, <1>2 DEF Truthful, ServiceInv
<1>3. ASSUME Truthful, order' = order, queries' \in [Locals -> 0..StatusAttempts],
             paused' = paused
      PROVE  ServiceInv'
  BY <1>1, <1>3, StillFollowed DEF Truthful, ServiceInv
<1>4. ASSUME Truthful, UNCHANGED <<order, queries, paused>>
      PROVE  ServiceInv'
  BY <1>3, <1>4 DEF ServiceInv
<1>5. ASSUME NEW w \in Workers, NEW a \in Locals, Operate(w, a) PROVE ServiceInv'
  <2>1. CASE ActivateNew(w, a) \/ ActivateAgain(w, a) \/ ResumeUnsent(w, a)
    BY <1>2, <2>1, ActivateTrue DEF ActivateNew, ActivateAgain, ResumeUnsent, ServiceInv
  <2>2. CASE Reconcile(w, a) \/ ResumeSent(w, a) \/ Sync(w, a)
    BY <1>4, <2>2, AskTrue DEF Reconcile, ResumeSent, Sync
  <2>3. CASE \E kind \in {"deactivate", "revoke"} : ChangeRemotely(w, a, kind)
    BY <1>4, <2>3, ChangeTrue DEF ChangeRemotely
  <2>4. QED
    BY <1>5, <2>1, <2>2, <2>3 DEF Operate
<1>6. ASSUME NEW w \in Workers, Continue(w) PROVE ServiceInv'
  <2>1. CASE RetryCreate(w)
    BY <1>4, <2>1, RetryTrue DEF RetryCreate
  <2>2. CASE GiveUp(w) \/ AnswerQuery(w) \/ DenyQuery(w) \/ FailQuery(w)
    BY <1>4, <2>2, AnsweredTrue DEF GiveUp, AnswerQuery, DenyQuery, FailQuery
  <2>3. CASE ConcludeCreate(w)
    BY <1>4, <2>3, ConcludeCreateTrue DEF ConcludeCreate
  <2>4. CASE ConcludeReconcile(w)
    BY <1>3, <2>4, ConcludeReconcileTrue DEF ConcludeReconcile
  <2>5. CASE ConcludeSync(w) \/ ConcludeChange(w)
    BY <1>4, <2>5, ConcludeOthersTrue DEF ConcludeSync, ConcludeChange
  <2>6. QED
    BY <1>6, <2>1, <2>2, <2>3, <2>4, <2>5 DEF Continue
<1>7. ASSUME NEW a \in Locals, QuarantineNew(a) \/ RevokeLocally(a) PROVE ServiceInv'
  BY <1>2, <1>7, LocalTrue DEF QuarantineNew, RevokeLocally, ServiceInv
<1>8. CASE RestartService
  <2>1. Truthful
    BY <1>8, Unchanged, NoCalls DEF RestartService, ProcessStops, Truthful, ServiceInv
  <2>2. QED
    BY <1>4, <1>8, <2>1 DEF RestartService
<1>9. CASE SwitchOutbound
  BY <1>1, <1>9 DEF SwitchOutbound, ServiceInv
<1>10. QED
  BY <1>5, <1>6, <1>7, <1>8, <1>9 DEF ServiceStep

-----------------------------------------------------------------------------
(* The steps of the server, and the whole *)

LEMMA HeardTrue ==
  ASSUME AnswersMatchIntent', TypeOK', NEW c, TrueCall(records, activations', c),
         c.reply = None, answer' /= None, answer'.req = c.req,
         NEW reply, reply = [code |-> answer'.code, status |-> None,
                             activation |-> answer'.activation]
  PROVE  TrueCall(records, activations', [c EXCEPT !.reply = reply])
<1>1. answer' \in Answer
  BY DEF TypeOK
<1>2. reply \in Reply /\ reply.code = answer'.code /\ reply.activation = answer'.activation
  BY <1>1 DEF Reply, Answer
<1>3. reply.code /= "FOUND"
  BY <1>1, <1>2 DEF Answer, Code
<1>4. ASSUME c.op = "create", reply.code \in {"SUCCESS", "DUPLICATE"}
      PROVE  Mine(activations', c.local, reply.activation)
  BY <1>2, <1>4 DEF AnswersMatchIntent, TrueCall, Mine
<1> DEFINE d == [c EXCEPT !.reply = reply]
<1>5. c \in Call
  BY DEF TrueCall
<1>6. /\ d \in Call /\ d.reply = reply /\ d.op = c.op /\ d.local = c.local
      /\ d.req = c.req /\ d.subject = c.subject /\ d.count = c.count
  BY <1>2, <1>5 DEF Call
<1> HIDE DEF d
<1>7. TrueReply(activations', d, d.reply)
  BY <1>3, <1>4, <1>6 DEF TrueReply
<1>8. TrueCall(records, activations', d)
  BY <1>6, <1>7 DEF TrueCall
<1>9. QED
  BY <1>8 DEF d

LEMMA ServerTrue ==
  ASSUME RegistryInv, AnswersMatchIntent', TypeOK', [Next]_serverVars, ServiceInv, ServerStep
  PROVE  ServiceInv'
<1>1. Stays(activations, activations')
  BY ActivationsStay
<1>2. UNCHANGED <<records, order, queries, sent, paused>>
  BY DEF ServerStep
<1>3. RecordsTrue(records, activations')
  BY <1>1, RecordsStay DEF ServiceInv
<1>4. \A w \in Workers : calls[w] /= None => TrueCall(records, activations', calls[w])
  BY <1>1, CallStays DEF ServiceInv, CallsTrue, Kept
<1>5. ASSUME NEW w \in Workers, calls'[w] /= None
      PROVE  TrueCall(records, activations', calls'[w])
  <2>1. CASE Waiting(w) /\ answer' /= None /\ answer'.req = calls[w].req
    <3> DEFINE reply == [code |-> answer'.code, status |-> None,
                         activation |-> answer'.activation]
    <3>1. calls'[w] = [calls[w] EXCEPT !.reply = reply]
      BY <2>1 DEF ServerStep
    <3>2. calls[w] /= None /\ calls[w].reply = None
      BY <2>1 DEF Waiting
    <3> HIDE DEF reply
    <3>3. TrueCall(records, activations', [calls[w] EXCEPT !.reply = reply])
      BY <1>4, <2>1, <3>2, HeardTrue DEF reply
    <3>4. QED
      BY <3>1, <3>3
  <2>2. CASE ~(Waiting(w) /\ answer' /= None /\ answer'.req = calls[w].req)
    <3>1. calls'[w] = calls[w]
      BY <2>2 DEF ServerStep
    <3>2. QED
      BY <1>4, <1>5, <3>1
  <2>3. QED
    BY <2>1, <2>2
<1>6. calls' \in [Workers -> Call \cup {None}]
  <2>1. calls' = [w \in Workers |-> calls'[w]]
    BY DEF ServerStep
  <2>2. \A w \in Workers : calls'[w] \in Call \cup {None}
    BY <1>5 DEF TrueCall
  <2>3. QED
    BY <2>1, <2>2
<1>7. CallsTrue(calls', records, activations')
  BY <1>5, <1>6 DEF CallsTrue
<1>8. QED
  BY <1>2, <1>3, <1>7 DEF ServiceInv

LEMMA ServiceInvStep ==
  RegistryInv /\ TypeOK' /\ AnswersMatchIntent' /\ [Next]_serverVars
      /\ ServiceInv /\ [ServiceNext]_allVars => ServiceInv'
<1> SUFFICES ASSUME RegistryInv, TypeOK', AnswersMatchIntent', [Next]_serverVars,
                    ServiceInv, [ServiceNext]_allVars
             PROVE  ServiceInv'
  OBVIOUS
<1>1. CASE ServiceStep
  BY <1>1, AloneTrue DEF RegistryInv
<1>2. CASE ServerStep
  BY <1>2, ServerTrue
<1>3. CASE UNCHANGED allVars
  BY <1>3 DEF ServiceInv
<1>4. QED
  BY <1>1, <1>2, <1>3 DEF ServiceNext

LEMMA ServiceInvInit == ServiceInit => ServiceInv
<1> SUFFICES ASSUME ServiceInit PROVE ServiceInv
  OBVIOUS
<1>1. RecordsTrue(records, activations)
  BY DEF ServiceInit, RecordsTrue
<1>2. CallsTrue(calls, records, activations)
  BY NoCalls DEF ServiceInit
<1>3. Followed(order, records)
  BY DEF ServiceInit, Followed
<1>4. QED
  BY <1>1, <1>2, <1>3, CallAssumption DEF ServiceInit, ServiceInv

(* What ARMA's records and suspended operations say of the server is true: *)
(* a record in ACTIVE has an identity, an identity is an activation with   *)
(* the record's intent and key, a presumed identity is the id of an own    *)
(* attempt, and a reply in flight reports no activation that is not there. *)
THEOREM ServiceInvariance == ServiceSpec => []ServiceInv
<1>1. Spec => [](RegistryInv /\ AnswersMatchIntent)
  BY RegistryInvariance, AnswersTrue, PTL
<1>2. RegistryInv => TypeOK
  BY DEF RegistryInv
<1>3. QED
  BY <1>1, <1>2, ServiceRefinesServer, ServiceInvInit, ServiceInvStep, PTL
     DEF ServiceSpec, Spec

(* However activate, reconcile, resume, retries and lost answers overlap,  *)
(* an identity that ARMA holds for an intent (resolvePatchesIdentity) is,  *)
(* once it exists at the server, an activation of this intent under its    *)
(* key: an answer can never move the wrong activation.                     *)
THEOREM IdentitiesTrue == ServiceSpec => []IdentityTrue
<1>1. ServiceInv /\ RegistryInv => IdentityTrue
  <2> SUFFICES ASSUME ServiceInv, RegistryInv, NEW a \in Locals, records[a] /= None
               PROVE  /\ records[a].status = "ACTIVE" => records[a].patches /= None
                      /\ records[a].patches /= None =>
                            Mine(activations, a, records[a].patches)
                      /\ records[a].hint /= None /\ activations[records[a].hint] /= None =>
                            Mine(activations, a, records[a].hint)
    BY DEF IdentityTrue, Mine
  <2>1. TrueRecord(activations, a, records[a])
    BY DEF ServiceInv, RecordsTrue
  <2>2. records[a].hint \in RequestIds \cup {None}
    BY <2>1 DEF TrueRecord, ArmaRecord
  <2>3. QED
    BY <2>1, <2>2, OwnIsMine DEF TrueRecord, RegistryInv
<1>2. QED
  BY <1>1, ServiceInvariance, ServiceRefinesServer, RegistryInvariance, PTL

(* The store and the operations of ARMA keep their types, and the          *)
(* reconciliation records of an activation never exceed their bound.       *)
THEOREM ServiceTypeCorrect == ServiceSpec => []ServiceTypeOK
<1>1. ServiceInv /\ TypeOK => ServiceTypeOK
  BY DEF ServiceInv, ServiceTypeOK, RecordsTrue, CallsTrue, Followed
<1>2. QED
  BY <1>1, ServiceInvariance, ServiceRefinesServer, TypeCorrect, PTL

-----------------------------------------------------------------------------
(* No create is sent blindly.  Lives are the creates that may still be     *)
(* processed, or have been, otherwise than by a repetition of the network: *)
(* a step of the service leaves them as they are, and a step of the server *)
(* adds none.                                                              *)

Lives == {r \in Requests : ~LeftNothing(r)}

(* None of the creates that a has sent is one of them. *)
Own(r, a) == r.kind = "create" /\ r.id[1] = a
Quiet(out, live, a) == \A r \in out : Own(r, a) => r \notin live

(* Whoever picks the record up sends its create. *)
Idle(recs, a) ==
    recs[a] = None \/ recs[a].status \in {"PENDING", "READY_TO_ACTIVATE", "REJECTED"}

Creating(ops, w, a) == ops[w] /= None /\ ops[w].op = "create" /\ ops[w].local = a

(* A create is in one pair of hands, its record says so, and nothing but   *)
(* the attempt that its answer is awaited of can be processed.             *)
Careful(recs, ops, out, live, a) ==
    /\ Idle(recs, a) => Quiet(out, live, a)
    /\ \A w \in Workers : Creating(ops, w, a) =>
          /\ ~Idle(recs, a)
          /\ \A v \in Workers : Creating(ops, v, a) => v = w
          /\ \A r \in out : Own(r, a) /\ r /= ops[w].req => r \notin live
          /\ ops[w].reply /= None /\ ops[w].reply.code \notin {"SUCCESS", "FAULT"}
                => Quiet(out, live, a)

(* What lets an intent be sent anew in any case, once and for all. *)
Asked(a) == queries[a] = StatusAttempts \/ Shared(a)

(* Who has a record is in the order of the Map. *)
Listed(recs, ids) == \A a \in Locals : recs[a] /= None => \E i \in DOMAIN ids : ids[i] = a

CarefulInv == \A a \in Locals : Asked(a) \/ Careful(records, calls, sent, Lives, a)

(* What a step owes to an intent: its care, and no blind resend. *)
Owed(live, a) ==
    /\ Asked(a) => Asked(a)'
    /\ Asked(a)' \/ Careful(records', calls', sent', live, a)
    /\ sent \subseteq sent'
    /\ Asked(a)' \/ Quiet(sent, live, a) \/ \A r \in sent' \ sent : ~Own(r, a)

-----------------------------------------------------------------------------
(* The server: what is dead stays dead *)

LEMMA DeadStays ==
  ASSUME RegistryInv, DeliveryInv, [Next]_serverVars, NEW r \in Requests, LeftNothing(r)
  PROVE  LeftNothing(r)'
<1> USE DEF RegistryInv
<1>1. PICK c \in Copies : Over(r, c)
  BY DEF LeftNothing
<1>2. Over(r, c)'
  BY <1>1, OverStays
<1>3. arrived \subseteq arrived'
  BY DEF Next, Deliver, Conclude, Administer, RestartServer, Tick
<1>4. Repeated(r) => Repeated(r)'
  BY <1>3 DEF Repeated
<1>5. r.id \in RequestIds
  BY RequestParts
<1>6. activations'[r.id] /= None => activations[r.id] /= None \/ Repeated(r)'
  <2>1. CASE UNCHANGED registries
    BY <2>1
  <2>2. ASSUME NEW s \in Requests, ApplyChange(s)
        PROVE  activations'[r.id] /= None => activations[r.id] /= None
    BY <1>5, <2>2, ChangeEffect
  <2>3. ASSUME NEW h \in pending, WriteActivation(h.req), arrived' = arrived
        PROVE  activations'[r.id] /= None => activations[r.id] /= None \/ Repeated(r)'
    <3> PICK s : s = h.req
      OBVIOUS
    <3>1. s \in Requests /\ s.kind = "create" /\ h.copy \in Copies
      BY HandlerParts
    <3>2. CASE s = r
      <4>1. h.copy /= c /\ {<<r, h.copy>>, <<r, c>>} \subseteq arrived'
        BY <1>1, <2>3, <3>2 DEF Over, DeliveryInv
      <4>2. QED
        BY <3>1, <4>1 DEF Repeated
    <3>3. CASE s /= r
      <4>1. s.id /= r.id
        BY <3>1, <3>3, FreshAssumption
      <4>2. QED
        BY <1>5, <2>3, <3>1, <4>1, CreateEffect
    <3>4. QED
      BY <3>2, <3>3
  <2>4. ASSUME NEW s \in Requests, NEW d \in Copies, Deliver(s, d)
        PROVE  ApplyChange(s) \/ UNCHANGED registries
    BY <2>4 DEF Deliver, Arrive, RefuseDisabled, RefuseAuthentication, RefuseEarly, AnswerCreate,
       AnswerChange, AnswerFromRecord, Suspend, FailChange, RolledBack
  <2>5. ASSUME NEW h \in pending, Conclude(h)
        PROVE  arrived' = arrived /\ (WriteActivation(h.req) \/ UNCHANGED registries)
    BY <2>5 DEF Conclude, Resume, CommitCreate, RefuseDownstream, FailCreate, RolledBack
  <2>6. QED
    BY <2>1, <2>2, <2>3, <2>4, <2>5, StepShape
<1>7. QED
  BY <1>2, <1>4, <1>6 DEF LeftNothing

(* An answer that is neither a success nor unknown is the end of its       *)
(* request: unless it has left nothing, there was another delivery.        *)
LEMMA RefusedIsDead ==
  ASSUME RegistryInv, DeliveryInv, Next, NEW r \in Requests,
         answer' /= None, answer'.req = r,
         answer'.code \notin {"SUCCESS", "FAULT"}
  PROVE  LeftNothing(r)'
<1> USE DEF RegistryInv
<1>1. ASSUME NEW c \in Copies, ~Over(r, c), arrived \cup {<<r, c>>} \subseteq arrived',
             \A h \in pending' : h.req = r => h.copy /= c,
             UNCHANGED registries
      PROVE  LeftNothing(r)'
  <2>1. Over(r, c)'
    BY <1>1 DEF Over
  <2>2. activations[r.id] /= None => Processed(r)
    BY UnprocessedUnknown
  <2>3. activations'[r.id] /= None => Repeated(r)'
    BY <1>1, <2>2, OtherDelivery
  <2>4. QED
    BY <2>1, <2>3 DEF LeftNothing
<1>2. ASSUME NEW s \in Requests, NEW c \in Copies, Deliver(s, c) PROVE LeftNothing(r)'
  <2>1. s = r /\ UNCHANGED <<pending, registries>>
    BY <1>2 DEF Deliver, Arrive, RefuseDisabled, RefuseAuthentication, RefuseEarly,
       AnswerCreate, AnswerChange, AnswerFromRecord, Suspend, ApplyChange, FailChange,
       RolledBack, Answers
  <2>2. /\ <<r, c>> \notin arrived /\ arrived' = arrived \cup {<<r, c>>}
        /\ \A h \in pending' : h.req = r => h.copy /= c
    BY <1>2, <2>1, DeliveryAdds DEF DeliveryInv
  <2>3. QED
    BY <1>1, <2>1, <2>2 DEF Over
<1>3. ASSUME NEW h \in pending, Conclude(h) PROVE LeftNothing(r)'
  <2>1. h.req = r /\ pending' = pending \ {h} /\ arrived' = arrived /\ UNCHANGED registries
    BY <1>3 DEF Conclude, Resume, CommitCreate, RefuseDownstream, FailCreate, RolledBack, Answers
  <2>2. /\ h.copy \in Copies /\ <<r, h.copy>> \in arrived
        /\ \A g \in pending' : g.req = r => g.copy /= h.copy
    BY <2>1, HandlerParts DEF DeliveryInv
  <2>3. ~Over(r, h.copy)
    BY <2>1 DEF Over
  <2>4. QED
    BY <1>1, <2>1, <2>2, <2>3
<1>4. QED
  BY <1>2, <1>3 DEF Next, Administer, RestartServer, Tick

-----------------------------------------------------------------------------
(* The service: steps that send no create *)

LEMMA CalmCareful ==
  ASSUME NEW recs, NEW later, NEW ops, NEW ops2, NEW out, NEW out2, NEW live, NEW a \in Locals,
         Careful(recs, ops, out, live, a),
         \A r \in out2 : Own(r, a) => r \in out,
         \A v \in Workers : Creating(ops2, v, a) =>
            /\ Creating(ops, v, a) /\ ops2[v].req = ops[v].req
            /\ \/ ops2[v].reply = ops[v].reply
               \/ ops2[v].reply /= None => ops2[v].reply.code \in {"SUCCESS", "FAULT"},
         Idle(later, a) =>
            \/ Idle(recs, a)
            \/ Quiet(out, live, a) /\ \A v \in Workers : ~Creating(ops2, v, a)
  PROVE  Careful(later, ops2, out2, live, a)
<1>1. Quiet(out, live, a) => Quiet(out2, live, a)
  BY DEF Quiet
<1>2. Idle(later, a) => Quiet(out, live, a)
  BY DEF Careful
<1>3. ASSUME NEW w \in Workers, Creating(ops2, w, a)
      PROVE  /\ ~Idle(later, a)
             /\ \A v \in Workers : Creating(ops2, v, a) => v = w
             /\ \A r \in out2 : Own(r, a) /\ r /= ops2[w].req => r \notin live
             /\ ops2[w].reply /= None /\ ops2[w].reply.code \notin {"SUCCESS", "FAULT"}
                   => Quiet(out, live, a)
  BY <1>3 DEF Careful
<1>4. QED
  BY <1>1, <1>2, <1>3 DEF Careful

(* The status of a record becomes one that nobody sends from. *)
LEMMA SettledIsBusy ==
  ASSUME ServiceInv, NEW b \in Locals, records[b] /= None,
         NEW status \in (Live \cup Final) \ {"PENDING", "READY_TO_ACTIVATE", "REJECTED"},
         SetStatus(b, status), NEW a \in Locals, Idle(records', a)
  PROVE  Idle(records, a)
<1>1. records[b] \in ArmaRecord /\ records' = [records EXCEPT ![b].status = status]
  BY DEF ServiceInv, RecordsTrue, SetStatus
<1>2. a /= b
  <2>1. [records[b] EXCEPT !.status = status] \in ArmaRecord
    BY <1>1 DEF ArmaRecord
  <2>2. [records[b] EXCEPT !.status = status].status = status
    BY <1>1 DEF ArmaRecord
  <2>3. records'[b] = [records[b] EXCEPT !.status = status]
    BY <1>1 DEF ServiceInv, RecordsTrue
  <2>4. QED
    BY <2>1, <2>2, <2>3, RecordAssumption DEF Idle
<1>3. QED
  BY <1>1, <1>2 DEF Idle, ServiceInv, RecordsTrue

LEMMA AskedSame ==
  ASSUME UNCHANGED <<queries, order>>, NEW a
  PROVE  Asked(a)' <=> Asked(a)
BY DEF Asked, Shared, Tracked

(* The Map only grows. *)
LEMMA AskedStays ==
  ASSUME order \in Seq(Locals), NEW a, queries'[a] = queries[a],
         order' = order \/ \E b \in Locals : order' = Append(order, b), Asked(a)
  PROVE  Asked(a)'
<1>1. ASSUME NEW i \in DOMAIN order PROVE order[i] \in Tracked'
  <2>1. i \in DOMAIN order' /\ order'[i] = order[i]
    OBVIOUS
  <2>2. QED
    BY <2>1 DEF Tracked
<1>2. Tracked \subseteq Tracked'
  BY <1>1 DEF Tracked
<1>3. QED
  BY <1>2 DEF Asked, Shared

(* A step that sends no create, starts none, answers at most that the      *)
(* outcome is unknown, and makes no record idle.                           *)
LEMMA CalmOwed ==
  ASSUME CarefulInv, NEW live, live = Lives, NEW a \in Locals, Asked(a) => Asked(a)',
         sent \subseteq sent', \A r \in sent' \ sent : r.kind /= "create",
         \A v \in Workers : Creating(calls', v, a) =>
            /\ Creating(calls, v, a) /\ calls'[v].req = calls[v].req
            /\ \/ calls'[v].reply = calls[v].reply
               \/ calls'[v].reply /= None => calls'[v].reply.code \in {"SUCCESS", "FAULT"},
         Idle(records', a) =>
            \/ Idle(records, a)
            \/ Asked(a)
            \/ Quiet(sent, live, a) /\ \A v \in Workers : ~Creating(calls', v, a)
  PROVE  Owed(live, a)
<1>1. \A r \in sent' \ sent : ~Own(r, a)
  BY DEF Own
<1>2. CASE Asked(a)
  BY <1>1, <1>2 DEF Owed
<1>3. CASE ~Asked(a)
  <2>1. Careful(records, calls, sent, live, a)
    BY <1>3 DEF CarefulInv
  <2>2. Careful(records', calls', sent', live, a)
    BY <1>1, <1>3, <2>1, CalmCareful
  <2>3. QED
    BY <1>1, <2>2 DEF Owed
<1>4. QED
  BY <1>2, <1>3

-----------------------------------------------------------------------------
(* The service: steps that send a create *)

LEMMA AttemptIsOwn ==
  ASSUME NEW a \in Locals, NEW b \in Locals
  PROVE  Own(NextCreate(b), a) <=> a = b
BY DEF NextCreate, CreateRequest, Own

(* One worker has taken the record up, with a first or another attempt. *)
LEMMA LaunchCareful ==
  ASSUME NEW ops, NEW ops2, NEW later, NEW out, NEW out2, NEW live, NEW r,
         NEW b \in Locals, NEW w \in Workers,
         Quiet(out, live, b), out2 = out \/ out2 = out \cup {r},
         \A v \in Workers : Creating(ops2, v, b) => v = w,
         ops2[w].req = r, out2 = out \/ ops2[w].reply = None,
         ~Idle(later, b)
  PROVE  Careful(later, ops2, out2, live, b)
BY DEF Careful, Quiet

(* Whoever sends the create of b has found that no earlier one can be      *)
(* processed, or that reconciliation has asked often enough.               *)
Free(live, b) == Quiet(sent, live, b) /\ \A v \in Workers : ~Creating(calls, v, b)

LEMMA SendOwed ==
  ASSUME CarefulInv, NEW live, live = Lives, NEW w \in Workers, NEW b \in Locals,
         calls \in [Workers -> Call \cup {None}], ~Creating(calls, w, b),
         \A a \in Locals : Asked(a) => Asked(a)',
         NEW recs \in [Locals -> ArmaRecord \cup {None}],
         recs[b] \in ArmaRecord, \A a \in Locals : a /= b => recs[a] = records[a],
         Asked(b)' \/ Free(live, b),
         SendCreate(w, b, recs), NEW a \in Locals
  PROVE  Owed(live, a)
<1>1. CASE /\ NextCreate(b) \in Requests
           /\ Sending(NextCreate(b))
           /\ Begin(w, "create", b, NextCreate(b), NextCreate(b).id, 1)
           /\ records' = [recs EXCEPT ![b].status = "ACTIVATION_SENT"]
  <2> DEFINE r == NextCreate(b)
  <2>1. /\ sent' = sent \/ sent' = sent \cup {r}
        /\ sent' = sent \/ calls'[w].reply = None
        /\ calls'[w].req = r /\ calls'[w].op = "create" /\ calls'[w].local = b
        /\ \A v \in Workers : v /= w => calls'[v] = calls[v]
    BY <1>1 DEF Sending, Begin, AnswerAtOnce
  <2>2. /\ records'[b] = [recs[b] EXCEPT !.status = "ACTIVATION_SENT"]
        /\ \A d \in Locals : d /= b => records'[d] = records[d]
    BY <1>1
  <2>3. ~Idle(records', b)
    <3>1. records'[b] \in ArmaRecord /\ records'[b].status = "ACTIVATION_SENT"
      BY <2>2 DEF ArmaRecord, Live
    <3>2. QED
      BY <3>1, RecordAssumption DEF Idle
  <2>4. Own(r, a) <=> a = b
    BY AttemptIsOwn
  <2> HIDE DEF r
  <2>5. CASE a /= b
    <3>1. \A v \in Workers : Creating(calls', v, a) => Creating(calls, v, a) /\ calls'[v] = calls[v]
      BY <2>1, <2>5 DEF Creating
    <3>2. Idle(records', a) => Idle(records, a)
      BY <2>2, <2>5 DEF Idle
    <3>4. \A s \in sent' : Own(s, a) => s \in sent
      BY <2>1, <2>4, <2>5
    <3>5. Asked(a) \/ Careful(records', calls', sent', live, a)
      BY <3>1, <3>2, <3>4, CalmCareful DEF CarefulInv
    <3>6. QED
      BY <2>1, <3>4, <3>5 DEF Owed
  <2>6. CASE a = b /\ Asked(b)'
    BY <2>1, <2>6 DEF Owed
  <2>7. CASE a = b /\ ~Asked(b)'
    <3>1. \A v \in Workers : Creating(calls', v, b) => v = w
      BY <2>1, <2>7 DEF Creating, Free
    <3>2. Careful(records', calls', sent', live, b)
      BY <2>1, <2>3, <2>7, <3>1, LaunchCareful DEF Free
    <3>3. QED
      BY <2>1, <2>7, <3>2 DEF Owed, Free
  <2>8. QED
    BY <2>5, <2>6, <2>7
<1>2. CASE /\ ProcessStops
           /\ records' \in {recs, [recs EXCEPT ![b].status = "READY_TO_ACTIVATE"]}
           /\ UNCHANGED sent
  <2>1. \A v \in Workers : ~Creating(calls', v, a)
    BY <1>2 DEF ProcessStops, Creating
  <2>2. a /= b => records'[a] = records[a]
    BY <1>2
  <2>3. CASE Asked(a)'
    BY <1>2, <2>3 DEF Owed
  <2>4. CASE ~Asked(a)' /\ a = b
    <3>1. Quiet(sent, live, a)
      BY <2>4 DEF Free
    <3>2. QED
      BY <1>2, <2>1, <2>4, <3>1 DEF Owed, Careful
  <2>5. CASE ~Asked(a)' /\ a /= b
    <3>1. Careful(records, calls, sent, live, a)
      BY <2>5 DEF CarefulInv
    <3>2. Careful(records', calls', sent', live, a)
      BY <1>2, <2>1, <2>2, <2>5, <3>1 DEF Careful, Idle
    <3>3. QED
      BY <1>2, <2>5, <3>2 DEF Owed
  <2>6. QED
    BY <2>3, <2>4, <2>5
<1>3. QED
  BY <1>1, <1>2 DEF SendCreate

LEMMA RetryOwed ==
  ASSUME CarefulInv, ServiceInv, NEW live, live = Lives, NEW w \in Workers, RetryCreate(w),
         NEW a \in Locals
  PROVE  Owed(live, a)
<1> DEFINE b == calls[w].local
           r == NextCreate(b)
<1>1. /\ Creating(calls, w, b) /\ b \in Locals
      /\ calls[w].reply /= None /\ calls[w].reply.code \notin {"SUCCESS", "FAULT"}
  BY CallParts DEF RetryCreate, Answered, MayRetry, Clean, Creating, ServiceInv, CallsTrue
<1>2. /\ sent' = sent \/ sent' = sent \cup {r}
      /\ UNCHANGED <<records, order, queries, paused>>
  BY DEF RetryCreate, Sending
<1>3. /\ sent' = sent \/ calls'[w].reply = None
      /\ calls'[w].req = r /\ calls'[w].op = "create" /\ calls'[w].local = b
      /\ \A v \in Workers : v /= w => calls'[v] = calls[v]
  <2>1. calls[w] \in Call /\ calls \in [Workers -> Call \cup {None}]
    BY <1>1 DEF ServiceInv, CallsTrue, Creating
  <2>2. calls' = [calls EXCEPT ![w] = [calls[w] EXCEPT !.req = r, !.count = @ + 1,
                                                     !.reply = AnswerAtOnce]]
    BY <2>1 DEF RetryCreate
  <2>3. sent' = sent \/ AnswerAtOnce = None
    BY DEF RetryCreate, Sending, AnswerAtOnce
  <2>4. calls'[w] = [calls[w] EXCEPT !.req = r, !.count = @ + 1, !.reply = AnswerAtOnce]
    BY <2>1, <2>2
  <2> HIDE DEF r
  <2>5. /\ calls'[w].reply = AnswerAtOnce /\ calls'[w].req = r
        /\ calls'[w].op = calls[w].op /\ calls'[w].local = b
    BY <2>1, <2>4 DEF Call
  <2>6. QED
    BY <1>1, <2>1, <2>2, <2>3, <2>5 DEF Creating
<1>4. Own(r, a) <=> a = b
  BY <1>1, AttemptIsOwn
<1> HIDE DEF r
<1>5. CASE Asked(a)
  BY <1>2, <1>5, AskedSame DEF Owed
<1>6. CASE ~Asked(a) /\ a = b
  <2>1. Careful(records, calls, sent, live, b)
    BY <1>6 DEF CarefulInv
  <2>2. Quiet(sent, live, b) /\ ~Idle(records, b)
    BY <1>1, <2>1 DEF Careful
  <2>3. \A v \in Workers : Creating(calls', v, b) => v = w
    BY <1>1, <1>3, <2>1 DEF Careful, Creating
  <2>4. Careful(records', calls', sent', live, b)
    BY <1>1, <1>2, <1>3, <2>2, <2>3, LaunchCareful
  <2>5. QED
    BY <1>2, <1>6, <2>2, <2>4 DEF Owed
<1>7. CASE ~Asked(a) /\ a /= b
  <2>1. Careful(records, calls, sent, live, a)
    BY <1>7 DEF CarefulInv
  <2>2. \A v \in Workers : Creating(calls', v, a) => Creating(calls, v, a) /\ calls'[v] = calls[v]
    BY <1>3, <1>7 DEF Creating
  <2>3. \A s \in sent' : Own(s, a) => s \in sent
    BY <1>2, <1>4, <1>7
  <2>4. Careful(records', calls', sent', live, a)
    BY <1>2, <2>1, <2>2, <2>3, CalmCareful
  <2>5. QED
    BY <1>2, <1>7, <2>3, <2>4 DEF Owed
<1>8. QED
  BY <1>5, <1>6, <1>7

-----------------------------------------------------------------------------
(* Every step of the service owes this to every intent *)

LEMMA IdleIsFree ==
  ASSUME CarefulInv, NEW b \in Locals, Idle(records, b)
  PROVE  Asked(b) \/ Free(Lives, b)
BY DEF CarefulInv, Careful, Free

(* activate takes an intent up again only if nothing was sent for it, or   *)
(* if another record of the intent comes first.                            *)
LEMMA AgainIsIdle ==
  ASSUME ServiceInv, NEW w \in Workers, NEW a \in Locals, ActivateAgain(w, a)
  PROVE  /\ FirstIn(SameKey(a)) \in Locals
         /\ Idle(records, FirstIn(SameKey(a))) \/ Shared(FirstIn(SameKey(a)))
<1> DEFINE prior == FirstIn(SameKey(a))
           existing == FirstIn(SameIntent(a))
<1>1. SameKey(a) \cap Tracked /= {} /\ order \in Seq(Locals)
  BY DEF ActivateAgain, SameKey, ServiceInv, Followed
<1>2. PICK i \in DOMAIN order :
        prior = order[i] /\ \A j \in 1..(i - 1) : order[j] \notin SameKey(a)
  BY <1>1, FirstFound
<1>3. prior \in SameKey(a)
  BY <1>1, FirstFound
<1>4. prior \in Locals /\ records[prior] \in ArmaRecord
  BY <1>1, <1>2 DEF ServiceInv, Followed
<1>5. prior \in SameIntent(a)
  <2>1. records[prior].status \in Live
    BY <1>4 DEF ActivateAgain, ArmaRecord
  <2>2. IntentOf[prior] = IntentOf[a]
    BY <1>3, <1>4, KeyAssumption DEF SameKey
  <2>3. QED
    BY <1>3, <2>1, <2>2 DEF SameKey, SameIntent
<1>6. SameIntent(a) \cap Tracked /= {}
  BY <1>5 DEF SameIntent
<1>7. PICK k \in DOMAIN order :
        existing = order[k] /\ \A j \in 1..(k - 1) : order[j] \notin SameIntent(a)
  BY <1>1, <1>6, FirstFound
<1>8. existing \in SameIntent(a)
  BY <1>1, <1>6, FirstFound
<1>9. existing \in Locals
  BY <1>1, <1>7
<1>10. records[existing].status \in {"PENDING", "READY_TO_ACTIVATE"}
  BY <1>5 DEF ActivateAgain, Collapses
<1>11. CASE existing = prior
  BY <1>4, <1>10, <1>11 DEF Idle
<1>12. CASE existing /= prior
  <2>1. existing \in Tracked /\ IntentOf[existing] = IntentOf[prior]
    BY <1>5, <1>8 DEF SameIntent
  <2>2. QED
    BY <1>4, <1>12, <2>1 DEF Shared
<1>13. QED
  BY <1>11, <1>12

LEMMA OperateOwed ==
  ASSUME CarefulInv, ServiceInv, Listed(records, order), NEW live, live = Lives,
         NEW w \in Workers, NEW b \in Locals, Operate(w, b), NEW a \in Locals
  PROVE  Owed(live, a)
<1>1. /\ calls \in [Workers -> Call \cup {None}]
      /\ records \in [Locals -> ArmaRecord \cup {None}]
  BY DEF ServiceInv, CallsTrue, RecordsTrue
<1>2. ASSUME NEW d \in Locals, Idle(records, d) \/ Asked(d), records[d] /= None,
             calls[w] = None, UNCHANGED <<queries, order>>, SendCreate(w, d, records)
      PROVE  Owed(live, a)
  <2>1. Asked(d)' \/ Free(live, d)
    BY <1>2, IdleIsFree, AskedSame
  <2>2. records[d] \in ArmaRecord
    BY <1>1, <1>2
  <2>3. ~Creating(calls, w, d)
    BY <1>2 DEF Creating
  <2>4. QED
    BY <1>1, <1>2, <2>1, <2>2, <2>3, SendOwed, AskedSame
<1>3. ASSUME UNCHANGED <<queries, order>>,
             sent \subseteq sent', \A r \in sent' \ sent : r.kind /= "create",
             \A v \in Workers : Creating(calls', v, a) => calls'[v] = calls[v],
             Idle(records', a) => Idle(records, a)
      PROVE  Owed(live, a)
  BY <1>3, CalmOwed, AskedSame DEF Creating
<1>4. CASE ActivateNew(w, b)
  <2> DEFINE recs == [records EXCEPT ![b] = FreshRecord("PENDING")]
  <2>1. records[b] = None
    BY <1>4 DEF ActivateNew, SameKey, Tracked, Listed
  <2>2. \A d \in Locals : Asked(d) => Asked(d)'
    BY <1>4, AskedStays DEF ActivateNew, ServiceInv, Followed
  <2>2a. Asked(b)' \/ Free(live, b)
    BY <2>1, <2>2, IdleIsFree DEF Idle
  <2>3. FreshRecord("PENDING") \in ArmaRecord
    BY DEF FreshRecord, ArmaRecord, Live
  <2>4. /\ recs \in [Locals -> ArmaRecord \cup {None}] /\ recs[b] \in ArmaRecord
        /\ \A d \in Locals : d /= b => recs[d] = records[d]
    BY <1>1, <2>3
  <2>5. SendCreate(w, b, recs) /\ ~Creating(calls, w, b)
    BY <1>4 DEF ActivateNew, Creating
  <2> HIDE DEF recs
  <2>6. QED
    BY <1>1, <2>2, <2>2a, <2>4, <2>5, SendOwed
<1>5. CASE ActivateAgain(w, b)
  <2>1. PICK d \in Locals : d = FirstIn(SameKey(b)) /\ (Idle(records, d) \/ Asked(d))
    BY <1>5, AgainIsIdle DEF Asked
  <2>2. records[d] \in ArmaRecord
    <3>1. SameKey(b) \cap Tracked /= {}
      BY <1>5 DEF ActivateAgain, SameKey
    <3>2. PICK i \in DOMAIN order : d = order[i]
      BY <2>1, <3>1, FirstFound DEF ServiceInv, Followed
    <3>3. QED
      BY <3>2 DEF ServiceInv, Followed
  <2>3. SendCreate(w, d, records) /\ calls[w] = None /\ UNCHANGED <<queries, order>>
    BY <1>5, <2>1 DEF ActivateAgain
  <2>4. QED
    BY <1>2, <2>1, <2>2, <2>3, RecordAssumption
<1>6. CASE ResumeUnsent(w, b)
  BY <1>2, <1>6 DEF ResumeUnsent, Idle
<1>7. CASE Reconcile(w, b) \/ ResumeSent(w, b) \/ Sync(w, b)
  <2>1. records[b] /= None /\ UNCHANGED <<queries, order, sent>>
    BY <1>7 DEF Reconcile, ResumeSent, Sync
  <2>2. \/ records' = records
        \/ SetStatus(b, "RECONCILIATION_REQUIRED") \/ SetStatus(b, "QUARANTINED")
    BY <1>7 DEF Reconcile, ResumeSent, Sync
  <2>3. Idle(records', a) => Idle(records, a)
    BY <2>1, <2>2, SettledIsBusy DEF Idle, Live, Final
  <2>4. calls' = calls \/ ProcessStops \/ \E op \in {"reconcile", "sync"} : Query(w, op, b)
    BY <1>7 DEF Reconcile, ResumeSent, Sync
  <2>5. \A v \in Workers : Creating(calls', v, a) => calls'[v] = calls[v]
    BY <1>1, <2>4 DEF ProcessStops, Query, Begin, Creating
  <2>6. QED
    BY <1>3, <2>1, <2>3, <2>5
<1>8. CASE \E kind \in {"deactivate", "revoke"} : ChangeRemotely(w, b, kind)
  <2>1. PICK kind \in {"deactivate", "revoke"} : ChangeRemotely(w, b, kind)
    BY <1>8
  <2>2. NextChange(kind, records[b].patches).kind /= "create"
    BY DEF NextChange, ChangeRequest
  <2>3. /\ sent \subseteq sent' /\ \A r \in sent' \ sent : r.kind /= "create"
        /\ UNCHANGED <<records, order, queries>>
    BY <2>1, <2>2 DEF ChangeRemotely, Sending
  <2>4. \A v \in Workers : Creating(calls', v, a) => calls'[v] = calls[v]
    BY <1>1, <2>1 DEF ChangeRemotely, Begin, Creating
  <2>5. QED
    BY <1>3, <2>3, <2>4 DEF Idle
<1>9. QED
  BY <1>4, <1>5, <1>6, <1>7, <1>8 DEF Operate

LEMMA ConcludeOwed ==
  ASSUME CarefulInv, ServiceInv, NEW live, live = Lives, NEW w \in Workers,
         ConcludeCreate(w) \/ ConcludeSync(w) \/ ConcludeChange(w), NEW a \in Locals
  PROVE  Owed(live, a)
<1> DEFINE c == calls[w]
           b == c.local
<1>1. /\ c /= None /\ c.reply /= None /\ UNCHANGED <<queries, order, sent>>
      /\ \A v \in Workers : calls'[v] = None \/ (v /= w /\ calls'[v] = calls[v])
  <2>1. c /= None /\ c.reply /= None /\ UNCHANGED <<queries, order, sent>>
    BY DEF ConcludeCreate, ConcludeSync, ConcludeChange, Answered
  <2>2. Finish(w) \/ ProcessStops
    BY DEF ConcludeCreate, ConcludeSync, ConcludeChange
  <2>3. QED
    BY <2>1, <2>2 DEF Finish, ProcessStops, ServiceInv, CallsTrue
<1>2. /\ b \in Locals /\ records[b] \in ArmaRecord /\ records[b] /= None
      /\ records \in [Locals -> ArmaRecord \cup {None}]
  BY <1>1, CallParts, RecordAssumption DEF ServiceInv, CallsTrue, RecordsTrue
<1>3. ASSUME Idle(records', a) =>
                 \/ Idle(records, a) \/ Asked(a)
                 \/ Quiet(sent, live, a) /\ \A v \in Workers : ~Creating(calls', v, a)
      PROVE  Owed(live, a)
  BY <1>1, <1>3, CalmOwed, AskedSame DEF Creating
<1>4. ASSUME NEW status \in {"ACTIVE", "DEACTIVATED", "REVOKED", "RECONCILIATION_REQUIRED"},
             SetStatus(b, status)
      PROVE  Owed(live, a)
  BY <1>2, <1>3, <1>4, SettledIsBusy DEF Live, Final
<1>5. ASSUME NEW rec, rec.status \notin {"PENDING", "READY_TO_ACTIVATE", "REJECTED"},
             rec \in ArmaRecord, records' = [records EXCEPT ![b] = rec]
      PROVE  Owed(live, a)
  BY <1>2, <1>3, <1>5, RecordAssumption DEF Idle
<1>6. CASE records' = records
  BY <1>3, <1>6 DEF Idle
<1>7. CASE ConcludeSync(w)
  <2>1. CASE records' = [records EXCEPT ![b].status = "ACTIVE", ![b].patches = c.subject]
    <3> DEFINE rec == [records[b] EXCEPT !.status = "ACTIVE", !.patches = c.subject]
    <3>1. c.subject \in RequestIds
      BY <1>1, CallParts DEF ServiceInv, CallsTrue
    <3>2. rec \in ArmaRecord /\ rec.status = "ACTIVE"
      BY <1>2, <3>1 DEF ArmaRecord, Live
    <3>3. records' = [records EXCEPT ![b] = rec]
      BY <1>2, <2>1
    <3> HIDE DEF rec
    <3>4. QED
      BY <1>5, <3>2, <3>3
  <2>2. QED
    BY <1>4, <1>6, <1>7, <2>1 DEF ConcludeSync, Says
<1>8. CASE ConcludeChange(w)
  BY <1>4, <1>6, <1>8 DEF ConcludeChange, After
<1>9. CASE ConcludeCreate(w)
  <2> DEFINE status == StatusAfter(c.reply.code)
             hinted == [records[b] EXCEPT !.hint = c.subject]
             done == [hinted EXCEPT !.status = status,
                        !.patches = IF status = "ACTIVE" THEN c.reply.activation ELSE @]
  <2>1. /\ c.subject \in RequestIds /\ c.reply \in Reply
        /\ Creating(calls, w, b)
    BY <1>1, <1>9, CallParts DEF ServiceInv, CallsTrue, ConcludeCreate, Answered, Creating
  <2>2. hinted \in ArmaRecord /\ hinted.status = records[b].status
    BY <1>2, <2>1 DEF ArmaRecord
  <2>3. status \in {"ACTIVE", "RECONCILIATION_REQUIRED", "QUARANTINED", "REJECTED"}
    BY DEF StatusAfter
  <2>4. status = "REJECTED" => c.reply.code \notin {"SUCCESS", "FAULT"}
    BY DEF StatusAfter
  <2>5. \/ records' = [records EXCEPT ![b] = done]
        \/ records' = [records EXCEPT ![b] = hinted]
    BY <1>2, <1>9 DEF ConcludeCreate
  <2> HIDE DEF status, hinted
  <2>6. done \in ArmaRecord /\ done.status = status
    BY <2>1, <2>2, <2>3 DEF ArmaRecord, Live, Final, Reply
  <2> HIDE DEF done
  <2>7. CASE records' = [records EXCEPT ![b] = hinted]
    BY <1>2, <1>3, <2>2, <2>7, RecordAssumption DEF Idle
  <2>8. CASE records' = [records EXCEPT ![b] = done] /\ status /= "REJECTED"
    BY <1>5, <2>3, <2>6, <2>8
  <2>9. CASE records' = [records EXCEPT ![b] = done] /\ status = "REJECTED"
    <3>1. a /= b => records'[a] = records[a]
      BY <1>2, <2>9
    <3>2. CASE a /= b
      BY <1>3, <3>1, <3>2 DEF Idle
    <3>3. CASE a = b /\ ~Asked(a)
      <4>1. Careful(records, calls, sent, live, b)
        BY <3>3 DEF CarefulInv
      <4>2. Quiet(sent, live, b) /\ \A v \in Workers : Creating(calls, v, b) => v = w
        BY <1>1, <2>1, <2>4, <2>9, <4>1 DEF Careful
      <4>3. \A v \in Workers : ~Creating(calls', v, b)
        BY <1>1, <4>2 DEF Creating
      <4>4. QED
        BY <1>3, <3>3, <4>2, <4>3
    <3>4. QED
      BY <1>3, <3>2, <3>3
  <2>10. QED
    BY <2>5, <2>7, <2>8, <2>9
<1>10. QED
  BY <1>7, <1>8, <1>9

LEMMA ReconcileOwed ==
  ASSUME CarefulInv, ServiceInv, NEW live, live = Lives, NEW w \in Workers,
         ConcludeReconcile(w), NEW a \in Locals
  PROVE  Owed(live, a)
<1> DEFINE c == calls[w]
<1>1. /\ c /= None /\ c.reply /= None /\ c.op = "reconcile"
      /\ TrueCall(records, activations, c)
  BY DEF ConcludeReconcile, Answered, ServiceInv, CallsTrue
<1> PICK b \in Locals : b = c.local
  BY <1>1, CallParts
<1>2. /\ records[b] \in ArmaRecord /\ records[b] /= None
      /\ records \in [Locals -> ArmaRecord \cup {None}]
      /\ calls \in [Workers -> Call \cup {None}]
      /\ queries \in [Locals -> 0..StatusAttempts]
      /\ c.count \in 0..StatusAttempts /\ StatusAttempts \in Nat
      /\ c.subject \in RequestIds
  BY <1>1, CallParts, RecordAssumption, CallAssumption
     DEF ServiceInv, CallsTrue, RecordsTrue, TrueCall
<1>3. queries' = [queries EXCEPT ![b] = IF c.count > @ THEN c.count ELSE @]
  BY DEF ConcludeReconcile
<1>3a. order' = order
  BY DEF ConcludeReconcile
<1>4. \A d \in Locals : Asked(d) => Asked(d)'
  BY <1>2, <1>3, <1>3a DEF Asked, Shared, Tracked
<1>5. ASSUME Finish(w), sent' = sent, Idle(records', a) => Idle(records, a)
      PROVE  Owed(live, a)
  <2>1. \A v \in Workers : calls'[v] = None \/ calls'[v] = calls[v]
    BY <1>2, <1>5 DEF Finish
  <2>2. QED
    BY <1>4, <1>5, <2>1, CalmOwed DEF Creating
<1>6. CASE SendCreate(w, b, records) /\ c.count >= StatusAttempts
  <2>1. Asked(b)'
    BY <1>2, <1>3, <1>6 DEF Asked
  <2>2. calls[w].op /= "create"
    BY <1>1
  <2>3. ~Creating(calls, w, b)
    BY <2>2 DEF Creating
  <2>4. QED
    BY <1>2, <1>4, <1>6, <2>1, <2>3, SendOwed
<1>7. CASE SetStatus(b, "QUARANTINED") /\ Finish(w) /\ UNCHANGED sent
  BY <1>2, <1>5, <1>7, SettledIsBusy DEF Live, Final
<1>8. CASE /\ records' = [records EXCEPT ![b].status = "ACTIVE", ![b].patches = c.subject]
           /\ Finish(w) /\ UNCHANGED sent
  <2> DEFINE rec == [records[b] EXCEPT !.status = "ACTIVE", !.patches = c.subject]
  <2>1. rec \in ArmaRecord /\ rec.status = "ACTIVE"
    BY <1>2 DEF ArmaRecord, Live
  <2>2. records' = [records EXCEPT ![b] = rec]
    BY <1>2, <1>8
  <2> HIDE DEF rec
  <2>3. Idle(records', a) => Idle(records, a)
    BY <1>2, <2>1, <2>2, RecordAssumption DEF Idle
  <2>4. QED
    BY <1>5, <1>8, <2>3
<1>9. CASE Finish(w) /\ UNCHANGED <<records, sent>>
  BY <1>5, <1>9 DEF Idle
<1>10. QED
  BY <1>6, <1>7, <1>8, <1>9 DEF ConcludeReconcile

LEMMA AnsweredOwed ==
  ASSUME CarefulInv, ServiceInv, NEW live, live = Lives, NEW w \in Workers,
         GiveUp(w) \/ AnswerQuery(w) \/ DenyQuery(w) \/ FailQuery(w), NEW a \in Locals
  PROVE  Owed(live, a)
<1>1. UNCHANGED <<records, order, queries, sent>>
  BY DEF GiveUp, AnswerQuery, DenyQuery, FailQuery
<1>2. calls[w] /= None /\ calls[w] \in Call /\ calls \in [Workers -> Call \cup {None}]
  BY DEF GiveUp, AnswerQuery, DenyQuery, FailQuery, Asking, Waiting, ServiceInv, CallsTrue
<1>3. PICK reply :
        /\ calls' = [calls EXCEPT ![w].reply = reply]
        /\ calls[w].op = "create" => reply = Failed("FAULT")
  BY DEF GiveUp, AnswerQuery, DenyQuery, FailQuery, Asking
<1>4. calls'[w].op = calls[w].op /\ calls'[w].local = calls[w].local
      /\ calls'[w].req = calls[w].req /\ calls'[w].reply = reply
  BY <1>2, <1>3 DEF Call
<1>5. \A v \in Workers : v /= w => calls'[v] = calls[v]
  BY <1>2, <1>3
<1>6. Failed("FAULT").code = "FAULT"
  BY DEF Failed
<1>7. QED
  BY <1>1, <1>2, <1>3, <1>4, <1>5, <1>6, CalmOwed, AskedSame DEF Creating, Idle

LEMMA ServiceOwed ==
  ASSUME CarefulInv, ServiceInv, Listed(records, order), NEW live, live = Lives,
         ServiceStep, NEW a \in Locals
  PROVE  Owed(live, a)
<1>1. ASSUME NEW w \in Workers, Continue(w) PROVE Owed(live, a)
  BY <1>1, RetryOwed, AnsweredOwed, ConcludeOwed, ReconcileOwed DEF Continue
<1>2. ASSUME Asked(a) => Asked(a)', sent' = sent, calls' = calls \/ ProcessStops,
             Idle(records', a) => Idle(records, a)
      PROVE  Owed(live, a)
  <2>1. \A v \in Workers : calls'[v] = None \/ calls'[v] = calls[v]
    BY <1>2 DEF ProcessStops
  <2>2. QED
    BY <1>2, <2>1, CalmOwed DEF Creating
<1>3. ASSUME NEW b \in Locals, RevokeLocally(b) PROVE Owed(live, a)
  BY <1>2, <1>3, SettledIsBusy, AskedSame DEF RevokeLocally, Live, Final
<1>4. ASSUME NEW b \in Locals, QuarantineNew(b) PROVE Owed(live, a)
  <2>1. records' = [records EXCEPT ![b] = FreshRecord("QUARANTINED")]
        /\ UNCHANGED <<queries, calls, sent>> /\ order' = Append(order, b)
    BY <1>4 DEF QuarantineNew
  <2>2. FreshRecord("QUARANTINED") \in ArmaRecord /\ FreshRecord("QUARANTINED").status = "QUARANTINED"
    BY DEF FreshRecord, ArmaRecord, Final
  <2>3. Idle(records', a) => Idle(records, a)
    BY <2>1, <2>2, RecordAssumption DEF Idle, ServiceInv, RecordsTrue
  <2>4. Asked(a) => Asked(a)'
    BY <2>1, AskedStays DEF ServiceInv, Followed
  <2>5. QED
    BY <1>2, <2>1, <2>3, <2>4
<1>5. CASE RestartService \/ SwitchOutbound
  BY <1>2, <1>5, AskedSame DEF RestartService, SwitchOutbound, Idle
<1>6. QED
  BY <1>1, <1>3, <1>4, <1>5, OperateOwed DEF ServiceStep

-----------------------------------------------------------------------------
(* The server answers the awaited attempt, and the invariant of the whole *)

LEMMA ServerCareful ==
  ASSUME CarefulInv, ServiceInv, RegistryInv, DeliveryInv, [Next]_serverVars, ServerStep
  PROVE  CarefulInv'
<1> USE DEF Lives
<1>1. UNCHANGED <<records, order, queries, sent>> /\ sent \subseteq Requests
  BY DEF ServerStep, ServiceInv
<1>2. ASSUME NEW a \in Locals, Quiet(sent, Lives, a) PROVE Quiet(sent, Lives', a)
  BY <1>1, <1>2, DeadStays DEF Quiet
<1>3. ASSUME NEW w \in Workers, NEW a \in Locals, Creating(calls', w, a)
      PROVE  /\ Creating(calls, w, a) /\ calls'[w].req = calls[w].req
             /\ \/ calls'[w].reply = calls[w].reply
                \/ /\ answer' /= None /\ answer'.req = calls[w].req
                   /\ calls'[w].reply.code = answer'.code
  <2>1. CASE Waiting(w) /\ answer' /= None /\ answer'.req = calls[w].req
    <3> DEFINE reply == [code |-> answer'.code, status |-> None,
                         activation |-> answer'.activation]
    <3>1. calls[w] \in Call
      BY <2>1 DEF Waiting, ServiceInv, CallsTrue
    <3>2. calls'[w] = [calls[w] EXCEPT !.reply = reply]
      BY <2>1 DEF ServerStep
    <3>3. reply.code = answer'.code
      OBVIOUS
    <3> HIDE DEF reply
    <3>4. /\ calls'[w].op = calls[w].op /\ calls'[w].local = calls[w].local
          /\ calls'[w].req = calls[w].req /\ calls'[w].reply = reply
      BY <3>1, <3>2 DEF Call
    <3>5. QED
      BY <1>3, <2>1, <3>3, <3>4 DEF Creating, Waiting
  <2>2. CASE ~(Waiting(w) /\ answer' /= None /\ answer'.req = calls[w].req)
    <3>1. calls'[w] = calls[w]
      BY <2>2 DEF ServerStep
    <3>2. QED
      BY <1>3, <3>1 DEF Creating
  <2>3. QED
    BY <2>1, <2>2
<1>4. Next
  BY <1>1 DEF ServerStep, Next
<1>5. ASSUME NEW a \in Locals, ~Asked(a) PROVE Careful(records, calls', sent, Lives', a)
  <2>1. Careful(records, calls, sent, Lives, a)
    BY <1>5 DEF CarefulInv
  <2>2. ASSUME NEW w \in Workers, Creating(calls', w, a)
        PROVE  /\ ~Idle(records, a)
               /\ \A v \in Workers : Creating(calls', v, a) => v = w
               /\ \A r \in sent : Own(r, a) /\ r /= calls'[w].req => r \notin Lives'
               /\ calls'[w].reply /= None /\ calls'[w].reply.code \notin {"SUCCESS", "FAULT"}
                     => Quiet(sent, Lives', a)
    <3>1. Creating(calls, w, a) /\ calls'[w].req = calls[w].req
      BY <1>3, <2>2
    <3>2. ~Idle(records, a) /\ \A v \in Workers : Creating(calls', v, a) => v = w
      BY <1>3, <2>1, <3>1 DEF Careful
    <3>3. \A r \in sent : Own(r, a) /\ r /= calls[w].req => r \notin Lives'
      <4>1. \A r \in sent : Own(r, a) /\ r /= calls[w].req => r \in Requests /\ LeftNothing(r)
        BY <1>1, <2>1, <3>1 DEF Careful
      <4>2. QED
        BY <4>1, DeadStays
    <3>4. ASSUME calls'[w].reply /= None, calls'[w].reply.code \notin {"SUCCESS", "FAULT"}
          PROVE  Quiet(sent, Lives', a)
      <4>1. CASE calls'[w].reply = calls[w].reply
        BY <1>2, <2>1, <3>1, <3>4, <4>1 DEF Careful
      <4>2. CASE /\ answer' /= None /\ answer'.req = calls[w].req
                 /\ calls'[w].reply.code = answer'.code
        <5>1. ASSUME NEW r \in sent, r = calls[w].req PROVE r \notin Lives'
          BY <1>1, <1>4, <3>4, <4>2, <5>1, RefusedIsDead
        <5>2. QED
          BY <3>3, <5>1 DEF Quiet
      <4>3. QED
        BY <1>3, <2>2, <4>1, <4>2
    <3>5. QED
      BY <3>1, <3>2, <3>3, <3>4
  <2>3. Idle(records, a) => Quiet(sent, Lives', a)
    BY <1>2, <2>1 DEF Careful
  <2>4. QED
    BY <2>2, <2>3 DEF Careful
<1>6. QED
  BY <1>1, <1>5, AskedSame DEF CarefulInv

LEMMA ListedStep ==
  ServiceInv /\ Listed(records, order) /\ [ServiceNext]_allVars => Listed(records, order)'
<1> SUFFICES ASSUME ServiceInv, Listed(records, order), [ServiceNext]_allVars
             PROVE  Listed(records', order')
  OBVIOUS
<1>1. records \in [Locals -> ArmaRecord \cup {None}] /\ order \in Seq(Locals)
  BY DEF ServiceInv, RecordsTrue, Followed
<1>2. CASE order' = order /\ \A a \in Locals : records'[a] = records[a] \/ records[a] /= None
  BY <1>2 DEF Listed
<1>3. ASSUME NEW b \in Locals, order' = Append(order, b),
             \A a \in Locals : a /= b => records'[a] = records[a]
      PROVE  Listed(records', order')
  <2>1. ASSUME NEW a \in Locals, records'[a] /= None
        PROVE  \E i \in DOMAIN order' : order'[i] = a
    <3>1. CASE a = b
      BY <1>1, <1>3, <3>1
    <3>2. CASE a /= b
      <4>1. PICK i \in DOMAIN order : order[i] = a
        BY <1>3, <2>1, <3>2 DEF Listed
      <4>2. i \in DOMAIN order' /\ order'[i] = a
        BY <1>1, <1>3, <4>1
      <4>3. QED
        BY <4>2
    <3>3. QED
      BY <3>1, <3>2
  <2>2. QED
    BY <2>1 DEF Listed
<1>4. ASSUME NEW w \in Workers, NEW a \in Locals, Operate(w, a) PROVE Listed(records', order')
  <2>1. CASE ActivateNew(w, a)
    BY <1>1, <1>3, <2>1 DEF ActivateNew, SendCreate
  <2>2. CASE ActivateAgain(w, a)
    <3>1. SameKey(a) \cap Tracked /= {}
      BY <2>2 DEF ActivateAgain, SameKey
    <3>2. PICK d : d = FirstIn(SameKey(a))
      OBVIOUS
    <3>3. \E i \in DOMAIN order : d = order[i]
      BY <1>1, <3>1, <3>2, FirstFound
    <3>4. d \in Locals /\ records[d] /= None
      BY <1>1, <3>3, RecordAssumption DEF ServiceInv, Followed
    <3>5. SendCreate(w, d, records) /\ order' = order
      BY <2>2, <3>2 DEF ActivateAgain
    <3>6. QED
      BY <1>1, <1>2, <3>4, <3>5 DEF SendCreate
  <2>3. CASE ResumeUnsent(w, a)
    BY <1>1, <1>2, <2>3 DEF ResumeUnsent, SendCreate
  <2>4. CASE Reconcile(w, a) \/ ResumeSent(w, a) \/ Sync(w, a)
    BY <1>1, <1>2, <2>4 DEF Reconcile, ResumeSent, Sync, SetStatus
  <2>5. CASE \E kind \in {"deactivate", "revoke"} : ChangeRemotely(w, a, kind)
    BY <1>2, <2>5 DEF ChangeRemotely
  <2>6. QED
    BY <1>4, <2>1, <2>2, <2>3, <2>4, <2>5 DEF Operate
<1>5. ASSUME NEW w \in Workers, Continue(w) PROVE Listed(records', order')
  <2>1. CASE RetryCreate(w) \/ GiveUp(w) \/ AnswerQuery(w) \/ DenyQuery(w) \/ FailQuery(w)
    BY <1>2, <2>1 DEF RetryCreate, GiveUp, AnswerQuery, DenyQuery, FailQuery
  <2>2. CASE ConcludeCreate(w) \/ ConcludeReconcile(w) \/ ConcludeSync(w) \/ ConcludeChange(w)
    <3>1. calls[w] /= None
      BY <2>2 DEF ConcludeCreate, ConcludeReconcile, ConcludeSync, ConcludeChange, Answered
    <3>2. calls[w].local \in Locals /\ records[calls[w].local] /= None
      BY <3>1, CallParts, RecordAssumption DEF ServiceInv, CallsTrue
    <3>3. PICK b \in Locals : b = calls[w].local
      BY <3>2
    <3>4. order' = order /\ \A a \in Locals : a /= b => records'[a] = records[a]
      <4>1. CASE ConcludeCreate(w)
        BY <1>1, <3>3, <4>1 DEF ConcludeCreate
      <4>2. CASE ConcludeReconcile(w)
        BY <1>1, <3>3, <4>2 DEF ConcludeReconcile, SendCreate, SetStatus
      <4>3. CASE ConcludeSync(w) \/ ConcludeChange(w)
        BY <1>1, <3>3, <4>3 DEF ConcludeSync, ConcludeChange, SetStatus
      <4>4. QED
        BY <2>2, <4>1, <4>2, <4>3
    <3>5. QED
      BY <1>2, <3>2, <3>3, <3>4
  <2>3. QED
    BY <1>5, <2>1, <2>2 DEF Continue
<1>6. ASSUME NEW a \in Locals, QuarantineNew(a) PROVE Listed(records', order')
  BY <1>1, <1>3, <1>6 DEF QuarantineNew
<1>7. ASSUME NEW a \in Locals, RevokeLocally(a) PROVE Listed(records', order')
  BY <1>1, <1>2, <1>7 DEF RevokeLocally, SetStatus
<1>8. CASE RestartService \/ SwitchOutbound \/ ServerStep \/ UNCHANGED allVars
  BY <1>2, <1>8 DEF RestartService, SwitchOutbound, ServerStep
<1>9. QED
  BY <1>4, <1>5, <1>6, <1>7, <1>8 DEF ServiceNext, ServiceStep

LEMMA SameAlive ==
  ASSUME UNCHANGED <<arrived, pending, registries>>
  PROVE  Lives' = Lives
BY DEF Lives, LeftNothing, Over, Repeated

LEMMA CarefulStep ==
  ASSUME CarefulInv, ServiceInv, Listed(records, order), RegistryInv, DeliveryInv,
         [Next]_serverVars, [ServiceNext]_allVars
  PROVE  CarefulInv'
<1>1. CASE ServiceStep
  <2>1. PICK live : live = Lives
    OBVIOUS
  <2>2. \A a \in Locals : Owed(live, a)
    BY <1>1, <2>1, ServiceOwed
  <2>3. live = Lives'
    BY <1>1, <2>1, SameAlive DEF ServiceStep
  <2>4. QED
    BY <2>2, <2>3 DEF CarefulInv, Owed
<1>2. CASE ServerStep
  BY <1>2, ServerCareful
<1>3. CASE UNCHANGED allVars
  <2>1. Lives' = Lives
    BY <1>3, SameAlive
  <2>2. QED
    BY <1>3, <2>1, AskedSame DEF CarefulInv
<1>4. QED
  BY <1>1, <1>2, <1>3 DEF ServiceNext

LEMMA CarefulInit == ServiceInit => CarefulInv /\ Listed(records, order)
BY DEF ServiceInit, CarefulInv, Careful, Creating, Quiet, Listed

LEMMA CarefulInvariance ==
  ServiceSpec => [](CarefulInv /\ Listed(records, order) /\ ServiceInv /\ RegistryInv)
<1>1. /\ CarefulInv /\ ServiceInv /\ Listed(records, order) /\ RegistryInv /\ DeliveryInv
      /\ [Next]_serverVars /\ [ServiceNext]_allVars
      => CarefulInv'
  BY CarefulStep
<1>2. ServiceSpec => [](ServiceInv /\ RegistryInv /\ DeliveryInv) /\ [][Next]_serverVars
  BY ServiceInvariance, ServiceRefinesServer, RegistryInvariance, DeliveryInvariance, PTL DEF Spec
<1>3. QED
  BY <1>1, <1>2, CarefulInit, ListedStep, PTL DEF ServiceSpec

(* No create is handed to the network unless every earlier one of the      *)
(* record is over without a trace, or reconciliation has asked for it as   *)
(* often as it must, or another record is held for the intent: however     *)
(* calls of activate, retries, resume and reconcile overlap, whoever stops *)
(* and whatever the network loses or repeats.  reconcileActivation and     *)
(* resumeActivation never resend blindly.                                  *)
THEOREM NeverBlind == ServiceSpec => ResendsJustified
<1> DEFINE Step ==
      \A a \in Locals :
         CreatesOf(a)' /= CreatesOf(a) =>
             \/ queries'[a] = StatusAttempts
             \/ Shared(a)'
             \/ \A r \in CreatesOf(a) : LeftNothing(r)
<1>1. CarefulInv /\ ServiceInv /\ Listed(records, order) /\ [ServiceNext]_allVars
         => [Step]_allVars
  <2> SUFFICES ASSUME CarefulInv, ServiceInv, Listed(records, order), ServiceNext
               PROVE  Step
    BY DEF Step
  <2>1. ASSUME NEW a \in Locals, sent' = sent PROVE CreatesOf(a)' = CreatesOf(a)
    BY <2>1 DEF CreatesOf
  <2>2. CASE ServerStep
    BY <2>1, <2>2 DEF ServerStep
  <2>3. CASE ServiceStep
    <3> SUFFICES ASSUME NEW a \in Locals, CreatesOf(a)' /= CreatesOf(a), ~Asked(a)',
                        NEW r \in CreatesOf(a)
                 PROVE  LeftNothing(r)
      BY DEF Asked
    <3>1. PICK live : live = Lives
      OBVIOUS
    <3>2. Owed(live, a)
      BY <2>3, <3>1, ServiceOwed
    <3>3. ~(\A s \in sent' \ sent : ~Own(s, a))
      BY <3>2 DEF CreatesOf, Own, Owed
    <3>4. Quiet(sent, live, a)
      BY <3>2, <3>3 DEF Owed
    <3>5. QED
      BY <3>1, <3>4 DEF Quiet, CreatesOf, Own, Lives, ServiceInv
  <2>4. QED
    BY <2>2, <2>3 DEF ServiceNext
<1>2. ServiceSpec => [][Step]_allVars
  BY <1>1, CarefulInvariance, PTL DEF ServiceSpec
<1>3. QED
  BY <1>2 DEF ResendsJustified

(* A record that is REJECTED stands for nothing at the server: every       *)
(* attempt was refused without a trace.  statusAfter never takes an        *)
(* outcome that is unknown for a refusal, and whoever sends the intent     *)
(* anew takes the record out of REJECTED.                                  *)
THEOREM RejectionTrue == ServiceSpec => []RejectionMeansNothing
<1>1. CarefulInv /\ ServiceInv => RejectionMeansNothing
  <2> SUFFICES ASSUME CarefulInv, ServiceInv, NEW a \in Locals, records[a] /= None,
                      records[a].status = "REJECTED", queries[a] < StatusAttempts,
                      ~Shared(a), NEW r \in CreatesOf(a)
               PROVE  LeftNothing(r)
    BY DEF RejectionMeansNothing
  <2>1. ~Asked(a)
    BY CallAssumption DEF Asked, ServiceInv
  <2>2. Quiet(sent, Lives, a)
    BY <2>1 DEF CarefulInv, Careful, Idle
  <2>3. r \in sent /\ Own(r, a) /\ r \in Requests
    BY DEF CreatesOf, Own, ServiceInv
  <2>4. QED
    BY <2>2, <2>3 DEF Quiet, Lives
<1>2. QED
  BY <1>1, CarefulInvariance, PTL

-----------------------------------------------------------------------------
(* What ARMA takes for ended, the partner has on record as ended.  The     *)
(* code serializes nothing: two operations on one record may overlap, and  *)
(* the later one may find another identity in it than the earlier one has  *)
(* asked about.  Both are activations of the record's intent and key.      *)

Endings == {"DEACTIVATED", "REVOKED"}

(* The partner has recorded the end of an activation that a asked for. *)
Ended(log, acts, a, status) ==
    \E entry \in log :
        /\ Mine(acts, a, entry.activation)
        /\ entry.operation /= "create"
        /\ After(entry.operation) = status

EndedTrue(recs, acts, log) ==
    \A a \in Locals :
        recs[a] /= None /\ recs[a].patches /= None /\ recs[a].status \in Endings =>
            Ended(log, acts, a, recs[a].status)

(* What a suspended operation has heard of an end is on record. *)
EndingCall(acts, log, c) ==
    /\ c.op \in {"deactivate", "revoke"} =>
          /\ Mine(acts, c.local, c.subject)
          /\ c.req.kind = c.op /\ c.req.target = c.subject
          /\ c.reply /= None /\ c.reply.code = "SUCCESS" => Ended(log, acts, c.local, After(c.op))
    /\ c.op = "sync" /\ c.reply /= None /\ c.reply.code = "FOUND" /\ c.reply.status \in Endings
          => Ended(log, acts, c.local, c.reply.status)
EndingCalls(ops, acts, log) ==
    \A w \in Workers : ops[w] /= None => EndingCall(acts, log, ops[w])

EndingInv ==
    /\ EndedTrue(records, activations, receipts)
    /\ EndingCalls(calls, activations, receipts)

(* Receipts are never taken back. *)
LEMMA EndedStays ==
  ASSUME NEW log, NEW log2, NEW acts, NEW acts2, NEW a, NEW status,
         log \subseteq log2, Stays(acts, acts2), Ended(log, acts, a, status)
  PROVE  Ended(log2, acts2, a, status)
BY DEF Ended, Stays, Mine

LEMMA CallStaysTrue ==
  ASSUME NEW log, NEW log2, NEW acts, NEW acts2, NEW c,
         log \subseteq log2, Stays(acts, acts2), EndingCall(acts, log, c)
  PROVE  EndingCall(acts2, log2, c)
<1>1. \A id : Mine(acts, c.local, id) => Mine(acts2, c.local, id)
  BY DEF Stays, Mine
<1>2. \A status : Ended(log, acts, c.local, status) => Ended(log2, acts2, c.local, status)
  BY EndedStays
<1>3. QED
  BY <1>1, <1>2 DEF EndingCall

LEMMA ReceiptsStay ==
  ASSUME RegistryInv, [Next]_serverVars
  PROVE  receipts \subseteq receipts'
<1> USE DEF RegistryInv
<1>1. ASSUME NEW r \in Requests, ApplyChange(r) PROVE receipts \subseteq receipts'
  BY <1>1, RecordAdds DEF ApplyChange
<1>2. ASSUME NEW h \in pending, WriteActivation(h.req) PROVE receipts \subseteq receipts'
  BY <1>2, RecordAdds DEF WriteActivation
<1>3. QED
  BY <1>1, <1>2, RegistrySteps

(* An activation that is no longer ACTIVE has a receipt that says so. *)
LEMMA InactiveIsEnded ==
  ASSUME RegistryInv, NEW a, NEW id, Mine(activations, a, id),
         activations[id].status /= "ACTIVE"
  PROVE  Ended(receipts, activations, a, activations[id].status)
BY DEF RegistryInv, StatusWitnessed, Ended, Mine

(* A change that is answered with success has a receipt. *)
LEMMA ChangeDone ==
  ASSUME RegistryInv, Next, NEW r \in Requests, r.kind /= "create",
         answer' /= None, answer'.req = r, answer'.code = "SUCCESS"
  PROVE  \E entry \in receipts' :
            /\ entry.activation = r.target
            /\ entry.operation /= "create"
            /\ After(entry.operation) = After(r.kind)
<1> USE DEF RegistryInv
<1> DEFINE Witnessed == \E entry \in receipts' :
                           /\ entry.activation = r.target
                           /\ entry.operation /= "create"
                           /\ After(entry.operation) = After(r.kind)
<1>1. ASSUME NEW s \in Requests, NEW c \in Copies, Deliver(s, c) PROVE Witnessed
  <2>1. CASE ApplyChange(s)
    <3>1. s = r
      BY <2>1 DEF ApplyChange, Answers
    <3>2. EntryOf(r) \in receipts'
      BY <2>1, <3>1, RecordAdds DEF ApplyChange
    <3>3. /\ EntryOf(r).activation = r.target
          /\ EntryOf(r).operation = r.kind
      BY DEF EntryOf, Subject
    <3>4. QED
      BY <3>2, <3>3
  <2>2. CASE AnswerChange(s)
    <3>1. s = r /\ activations[r.target] /= None /\ NoOp(r) /\ UNCHANGED registries
      BY <2>2 DEF AnswerChange, AnswerFromRecord, Answers
    <3>2. r.target \in RequestIds /\ After(r.kind) /= "ACTIVE"
      BY ChangeParts DEF After
    <3>3. QED
      BY <3>1, <3>2 DEF NoOp, StatusWitnessed
  <2>3. CASE RefuseDisabled(s) \/ RefuseAuthentication(s) \/ RefuseEarly(s)
             \/ AnswerCreate(s) \/ Suspend(s, c) \/ FailChange(s)
    BY <2>3 DEF RefuseDisabled, RefuseAuthentication, RefuseEarly, AnswerCreate,
       AnswerFromRecord, Suspend, FailChange, Answers
  <2>4. QED
    BY <1>1, <2>1, <2>2, <2>3 DEF Deliver, Arrive
<1>2. ASSUME NEW h \in pending, Conclude(h) PROVE FALSE
  BY <1>2, HandlerParts DEF Conclude, Resume, CommitCreate, RefuseDownstream, FailCreate, Answers
<1>3. QED
  BY <1>1, <1>2 DEF Next, Administer, RestartServer, Tick

-----------------------------------------------------------------------------
(* The steps of the service *)

(* What the steps below establish. *)
Sealed ==
    /\ EndedTrue(records', activations, receipts)
    /\ EndingCalls(calls', activations, receipts)

(* An operation ends, goes on, or begins in good order. *)
GoOn ==
    \A v \in Workers :
        calls'[v] = None \/ calls'[v] = calls[v] \/ EndingCall(activations, receipts, calls'[v])

LEMMA CallsSealed ==
  ASSUME EndingInv, GoOn
  PROVE  EndingCalls(calls', activations, receipts)
BY DEF EndingInv, GoOn, EndingCalls

LEMMA OneSealed ==
  ASSUME EndingInv, ServiceInv, NEW b \in Locals, NEW rec, records' = [records EXCEPT ![b] = rec],
         rec.patches /= None /\ rec.status \in Endings
             => Ended(receipts, activations, b, rec.status),
         GoOn
  PROVE  Sealed
<1>1. records \in [Locals -> ArmaRecord \cup {None}]
  BY DEF ServiceInv, RecordsTrue
<1>2. records'[b] = rec /\ \A a \in Locals : a /= b => records'[a] = records[a]
  BY <1>1
<1>3. EndedTrue(records', activations, receipts)
  BY <1>2 DEF EndingInv, EndedTrue
<1>4. QED
  BY <1>3, CallsSealed DEF Sealed

LEMMA SameSealed ==
  ASSUME EndingInv, records' = records, GoOn
  PROVE  Sealed
BY CallsSealed DEF EndingInv, Sealed

LEMMA StatusSealed ==
  ASSUME EndingInv, ServiceInv, NEW b \in Locals, records[b] /= None, NEW status,
         SetStatus(b, status),
         records[b].patches /= None /\ status \in Endings
             => Ended(receipts, activations, b, status),
         GoOn
  PROVE  Sealed
<1> DEFINE rec == [records[b] EXCEPT !.status = status]
<1>1. records[b] \in ArmaRecord
  BY DEF ServiceInv, RecordsTrue
<1>2. rec.status = status /\ rec.patches = records[b].patches
  BY <1>1 DEF ArmaRecord
<1>3. records' = [records EXCEPT ![b] = rec]
  BY DEF SetStatus
<1> HIDE DEF rec
<1>4. QED
  BY <1>2, <1>3, OneSealed

LEMMA AtOnceUnsealed ==
  ASSUME AnswerAtOnce /= None
  PROVE  AnswerAtOnce.code = "BLOCKED"
BY DEF AnswerAtOnce, Failed

LEMMA SendSealed ==
  ASSUME EndingInv, ServiceInv, NEW w \in Workers, NEW b \in Locals, NEW rec \in ArmaRecord,
         rec.patches /= None /\ rec.status \in Endings
             => Ended(receipts, activations, b, rec.status),
         SendCreate(w, b, [records EXCEPT ![b] = rec])
  PROVE  Sealed
<1>1. records \in [Locals -> ArmaRecord \cup {None}] /\ calls \in [Workers -> Call \cup {None}]
  BY DEF ServiceInv, RecordsTrue, CallsTrue
<1>2. \A v \in Workers :
         \/ calls'[v] = None
         \/ calls'[v] = calls[v]
         \/ calls'[v].op = "create"
  BY <1>1 DEF SendCreate, ProcessStops, Begin
<1>3. \A c : c.op = "create" => EndingCall(activations, receipts, c)
  BY DEF EndingCall
<1>4. PICK status \in {rec.status, "READY_TO_ACTIVATE", "ACTIVATION_SENT"} :
        records' = [records EXCEPT ![b] = [rec EXCEPT !.status = status]]
  BY <1>1 DEF SendCreate, ArmaRecord
<1> DEFINE new == [rec EXCEPT !.status = status]
<1>5. new.status = status /\ new.patches = rec.patches
  BY DEF ArmaRecord
<1>6. records' = [records EXCEPT ![b] = new]
  BY <1>4
<1> HIDE DEF new
<1>7. new.patches /= None /\ new.status \in Endings
          => Ended(receipts, activations, b, new.status)
  BY <1>4, <1>5 DEF Endings
<1>8. GoOn
  BY <1>2, <1>3 DEF GoOn
<1>9. QED
  BY <1>6, <1>7, <1>8, OneSealed

(* The record's create is sent; the record is there already. *)
LEMMA ResendSealed ==
  ASSUME EndingInv, ServiceInv, NEW w \in Workers, NEW d \in Locals, records[d] \in ArmaRecord,
         SendCreate(w, d, records)
  PROVE  Sealed
<1>1. [records EXCEPT ![d] = records[d]] = records
  BY DEF ServiceInv, RecordsTrue
<1>2. PICK rec : rec = records[d]
  OBVIOUS
<1>3. rec.patches /= None /\ rec.status \in Endings
          => Ended(receipts, activations, d, rec.status)
  BY <1>2, RecordAssumption DEF EndingInv, EndedTrue
<1>4. SendCreate(w, d, [records EXCEPT ![d] = rec])
  BY <1>1, <1>2
<1>5. QED
  BY <1>2, <1>3, <1>4, SendSealed

LEMMA OperateSealed ==
  ASSUME EndingInv, ServiceInv, NEW w \in Workers, NEW b \in Locals, Operate(w, b)
  PROVE  Sealed
<1>1. /\ calls \in [Workers -> Call \cup {None}]
      /\ records \in [Locals -> ArmaRecord \cup {None}]
  BY DEF ServiceInv, CallsTrue, RecordsTrue
<1>2. CASE ActivateNew(w, b)
  <2>1. PICK rec : rec = FreshRecord("PENDING")
    OBVIOUS
  <2>2. rec \in ArmaRecord /\ rec.patches = None
    BY <2>1 DEF FreshRecord, ArmaRecord, Live
  <2>3. SendCreate(w, b, [records EXCEPT ![b] = rec])
    BY <1>2, <2>1 DEF ActivateNew
  <2>4. QED
    BY <2>2, <2>3, SendSealed
<1>3. CASE ActivateAgain(w, b)
  <2>1. SameKey(b) \cap Tracked /= {}
    BY <1>3 DEF ActivateAgain, SameKey
  <2>2. PICK d : d = FirstIn(SameKey(b))
    OBVIOUS
  <2>3. \E i \in DOMAIN order : d = order[i]
    BY <2>1, <2>2, FirstFound DEF ServiceInv, Followed
  <2>4. d \in Locals /\ records[d] \in ArmaRecord
    BY <2>3 DEF ServiceInv, Followed
  <2>5. QED
    BY <1>3, <2>2, <2>4, ResendSealed DEF ActivateAgain
<1>4. CASE ResumeUnsent(w, b)
  BY <1>1, <1>4, ResendSealed DEF ResumeUnsent
<1>5. CASE Reconcile(w, b) \/ ResumeSent(w, b) \/ Sync(w, b)
  <2>1. records[b] /= None
    BY <1>5 DEF Reconcile, ResumeSent, Sync
  <2>2. \/ records' = records
        \/ SetStatus(b, "RECONCILIATION_REQUIRED") \/ SetStatus(b, "QUARANTINED")
    BY <1>5 DEF Reconcile, ResumeSent, Sync
  <2>3. \/ calls' = calls \/ ProcessStops
        \/ \E op \in {"reconcile", "sync"} : Query(w, op, b)
    BY <1>5 DEF Reconcile, ResumeSent, Sync
  <2>4. ASSUME NEW op \in {"reconcile", "sync"}, Query(w, op, b)
        PROVE  /\ EndingCall(activations, receipts, calls'[w])
               /\ \A v \in Workers : v /= w => calls'[v] = calls[v]
    BY <1>1, <2>4, AtOnceUnsealed DEF Query, Begin, EndingCall
  <2>5. GoOn
    BY <2>3, <2>4 DEF GoOn, ProcessStops
  <2>6. CASE records' = records
    BY <2>5, <2>6, SameSealed
  <2>7. CASE SetStatus(b, "RECONCILIATION_REQUIRED") \/ SetStatus(b, "QUARANTINED")
    BY <2>1, <2>5, <2>7, StatusSealed DEF Endings
  <2>8. QED
    BY <2>2, <2>6, <2>7
<1>6. CASE \E kind \in {"deactivate", "revoke"} : ChangeRemotely(w, b, kind)
  <2>1. PICK kind \in {"deactivate", "revoke"} : ChangeRemotely(w, b, kind)
    BY <1>6
  <2>2. PICK r : r = NextChange(kind, records[b].patches)
    OBVIOUS
  <2>3. r.kind = kind /\ r.target = records[b].patches
    BY <2>2 DEF NextChange, ChangeRequest
  <2>4. Begin(w, kind, b, r, r.target, 1) /\ records' = records
    BY <2>1, <2>2 DEF ChangeRemotely
  <2>5. Mine(activations, b, r.target)
    BY <2>1, <2>3 DEF ChangeRemotely, ServiceInv, RecordsTrue, TrueRecord
  <2>6. /\ EndingCall(activations, receipts, calls'[w])
        /\ \A v \in Workers : v /= w => calls'[v] = calls[v]
    BY <1>1, <2>3, <2>4, <2>5, AtOnceUnsealed DEF Begin, EndingCall
  <2>7. QED
    BY <2>4, <2>6, SameSealed DEF GoOn
<1>7. QED
  BY <1>2, <1>3, <1>4, <1>5, <1>6 DEF Operate

LEMMA AnsweredSealed ==
  ASSUME EndingInv, ServiceInv, RegistryInv, NEW w \in Workers,
         \/ RetryCreate(w) \/ GiveUp(w) \/ AnswerQuery(w) \/ DenyQuery(w) \/ FailQuery(w)
  PROVE  Sealed
<1>1. records' = records /\ calls[w] /= None
  BY DEF RetryCreate, GiveUp, AnswerQuery, DenyQuery, FailQuery, Asking, Waiting, Answered
<1>2. calls[w] \in Call /\ calls \in [Workers -> Call \cup {None}]
      /\ EndingCall(activations, receipts, calls[w])
      /\ TrueCall(records, activations, calls[w])
  BY <1>1 DEF ServiceInv, CallsTrue, EndingInv, EndingCalls
<1>3. CASE RetryCreate(w)
  <2>1. PICK r : calls' = [calls EXCEPT ![w].req = r, ![w].count = @ + 1, ![w].reply = AnswerAtOnce]
    BY <1>3 DEF RetryCreate
  <2>2. calls'[w].op = "create"
    BY <1>2, <1>3, <2>1 DEF RetryCreate, Answered, Call
  <2>3. EndingCall(activations, receipts, calls'[w])
    BY <2>2 DEF EndingCall
  <2>4. \A v \in Workers : v /= w => calls'[v] = calls[v]
    BY <1>2, <2>1
  <2>5. QED
    BY <1>1, <2>3, <2>4, SameSealed DEF GoOn
<1>4. CASE GiveUp(w) \/ AnswerQuery(w) \/ DenyQuery(w) \/ FailQuery(w)
  <2>1. PICK reply :
          /\ calls' = [calls EXCEPT ![w].reply = reply]
          /\ reply.code /= "SUCCESS"
          /\ reply.code = "FOUND" /\ reply.status \in Endings
                => Ended(receipts, activations, calls[w].local, reply.status)
    <3>1. ASSUME NEW code \in {"FAULT", "FORBIDDEN", "ACTIVATION_UNKNOWN"}
          PROVE  Failed(code).code \notin {"SUCCESS", "FOUND"}
      BY DEF Failed
    <3>2. CASE GiveUp(w) \/ DenyQuery(w) \/ FailQuery(w)
      BY <3>1, <3>2 DEF GiveUp, DenyQuery, FailQuery
    <3>3. CASE AnswerQuery(w)
      <4>1. CASE activations[calls[w].subject] = None
        BY <3>1, <3>3, <4>1 DEF AnswerQuery
      <4>2. CASE activations[calls[w].subject] /= None
        <5>1. PICK reply : reply = [code |-> "FOUND", activation |-> calls[w].subject,
                                    status |-> activations[calls[w].subject].status]
          OBVIOUS
        <5>2. reply.code = "FOUND" /\ reply.status = activations[calls[w].subject].status
          BY <5>1
        <5>3. calls' = [calls EXCEPT ![w].reply = reply]
          BY <3>3, <4>2, <5>1 DEF AnswerQuery
        <5>4. calls[w].local \in Locals /\ calls[w].subject \in RequestIds
          BY <1>2, CallParts
        <5>5. Mine(activations, calls[w].local, calls[w].subject)
          BY <1>2, <3>3, <4>2, <5>4, OwnIsMine DEF AnswerQuery, Asking, TrueCall, RegistryInv
        <5>6. QED
          BY <5>2, <5>3, <5>5, InactiveIsEnded DEF Endings
      <4>3. QED
        BY <4>1, <4>2
    <3>4. QED
      BY <1>4, <3>2, <3>3
  <2>2. /\ calls'[w].op = calls[w].op /\ calls'[w].local = calls[w].local
        /\ calls'[w].req = calls[w].req /\ calls'[w].subject = calls[w].subject
        /\ calls'[w].reply = reply
    BY <1>2, <2>1 DEF Call
  <2>3. EndingCall(activations, receipts, calls'[w])
    BY <1>2, <2>1, <2>2 DEF EndingCall
  <2>4. \A v \in Workers : v /= w => calls'[v] = calls[v]
    BY <1>2, <2>1
  <2>5. QED
    BY <1>1, <2>3, <2>4, SameSealed DEF GoOn
<1>5. QED
  BY <1>3, <1>4

(* A record takes over what an operation about it has heard, whatever the  *)
(* record has become in the meantime.                                      *)
LEMMA ConcludeSealed ==
  ASSUME EndingInv, ServiceInv, NEW w \in Workers,
         \/ ConcludeCreate(w) \/ ConcludeReconcile(w) \/ ConcludeSync(w) \/ ConcludeChange(w)
  PROVE  Sealed
<1>1. calls[w] /= None /\ calls[w].reply /= None
  BY DEF ConcludeCreate, ConcludeReconcile, ConcludeSync, ConcludeChange, Answered
<1> PICK c : c = calls[w]
  OBVIOUS
<1> PICK b \in Locals : b = c.local
  BY <1>1, CallParts DEF ServiceInv, CallsTrue
<1>2. /\ records[b] \in ArmaRecord /\ records[b] /= None
      /\ records \in [Locals -> ArmaRecord \cup {None}]
      /\ calls \in [Workers -> Call \cup {None}]
      /\ EndingCall(activations, receipts, c)
  BY <1>1, CallParts, RecordAssumption DEF ServiceInv, CallsTrue, RecordsTrue, EndingInv, EndingCalls
<1>3. ASSUME Finish(w) \/ ProcessStops PROVE GoOn
  BY <1>2, <1>3 DEF GoOn, Finish, ProcessStops
<1>4. ASSUME GoOn, NEW rec, records' = [records EXCEPT ![b] = rec],
             rec.patches /= None /\ rec.status \in Endings
                 => Ended(receipts, activations, b, rec.status)
      PROVE  Sealed
  BY <1>4, OneSealed
<1>5. ASSUME Finish(w), NEW status, SetStatus(b, status),
             status \in Endings => Ended(receipts, activations, b, status)
      PROVE  Sealed
  BY <1>2, <1>3, <1>5, StatusSealed
<1>6. CASE records' = records /\ Finish(w)
  BY <1>3, <1>6, SameSealed
<1>7. CASE /\ records' = [records EXCEPT ![b].status = "ACTIVE", ![b].patches = c.subject]
           /\ Finish(w)
  <2> DEFINE rec == [records[b] EXCEPT !.status = "ACTIVE", !.patches = c.subject]
  <2>1. rec.status = "ACTIVE"
    BY <1>2 DEF ArmaRecord
  <2>2. records' = [records EXCEPT ![b] = rec]
    BY <1>2, <1>7
  <2> HIDE DEF rec
  <2>3. QED
    BY <1>3, <1>4, <1>7, <2>1, <2>2 DEF Endings
<1>8. CASE SendCreate(w, b, records)
  BY <1>2, <1>8, ResendSealed
<1>9. CASE ConcludeReconcile(w)
  BY <1>5, <1>6, <1>7, <1>8, <1>9 DEF ConcludeReconcile, Endings
<1>10. CASE ConcludeSync(w)
  <2>1. c.op = "sync"
    BY <1>10 DEF ConcludeSync, Answered
  <2>2. ASSUME c.reply.code = "FOUND", c.reply.status \in Endings
        PROVE  Ended(receipts, activations, b, c.reply.status)
    BY <1>1, <1>2, <2>1, <2>2 DEF EndingCall
  <2>3. QED
    BY <1>5, <1>6, <1>7, <1>10, <2>2 DEF ConcludeSync, Says, Endings
<1>11. CASE ConcludeChange(w)
  <2>1. c.op \in {"deactivate", "revoke"} /\ Finish(w)
    BY <1>11 DEF ConcludeChange, Answered
  <2>2. ASSUME c.reply.code = "SUCCESS"
        PROVE  Ended(receipts, activations, b, After(c.op))
    BY <1>1, <1>2, <2>1, <2>2 DEF EndingCall
  <2>3. CASE c.reply.code = "SUCCESS" /\ SetStatus(b, After(c.op))
    BY <1>5, <2>1, <2>2, <2>3
  <2>4. CASE SetStatus(b, "RECONCILIATION_REQUIRED")
    BY <1>5, <2>1, <2>4 DEF Endings
  <2>5. QED
    BY <1>6, <1>11, <2>1, <2>3, <2>4 DEF ConcludeChange
<1>12. CASE ConcludeCreate(w)
  <2> DEFINE status == StatusAfter(c.reply.code)
             hinted == [records[b] EXCEPT !.hint = c.subject]
             done == [hinted EXCEPT !.status = status,
                        !.patches = IF status = "ACTIVE" THEN c.reply.activation ELSE @]
  <2>1. /\ hinted \in ArmaRecord
        /\ hinted.status = records[b].status /\ hinted.patches = records[b].patches
    <3>1. c.subject \in RequestIds
      BY <1>1, CallParts DEF ServiceInv, CallsTrue
    <3>2. QED
      BY <1>2, <3>1 DEF ArmaRecord
  <2>2. status \notin Endings
    BY DEF StatusAfter, Endings
  <2>3. /\ Finish(w) \/ ProcessStops
        /\ \/ records' = [records EXCEPT ![b] = done]
           \/ records' = [records EXCEPT ![b] = hinted]
    BY <1>2, <1>12 DEF ConcludeCreate
  <2> HIDE DEF hinted, status
  <2>4. done.status = status
    BY <2>1 DEF ArmaRecord
  <2> HIDE DEF done
  <2>5. hinted.patches /= None /\ hinted.status \in Endings
           => Ended(receipts, activations, b, hinted.status)
    BY <1>2, <2>1 DEF EndingInv, EndedTrue
  <2>6. QED
    BY <1>3, <1>4, <2>2, <2>3, <2>4, <2>5
<1>13. QED
  BY <1>9, <1>10, <1>11, <1>12

LEMMA ServiceSealed ==
  ASSUME EndingInv, ServiceInv, RegistryInv, ServiceStep
  PROVE  EndingInv'
<1>1. activations' = activations /\ receipts' = receipts
  BY DEF ServiceStep
<1>2. CASE Sealed
  BY <1>1, <1>2 DEF Sealed, EndingInv
<1>3. ASSUME NEW w \in Workers, Continue(w) PROVE Sealed
  BY <1>3, AnsweredSealed, ConcludeSealed DEF Continue
<1>4. ASSUME NEW b \in Locals, RevokeLocally(b) PROVE Sealed
  BY <1>4, StatusSealed DEF RevokeLocally, GoOn
<1>5. ASSUME NEW b \in Locals, QuarantineNew(b) PROVE Sealed
  <2>1. PICK rec : rec = FreshRecord("QUARANTINED")
    OBVIOUS
  <2>2. rec.patches = None
    BY <2>1 DEF FreshRecord
  <2>3. records' = [records EXCEPT ![b] = rec] /\ GoOn
    BY <1>5, <2>1 DEF QuarantineNew, GoOn
  <2>4. QED
    BY <2>2, <2>3, OneSealed
<1>6. ASSUME RestartService \/ SwitchOutbound PROVE Sealed
  <2>1. records' = records /\ GoOn
    BY <1>6 DEF RestartService, SwitchOutbound, ProcessStops, GoOn
  <2>2. QED
    BY <2>1, SameSealed
<1>7. QED
  BY <1>2, <1>3, <1>4, <1>5, <1>6, OperateSealed DEF ServiceStep

-----------------------------------------------------------------------------
(* The steps of the server *)

LEMMA ServerSealed ==
  ASSUME EndingInv, ServiceInv, RegistryInv, [Next]_serverVars, ServerStep
  PROVE  EndingInv'
<1>1. records' = records /\ Next
  BY DEF ServerStep, Next, ServiceInv
<1>2. receipts \subseteq receipts' /\ Stays(activations, activations')
  BY ReceiptsStay, ActivationsStay
<1>3. EndedTrue(records, activations', receipts')
  BY <1>2, EndedStays DEF EndingInv, EndedTrue
<1>4. ASSUME NEW w \in Workers, calls[w] /= None
      PROVE  EndingCall(activations', receipts', calls[w])
  BY <1>2, <1>4, CallStaysTrue DEF EndingInv, EndingCalls
<1>5. ASSUME NEW w \in Workers, calls'[w] /= None
      PROVE  EndingCall(activations', receipts', calls'[w])
  <2>1. CASE Waiting(w) /\ answer' /= None /\ answer'.req = calls[w].req
    <3> PICK c : c = calls[w]
      OBVIOUS
    <3> DEFINE reply == [code |-> answer'.code, status |-> None,
                         activation |-> answer'.activation]
    <3>1. calls[w] /= None /\ c \in Call /\ TypeOK'
      BY <2>1, TypeStep DEF Waiting, ServiceInv, CallsTrue, RegistryInv
    <3>2. calls'[w] = [c EXCEPT !.reply = reply]
      BY <2>1 DEF ServerStep
    <3>3. reply.code = answer'.code /\ reply.code \in Code /\ answer'.req \in Requests
      BY <2>1, <3>1 DEF TypeOK, Answer
    <3> HIDE DEF reply
    <3>4. /\ calls'[w].op = c.op /\ calls'[w].local = c.local
          /\ calls'[w].req = c.req /\ calls'[w].subject = c.subject /\ calls'[w].reply = reply
      BY <3>1, <3>2 DEF Call
    <3>5. EndingCall(activations', receipts', c)
      BY <1>4, <3>1
    <3>6. ASSUME c.op \in {"deactivate", "revoke"}, reply.code = "SUCCESS"
          PROVE  Ended(receipts', activations', c.local, After(c.op))
      <4>1. /\ c.req.kind = c.op /\ c.req.target = c.subject /\ c.req \in Requests
            /\ Mine(activations', c.local, c.subject)
        BY <2>1, <3>3, <3>5, <3>6 DEF EndingCall
      <4>2. PICK entry \in receipts' :
              /\ entry.activation = c.req.target
              /\ entry.operation /= "create"
              /\ After(entry.operation) = After(c.req.kind)
        BY <1>1, <2>1, <3>3, <3>6, <4>1, ChangeDone
      <4>3. QED
        BY <4>1, <4>2 DEF Ended
    <3>7. reply.code /= "FOUND"
      BY <3>3 DEF Code
    <3>8. QED
      BY <3>4, <3>5, <3>6, <3>7 DEF EndingCall
  <2>2. CASE ~(Waiting(w) /\ answer' /= None /\ answer'.req = calls[w].req)
    <3>1. calls'[w] = calls[w]
      BY <2>2 DEF ServerStep
    <3>2. QED
      BY <1>4, <1>5, <3>1
  <2>3. QED
    BY <2>1, <2>2
<1>6. QED
  BY <1>1, <1>3, <1>5 DEF EndingInv, EndingCalls

LEMMA EndingStep ==
  EndingInv /\ ServiceInv /\ RegistryInv /\ [Next]_serverVars /\ [ServiceNext]_allVars => EndingInv'
<1> SUFFICES ASSUME EndingInv, ServiceInv, RegistryInv, [Next]_serverVars, [ServiceNext]_allVars
             PROVE  EndingInv'
  OBVIOUS
<1>1. CASE UNCHANGED allVars
  BY <1>1 DEF EndingInv
<1>2. QED
  BY <1>1, ServiceSealed, ServerSealed DEF ServiceNext

(* Every end that ARMA holds under an identity is on the partner's record. *)
EndedWitnessed ==
    \A a \in Locals :
        records[a] /= None /\ records[a].patches /= None /\ records[a].status \in Endings =>
            Ended(receipts, activations, a, records[a].status)

(* What ARMA holds as REVOKED or DEACTIVATED under an identity is no claim *)
(* of its own: the partner has a receipt for just that operation on an     *)
(* activation of the record's intent and key, whether the answer to a      *)
(* change or a sync has said so, and however operations on one record      *)
(* overlap, answers come late and the network loses or repeats requests.   *)
THEOREM EndedOnRecord == ServiceSpec => []EndedWitnessed
<1>1. ServiceSpec => [](ServiceInv /\ RegistryInv) /\ [][Next]_serverVars
  BY ServiceInvariance, ServiceRefinesServer, RegistryInvariance, PTL DEF Spec
<1>2. ServiceInit => EndingInv
  BY DEF ServiceInit, EndingInv, EndedTrue, EndingCalls
<1>3. EndingInv => EndedWitnessed
  BY DEF EndingInv, EndedTrue, EndedWitnessed
<1>4. QED
  BY <1>1, <1>2, <1>3, EndingStep, PTL DEF ServiceSpec

=============================================================================
