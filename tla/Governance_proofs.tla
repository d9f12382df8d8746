--------------------------- MODULE Governance_proofs ---------------------------
(***************************************************************************)
(* Proofs about the decisions on protected actions, for any actions, orgs, *)
(* reviewers, engines, requests, skews and restarts of the store.          *)
(***************************************************************************)
EXTENDS Governance, TLAPS

-----------------------------------------------------------------------------
(* Types *)

ReviewerIds == {w.id : w \in Reviewers}
Designations == {"AI_ADVISORY", "DETERMINISTIC_RULE"}

EnvelopeValues ==
    [id : Nat, engine : Engines, version : Versions, task : Tasks, designation : Designations,
     content : Outputs \cup Rulings, timestamp : Nat, policy : Policies, auditId : Nat]
Envelopes == [values : EnvelopeValues, tag : EnvelopeValues]

Reviews == [reviewer : ReviewerIds, org : Orgs, action : Actions, content : Outputs, auditId : Nat]

Typed ==
    /\ engines \in [Engines -> Registrations \cup {None}]
    /\ provenance \in Seq(Envelopes)
    /\ rulings \in Seq(Envelopes)
    /\ reviews \in Seq(Reviews)
    /\ \E S : audit \in Seq(S)
    /\ held \subseteq Envelopes

-----------------------------------------------------------------------------
(* The inductive invariant *)

(* What was given out is sealed as it is. *)
HeldSealed == \A e \in held : e.tag = e.values

(* Every review was recorded for an eligible human, before its audit id. *)
ReviewsEligible ==
    \A i \in DOMAIN reviews :
        /\ \E w \in Reviewers :
              /\ reviews[i].reviewer = w.id
              /\ Eligible(w, reviews[i].action, reviews[i].org)
        /\ reviews[i].auditId <= Len(audit)

(* The records of the store, without the answer of the last step. *)
StoreAudited ==
    /\ \A i \in DOMAIN provenance :
          LET v == provenance[i].values IN
          /\ v.auditId \in DOMAIN audit
          /\ audit[v.auditId] = Record("provenance.created", v.engine, i)
    /\ \A i \in DOMAIN rulings :
          LET v == rulings[i].values IN
          /\ v.auditId \in DOMAIN audit
          /\ audit[v.auditId] = Record("deterministic.created", v.engine, i)
    /\ \A i \in DOMAIN reviews :
          /\ reviews[i].auditId \in DOMAIN audit
          /\ audit[reviews[i].auditId] = Record("human_review.recorded", reviews[i].reviewer, i)

DecisionAudited ==
    decision /= None =>
        /\ decision.auditId \in DOMAIN audit
        /\ audit[decision.auditId] = Record("decision", decision.request.action, decision.code)

StoreInv == Typed /\ HeldSealed /\ ReviewsEligible /\ StoreAudited
DecisionInv == AllowedMeansReviewed /\ AdvisoryTrue /\ DecisionAudited
IInv == StoreInv /\ DecisionInv

-----------------------------------------------------------------------------
(* The audit log *)

(* An audit record is appended under the next id; the earlier ones stay. *)
LEMMA AuditGrows ==
    ASSUME Typed, NEW record, audit' = Append(audit, record)
    PROVE  /\ \E S : audit' \in Seq(S)
           /\ Len(audit') = Len(audit) + 1
           /\ DOMAIN audit \subseteq DOMAIN audit'
           /\ \A i \in DOMAIN audit : audit'[i] = audit[i]
           /\ NextId(audit) \in DOMAIN audit'
           /\ audit'[NextId(audit)] = record
           /\ NextId(audit) \in Nat /\ Len(audit) \in Nat
<1>1. PICK S : audit \in Seq(S)
  BY DEF Typed
<1>2. audit \in Seq(S \cup {record})
  BY <1>1
<1>3. audit' \in Seq(S \cup {record}) /\ Len(audit') = Len(audit) + 1 /\ Len(audit) \in Nat
  BY <1>2
<1>4. DOMAIN audit = 1..Len(audit) /\ DOMAIN audit' = 1..(Len(audit) + 1)
  BY <1>2, <1>3
<1>5. \A i \in 1..Len(audit) : audit'[i] = audit[i]
  BY <1>2
<1>6. audit'[Len(audit) + 1] = record
  BY <1>2
<1> QED
  BY <1>3, <1>4, <1>5, <1>6 DEF NextId

(* A review names an audit record by its number. *)
LEMMA ReviewIds == Typed => \A i \in DOMAIN reviews : reviews[i].auditId \in Nat
<1> SUFFICES ASSUME Typed, NEW i \in DOMAIN reviews PROVE reviews[i].auditId \in Nat
  OBVIOUS
<1>1. reviews[i] \in Reviews
  BY DEF Typed
<1> QED
  BY <1>1 DEF Reviews

(* What the log says of the store survives a record for something else. *)
LEMMA StoreStays ==
    ASSUME StoreInv, NEW record, audit' = Append(audit, record),
           UNCHANGED <<provenance, rulings, reviews, held>>,
           engines' \in [Engines -> Registrations \cup {None}]
    PROVE  StoreInv'
<1>1. /\ \E S : audit' \in Seq(S)
      /\ Len(audit') = Len(audit) + 1
      /\ DOMAIN audit \subseteq DOMAIN audit'
      /\ \A i \in DOMAIN audit : audit'[i] = audit[i]
  BY AuditGrows DEF StoreInv
<1>2. Typed' /\ HeldSealed'
  BY <1>1 DEF StoreInv, Typed, HeldSealed
<1>3. ReviewsEligible'
  <2>1. \A i \in DOMAIN reviews : reviews[i].auditId \in Int
    BY ReviewIds DEF StoreInv
  <2> QED
    BY <1>1, <2>1 DEF StoreInv, Typed, ReviewsEligible
<1>4. StoreAudited'
  BY <1>1 DEF StoreInv, StoreAudited
<1> QED
  BY <1>2, <1>3, <1>4 DEF StoreInv

-----------------------------------------------------------------------------
(* The operations of the store *)

LEMMA NoDecision ==
    ASSUME decision' = None
    PROVE  DecisionInv'
  BY DEF DecisionInv, AllowedMeansReviewed, AdvisoryTrue, DecisionAudited, Allowed

LEMMA RegisterInv ==
    ASSUME IInv, NEW e \in Engines, NEW registration \in Registrations,
           RegisterEngine(e, registration)
    PROVE  IInv'
<1>1. engines' \in [Engines -> Registrations \cup {None}]
  BY DEF RegisterEngine, IInv, StoreInv, Typed
<1> DEFINE record == Record("engine.registered", e, None)
<1>2. audit' = Append(audit, record)
  BY DEF RegisterEngine, RecordAudit
<1>3. UNCHANGED <<provenance, rulings, reviews, held>> /\ decision' = None
  BY DEF RegisterEngine
<1> HIDE DEF record
<1> QED
  BY <1>1, <1>2, <1>3, StoreStays, NoDecision DEF IInv

LEMMA OnlyAuditedInv ==
    ASSUME IInv, NEW kind, NEW subject, NEW ref,
           OnlyAudited(kind, subject, ref)
    PROVE  IInv'
<1>1. engines' \in [Engines -> Registrations \cup {None}]
  BY DEF OnlyAudited, IInv, StoreInv, Typed
<1> DEFINE record == Record(kind, subject, ref)
<1>2. audit' = Append(audit, record)
  BY DEF OnlyAudited, RecordAudit
<1>3. UNCHANGED <<provenance, rulings, reviews, held>> /\ decision' = None
  BY DEF OnlyAudited
<1> HIDE DEF record
<1> QED
  BY <1>1, <1>2, <1>3, StoreStays, NoDecision DEF IInv

(* An envelope binds the values it is sealed with. *)
LEMMA EnvelopeTypes ==
    ASSUME IInv, NEW id \in Nat, NEW e \in Engines, NEW task \in Tasks,
           NEW designation \in Designations, NEW content \in Outputs \cup Rulings,
           NEW timestamp \in Nat, OnLane(e, designation, task)
    PROVE  LET v == Values(id, e, task, designation, content, timestamp) IN
           /\ Sealed(v) \in Envelopes
           /\ Sealed(v).values = v /\ Sealed(v).tag = v
           /\ v.auditId = NextId(audit) /\ v.engine = e
<1>1. engines[e].version \in Versions /\ StorePolicy \in Policies
  BY GovernanceAssumption DEF IInv, StoreInv, Typed, OnLane
<1>2. NextId(audit) \in Nat
  BY DEF IInv, StoreInv, Typed, NextId
<1> DEFINE v == Values(id, e, task, designation, content, timestamp)
<1>3. v \in EnvelopeValues /\ v.auditId = NextId(audit) /\ v.engine = e
  BY <1>1, <1>2 DEF Values, EnvelopeValues
<1> HIDE DEF v
<1>4. Sealed(v) \in Envelopes /\ Sealed(v).values = v /\ Sealed(v).tag = v
  BY <1>3 DEF Sealed, Envelopes
<1> QED
  BY <1>3, <1>4 DEF v

LEMMA CreateProvenanceInv ==
    ASSUME IInv, NEW e \in Engines, NEW task \in Tasks, NEW o \in Outputs,
           NEW timestamp \in Nat, CreateProvenance(e, task, o, timestamp)
    PROVE  IInv'
<1> DEFINE id == NextId(provenance)
           v == Values(id, e, task, "AI_ADVISORY", o, timestamp)
<1>1. id \in Nat
  BY DEF IInv, StoreInv, Typed, NextId
<1>2. /\ Sealed(v) \in Envelopes
      /\ Sealed(v).values = v /\ Sealed(v).tag = v
      /\ v.auditId = NextId(audit) /\ v.engine = e
  <2>1. OnLane(e, "AI_ADVISORY", task) /\ "AI_ADVISORY" \in Designations
    BY DEF CreateProvenance, Designations
  <2> QED
    BY <1>1, <2>1, EnvelopeTypes
<1>3. /\ RecordAudit("provenance.created", e, id)
      /\ provenance' = Append(provenance, Sealed(v))
      /\ held' = held \cup {Sealed(v)}
      /\ UNCHANGED <<engines, rulings, reviews>>
      /\ decision' = None
  BY DEF CreateProvenance
<1> HIDE DEF v
<1>4. /\ \E S : audit' \in Seq(S)
      /\ Len(audit') = Len(audit) + 1
      /\ DOMAIN audit \subseteq DOMAIN audit'
      /\ \A i \in DOMAIN audit : audit'[i] = audit[i]
      /\ NextId(audit) \in DOMAIN audit'
      /\ audit'[NextId(audit)] = Record("provenance.created", e, id)
  <2>1. audit' = Append(audit, Record("provenance.created", e, id)) /\ Typed
    BY <1>3 DEF RecordAudit, IInv, StoreInv
  <2> QED
    BY <2>1, AuditGrows
<1>5. Typed' /\ HeldSealed'
  <2>1. provenance' \in Seq(Envelopes)
    BY <1>2, <1>3 DEF IInv, StoreInv, Typed
  <2> QED
    BY <1>2, <1>3, <1>4, <2>1 DEF IInv, StoreInv, Typed, HeldSealed
<1>6. ReviewsEligible'
  <2>1. \A i \in DOMAIN reviews : reviews[i].auditId \in Int
    BY ReviewIds DEF IInv, StoreInv
  <2> QED
    BY <1>3, <1>4, <2>1 DEF IInv, StoreInv, Typed, ReviewsEligible
<1>7. StoreAudited'
  <2>1. \A i \in DOMAIN provenance' : provenance'[i] = IF i = id THEN Sealed(v) ELSE provenance[i]
    BY <1>2, <1>3 DEF IInv, StoreInv, Typed, NextId
  <2>2. \A i \in DOMAIN provenance' : i /= id => i \in DOMAIN provenance
    BY <1>2, <1>3 DEF IInv, StoreInv, Typed, NextId
  <2> QED
    BY <1>2, <1>3, <1>4, <2>1, <2>2 DEF IInv, StoreInv, StoreAudited
<1> QED
  BY <1>3, <1>5, <1>6, <1>7, NoDecision DEF IInv, StoreInv

LEMMA CreateRulingInv ==
    ASSUME IInv, NEW e \in Engines, NEW task \in Tasks, NEW ruling \in Rulings,
           NEW timestamp \in Nat, CreateRuling(e, task, ruling, timestamp)
    PROVE  IInv'
<1> DEFINE id == NextId(rulings)
           v == Values(id, e, task, "DETERMINISTIC_RULE", ruling, timestamp)
<1>1. id \in Nat
  BY DEF IInv, StoreInv, Typed, NextId
<1>2. /\ Sealed(v) \in Envelopes
      /\ Sealed(v).values = v /\ Sealed(v).tag = v
      /\ v.auditId = NextId(audit) /\ v.engine = e
  <2>1. OnLane(e, "DETERMINISTIC_RULE", task) /\ "DETERMINISTIC_RULE" \in Designations
    BY DEF CreateRuling, Designations
  <2> QED
    BY <1>1, <2>1, EnvelopeTypes
<1>3. /\ RecordAudit("deterministic.created", e, id)
      /\ rulings' = Append(rulings, Sealed(v))
      /\ held' = held \cup {Sealed(v)}
      /\ UNCHANGED <<engines, provenance, reviews>>
      /\ decision' = None
  BY DEF CreateRuling
<1> HIDE DEF v
<1>4. /\ \E S : audit' \in Seq(S)
      /\ Len(audit') = Len(audit) + 1
      /\ DOMAIN audit \subseteq DOMAIN audit'
      /\ \A i \in DOMAIN audit : audit'[i] = audit[i]
      /\ NextId(audit) \in DOMAIN audit'
      /\ audit'[NextId(audit)] = Record("deterministic.created", e, id)
  <2>1. audit' = Append(audit, Record("deterministic.created", e, id)) /\ Typed
    BY <1>3 DEF RecordAudit, IInv, StoreInv
  <2> QED
    BY <2>1, AuditGrows
<1>5. Typed' /\ HeldSealed'
  <2>1. rulings' \in Seq(Envelopes)
    BY <1>2, <1>3 DEF IInv, StoreInv, Typed
  <2> QED
    BY <1>2, <1>3, <1>4, <2>1 DEF IInv, StoreInv, Typed, HeldSealed
<1>6. ReviewsEligible'
  <2>1. \A i \in DOMAIN reviews : reviews[i].auditId \in Int
    BY ReviewIds DEF IInv, StoreInv
  <2> QED
    BY <1>3, <1>4, <2>1 DEF IInv, StoreInv, Typed, ReviewsEligible
<1>7. StoreAudited'
  <2>1. \A i \in DOMAIN rulings' : rulings'[i] = IF i = id THEN Sealed(v) ELSE rulings[i]
    BY <1>2, <1>3 DEF IInv, StoreInv, Typed, NextId
  <2>2. \A i \in DOMAIN rulings' : i /= id => i \in DOMAIN rulings
    BY <1>2, <1>3 DEF IInv, StoreInv, Typed, NextId
  <2> QED
    BY <1>2, <1>3, <1>4, <2>1, <2>2 DEF IInv, StoreInv, StoreAudited
<1> QED
  BY <1>3, <1>5, <1>6, <1>7, NoDecision DEF IInv, StoreInv

LEMMA RecordReviewInv ==
    ASSUME IInv, NEW w \in Reviewers, NEW action \in Actions, NEW org \in Orgs,
           NEW o \in Outputs, RecordHumanReview(w, action, org, o)
    PROVE  IInv'
<1> DEFINE id == NextId(reviews)
           review == [reviewer |-> w.id, org |-> org, action |-> action,
                      content |-> o, auditId |-> NextId(audit)]
<1>1. id \in Nat /\ NextId(audit) \in Nat /\ review \in Reviews
  BY DEF IInv, StoreInv, Typed, NextId, Reviews, ReviewerIds
<1>2. /\ RecordAudit("human_review.recorded", w.id, id)
      /\ reviews' = Append(reviews, review)
      /\ Eligible(w, action, org)
      /\ UNCHANGED <<engines, provenance, rulings, held>>
      /\ decision' = None
  BY DEF RecordHumanReview
<1>3. /\ \E S : audit' \in Seq(S)
      /\ Len(audit') = Len(audit) + 1
      /\ DOMAIN audit \subseteq DOMAIN audit'
      /\ \A i \in DOMAIN audit : audit'[i] = audit[i]
      /\ NextId(audit) \in DOMAIN audit'
      /\ audit'[NextId(audit)] = Record("human_review.recorded", w.id, id)
  <2>1. audit' = Append(audit, Record("human_review.recorded", w.id, id)) /\ Typed
    BY <1>2 DEF RecordAudit, IInv, StoreInv
  <2> QED
    BY <2>1, AuditGrows
<1>4. Typed' /\ HeldSealed'
  <2>1. reviews' \in Seq(Reviews)
    BY <1>1, <1>2 DEF IInv, StoreInv, Typed
  <2> QED
    BY <1>2, <1>3, <2>1 DEF IInv, StoreInv, Typed, HeldSealed
<1>5. /\ \A i \in DOMAIN reviews' : reviews'[i] = IF i = id THEN review ELSE reviews[i]
      /\ \A i \in DOMAIN reviews' : i /= id => i \in DOMAIN reviews
  BY <1>1, <1>2 DEF IInv, StoreInv, Typed, NextId
<1>6. ReviewsEligible'
  <2>1. \A i \in DOMAIN reviews : reviews[i].auditId \in Int
    BY ReviewIds DEF IInv, StoreInv
  <2>2. NextId(audit) = Len(audit) + 1 /\ Len(audit) \in Nat
    BY DEF NextId, IInv, StoreInv, Typed
  <2> SUFFICES ASSUME NEW i \in DOMAIN reviews'
               PROVE  /\ \E x \in Reviewers :
                            /\ reviews'[i].reviewer = x.id
                            /\ Eligible(x, reviews'[i].action, reviews'[i].org)
                      /\ reviews'[i].auditId <= Len(audit')
    BY DEF ReviewsEligible, Eligible
  <2>3. CASE i = id
    BY <1>2, <1>3, <1>5, <2>2, <2>3
  <2>4. CASE i /= id
    BY <1>3, <1>5, <2>1, <2>2, <2>4 DEF IInv, StoreInv, ReviewsEligible
  <2> QED
    BY <2>3, <2>4
<1>7. StoreAudited'
  BY <1>2, <1>3, <1>5 DEF IInv, StoreInv, StoreAudited
<1> QED
  BY <1>2, <1>4, <1>6, <1>7, NoDecision DEF IInv, StoreInv

LEMMA RestartInv ==
    ASSUME IInv, RestartStore
    PROVE  IInv'
<1>1. Typed' /\ HeldSealed'
  BY DEF RestartStore, IInv, StoreInv, Typed, HeldSealed
<1>2. ReviewsEligible' /\ StoreAudited'
  BY DEF RestartStore, ReviewsEligible, StoreAudited
<1> QED
  BY <1>1, <1>2, NoDecision DEF RestartStore, IInv, StoreInv

-----------------------------------------------------------------------------
(* Decisions *)

(* What an allowed request came with. *)
LEMMA AllowedEvidence ==
    ASSUME NEW r, ReasonCode(r) \in AllowedCodes
    PROVE  /\ r.class = "HUMAN_OPERATOR"
           /\ r.action \in HumanActions
           /\ r.review /= None
           /\ ReviewOfRecord(r.review, r.action, r.org, ActedOn(r), r.actor)
           /\ r.advisory /= None => Verified(r.advisory, "AI_ADVISORY")
<1>1. RulingCode(r) \notin AllowedCodes
  BY DEF RulingCode, AllowedCodes
<1>2. r.class = "HUMAN_OPERATOR" /\ HumanCode(r) \in AllowedCodes
  BY <1>1 DEF ReasonCode, AllowedCodes
<1>3. r.action \in HumanActions
  BY <1>2 DEF HumanCode, AllowedCodes
<1>4. r.review /= None
  BY <1>2 DEF HumanCode, AllowedCodes
<1>5. ReviewOfRecord(r.review, r.action, r.org, ActedOn(r), r.actor)
  BY <1>2, Zenon DEF HumanCode, AllowedCodes
<1>6. r.advisory /= None => Verified(r.advisory, "AI_ADVISORY")
  BY <1>2, Zenon DEF HumanCode, AllowedCodes
<1> QED
  BY <1>2, <1>3, <1>4, <1>5, <1>6

(* An envelope that verifies and was given out, or altered after it was,   *)
(* was not altered.                                                        *)
LEMMA NotAltered ==
    ASSUME IInv, NEW e \in Presented, e /= None, e.tag = e.values
    PROVE  e \in held
<1>1. CASE e \in held
  BY <1>1
<1>2. CASE \E h \in held, c \in Outputs : e = [h EXCEPT !.values.content = c]
  <2>1. PICK h \in held, c \in Outputs : e = [h EXCEPT !.values.content = c]
    BY <1>2
  <2>2. h \in Envelopes /\ h.tag = h.values
    BY DEF IInv, StoreInv, Typed, HeldSealed
  <2>3. h = [values |-> h.values, tag |-> h.tag]
    BY <2>2 DEF Envelopes
  <2>4. e = [values |-> e.values, tag |-> h.tag]
    BY <2>1, <2>3
  <2>5. e.values = h.values
    BY <2>2, <2>4
  <2> QED
    BY <2>3, <2>4, <2>5
<1> QED
  BY <1>1, <1>2 DEF Presented, Altered

(* The engine of a verified advisory is generative and in its version. *)
LEMMA VerifiedEngine ==
    ASSUME IInv, NEW e, Verified(e, "AI_ADVISORY")
    PROVE  engines[e.values.engine] = [class |-> "GENERATIVE_AI", version |-> e.values.version]
<1> DEFINE g == engines[e.values.engine]
<1>1. g \in [class : EngineClasses, version : Versions]
  BY GovernanceAssumption DEF IInv, StoreInv, Typed, Verified, OnLane
<1>2. g.class = "GENERATIVE_AI" /\ g.version = e.values.version
  BY DEF Verified, OnLane, LegalLane
<1> HIDE DEF g
<1>3. g = [class |-> g.class, version |-> g.version]
  BY <1>1
<1> QED
  BY <1>2, <1>3 DEF g

(* A decision is recorded first, and allowed only on the evidence there is. *)
LEMMA EvaluateInv ==
    ASSUME IInv, NEW r, r.advisory \in Presented, Evaluate(r)
    PROVE  IInv'
<1> DEFINE record == Record("decision", r.action, ReasonCode(r))
<1>1. /\ audit' = Append(audit, record)
      /\ decision' = [request |-> r, code |-> ReasonCode(r), auditId |-> NextId(audit), at |-> now]
      /\ UNCHANGED <<engines, provenance, rulings, reviews, held>>
  BY DEF Evaluate, RecordAudit
<1>2. decision'.request = r /\ decision'.code = ReasonCode(r) /\ decision'.auditId = NextId(audit)
  BY <1>1
<1>3. StoreInv'
  <2>1. engines' \in [Engines -> Registrations \cup {None}]
    BY <1>1 DEF IInv, StoreInv, Typed
  <2> HIDE DEF record
  <2> QED
    BY <1>1, <2>1, StoreStays DEF IInv
<1>4. DecisionAudited'
  <2>1. NextId(audit) \in DOMAIN audit' /\ audit'[NextId(audit)] = record
    <3> HIDE DEF record
    <3> QED
      BY <1>1, AuditGrows DEF IInv, StoreInv
  <2> QED
    BY <1>2, <2>1 DEF DecisionAudited, Record
<1>5. AllowedMeansReviewed'
  <2> SUFFICES ASSUME ReasonCode(r) \in AllowedCodes
               PROVE  /\ r.class = "HUMAN_OPERATOR"
                      /\ r.action \in HumanActions
                      /\ \E i \in DOMAIN reviews, w \in Reviewers :
                            /\ reviews[i].content = ActedOn(r)
                            /\ reviews[i].action = r.action /\ reviews[i].org = r.org
                            /\ reviews[i].reviewer = w.id /\ w.id = r.actor
                            /\ Eligible(w, r.action, r.org)
                            /\ reviews[i].auditId < NextId(audit)
    BY <1>1, <1>2 DEF AllowedMeansReviewed, Allowed, ActedOn, Eligible
  <2>1. /\ r.class = "HUMAN_OPERATOR" /\ r.action \in HumanActions
        /\ r.review \in DOMAIN reviews
        /\ reviews[r.review].action = r.action /\ reviews[r.review].org = r.org
        /\ reviews[r.review].content = ActedOn(r) /\ reviews[r.review].reviewer = r.actor
    BY AllowedEvidence DEF ReviewOfRecord
  <2>2. /\ \E w \in Reviewers :
              /\ reviews[r.review].reviewer = w.id
              /\ Eligible(w, reviews[r.review].action, reviews[r.review].org)
        /\ reviews[r.review].auditId <= Len(audit)
    BY <2>1 DEF IInv, StoreInv, ReviewsEligible
  <2>3. reviews[r.review].auditId < NextId(audit)
    <3>1. reviews[r.review].auditId \in Nat
      BY <2>1, ReviewIds DEF IInv, StoreInv
    <3>2. Len(audit) \in Nat
      BY <1>1, AuditGrows DEF IInv, StoreInv
    <3> QED
      BY <2>2, <3>1, <3>2 DEF NextId
  <2> QED
    BY <2>1, <2>2, <2>3
<1>6. AdvisoryTrue'
  <2> SUFFICES ASSUME ReasonCode(r) \in AllowedCodes, r.advisory /= None
               PROVE  /\ r.advisory \in held
                      /\ r.advisory.values.designation = "AI_ADVISORY"
                      /\ r.advisory.values.policy = ActivePolicy
                      /\ engines[r.advisory.values.engine]
                            = [class |-> "GENERATIVE_AI", version |-> r.advisory.values.version]
    BY <1>1, <1>2 DEF AdvisoryTrue, Allowed
  <2>1. Verified(r.advisory, "AI_ADVISORY")
    BY AllowedEvidence
  <2> QED
    BY <2>1, NotAltered, VerifiedEngine DEF Verified
<1> QED
  BY <1>3, <1>4, <1>5, <1>6 DEF IInv, DecisionInv

(* Who asks comes without evidence; the caller attaches what it holds. *)
LEMMA AskInv ==
    ASSUME IInv, Ask \/ AskAutomated \/ AskReviewed \/ AskOnAdvisory
    PROVE  IInv'
<1>1. None \in Presented
  BY DEF Presented
<1>2. \A r \in Asks :
         r = [action |-> r.action, org |-> r.org, class |-> r.class, actor |-> r.actor,
              policy |-> r.policy, review |-> None, content |-> None,
              assisted |-> r.assisted, advisory |-> None, ruling |-> None]
  BY AsksAssumption DEF Request
<1>3. CASE Ask
  <2>1. PICK r \in Asks : Evaluate(r)
    BY <1>3 DEF Ask
  <2>2. r.advisory = None
    BY <1>2
  <2> QED
    BY <1>1, <2>1, <2>2, EvaluateInv
<1>4. CASE AskAutomated
  <2>1. PICK r \in Asks, e \in Presented : Evaluate([r EXCEPT !.ruling = e])
    BY <1>4 DEF AskAutomated
  <2>2. [r EXCEPT !.ruling = e].advisory = None
    BY <1>2
  <2> QED
    BY <1>1, <2>1, <2>2, EvaluateInv
<1>5. CASE AskReviewed
  <2>1. PICK r \in Asks, id \in 1 .. NextId(reviews), c \in Outputs :
            Evaluate([r EXCEPT !.review = id, !.content = c])
    BY <1>5 DEF AskReviewed
  <2>2. [r EXCEPT !.review = id, !.content = c].advisory = None
    BY <1>2
  <2> QED
    BY <1>1, <2>1, <2>2, EvaluateInv
<1>6. CASE AskOnAdvisory
  <2>1. PICK r \in Asks, id \in 1 .. NextId(reviews), e \in Presented :
            Evaluate([r EXCEPT !.review = id, !.advisory = e])
    BY <1>6 DEF AskOnAdvisory
  <2>2. [r EXCEPT !.review = id, !.advisory = e].advisory = e
    BY <1>2
  <2> QED
    BY <2>1, <2>2, EvaluateInv
<1> QED
  BY <1>3, <1>4, <1>5, <1>6

-----------------------------------------------------------------------------
(* The theorems *)

LEMMA InitInv == Init => IInv
<1> SUFFICES ASSUME Init PROVE IInv
  OBVIOUS
<1>1. Typed /\ HeldSealed
  BY DEF Init, Typed, HeldSealed
<1>2. ReviewsEligible /\ StoreAudited
  BY DEF Init, ReviewsEligible, StoreAudited
<1>3. DecisionInv
  BY DEF Init, DecisionInv, AllowedMeansReviewed, AdvisoryTrue, DecisionAudited, Allowed
<1> QED
  BY <1>1, <1>2, <1>3 DEF IInv, StoreInv

LEMMA StepInv == IInv /\ [Next]_vars => IInv'
<1> SUFFICES ASSUME IInv, [Next]_vars PROVE IInv'
  OBVIOUS
<1>1. CASE \E e \in Engines, registration \in Registrations : RegisterEngine(e, registration)
  BY <1>1, RegisterInv
<1>2. CASE \/ \E e \in Engines, o \in Outputs : GuardAiOutput(e, o)
           \/ \E d \in Outputs : GuardExternalData(d)
           \/ AttemptMutation
  <2>1. CASE \E e \in Engines, o \in Outputs : GuardAiOutput(e, o)
    <3>1. PICK e \in Engines, o \in Outputs : GuardAiOutput(e, o)
      BY <2>1
    <3> DEFINE kind == IF o \in Forbidden THEN "ai_output.rejected" ELSE "ai_output.allowed"
    <3>2. OnlyAudited(kind, e, o)
      BY <3>1 DEF GuardAiOutput
    <3> HIDE DEF kind
    <3> QED
      BY <3>2, OnlyAuditedInv
  <2>2. CASE \E d \in Outputs : GuardExternalData(d)
    <3>1. PICK d \in Outputs : GuardExternalData(d)
      BY <2>2
    <3> DEFINE kind == IF d \in Forbidden THEN "external_data.rejected"
                       ELSE "external_data.classified_data"
    <3>2. OnlyAudited(kind, "EXTERNAL_PARTNER_DATA", None)
      BY <3>1 DEF GuardExternalData
    <3> HIDE DEF kind
    <3> QED
      BY <3>2, OnlyAuditedInv
  <2>3. CASE AttemptMutation
    BY <2>3, OnlyAuditedInv DEF AttemptMutation
  <2> QED
    BY <1>2, <2>1, <2>2, <2>3
<1>3. CASE \E e \in Engines, t \in Tasks, o \in Outputs, at \in 0 .. MaxTime :
              CreateProvenance(e, t, o, at)
  BY <1>3, CreateProvenanceInv
<1>4. CASE \E e \in Engines, t \in Tasks, c \in Rulings, at \in 0 .. MaxTime :
              CreateRuling(e, t, c, at)
  BY <1>4, CreateRulingInv
<1>5. CASE \E w \in Reviewers, a \in Actions, org \in Orgs, o \in Outputs :
              RecordHumanReview(w, a, org, o)
  BY <1>5, RecordReviewInv
<1>6. CASE Ask \/ AskAutomated \/ AskReviewed \/ AskOnAdvisory
  BY <1>6, AskInv
<1>7. CASE Tick
  <2>1. StoreInv'
    BY <1>7 DEF Tick, store, IInv, StoreInv, Typed, HeldSealed, ReviewsEligible, Eligible, StoreAudited
  <2> QED
    BY <1>7, <2>1, NoDecision DEF Tick, IInv
<1>8. CASE RestartStore
  BY <1>8, RestartInv
<1>9. CASE Full \/ UNCHANGED vars
  <2>1. /\ engines' = engines /\ provenance' = provenance /\ rulings' = rulings
        /\ reviews' = reviews /\ audit' = audit /\ held' = held /\ decision' = decision
    BY <1>9 DEF Full, vars, store
  <2>2. StoreInv'
    BY <2>1 DEF IInv, StoreInv, Typed, HeldSealed, ReviewsEligible, Eligible, StoreAudited
  <2>3. AllowedMeansReviewed'
    BY <2>1 DEF IInv, DecisionInv, AllowedMeansReviewed, Allowed, ActedOn, Eligible
  <2>4. AdvisoryTrue' /\ DecisionAudited'
    BY <2>1 DEF IInv, DecisionInv, AdvisoryTrue, DecisionAudited, Allowed
  <2> QED
    BY <2>2, <2>3, <2>4 DEF IInv, DecisionInv
<1> QED
  BY <1>1, <1>2, <1>3, <1>4, <1>5, <1>6, <1>7, <1>8, <1>9 DEF Next

(* The inductive invariant holds throughout. *)
THEOREM Invariance == Spec => []IInv
  BY InitInv, StepInv, PTL DEF Spec

(* AllowedMeansReviewed: no protected action is allowed without the        *)
(* earlier review of the very output by the eligible human who acts.       *)
THEOREM HumansDecide == Spec => []AllowedMeansReviewed
<1>1. IInv => AllowedMeansReviewed
  BY DEF IInv, DecisionInv
<1> QED
  BY <1>1, Invariance, PTL

(* AdvisoryTrue: whatever callers keep across restarts or alter, an        *)
(* advisory that counts is as it was given out, by the engine of record.   *)
THEOREM AdvisoriesTrue == Spec => []AdvisoryTrue
<1>1. IInv => AdvisoryTrue
  BY DEF IInv, DecisionInv
<1> QED
  BY <1>1, Invariance, PTL

(* RecordsAudited: every record of the store, and every decision, has an   *)
(* audit record of its own.                                                *)
THEOREM EverythingAudited == Spec => []RecordsAudited
<1>1. IInv => RecordsAudited
  BY DEF IInv, StoreInv, DecisionInv, StoreAudited, DecisionAudited, RecordsAudited
<1> QED
  BY <1>1, Invariance, PTL
=============================================================================
