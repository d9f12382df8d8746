------------------------------ MODULE Governance ------------------------------
(***************************************************************************)
(* Decisions on protected actions (ai-governance/): the governance store   *)
(* with its engines, provenance envelopes, rule engine results, human      *)
(* reviews and audit log, and evaluateProtectedAction over them.           *)
(*                                                                         *)
(* The store lives in memory: a restart begins an empty one under the same *)
(* integrity key, and its identifiers begin at 1 again, while callers keep *)
(* the envelopes and review ids they were given.  An integrity tag is the  *)
(* record of the values it binds.  What the text scans of the two guards   *)
(* find is a constant.                                                     *)
(***************************************************************************)
EXTENDS Integers, Sequences

CONSTANTS
    None,
    Actions,            \* PROTECTED_ACTION_KINDS
    HumanActions,       \* the actions whose policy admits HUMAN_OPERATOR
    BlockActions,       \* the actions a rule engine may block
    Orgs,
    Reviewers,          \* the identities that callers present as reviewers
    Engines,            \* engine ids
    Versions,           \* engine versions
    Registrations,      \* classes and versions that engines register with
    Outputs,            \* governed outputs, by their hash
    Forbidden,          \* the outputs the guards reject
    Policies,           \* policy versions
    Asks,               \* who asks for what, before any evidence is attached
    ActivePolicy,       \* ACTIVE_POLICY_VERSION
    StorePolicy,        \* policyVersion of the store
    Skew,               \* MAX_PROVENANCE_SKEW_MS
    MaxTime,            \* bound of the clock
    Lives               \* bounds of the audit log, one for each life of the store,
                        \* and the time at which the first life begins

EngineClasses ==
    {"GENERATIVE_AI", "DETERMINISTIC_RULE_ENGINE", "HUMAN_OPERATOR_CONSOLE",
     "SYSTEM_AUTOMATION_ENGINE"}

ASSUME GovernanceAssumption ==
    /\ HumanActions \subseteq Actions
    /\ Skew \in Nat /\ MaxTime \in Nat
    /\ Registrations \subseteq [class : EngineClasses, version : Versions]
    /\ ActivePolicy \in Policies /\ StorePolicy \in Policies
    /\ None \notin Outputs
    /\ \A l \in Lives : l.logs \in Seq(Nat) /\ l.logs /= <<>> /\ l.start \in Nat

VARIABLES
    engines,            \* engines of the store
    provenance,         \* envelopes of the store, by id
    rulings,            \* results of rule engines in the store, by id
    reviews,            \* reviews of the store, by id
    audit,              \* records of AuditLog, by id
    held,               \* what callers were given, in this life or an earlier one
    decision,           \* the decision that the last step returned, or None
    lives,              \* bound of the audit log in this life and in those to come
    now

store == <<engines, provenance, rulings, reviews, audit>>
vars == <<store, held, decision, lives, now>>

Tasks == {"analyze", "policy_evaluation"}

(* checkEngineDesignation for the two designations that engines claim. *)
LegalLane(class, designation, task) ==
    \/ class = "GENERATIVE_AI" /\ designation = "AI_ADVISORY" /\ task = "analyze"
    \/ class = "DETERMINISTIC_RULE_ENGINE" /\ designation = "DETERMINISTIC_RULE"
       /\ task = "policy_evaluation"

Sealed(values) == [values |-> values, tag |-> values]

NextId(log) == Len(log) + 1

Init ==
    /\ engines = [e \in Engines |-> None]
    /\ provenance = <<>> /\ rulings = <<>> /\ reviews = <<>> /\ audit = <<>>
    /\ held = {} /\ decision = None
    /\ \E l \in Lives : lives = l.logs /\ now = l.start

Record(kind, subject, ref) == [kind |-> kind, subject |-> subject, ref |-> ref]

(* recordAudit *)
RecordAudit(kind, subject, ref) ==
    /\ Len(audit) < Head(lives)
    /\ audit' = Append(audit, Record(kind, subject, ref))

-----------------------------------------------------------------------------
(* Engines, guards, envelopes and reviews *)

(* registerEngine: the class fixes the one legal designation. *)
RegisterEngine(e, registration) ==
    /\ engines[e] = None
    /\ engines' = [engines EXCEPT ![e] = registration]
    /\ RecordAudit("engine.registered", e, None)
    /\ decision' = None
    /\ UNCHANGED <<provenance, rulings, reviews, held, lives, now>>

(* checkEngineDesignation of an engine id that may be unknown. *)
OnLane(e, designation, task) ==
    /\ e \in Engines
    /\ engines[e] /= None
    /\ LegalLane(engines[e].class, designation, task)

OnlyAudited(kind, subject, ref) ==
    /\ RecordAudit(kind, subject, ref)
    /\ decision' = None
    /\ UNCHANGED <<engines, provenance, rulings, reviews, held, lives, now>>

(* guardAiOutput *)
GuardAiOutput(e, o) ==
    /\ OnLane(e, "AI_ADVISORY", "analyze")
    /\ OnlyAudited(IF o \in Forbidden THEN "ai_output.rejected" ELSE "ai_output.allowed", e, o)

(* guardExternalData *)
GuardExternalData(d) ==
    OnlyAudited(IF d \in Forbidden THEN "external_data.rejected"
                ELSE "external_data.classified_data", "EXTERNAL_PARTNER_DATA", None)

(* attemptMutation, of whichever record *)
AttemptMutation == OnlyAudited("audit.mutation_denied", None, None)

Fresh(timestamp) == timestamp - now \in -Skew .. Skew

(* Mutant: the envelope names the last record there is, not its own. *)
ValuesBeforeAudit(id, e, task, designation, content, timestamp) ==
    [id |-> id, engine |-> e, version |-> engines[e].version, task |-> task,
     designation |-> designation, content |-> content,
     timestamp |-> timestamp, policy |-> StorePolicy, auditId |-> Len(audit)]

(* What an envelope binds, whether it wraps an output or a ruling. *)
Values(id, e, task, designation, content, timestamp) ==
    [id |-> id, engine |-> e, version |-> engines[e].version, task |-> task,
     designation |-> designation, content |-> content,
     timestamp |-> timestamp, policy |-> StorePolicy, auditId |-> NextId(audit)]

(* createProvenanceEnvelope *)
CreateProvenance(e, task, o, timestamp) ==
    /\ Fresh(timestamp)
    /\ OnLane(e, "AI_ADVISORY", task)
    /\ LET id == NextId(provenance)
           envelope == Sealed(Values(id, e, task, "AI_ADVISORY", o, timestamp))
       IN  /\ RecordAudit("provenance.created", e, id)
           /\ provenance' = Append(provenance, envelope)
           /\ held' = held \cup {envelope}
    /\ decision' = None
    /\ UNCHANGED <<engines, rulings, reviews, lives, now>>

(* createDeterministicResult *)
CreateRuling(e, task, ruling, timestamp) ==
    /\ Fresh(timestamp)
    /\ OnLane(e, "DETERMINISTIC_RULE", task)
    /\ LET id == NextId(rulings)
           envelope == Sealed(Values(id, e, task, "DETERMINISTIC_RULE", ruling, timestamp))
       IN  /\ RecordAudit("deterministic.created", e, id)
           /\ rulings' = Append(rulings, envelope)
           /\ held' = held \cup {envelope}
    /\ decision' = None
    /\ UNCHANGED <<engines, provenance, reviews, lives, now>>

Eligible(w, action, org) ==
    /\ w.type = "HUMAN"
    /\ w.authenticated
    /\ w.org = org
    /\ action \in w.actions

(* recordHumanReview *)
RecordHumanReview(w, action, org, o) ==
    /\ Eligible(w, action, org)
    /\ RecordAudit("human_review.recorded", w.id, NextId(reviews))
    /\ reviews' = Append(reviews, [reviewer |-> w.id, org |-> org, action |-> action,
                                   content |-> o, auditId |-> NextId(audit)])
    /\ decision' = None
    /\ UNCHANGED <<engines, provenance, rulings, held, lives, now>>

-----------------------------------------------------------------------------
(* evaluateProtectedAction *)

(* Mutant: the version of the engine is not compared. *)
VerifiedAnyVersion(e, designation) ==
    /\ e.values.designation = designation
    /\ e.values.auditId \in DOMAIN audit
    /\ e.tag = e.values
    /\ OnLane(e.values.engine, designation, e.values.task)
    /\ e.values.policy = ActivePolicy

(* verifyProvenanceEnvelope, verifyDeterministicResultEnvelope *)
Verified(e, designation) ==
    /\ e.values.designation = designation
    /\ e.values.auditId \in DOMAIN audit
    /\ e.tag = e.values
    /\ OnLane(e.values.engine, designation, e.values.task)
    /\ e.values.version = engines[e.values.engine].version
    /\ e.values.policy = ActivePolicy

(* Mutant: a review stands for whatever the reviewer does next. *)
ReviewOfAnything(id, action, org, content, actor) ==
    /\ id \in DOMAIN reviews
    /\ reviews[id].action = action
    /\ reviews[id].org = org
    /\ reviews[id].reviewer = actor

(* verifyHumanReview *)
ReviewOfRecord(id, action, org, content, actor) ==
    /\ id \in DOMAIN reviews
    /\ reviews[id].action = action
    /\ reviews[id].org = org
    /\ reviews[id].content = content
    /\ reviews[id].reviewer = actor

(* The output that the review has to be about. *)
ActedOn(r) == IF r.advisory /= None THEN r.advisory.values.content ELSE r.content

(* Everything a rule engine obtains is a denial: at best the one it ruled. *)
(* In these three the first early return that applies answers.             *)
RulingCode(r) ==
    IF r.action \notin BlockActions THEN "DETERMINISTIC_AUTOMATION_DENIED"
    ELSE IF r.ruling = None THEN "DETERMINISTIC_DECISION_MISSING"
    ELSE IF ~Verified(r.ruling, "DETERMINISTIC_RULE") THEN "DETERMINISTIC_PROVENANCE_INVALID"
    ELSE IF r.ruling.values.content /= "AUTO_BLOCK_RETENTION_HOLD" THEN "DETERMINISTIC_DECISION_DENIED"
    ELSE "DETERMINISTIC_AUTO_BLOCKED"

HumanCode(r) ==
    IF r.action \notin HumanActions THEN "ACTOR_CLASS_NOT_ALLOWED"
    ELSE IF r.review = None THEN "HUMAN_REVIEW_REQUIRED"
    ELSE IF r.advisory = None /\ r.assisted THEN "AI_PROVENANCE_MISSING"
    ELSE IF r.advisory /= None /\ ~Verified(r.advisory, "AI_ADVISORY") THEN "AI_PROVENANCE_INVALID"
    ELSE IF r.advisory = None /\ r.content = None THEN "HUMAN_REVIEW_INVALID"
    ELSE IF ~ReviewOfRecord(r.review, r.action, r.org, ActedOn(r), r.actor) THEN "HUMAN_REVIEW_INVALID"
    ELSE IF r.advisory = None THEN "HUMAN_AUTHORIZED"
    ELSE "HUMAN_AUTHORIZED_ON_ADVISORY"

ReasonCode(r) ==
    IF r.action \notin Actions THEN "PROTECTED_ACTION_UNKNOWN"
    ELSE IF r.policy /= ActivePolicy THEN "POLICY_VERSION_STALE"
    ELSE IF r.class = "HUMAN_OPERATOR" THEN HumanCode(r)
    ELSE IF r.class = "DETERMINISTIC_RULE_ENGINE" THEN RulingCode(r)
    ELSE IF r.class = "AI" THEN "AI_ACTOR_DENIED"
    ELSE IF r.class = "SYSTEM_AUTOMATION" THEN "SYSTEM_ACTOR_DENIED"
    ELSE "ACTOR_CLASS_UNKNOWN"

AllowedCodes == {"HUMAN_AUTHORIZED", "HUMAN_AUTHORIZED_ON_ADVISORY"}

(* decide: the audit record first, then the answer that names it. *)
Evaluate(r) ==
    /\ LET code == ReasonCode(r) IN
       /\ RecordAudit("decision", r.action, code)
       /\ decision' = [request |-> r, code |-> code, auditId |-> NextId(audit), at |-> now]
    /\ UNCHANGED <<engines, provenance, rulings, reviews, held, lives, now>>

-----------------------------------------------------------------------------
(* The callers, the clock and the process *)

Rulings == {"AUTO_BLOCK_RETENTION_HOLD", "AUTO_APPROVE"}

(* Another content put into an envelope that was given out. *)
Altered == {[e EXCEPT !.values.content = c] : e \in held, c \in Outputs}

(* What a caller may attach. *)
Presented == {None} \cup held \cup Altered

Request(action, org, class, actor, policy, assisted) ==
    [action |-> action, org |-> org, class |-> class, actor |-> actor, policy |-> policy,
     review |-> None, content |-> None, assisted |-> assisted, advisory |-> None, ruling |-> None]

ASSUME AsksAssumption ==
    \A r \in Asks : r = Request(r.action, r.org, r.class, r.actor, r.policy, r.assisted)

Ask == \E r \in Asks : Evaluate(r)

AskAutomated ==
    \E r \in Asks, e \in Presented :
        /\ r.class = "DETERMINISTIC_RULE_ENGINE"
        /\ Evaluate([r EXCEPT !.ruling = e])

AskReviewed ==
    \E r \in Asks, id \in 1 .. NextId(reviews), c \in Outputs :
        /\ r.class = "HUMAN_OPERATOR"
        /\ Evaluate([r EXCEPT !.review = id, !.content = c])

AskOnAdvisory ==
    \E r \in Asks, id \in 1 .. NextId(reviews), e \in Presented :
        /\ r.class = "HUMAN_OPERATOR"
        /\ Evaluate([r EXCEPT !.review = id, !.advisory = e])

Tick ==
    /\ now < MaxTime
    /\ now' = now + 1
    /\ decision' = None
    /\ UNCHANGED <<store, held, lives>>

RestartStore ==
    /\ Len(lives) > 1
    /\ lives' = Tail(lives)
    /\ engines' = [e \in Engines |-> None]
    /\ provenance' = <<>> /\ rulings' = <<>> /\ reviews' = <<>> /\ audit' = <<>>
    /\ decision' = None
    /\ UNCHANGED <<held, now>>

(* The bound of the log is reached. *)
Full ==
    /\ Len(audit) = Head(lives)
    /\ UNCHANGED vars

Next ==
    \/ \E e \in Engines, r \in Registrations : RegisterEngine(e, r)
    \/ \E e \in Engines, o \in Outputs : GuardAiOutput(e, o)
    \/ \E d \in Outputs : GuardExternalData(d)
    \/ AttemptMutation
    \/ \E e \in Engines, t \in Tasks, o \in Outputs, at \in 0 .. MaxTime :
           CreateProvenance(e, t, o, at)
    \/ \E e \in Engines, t \in Tasks, c \in Rulings, at \in 0 .. MaxTime :
           CreateRuling(e, t, c, at)
    \/ \E w \in Reviewers, a \in Actions, org \in Orgs, o \in Outputs :
           RecordHumanReview(w, a, org, o)
    \/ Ask
    \/ AskAutomated
    \/ AskReviewed
    \/ AskOnAdvisory
    \/ Tick
    \/ RestartStore
    \/ Full

Spec == Init /\ [][Next]_vars

-----------------------------------------------------------------------------
(* Properties *)

Allowed == decision /= None /\ decision.code \in AllowedCodes

(* Nothing but a human operator is ever allowed a protected action, and    *)
(* only on a review that an authenticated human, of that organisation and  *)
(* authorised for that action, recorded earlier about the very output that *)
(* is acted on; the actor is that reviewer.                                *)
AllowedMeansReviewed ==
    Allowed =>
        LET r == decision.request IN
        /\ r.class = "HUMAN_OPERATOR"
        /\ r.action \in HumanActions
        /\ \E i \in DOMAIN reviews, w \in Reviewers :
              /\ reviews[i].content = ActedOn(r)
              /\ reviews[i].action = r.action /\ reviews[i].org = r.org
              /\ reviews[i].reviewer = w.id /\ w.id = r.actor
              /\ Eligible(w, r.action, r.org)
              /\ reviews[i].auditId < decision.auditId

(* An action allowed on an AI advisory rests on an envelope exactly as it  *)
(* was given out, of a generative engine that is registered, in the        *)
(* version that produced it, under the active policy: also when envelopes  *)
(* of an earlier life of the store are still about.                        *)
AdvisoryTrue ==
    (Allowed /\ decision.request.advisory /= None) =>
        LET e == decision.request.advisory IN
        /\ e \in held
        /\ e.values.designation = "AI_ADVISORY"
        /\ e.values.policy = ActivePolicy
        /\ engines[e.values.engine] = [class |-> "GENERATIVE_AI", version |-> e.values.version]

(* Envelopes, results, reviews and decisions each name the audit record    *)
(* that was written for them and for nothing else, so no two of them share *)
(* a record and none goes unaudited.                                       *)
RecordsAudited ==
    /\ \A i \in DOMAIN provenance :
          LET v == provenance[i].values IN
          /\ v.auditId \in DOMAIN audit
          /\ audit[v.auditId] = Record("provenance.created", v.engine, i)
    /\ \A i \in DOMAIN rulings :
          LET v == rulings[i].values IN
          /\ v.auditId \in DOMAIN audit
          /\ audit[v.auditId] = Record("deterministic.created", v.engine, i)
    /\ \A i \in DOMAIN reviews :
          /\ reviews[i].auditId \in DOMAIN audit
          /\ audit[reviews[i].auditId] = Record("human_review.recorded", reviews[i].reviewer, i)
    /\ decision /= None =>
          /\ decision.auditId \in DOMAIN audit
          /\ audit[decision.auditId] = Record("decision", decision.request.action, decision.code)

(* README.md:134 says that verification recomputes, among others, the      *)
(* freshness of an envelope (5 minutes of skew); nothing in                *)
(* verifyProvenanceEnvelope reads the timestamp against the clock.         *)
AdvisoryFresh ==
    (Allowed /\ decision.request.advisory /= None) =>
        decision.at - decision.request.advisory.values.timestamp \in -Skew .. Skew
===============================================================================
