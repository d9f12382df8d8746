--------------------------- MODULE ActivationService ---------------------------
(***************************************************************************)
(* ARMA's side of PATCHES: patches/arma/activationService.ts over          *)
(* armaStore.ts, and the retry loop of patchesPartnerClient.ts, in front   *)
(* of the partner server.  An operation runs without a break up to a       *)
(* request and is suspended until the request is answered or given up.     *)
(*                                                                         *)
(* Abstractions.  An ARMA-ACT id is named after the call of activate that  *)
(* may create it.  Intents refused at the gate leave only an audit entry,  *)
(* so that they are no step.  RECEIPT_VERIFIED is never visible: it        *)
(* becomes ACTIVE in the same transaction.  A connection refused before    *)
(* delivery leaves the same trace as a request refused by the limiter.     *)
(* The retries of a change are changes of their own, those of a query are  *)
(* the query itself.  Reconciliation records are counted.  The clock        *)
(* stands still: no request is older than the server accepts.              *)
(***************************************************************************)
EXTENDS PartnerServer, Sequences, FiniteSets

CONSTANTS
    Arma,            \* the client of the partner server
    Locals,          \* ARMA-ACT ids
    IntentOf, KeyOf, \* what the call of activate asks for, and under which key
    Keyed,           \* the calls that bring a key of their own
    Workers,         \* bound: operations in flight at a time
    MaxAttempts,     \* of the client
    StatusAttempts,  \* reconciliationStatusAttempts
    Switches,        \* what ARMA's outbound kill switch may be
    Draws, Changes   \* bounds: creates per record, changes per activation

(* Every attempt of the client has a request id and a nonce of its own. *)
CreateRequest(a, n) ==
    [kind |-> "create", id |-> <<a, n>>, client |-> Arma, nonce |-> <<a, n>>,
     at |-> 0, key |-> KeyOf[a], intent |-> IntentOf[a]]
ChangeRequest(kind, target, n) ==
    [kind |-> kind, id |-> <<kind, target, n>>, client |-> Arma,
     nonce |-> <<kind, target, n>>, at |-> 0, target |-> target]

(* Bound: the requests that ARMA comes to send. *)
ASSUME PoolAssumption ==
    Requests \subseteq {CreateRequest(a, n) : a \in Locals, n \in 1..Draws} \cup
                       {ChangeRequest(kind, <<a, n>>, m) : kind \in {"deactivate", "revoke"},
                            a \in Locals, n \in 1..Draws, m \in 1..Changes}
ASSUME CallAssumption ==
    /\ Arma \in Clients
    /\ IntentOf \in [Locals -> Intents] /\ KeyOf \in [Locals -> Keys]
    /\ Keyed \subseteq Locals /\ Switches \subseteq BOOLEAN
    /\ MaxAttempts \in Nat \ {0} /\ StatusAttempts \in Nat \ {0}
    /\ Draws \in Nat /\ Changes \in Nat
(* A key stands for one intent, for whoever makes it up. *)
ASSUME KeyAssumption ==
    \A a, b \in Locals : KeyOf[a] = KeyOf[b] => IntentOf[a] = IntentOf[b]

VARIABLES
    records,   \* activations of ARMA's store
    order,     \* their ids, in the order of the Map
    queries,   \* reconciliation records of each, counted up to StatusAttempts
    calls,     \* worker -> the suspended operation
    sent,      \* the requests handed to the network
    paused     \* outboundDisabled

serviceVars == <<records, order, queries, calls, sent, paused>>
allVars == <<serverVars, serviceVars>>

-----------------------------------------------------------------------------
(* Types *)

Live == {"PENDING", "READY_TO_ACTIVATE", "ACTIVATION_SENT", "ACTIVE",
         "RECONCILIATION_REQUIRED"}
Final == {"REJECTED", "QUARANTINED", "REVOKED", "DEACTIVATED"}
ArmaRecord == [status: Live \cup Final, patches: RequestIds \cup {None},
               hint: RequestIds \cup {None}]
ASSUME RecordAssumption == None \notin ArmaRecord
Reply == [code: Code \cup {"FOUND", "BLOCKED"}, activation: RequestIds \cup {None},
          status: Status \cup {None}]
Call == [op: {"create", "reconcile", "sync", "deactivate", "revoke"}, local: Locals,
         req: Requests \cup {None},
         subject: RequestIds,   \* the first attempt, or what is asked about
         count: Nat,            \* attempts made, or the number of the query
         active: BOOLEAN,       \* the record was ACTIVE when it was read
         reply: Reply \cup {None}]

ServiceTypeOK ==
    /\ TypeOK
    /\ records \in [Locals -> ArmaRecord \cup {None}]
    /\ order \in Seq(Locals)
    /\ queries \in [Locals -> 0..StatusAttempts]
    /\ calls \in [Workers -> Call \cup {None}]
    /\ sent \subseteq Requests
    /\ paused \in Switches

ServiceInit ==
    /\ Init
    /\ records = [a \in Locals |-> None]
    /\ order = << >>
    /\ queries = [a \in Locals |-> 0]
    /\ calls = [w \in Workers |-> None]
    /\ sent = {}
    /\ paused \in Switches

-----------------------------------------------------------------------------
(* The client *)

Clean == {"RATE_LIMITED", "PARTNER_API_DISABLED", "DOWNSTREAM_UNAVAILABLE",
          "PARTNER_PERSISTENCE_FAILED"}

Failed(code) == [code |-> code, activation |-> None, status |-> None]

(* While the kill switch is on, a request is answered without being sent. *)
AnswerAtOnce == IF paused THEN Failed("BLOCKED") ELSE None
Sending(r) == sent' = IF paused THEN sent ELSE sent \cup {r}

NextCreate(a) ==
    CreateRequest(a, Cardinality({r \in sent : r.kind = "create" /\ r.id[1] = a}) + 1)
NextChange(kind, target) ==
    ChangeRequest(kind, target,
        Cardinality({r \in sent : r.kind = kind /\ r.target = target}) + 1)

Begin(w, op, a, r, subject, count) ==
    calls' = [calls EXCEPT ![w] =
        [op |-> op, local |-> a, req |-> r, subject |-> subject, count |-> count,
         active |-> records[a] /= None /\ records[a].status = "ACTIVE",
         reply |-> AnswerAtOnce]]

Finish(w) == calls' = [calls EXCEPT ![w] = None]
Waiting(w) == calls[w] /= None /\ calls[w].reply = None
Answered(w, ops) == calls[w] /= None /\ calls[w].reply /= None /\ calls[w].op \in ops

(* A clean failure is retried under a fresh id, a bounded number of times. *)
MayRetry(c) == c.reply.code \in Clean /\ c.count < MaxAttempts

RetryCreate(w) ==
    /\ Answered(w, {"create"})
    /\ MayRetry(calls[w])
    /\ LET r == NextCreate(calls[w].local) IN
       /\ r \in Requests
       /\ Sending(r)
       /\ calls' = [calls EXCEPT ![w].req = r, ![w].count = @ + 1,
                                 ![w].reply = AnswerAtOnce]
    /\ UNCHANGED <<records, order, queries, paused>>

(* A timeout, a dropped connection, a receipt that does not verify. *)
GiveUp(w) ==
    /\ calls[w] /= None /\ calls[w].req /= None
    /\ calls[w].reply \notin {Failed("BLOCKED"), Failed("FAULT")}
    /\ calls' = [calls EXCEPT ![w].reply = Failed("FAULT")]
    /\ UNCHANGED <<records, order, queries, sent, paused>>

-----------------------------------------------------------------------------
(* sendCreate *)

ProcessStops == calls' = [w \in Workers |-> None]

(* SENT is stored before the request leaves; the process may stop between  *)
(* the transactions that lead there.                                       *)
SendCreate(w, a, recs) ==
    \/ /\ NextCreate(a) \in Requests
       /\ Sending(NextCreate(a))
       /\ Begin(w, "create", a, NextCreate(a), NextCreate(a).id, 1)
       /\ records' = [recs EXCEPT ![a].status = "ACTIVATION_SENT"]
    \/ /\ ProcessStops
       /\ records' \in {recs, [recs EXCEPT ![a].status = "READY_TO_ACTIVATE"]}
       /\ UNCHANGED sent

(* Mutants: an unknown failure of the server is terminal, or has a status  *)
(* that the schema does not know.                                          *)
StatusUnlessRefused(code) ==
    CASE code \in {"SUCCESS", "DUPLICATE"} -> "ACTIVE"
      [] code \in Clean \cup {"UNAUTHENTICATED"} -> "QUARANTINED"
      [] OTHER -> "REJECTED"

StatusUnlisted(code) ==
    CASE code \in {"SUCCESS", "DUPLICATE"} -> "ACTIVE"
      [] code = "FAULT" -> "UNKNOWN"
      [] OTHER -> "REJECTED"

StatusAfter(code) ==
    CASE code \in {"SUCCESS", "DUPLICATE"} -> "ACTIVE"
      [] code = "FAULT" -> "RECONCILIATION_REQUIRED"
      [] code \in Clean \cup {"UNAUTHENTICATED"} -> "QUARANTINED"
      [] OTHER -> "REJECTED"

(* Mutant: the identity is taken for the activation. *)
ConcludeByIdentity(w) ==
    /\ Answered(w, {"create"})
    /\ ~MayRetry(calls[w])
    /\ LET c == calls[w] IN
       records' = [records EXCEPT ![c.local] =
           [status |-> StatusAfter(c.reply.code), patches |-> c.subject, hint |-> c.subject]]
    /\ Finish(w)
    /\ UNCHANGED <<order, queries, sent, paused>>

(* The identity is the id of the first attempt.  It is stored in a         *)
(* transaction of its own, after which the process may stop.               *)
ConcludeCreate(w) ==
    /\ Answered(w, {"create"})
    /\ ~MayRetry(calls[w])
    /\ LET c == calls[w]
           hinted == [records EXCEPT ![c.local].hint = c.subject]
           status == StatusAfter(c.reply.code) IN
       \/ /\ Finish(w)
          /\ records' = [hinted EXCEPT
                 ![c.local].status = status,
                 ![c.local].patches = IF status = "ACTIVE" THEN c.reply.activation ELSE @]
       \/ /\ ProcessStops
          /\ records' = hinted
    /\ UNCHANGED <<order, queries, sent, paused>>

-----------------------------------------------------------------------------
(* activate *)

Tracked == {order[i] : i \in DOMAIN order}

(* The first match in the order of the Map. *)
FirstIn(S) == order[CHOOSE i \in DOMAIN order :
                        order[i] \in S /\ \A j \in 1..(i - 1) : order[j] \notin S]

(* findActiveActivationForBinding, findActivationByIdempotencyKey *)
SameIntent(a) == {b \in Tracked : IntentOf[b] = IntentOf[a] /\ records[b].status \in Live}
SameKey(a) == {b \in Tracked : KeyOf[b] = KeyOf[a]}

(* The intent is in somebody else's hands: the caller is told DUPLICATE. *)
Collapses(a) ==
    /\ SameIntent(a) /= {}
    /\ LET existing == FirstIn(SameIntent(a)) IN
       \/ records[existing].status \notin {"PENDING", "READY_TO_ACTIVATE"}
       \/ a \in Keyed /\ KeyOf[a] /= KeyOf[existing]

FreshRecord(status) == [status |-> status, patches |-> None, hint |-> None]

QuarantineNew(a) ==
    /\ paused
    /\ records[a] = None
    /\ records' = [records EXCEPT ![a] = FreshRecord("QUARANTINED")]
    /\ order' = Append(order, a)
    /\ UNCHANGED <<queries, calls, sent, paused>>

ActivateNew(w, a) ==
    /\ ~paused
    /\ calls[w] = None
    /\ ~Collapses(a)
    /\ SameKey(a) = {}
    /\ order' = Append(order, a)
    /\ SendCreate(w, a, [records EXCEPT ![a] = FreshRecord("PENDING")])
    /\ UNCHANGED <<queries, paused>>

ActivateAgain(w, a) ==
    /\ ~paused
    /\ calls[w] = None
    /\ ~Collapses(a)
    /\ SameKey(a) /= {}
    /\ LET prior == FirstIn(SameKey(a)) IN
       /\ records[prior].status \notin Final
       /\ SendCreate(w, prior, records)
    /\ UNCHANGED <<order, queries, paused>>

-----------------------------------------------------------------------------
(* reconcile, resume *)

Identity(a) == IF records[a].patches /= None THEN records[a].patches ELSE records[a].hint

AtMostStatusAttempts(n) == IF n > StatusAttempts THEN StatusAttempts ELSE n

SetStatus(a, status) == records' = [records EXCEPT ![a].status = status]

Query(w, op, a) ==
    Begin(w, op, a, None, Identity(a), AtMostStatusAttempts(queries[a] + 1))

Reconcile(w, a) ==
    /\ calls[w] = None
    /\ records[a] /= None
    /\ records[a].status \in {"RECONCILIATION_REQUIRED", "ACTIVATION_SENT"}
    /\ IF Identity(a) = None
       THEN SetStatus(a, "QUARANTINED") /\ UNCHANGED calls
       ELSE Query(w, "reconcile", a) /\ UNCHANGED records
    /\ UNCHANGED <<order, queries, sent, paused>>

(* Mutant: only what is PENDING is resumed. *)
ResumePending(w, a) ==
    /\ calls[w] = None
    /\ records[a] /= None
    /\ records[a].status = "PENDING"
    /\ SendCreate(w, a, records)
    /\ UNCHANGED <<order, queries, paused>>

ResumeUnsent(w, a) ==
    /\ calls[w] = None
    /\ records[a] /= None
    /\ records[a].status \in {"PENDING", "READY_TO_ACTIVATE"}
    /\ SendCreate(w, a, records)
    /\ UNCHANGED <<order, queries, paused>>

(* Mutant: what was interrupted is sent again. *)
ResumeBySending(w, a) ==
    /\ calls[w] = None
    /\ records[a] /= None
    /\ records[a].status = "ACTIVATION_SENT"
    /\ SendCreate(w, a, records)
    /\ UNCHANGED <<order, queries, paused>>

(* The outcome is unknown, which is stored first; without an identity the  *)
(* intent is quarantined, unless the process stops before that.            *)
ResumeSent(w, a) ==
    /\ calls[w] = None
    /\ records[a] /= None
    /\ records[a].status = "ACTIVATION_SENT"
    /\ \/ /\ records[a].hint /= None
          /\ Query(w, "reconcile", a)
          /\ SetStatus(a, "RECONCILIATION_REQUIRED")
       \/ /\ records[a].hint = None
          /\ SetStatus(a, "QUARANTINED")
          /\ UNCHANGED calls
       \/ /\ ProcessStops
          /\ SetStatus(a, "RECONCILIATION_REQUIRED")
    /\ UNCHANGED <<order, queries, sent, paused>>

Sync(w, a) ==
    /\ calls[w] = None
    /\ records[a] /= None
    /\ Identity(a) /= None
    /\ Query(w, "sync", a)
    /\ UNCHANGED <<records, order, queries, sent, paused>>

Asking(w) == Waiting(w) /\ calls[w].op \in {"reconcile", "sync"}

(* GET /activations/:id; a partner denied the organization is refused. *)
AnswerQuery(w) ==
    /\ Asking(w)
    /\ ~directory.disabled /\ Arma \in directory.standing
    /\ LET id == calls[w].subject
           found == activations[id] IN
       calls' = [calls EXCEPT ![w].reply =
           IF found = None THEN Failed("ACTIVATION_UNKNOWN")
           ELSE [code |-> "FOUND", activation |-> id, status |-> found.status]]
    /\ UNCHANGED <<records, order, queries, sent, paused>>

DenyQuery(w) ==
    /\ Asking(w)
    /\ ~directory.disabled /\ Arma \in directory.standing
    /\ LET found == activations[calls[w].subject] IN
       found /= None /\ <<Arma, found.intent>> \notin directory.entitled
    /\ calls' = [calls EXCEPT ![w].reply = Failed("FORBIDDEN")]
    /\ UNCHANGED <<records, order, queries, sent, paused>>

(* Refused by the server for another reason, timed out, or lost. *)
FailQuery(w) ==
    /\ Asking(w)
    /\ calls' = [calls EXCEPT ![w].reply = Failed("FAULT")]
    /\ UNCHANGED <<records, order, queries, sent, paused>>

Says(c, status) == c.reply.code = "FOUND" /\ c.reply.status = status

(* The answer moves the record whatever its status has become.  The        *)
(* identity check on the answer never fails: see IdentityTrue.             *)
ConcludeReconcile(w) ==
    /\ Answered(w, {"reconcile"})
    /\ LET c == calls[w]
           a == c.local IN
       /\ queries' = [queries EXCEPT ![a] = IF c.count > @ THEN c.count ELSE @]
       /\ \/ /\ c.reply.code = "FORBIDDEN"
             /\ SetStatus(a, "QUARANTINED")
             /\ Finish(w) /\ UNCHANGED sent
          \/ /\ Says(c, "ACTIVE")
             /\ records' = [records EXCEPT ![a].status = "ACTIVE", ![a].patches = c.subject]
             /\ Finish(w) /\ UNCHANGED sent
          \/ /\ c.reply.code = "ACTIVATION_UNKNOWN" /\ c.count >= StatusAttempts
             /\ SendCreate(w, a, records)
          \/ /\ \/ c.reply.code = "ACTIVATION_UNKNOWN" /\ c.count < StatusAttempts
                \/ c.reply.code \in {"FAULT", "BLOCKED"}
                \/ c.reply.code = "FOUND" /\ c.reply.status /= "ACTIVE"
             /\ Finish(w) /\ UNCHANGED <<records, sent>>
    /\ UNCHANGED <<order, paused>>

ConcludeSync(w) ==
    /\ Answered(w, {"sync"})
    /\ LET c == calls[w]
           a == c.local IN
       \/ /\ Says(c, "ACTIVE") /\ ~c.active
          /\ records' = [records EXCEPT ![a].status = "ACTIVE", ![a].patches = c.subject]
       \/ /\ Says(c, "DEACTIVATED") \/ Says(c, "REVOKED")
          /\ SetStatus(a, c.reply.status)
       \/ /\ c.reply.code /= "FOUND" \/ (Says(c, "ACTIVE") /\ c.active)
          /\ UNCHANGED records
    /\ Finish(w)
    /\ UNCHANGED <<order, queries, sent, paused>>

-----------------------------------------------------------------------------
(* deactivate, revoke *)

RevokeLocally(a) ==
    /\ records[a] /= None
    /\ records[a].patches = None
    /\ records[a].status /= "REVOKED"
    /\ SetStatus(a, "REVOKED")
    /\ UNCHANGED <<order, queries, calls, sent, paused>>

ChangeRemotely(w, a, kind) ==
    /\ calls[w] = None
    /\ records[a] /= None
    /\ records[a].patches /= None
    /\ records[a].status /= After(kind)
    /\ LET r == NextChange(kind, records[a].patches) IN
       /\ r \in Requests
       /\ Sending(r)
       /\ Begin(w, kind, a, r, r.target, 1)
    /\ UNCHANGED <<records, order, queries, paused>>

(* Mutant: a change whose outcome is unknown is taken for done. *)
ConcludeChangeHopefully(w) ==
    /\ Answered(w, {"deactivate", "revoke"})
    /\ LET c == calls[w] IN
       \/ c.reply.code \in {"SUCCESS", "FAULT"} /\ SetStatus(c.local, After(c.op))
       \/ c.reply.code \notin {"SUCCESS", "FAULT"} /\ UNCHANGED records
    /\ Finish(w)
    /\ UNCHANGED <<order, queries, sent, paused>>

ConcludeChange(w) ==
    /\ Answered(w, {"deactivate", "revoke"})
    /\ LET c == calls[w] IN
       \/ c.reply.code = "SUCCESS" /\ SetStatus(c.local, After(c.op))
       \/ c.reply.code = "FAULT" /\ SetStatus(c.local, "RECONCILIATION_REQUIRED")
       \/ c.reply.code \notin {"SUCCESS", "FAULT"} /\ UNCHANGED records
    /\ Finish(w)
    /\ UNCHANGED <<order, queries, sent, paused>>

-----------------------------------------------------------------------------
(* The whole *)

Operate(w, a) ==
    \/ ActivateNew(w, a) \/ ActivateAgain(w, a)
    \/ Reconcile(w, a) \/ ResumeUnsent(w, a) \/ ResumeSent(w, a)
    \/ Sync(w, a)
    \/ \E kind \in {"deactivate", "revoke"} : ChangeRemotely(w, a, kind)

Continue(w) ==
    \/ RetryCreate(w) \/ GiveUp(w) \/ ConcludeCreate(w)
    \/ AnswerQuery(w) \/ DenyQuery(w) \/ FailQuery(w)
    \/ ConcludeReconcile(w) \/ ConcludeSync(w) \/ ConcludeChange(w)

(* Suspended operations are lost, the store is not. *)
RestartService ==
    /\ ProcessStops
    /\ UNCHANGED <<records, order, queries, sent, paused>>

SwitchOutbound ==
    /\ paused' \in Switches
    /\ UNCHANGED <<records, order, queries, calls, sent>>

Locally(A) ==
    /\ A
    /\ answer' = None
    /\ UNCHANGED <<now, directory, arrived, pending, nonces, registries>>

ServiceStep ==
    /\ \/ \E w \in Workers, a \in Locals : Operate(w, a)
       \/ \E w \in Workers : Continue(w)
       \/ \E a \in Locals : QuarantineNew(a) \/ RevokeLocally(a)
       \/ RestartService
       \/ SwitchOutbound
    /\ answer' = None
    /\ UNCHANGED <<now, directory, arrived, pending, nonces, registries>>

(* What the server answers goes to the operation that waits for it. *)
ServerStep ==
    /\ \/ \E r \in sent, c \in Copies : Deliver(r, c)
       \/ \E h \in pending : Conclude(h)
       \/ Administer
       \/ RestartServer
    /\ calls' = [w \in Workers |->
           IF Waiting(w) /\ answer' /= None /\ answer'.req = calls[w].req
           THEN [calls[w] EXCEPT !.reply = [code |-> answer'.code, status |-> None,
                                            activation |-> answer'.activation]]
           ELSE calls[w]]
    /\ UNCHANGED <<records, order, queries, sent, paused>>

ServiceNext == ServiceStep \/ ServerStep

ServiceSpec == ServiceInit /\ [][ServiceNext]_allVars

(* An operation goes on when it is answered or its time is up.  The        *)
(* operator repeats resume and reconcile; of these infinitely many some    *)
(* are answered, and of these some run to their end without a restart.     *)
Completes(w) ==
    /\ ConcludeReconcile(w)
    /\ calls[w].reply.code /= "FAULT"
    /\ calls[w].reply.code = "ACTIVATION_UNKNOWN" /\ calls[w].count >= StatusAttempts
          => calls'[w] /= None
Persistence ==
    \A w \in Workers :
        /\ WF_allVars(Locally(RetryCreate(w) \/ GiveUp(w) \/ FailQuery(w) \/ ConcludeCreate(w)
                  \/ ConcludeReconcile(w) \/ ConcludeSync(w) \/ ConcludeChange(w)))
        /\ SF_allVars(Locally(AnswerQuery(w) /\ calls[w].op = "reconcile"))
        /\ SF_allVars(Locally(Completes(w)))
        /\ \A a \in Locals :
              /\ SF_allVars(Locally(ResumeUnsent(w, a) /\ calls'[w] /= None))
              /\ SF_allVars(Locally(Reconcile(w, a)))

PersistentSpec == ServiceSpec /\ Persistence

-----------------------------------------------------------------------------
(* What must hold *)

(* An identity, known or presumed, never stands for anything but what the  *)
(* record asked for, and an identity that ARMA knows exists.               *)
IdentityTrue ==
    \A a \in Locals : records[a] /= None =>
        LET mine(id) == activations[id].intent = IntentOf[a] /\ activations[id].key = KeyOf[a] IN
        /\ records[a].status = "ACTIVE" => records[a].patches /= None
        /\ records[a].patches /= None =>
              activations[records[a].patches] /= None /\ mine(records[a].patches)
        /\ records[a].hint /= None /\ activations[records[a].hint] /= None =>
              mine(records[a].hint)

(* A create that was, is or may still be processed. *)
Alive(r) ==
    \/ \E c \in Copies : <<r, c>> \notin arrived
    \/ \E h \in pending : h.req = r
    \/ activations[r.id] /= None

CreatesOf(a) == {r \in sent : r.kind = "create" /\ r.id[1] = a}

(* activationService.ts:16-19: "NO re-send of the activation create happens *)
(* until reconciliation resolves".  False where an intent has two records: *)
(* a call without a key finds the second one by the key it derives, and    *)
(* sends what is ACTIVATION_SENT again.                                    *)
NoBlindResend ==
    [][\A a \in Locals :
          CreatesOf(a)' /= CreatesOf(a) /\ (\E r \in CreatesOf(a) : Alive(r))
              => queries'[a] = StatusAttempts]_allVars

(* Another record is held for the same intent. *)
Shared(a) == \E b \in Tracked : b /= a /\ IntentOf[b] = IntentOf[a]

(* A delivery of the create is over without a trace: if the partner has an *)
(* activation of it, the network delivered it once more.                   *)
LeftNothing(r) ==
    /\ \E c \in Copies : Over(r, c)
    /\ activations[r.id] /= None => Repeated(r)

(* No create is sent while an earlier one may have been processed, unless  *)
(* reconciliation has asked for it StatusAttempts times (queries without   *)
(* an answer count) or the intent has a second record.                     *)
ResendsJustified ==
    [][\A a \in Locals :
          CreatesOf(a)' /= CreatesOf(a) =>
              \/ queries'[a] = StatusAttempts
              \/ Shared(a)'
              \/ \A r \in CreatesOf(a) : LeftNothing(r)]_allVars

(* What ARMA has ended under an identity has ended at the server. *)
EndedMeansEnded ==
    \A a \in Locals :
        records[a] /= None /\ records[a].patches /= None =>
            LET status == activations[records[a].patches].status IN
            /\ records[a].status = "REVOKED" => status = "REVOKED"
            /\ records[a].status = "DEACTIVATED" => status /= "ACTIVE"

(* A rejected intent is not active at the server, nor will it be; except   *)
(* that reconciliation or a second record may have had it sent anew.       *)
RejectionMeansNothing ==
    \A a \in Locals :
        records[a] /= None /\ records[a].status = "REJECTED"
        /\ queries[a] < StatusAttempts /\ ~Shared(a)
            => \A r \in CreatesOf(a) : LeftNothing(r)

(* Every intent is settled in the end, once the server lets ARMA in and if *)
(* it has not ended the activation itself; or the creates that the bound   *)
(* allows are used up.                                                     *)
LetIn == ~paused /\ ~directory.disabled /\ Arma \in directory.standing
Settled(a) ==
    \/ records[a].status \in Final \cup {"ACTIVE"}
    \/ Identity(a) /= None /\ activations[Identity(a)] /= None
       /\ activations[Identity(a)].status /= "ACTIVE"
    \/ NextCreate(a) \notin Requests
IntentsSettle ==
    <>[]LetIn => \A a \in Locals : (records[a] /= None) ~> (records[a] /= None /\ Settled(a))

(* What is revoked does not come back.                                     *)
RevokedForGood ==
    [][\A a \in Locals : records[a] /= None /\ records[a].status = "REVOKED"
          => records'[a].status = "REVOKED"]_allVars

=============================================================================
