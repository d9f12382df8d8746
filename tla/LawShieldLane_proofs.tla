-------------------------- MODULE LawShieldLane_proofs --------------------------
(***************************************************************************)
(* Proofs about the whole lane, under a caller that names every transfer   *)
(* with an id of its own (ReuseIds = FALSE).  A step of the lane is a step *)
(* of the gateway or leaves it alone, so everything proved of the gateway  *)
(* and the processor holds here; what is proved of ARMA on top of it is    *)
(* that its record, the requests it signed and what Law Shield took agree. *)
(***************************************************************************)
EXTENDS LawShieldLane, LawShieldGateway_proofs

USE DEF armaMappings, armaStore, armaVars

-----------------------------------------------------------------------------
(* The inductive invariant *)

(* The clock stays within its bound. *)
Clock == now \in 0 .. MaxTime

(* Statuses that a human has authorised, and those with a destination. *)
Authorised == {"AUTHORIZED", "READY_TO_SEND", "SENT", "ACCEPTED", "RECONCILIATION_REQUIRED"}
Addressed == {"READY_TO_SEND", "SENT", "ACCEPTED", "RECONCILIATION_REQUIRED"}

(* What ARMA's own collections say of one transfer agrees. *)
RecordsSound ==
    \A t \in Transfers :
        /\ HasStatus(t, Authorised) => authorizations[t] /= None
        /\ authorizations[t] /= None =>
              /\ outbound[t] /= None
              /\ outbound[t].status /= "DRAFT"
              /\ outbound[t].authorizer = authorizations[t]
              /\ Identities[authorizations[t]].human
        /\ HasStatus(t, Addressed) => outbound[t].dest /= None

(* A signed request is the record it was made from. *)
Matches(e) ==
    /\ authorizations[e.transfer] /= None
    /\ outbound[e.transfer].key = e.key
    /\ outbound[e.transfer].payload = e.payload
    /\ outbound[e.transfer].authorizer = e.authorizer

SignedFromRecord == \A r \in signed : Matches(r.env)

(* A suspended send is the only one of its transfer, which is SENT.        *)
SendsAlone ==
    /\ \A s \in sending : HasStatus(s.req.env.transfer, {"SENT"})
    /\ \A s, z \in sending : s.req.env.transfer = z.req.env.transfer => s = z

(* A transfer with a reconciliation record never becomes sendable again.   *)
ReconciledStays ==
    \A t \in Transfers :
        reconciliation[t] /= None => HasStatus(t, {"RECONCILIATION_REQUIRED", "REJECTED"})

(* Law Shield holds nothing that was not signed. *)
TakenFromSigned ==
    \A t \in Transfers : transfers[t] /= None =>
        \E r \in signed : /\ r.env.transfer = t
                          /\ r.env.key = transfers[t].key
                          /\ r.env.payload = transfers[t].payload
                          /\ r.env.authorizer = transfers[t].authorizer

AcceptedIsTaken == \A t \in Transfers : HasStatus(t, {"ACCEPTED"}) => receipts[t] /= None

Lower == IInv /\ GatewayShape /\ Truthful /\ ReceiptTrue /\ NeverMismatched

Upper == RecordsSound /\ SignedFromRecord /\ SendsAlone /\ ReconciledStays /\ AmbiguityRecorded

LaneIInv == Lower /\ Clock /\ LaneTypeOK /\ Upper /\ TakenFromSigned /\ AcceptedIsTaken

-----------------------------------------------------------------------------
(* The lane over the gateway *)

(* An envelope ARMA builds is one the gateway may see. *)
LEMMA EnvelopeKnown ==
  ASSUME TypeOK, Clock, LaneTypeOK, RecordsSound,
         NEW t \in Transfers, HasStatus(t, Sendable)
  PROVE  EnvelopeOf(t) \in Requests /\ now \in Timestamps
<1>1. outbound[t] \in OutboundRecord /\ outbound[t].status = "READY_TO_SEND"
  BY DEF LaneTypeOK, HasStatus, Sendable
<1>2. outbound[t].dest \in LawShieldOrgs
  BY <1>1 DEF RecordsSound, HasStatus, Addressed, OutboundRecord
<1>3. outbound[t].authorizer \in Users
  BY <1>1 DEF RecordsSound, HasStatus, Authorised, LaneTypeOK
<1>4. now \in 0 .. MaxTime /\ now + 3 \in 3 .. MaxTime + 3
  BY TimeAssumption DEF Clock
<1>5. EnvelopeOf(t) \in Posted
  BY <1>1, <1>2, <1>3, <1>4 DEF EnvelopeOf, OutboundRecord, Posted
<1>6. EnvelopeOf(t).expiresAt = EnvelopeOf(t).sentAt + 3
  BY DEF EnvelopeOf
<1>7. QED
  BY <1>4, <1>5, <1>6, SenderAssumption

(* A step of the lane is a step of the gateway, or none. *)
LEMMA LaneStepRefines ==
  ASSUME TypeOK, GatewayTypeOK, Clock, LaneTypeOK, RecordsSound, [LaneNext]_vars
  PROVE  [GatewayNext]_laneVars
<1>1. ASSUME NEW t \in Transfers, NEW n \in Nonces, Send(t, n) PROVE GatewayNext
  BY <1>1, EnvelopeKnown DEF Send, GatewayNext
<1>2. ASSUME NEW r \in outgoing, GatewayReceives(r) PROVE GatewayNext
  BY <1>2 DEF GatewayReceives, GatewayNext, GatewayStep, HandleRequest, LaneTypeOK
<1>3. CASE GatewayWorks
  BY <1>3 DEF GatewayWorks, GatewayNext, GatewayStep, HandleRequest
<1>4. CASE LaneTick
  BY <1>4 DEF LaneTick, GatewayNext, GatewayStep
<1>5. ASSUME NEW t \in Transfers, NEW u \in Users,
             \/ Authorize(t, u) \/ Reject(t, u)
             \/ \E o \in {"RESOLVED", "QUARANTINED"} : ResolveReconciliation(t, u, o)
      PROVE  UNCHANGED laneVars
  BY <1>5 DEF Authorize, Reject, ResolveReconciliation
<1>6. ASSUME NEW t \in Transfers, NEW d \in LawShieldOrgs, NEW c \in Cases \cup {None},
             Ready(t, d, c)
      PROVE  UNCHANGED laneVars
  BY <1>6 DEF Ready
<1>7. CASE \/ \E d \in Drafts : CreateDraft(d)
           \/ \E s \in sending : SendThrows(s)
           \/ RestartArma \/ SwitchOutbound \/ AdministerArma
  BY <1>7 DEF CreateDraft, SendThrows, RestartArma, SwitchOutbound, AdministerArma
<1>8. CASE UNCHANGED vars
  BY <1>8 DEF vars
<1>9. QED
  BY <1>1, <1>2, <1>3, <1>4, <1>5, <1>6, <1>7, <1>8 DEF LaneNext

LEMMA LowerStep ==
  ASSUME Lower, [GatewayNext]_laneVars
  PROVE  Lower' /\ KeepsDecisions
<1>1. TypeOK /\ GatewayTypeOK
  BY DEF Lower, IInv, GatewayShape
<1>2. [Next]_procVars
  BY <1>1, GatewayStepRefines
<1>3. IInv'
  BY <1>2, NextType, NextIntegrity DEF Lower, IInv
<1>4. GatewayShape'
  BY <1>1, GatewayNextShape DEF Lower
<1>5. Truthful' /\ ReceiptTrue' /\ NeverMismatched'
  BY <1>1, TruthfulStep, AnswerStep DEF Lower
<1>6. KeepsDecisions
  BY <1>2, NextKeeps DEF Lower
<1>7. QED
  BY <1>3, <1>4, <1>5, <1>6 DEF Lower

LEMMA ClockStep ==
  ASSUME Clock, [Next]_procVars
  PROVE  Clock'
<1>1. CASE Tick
  BY <1>1, TimeAssumption DEF Tick, Clock
<1>2. CASE now' = now
  BY <1>2 DEF Clock
<1>3. QED
  BY <1>1, <1>2 DEF Next, Process, ChangeDirectory, SwitchProcessor, procVars

-----------------------------------------------------------------------------
(* What Law Shield holds was signed *)

(* A transaction creates no record but for the envelope it decides. *)
LEMMA DeliveryCreates ==
  ASSUME TypeOK, NEW e \in Requests, NEW n \in Nonces, Deliver(e, n)
  PROVE  \A t \in Transfers : transfers[t] = None /\ transfers'[t] /= None =>
            /\ t = e.transfer
            /\ transfers'[t].key = e.key
            /\ transfers'[t].payload = e.payload
            /\ transfers'[t].authorizer = e.authorizer
<1> USE EnvelopeIds
<1>1. CASE UNCHANGED transfers
  BY <1>1
<1>2. CASE \E s : transfers' = Created(e.transfer, e, s)
  BY <1>2 DEF Created, TypeOK, DurableIds
<1>3. CASE \E s : transfers' = Created(ConflictId(e.transfer), e, s)
  <2>1. \A t \in Transfers : t /= ConflictId(e.transfer) /\ t \in DurableIds
    BY ConflictIdAssumption DEF DurableIds
  <2>2. QED
    BY <1>3, <2>1 DEF Created, TypeOK
<1>4. QED
  BY <1>1, <1>2, <1>3 DEF Deliver, Unavailable, RejectEnvelope, RejectReplay,
     FailTransaction, RolledBack, QuarantineConflict, CollapseDuplicate, RecordRefusal,
     Accept, registries

LEMMA SignedGrows ==
  ASSUME [GatewayNext]_laneVars
  PROVE  signed \subseteq signed'
<1>1. CASE \E e \in Requests, n \in Nonces, at \in Timestamps : Sign(e, n, at)
  BY <1>1 DEF Sign
<1>2. CASE GatewayStep \/ UNCHANGED laneVars
  BY <1>2 DEF GatewayStep, HandleRequest, RefuseRequest, RefuseReplay,
     RefuseUnconfigured, Forward, ProcessForward, ProcessOrphan, FetchFails, BodyLost,
     Respond, RestartGateway, GatewayTick, AdministerProcessor, laneVars, gatewayVars
<1>3. QED
  BY <1>1, <1>2 DEF GatewayNext

(* Only a delivery touches what the processor holds, and it answers ARMA    *)
(* nothing yet.                                                            *)
LEMMA OnlyDeliveriesDecide ==
  ASSUME TypeOK, GatewayTypeOK, [GatewayNext]_laneVars
  PROVE  \/ UNCHANGED <<transfers, receipts>>
         \/ /\ answer' = None
            /\ \E r \in signed : Deliver(r.env, r.nonce)
<1>1. CASE \E r \in signed : ProcessForward(r) \/ ProcessOrphan(r)
  BY <1>1 DEF ProcessForward, ProcessOrphan, DeliverTo
<1>2. CASE \E r \in signed : HandleRequest(r) /\ ~ProcessForward(r) /\ ~ProcessOrphan(r)
  BY <1>2 DEF HandleRequest, RefuseRequest, RefuseReplay, RefuseUnconfigured, Forward,
     FetchFails, procVars, registries
<1>3. CASE \E x \in results : BodyLost(x) \/ Respond(x)
  BY <1>3 DEF BodyLost, Respond, procVars, registries
<1>4. CASE RestartGateway \/ GatewayTick \/ AdministerProcessor
  BY <1>4 DEF RestartGateway, GatewayTick, AdministerProcessor, ChangeDirectory,
     SwitchProcessor, Tick, procVars, registries
<1>5. CASE \E e \in Requests, n \in Nonces, at \in Timestamps : Sign(e, n, at)
  BY <1>5 DEF Sign, procVars, registries
<1>6. CASE UNCHANGED laneVars
  BY <1>6 DEF laneVars, procVars, registries
<1>7. QED
  BY <1>1, <1>2, <1>3, <1>4, <1>5, <1>6 DEF GatewayNext, GatewayStep

LEMMA TakenStep ==
  ASSUME Lower, TakenFromSigned, [GatewayNext]_laneVars
  PROVE  TakenFromSigned'
<1>0. TypeOK /\ GatewayTypeOK
  BY DEF Lower, IInv, GatewayShape
<1>1. \A t \in Transfers : transfers[t] /= None => transfers'[t] = transfers[t]
  BY LowerStep DEF KeepsDecisions, DurableIds
<1>2. ASSUME NEW t \in Transfers, transfers[t] /= None
      PROVE  \E r \in signed' : /\ r.env.transfer = t
                                /\ r.env.key = transfers'[t].key
                                /\ r.env.payload = transfers'[t].payload
                                /\ r.env.authorizer = transfers'[t].authorizer
  BY <1>1, <1>2, SignedGrows DEF TakenFromSigned
<1>3. ASSUME NEW t \in Transfers, transfers[t] = None, transfers'[t] /= None
      PROVE  \E r \in signed' : /\ r.env.transfer = t
                                /\ r.env.key = transfers'[t].key
                                /\ r.env.payload = transfers'[t].payload
                                /\ r.env.authorizer = transfers'[t].authorizer
  <2>1. PICK r \in signed : Deliver(r.env, r.nonce)
    BY <1>0, <1>3, OnlyDeliveriesDecide
  <2>2. QED
    BY <1>0, <1>3, <2>1, SignedParts, DeliveryCreates, SignedGrows
<1>4. QED
  BY <1>2, <1>3 DEF TakenFromSigned

-----------------------------------------------------------------------------
(* How ARMA's records change *)

(* The step leaves the records of the other transfers alone. *)
Only(t) ==
    \A d \in Transfers \ {t} :
        /\ outbound'[d] = outbound[d]
        /\ authorizations'[d] = authorizations[d]
        /\ reconciliation'[d] = reconciliation[d]

(* The step gives t a status of st, and neither key nor payload change.    *)
Moves(t, st) ==
    /\ outbound[t] /= None
    /\ outbound' \in [Transfers -> OutboundRecord \cup {None}]
    /\ outbound'[t] /= None
    /\ outbound'[t].status \in st
    /\ outbound'[t].key = outbound[t].key
    /\ outbound'[t].payload = outbound[t].payload
    /\ \A d \in Transfers \ {t} : outbound'[d] = outbound[d]

Same(t) == outbound'[t].authorizer = outbound[t].authorizer /\ outbound'[t].dest = outbound[t].dest

LEMMA RecordParts ==
  ASSUME LaneTypeOK, NEW t \in Transfers, outbound[t] /= None
  PROVE  outbound[t] \in OutboundRecord
BY DEF LaneTypeOK

(* Storing a record under t that keeps what the record of t says. *)
LEMMA StoreMoves ==
  ASSUME LaneTypeOK, NEW t \in Transfers, outbound[t] /= None,
         NEW rec \in OutboundRecord, outbound' = [outbound EXCEPT ![t] = rec],
         rec.key = outbound[t].key, rec.payload = outbound[t].payload
  PROVE  Moves(t, {rec.status}) /\ outbound'[t] = rec
BY LaneNoneAssumption DEF Moves, LaneTypeOK

LEMMA StatusMoves ==
  ASSUME LaneTypeOK, NEW t \in Transfers, outbound[t] /= None, NEW s \in Status,
         outbound' = [outbound EXCEPT ![t].status = s]
  PROVE  Moves(t, {s}) /\ Same(t)
<1> DEFINE rec == [outbound[t] EXCEPT !.status = s]
<1>1. outbound[t] \in OutboundRecord
  BY RecordParts
<1>2. rec \in OutboundRecord
  BY <1>1 DEF OutboundRecord
<1>3. /\ rec.status = s
      /\ rec.key = outbound[t].key
      /\ rec.payload = outbound[t].payload
      /\ rec.authorizer = outbound[t].authorizer
      /\ rec.dest = outbound[t].dest
  BY <1>1 DEF OutboundRecord
<1>4. outbound' = [outbound EXCEPT ![t] = rec]
  OBVIOUS
<1> HIDE DEF rec
<1>5. QED
  BY <1>2, <1>3, <1>4, StoreMoves DEF Same

LEMMA CauseMoves ==
  ASSUME LaneTypeOK, NEW t \in Transfers, outbound[t] /= None, NEW s \in Status,
         NEW c \in {"PERIMETER", "OTHER"},
         outbound' = [outbound EXCEPT ![t].status = s, ![t].cause = c]
  PROVE  Moves(t, {s}) /\ Same(t)
<1> DEFINE rec == [outbound[t] EXCEPT !.status = s, !.cause = c]
<1>1. outbound[t] \in OutboundRecord
  BY RecordParts
<1>2. rec \in OutboundRecord
  BY <1>1 DEF OutboundRecord
<1>3. /\ rec.status = s
      /\ rec.key = outbound[t].key
      /\ rec.payload = outbound[t].payload
      /\ rec.authorizer = outbound[t].authorizer
      /\ rec.dest = outbound[t].dest
  BY <1>1 DEF OutboundRecord
<1>4. outbound' = [outbound EXCEPT ![t] = rec]
  BY DEF LaneTypeOK
<1> HIDE DEF rec
<1>5. QED
  BY <1>2, <1>3, <1>4, StoreMoves DEF Same

LEMMA PatchMoves ==
  ASSUME LaneTypeOK, NEW t \in Transfers, outbound[t] /= None, NEW s \in Status,
         NEW c \in {"PERIMETER", "OTHER"}, NEW n \in Nat,
         outbound' = Patched(t, s, c, n)
  PROVE  Moves(t, {s}) /\ Same(t)
<1> DEFINE rec == [outbound[t] EXCEPT !.status = s, !.cause = c, !.retries = n]
<1>1. outbound[t] \in OutboundRecord
  BY RecordParts
<1>2. rec \in OutboundRecord
  BY <1>1 DEF OutboundRecord
<1>3. /\ rec.status = s
      /\ rec.key = outbound[t].key
      /\ rec.payload = outbound[t].payload
      /\ rec.authorizer = outbound[t].authorizer
      /\ rec.dest = outbound[t].dest
  BY <1>1 DEF OutboundRecord
<1>4. outbound' = [outbound EXCEPT ![t] = rec]
  BY DEF Patched, LaneTypeOK
<1> HIDE DEF rec
<1>5. QED
  BY <1>2, <1>3, <1>4, StoreMoves DEF Same

-----------------------------------------------------------------------------
(* What keeps ARMA's part of the invariant *)

(* A step that stores nothing about any transfer. *)
LEMMA UpperIdle ==
  ASSUME Upper, UNCHANGED <<outbound, authorizations, reconciliation, signed>>,
         sending' \subseteq sending
  PROVE  Upper'
<1>1. RecordsSound'
  BY DEF Upper, RecordsSound, HasStatus
<1>2. SignedFromRecord'
  BY DEF Upper, SignedFromRecord, Matches
<1>3. SendsAlone'
  BY DEF Upper, SendsAlone, HasStatus
<1>4. ReconciledStays' /\ AmbiguityRecorded'
  BY DEF Upper, ReconciledStays, AmbiguityRecorded, HasStatus
<1>5. QED
  BY <1>1, <1>2, <1>3, <1>4 DEF Upper

(* A step that moves transfer t to status st: the conditions under which   *)
(* the collections still agree.                                            *)
MoveSound(t, st) ==
    /\ Moves(t, {st})
    /\ Only(t)
    /\ st /= "DRAFT"
    /\ st \in Authorised => authorizations'[t] /= None
    /\ st \in Addressed => outbound'[t].dest /= None
    /\ authorizations[t] /= None => authorizations'[t] = authorizations[t]
    /\ authorizations'[t] /= None =>
          /\ outbound'[t].authorizer = authorizations'[t]
          /\ Identities[authorizations'[t]].human
    /\ reconciliation'[t] /= None => st \in {"RECONCILIATION_REQUIRED", "REJECTED"}
    /\ st = "RECONCILIATION_REQUIRED" => reconciliation'[t] /= None

SendsSound(t, st) ==
    /\ \A r \in signed' \ signed : r.env.transfer = t /\ Matches(r.env)'
    /\ \A s \in sending' : s.req.env.transfer /= t => s \in sending
    /\ \A s \in sending' : s.req.env.transfer = t => st = "SENT"
    /\ \A s, z \in sending' :
          s.req.env.transfer = t /\ z.req.env.transfer = t => s = z

LEMMA UpperMove ==
  ASSUME GatewayTypeOK, LaneTypeOK, Upper, NEW t \in Transfers, NEW st,
         MoveSound(t, st), SendsSound(t, st),
         \A s \in sending' : s.req.env.transfer \in Transfers
  PROVE  Upper'
<1>0. outbound'[t] /= None /\ outbound'[t].status = st
  BY DEF MoveSound, Moves
<1>1. RecordsSound'
  <2> SUFFICES ASSUME NEW d \in Transfers
               PROVE  /\ HasStatus(d, Authorised)' => authorizations'[d] /= None
                      /\ authorizations'[d] /= None =>
                            /\ outbound'[d] /= None
                            /\ outbound'[d].status /= "DRAFT"
                            /\ outbound'[d].authorizer = authorizations'[d]
                            /\ Identities[authorizations'[d]].human
                      /\ HasStatus(d, Addressed)' => outbound'[d].dest /= None
    BY DEF RecordsSound
  <2>1. CASE d = t
    BY <1>0, <2>1 DEF MoveSound, HasStatus
  <2>2. CASE d /= t
    BY <2>2 DEF MoveSound, Only, HasStatus, Upper, RecordsSound
  <2>3. QED
    BY <2>1, <2>2
<1>2. SignedFromRecord'
  <2> SUFFICES ASSUME NEW r \in signed' PROVE Matches(r.env)'
    BY DEF SignedFromRecord
  <2>1. CASE r \notin signed
    BY <2>1 DEF SendsSound
  <2>2. CASE r \in signed
    <3>1. Matches(r.env) /\ r.env.transfer \in Transfers
      BY <2>2, SignedParts, EnvelopeIds DEF Upper, SignedFromRecord
    <3>2. CASE r.env.transfer = t
      <4>1. outbound[t].authorizer = authorizations[t]
        BY <3>1, <3>2 DEF Matches, Upper, RecordsSound
      <4>2. QED
        BY <3>1, <3>2, <4>1 DEF Matches, MoveSound, Moves
    <3>3. CASE r.env.transfer /= t
      BY <3>1, <3>3 DEF Matches, MoveSound, Only
    <3>4. QED
      BY <3>2, <3>3
  <2>3. QED
    BY <2>1, <2>2
<1>3. SendsAlone'
  <2>1. ASSUME NEW s \in sending' PROVE HasStatus(s.req.env.transfer, {"SENT"})'
    <3>1. CASE s.req.env.transfer = t
      BY <1>0, <2>1, <3>1 DEF SendsSound, HasStatus
    <3>2. CASE s.req.env.transfer /= t
      BY <2>1, <3>2 DEF SendsSound, Upper, SendsAlone, HasStatus, MoveSound, Only
    <3>3. QED
      BY <3>1, <3>2
  <2>2. \A s, z \in sending' : s.req.env.transfer = z.req.env.transfer => s = z
    BY DEF SendsSound, Upper, SendsAlone
  <2>3. QED
    BY <2>1, <2>2 DEF SendsAlone
<1>4. ReconciledStays' /\ AmbiguityRecorded'
  <2> SUFFICES ASSUME NEW d \in Transfers
               PROVE  /\ reconciliation'[d] /= None =>
                            HasStatus(d, {"RECONCILIATION_REQUIRED", "REJECTED"})'
                      /\ HasStatus(d, {"RECONCILIATION_REQUIRED"})' =>
                            reconciliation'[d] /= None
    BY DEF ReconciledStays, AmbiguityRecorded
  <2>1. CASE d = t
    BY <1>0, <2>1 DEF MoveSound, HasStatus
  <2>2. CASE d /= t
    BY <2>2 DEF MoveSound, Only, HasStatus, Upper, ReconciledStays, AmbiguityRecorded
  <2>3. QED
    BY <2>1, <2>2
<1>5. QED
  BY <1>1, <1>2, <1>3, <1>4 DEF Upper

(* What came back decides the status of a transfer that was SENT.          *)
LEMMA ConcludeMoves ==
  ASSUME LaneTypeOK, Upper, NEW s \in sending, NEW code, Conclude(s, code),
         s.req.env.transfer \in Transfers, UNCHANGED authorizations
  PROVE  \E st \in {"ACCEPTED", "RECONCILIATION_REQUIRED", "READY_TO_SEND", "REJECTED"} :
            /\ MoveSound(s.req.env.transfer, st)
            /\ st = "ACCEPTED" => code = "RECEIPT"
<1> DEFINE t == s.req.env.transfer
<1>1. /\ outbound[t] /= None
      /\ outbound[t].status = "SENT"
      /\ authorizations[t] /= None
      /\ outbound[t].dest /= None
      /\ outbound[t].authorizer = authorizations[t]
      /\ Identities[authorizations[t]].human
      /\ reconciliation[t] = None
  BY DEF Upper, SendsAlone, RecordsSound, ReconciledStays, HasStatus, Authorised, Addressed
<1>2. s.retries \in Nat /\ s.retries + 1 \in Nat
  BY DEF LaneTypeOK, Suspended
<1>3. reconciliation \in [Transfers -> {"OPEN", "RESOLVED", "QUARANTINED", None}]
  BY DEF LaneTypeOK
<1>4. ASSUME NEW st \in {"ACCEPTED", "RECONCILIATION_REQUIRED", "READY_TO_SEND", "REJECTED"},
             Moves(t, {st}), Same(t),
             IF st = "RECONCILIATION_REQUIRED" THEN OpenReconciliation(t)
             ELSE UNCHANGED reconciliation
      PROVE  MoveSound(t, st)
  <2>1. Only(t)
    BY <1>3, <1>4 DEF Only, Moves, OpenReconciliation
  <2>2. st = "RECONCILIATION_REQUIRED" => reconciliation'[t] /= None
    BY <1>3, <1>4, LaneNoneAssumption DEF OpenReconciliation
  <2>3. st /= "RECONCILIATION_REQUIRED" => reconciliation'[t] = None
    BY <1>1, <1>4
  <2>4. QED
    BY <1>1, <1>4, <2>1, <2>2, <2>3 DEF MoveSound, Same
<1>5. CASE code = "RECEIPT" /\ Accepted200(s)
  BY <1>1, <1>4, <1>5, StatusMoves DEF Accepted200, Status
<1>6. CASE Ambiguous(s)
  BY <1>1, <1>2, <1>4, <1>6, PatchMoves DEF Ambiguous, Status
<1>7. CASE RetryOrGiveUp(s)
  <2>1. CASE s.retries >= MaxRetries
    BY <1>1, <1>4, <1>7, <2>1, CauseMoves DEF RetryOrGiveUp, Status
  <2>2. CASE ~(s.retries >= MaxRetries)
    BY <1>1, <1>2, <1>4, <1>7, <2>2, PatchMoves DEF RetryOrGiveUp, Status
  <2>3. QED
    BY <2>1, <2>2
<1>8. CASE Refuse(s)
  BY <1>1, <1>4, <1>8, CauseMoves DEF Refuse, Status
<1>9. QED
  BY <1>5, <1>6, <1>7, <1>8 DEF Conclude

-----------------------------------------------------------------------------
(* What every step of the lane does to ARMA's part *)

(* A transfer becomes ACCEPTED from SENT, when an answer arrives and only  *)
(* if Law Shield took it; it then stays ACCEPTED.                          *)
Confirmable(t) == HasStatus(t, {"SENT"}) /\ receipts'[t] /= None /\ answer' /= None

Confirms ==
    \A t \in Transfers :
        /\ HasStatus(t, {"ACCEPTED"})' => HasStatus(t, {"ACCEPTED"}) \/ Confirmable(t)
        /\ HasStatus(t, {"ACCEPTED"}) => HasStatus(t, {"ACCEPTED"})'

(* The records of one transfer at most change. *)
TouchesOne ==
    \/ UNCHANGED <<outbound, authorizations, reconciliation>>
    \/ \E t \in Transfers : Only(t)

(* The content a human authorised never changes. *)
ContentKept ==
    \A t \in Transfers : authorizations[t] /= None =>
        /\ authorizations'[t] = authorizations[t]
        /\ Content(outbound'[t]) = Content(outbound[t])

(* A human authorises one draft, and nothing else happens. *)
AuthorizesOne ==
    \E t \in Transfers :
        /\ authorizations[t] = None
        /\ authorizations'[t] /= None
        /\ Only(t)
        /\ UNCHANGED laneVars

GoodStep ==
    /\ LaneTypeOK'
    /\ Upper'
    /\ Confirms
    /\ NoBlindResend
    /\ ContentKept
    /\ TouchesOne
    /\ UNCHANGED authorizations \/ AuthorizesOne

LEMMA IdleGood ==
  ASSUME Upper, LaneTypeOK',
         UNCHANGED <<outbound, authorizations, reconciliation, signed>>,
         sending' \subseteq sending
  PROVE  GoodStep
BY UpperIdle DEF GoodStep, Confirms, HasStatus, NoBlindResend, ContentKept, TouchesOne

LEMMA SuspendedParts ==
  ASSUME GatewayTypeOK, LaneTypeOK, NEW s \in sending
  PROVE  /\ s.req \in signed
         /\ s.req.env \in Requests
         /\ s.req.env.transfer \in Transfers
BY SignedParts, EnvelopeIds DEF LaneTypeOK

LEMMA MoveGood ==
  ASSUME GatewayTypeOK, LaneTypeOK, Upper, NEW t \in Transfers, NEW st,
         MoveSound(t, st), SendsSound(t, st), LaneTypeOK',
         sending' \subseteq sending, UNCHANGED <<authorizations, signed>>,
         ~HasStatus(t, {"ACCEPTED"}),
         st = "ACCEPTED" => Confirmable(t)
  PROVE  GoodStep
<1>1. Upper'
  BY UpperMove, SuspendedParts
<1>2. Confirms
  <2> SUFFICES ASSUME NEW d \in Transfers
               PROVE  /\ HasStatus(d, {"ACCEPTED"})' =>
                            HasStatus(d, {"ACCEPTED"}) \/ Confirmable(d)
                      /\ HasStatus(d, {"ACCEPTED"}) => HasStatus(d, {"ACCEPTED"})'
    BY DEF Confirms
  <2>1. CASE d = t
    BY <2>1 DEF HasStatus, MoveSound, Moves
  <2>2. CASE d /= t
    BY <2>2 DEF HasStatus, MoveSound, Only
  <2>3. QED
    BY <2>1, <2>2
<1>3. ContentKept
  <2> SUFFICES ASSUME NEW d \in Transfers, authorizations[d] /= None
               PROVE  Content(outbound'[d]) = Content(outbound[d])
    BY DEF ContentKept
  <2>1. CASE d = t
    <3>1. outbound[t].authorizer = authorizations[t]
      BY <2>1 DEF Upper, RecordsSound
    <3>2. QED
      BY <2>1, <3>1 DEF MoveSound, Moves, Content
  <2>2. CASE d /= t
    BY <2>2 DEF MoveSound, Only
  <2>3. QED
    BY <2>1, <2>2
<1>4. TouchesOne
  BY DEF MoveSound, TouchesOne
<1>5. QED
  BY <1>1, <1>2, <1>3, <1>4 DEF GoodStep, NoBlindResend

(* The fields no step but its own touches. *)
LEMMA TypeFrame ==
  ASSUME LaneTypeOK, signed \subseteq signed',
         UNCHANGED <<outboundDisabled, armaMappings, keysUsed>>,
         outbound' \in [Transfers -> OutboundRecord \cup {None}],
         authorizations' \in [Transfers -> Users \cup {None}],
         reconciliation' \in [Transfers -> {"OPEN", "RESOLVED", "QUARANTINED", None}],
         sending' \subseteq sending, outgoing' \subseteq outgoing
  PROVE  LaneTypeOK'
<1>1. /\ outboundDisabled' \in BOOLEAN
      /\ armaOrgMappings' \in [ArmaOrgs -> Mapping \cup {None}]
      /\ armaCaseMappings' \in [ArmaOrgs \X Incidents -> CaseMapping \cup {None}]
      /\ keysUsed' \subseteq Keys
  BY Zenon DEF LaneTypeOK
<1>2. /\ sending' \subseteq Suspended
      /\ \A s \in sending' : s.req \in signed'
      /\ outgoing' \subseteq signed'
  BY DEF LaneTypeOK
<1>3. QED
  BY <1>1, <1>2 DEF LaneTypeOK

-----------------------------------------------------------------------------
(* From the draft to READY_TO_SEND *)

(* Nothing refers to a transfer that has no record yet. *)
LEMMA FreshId ==
  ASSUME GatewayTypeOK, LaneTypeOK, Upper, NEW t \in Transfers, outbound[t] = None
  PROVE  /\ authorizations[t] = None
         /\ reconciliation[t] = None
         /\ \A r \in signed : r.env.transfer /= t
         /\ \A s \in sending : s.req.env.transfer /= t
<1>1. authorizations[t] = None /\ reconciliation[t] = None
  BY DEF Upper, RecordsSound, ReconciledStays, HasStatus
<1>2. QED
  BY <1>1 DEF Upper, SignedFromRecord, Matches, SendsAlone, HasStatus

LEMMA CreateDraftGood ==
  ASSUME GatewayTypeOK, LaneTypeOK, Upper, ~ReuseIds, NEW d \in Drafts, CreateDraft(d)
  PROVE  GoodStep
<1> DEFINE t == d.transfer
           rec == [key |-> d.key, payload |-> d.payload, org |-> d.org,
                   incident |-> d.incident, dest |-> d.dest, case |-> None,
                   authorizer |-> None, status |-> "DRAFT", retries |-> 0,
                   cause |-> "OTHER"]
<1>1. /\ t \in Transfers
      /\ d.key \in Keys
      /\ rec \in OutboundRecord
  BY DraftAssumption DEF Draft, OutboundRecord, Status
<1>2. /\ outbound[t] = None
      /\ outbound' = [outbound EXCEPT ![t] = rec]
      /\ keysUsed' = keysUsed \cup {d.key}
      /\ UNCHANGED <<signed, outboundDisabled, armaMappings, authorizations,
                     reconciliation, sending, outgoing>>
  BY DEF CreateDraft, laneVars, gatewayVars
<1>3. rec.status = "DRAFT"
  OBVIOUS
<1> HIDE DEF rec
<1>4. outbound'[t] = rec /\ \A c \in Transfers \ {t} : outbound'[c] = outbound[c]
  BY <1>1, <1>2 DEF LaneTypeOK
<1>5. LaneTypeOK'
  <2>1. outbound' \in [Transfers -> OutboundRecord \cup {None}]
    BY <1>1, <1>2 DEF LaneTypeOK
  <2>2. keysUsed' \subseteq Keys
    BY <1>1, <1>2 DEF LaneTypeOK
  <2>3. /\ outboundDisabled' \in BOOLEAN
        /\ armaOrgMappings' \in [ArmaOrgs -> Mapping \cup {None}]
        /\ armaCaseMappings' \in [ArmaOrgs \X Incidents -> CaseMapping \cup {None}]
        /\ authorizations' \in [Transfers -> Users \cup {None}]
        /\ reconciliation' \in [Transfers -> {"OPEN", "RESOLVED", "QUARANTINED", None}]
    BY <1>2, Zenon DEF LaneTypeOK
  <2>4. /\ sending' \subseteq Suspended
        /\ \A s \in sending' : s.req \in signed'
        /\ outgoing' \subseteq signed'
    BY <1>2 DEF LaneTypeOK
  <2>5. QED
    BY <2>1, <2>2, <2>3, <2>4 DEF LaneTypeOK
<1>6. /\ authorizations[t] = None
      /\ reconciliation[t] = None
      /\ \A r \in signed : r.env.transfer /= t
      /\ \A s \in sending : s.req.env.transfer /= t
  BY <1>1, <1>2, FreshId
<1>7. Upper'
  <2>1. RecordsSound'
    <3> SUFFICES ASSUME NEW c \in Transfers
                 PROVE  /\ HasStatus(c, Authorised)' => authorizations'[c] /= None
                        /\ authorizations'[c] /= None =>
                              /\ outbound'[c] /= None
                              /\ outbound'[c].status /= "DRAFT"
                              /\ outbound'[c].authorizer = authorizations'[c]
                              /\ Identities[authorizations'[c]].human
                        /\ HasStatus(c, Addressed)' => outbound'[c].dest /= None
      BY DEF RecordsSound
    <3>1. CASE c = t
      BY <1>2, <1>3, <1>4, <1>6, <3>1 DEF HasStatus, Authorised, Addressed
    <3>2. CASE c /= t
      BY <1>2, <1>4, <3>2 DEF HasStatus, Upper, RecordsSound
    <3>3. QED
      BY <3>1, <3>2
  <2>2. SignedFromRecord'
    <3>1. \A r \in signed : r.env.transfer \in Transfers \ {t}
      BY <1>6, SignedParts, EnvelopeIds
    <3>2. QED
      BY <1>2, <1>4, <3>1 DEF Upper, SignedFromRecord, Matches
  <2>3. SendsAlone'
    <3>1. \A s \in sending : s.req.env.transfer \in Transfers \ {t}
      BY <1>6, SuspendedParts
    <3>2. QED
      BY <1>2, <1>4, <3>1 DEF Upper, SendsAlone, HasStatus
  <2>4. ReconciledStays' /\ AmbiguityRecorded'
    BY <1>2, <1>3, <1>4, <1>6 DEF Upper, ReconciledStays, AmbiguityRecorded, HasStatus
  <2>5. QED
    BY <2>1, <2>2, <2>3, <2>4 DEF Upper
<1>8. Confirms
  BY <1>2, <1>3, <1>4 DEF Confirms, HasStatus
<1>9. ContentKept /\ TouchesOne
  BY <1>1, <1>2, <1>4, <1>6 DEF ContentKept, TouchesOne, Only
<1>10. QED
  BY <1>2, <1>5, <1>7, <1>8, <1>9 DEF GoodStep, NoBlindResend

LEMMA AuthorizeGood ==
  ASSUME GatewayTypeOK, LaneTypeOK, Upper, NEW t \in Transfers, NEW u \in Users,
         Authorize(t, u)
  PROVE  GoodStep
<1> DEFINE rec == [outbound[t] EXCEPT !.status = "AUTHORIZED", !.authorizer = u]
<1>1. /\ outbound[t] \in OutboundRecord
      /\ outbound[t].status = "DRAFT"
      /\ Identities[u].human
      /\ UNCHANGED <<laneVars, signed, outboundDisabled, armaMappings, keysUsed,
                     reconciliation, sending, outgoing>>
  BY RecordParts DEF Authorize, HasStatus, MayAuthorize, laneVars, gatewayVars
<1>2. rec \in OutboundRecord
  BY <1>1 DEF OutboundRecord, Status
<1>3. /\ rec.status = "AUTHORIZED"
      /\ rec.authorizer = u
      /\ rec.key = outbound[t].key
      /\ rec.payload = outbound[t].payload
  BY <1>1 DEF OutboundRecord
<1>4. outbound' = [outbound EXCEPT ![t] = rec]
  BY DEF Authorize, LaneTypeOK
<1>5. outbound[t] /= None
  BY DEF Authorize, HasStatus
<1> HIDE DEF rec
<1>6. Moves(t, {"AUTHORIZED"}) /\ outbound'[t] = rec
  BY <1>2, <1>3, <1>4, <1>5, StoreMoves
<1>7. /\ authorizations' = [authorizations EXCEPT ![t] = u]
      /\ authorizations'[t] = u
      /\ u /= None
  BY LaneNoneAssumption DEF Authorize, LaneTypeOK
<1>8. authorizations[t] = None /\ reconciliation[t] = None
  BY <1>1, <1>5 DEF Upper, RecordsSound, ReconciledStays, HasStatus
<1>9. Only(t)
  BY <1>1, <1>6, <1>7 DEF Only, Moves, LaneTypeOK
<1>10. MoveSound(t, "AUTHORIZED")
  BY <1>1, <1>3, <1>6, <1>7, <1>8, <1>9 DEF MoveSound, Addressed
<1>11. SendsSound(t, "AUTHORIZED")
  <2>1. \A s \in sending : s.req.env.transfer /= t
    BY <1>1 DEF Upper, SendsAlone, HasStatus
  <2>2. QED
    BY <1>1, <2>1 DEF SendsSound
<1>12. Upper'
  BY <1>1, <1>10, <1>11, UpperMove, SuspendedParts
<1>13. LaneTypeOK'
  <2>1. outbound' \in [Transfers -> OutboundRecord \cup {None}]
    BY <1>6 DEF Moves
  <2>2. authorizations' \in [Transfers -> Users \cup {None}]
    BY <1>7 DEF LaneTypeOK
  <2>3. reconciliation' \in [Transfers -> {"OPEN", "RESOLVED", "QUARANTINED", None}]
    BY <1>1 DEF LaneTypeOK
  <2>4. QED
    BY <1>1, <2>1, <2>2, <2>3, TypeFrame
<1>14. Confirms /\ TouchesOne
  BY <1>1, <1>3, <1>6, <1>9 DEF Confirms, HasStatus, Only, TouchesOne
<1>15. ContentKept
  BY <1>8, <1>9 DEF ContentKept, Only
<1>16. AuthorizesOne
  BY <1>1, <1>7, <1>8, <1>9 DEF AuthorizesOne
<1>17. QED
  BY <1>1, <1>12, <1>13, <1>14, <1>15, <1>16 DEF GoodStep, NoBlindResend

(* A step by which a human or an operator moves a transfer that is not     *)
(* under way.                                                              *)
LEMMA QuietMoveGood ==
  ASSUME GatewayTypeOK, LaneTypeOK, Upper, NEW t \in Transfers, NEW st,
         Moves(t, {st}), outbound'[t].authorizer = outbound[t].authorizer,
         st \in Addressed => outbound'[t].dest /= None,
         st \in Authorised => authorizations[t] /= None,
         st \notin {"DRAFT", "ACCEPTED", "RECONCILIATION_REQUIRED"},
         st = "REJECTED" \/ reconciliation[t] = None,
         ~HasStatus(t, {"SENT"}), ~HasStatus(t, {"ACCEPTED"}),
         UNCHANGED <<signed, outboundDisabled, armaMappings, keysUsed, authorizations,
                     reconciliation, sending, outgoing>>
  PROVE  GoodStep
<1>1. MoveSound(t, st)
  BY DEF MoveSound, Only, Moves, Upper, RecordsSound
<1>2. SendsSound(t, st)
  <2>1. \A s \in sending : s.req.env.transfer /= t
    BY DEF Upper, SendsAlone, HasStatus
  <2>2. QED
    BY <2>1 DEF SendsSound
<1>3. LaneTypeOK'
  BY TypeFrame DEF Moves, LaneTypeOK
<1>4. QED
  BY <1>1, <1>2, <1>3, MoveGood

LEMMA ReadyGood ==
  ASSUME GatewayTypeOK, LaneTypeOK, Upper, NEW t \in Transfers,
         NEW d \in LawShieldOrgs, NEW c \in Cases \cup {None}, Ready(t, d, c)
  PROVE  GoodStep
<1> DEFINE rec == [outbound[t] EXCEPT !.status = "READY_TO_SEND", !.dest = d, !.case = c]
<1>1. /\ outbound[t] \in OutboundRecord
      /\ outbound[t] /= None
      /\ outbound[t].status = "AUTHORIZED"
      /\ UNCHANGED <<signed, outboundDisabled, armaMappings, keysUsed, authorizations,
                     reconciliation, sending, outgoing>>
  BY RecordParts DEF Ready, HasStatus, laneVars, gatewayVars
<1>2. rec \in OutboundRecord
  BY <1>1 DEF OutboundRecord, Status
<1>3. /\ rec.status = "READY_TO_SEND"
      /\ rec.dest = d
      /\ rec.authorizer = outbound[t].authorizer
      /\ rec.key = outbound[t].key
      /\ rec.payload = outbound[t].payload
  BY <1>1 DEF OutboundRecord
<1>4. outbound' = [outbound EXCEPT ![t] = rec]
  BY DEF Ready, LaneTypeOK
<1> HIDE DEF rec
<1>5. Moves(t, {"READY_TO_SEND"}) /\ outbound'[t] = rec
  BY <1>1, <1>2, <1>3, <1>4, StoreMoves
<1>6. d /= None
  BY LaneNoneAssumption
<1>7. /\ authorizations[t] /= None
      /\ reconciliation[t] = None
      /\ ~HasStatus(t, {"SENT"}) /\ ~HasStatus(t, {"ACCEPTED"})
  BY <1>1 DEF Upper, RecordsSound, ReconciledStays, HasStatus, Authorised
<1>8. QED
  BY <1>1, <1>3, <1>5, <1>6, <1>7, QuietMoveGood

LEMMA RejectGood ==
  ASSUME GatewayTypeOK, LaneTypeOK, Upper, NEW t \in Transfers, NEW u \in Users,
         Reject(t, u)
  PROVE  GoodStep
<1>1. /\ outbound[t] /= None
      /\ outbound[t].status /= "SENT" /\ outbound[t].status /= "ACCEPTED"
      /\ UNCHANGED <<signed, outboundDisabled, armaMappings, keysUsed, authorizations,
                     reconciliation, sending, outgoing>>
  BY DEF Reject, HasStatus, Rejectable, laneVars, gatewayVars
<1>2. Moves(t, {"REJECTED"}) /\ Same(t)
  BY <1>1, CauseMoves DEF Reject, Status
<1>3. "REJECTED" \notin Authorised \cup Addressed
  BY DEF Authorised, Addressed
<1>4. QED
  BY <1>1, <1>2, <1>3, QuietMoveGood DEF HasStatus, Same

LEMMA ResolveGood ==
  ASSUME LaneTypeOK, Upper, NEW t \in Transfers, NEW u \in Users,
         NEW o \in {"RESOLVED", "QUARANTINED"}, ResolveReconciliation(t, u, o)
  PROVE  GoodStep
<1>1. /\ UNCHANGED <<signed, outboundDisabled, armaMappings, outbound, keysUsed,
                     authorizations, sending, outgoing>>
      /\ reconciliation[t] /= None
      /\ reconciliation' = [reconciliation EXCEPT ![t] = o]
  BY LaneNoneAssumption DEF ResolveReconciliation, laneVars, gatewayVars
<1>2. reconciliation' \in [Transfers -> {"OPEN", "RESOLVED", "QUARANTINED", None}]
  BY <1>1 DEF LaneTypeOK
<1>3. \A d \in Transfers : reconciliation'[d] /= None <=> reconciliation[d] /= None
  BY <1>1, LaneNoneAssumption DEF LaneTypeOK
<1>4. LaneTypeOK'
  BY <1>1, <1>2, TypeFrame DEF LaneTypeOK
<1>5. RecordsSound' /\ SignedFromRecord' /\ SendsAlone'
  BY <1>1 DEF Upper, RecordsSound, SignedFromRecord, SendsAlone, Matches, HasStatus
<1>6. ReconciledStays' /\ AmbiguityRecorded'
  BY <1>1, <1>3 DEF Upper, ReconciledStays, AmbiguityRecorded, HasStatus
<1>7. Confirms /\ ContentKept /\ NoBlindResend /\ TouchesOne
  BY <1>1 DEF Confirms, ContentKept, NoBlindResend, HasStatus, TouchesOne, Only, LaneTypeOK
<1>8. QED
  BY <1>1, <1>4, <1>5, <1>6, <1>7 DEF GoodStep, Upper

-----------------------------------------------------------------------------
(* send *)

(* A send starts from a transfer that is under way nowhere else.           *)
LEMMA SendGood ==
  ASSUME TypeOK, GatewayTypeOK, GatewayTypeOK', Clock, LaneTypeOK, Upper,
         NEW t \in Transfers, NEW n \in Nonces, Send(t, n)
  PROVE  GoodStep
<1> DEFINE r == [env |-> EnvelopeOf(t), nonce |-> n, at |-> now]
           z == [req |-> r, retries |-> outbound[t].retries]
<1>1. /\ outbound[t] \in OutboundRecord
      /\ outbound[t] /= None
      /\ outbound[t].status = "READY_TO_SEND"
  BY RecordParts DEF Send, HasStatus, Sendable
<1>2. /\ signed' = signed \cup {r}
      /\ sending' = sending \cup {z}
      /\ outgoing' = outgoing \cup {r}
      /\ outbound' = [outbound EXCEPT ![t].status = "SENT"]
      /\ UNCHANGED <<outboundDisabled, armaMappings, keysUsed, authorizations,
                     reconciliation>>
  BY DEF Send, Sign
<1>3. /\ r.env.transfer = t
      /\ r.env.key = outbound[t].key
      /\ r.env.payload = outbound[t].payload
      /\ r.env.authorizer = outbound[t].authorizer
  BY DEF EnvelopeOf
<1>4. /\ authorizations[t] /= None
      /\ outbound[t].authorizer = authorizations[t]
      /\ Identities[authorizations[t]].human
      /\ outbound[t].dest /= None
      /\ reconciliation[t] = None
  BY <1>1 DEF Upper, RecordsSound, ReconciledStays, HasStatus, Authorised, Addressed
<1>5. \A s \in sending : s.req.env.transfer /= t
  BY <1>1 DEF Upper, SendsAlone, HasStatus
<1>6. z.req = r
  OBVIOUS
<1>7. z \in Suspended
  <2>1. r \in Signed
    BY <1>2 DEF GatewayTypeOK
  <2>2. outbound[t].retries \in Nat
    BY <1>1 DEF OutboundRecord
  <2>3. QED
    BY <2>1, <2>2 DEF Suspended
<1> HIDE DEF r, z
<1>8. Moves(t, {"SENT"}) /\ Same(t)
  BY <1>1, <1>2, StatusMoves DEF Status
<1>9. Only(t)
  BY <1>2, <1>8 DEF Only, Moves
<1>10. MoveSound(t, "SENT")
  BY <1>2, <1>4, <1>8, <1>9 DEF MoveSound, Same
<1>11. SendsSound(t, "SENT")
  <2>1. ASSUME NEW q \in signed' \ signed
        PROVE  q.env.transfer = t /\ Matches(q.env)'
    <3>1. q = r
      BY <1>2
    <3>2. QED
      BY <1>2, <1>3, <1>4, <1>8, <3>1 DEF Matches, Moves, Same
  <2>2. QED
    BY <1>2, <1>3, <1>5, <1>6, <2>1 DEF SendsSound
<1>12. \A s \in sending' : s.req.env.transfer \in Transfers
  BY <1>2, <1>3, <1>6, SuspendedParts
<1>13. Upper'
  BY <1>10, <1>11, <1>12, UpperMove
<1>14. LaneTypeOK'
  <2>1. outbound' \in [Transfers -> OutboundRecord \cup {None}]
    BY <1>8 DEF Moves
  <2>2. /\ outboundDisabled' \in BOOLEAN
        /\ armaOrgMappings' \in [ArmaOrgs -> Mapping \cup {None}]
        /\ armaCaseMappings' \in [ArmaOrgs \X Incidents -> CaseMapping \cup {None}]
        /\ keysUsed' \subseteq Keys
        /\ authorizations' \in [Transfers -> Users \cup {None}]
        /\ reconciliation' \in [Transfers -> {"OPEN", "RESOLVED", "QUARANTINED", None}]
    BY <1>2, Zenon DEF LaneTypeOK
  <2>3. /\ sending' \subseteq Suspended
        /\ \A s \in sending' : s.req \in signed'
        /\ outgoing' \subseteq signed'
    BY <1>2, <1>6, <1>7 DEF LaneTypeOK
  <2>4. QED
    BY <2>1, <2>2, <2>3 DEF LaneTypeOK
<1>15. Confirms /\ TouchesOne
  BY <1>1, <1>8, <1>9 DEF Confirms, HasStatus, Moves, TouchesOne
<1>16. ContentKept
  BY <1>2, <1>8 DEF ContentKept, Content, Moves, Same
<1>17. NoBlindResend
  BY <1>1, <1>2, <1>3, <1>4, <1>5 DEF NoBlindResend
<1>18. QED
  BY <1>2, <1>13, <1>14, <1>15, <1>16, <1>17 DEF GoodStep

(* Exactly one send resumes, with whatever came back to it.                *)
LEMMA ResumeGood ==
  ASSUME GatewayTypeOK, LaneTypeOK, Upper, signed' = signed,
         NEW s \in sending, NEW code, Conclude(s, code),
         code = "RECEIPT" => receipts'[s.req.env.transfer] /= None /\ answer' /= None,
         sending' \subseteq sending, s \notin sending', outgoing' \subseteq outgoing,
         UNCHANGED <<outboundDisabled, armaMappings, keysUsed, authorizations>>
  PROVE  GoodStep
<1> DEFINE t == s.req.env.transfer
<1>1. t \in Transfers
  BY SuspendedParts
<1>2. PICK st \in {"ACCEPTED", "RECONCILIATION_REQUIRED", "READY_TO_SEND", "REJECTED"} :
         MoveSound(t, st) /\ (st = "ACCEPTED" => code = "RECEIPT")
  BY <1>1, ConcludeMoves
<1>3. HasStatus(t, {"SENT"}) /\ ~HasStatus(t, {"ACCEPTED"})
  BY DEF Upper, SendsAlone, HasStatus
<1>4. SendsSound(t, st)
  BY DEF SendsSound, Upper, SendsAlone
<1>5. LaneTypeOK'
  <2>1. outbound' \in [Transfers -> OutboundRecord \cup {None}]
    BY <1>2 DEF MoveSound, Moves
  <2>2. reconciliation' \in [Transfers -> {"OPEN", "RESOLVED", "QUARANTINED", None}]
    BY <1>1 DEF LaneTypeOK, Conclude, Accepted200, Ambiguous, RetryOrGiveUp, Refuse,
       OpenReconciliation
  <2>3. QED
    BY <2>1, <2>2, TypeFrame DEF LaneTypeOK
<1>6. QED
  BY <1>1, <1>2, <1>3, <1>4, <1>5, MoveGood DEF Confirmable

LEMMA SendThrowsGood ==
  ASSUME GatewayTypeOK, LaneTypeOK, Upper, NEW s \in sending, SendThrows(s)
  PROVE  GoodStep
<1>1. /\ sending' = sending \ {s}
      /\ outgoing' \subseteq outgoing
      /\ UNCHANGED <<signed, outboundDisabled, armaMappings, keysUsed, authorizations>>
  BY DEF SendThrows, laneVars, gatewayVars
<1>2. PICK code \in {"PROCESSOR_TIMEOUT", "PROCESSOR_UNAVAILABLE"} : Conclude(s, code)
  BY DEF SendThrows
<1>3. QED
  BY <1>1, <1>2, ResumeGood

(* An answer resumes the send that waits for it, if any does.              *)
LEMMA ConsumeGood ==
  ASSUME GatewayTypeOK, LaneTypeOK, Upper, ReceiptTrue', signed' = signed,
         Consume, outgoing' \subseteq outgoing
  PROVE  GoodStep
<1> DEFINE waiting == {s \in sending : answer' /= None /\ answer'.req = s.req}
<1>1. /\ sending' = sending \ waiting
      /\ UNCHANGED <<outboundDisabled, armaMappings, keysUsed, authorizations>>
  BY DEF Consume
<1>2. CASE waiting = {}
  <2>1. UNCHANGED <<outbound, reconciliation>>
    BY <1>2 DEF Consume
  <2>2. sending' \subseteq sending
    BY <1>1
  <2>3. LaneTypeOK'
    BY <1>1, <2>1, <2>2, TypeFrame DEF LaneTypeOK
  <2>4. QED
    BY <1>1, <2>1, <2>2, <2>3, IdleGood
<1>3. CASE waiting /= {}
  <2>1. PICK s \in waiting : Conclude(s, answer'.code)
    BY <1>3 DEF Consume
  <2>2. /\ answer' /= None
        /\ answer'.req = s.req
        /\ s \in sending
        /\ s \notin sending'
        /\ sending' \subseteq sending
    BY <1>1, <2>1
  <2>3. answer'.code = "RECEIPT" => receipts'[s.req.env.transfer] /= None
    BY <2>2 DEF ReceiptTrue
  <2>4. QED
    BY <1>1, <2>1, <2>2, <2>3, ResumeGood
<1>4. QED
  BY <1>2, <1>3

(* The gateway never signs; only send does. *)
LEMMA GatewayKeepsSigned ==
  ASSUME GatewayTypeOK, LaneTypeOK,
         GatewayWorks \/ \E r \in outgoing : GatewayReceives(r)
  PROVE  signed' = signed /\ Consume /\ outgoing' \subseteq outgoing
<1>1. CASE GatewayWorks
  BY <1>1 DEF GatewayWorks, ProcessForward, ProcessOrphan, FetchFails, BodyLost, Respond,
     RestartGateway, AdministerProcessor
<1>2. CASE \E r \in outgoing : GatewayReceives(r)
  BY <1>2 DEF GatewayReceives, RefuseRequest, RefuseReplay, RefuseUnconfigured, Forward
<1>3. QED
  BY <1>1, <1>2

-----------------------------------------------------------------------------
(* Everything else *)

LEMMA OperatorGood ==
  ASSUME LaneTypeOK, Upper,
         RestartArma \/ SwitchOutbound \/ AdministerArma \/ LaneTick \/ UNCHANGED vars
  PROVE  GoodStep
<1>1. /\ UNCHANGED <<outbound, authorizations, reconciliation, signed, keysUsed>>
      /\ sending' \subseteq sending
      /\ outgoing' \subseteq outgoing
  BY DEF RestartArma, SwitchOutbound, AdministerArma, LaneTick, GatewayTick, vars,
     laneVars, gatewayVars
<1>2. outboundDisabled' \in BOOLEAN
  <2>1. outboundDisabled \in BOOLEAN
    BY DEF LaneTypeOK
  <2>2. CASE SwitchOutbound
    BY <2>1, <2>2 DEF SwitchOutbound
  <2>3. CASE RestartArma \/ AdministerArma \/ LaneTick \/ UNCHANGED vars
    <3>1. outboundDisabled' = outboundDisabled
      BY <2>3 DEF RestartArma, AdministerArma, LaneTick, vars
    <3>2. QED
      BY <2>1, <3>1
  <2>4. QED
    BY <2>2, <2>3
<1>3. /\ armaOrgMappings' \in [ArmaOrgs -> Mapping \cup {None}]
      /\ armaCaseMappings' \in [ArmaOrgs \X Incidents -> CaseMapping \cup {None}]
  <2>1. CASE UNCHANGED armaMappings
    BY <2>1 DEF LaneTypeOK
  <2>2. ASSUME NEW o \in ArmaOrgs, NEW d \in LawShieldOrgs, MapArmaOrg(o, d)
        PROVE  <1>3!:
    <3>1. [org |-> d, active |-> TRUE] \in Mapping
      BY DEF Mapping
    <3>2. QED
      BY <2>2, <3>1 DEF MapArmaOrg, LaneTypeOK
  <2>3. ASSUME NEW o \in ArmaOrgs, UnmapArmaOrg(o)
        PROVE  <1>3!:
    <3>1. armaOrgMappings[o] \in Mapping
      BY <2>3 DEF UnmapArmaOrg, LaneTypeOK
    <3>2. [armaOrgMappings[o] EXCEPT !.active = FALSE] \in Mapping
      BY <3>1 DEF Mapping
    <3>3. armaOrgMappings' = [armaOrgMappings EXCEPT ![o] =
                                 [armaOrgMappings[o] EXCEPT !.active = FALSE]]
      BY <2>3 DEF UnmapArmaOrg
    <3>4. QED
      BY <2>3, <3>2, <3>3 DEF UnmapArmaOrg, LaneTypeOK
  <2>4. ASSUME NEW o \in ArmaOrgs, NEW i \in Incidents, NEW d \in LawShieldOrgs,
               NEW c \in Cases, MapArmaCase(o, i, d, c)
        PROVE  <1>3!:
    <3>1. [org |-> d, case |-> c, active |-> TRUE] \in CaseMapping
      BY DEF CaseMapping
    <3>2. QED
      BY <2>4, <3>1 DEF MapArmaCase, LaneTypeOK
  <2>5. QED
    BY <2>1, <2>2, <2>3, <2>4 DEF RestartArma, SwitchOutbound, AdministerArma, LaneTick, vars
<1>4. LaneTypeOK'
  <2>1. /\ outbound' \in [Transfers -> OutboundRecord \cup {None}]
        /\ keysUsed' \subseteq Keys
        /\ authorizations' \in [Transfers -> Users \cup {None}]
        /\ reconciliation' \in [Transfers -> {"OPEN", "RESOLVED", "QUARANTINED", None}]
    BY <1>1 DEF LaneTypeOK
  <2>2. /\ sending' \subseteq Suspended
        /\ \A s \in sending' : s.req \in signed'
        /\ outgoing' \subseteq signed'
    BY <1>1 DEF LaneTypeOK
  <2>3. QED
    BY <1>2, <1>3, <2>1, <2>2 DEF LaneTypeOK
<1>5. QED
  BY <1>1, <1>4, IdleGood

LEMMA EveryStepGood ==
  ASSUME LaneIInv, ~ReuseIds, [LaneNext]_vars
  PROVE  /\ [GatewayNext]_laneVars
         /\ Lower'
         /\ KeepsDecisions
         /\ GoodStep
<1>1. /\ TypeOK
      /\ GatewayTypeOK
      /\ Clock
      /\ LaneTypeOK
      /\ Upper
      /\ Lower
      /\ RecordsSound
  BY DEF LaneIInv, Lower, Upper, IInv, GatewayShape
<1>2. [GatewayNext]_laneVars
  BY <1>1, LaneStepRefines
<1>3. Lower' /\ KeepsDecisions
  BY <1>1, <1>2, LowerStep
<1>4. GatewayTypeOK' /\ ReceiptTrue'
  BY <1>3 DEF Lower, GatewayShape
<1>5. GoodStep
  <2>1. CASE \E d \in Drafts : CreateDraft(d)
    BY <1>1, <2>1, CreateDraftGood
  <2>2. CASE \E t \in Transfers, u \in Users :
                \/ Authorize(t, u)
                \/ Reject(t, u)
                \/ \E o \in {"RESOLVED", "QUARANTINED"} : ResolveReconciliation(t, u, o)
    BY <1>1, <2>2, AuthorizeGood, RejectGood, ResolveGood
  <2>3. CASE \E t \in Transfers, d \in LawShieldOrgs, c \in Cases \cup {None} : Ready(t, d, c)
    BY <1>1, <2>3, ReadyGood
  <2>4. CASE \E t \in Transfers, n \in Nonces : Send(t, n)
    BY <1>1, <1>4, <2>4, SendGood
  <2>5. CASE \E s \in sending : SendThrows(s)
    BY <1>1, <2>5, SendThrowsGood
  <2>6. CASE GatewayWorks \/ \E r \in outgoing : GatewayReceives(r)
    BY <1>1, <1>4, <2>6, GatewayKeepsSigned, ConsumeGood
  <2>7. CASE LaneTick \/ RestartArma \/ SwitchOutbound \/ AdministerArma \/ UNCHANGED vars
    BY <1>1, <2>7, OperatorGood
  <2>8. QED
    BY <2>1, <2>2, <2>3, <2>4, <2>5, <2>6, <2>7 DEF LaneNext
<1>6. QED
  BY <1>2, <1>3, <1>5

LEMMA LaneStep ==
  ASSUME LaneIInv, ~ReuseIds, [LaneNext]_vars
  PROVE  LaneIInv'
<1>1. /\ [GatewayNext]_laneVars
      /\ Lower'
      /\ KeepsDecisions
      /\ GoodStep
  BY EveryStepGood
<1>2. TypeOK /\ GatewayTypeOK
  BY DEF LaneIInv, Lower, IInv, GatewayShape
<1>3. Clock'
  BY <1>1, <1>2, GatewayStepRefines, ClockStep DEF LaneIInv
<1>4. TakenFromSigned'
  BY <1>1, TakenStep DEF LaneIInv
<1>5. AcceptedIsTaken'
  BY <1>1 DEF GoodStep, Confirms, Confirmable, LaneIInv, AcceptedIsTaken, KeepsDecisions
<1>6. QED
  BY <1>1, <1>3, <1>4, <1>5 DEF LaneIInv, GoodStep

LEMMA LaneStart == LaneInit => LaneIInv
<1> SUFFICES ASSUME LaneInit PROVE LaneIInv
  OBVIOUS
<1>1. GatewayInit /\ Init
  BY DEF LaneInit, GatewayInit
<1>2. Lower
  BY <1>1, InitType, InitIntegrity, GatewayInitShape, AnswerInit DEF Lower, IInv
<1>3. Clock
  BY <1>1, TimeAssumption DEF Init, Clock
<1>4. LaneTypeOK
  <2>1. outboundDisabled \in BOOLEAN
    BY Zenon DEF LaneInit
  <2>2. /\ armaOrgMappings \in [ArmaOrgs -> Mapping \cup {None}]
        /\ armaCaseMappings \in [ArmaOrgs \X Incidents -> CaseMapping \cup {None}]
    BY SeedAssumption DEF LaneInit, Directory
  <2>3. QED
    BY <2>1, <2>2 DEF LaneInit, LaneTypeOK
<1>5. \A t \in Transfers : outbound[t] = None /\ authorizations[t] = None /\ reconciliation[t] = None
  BY DEF LaneInit
<1>6. signed = {} /\ sending = {}
  BY <1>1 DEF LaneInit, GatewayInit
<1>7. Upper
  BY <1>5, <1>6 DEF Upper, RecordsSound, SignedFromRecord, SendsAlone, ReconciledStays,
     AmbiguityRecorded, HasStatus
<1>8. TakenFromSigned
  BY <1>1 DEF Init, TakenFromSigned, DurableIds
<1>9. AcceptedIsTaken
  BY <1>5 DEF AcceptedIsTaken, HasStatus
<1>10. QED
  BY <1>2, <1>3, <1>4, <1>7, <1>8, <1>9 DEF LaneIInv

(* Everything stored on either side agrees, at every moment. *)
THEOREM LaneInvariance == ~ReuseIds => (LaneSpec => []LaneIInv)
<1> SUFFICES ASSUME ~ReuseIds PROVE LaneSpec => []LaneIInv
  OBVIOUS
<1>1. LaneIInv /\ [LaneNext]_vars => LaneIInv'
  BY LaneStep
<1>2. QED
  BY <1>1, LaneStart, PTL DEF LaneSpec

-----------------------------------------------------------------------------
(* The theorems *)

(* Type correctness of ARMA's part of the lane. *)
THEOREM LaneTypeCorrect == ~ReuseIds => (LaneSpec => []LaneTypeOK)
<1>1. LaneIInv => LaneTypeOK
  BY DEF LaneIInv
<1>2. QED
  BY <1>1, LaneInvariance, PTL

(* transferService.js: a transfer waits in RECONCILIATION_REQUIRED only    *)
(* under a reconciliation record a human will find.                        *)
THEOREM AmbiguityNeverForgotten == ~ReuseIds => (LaneSpec => []AmbiguityRecorded)
<1>1. LaneIInv => AmbiguityRecorded
  BY DEF LaneIInv, Upper
<1>2. QED
  BY <1>1, LaneInvariance, PTL

(* "An accepted disclosure must never be duplicated": no send starts while *)
(* another of the transfer is out, or while its outcome is ambiguous and    *)
(* no human has resolved it.                                               *)
THEOREM NoBlindResending == ~ReuseIds => (LaneSpec => NeverResentBlindly)
<1> SUFFICES ASSUME ~ReuseIds PROVE LaneSpec => NeverResentBlindly
  OBVIOUS
<1>1. LaneIInv /\ [LaneNext]_vars => [NoBlindResend]_vars
  BY EveryStepGood DEF GoodStep
<1>2. QED
  BY <1>1, LaneInvariance, PTL DEF LaneSpec, NeverResentBlindly

(* The header of transferService.js: ACCEPTED is reached from SENT only.   *)
THEOREM StateMachineFollowed == ~ReuseIds => (LaneSpec => FollowsStateMachine)
<1> SUFFICES ASSUME ~ReuseIds PROVE LaneSpec => FollowsStateMachine
  OBVIOUS
<1>1. Confirms => AcceptsSentOnly
  BY DEF Confirms, Confirmable, AcceptsSentOnly, HasStatus
<1>2. LaneIInv /\ [LaneNext]_vars => [AcceptsSentOnly]_vars
  BY <1>1, EveryStepGood DEF GoodStep
<1>3. QED
  BY <1>2, LaneInvariance, PTL DEF LaneSpec, FollowsStateMachine

-----------------------------------------------------------------------------
(* The lane keeps the promise of Disclosure *)

(* The refinement mapping, as D instantiates Disclosure. *)
Authorized == [t \in Transfers |->
                  IF authorizations[t] = None THEN None ELSE Content(outbound[t])]
Disclosed == [t \in Transfers |->
                  IF receipts[t] = None THEN None ELSE Content(transfers[t])]
Confirmed == {t \in Transfers : HasStatus(t, {"ACCEPTED"})}

ContentOK ==
    \A t \in Transfers : authorizations[t] /= None =>
        /\ Content(outbound[t]) \in [key: Keys, payload: Payloads,
                                     user: {u \in Users : Identities[u].human}]
        /\ Content(outbound[t]) /= None

LEMMA ContentType == LaneIInv => ContentOK
<1> SUFFICES ASSUME LaneIInv, NEW t \in Transfers, authorizations[t] /= None
             PROVE  /\ Content(outbound[t]) \in [key: Keys, payload: Payloads,
                                                 user: {u \in Users : Identities[u].human}]
                    /\ Content(outbound[t]) /= None
  BY DEF ContentOK
<1>0. LaneTypeOK /\ RecordsSound
  BY DEF LaneIInv, Upper
<1>1. /\ outbound[t] \in OutboundRecord
      /\ outbound[t].authorizer = authorizations[t]
      /\ authorizations[t] \in Users
      /\ Identities[authorizations[t]].human
  BY <1>0 DEF LaneTypeOK, RecordsSound
<1>2. Content(outbound[t]) \in [key: Keys, payload: Payloads,
                                user: {u \in Users : Identities[u].human}]
  BY <1>1 DEF OutboundRecord, Content
<1>3. Content(outbound[t]) \in [key: Keys, payload: Payloads, user: Users]
  BY <1>1 DEF OutboundRecord, Content
<1>4. QED
  BY <1>2, <1>3, LaneNoneAssumption

LEMMA ReceiptOnly ==
  ASSUME TypeOK, NEW e \in Requests, NEW n \in Nonces, Deliver(e, n)
  PROVE  \A d \in Transfers : d /= e.transfer => receipts'[d] = receipts[d]
BY DEF Deliver, Unavailable, RejectEnvelope, RejectReplay, FailTransaction, RolledBack,
   QuarantineConflict, CollapseDuplicate, RecordRefusal, Accept, registries, TypeOK

(* What Law Shield has taken it keeps as it was taken. *)
LEMMA DisclosedStays ==
  ASSUME IInv, KeepsDecisions, NEW t \in Transfers, receipts[t] /= None
  PROVE  Disclosed'[t] = Disclosed[t]
<1>1. transfers[t] /= None /\ t \in DurableIds
  BY DEF IInv, Integrity, ReceiptsJustified, Accepted, DurableIds
<1>2. receipts'[t] = receipts[t] /\ transfers'[t] = transfers[t]
  BY <1>1 DEF KeepsDecisions
<1>3. QED
  BY <1>2 DEF Disclosed, Content

(* What Law Shield takes is what a human authorised. *)
TakenOK ==
    \A t \in Transfers : receipts[t] /= None =>
        Disclosed[t] = Authorized[t] /\ authorizations[t] /= None

LEMMA TakenIsAuthorized == LaneIInv => TakenOK
<1> SUFFICES ASSUME LaneIInv, NEW t \in Transfers, receipts[t] /= None
             PROVE  Disclosed[t] = Authorized[t] /\ authorizations[t] /= None
  BY DEF TakenOK
<1>1. transfers[t] /= None
  BY DEF LaneIInv, Lower, IInv, Integrity, ReceiptsJustified, Accepted
<1>2. PICK r \in signed : /\ r.env.transfer = t
                          /\ r.env.key = transfers[t].key
                          /\ r.env.payload = transfers[t].payload
                          /\ r.env.authorizer = transfers[t].authorizer
  BY <1>1 DEF LaneIInv, TakenFromSigned
<1>3. Matches(r.env)
  BY DEF LaneIInv, Upper, SignedFromRecord
<1>4. Content(transfers[t]) = Content(outbound[t])
  BY <1>2, <1>3 DEF Matches, Content
<1>5. QED
  BY <1>2, <1>3, <1>4 DEF Disclosed, Authorized, Matches

(* The same two facts of the state a step leads to. *)
LEMMA NextStateOK == LaneIInv' => ContentOK' /\ TakenOK'
BY ContentType, TakenIsAuthorized, PTL

LEMMA PromiseStep ==
  ASSUME LaneIInv, LaneIInv', ~ReuseIds, [LaneNext]_vars
  PROVE  D!Next \/ UNCHANGED <<Authorized, Disclosed, Confirmed>>
<1>0. /\ [GatewayNext]_laneVars
      /\ KeepsDecisions
      /\ Confirms
      /\ ContentKept
      /\ TouchesOne
      /\ UNCHANGED authorizations \/ AuthorizesOne
  BY EveryStepGood DEF GoodStep
<1>1. IInv /\ TypeOK /\ GatewayTypeOK /\ LaneTypeOK /\ RecordsSound
  BY DEF LaneIInv, Lower, IInv, GatewayShape, Upper
<1>2. ContentOK /\ TakenOK /\ ContentOK' /\ TakenOK'
  BY ContentType, TakenIsAuthorized, NextStateOK
<1>3. CASE AuthorizesOne
  <2>1. PICK t \in Transfers : /\ authorizations[t] = None
                               /\ authorizations'[t] /= None
                               /\ Only(t)
                               /\ UNCHANGED laneVars
    BY <1>3 DEF AuthorizesOne
  <2>2. PICK c \in [key: Keys, payload: Payloads,
                    user: {u \in Users : Identities[u].human}] : c = Content(outbound'[t])
    BY <1>2, <2>1 DEF ContentOK
  <2>3. Authorized[t] = None /\ Authorized' = [Authorized EXCEPT ![t] = c]
    BY <2>1, <2>2 DEF Authorized, Only
  <2>4. Disclosed' = Disclosed
    BY <2>1 DEF Disclosed, laneVars, procVars, registries
  <2>5. Confirmed' = Confirmed
    <3>1. ~HasStatus(t, {"SENT"}) /\ ~HasStatus(t, {"ACCEPTED"})
      BY <1>1, <2>1 DEF RecordsSound, HasStatus, Authorised
    <3>2. ~HasStatus(t, {"ACCEPTED"})'
      BY <1>0, <3>1 DEF Confirms, Confirmable
    <3>3. \A d \in Transfers : HasStatus(d, {"ACCEPTED"})' <=> HasStatus(d, {"ACCEPTED"})
      BY <2>1, <3>1, <3>2 DEF Only, HasStatus
    <3>4. QED
      BY <3>3 DEF Confirmed
  <2>6. D!Authorize(t, c)
    BY <2>3, <2>4, <2>5 DEF D!Authorize, Authorized, Disclosed, Confirmed
  <2>7. QED
    BY <2>2, <2>6 DEF D!Next
<1>4. CASE UNCHANGED authorizations
  <2>1. Authorized' = Authorized
    BY <1>0, <1>4 DEF Authorized, ContentKept
  <2>2. CASE UNCHANGED <<transfers, receipts>>
    <3>1. Disclosed' = Disclosed
      BY <2>2 DEF Disclosed
    <3>2. CASE \E t \in Transfers : ~HasStatus(t, {"ACCEPTED"}) /\ HasStatus(t, {"ACCEPTED"})'
      <4>1. PICK t \in Transfers : ~HasStatus(t, {"ACCEPTED"}) /\ HasStatus(t, {"ACCEPTED"})'
        BY <3>2
      <4>2. \A d \in Transfers \ {t} : HasStatus(d, {"ACCEPTED"})' <=> HasStatus(d, {"ACCEPTED"})
        BY <1>0, <4>1 DEF TouchesOne, Only, HasStatus
      <4>3. Confirmed' = Confirmed \cup {t}
        BY <4>1, <4>2 DEF Confirmed
      <4>4. receipts[t] /= None
        BY <1>0, <2>2, <4>1 DEF Confirms, Confirmable
      <4>5. Disclosed[t] /= None
        BY <1>2, <4>4 DEF Authorized, ContentOK, TakenOK
      <4>6. D!Confirm(t)
        BY <2>1, <3>1, <4>3, <4>5 DEF D!Confirm, Authorized, Disclosed, Confirmed
      <4>7. QED
        BY <4>6 DEF D!Next
    <3>3. CASE ~\E t \in Transfers : ~HasStatus(t, {"ACCEPTED"}) /\ HasStatus(t, {"ACCEPTED"})'
      <4>1. Confirmed' = Confirmed
        BY <1>0, <3>3 DEF Confirms, Confirmed
      <4>2. QED
        BY <2>1, <3>1, <4>1
    <3>4. QED
      BY <3>2, <3>3
  <2>3. CASE answer' = None /\ \E r \in signed : Deliver(r.env, r.nonce)
    <3>1. PICK r \in signed : Deliver(r.env, r.nonce)
      BY <2>3
    <3> DEFINE t == r.env.transfer
    <3>2. t \in Transfers
      BY <1>1, SignedParts, EnvelopeIds
    <3>3. Confirmed' = Confirmed
      BY <1>0, <2>3 DEF Confirms, Confirmable, Confirmed
    <3>4. ASSUME NEW d \in Transfers, d /= t \/ receipts[d] /= None
          PROVE  Disclosed'[d] = Disclosed[d]
      <4>1. CASE receipts[d] /= None
        BY <1>0, <1>1, <4>1, DisclosedStays
      <4>2. CASE receipts[d] = None /\ d /= t
        <5>1. receipts'[d] = None
          BY <1>1, <3>1, <4>2, SignedParts, ReceiptOnly
        <5>2. QED
          BY <4>2, <5>1 DEF Disclosed
      <4>3. QED
        BY <3>4, <4>1, <4>2
    <3>5. CASE receipts[t] = None /\ receipts'[t] /= None
      <4>1. Disclosed'[t] = Authorized'[t] /\ authorizations'[t] /= None
        BY <1>2, <3>2, <3>5 DEF TakenOK
      <4>2. Disclosed[t] = None
        BY <3>2, <3>5 DEF Disclosed
      <4>3. Disclosed' = [Disclosed EXCEPT ![t] = Authorized[t]]
        BY <2>1, <3>2, <3>4, <4>1 DEF Disclosed
      <4>4. Authorized[t] /= None
        BY <1>2, <1>4, <3>2, <4>1 DEF Authorized, ContentOK
      <4>5. D!Disclose(t)
        BY <2>1, <3>3, <4>2, <4>3, <4>4 DEF D!Disclose, Authorized, Disclosed, Confirmed
      <4>6. QED
        BY <3>2, <4>5 DEF D!Next
    <3>6. CASE ~(receipts[t] = None /\ receipts'[t] /= None)
      <4>1. \A d \in Transfers : Disclosed'[d] = Disclosed[d]
        BY <3>2, <3>4, <3>6 DEF Disclosed
      <4>2. Disclosed' = Disclosed
        BY <4>1 DEF Disclosed
      <4>3. QED
        BY <2>1, <3>3, <4>2
    <3>7. QED
      BY <3>5, <3>6
  <2>4. QED
    BY <1>0, <1>1, <2>2, <2>3, OnlyDeliveriesDecide
<1>5. QED
  BY <1>0, <1>3, <1>4

(* Nothing reaches Law Shield but what a human authorised, at most once    *)
(* and unchanged, and ARMA says ACCEPTED only of what Law Shield took.     *)
THEOREM PromiseKept == ~ReuseIds => (LaneSpec => KeepsPromise)
<1> SUFFICES ASSUME ~ReuseIds PROVE LaneSpec => KeepsPromise
  OBVIOUS
<1>1. LaneInit => D!Init
  BY DEF LaneInit, GatewayInit, Init, D!Init, HasStatus
<1>2. LaneIInv /\ LaneIInv' /\ [LaneNext]_vars => [D!Next]_(D!vars)
  BY PromiseStep DEF D!vars, Authorized, Disclosed, Confirmed
<1>3. QED
  BY <1>1, <1>2, LaneInvariance, PTL DEF LaneSpec, KeepsPromise, D!Spec

=============================================================================
