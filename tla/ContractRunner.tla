---------------------------- MODULE ContractRunner ----------------------------
(***************************************************************************)
(* The contract runner (simulators/contractRunner.ts) with the partner it  *)
(* drives (simulators/partnerSimulator.ts and shared/sdk/client.ts), the   *)
(* webhook phase of the platform (emitAndDeliver), its span, and the       *)
(* verdict on the scenario.  With mode = None nobody drives: the platform  *)
(* faces a free environment instead.                                       *)
(*                                                                         *)
(* The clock of a scenario stands still.  The runner is one thread: it     *)
(* presents, processes, plans, opens the webhook phase, and judges.        *)
(***************************************************************************)
EXTENDS SyntheticPlatform, FailureModes

CONSTANTS
    Plans,          \* fault plans to drive besides the matrix
    MaxAttempts     \* entries of RETRY_SCHEDULE_MS

VARIABLES
    mode,           \* the mode that is driven, or None
    drive,          \* driveScenario and execute
    phase           \* emitAndDeliver

runnerVars == <<mode, drive, phase>>
vars == <<platformVars, runnerVars>>

(* What may be driven: the requests that a scenario makes have nonces, its *)
(* flaws and faults are those of the code, its transport always answers.   *)
DrivenScenarios == Plans \cup {m.scenario : m \in Matrix}

BuiltIn(s, attempts) ==
    IF s.second \in {"DUPLICATE", "CONFLICT"} THEN attempts + attempts ELSE attempts

TransportSteps == {"OK", "CLEAN", "AMBIGUOUS", "REFUSED"}

ASSUME DrivenAssumption ==
    /\ MaxAttempts \in Nat \ {0}
    /\ Keys /= {} /\ \E p, q \in Payloads : p /= q
    /\ None \notin [stage: {"ACCEPTED"}, accepted: {TRUE}, code: {None}]
    /\ \A s \in DrivenScenarios :
          /\ s.circuit \in Breakers \cup {None} /\ s.receiptFault \in ReceiptFaults
          /\ s.flaw \in Flaws /\ s.drift \in Int
          /\ s.second \in {"NONE", "REPLAY", "DUPLICATE", "CONFLICT"}
          /\ s.presentations \in Nat \ {0}
          /\ 1..BuiltIn(s, s.presentations) \subseteq Nonces
          /\ s.emitEventCount \in Nat /\ s.secondOffset \in Int
          /\ s.transportScript \in Seq(TransportSteps) /\ s.transportScript /= <<>>

(* The codes and outcomes that the verdict compares; None is none of them. *)
Texts ==
    ChainCodes \cup SignatureCodes \cup
    {"OK", "BODY", "NONCE", "SIGNATURE", "PLATFORM_KILL_SWITCH", "REQUEST_REPLAYED",
     "IDEMPOTENCY_KEY_CONFLICT", "IDEMPOTENCY_DUPLICATE_COLLAPSED", "OPERATION_COMPLETED",
     "DOWNSTREAM_UNAVAILABLE", "CIRCUIT_OPEN", "RECEIPT_VERIFICATION_FAILED",
     "RECEIPT_MISSING_HEADERS", "RECEIPT_CONTENT_HASH_MISMATCH",
     "RECEIPT_INVALID_SIGNATURE", "RECEIPT_FIELD_MISMATCH", "TERMINAL", "CLEAN_RETRY",
     "AMBIGUOUS_RECONCILE", "EXHAUSTED", "WEBHOOK_EVENT_TYPE_UNKNOWN",
     "WEBHOOK_ORDERING_GAP", "WEBHOOK_NONCE_REPLAYED", "WEBHOOK_SIGNATURE_INVALID",
     "RETRY_EXHAUSTED", "DELIVERED", "DEAD_LETTERED_AMBIGUOUS", "RESOLVED",
     "REQUIRED_UNRESOLVED", "RESOLVE", "ESCALATE"}

(* What the catalog takes for granted: the drift of ten minutes, two units, *)
(* is beyond the skew, and a second attempt is allowed but not a sixth.    *)
(* None is no text, no receipt, no breaker and no decision.                *)
ASSUME CatalogAssumption ==
    /\ Skew < 2 /\ MaxAttempts \in 2..5
    /\ None \notin Texts \cup Receipts \cup Breakers
    /\ None \notin [stage: {"KILL_SWITCH", "SIGNATURE", "REPLAY", "AUTHORIZATION",
                            "IDEMPOTENCY", "IDEMPOTENCY_DUPLICATE", "OPERATION", "ACCEPTED"},
                    accepted: BOOLEAN, code: Texts \cup {None}]

TheKey == CHOOSE k \in Keys : TRUE
ThePayload == CHOOSE p \in Payloads : TRUE
OtherPayload == CHOOSE p \in Payloads : p /= ThePayload

Init ==
    /\ FreshPlatform
    /\ \/ mode = None /\ scenario \in Scenarios
       \/ /\ mode \in Matrix \cup {Mode("plan", "SPAN", "SUCCESS", FALSE, p) : p \in Plans}
          /\ scenario = mode.scenario
    /\ drive = [pc |-> IF mode = None THEN "FREE" ELSE "EXECUTE",
                attempt |-> 1, presented |-> None, expected |-> None,
                lastRequest |-> None, accepted |-> None, anyProcessedOk |-> FALSE,
                operationCodes |-> <<>>, receiptReasons |-> <<>>, plans |-> <<>>]
    /\ phase = [events |-> <<>>, views |-> <<>>, requestId |-> None,
                step |-> 0, outcomes |-> <<>>, captured |-> <<>>,
                last |-> 0, seen |-> {}, receiverCodes |-> <<>>,
                verified |-> FALSE, receiverCode |-> None, rePresented |-> None,
                deliveredTwice |-> None, reconciliation |-> <<>>,
                status |-> None, reconciliationStatus |-> None]

At(pc) == drive.pc = pc

-----------------------------------------------------------------------------
(* The partner: execute, and the processing of a response *)

ExecuteRequest(r, expected) ==
    /\ signed' = signed \cup {r}
    /\ Receive(r)
    /\ UNCHANGED <<scenario, now, mode, phase>>
    /\ drive' = [drive EXCEPT !.pc = IF At("EXECUTE") THEN "PROCESS" ELSE "PROCESS_SECOND",
                              !.presented = r, !.expected = expected]

Execute ==
    /\ At("EXECUTE")
    /\ LET r == Built(now + scenario.drift, TheKey, ThePayload, scenario.flaw)
       IN  ExecuteRequest(r, r.nonce)

SecondRequest ==
    CASE scenario.second = "REPLAY" -> drive.presented
      [] scenario.second = "DUPLICATE" -> Built(now, TheKey, ThePayload, None)
      [] scenario.second = "CONFLICT" -> Built(now, TheKey, OtherPayload, None)

(* Only the conflicting request expects a receipt of its own. *)
ExecuteSecond ==
    /\ At("SECOND")
    /\ ExecuteRequest(SecondRequest,
                      IF scenario.second = "CONFLICT" THEN SecondRequest.nonce
                      ELSE drive.expected)

(* verifyReceipt: None, or why the receipt does not prove the operation. *)
ReceiptFailure(receipt, expected) ==
    CASE receipt.fault = "OMIT" -> "RECEIPT_MISSING_HEADERS"
      [] receipt.fault = "TAMPERED" -> "RECEIPT_CONTENT_HASH_MISMATCH"
      [] receipt.fault = "FORGED" -> "RECEIPT_INVALID_SIGNATURE"
      [] receipt.fault = "WRONG_OPERATION" -> "RECEIPT_FIELD_MISMATCH"
      [] receipt.fault = "NONE" ->
             IF receipt.request = expected THEN None ELSE "RECEIPT_FIELD_MISMATCH"

ReceiptReason ==
    IF response.receipt = None THEN None
    ELSE ReceiptFailure(response.receipt, drive.expected)

ProcessedCode ==
    IF response.receipt = None THEN response.code
    ELSE IF ReceiptReason = None THEN "OK"
    ELSE "RECEIPT_VERIFICATION_FAILED"

CleanRetryable == {"TRANSPORT_ERROR", "DOWNSTREAM_UNAVAILABLE", "UNAVAILABLE"}
AmbiguousCodes == {"CIRCUIT_OPEN", "WEBHOOK_DELIVERY_FAILED", "PERSISTENCE_FAILED",
                   "RECEIPT_VERIFICATION_FAILED"}

(* Mutant: the schedule lasts one attempt longer. *)
PlanOneMore(code, attempts) ==
    CASE code \in AmbiguousCodes -> "AMBIGUOUS_RECONCILE"
      [] code \in CleanRetryable /\ attempts > MaxAttempts -> "EXHAUSTED"
      [] code \in CleanRetryable /\ attempts <= MaxAttempts -> "CLEAN_RETRY"
      [] code \notin AmbiguousCodes \cup CleanRetryable -> "TERMINAL"

PlanRetry(code, attempts) ==
    CASE code \in AmbiguousCodes -> "AMBIGUOUS_RECONCILE"
      [] code \in CleanRetryable /\ attempts >= MaxAttempts -> "EXHAUSTED"
      [] code \in CleanRetryable /\ attempts < MaxAttempts -> "CLEAN_RETRY"
      [] code \notin AmbiguousCodes \cup CleanRetryable -> "TERMINAL"

NoteProcessed ==
    [drive EXCEPT
        !.operationCodes = Append(@, ProcessedCode),
        !.receiptReasons = IF ReceiptReason = None THEN @ ELSE Append(@, ReceiptReason),
        !.anyProcessedOk = @ \/ ProcessedCode = "OK"]

AfterAttempt(d) ==
    [d EXCEPT !.pc = IF d.attempt < scenario.presentations THEN "EXECUTE" ELSE "PHASE",
              !.attempt = @ + 1]

Process ==
    LET ok == ProcessedCode = "OK"
        noted == [NoteProcessed EXCEPT
            !.lastRequest = drive.expected,
            !.accepted = IF ok /\ @ = None THEN drive.expected ELSE @,
            !.plans = IF ok THEN @ ELSE Append(@, PlanRetry(ProcessedCode, drive.attempt))]
    IN  /\ At("PROCESS")
        /\ drive' = IF scenario.second = "NONE" THEN AfterAttempt(noted)
                    ELSE [noted EXCEPT !.pc = "SECOND"]
        /\ UNCHANGED <<platformVars, mode, phase>>

ProcessSecond ==
    /\ At("PROCESS_SECOND")
    /\ drive' = AfterAttempt(NoteProcessed)
    /\ UNCHANGED <<platformVars, mode, phase>>

-----------------------------------------------------------------------------
(* The webhook phase: emitAndDeliver *)

PhaseStep(from, p, to) ==
    /\ At(from)
    /\ phase' = p
    /\ drive' = [drive EXCEPT !.pc = to]
    /\ UNCHANGED <<platformVars, mode>>

(* Mutant: the last decision alone decides. *)
LastDecisionGate == lastDecision /= None /\ lastDecision.accepted

(* A duplicate is no new operation: the last genuine acceptance decides. *)
Gate ==
    LET decision == IF lastAcceptedDecision /= None THEN lastAcceptedDecision
                    ELSE lastDecision
    IN  decision /= None /\ decision.accepted

KnownType == scenario.eventType = "processing.completed"

EmittedEvents ==
    [i \in 1..scenario.emitEventCount |->
        [type |-> IF KnownType THEN scenario.eventType ELSE "WEBHOOK_EVENT_TYPE_UNKNOWN",
         sequence |-> IF i = 2 THEN i + scenario.secondOffset ELSE i]]

OpenPhase ==
    /\ Gate
    /\ PhaseStep("PHASE",
           [phase EXCEPT !.requestId = IF drive.accepted /= None THEN drive.accepted
                                       ELSE drive.lastRequest,
                         !.views = EmittedEvents,
                         !.events = IF KnownType THEN EmittedEvents ELSE <<>>],
           IF KnownType /\ scenario.emitEventCount > 0 THEN "DELIVER" ELSE "SPAN")

RefusePhase ==
    /\ ~Gate
    /\ PhaseStep("PHASE",
           [phase EXCEPT !.status = "FAILED", !.reconciliationStatus = "NONE"], "DONE")

(* One call of the delivery service: the scripted transport answers each   *)
(* attempt with its next step, and the last step stands for ever.          *)
ScriptStep(i) == scenario.transportScript[Min({i, Len(scenario.transportScript)})]

AttemptsFrom(step) ==
    Min({n \in 1..MaxAttempts : ScriptStep(step + n) /= "CLEAN"} \cup {MaxAttempts})

OutcomeFrom(step) ==
    LET answer == ScriptStep(step + AttemptsFrom(step))
    IN  CASE answer = "OK" -> "DELIVERED"
          [] answer \in {"AMBIGUOUS", "REFUSED"} -> "DEAD_LETTERED_AMBIGUOUS"
          [] answer = "CLEAN" -> "RETRY_EXHAUSTED"

(* The i-th event through the service; a delivered event collapses. *)
DeliveredBefore(i) == \E j \in DOMAIN phase.captured : phase.captured[j] = i

Sent(p, i) ==
    [p EXCEPT !.step = @ + AttemptsFrom(p.step),
              !.captured = IF OutcomeFrom(p.step) = "DELIVERED" THEN Append(@, i) ELSE @]

Deliver ==
    LET i == Len(phase.outcomes) + 1
    IN  PhaseStep("DELIVER",
            [Sent(phase, i) EXCEPT !.outcomes = Append(@, OutcomeFrom(phase.step))],
            IF i < Len(phase.events) THEN "DELIVER" ELSE "VERIFY")

(* verifyWebhook through the one guard of the phase. *)
GuardCode(p, i) ==
    CASE i \in p.seen -> "WEBHOOK_NONCE_REPLAYED"
      [] i \notin p.seen /\ p.last \notin {0, p.events[i].sequence - 1} -> "WEBHOOK_ORDERING_GAP"
      [] i \notin p.seen /\ p.last \in {0, p.events[i].sequence - 1} -> "OK"

VerifiedBy(p, i) ==
    LET ok == GuardCode(p, i) = "OK"
    IN  [p EXCEPT !.receiverCodes = Append(@, GuardCode(p, i)),
                  !.last = IF ok THEN p.events[i].sequence ELSE @,
                  !.seen = IF ok THEN @ \cup {i} ELSE @]

Verify ==
    /\ Len(phase.receiverCodes) < Len(phase.captured)
    /\ PhaseStep("VERIFY",
           VerifiedBy(phase, phase.captured[Len(phase.receiverCodes) + 1]), "VERIFY")

(* What the receiver reports, with the delivery presented again or spoilt. *)
ReceiverFaults ==
    LET codes == phase.receiverCodes
        ok == \A j \in DOMAIN codes : codes[j] = "OK"
        some == phase.captured /= <<>>
        tampered == some /\ scenario.tamperDelivery
    IN  /\ Len(codes) = Len(phase.captured)
        /\ PhaseStep("VERIFY",
               [phase EXCEPT
                   !.verified = some /\ ok,
                   !.receiverCode = IF tampered THEN "WEBHOOK_SIGNATURE_INVALID"
                                    ELSE IF some /\ Last(codes) /= "OK" THEN Last(codes)
                                    ELSE None,
                   !.receiverCodes = IF tampered THEN Append(@, "WEBHOOK_SIGNATURE_INVALID")
                                     ELSE @,
                   !.rePresented = IF some /\ scenario.rePresent
                                   THEN GuardCode(phase, Last(phase.captured)) ELSE None],
               "AGAIN")

DeliverTwice ==
    PhaseStep("AGAIN",
        IF ~scenario.deliverTwice THEN phase
        ELSE IF DeliveredBefore(1)
        THEN [phase EXCEPT !.deliveredTwice = "DELIVERED_DUPLICATE"]
        ELSE [Sent(phase, 1) EXCEPT !.deliveredTwice = OutcomeFrom(phase.step)],
        "RECONCILE")

(* Some event of the phase was given up. *)
Ambiguous ==
    \E j \in DOMAIN phase.outcomes :
        \/ phase.outcomes[j] \in {"DEAD_LETTERED_AMBIGUOUS", "RETRY_EXHAUSTED"}
        \/ j = Len(phase.outcomes) /\ phase.outcomes[j] /= "DELIVERED"

Reconcile ==
    LET i == Len(phase.events) + 1
        type == IF scenario.reconcile = "RESOLVE" THEN "reconciliation.completed"
                ELSE "reconciliation.required"
        emitted == [phase EXCEPT !.events =
                        Append(@, [type |-> type, sequence |-> scenario.emitEventCount + 1])]
        outcome == OutcomeFrom(phase.step)
        sent == [Sent(emitted, i) EXCEPT !.reconciliation = <<outcome>>]
    IN  PhaseStep("RECONCILE",
            IF ~Ambiguous \/ scenario.reconcile = None THEN phase
            ELSE IF outcome = "DELIVERED" THEN VerifiedBy(sent, i)
            ELSE sent,
            "SPAN")

RecordSpan ==
    PhaseStep("SPAN",
        [phase EXCEPT
            !.status = IF Ambiguous THEN "AMBIGUOUS" ELSE "SUCCESS",
            !.reconciliationStatus =
                CASE ~Ambiguous -> "NONE"
                  [] Ambiguous /\ phase.reconciliation = <<>> -> "PENDING"
                  [] Ambiguous /\ phase.reconciliation /= <<>> ->
                         IF scenario.reconcile = "RESOLVE" THEN "RESOLVED"
                         ELSE "REQUIRED_UNRESOLVED"],
        "DONE")

Done == At("DONE") /\ UNCHANGED vars

Free == At("FREE") /\ PlatformNext /\ UNCHANGED runnerVars

Next ==
    \/ Free
    \/ Execute \/ Process \/ ExecuteSecond \/ ProcessSecond
    \/ OpenPhase \/ RefusePhase
    \/ Deliver \/ Verify \/ ReceiverFaults \/ DeliverTwice \/ Reconcile \/ RecordSpan
    \/ Done

Spec == Init /\ [][Next]_vars

-----------------------------------------------------------------------------
(* The verdict: evidenceForScenario *)

Elements(s) == {s[i] : i \in DOMAIN s}

(* Every code on any surface. *)
ObservedCodes ==
    (Elements(drive.operationCodes) \cup Elements(drive.receiptReasons)
        \cup Elements(drive.plans)
        \cup {d.code : d \in {lastDecision} \ {None}}
        \cup (IF phase.outcomes = <<>> THEN {} ELSE {Last(phase.outcomes)})
        \cup {phase.deliveredTwice, phase.receiverCode, phase.rePresented}
        \cup Elements(phase.receiverCodes) \cup Elements(phase.reconciliation)
        \cup {phase.status, phase.reconciliationStatus}
        \cup {v.type : v \in Elements(phase.views)}
        \cup circuitStates \cup reasonCodes) \ {None}

ControlCompleted ==
    /\ drive.anyProcessedOk
    /\ drive.receiptReasons = <<>>
    /\ phase.outcomes /= <<>> /\ Last(phase.outcomes) = "DELIVERED"
    /\ phase.verified
    /\ phase.status = "SUCCESS"
    /\ "OPERATION_COMPLETED" \in reasonCodes

Passed ==
    /\ mode.expectedCode \in ObservedCodes
    /\ mode.surface = "CONTROL" => ControlCompleted

LastOf(s) == IF s = <<>> THEN None ELSE Last(s)
FirstOf(candidates) ==
    LET there == {i \in DOMAIN candidates : candidates[i] /= None}
    IN  IF there = {} THEN None ELSE candidates[Min(there)]

(* What the declared surface of the mode shows. *)
PrimaryObservation ==
    CASE mode.surface = "CONTROL" ->
             IF ControlCompleted THEN "OPERATION_COMPLETED" ELSE LastOf(drive.operationCodes)
      [] mode.surface = "PLATFORM_RESPONSE" -> lastDecision.code
      [] mode.surface = "RECEIPT" -> LastOf(drive.receiptReasons)
      [] mode.surface = "DELIVERY" -> LastOf(phase.outcomes)
      [] mode.surface = "RECEIVER" ->
             FirstOf(<<phase.receiverCode, phase.rePresented, LastOf(phase.receiverCodes)>>)
      [] mode.surface = "EMIT" ->
             IF phase.views = <<>> THEN None ELSE Last(phase.views).type
      [] mode.surface = "PLAN" -> LastOf(drive.plans)
      [] mode.surface = "SPAN" -> FirstOf(<<phase.reconciliationStatus, phase.status>>)
      [] mode.surface = "CIRCUIT" ->
             IF "CIRCUIT_OPEN" \in Elements(drive.operationCodes) THEN "CIRCUIT_OPEN" ELSE None

-----------------------------------------------------------------------------
(* Properties *)

(* A mode of the catalog passes for the right reason: the code that the    *)
(* contract expects is what its declared surface shows at the end, and not *)
(* merely a code that turned up somewhere (the verdict looks everywhere).  *)
CatalogPasses ==
    At("DONE") /\ mode \in Matrix =>
        Passed /\ PrimaryObservation = mode.expectedCode

HandedOver(i) == Cardinality({j \in DOMAIN phase.captured : phase.captured[j] = i})

(* Whatever faults are combined, and whatever the partner made of the      *)
(* answers, the span tells what the platform did: FAILED, nothing executed *)
(* and nothing was sent; otherwise exactly one operation executed, and     *)
(* SUCCESS says that every event of it has been handed over exactly once.  *)
SpanTrue ==
    At("DONE") =>
        IF phase.status = "FAILED"
        THEN executions = <<>> /\ phase.step = 0
        ELSE /\ Len(executions) = 1
             /\ phase.status = "SUCCESS" =>
                    \A i \in DOMAIN phase.events : HandedOver(i) = 1
===============================================================================
