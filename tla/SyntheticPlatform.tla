--------------------------- MODULE SyntheticPlatform ---------------------------
(***************************************************************************)
(* The platform a partner's requests reach                                 *)
(* (simulators/syntheticPlatform.ts, receive) with the shared modules it   *)
(* is made of: signature, replay guard, registry, idempotency registry,    *)
(* circuit breaker and receipts (shared/sdk, shared/registry).             *)
(*                                                                         *)
(* receive is synchronous: a request is handled in one step, by the first  *)
(* stage that stops it.  A scenario fixes the world and the faults; what   *)
(* the network presents, when, and how often is free.                      *)
(*                                                                         *)
(* Abstractions.  A request is identified by its nonce, fresh for every    *)
(* signed request; its flaw says what was spoilt after signing.  A receipt *)
(* is the request it names, with the fault of the scenario.  Audit entries *)
(* are their reason codes.  The clock counts in units of the skew.         *)
(***************************************************************************)
EXTENDS PartnerRegistry, Sequences, SequencesExt

CONSTANTS
    Nonces,       \* requests that may be signed
    Keys,         \* idempotency keys
    Payloads,     \* request bodies
    Scenarios,    \* ScenarioConfig records
    Skew,         \* MAX_CLOCK_SKEW_MS
    Window,       \* REPLAY_WINDOW_MS
    Ttl,          \* DEFAULT_IDEMPOTENCY_TTL_MS
    Drifts,       \* how far a sender's clock may be off
    MaxRequests,  \* bound on the requests a free environment signs
    MaxTime       \* bound on the clock

ASSUME TimesAssumption ==
    /\ Skew \in Nat /\ Ttl \in Nat /\ MaxTime \in Nat
    /\ Window \in Nat /\ Window >= 2 * Skew
    /\ Drifts \subseteq Int
    /\ None \notin Nat

ASSUME RequestsAssumption == MaxRequests \in Nat /\ 1..MaxRequests \subseteq Nonces

VARIABLES
    scenario,     \* the configuration, fixed
    now,
    signed,       \* every request built so far
    nonces,       \* ReplayGuard: nonce -> firstSeenAt
    records,      \* IdempotencyRegistry and the stored responses, by key
    circuit,      \* CircuitBreaker: [state, failures, lastFailureAt]
    downstreamFailureCount,
    lastDecision, lastAcceptedDecision,
    response,     \* what the last receive returned, or None
    reasonCodes,  \* the reason codes of the audit trail
    circuitStates,
    passed,       \* the requests that got through the replay stage, in order
    calls,        \* the calls to the downstream, in order
    executions    \* the operations completed, in order

sharedVars == <<nonces, records, circuit, downstreamFailureCount, circuitStates>>
decisionVars == <<lastDecision, lastAcceptedDecision, response, reasonCodes>>
historyVars == <<passed, calls, executions>>
platformVars == <<scenario, now, signed, sharedVars, decisionVars, historyVars>>

-----------------------------------------------------------------------------
(* Types *)

Flaws == {None, "BODY", "NONCE", "SIGNATURE"}
Requests == [nonce: Nonces, at: Int, key: Keys, payload: Payloads, flaw: Flaws]
SignatureCodes ==
    {"SIGNATURE_BODY_HASH_INVALID", "SIGNATURE_CLOCK_SKEW_EXCEEDED",
     "SIGNATURE_NONCE_INVALID", "SIGNATURE_SIGNATURE_MISMATCH"}
ReceiptFaults == {"NONE", "OMIT", "FORGED", "TAMPERED", "WRONG_OPERATION"}
Receipts == [request: Nonces, fault: ReceiptFaults]
Breakers == [failureThreshold: Nat \ {0}, resetTimeout: Nat, downstreamFailures: Nat]
Success(receipt) == [code |-> "OK", receipt |-> receipt]
Records == [payload: Payloads, response: {Success(receipt) : receipt \in Receipts},
            expiresAt: Nat]

ASSUME ScenariosAssumption ==
    /\ \A s \in Scenarios :
          s.circuit \in Breakers \cup {None} /\ s.receiptFault \in ReceiptFaults
    /\ None \notin Records

ASSUME CodesAssumption == None \notin SignatureCodes

FreshPlatform ==
    /\ now = 0
    /\ signed = {}
    /\ nonces = [n \in Nonces |-> None]
    /\ records = [k \in Keys |-> None]
    /\ circuit = [state |-> "CLOSED", failures |-> 0, lastFailureAt |-> None]
    /\ downstreamFailureCount = 0
    /\ lastDecision = None /\ lastAcceptedDecision = None
    /\ response = None
    /\ reasonCodes = {}
    /\ circuitStates = {}
    /\ passed = <<>> /\ calls = <<>> /\ executions = <<>>

PlatformInit == scenario \in Scenarios /\ FreshPlatform

-----------------------------------------------------------------------------
(* Stages.  Each is reached only when the ones before it let the request by *)

(* The body's hash is compared first; the nonce's form after the skew. *)
SignatureFailure(r) ==
    IF r.flaw = "BODY" THEN "SIGNATURE_BODY_HASH_INVALID"
    ELSE IF now - r.at \notin (-Skew)..Skew THEN "SIGNATURE_CLOCK_SKEW_EXCEEDED"
    ELSE IF r.flaw = "NONCE" THEN "SIGNATURE_NONCE_INVALID"
    ELSE IF r.flaw = "SIGNATURE" THEN "SIGNATURE_SIGNATURE_MISMATCH"
    ELSE None

Verified(r) == ~scenario.killSwitch /\ SignatureFailure(r) = None

(* Mutant: the nonce is forgotten when the window ends, not after it. *)
ForgottenEarly(r) == nonces[r.nonce] /= None /\ now - nonces[r.nonce] < Window

Replayed(r) == nonces[r.nonce] /= None /\ now - nonces[r.nonce] <= Window

Fresh(r) == Verified(r) /\ ~Replayed(r)

Registry == [partners |-> scenario.partners, orgs |-> scenario.orgs]
Resolution == Resolve(Registry, scenario.claims, now)

Authorised(r) == Fresh(r) /\ Resolution = None

(* Mutant: a record is dead at the last instant of its life. *)
LiveBefore(k) == records[k] /= None /\ now < records[k].expiresAt

Live(k) == records[k] /= None /\ now <= records[k].expiresAt

IdempotencyKind(r) ==
    CASE ~Live(r.key) -> "FRESH"
      [] Live(r.key) /\ records[r.key].payload /= r.payload -> "CONFLICT"
      [] Live(r.key) /\ records[r.key].payload = r.payload -> "DUPLICATE"

(* The breaker: a probe is let through once the reset timeout has passed. *)
HasCircuit == scenario.circuit /= None

Probing ==
    /\ circuit.state = "OPEN"
    /\ now - circuit.lastFailureAt >= scenario.circuit.resetTimeout

Allowed == HasCircuit => circuit.state = "CLOSED" \/ Probing

StateChecked == IF Probing THEN "HALF_OPEN" ELSE circuit.state

AfterSuccess == [state |-> "CLOSED", failures |-> 0, lastFailureAt |-> None]

(* Mutant: a failed probe does not start the timeout again. *)
AfterFailureKeepsTime ==
    LET opens == \/ StateChecked = "HALF_OPEN"
                 \/ circuit.failures + 1 >= scenario.circuit.failureThreshold
    IN  [state |-> IF opens THEN "OPEN" ELSE StateChecked,
         failures |-> circuit.failures + 1,
         lastFailureAt |-> IF StateChecked = "HALF_OPEN" THEN circuit.lastFailureAt ELSE now]

AfterFailure ==
    LET opens == \/ StateChecked = "HALF_OPEN"
                 \/ circuit.failures + 1 >= scenario.circuit.failureThreshold
    IN  [state |-> IF opens THEN "OPEN" ELSE StateChecked,
         failures |-> circuit.failures + 1, lastFailureAt |-> now]

(* The scripted behaviour of the downstream. *)
DownstreamFails ==
    \/ scenario.downstream = "UNAVAILABLE"
    \/ scenario.downstream = "FAILS_ONCE_THEN_HEALTHY" /\ downstreamFailureCount < 1
    \/ HasCircuit /\ downstreamFailureCount < scenario.circuit.downstreamFailures

Reaches(r) == Authorised(r) /\ IdempotencyKind(r) = "FRESH"

-----------------------------------------------------------------------------
(* Outcomes of receive *)

Decision(stage, accepted, code) ==
    [stage |-> stage, accepted |-> accepted, code |-> code]
Failure(code) == [code |-> code, receipt |-> None]

(* The nonce is burned by whatever gets past the replay stage. *)
Burn(r) ==
    /\ nonces' = [nonces EXCEPT ![r.nonce] = now]
    /\ passed' = Append(passed, r.nonce)

Refused(stage, code, reason) ==
    /\ lastDecision' = Decision(stage, FALSE, code)
    /\ response' = Failure(code)
    /\ reasonCodes' = reasonCodes \cup {reason}
    /\ UNCHANGED <<lastAcceptedDecision, records, executions>>

NoDownstream == UNCHANGED <<circuit, downstreamFailureCount, circuitStates, calls>>

RefuseKilled(r) ==
    /\ scenario.killSwitch
    /\ Refused("KILL_SWITCH", "PLATFORM_KILL_SWITCH", "KILL_SWITCH_ENGAGED")
    /\ NoDownstream /\ UNCHANGED <<nonces, passed>>

RefuseSignature(r) ==
    /\ ~scenario.killSwitch
    /\ SignatureFailure(r) /= None
    /\ Refused("SIGNATURE", SignatureFailure(r), SignatureFailure(r))
    /\ NoDownstream /\ UNCHANGED <<nonces, passed>>

RefuseReplay(r) ==
    /\ Verified(r) /\ Replayed(r)
    /\ Refused("REPLAY", "REQUEST_REPLAYED", "REPLAY_DETECTED")
    /\ NoDownstream /\ UNCHANGED <<nonces, passed>>

RefuseClaims(r) ==
    /\ Fresh(r) /\ Resolution /= None
    /\ Burn(r)
    /\ Refused("AUTHORIZATION", Resolution, Resolution)
    /\ NoDownstream

RefuseConflict(r) ==
    /\ Authorised(r) /\ IdempotencyKind(r) = "CONFLICT"
    /\ Burn(r)
    /\ Refused("IDEMPOTENCY", "IDEMPOTENCY_KEY_CONFLICT", "IDEMPOTENCY_KEY_CONFLICT")
    /\ NoDownstream

CollapseDuplicate(r) ==
    /\ Authorised(r) /\ IdempotencyKind(r) = "DUPLICATE"
    /\ Burn(r)
    /\ lastDecision' = Decision("IDEMPOTENCY_DUPLICATE", TRUE, "IDEMPOTENCY_DUPLICATE_COLLAPSED")
    /\ response' = records[r.key].response
    /\ reasonCodes' = reasonCodes \cup {"IDEMPOTENCY_DUPLICATE"}
    /\ UNCHANGED <<lastAcceptedDecision, records, executions>>
    /\ NoDownstream

RefuseOpenCircuit(r) ==
    /\ Reaches(r) /\ ~Allowed
    /\ Burn(r)
    /\ Refused("OPERATION", "CIRCUIT_OPEN", "CIRCUIT_OPEN")
    /\ circuitStates' = circuitStates \cup {circuit.state}
    /\ UNCHANGED <<circuit, downstreamFailureCount, calls>>

CallDownstream(ok) ==
    /\ Allowed
    /\ ok = ~DownstreamFails
    /\ calls' = Append(calls, [ok |-> ok, at |-> now])
    /\ IF HasCircuit
       THEN /\ circuit' = IF ok THEN AfterSuccess ELSE AfterFailure
            /\ circuitStates' = circuitStates \cup {StateChecked, circuit'.state}
       ELSE UNCHANGED <<circuit, circuitStates>>
    /\ downstreamFailureCount' = downstreamFailureCount + (IF ok THEN 0 ELSE 1)

FailOperation(r) ==
    /\ Reaches(r)
    /\ Burn(r)
    /\ CallDownstream(FALSE)
    /\ Refused("OPERATION", "DOWNSTREAM_UNAVAILABLE", "DOWNSTREAM_UNAVAILABLE")

(* record refuses to replace the outcome of another request, expired or not. *)
RecordConflict(r) == records[r.key] /= None /\ records[r.key].payload /= r.payload

Execution(r, recorded) ==
    [key |-> r.key, nonce |-> r.nonce, at |-> now, recorded |-> recorded]

CompleteOperation(r) ==
    LET success == Success([request |-> r.nonce, fault |-> scenario.receiptFault])
    IN  /\ Reaches(r)
        /\ Burn(r)
        /\ CallDownstream(TRUE)
        /\ executions' = Append(executions, Execution(r, ~RecordConflict(r)))
        /\ reasonCodes' = reasonCodes \cup {"OPERATION_COMPLETED"}
        /\ IF RecordConflict(r)
           THEN \* the exception leaves receive with the operation done
                /\ response' = Failure("IDEMPOTENCY_RECORD_CONFLICT")
                /\ UNCHANGED <<records, lastDecision, lastAcceptedDecision>>
           ELSE /\ response' = success
                /\ records' = [records EXCEPT ![r.key] =
                      [payload |-> r.payload, response |-> success,
                       expiresAt |-> now + Ttl]]
                /\ lastDecision' = Decision("ACCEPTED", TRUE, None)
                /\ lastAcceptedDecision' = lastDecision'

Receive(r) ==
    \/ RefuseKilled(r)
    \/ RefuseSignature(r)
    \/ RefuseReplay(r)
    \/ RefuseClaims(r)
    \/ RefuseConflict(r)
    \/ CollapseDuplicate(r)
    \/ RefuseOpenCircuit(r)
    \/ FailOperation(r)
    \/ CompleteOperation(r)

-----------------------------------------------------------------------------
(* Requests and time *)

(* buildRequest draws a nonce for every request; the sender's clock may be off. *)
Built(at, key, payload, flaw) ==
    [nonce |-> Cardinality(signed) + 1, at |-> at, key |-> key,
     payload |-> payload, flaw |-> flaw]

Build(r) ==
    /\ Cardinality(signed) < MaxRequests
    /\ signed' = signed \cup {r}
    /\ UNCHANGED <<scenario, now, sharedVars, decisionVars, historyVars>>

(* The network presents a request that was signed, now, later or again. *)
Present(r) ==
    /\ r \in signed
    /\ Receive(r)
    /\ UNCHANGED <<scenario, now, signed>>

Tick ==
    /\ now < MaxTime
    /\ now' = now + 1
    /\ UNCHANGED <<scenario, signed, sharedVars, decisionVars, historyVars>>

PlatformNext ==
    \/ \E drift \in Drifts, k \in Keys, p \in Payloads :
           Build(Built(now + drift, k, p, None))
    \/ \E r \in signed : Present(r)
    \/ Tick

(* The platform before a free network. *)
PlatformSpec == PlatformInit /\ [][PlatformNext]_platformVars

-----------------------------------------------------------------------------
(* Properties *)

(* A signed request gets past the replay stage at most once, however often *)
(* and whenever the network presents it: the guard forgets a nonce only    *)
(* when the timestamp has left the skew.                                   *)
ProcessedOnce ==
    \A i, j \in DOMAIN passed : passed[i] = passed[j] => i = j

(* Within the lifetime of the record of an operation, nothing executes     *)
(* under its key again: neither a retry, nor other content, nor the same   *)
(* content at the last instant of the record.                              *)
NoSecondExecution ==
    \A i, j \in DOMAIN executions :
        /\ i < j
        /\ executions[i].key = executions[j].key
        /\ executions[i].recorded
        => executions[j].at > executions[i].at + Ttl

(* With a breaker, once as many calls as its threshold have failed in a    *)
(* row, the downstream is left alone for the reset timeout, and each probe *)
(* that fails starts the timeout again.                                    *)
BreakerHolds ==
    HasCircuit =>
        \A i \in DOMAIN calls :
            LET before == (i - scenario.circuit.failureThreshold)..(i - 1) IN
            (before \subseteq DOMAIN calls /\ \A j \in before : ~calls[j].ok) =>
                calls[i].at - calls[i - 1].at >= scenario.circuit.resetTimeout

=============================================================================
