----------------------- MODULE SyntheticPlatform_proofs -----------------------
(***************************************************************************)
(* Proofs about the platform, before a free network and driven by the      *)
(* contract runner, for any scenarios, plans, keys, payloads, clocks,      *)
(* windows of at least two skews and numbers of requests: the guards of    *)
(* the shared SDK hold at their limits, a span tells what happened, and    *)
(* every failure mode of the catalog passes for the reason it declares.    *)
(***************************************************************************)
EXTENDS ContractRunner, FiniteSetTheorems, SequenceTheorems,
        WellFoundedInduction, TLAPS

USE TimesAssumption, RequestsAssumption

-----------------------------------------------------------------------------
(* The inductive invariant *)

(* A nonce names one request of those signed, and the next one is free. *)
SignedOf(S) ==
    /\ IsFiniteSet(S) /\ S \subseteq Requests
    /\ \A r \in S : r.nonce \in 1..Cardinality(S)
    /\ \A q, r \in S : q.nonce = r.nonce => q = r

SignedInv == SignedOf(signed)

(* A nonce that was burned belongs to a request that was then in date. *)
ReplayOf(S) ==
    /\ now \in Nat
    /\ nonces \in [Nonces -> Nat \cup {None}]
    /\ \A n \in Nonces : nonces[n] /= None => n \in 1..Cardinality(S)
    /\ \A r \in S :
          nonces[r.nonce] /= None => nonces[r.nonce] - r.at \in (-Skew)..Skew
    /\ passed \in Seq(Nonces)
    /\ \A i \in DOMAIN passed : nonces[passed[i]] /= None

ReplayInv == ReplayOf(signed)

(* An operation that was recorded left a record that outlives it by Ttl. *)
Outcomes == [key: Keys, nonce: Nonces, at: Nat, recorded: BOOLEAN]

RecordInv ==
    /\ records \in [Keys -> Records \cup {None}]
    /\ executions \in Seq(Outcomes)
    /\ \A i \in DOMAIN executions :
          executions[i].recorded =>
              /\ records[executions[i].key] /= None
              /\ records[executions[i].key].expiresAt >= executions[i].at + Ttl
    /\ \A i \in DOMAIN executions : executions[i].at <= now

(* The breaker counts at least the failures in a row, and is open since    *)
(* the last one when they reach the threshold.                             *)
Calls == [ok: BOOLEAN, at: Nat]

BreakerInv ==
    /\ scenario.circuit \in Breakers \cup {None} /\ scenario.receiptFault \in ReceiptFaults
    /\ calls \in Seq(Calls)
    /\ circuit.failures \in Nat
    /\ circuit.state \in {"CLOSED", "OPEN"}
    /\ HasCircuit =>
          \A n \in 0..Len(calls) :
              (\A j \in (Len(calls) - n + 1)..Len(calls) : ~calls[j].ok)
                  => circuit.failures >= n
    /\ HasCircuit /\ circuit.failures >= scenario.circuit.failureThreshold =>
          circuit.state = "OPEN"
    /\ HasCircuit /\ circuit.state = "OPEN" =>
          calls /= <<>> /\ circuit.lastFailureAt = calls[Len(calls)].at

IInv ==
    /\ SignedInv /\ ReplayInv /\ RecordInv /\ BreakerInv
    /\ ProcessedOnce /\ NoSecondExecution /\ BreakerHolds

-----------------------------------------------------------------------------
(* What the runner adds *)

Presenting == {"EXECUTE", "PROCESS", "SECOND", "PROCESS_SECOND", "PHASE"}
Emitting == {"DELIVER", "VERIFY", "AGAIN", "RECONCILE", "SPAN"}

Shapes ==
    /\ drive = [f \in DOMAIN drive |-> drive[f]]
    /\ {"pc", "attempt", "presented"} \subseteq DOMAIN drive
    /\ drive.pc \in Presenting \cup Emitting \cup {"FREE", "DONE"}
    /\ phase = [f \in DOMAIN phase |-> phase[f]]
    /\ {"events", "step", "outcomes", "captured", "status"} \subseteq DOMAIN phase

(* The clock stands, and what is signed is for one key: it has a record as *)
(* soon as an operation was accepted, which therefore executes once.       *)
AcceptedOnce ==
    /\ now = 0
    /\ \A r \in signed : r.key = TheKey
    /\ lastAcceptedDecision = None =>
           /\ executions = <<>> /\ records[TheKey] = None
           /\ lastDecision /= None => ~lastDecision.accepted
    /\ lastAcceptedDecision /= None =>
           /\ lastAcceptedDecision.accepted
           /\ Len(executions) = 1 /\ records[TheKey] /= None

(* There is a nonce for every request that is still to be built.           *)
WithinNonces ==
    LET built(n) == Cardinality(signed) <= BuiltIn(scenario, n) IN
    /\ drive.attempt \in Nat \ {0}
    /\ At("EXECUTE") => drive.attempt <= scenario.presentations /\ built(drive.attempt - 1)
    /\ At("PROCESS") \/ At("SECOND") \/ At("PROCESS_SECOND") =>
          /\ drive.attempt <= scenario.presentations
          /\ built(drive.attempt)
          /\ ~At("PROCESS_SECOND") =>
                /\ Cardinality(signed) <= BuiltIn(scenario, drive.attempt - 1) + 1
                /\ drive.presented \in signed
    /\ At("SECOND") => scenario.second /= "NONE"

(* As long as every event was delivered, each was handed over in its turn. *)
Delivered == \A j \in DOMAIN phase.outcomes : phase.outcomes[j] = "DELIVERED"
OutcomeCodes == {"DELIVERED", "DEAD_LETTERED_AMBIGUOUS", "RETRY_EXHAUSTED"}

EventTypes == {"processing.completed", "reconciliation.completed", "reconciliation.required"}
Events == [type: EventTypes, sequence: Int]

HandedOverInTurn ==
    /\ phase.step \in Nat /\ phase.events \in Seq(Events)
    /\ phase.outcomes \in Seq(OutcomeCodes) /\ phase.captured \in Seq(Nat)
    /\ At("DELIVER") => Len(phase.outcomes) < Len(phase.events)
    /\ At("VERIFY") \/ At("AGAIN") => phase.outcomes /= <<>>
    /\ ~At("DELIVER") /\ Delivered => Len(phase.outcomes) = Len(phase.events)
    /\ Delivered =>
          /\ Len(phase.captured) = Len(phase.outcomes)
          /\ \A j \in DOMAIN phase.captured : phase.captured[j] = j

DrivenInv ==
    /\ scenario \in DrivenScenarios
    /\ AcceptedOnce
    /\ WithinNonces
    /\ drive.pc \in Presenting =>
          /\ phase.step = 0
          /\ phase.events = <<>> /\ phase.outcomes = <<>> /\ phase.captured = <<>>
    /\ drive.pc \in Emitting => lastAcceptedDecision /= None /\ HandedOverInTurn
    /\ SpanTrue

RunInv == IInv /\ Shapes /\ (~At("FREE") => DrivenInv)

-----------------------------------------------------------------------------
(* What a presented request does, by what the guards keep *)

(* The stages before the replay guard leave the nonce, the others burn it. *)
LEMMA ReceiveNonces ==
    ASSUME NEW r, Receive(r)
    PROVE  UNCHANGED <<nonces, passed>> \/ (Verified(r) /\ ~Replayed(r) /\ Burn(r))
<1>1. CASE RefuseKilled(r) \/ RefuseSignature(r) \/ RefuseReplay(r)
  BY <1>1 DEF RefuseKilled, RefuseSignature, RefuseReplay
<1>2. CASE RefuseClaims(r) \/ RefuseConflict(r) \/ CollapseDuplicate(r)
  BY <1>2 DEF RefuseClaims, RefuseConflict, CollapseDuplicate, Authorised, Fresh
<1>3. CASE RefuseOpenCircuit(r) \/ FailOperation(r) \/ CompleteOperation(r)
  BY <1>3 DEF RefuseOpenCircuit, FailOperation, CompleteOperation, Reaches, Authorised, Fresh
<1> QED
  BY <1>1, <1>2, <1>3 DEF Receive

(* Only a completed operation is executed and recorded. *)
LEMMA ReceiveRecords ==
    ASSUME NEW r, Receive(r)
    PROVE  UNCHANGED <<records, executions>> \/ CompleteOperation(r)
<1>1. CASE RefuseKilled(r) \/ RefuseSignature(r) \/ RefuseReplay(r) \/ RefuseClaims(r)
  BY <1>1 DEF RefuseKilled, RefuseSignature, RefuseReplay, RefuseClaims, Refused
<1>2. CASE RefuseConflict(r) \/ CollapseDuplicate(r) \/ RefuseOpenCircuit(r) \/ FailOperation(r)
  BY <1>2 DEF RefuseConflict, CollapseDuplicate, RefuseOpenCircuit, FailOperation, Refused
<1> QED
  BY <1>1, <1>2 DEF Receive

(* The breaker hears of every call to the downstream, and of nothing else. *)
LEMMA ReceiveCalls ==
    ASSUME NEW r, Receive(r)
    PROVE  UNCHANGED <<circuit, calls>> \/ CallDownstream(FALSE) \/ CallDownstream(TRUE)
<1>1. CASE RefuseKilled(r) \/ RefuseSignature(r) \/ RefuseReplay(r) \/ RefuseClaims(r)
  BY <1>1 DEF RefuseKilled, RefuseSignature, RefuseReplay, RefuseClaims, NoDownstream
<1>2. CASE RefuseConflict(r) \/ CollapseDuplicate(r) \/ RefuseOpenCircuit(r)
  BY <1>2 DEF RefuseConflict, CollapseDuplicate, RefuseOpenCircuit, NoDownstream
<1>3. CASE FailOperation(r) \/ CompleteOperation(r)
  BY <1>3 DEF FailOperation, CompleteOperation
<1> QED
  BY <1>1, <1>2, <1>3 DEF Receive

-----------------------------------------------------------------------------
(* The parts of the invariant, under a presented request *)

LEMMA InDate ==
    ASSUME NEW r, Verified(r)
    PROVE  now - r.at \in (-Skew)..Skew
<1>1. "SIGNATURE_CLOCK_SKEW_EXCEEDED" /= None /\ "SIGNATURE_BODY_HASH_INVALID" /= None
  BY CodesAssumption DEF SignatureCodes
<1> QED
  BY <1>1 DEF Verified, SignatureFailure

(* A request that is in date and was burned is still remembered.           *)
LEMMA BurnsOnce ==
    ASSUME NEW S, SignedOf(S), ReplayOf(S), NEW r \in S, Verified(r), ~Replayed(r)
    PROVE  nonces[r.nonce] = None
<1> SUFFICES ASSUME nonces[r.nonce] /= None PROVE FALSE
  OBVIOUS
<1>1. r.at \in Int /\ r.nonce \in Nonces
  BY DEF SignedOf, Requests
<1>2. nonces[r.nonce] \in Nat /\ nonces[r.nonce] - r.at \in (-Skew)..Skew
  BY <1>1 DEF ReplayOf
<1>3. now - r.at \in (-Skew)..Skew
  BY InDate
<1>4. now - nonces[r.nonce] > Window
  BY <1>2 DEF Replayed, ReplayOf
<1> QED
  BY <1>1, <1>2, <1>3, <1>4 DEF ReplayOf

LEMMA PresentReplay ==
    ASSUME NEW S, SignedOf(S), ReplayOf(S), ProcessedOnce,
           NEW r \in S, Receive(r), now' = now
    PROVE  ReplayOf(S)' /\ ProcessedOnce'
<1>2. CASE UNCHANGED <<nonces, passed>>
  BY <1>2 DEF ReplayOf, ProcessedOnce
<1>3. CASE Verified(r) /\ ~Replayed(r) /\ Burn(r)
  <2>1. r.nonce \in Nonces /\ r.at \in Int /\ r.nonce \in 1..Cardinality(S)
    BY DEF SignedOf, Requests
  <2>2. nonces[r.nonce] = None
    BY <1>3, BurnsOnce
  <2>3. nonces' = [nonces EXCEPT ![r.nonce] = now] /\ passed' = Append(passed, r.nonce)
    BY <1>3 DEF Burn
  <2>4. now - r.at \in (-Skew)..Skew
    BY <1>3, InDate
  <2>5. \A q \in S : q.nonce = r.nonce => q = r
    BY DEF SignedOf
  <2>6. /\ nonces' \in [Nonces -> Nat \cup {None}]
        /\ \A n \in Nonces : nonces'[n] = IF n = r.nonce THEN now ELSE nonces[n]
    BY <2>1, <2>3 DEF ReplayOf
  <2>7. /\ passed' \in Seq(Nonces) /\ DOMAIN passed' = 1..(Len(passed) + 1)
        /\ passed'[Len(passed) + 1] = r.nonce
        /\ \A i \in 1..Len(passed) : passed'[i] = passed[i] /\ passed[i] \in Nonces
        /\ Len(passed) \in Nat
    BY <2>1, <2>3 DEF ReplayOf
  <2>8. \A i \in 1..Len(passed) : nonces[passed[i]] /= None
    BY <2>7 DEF ReplayOf
  <2>9. \A n \in Nonces : nonces'[n] /= None => n \in 1..Cardinality(S)
    BY <2>1, <2>6 DEF ReplayOf
  <2>10. \A q \in S : nonces'[q.nonce] /= None => nonces'[q.nonce] - q.at \in (-Skew)..Skew
    <3> SUFFICES ASSUME NEW q \in S, nonces'[q.nonce] /= None
                 PROVE  nonces'[q.nonce] - q.at \in (-Skew)..Skew
      OBVIOUS
    <3>1. q.nonce \in Nonces
      BY DEF SignedOf, Requests
    <3>2. CASE q.nonce = r.nonce
      BY <2>4, <2>5, <2>6, <3>1, <3>2
    <3>3. CASE q.nonce /= r.nonce
      BY <2>6, <3>1, <3>3 DEF ReplayOf
    <3> QED
      BY <3>2, <3>3
  <2>11. \A i \in DOMAIN passed' : nonces'[passed'[i]] /= None
    BY <2>1, <2>6, <2>7, <2>8 DEF ReplayOf
  <2>12. ProcessedOnce'
    BY <2>2, <2>7, <2>8 DEF ProcessedOnce, ReplayOf
  <2> QED
    BY <2>6, <2>7, <2>9, <2>10, <2>11, <2>12 DEF ReplayOf
<1> QED
  BY <1>2, <1>3, ReceiveNonces

(* What is recorded is kept until it has expired.                          *)
LEMMA PresentRecords ==
    ASSUME now \in Nat, RecordInv, BreakerInv, NoSecondExecution,
           NEW r \in Requests, Receive(r), now' = now, scenario' = scenario
    PROVE  RecordInv' /\ NoSecondExecution'
<1>2. CASE UNCHANGED <<records, executions>>
  BY <1>2 DEF RecordInv, NoSecondExecution
<1>3. CASE CompleteOperation(r)
  <2> DEFINE done == Execution(r, ~RecordConflict(r))
             success == Success([request |-> r.nonce, fault |-> scenario.receiptFault])
             record == [payload |-> r.payload, response |-> success, expiresAt |-> now + Ttl]
  <2>1. /\ r.key \in Keys /\ r.nonce \in Nonces /\ r.payload \in Payloads /\ now \in Nat
        /\ scenario.receiptFault \in ReceiptFaults
    BY DEF Requests, BreakerInv
  <2>2. record \in Records /\ record.expiresAt = now + Ttl
    BY <2>1 DEF Records, Receipts
  <2>3. done \in Outcomes /\ done.key = r.key /\ done.at = now
    BY <2>1 DEF Execution, Outcomes, RecordConflict
  <2>4. done.recorded => ~RecordConflict(r)
    BY DEF Execution
  <2>5. executions' = Append(executions, done)
    BY <1>3 DEF CompleteOperation
  <2>6. records' = IF RecordConflict(r) THEN records ELSE [records EXCEPT ![r.key] = record]
    BY <1>3 DEF CompleteOperation
  <2>7. ~Live(r.key)
    BY <1>3 DEF CompleteOperation, Reaches, IdempotencyKind
  <2> HIDE DEF done, record
  <2>8. /\ executions' \in Seq(Outcomes) /\ DOMAIN executions' = 1..(Len(executions) + 1)
        /\ executions'[Len(executions) + 1] = done
        /\ \A i \in 1..Len(executions) : executions'[i] = executions[i] /\ executions[i] \in Outcomes
        /\ Len(executions) \in Nat
    BY <2>3, <2>5 DEF RecordInv
  <2>9. records' \in [Keys -> Records \cup {None}]
    BY <2>1, <2>2, <2>6 DEF RecordInv
  <2>10. \A i \in 1..Len(executions) :
           /\ executions[i].at \in Nat /\ executions[i].at <= now /\ executions[i].key \in Keys
           /\ executions[i].recorded =>
                 /\ records[executions[i].key] /= None
                 /\ records[executions[i].key].expiresAt >= executions[i].at + Ttl
    BY <2>8 DEF RecordInv, Outcomes
  <2>11. \A i \in 1..Len(executions) :
            executions[i].recorded =>
               /\ records'[executions[i].key] /= None
               /\ records'[executions[i].key].expiresAt >= executions[i].at + Ttl
    <3> SUFFICES ASSUME NEW i \in 1..Len(executions), executions[i].recorded
                 PROVE  /\ records'[executions[i].key] /= None
                        /\ records'[executions[i].key].expiresAt >= executions[i].at + Ttl
      OBVIOUS
    <3>1. CASE records'[executions[i].key] = records[executions[i].key]
      BY <2>10, <3>1
    <3>2. CASE records'[executions[i].key] = record
      BY <2>1, <2>2, <2>10, <3>2, ScenariosAssumption
    <3> QED
      BY <2>6, <2>10, <3>1, <3>2 DEF RecordInv
  <2>12. done.recorded => /\ records'[done.key] /= None
                          /\ records'[done.key].expiresAt >= done.at + Ttl
    <3> SUFFICES ASSUME done.recorded
                 PROVE  records'[r.key] /= None /\ records'[r.key].expiresAt >= now + Ttl
      BY <2>3
    <3>1. records' = [records EXCEPT ![r.key] = record]
      BY <2>6, <2>4
    <3>2. records'[r.key] = record
      BY <2>1, <3>1 DEF RecordInv
    <3> QED
      BY <2>1, <2>2, <3>2, ScenariosAssumption
  <2>13. RecordInv'
    <3>1. \A i \in DOMAIN executions' :
             executions'[i].recorded =>
                 /\ records'[executions'[i].key] /= None
                 /\ records'[executions'[i].key].expiresAt >= executions'[i].at + Ttl
      BY <2>8, <2>11, <2>12
    <3>2. \A i \in DOMAIN executions' : executions'[i].at <= now'
      BY <2>1, <2>3, <2>8, <2>10
    <3> QED
      BY <2>8, <2>9, <3>1, <3>2 DEF RecordInv
  <2>14. \A i \in 1..Len(executions) :
            executions[i].key = done.key /\ executions[i].recorded =>
               done.at > executions[i].at + Ttl
    <3> SUFFICES ASSUME NEW i \in 1..Len(executions),
                        executions[i].key = done.key, executions[i].recorded
                 PROVE  done.at > executions[i].at + Ttl
      OBVIOUS
    <3>1. records[r.key] /= None /\ records[r.key].expiresAt >= executions[i].at + Ttl
      BY <2>3, <2>10
    <3>2. records[r.key].expiresAt \in Nat
      BY <2>1, <3>1 DEF RecordInv, Records
    <3>3. now > records[r.key].expiresAt
      BY <2>1, <2>7, <3>1, <3>2 DEF Live
    <3> QED
      BY <2>1, <2>3, <2>10, <3>1, <3>2, <3>3
  <2>15. NoSecondExecution'
    <3> SUFFICES ASSUME NEW i \in DOMAIN executions', NEW j \in DOMAIN executions', i < j,
                        executions'[i].key = executions'[j].key, executions'[i].recorded
                 PROVE  executions'[j].at > executions'[i].at + Ttl
      BY DEF NoSecondExecution
    <3>1. CASE j \in 1..Len(executions)
      BY <2>8, <3>1 DEF NoSecondExecution
    <3>2. CASE j = Len(executions) + 1
      BY <2>8, <2>14, <3>2
    <3> QED
      BY <2>8, <3>1, <3>2
  <2> QED
    BY <2>13, <2>15
<1> QED
  BY <1>2, <1>3, ReceiveRecords

-----------------------------------------------------------------------------
(* The breaker *)

LEMMA PresentBreaker ==
    ASSUME now \in Nat, BreakerInv, BreakerHolds,
           NEW r, Receive(r), now' = now, scenario' = scenario
    PROVE  BreakerInv' /\ BreakerHolds'
<1>2. CASE UNCHANGED <<circuit, calls>>
  BY <1>2 DEF BreakerInv, BreakerHolds, HasCircuit
<1>3. ASSUME NEW ok \in BOOLEAN, CallDownstream(ok) PROVE BreakerInv' /\ BreakerHolds'
  <2> DEFINE call == [ok |-> ok, at |-> now]
             threshold == scenario.circuit.failureThreshold
             timeout == scenario.circuit.resetTimeout
             L == Len(calls)
  <2>1. call.at = now /\ call \in Calls /\ now \in Nat
    BY DEF Calls
  <2>8. call.ok <=> ok
    OBVIOUS
  <2>2. calls' = Append(calls, call)
    BY <1>3 DEF CallDownstream
  <2> HIDE DEF call
  <2>3. /\ calls' \in Seq(Calls) /\ Len(calls) \in Nat
        /\ Len(calls') = Len(calls) + 1 /\ DOMAIN calls' = 1..(Len(calls) + 1)
        /\ DOMAIN calls = 1..Len(calls)
        /\ calls'[Len(calls) + 1] = call
        /\ \A i \in 1..Len(calls) : calls'[i] = calls[i] /\ calls[i] \in Calls
    BY <2>1, <2>2 DEF BreakerInv
  <2>5. HasCircuit' = HasCircuit
    BY DEF HasCircuit
  <2>6. CASE ~HasCircuit
    <3>1. circuit' = circuit
      BY <1>3, <2>6 DEF CallDownstream
    <3>2. ~HasCircuit'
      BY <2>5, <2>6
    <3> QED
      BY <2>3, <3>1, <3>2 DEF BreakerInv, BreakerHolds
  <2>7. CASE HasCircuit
    <3>1. threshold \in Nat \ {0} /\ timeout \in Nat
      BY <2>7 DEF BreakerInv, HasCircuit, Breakers
    <3>2. circuit' = IF ok THEN AfterSuccess ELSE AfterFailure
      BY <1>3, <2>7 DEF CallDownstream
    <3>3. circuit.state = "CLOSED" \/ Probing
      BY <1>3, <2>7 DEF CallDownstream, Allowed
    <3>4. \A n \in 0..L : (\A j \in (L - n + 1)..L : ~calls[j].ok) => circuit.failures >= n
      BY <2>7 DEF BreakerInv
    <3> DEFINE Counted(f) == \A n \in 0..(L + 1) :
                                (\A j \in (L + 1 - n + 1)..(L + 1) : ~calls'[j].ok) => f >= n
    <3>5. ASSUME ok
          PROVE  circuit' = AfterSuccess /\ Counted(circuit'.failures)
      <4>1. circuit' = AfterSuccess /\ circuit'.failures = 0
        BY <3>2, <3>5 DEF AfterSuccess
      <4>2. calls'[L + 1].ok
        BY <2>3, <2>8, <3>5
      <4> QED
        BY <2>3, <4>1, <4>2
    <3>6. ASSUME ~ok
          PROVE  circuit' = AfterFailure /\ Counted(circuit'.failures)
      <4>1. circuit' = AfterFailure /\ circuit'.failures = circuit.failures + 1
        BY <3>2, <3>6 DEF AfterFailure
      <4>2. circuit.failures \in Nat
        BY DEF BreakerInv
      <4> SUFFICES ASSUME NEW n \in 0..(L + 1),
                          \A j \in (L + 1 - n + 1)..(L + 1) : ~calls'[j].ok
                   PROVE  circuit.failures + 1 >= n
        BY <4>1
      <4>3. CASE n = 0
        BY <4>2, <4>3
      <4>4. CASE n /= 0
        <5>1. n - 1 \in 0..L /\ L - (n - 1) + 1 = L + 1 - n + 1
          BY <2>3, <4>4
        <5>2. \A j \in (L - (n - 1) + 1)..L : ~calls[j].ok
          BY <2>3, <5>1
        <5>3. circuit.failures >= n - 1
          BY <3>4, <5>1, <5>2
        <5> QED
          BY <2>3, <4>2, <5>3
      <4> QED
        BY <4>3, <4>4
    <3>7. Counted(circuit'.failures)
      BY <3>5, <3>6
    <3> HIDE DEF Counted
    <3>8. /\ circuit'.failures \in Nat /\ circuit'.state \in {"CLOSED", "OPEN"}
          /\ circuit'.failures >= threshold => circuit'.state = "OPEN"
          /\ circuit'.state = "OPEN" => circuit'.lastFailureAt = now
      <4>1. CASE ok
        BY <3>1, <3>5, <4>1 DEF AfterSuccess
      <4>2. CASE ~ok
        BY <3>1, <3>3, <3>6, <4>2 DEF AfterFailure, StateChecked, BreakerInv, Probing
      <4> QED
        BY <4>1, <4>2
    <3>9. BreakerInv'
      BY <2>1, <2>3, <3>7, <3>8 DEF BreakerInv, Counted
    <3>10. ASSUME L + 1 - threshold >= 1, \A j \in (L + 1 - threshold)..L : ~calls[j].ok
           PROVE  now - calls[L].at >= timeout
      <4>1. threshold \in 0..L /\ L - threshold + 1 = L + 1 - threshold
        BY <2>3, <3>1, <3>10
      <4>2. circuit.failures >= threshold
        BY <3>4, <3>10, <4>1
      <4> QED
        BY <2>7, <3>3, <4>2 DEF BreakerInv, Probing
    <3>11. BreakerHolds'
      <4> SUFFICES ASSUME NEW i \in DOMAIN calls',
                          (i - threshold)..(i - 1) \subseteq DOMAIN calls',
                          \A j \in (i - threshold)..(i - 1) : ~calls'[j].ok
                   PROVE  calls'[i].at - calls'[i - 1].at >= timeout
        BY DEF BreakerHolds
      <4>1. i \in 1..(L + 1) /\ i - threshold >= 1
        <5>1. i - threshold \in (i - threshold)..(i - 1)
          BY <2>3, <3>1
        <5> QED
          BY <2>3, <5>1
      <4>2. (i - threshold)..(i - 1) \subseteq DOMAIN calls
        BY <2>3, <3>1, <4>1
      <4>3. \A j \in (i - threshold)..(i - 1) : ~calls[j].ok
        BY <2>3, <4>2
      <4>4. i - 1 \in 1..L /\ calls'[i - 1] = calls[i - 1]
        BY <2>3, <3>1, <4>1
      <4>5. CASE i \in 1..L
        BY <2>3, <2>7, <4>2, <4>3, <4>4, <4>5 DEF BreakerHolds
      <4>6. CASE i = L + 1
        BY <2>1, <2>3, <3>1, <3>10, <4>1, <4>3, <4>4, <4>6
      <4> QED
        BY <2>3, <4>1, <4>5, <4>6
    <3> QED
      BY <3>9, <3>11
  <2> QED
    BY <2>6, <2>7
<1> QED
  BY <1>2, <1>3, ReceiveCalls

-----------------------------------------------------------------------------
(* The other steps, and the theorems *)

(* A request that is built has a nonce of its own, which nobody burned. *)
LEMMA BuildSigned ==
    ASSUME SignedInv, ReplayInv, NEW r \in Requests, r.nonce = Cardinality(signed) + 1
    PROVE  /\ SignedOf(signed \cup {r}) /\ ReplayOf(signed \cup {r})
           /\ Cardinality(signed \cup {r}) = Cardinality(signed) + 1
<1> DEFINE n == Cardinality(signed) + 1
           S == signed \cup {r}
<1>1. /\ IsFiniteSet(signed) /\ signed \subseteq Requests
      /\ \A q \in signed : q.nonce \in 1..Cardinality(signed)
      /\ \A p1, p2 \in signed : p1.nonce = p2.nonce => p1 = p2
  BY DEF SignedInv, SignedOf
<1>2. Cardinality(signed) \in Nat
  BY <1>1, FS_CardinalityType
<1>3. r \notin signed
  BY <1>1, <1>2
<1>4. IsFiniteSet(S) /\ Cardinality(S) = n
  BY <1>1, <1>3, FS_AddElement
<1>5. SignedOf(S)
  <2>1. \A q \in S : q.nonce \in 1..Cardinality(S)
    BY <1>1, <1>2, <1>4
  <2>2. \A p1, p2 \in S : p1.nonce = p2.nonce => p1 = p2
    BY <1>1, <1>2
  <2> HIDE DEF S
  <2> QED
    BY <1>1, <1>4, <2>1, <2>2 DEF SignedOf, S
<1>6. n \in Nonces
  BY DEF Requests
<1>7. nonces[n] = None
  BY <1>2, <1>6 DEF ReplayInv, ReplayOf
<1>8. ReplayOf(S)
  <2>1. \A q \in S : nonces[q.nonce] /= None => nonces[q.nonce] - q.at \in (-Skew)..Skew
    BY <1>7 DEF ReplayInv, ReplayOf
  <2>2. \A m \in Nonces : nonces[m] /= None => m \in 1..Cardinality(S)
    BY <1>2, <1>4 DEF ReplayInv, ReplayOf
  <2> HIDE DEF S
  <2> QED
    BY <2>1, <2>2 DEF ReplayInv, ReplayOf
<1> QED
  BY <1>4, <1>5, <1>8

LEMMA BuildInv ==
    ASSUME IInv, NEW drift \in Drifts, NEW k \in Keys, NEW p \in Payloads,
           Build(Built(now + drift, k, p, None))
    PROVE  IInv'
<1> DEFINE r == Built(now + drift, k, p, None)
<1>1. signed' = signed \cup {r}
  BY DEF Build
<1>2. Cardinality(signed) \in Nat
  BY FS_CardinalityType DEF IInv, SignedInv, SignedOf
<1>3. Cardinality(signed) + 1 \in Nonces /\ now + drift \in Int
  BY <1>2 DEF Build, IInv, ReplayInv, ReplayOf
<1>4. r \in Requests /\ r.nonce = Cardinality(signed) + 1
  BY <1>3 DEF Built, Requests, Flaws
<1> HIDE DEF r
<1>5. SignedOf(signed') /\ ReplayOf(signed')
  BY <1>1, <1>4, BuildSigned DEF IInv
<1>6. UNCHANGED <<scenario, now, sharedVars, decisionVars, historyVars>>
  BY DEF Build
<1>7. UNCHANGED <<scenario, now, nonces, records, circuit, passed, calls, executions>>
  BY <1>6 DEF sharedVars, historyVars
<1>8. SignedInv' /\ ReplayInv'
  BY <1>5, <1>7 DEF SignedInv, SignedOf, ReplayInv, ReplayOf
<1>9. RecordInv' /\ NoSecondExecution'
  BY <1>7 DEF IInv, RecordInv, NoSecondExecution
<1>10. BreakerInv' /\ BreakerHolds'
  BY <1>7 DEF IInv, BreakerInv, BreakerHolds, HasCircuit
<1> QED
  BY <1>7, <1>8, <1>9, <1>10 DEF IInv, ProcessedOnce

(* A request of those signed is handled, whoever presents it.              *)
LEMMA HandledInv ==
    ASSUME IInv, NEW S, SignedOf(S), ReplayOf(S), NEW r \in S,
           Receive(r), signed' = S, now' = now, scenario' = scenario
    PROVE  IInv'
<1>1. r \in Requests /\ now \in Nat
  BY DEF SignedOf, ReplayOf
<1>2. ReplayOf(S)' /\ ProcessedOnce'
  BY PresentReplay DEF IInv
<1>3. SignedInv' /\ ReplayInv'
  BY <1>2 DEF SignedInv, SignedOf, ReplayInv, ReplayOf
<1>4. RecordInv' /\ NoSecondExecution'
  BY <1>1, PresentRecords DEF IInv
<1>5. BreakerInv' /\ BreakerHolds'
  BY <1>1, PresentBreaker DEF IInv
<1> QED
  BY <1>2, <1>3, <1>4, <1>5 DEF IInv

LEMMA PresentInv ==
    ASSUME IInv, NEW r \in signed, Present(r)
    PROVE  IInv'
<1>1. PICK S : S = signed
  OBVIOUS
<1>2. SignedOf(S) /\ ReplayOf(S) /\ r \in S
  BY <1>1 DEF IInv, SignedInv, ReplayInv
<1> QED
  BY <1>1, <1>2, HandledInv DEF Present

LEMMA QuietInv ==
    ASSUME IInv, now' \in Nat, now' >= now,
           UNCHANGED <<scenario, signed, nonces, records, circuit, passed, calls, executions>>
    PROVE  IInv'
<1>1. SignedInv' /\ ReplayInv' /\ ProcessedOnce'
  <2>1. SignedInv'
    BY DEF IInv, SignedInv, SignedOf
  <2>2. ReplayInv'
    BY DEF IInv, ReplayInv, ReplayOf
  <2>3. ProcessedOnce'
    BY DEF IInv, ProcessedOnce
  <2> QED
    BY <2>1, <2>2, <2>3
<1>2. \A i \in DOMAIN executions' : executions'[i].at <= now'
  <2>1. \A i \in DOMAIN executions : executions[i] \in Outcomes /\ executions[i].at <= now
    BY DEF IInv, RecordInv
  <2>2. \A i \in DOMAIN executions : executions[i].at \in Nat
    BY <2>1 DEF Outcomes
  <2>3. now \in Nat
    BY DEF IInv, ReplayInv, ReplayOf
  <2> QED
    BY <2>1, <2>2, <2>3
<1>3. RecordInv' /\ NoSecondExecution'
  BY <1>2 DEF IInv, RecordInv, NoSecondExecution
<1>4. BreakerInv' /\ BreakerHolds'
  BY DEF IInv, BreakerInv, BreakerHolds, HasCircuit
<1> QED
  BY <1>1, <1>3, <1>4 DEF IInv

LEMMA FreshInv ==
    ASSUME FreshPlatform,
           scenario.circuit \in Breakers \cup {None}, scenario.receiptFault \in ReceiptFaults
    PROVE  IInv
<1>1. SignedInv
  <2>1. signed = {} /\ IsFiniteSet(signed)
    BY FS_EmptySet DEF FreshPlatform
  <2> QED
    BY <2>1 DEF SignedInv, SignedOf
<1>2. ReplayInv /\ ProcessedOnce
  BY DEF FreshPlatform, ReplayInv, ReplayOf, ProcessedOnce
<1>3. RecordInv /\ NoSecondExecution
  BY DEF FreshPlatform, RecordInv, NoSecondExecution
<1>4. BreakerInv /\ BreakerHolds
  <2>1. calls = <<>> /\ circuit.state = "CLOSED" /\ circuit.failures = 0
    BY DEF FreshPlatform
  <2>2. HasCircuit => scenario.circuit.failureThreshold \in Nat \ {0}
    BY DEF HasCircuit, Breakers
  <2> QED
    BY <2>1, <2>2 DEF BreakerInv, BreakerHolds
<1> QED
  BY <1>1, <1>2, <1>3, <1>4 DEF IInv

LEMMA InitInv == PlatformInit => IInv
  BY FreshInv, ScenariosAssumption DEF PlatformInit

LEMMA StepInv == IInv /\ [PlatformNext]_platformVars => IInv'
<1> SUFFICES ASSUME IInv, [PlatformNext]_platformVars PROVE IInv'
  OBVIOUS
<1>1. CASE \E drift \in Drifts, k \in Keys, p \in Payloads :
              Build(Built(now + drift, k, p, None))
  BY <1>1, BuildInv
<1>2. CASE \E r \in signed : Present(r)
  BY <1>2, PresentInv
<1>3. CASE Tick
  BY <1>3, QuietInv DEF Tick, sharedVars, historyVars, IInv, ReplayInv, ReplayOf
<1>4. CASE UNCHANGED platformVars
  BY <1>4, QuietInv DEF platformVars, sharedVars, historyVars, IInv, ReplayInv, ReplayOf
<1> QED
  BY <1>1, <1>2, <1>3, <1>4 DEF PlatformNext

(* The inductive invariant holds throughout. *)
THEOREM Invariance == PlatformSpec => []IInv
  BY InitInv, StepInv, PTL DEF PlatformSpec

(* ProcessedOnce: for every window of at least two skews, a request gets   *)
(* past the replay guard at most once, however the network repeats it.     *)
THEOREM NeverReplayed == PlatformSpec => []ProcessedOnce
<1>1. IInv => ProcessedOnce
  BY DEF IInv
<1> QED
  BY <1>1, Invariance, PTL

(* NoSecondExecution: while the record of an operation lives, nothing      *)
(* executes under its key, to the last instant.                            *)
THEOREM RecordsProtect == PlatformSpec => []NoSecondExecution
<1>1. IInv => NoSecondExecution
  BY DEF IInv
<1> QED
  BY <1>1, Invariance, PTL

(* BreakerHolds: for every threshold and timeout, the breaker keeps calls  *)
(* away from a downstream that fails.                                      *)
THEOREM BreakerProtects == PlatformSpec => []BreakerHolds
<1>1. IInv => BreakerHolds
  BY DEF IInv
<1> QED
  BY <1>1, Invariance, PTL
-----------------------------------------------------------------------------
(* The attempts of a delivery *)

(* A set of numbers has a least one. *)
LEMMA MinIsThere ==
    ASSUME NEW T, T \subseteq Nat, T /= {}
    PROVE  Min(T) \in T
<1> DEFINE R == StrictSubsetOrdering(Nat)
           Initials == {0..n : n \in T}
<1>1. Initials \subseteq FiniteSubsetsOf(Nat) /\ Initials /= {}
  <2>1. \A n \in T : 0..n \subseteq Nat /\ IsFiniteSet(0..n)
    BY FS_Interval
  <2> QED
    BY <2>1 DEF FiniteSubsetsOf
<1>2. IsWellFoundedOn(R, FiniteSubsetsOf(Nat))
  BY FS_StrictSubsetOrderingWellFounded
<1>3. \A x, y \in T : y < x => <<0..y, 0..x>> \in R
  <2> SUFFICES ASSUME NEW x \in T, NEW y \in T, y < x PROVE <<0..y, 0..x>> \in R
    OBVIOUS
  <2>1. 0..y \subseteq 0..x /\ x \in 0..x /\ x \notin 0..y /\ 0..x \subseteq Nat
    OBVIOUS
  <2> QED
    BY <2>1 DEF StrictSubsetOrdering
<1> HIDE DEF R, Initials
<1>4. PICK I \in Initials : \A J \in Initials : <<J, I>> \notin R
  BY <1>1, <1>2, WFMin
<1>5. PICK x \in T : I = 0..x
  BY DEF Initials
<1>6. \A y \in T : 0..y \in Initials
  BY DEF Initials
<1>7. \A y \in T : ~(y < x)
  BY <1>3, <1>4, <1>5, <1>6
<1>8. \A y \in T : x <= y
  BY <1>7
<1> QED
  BY <1>8 DEF Min

LEMMA OutcomeKnown ==
    ASSUME scenario \in DrivenScenarios, NEW step \in Nat
    PROVE  AttemptsFrom(step) \in Nat \ {0} /\ OutcomeFrom(step) \in OutcomeCodes
<1>1. /\ scenario.transportScript \in Seq(TransportSteps)
      /\ scenario.transportScript /= <<>> /\ MaxAttempts \in Nat \ {0}
  BY DrivenAssumption
<1>2. AttemptsFrom(step) \in 1..MaxAttempts
  <2> DEFINE T == {n \in 1..MaxAttempts : ScriptStep(step + n) /= "CLEAN"} \cup {MaxAttempts}
  <2>1. T \subseteq Nat /\ T /= {} /\ T \subseteq 1..MaxAttempts
    BY <1>1
  <2> HIDE DEF T
  <2>2. Min(T) \in 1..MaxAttempts
    BY <2>1, MinIsThere
  <2> QED
    BY <2>2 DEF AttemptsFrom, T
<1>3. ASSUME NEW i \in Nat \ {0} PROVE ScriptStep(i) \in TransportSteps
  <2> DEFINE L == Len(scenario.transportScript)
             T == {i, L}
  <2>1. L \in Nat \ {0} /\ T \subseteq Nat /\ T /= {}
    BY <1>1
  <2> HIDE DEF T
  <2>2. Min(T) \in T
    BY <2>1, MinIsThere
  <2>3. Min(T) <= L
    <3>1. \E x \in T : \A y \in T : x <= y
      <4>1. CASE i <= L
        BY <1>3, <2>1, <4>1 DEF T
      <4>2. CASE ~(i <= L)
        BY <1>3, <2>1, <4>2 DEF T
      <4> QED
        BY <4>1, <4>2
    <3> QED
      BY <3>1 DEF Min, T
  <2>4. Min(T) \in 1..L
    BY <1>3, <2>1, <2>2, <2>3 DEF T
  <2>5. ScriptStep(i) = scenario.transportScript[Min(T)]
    BY DEF ScriptStep, T
  <2>6. scenario.transportScript[Min(T)] \in TransportSteps
    BY <1>1, <2>4
  <2> QED
    BY <2>5, <2>6
<1>4. step + AttemptsFrom(step) \in Nat \ {0}
  BY <1>1, <1>2
<1>5. ScriptStep(step + AttemptsFrom(step)) \in TransportSteps
  BY <1>3, <1>4
<1> QED
  BY <1>1, <1>2, <1>5 DEF OutcomeFrom, OutcomeCodes, TransportSteps

-----------------------------------------------------------------------------
(* The partner drives *)

LEMMA TheKeyIsOne == TheKey \in Keys /\ ThePayload \in Payloads /\ OtherPayload \in Payloads
<1>1. Keys /= {} /\ \E p, q \in Payloads : p /= q
  BY DrivenAssumption
<1>2. \E p \in Payloads : p /= ThePayload
  BY <1>1
<1> QED
  BY <1>1, <1>2 DEF TheKey, ThePayload, OtherPayload

(* While the clock stands, an operation on record is never repeated.       *)
LEMMA ReceiveOnce ==
    ASSUME AcceptedOnce, RecordInv, BreakerInv, NEW r \in Requests, r.key = TheKey,
           Receive(r), now' = now, signed' = signed \cup {r}
    PROVE  AcceptedOnce'
<1>1. now' = 0 /\ \A q \in signed' : q.key = TheKey
  BY DEF AcceptedOnce
<1>2. ASSUME NEW stage, NEW code, NEW reason, Refused(stage, code, reason)
      PROVE  AcceptedOnce'
  <2>1. /\ lastDecision' = [stage |-> stage, accepted |-> FALSE, code |-> code]
        /\ UNCHANGED <<lastAcceptedDecision, records, executions>>
    BY <1>2 DEF Refused, Decision
  <2> QED
    BY <1>1, <2>1 DEF AcceptedOnce
<1>3. Live(TheKey) <=> records[TheKey] /= None
  <2>1. records[TheKey] /= None => records[TheKey].expiresAt \in Nat
    BY TheKeyIsOne DEF RecordInv, Records
  <2> QED
    BY <2>1 DEF Live, AcceptedOnce
<1>4. CASE RefuseKilled(r) \/ RefuseSignature(r) \/ RefuseReplay(r) \/ RefuseClaims(r)
  BY <1>2, <1>4 DEF RefuseKilled, RefuseSignature, RefuseReplay, RefuseClaims
<1>5. CASE RefuseConflict(r) \/ RefuseOpenCircuit(r) \/ FailOperation(r)
  BY <1>2, <1>5 DEF RefuseConflict, RefuseOpenCircuit, FailOperation
<1>6. CASE CollapseDuplicate(r)
  <2>1. Live(TheKey)
    BY <1>6 DEF CollapseDuplicate, IdempotencyKind
  <2>2. UNCHANGED <<lastAcceptedDecision, records, executions>>
    BY <1>6 DEF CollapseDuplicate
  <2> QED
    BY <1>1, <1>3, <2>1, <2>2 DEF AcceptedOnce
<1>7. CASE CompleteOperation(r)
  <2> DEFINE success == Success([request |-> r.nonce, fault |-> scenario.receiptFault])
             record == [payload |-> r.payload, response |-> success, expiresAt |-> now + Ttl]
  <2>1. ~Live(TheKey)
    BY <1>7 DEF CompleteOperation, Reaches, IdempotencyKind
  <2>2. records[TheKey] = None /\ executions = <<>>
    BY <1>3, <2>1 DEF AcceptedOnce
  <2>3. ~RecordConflict(r)
    BY <2>2 DEF RecordConflict
  <2>4. /\ records' = [records EXCEPT ![TheKey] = record]
        /\ lastAcceptedDecision' = [stage |-> "ACCEPTED", accepted |-> TRUE, code |-> None]
        /\ executions' = Append(executions, Execution(r, ~RecordConflict(r)))
    BY <1>7, <2>3 DEF CompleteOperation, Decision
  <2>5. lastAcceptedDecision' /= None /\ lastAcceptedDecision'.accepted
    <3> DEFINE d == [stage |-> "ACCEPTED", accepted |-> TRUE, code |-> None]
    <3>1. None \notin [stage: {"ACCEPTED"}, accepted: {TRUE}, code: {None}]
      BY DrivenAssumption
    <3>2. d \in [stage: {"ACCEPTED"}, accepted: {TRUE}, code: {None}] /\ d.accepted
      OBVIOUS
    <3> QED
      BY <2>4, <3>1, <3>2
  <2>6. Len(executions') = 1
    BY <2>2, <2>4
  <2>7. records'[TheKey] = record
    BY <2>4, TheKeyIsOne DEF RecordInv
  <2>8. record \in Records
    <3>1. /\ r.nonce \in Nonces /\ r.payload \in Payloads /\ now + Ttl \in Nat
          /\ scenario.receiptFault \in ReceiptFaults
      BY DEF AcceptedOnce, BreakerInv, Requests
    <3> QED
      BY <3>1 DEF Records, Receipts
  <2>9. records'[TheKey] /= None
    BY <2>7, <2>8, ScenariosAssumption
  <2> QED
    BY <1>1, <2>5, <2>6, <2>9 DEF AcceptedOnce
<1> QED
  BY <1>4, <1>5, <1>6, <1>7 DEF Receive
(* The numbers of requests that a scenario builds grow with its attempts.  *)
LEMMA BuiltGrows ==
    ASSUME NEW s \in DrivenScenarios, NEW m \in Nat, NEW n \in Nat, m < n
    PROVE  /\ BuiltIn(s, m) \in Nat /\ BuiltIn(s, n) \in Nat
           /\ BuiltIn(s, m) + 1 <= BuiltIn(s, n)
           /\ s.second \in {"DUPLICATE", "CONFLICT"} => BuiltIn(s, m) + 2 <= BuiltIn(s, n)
  BY DEF BuiltIn

LEMMA SignedCount ==
    ASSUME SignedInv
    PROVE  Cardinality(signed) \in Nat
  BY FS_CardinalityType DEF SignedInv, SignedOf

(* The clocks of a driven scenario are numbers, its attempts have nonces.  *)
LEMMA BuiltRequest ==
    ASSUME scenario \in DrivenScenarios, SignedInv, AcceptedOnce,
           drive.attempt \in Nat \ {0}, drive.attempt <= scenario.presentations,
           Cardinality(signed) + 1 <= BuiltIn(scenario, drive.attempt),
           NEW at \in {now + scenario.drift, now}, NEW p \in Payloads,
           NEW flaw \in {scenario.flaw, None}
    PROVE  LET r == Built(at, TheKey, p, flaw)
           IN  r \in Requests /\ r.nonce = Cardinality(signed) + 1 /\ r.key = TheKey
<1>1. /\ scenario.flaw \in Flaws /\ scenario.drift \in Int
      /\ scenario.presentations \in Nat
      /\ 1..BuiltIn(scenario, scenario.presentations) \subseteq Nonces
  BY DrivenAssumption
<1>2. Cardinality(signed) \in Nat /\ now \in Int
  BY SignedCount DEF AcceptedOnce
<1>3. BuiltIn(scenario, drive.attempt) \in Nat
  BY DEF BuiltIn
<1>4. /\ BuiltIn(scenario, drive.attempt) <= BuiltIn(scenario, scenario.presentations)
      /\ BuiltIn(scenario, scenario.presentations) \in Nat
  BY <1>1 DEF BuiltIn
<1>5. Cardinality(signed) + 1 \in 1..BuiltIn(scenario, scenario.presentations)
  BY <1>2, <1>3, <1>4
<1>6. Cardinality(signed) + 1 \in Nonces
  BY <1>1, <1>5
<1>7. at \in Int /\ flaw \in Flaws
  BY <1>1, <1>2 DEF Flaws
<1> QED
  BY <1>6, <1>7, TheKeyIsOne DEF Built, Requests

(* A request that is presented, new or again.                              *)
LEMMA ExecuteKeeps ==
    ASSUME RunInv, At("EXECUTE") \/ At("SECOND"),
           NEW r, NEW expected, ExecuteRequest(r, expected), r.key = TheKey,
           \/ r \in signed
           \/ r \in Requests /\ r.nonce = Cardinality(signed) + 1
    PROVE  /\ IInv' /\ Shapes' /\ AcceptedOnce'
           /\ UNCHANGED <<scenario, phase>>
           /\ drive'.attempt = drive.attempt /\ drive'.presented = r
           /\ drive'.pc = IF At("EXECUTE") THEN "PROCESS" ELSE "PROCESS_SECOND"
           /\ signed' = signed \cup {r}
           /\ Cardinality(signed') = IF r \in signed THEN Cardinality(signed)
                                     ELSE Cardinality(signed) + 1
<1>1. /\ signed' = signed \cup {r} /\ Receive(r)
      /\ UNCHANGED <<scenario, now, phase>>
      /\ drive' = [drive EXCEPT !.pc = IF At("EXECUTE") THEN "PROCESS" ELSE "PROCESS_SECOND",
                                !.presented = r, !.expected = expected]
  BY DEF ExecuteRequest
<1>2. SignedInv /\ ReplayInv /\ RecordInv /\ BreakerInv /\ IInv /\ Shapes /\ AcceptedOnce
  BY DEF RunInv, IInv, DrivenInv, At
<1>3. PICK S : S = signed \cup {r}
  OBVIOUS
<1>4. /\ SignedOf(S) /\ ReplayOf(S) /\ r \in S /\ r \in Requests
      /\ Cardinality(S) = IF r \in signed THEN Cardinality(signed) ELSE Cardinality(signed) + 1
  <2>1. CASE r \in signed
    <3>1. S = signed
      BY <1>3, <2>1
    <3> QED
      BY <1>2, <2>1, <3>1 DEF SignedInv, SignedOf, ReplayInv
  <2>2. CASE r \notin signed
    <3>1. r \in Requests /\ r.nonce = Cardinality(signed) + 1
      BY <2>2
    <3> QED
      BY <1>2, <1>3, <2>2, <3>1, BuildSigned
  <2> QED
    BY <2>1, <2>2
<1>5. IInv'
  BY <1>1, <1>2, <1>3, <1>4, HandledInv
<1>6. AcceptedOnce'
  BY <1>1, <1>2, <1>4, ReceiveOnce
<1>7. /\ Shapes'
      /\ drive'.attempt = drive.attempt /\ drive'.presented = r
      /\ drive'.pc = IF At("EXECUTE") THEN "PROCESS" ELSE "PROCESS_SECOND"
  BY <1>1, <1>2 DEF Shapes, Presenting, At
<1> QED
  BY <1>1, <1>3, <1>4, <1>5, <1>6, <1>7

LEMMA ExecuteStep ==
    ASSUME RunInv, Execute
    PROVE  RunInv'
<1> DEFINE r == Built(now + scenario.drift, TheKey, ThePayload, scenario.flaw)
<1>1. At("EXECUTE") /\ ExecuteRequest(r, r.nonce)
  BY DEF Execute
<1>2. /\ SignedInv /\ AcceptedOnce /\ scenario \in DrivenScenarios /\ DrivenInv
      /\ drive.attempt \in Nat \ {0} /\ drive.attempt <= scenario.presentations
      /\ Cardinality(signed) <= BuiltIn(scenario, drive.attempt - 1)
  BY <1>1 DEF RunInv, IInv, DrivenInv, WithinNonces, At
<1>3. /\ Cardinality(signed) \in Nat /\ BuiltIn(scenario, drive.attempt - 1) \in Nat
      /\ BuiltIn(scenario, drive.attempt - 1) + 1 <= BuiltIn(scenario, drive.attempt)
      /\ BuiltIn(scenario, drive.attempt) \in Nat
  BY <1>2, SignedCount, BuiltGrows
<1>4. r \in Requests /\ r.nonce = Cardinality(signed) + 1 /\ r.key = TheKey
  BY <1>2, <1>3, BuiltRequest, TheKeyIsOne
<1> HIDE DEF r
<1>5. /\ IInv' /\ Shapes' /\ AcceptedOnce' /\ UNCHANGED <<scenario, phase>>
      /\ drive'.attempt = drive.attempt /\ drive'.presented = r
      /\ drive'.pc = "PROCESS" /\ signed' = signed \cup {r}
      /\ Cardinality(signed') \in {Cardinality(signed), Cardinality(signed) + 1}
  BY <1>1, <1>4, ExecuteKeeps
<1>6. WithinNonces'
  BY <1>2, <1>3, <1>5 DEF WithinNonces, At
<1> QED
  BY <1>1, <1>2, <1>5, <1>6 DEF RunInv, DrivenInv, SpanTrue, At, Presenting, Emitting
LEMMA ExecuteSecondStep ==
    ASSUME RunInv, ExecuteSecond
    PROVE  RunInv'
<1> DEFINE r == SecondRequest
           e == IF scenario.second = "CONFLICT" THEN SecondRequest.nonce ELSE drive.expected
<1>1. At("SECOND") /\ ExecuteRequest(r, e)
  BY DEF ExecuteSecond
<1>2. /\ SignedInv /\ AcceptedOnce /\ scenario \in DrivenScenarios /\ DrivenInv
      /\ drive.attempt \in Nat \ {0} /\ drive.attempt <= scenario.presentations
      /\ Cardinality(signed) <= BuiltIn(scenario, drive.attempt)
      /\ Cardinality(signed) <= BuiltIn(scenario, drive.attempt - 1) + 1
      /\ drive.presented \in signed /\ scenario.second /= "NONE"
  BY <1>1 DEF RunInv, IInv, DrivenInv, WithinNonces, At
<1>3. scenario.second \in {"REPLAY", "DUPLICATE", "CONFLICT"}
  BY <1>2, DrivenAssumption
<1>4. /\ Cardinality(signed) \in Nat /\ BuiltIn(scenario, drive.attempt - 1) \in Nat
      /\ BuiltIn(scenario, drive.attempt) \in Nat
      /\ scenario.second \in {"DUPLICATE", "CONFLICT"} =>
            Cardinality(signed) + 1 <= BuiltIn(scenario, drive.attempt)
  BY <1>2, SignedCount, BuiltGrows
<1>5. /\ r.key = TheKey
      /\ \/ r \in signed
         \/ r \in Requests /\ r.nonce = Cardinality(signed) + 1
      /\ scenario.second = "REPLAY" => r \in signed
  <2>1. CASE scenario.second = "REPLAY"
    BY <1>2, <2>1 DEF SecondRequest, AcceptedOnce
  <2>2. CASE scenario.second = "DUPLICATE"
    <3>1. r = Built(now, TheKey, ThePayload, None)
      BY <2>2 DEF SecondRequest
    <3> HIDE DEF r
    <3> QED
      BY <1>2, <1>4, <2>2, <3>1, BuiltRequest, TheKeyIsOne
  <2>3. CASE scenario.second = "CONFLICT"
    <3>1. r = Built(now, TheKey, OtherPayload, None)
      BY <2>3 DEF SecondRequest
    <3> HIDE DEF r
    <3> QED
      BY <1>2, <1>4, <2>3, <3>1, BuiltRequest, TheKeyIsOne
  <2> QED
    BY <1>3, <2>1, <2>2, <2>3
<1> HIDE DEF r, e
<1>6. /\ IInv' /\ Shapes' /\ AcceptedOnce' /\ UNCHANGED <<scenario, phase>>
      /\ drive'.attempt = drive.attempt /\ drive'.presented = r
      /\ drive'.pc = "PROCESS_SECOND" /\ signed' = signed \cup {r}
      /\ Cardinality(signed') = IF r \in signed THEN Cardinality(signed)
                                ELSE Cardinality(signed) + 1
  BY <1>1, <1>5, ExecuteKeeps DEF At
<1>7. Cardinality(signed') <= BuiltIn(scenario, drive.attempt)
  BY <1>2, <1>3, <1>4, <1>5, <1>6
<1>8. WithinNonces'
  BY <1>2, <1>6, <1>7 DEF WithinNonces, At
<1> QED
  BY <1>1, <1>2, <1>6, <1>8 DEF RunInv, DrivenInv, SpanTrue, At, Presenting, Emitting

(* A response is read: nothing but the driver moves.                       *)
LEMMA ReadKeeps ==
    ASSUME RunInv, ~At("FREE"), UNCHANGED <<platformVars, phase>>
    PROVE  IInv' /\ AcceptedOnce' /\ UNCHANGED <<scenario, signed, phase, lastAcceptedDecision>>
<1>1. /\ UNCHANGED <<scenario, now, signed, nonces, records, circuit, passed, calls, executions>>
      /\ UNCHANGED <<lastDecision, lastAcceptedDecision>>
  BY DEF platformVars, sharedVars, historyVars, decisionVars
<1>2. IInv'
  BY <1>1, QuietInv DEF RunInv, IInv, ReplayInv, ReplayOf
<1> QED
  BY <1>1, <1>2 DEF RunInv, DrivenInv, AcceptedOnce

(* After an attempt comes the next one, or the webhook phase.              *)
LEMMA NextAttempt ==
    ASSUME RunInv, At("PROCESS") \/ At("PROCESS_SECOND"),
           UNCHANGED <<platformVars, phase>>,
           Shapes', drive'.attempt = drive.attempt + 1,
           drive'.pc = IF drive.attempt < scenario.presentations THEN "EXECUTE" ELSE "PHASE"
    PROVE  RunInv'
<1>1. ~At("FREE") /\ drive.pc \in Presenting
  BY DEF At, Presenting
<1>2. IInv' /\ AcceptedOnce' /\ UNCHANGED <<scenario, signed, phase, lastAcceptedDecision>>
  BY <1>1, ReadKeeps
<1>3. /\ drive.attempt \in Nat \ {0} /\ scenario.presentations \in Nat
      /\ Cardinality(signed) <= BuiltIn(scenario, drive.attempt)
      /\ scenario \in DrivenScenarios /\ DrivenInv
  BY <1>1, DrivenAssumption DEF RunInv, DrivenInv, WithinNonces, At
<1>4. WithinNonces'
  BY <1>2, <1>3 DEF WithinNonces, At
<1> QED
  BY <1>1, <1>2, <1>3, <1>4 DEF RunInv, DrivenInv, SpanTrue, At, Presenting, Emitting

LEMMA NoteKeeps ==
    ASSUME Shapes, NEW d, d = NoteProcessed
    PROVE  /\ d = [f \in DOMAIN drive |-> d[f]]
           /\ d.attempt = drive.attempt /\ d.pc = drive.pc /\ d.presented = drive.presented
  BY DEF Shapes, NoteProcessed
LEMMA AfterAttemptKeeps ==
    ASSUME Shapes, NEW d, d = [f \in DOMAIN drive |-> d[f]], d.attempt = drive.attempt,
           drive' = AfterAttempt(d), phase' = phase
    PROVE  /\ Shapes' /\ drive'.attempt = drive.attempt + 1
           /\ drive'.pc = IF drive.attempt < scenario.presentations THEN "EXECUTE" ELSE "PHASE"
  BY DEF Shapes, AfterAttempt, Presenting, Emitting

LEMMA ProcessStep ==
    ASSUME RunInv, Process
    PROVE  RunInv'
<1>1. PICK d : d = NoteProcessed
  OBVIOUS
<1> DEFINE ok == ProcessedCode = "OK"
           noted == [d EXCEPT
                        !.lastRequest = drive.expected,
                        !.accepted = IF ok /\ @ = None THEN drive.expected ELSE @,
                        !.plans = IF ok THEN @
                                  ELSE Append(@, PlanRetry(ProcessedCode, drive.attempt))]
<1>2. PICK n : n = noted
  OBVIOUS
<1>3. /\ At("PROCESS") /\ UNCHANGED <<platformVars, phase>>
      /\ drive' = IF scenario.second = "NONE" THEN AfterAttempt(n) ELSE [n EXCEPT !.pc = "SECOND"]
  BY <1>1, <1>2 DEF Process
<1>4. Shapes /\ ~At("FREE")
  BY <1>3 DEF RunInv, At
<1>5. /\ d = [f \in DOMAIN drive |-> d[f]]
      /\ d.attempt = drive.attempt /\ d.pc = drive.pc /\ d.presented = drive.presented
  BY <1>1, <1>4, NoteKeeps
<1>6. /\ n = [f \in DOMAIN drive |-> n[f]]
      /\ n.attempt = drive.attempt /\ n.presented = drive.presented
  BY <1>2, <1>4, <1>5 DEF Shapes
<1>7. CASE scenario.second = "NONE"
  <2>1. drive' = AfterAttempt(n) /\ phase' = phase
    BY <1>3, <1>7
  <2>2. /\ Shapes' /\ drive'.attempt = drive.attempt + 1
        /\ drive'.pc = IF drive.attempt < scenario.presentations THEN "EXECUTE" ELSE "PHASE"
    BY <1>4, <1>6, <2>1, AfterAttemptKeeps
  <2> QED
    BY <1>3, <2>2, NextAttempt
<1>8. CASE scenario.second /= "NONE"
  <2>1. drive' = [n EXCEPT !.pc = "SECOND"] /\ phase' = phase
    BY <1>3, <1>8
  <2>2. /\ Shapes' /\ drive'.attempt = drive.attempt /\ drive'.presented = drive.presented
        /\ drive'.pc = "SECOND"
    BY <1>4, <1>6, <2>1 DEF Shapes, Presenting
  <2>3. IInv' /\ AcceptedOnce' /\ UNCHANGED <<scenario, signed, phase, lastAcceptedDecision>>
    BY <1>3, <1>4, ReadKeeps
  <2>4. DrivenInv /\ scenario \in DrivenScenarios /\ WithinNonces
    BY <1>4 DEF RunInv, DrivenInv
  <2>5. WithinNonces'
    BY <1>3, <1>8, <2>2, <2>3, <2>4 DEF WithinNonces, At
  <2> QED
    BY <1>3, <2>2, <2>3, <2>4, <2>5 DEF RunInv, DrivenInv, SpanTrue, At, Presenting, Emitting
<1> QED
  BY <1>7, <1>8

LEMMA ProcessSecondStep ==
    ASSUME RunInv, ProcessSecond
    PROVE  RunInv'
<1>1. PICK d : d = NoteProcessed
  OBVIOUS
<1>2. At("PROCESS_SECOND") /\ UNCHANGED <<platformVars, phase>> /\ drive' = AfterAttempt(d)
  BY <1>1 DEF ProcessSecond
<1>3. Shapes
  BY DEF RunInv
<1>4. d = [f \in DOMAIN drive |-> d[f]] /\ d.attempt = drive.attempt
  BY <1>1, <1>3, NoteKeeps
<1>5. /\ Shapes' /\ drive'.attempt = drive.attempt + 1
      /\ drive'.pc = IF drive.attempt < scenario.presentations THEN "EXECUTE" ELSE "PHASE"
  BY <1>2, <1>3, <1>4, AfterAttemptKeeps
<1> QED
  BY <1>2, <1>5, NextAttempt

-----------------------------------------------------------------------------
(* The webhook phase *)

LEMMA PhaseKeeps ==
    ASSUME RunInv, NEW from \in {"PHASE"} \cup Emitting, NEW p,
           NEW to \in Emitting \cup {"DONE"}, PhaseStep(from, p, to),
           p = [f \in DOMAIN phase |-> p[f]]
    PROVE  /\ IInv' /\ Shapes' /\ AcceptedOnce' /\ WithinNonces' /\ DrivenInv /\ Shapes
           /\ UNCHANGED <<scenario, lastAcceptedDecision, executions>>
           /\ At(from) /\ drive'.pc = to /\ phase' = p
<1>1. At(from) /\ phase' = p /\ drive' = [drive EXCEPT !.pc = to] /\ UNCHANGED platformVars
  BY DEF PhaseStep
<1>2. ~At("FREE") /\ Shapes /\ DrivenInv
  BY <1>1 DEF RunInv, At, Emitting
<1>3. Shapes' /\ drive'.pc = to /\ drive'.attempt = drive.attempt
  BY <1>1, <1>2 DEF Shapes, Presenting, Emitting
<1>4. /\ UNCHANGED <<scenario, now, signed, nonces, records, circuit, passed, calls, executions>>
      /\ UNCHANGED <<lastDecision, lastAcceptedDecision>>
  BY <1>1 DEF platformVars, sharedVars, historyVars, decisionVars
<1>5. IInv'
  BY <1>4, QuietInv DEF RunInv, IInv, ReplayInv, ReplayOf
<1>6. AcceptedOnce'
  BY <1>2, <1>4 DEF DrivenInv, AcceptedOnce
<1>7. WithinNonces'
  BY <1>2, <1>3 DEF DrivenInv, WithinNonces, At, Emitting
<1> QED
  BY <1>1, <1>2, <1>3, <1>4, <1>5, <1>6, <1>7

(* While the phase goes on, it is enough to look at what was handed over.  *)
LEMMA EmittingInv ==
    ASSUME RunInv, NEW from \in {"PHASE"} \cup Emitting, NEW p, NEW to \in Emitting,
           PhaseStep(from, p, to), p = [f \in DOMAIN phase |-> p[f]],
           lastAcceptedDecision /= None, HandedOverInTurn'
    PROVE  RunInv'
  BY PhaseKeeps DEF RunInv, DrivenInv, SpanTrue, At, Presenting, Emitting

(* The gate lets through what was accepted, and nothing else.              *)
LEMMA GateTells ==
    ASSUME AcceptedOnce
    PROVE  Gate <=> lastAcceptedDecision /= None
  BY DEF AcceptedOnce, Gate

LEMMA EventType ==
    ASSUME NEW t \in EventTypes, NEW n \in Int
    PROVE  [type |-> t, sequence |-> n] \in Events
  BY DEF Events

LEMMA OpenPhaseStep ==
    ASSUME RunInv, OpenPhase
    PROVE  RunInv'
<1> DEFINE events == IF KnownType THEN EmittedEvents ELSE <<>>
           p == [phase EXCEPT
                    !.requestId = IF drive.accepted /= None THEN drive.accepted
                                  ELSE drive.lastRequest,
                    !.views = EmittedEvents,
                    !.events = events]
           to == IF KnownType /\ scenario.emitEventCount > 0 THEN "DELIVER" ELSE "SPAN"
<1>1. Gate /\ PhaseStep("PHASE", p, to)
  BY DEF OpenPhase
<1>2. Shapes /\ DrivenInv /\ At("PHASE")
  BY <1>1 DEF RunInv, PhaseStep, At
<1>3. /\ scenario \in DrivenScenarios /\ lastAcceptedDecision /= None
      /\ phase.step = 0 /\ phase.outcomes = <<>> /\ phase.captured = <<>>
  BY <1>1, <1>2, GateTells DEF DrivenInv, At, Presenting
<1>4. p = [f \in DOMAIN phase |-> p[f]] /\ to \in Emitting
  BY <1>2 DEF Shapes, Emitting
<1>5. p.events = events /\ p.step = 0 /\ p.outcomes = <<>> /\ p.captured = <<>>
  BY <1>2, <1>3 DEF Shapes
<1>6. /\ events \in Seq(Events) /\ scenario.emitEventCount \in Nat
      /\ Len(events) = IF KnownType THEN scenario.emitEventCount ELSE 0
  <2>1. /\ scenario.emitEventCount \in Nat /\ scenario.secondOffset \in Int
    BY <1>3, DrivenAssumption
  <2>2. CASE KnownType
    <3> DEFINE event(k) ==
                  [type |-> IF KnownType THEN scenario.eventType ELSE "WEBHOOK_EVENT_TYPE_UNKNOWN",
                   sequence |-> IF k = 2 THEN k + scenario.secondOffset ELSE k]
    <3>1. \A k \in 1..scenario.emitEventCount : event(k) \in Events
      <4> SUFFICES ASSUME NEW k \in 1..scenario.emitEventCount PROVE event(k) \in Events
        OBVIOUS
      <4>1. (IF KnownType THEN scenario.eventType ELSE "WEBHOOK_EVENT_TYPE_UNKNOWN")
                \in EventTypes
        BY <2>2 DEF KnownType, EventTypes
      <4>2. (IF k = 2 THEN k + scenario.secondOffset ELSE k) \in Int
        BY <2>1
      <4> QED
        BY <4>1, <4>2, EventType
    <3>2. events = [k \in 1..scenario.emitEventCount |-> event(k)]
      BY <2>2 DEF EmittedEvents
    <3> HIDE DEF event, events
    <3> QED
      BY <2>1, <2>2, <3>1, <3>2
  <2>3. CASE ~KnownType
    BY <2>1, <2>3
  <2> QED
    BY <2>2, <2>3
<1> HIDE DEF p, events
<1>7. drive'.pc = to /\ phase' = p
  BY <1>1, <1>4, PhaseKeeps
<1>8. HandedOverInTurn'
  <2>1. to = "DELIVER" => Len(events) > 0
    BY <1>6
  <2>2. to = "SPAN" => Len(events) = 0
    BY <1>6
  <2>3. /\ Len(<<>>) = 0 /\ DOMAIN <<>> = {}
        /\ <<>> \in Seq(OutcomeCodes) /\ <<>> \in Seq(Nat)
    OBVIOUS
  <2>4. to \in {"DELIVER", "SPAN"}
    OBVIOUS
  <2> HIDE DEF to
  <2>5. /\ phase'.step \in Nat /\ phase'.events \in Seq(Events)
        /\ phase'.outcomes \in Seq(OutcomeCodes) /\ phase'.captured \in Seq(Nat)
        /\ phase'.outcomes = <<>> /\ phase'.captured = <<>> /\ phase'.events = events
    BY <1>6, <1>7, <1>5, <2>3
  <2> QED
    BY <1>6, <1>7, <2>1, <2>2, <2>3, <2>4, <2>5 DEF HandedOverInTurn, Delivered, At
<1> QED
  BY <1>1, <1>3, <1>4, <1>8, EmittingInv

LEMMA RefusePhaseStep ==
    ASSUME RunInv, RefusePhase
    PROVE  RunInv'
<1> DEFINE p == [phase EXCEPT !.status = "FAILED", !.reconciliationStatus = "NONE"]
<1>1. ~Gate /\ PhaseStep("PHASE", p, "DONE")
  BY DEF RefusePhase
<1>2. Shapes /\ DrivenInv /\ At("PHASE")
  BY <1>1 DEF RunInv, PhaseStep, At
<1>3. phase.step = 0 /\ executions = <<>>
  <2>1. lastAcceptedDecision = None
    BY <1>1, <1>2, GateTells DEF DrivenInv
  <2> QED
    BY <1>2, <2>1 DEF DrivenInv, AcceptedOnce, At, Presenting
<1>4. p = [f \in DOMAIN phase |-> p[f]] /\ p.status = "FAILED" /\ p.step = 0
  BY <1>2, <1>3 DEF Shapes
<1> HIDE DEF p
<1>5. /\ IInv' /\ Shapes' /\ AcceptedOnce' /\ WithinNonces'
      /\ UNCHANGED <<scenario, executions>> /\ drive'.pc = "DONE" /\ phase' = p
  BY <1>1, <1>4, PhaseKeeps
<1>6. SpanTrue'
  BY <1>3, <1>4, <1>5 DEF SpanTrue
<1> QED
  BY <1>2, <1>5, <1>6 DEF RunInv, DrivenInv, Presenting, Emitting
(* What a delivery leaves. *)
LEMMA SentKeeps ==
    ASSUME scenario \in DrivenScenarios, NEW q, NEW i \in Nat, NEW s, s = Sent(q, i),
           q = [f \in DOMAIN phase |-> q[f]],
           {"events", "step", "outcomes", "captured", "status"} \subseteq DOMAIN phase,
           q.step \in Nat, q.captured \in Seq(Nat)
    PROVE  /\ s = [f \in DOMAIN phase |-> s[f]] /\ s.step \in Nat
           /\ s.events = q.events /\ s.outcomes = q.outcomes /\ s.captured \in Seq(Nat)
           /\ s.captured = IF OutcomeFrom(q.step) = "DELIVERED" THEN Append(q.captured, i)
                           ELSE q.captured
<1>1. AttemptsFrom(q.step) \in Nat
  BY OutcomeKnown
<1>2. PICK c : c = IF OutcomeFrom(q.step) = "DELIVERED" THEN Append(q.captured, i) ELSE q.captured
  OBVIOUS
<1>3. c \in Seq(Nat)
  BY <1>2
<1>4. PICK n \in Nat : n = q.step + AttemptsFrom(q.step)
  BY <1>1
<1>5. s = [q EXCEPT !.step = n, !.captured = c]
  BY <1>2, <1>4 DEF Sent
<1>6. /\ s = [f \in DOMAIN phase |-> s[f]]
      /\ s.step = n /\ s.captured = c /\ s.events = q.events /\ s.outcomes = q.outcomes
  BY <1>5
<1> QED
  BY <1>2, <1>3, <1>6

LEMMA VerifiedKeeps ==
    ASSUME NEW q, NEW i, NEW s, s = VerifiedBy(q, i), q = [f \in DOMAIN phase |-> q[f]],
           {"events", "step", "outcomes", "captured", "status"} \subseteq DOMAIN phase
    PROVE  /\ s = [f \in DOMAIN phase |-> s[f]]
           /\ s.step = q.step /\ s.events = q.events
           /\ s.outcomes = q.outcomes /\ s.captured = q.captured
  BY DEF VerifiedBy

LEMMA EmittingFacts ==
    ASSUME RunInv, drive.pc \in Emitting
    PROVE  /\ Shapes /\ DrivenInv /\ scenario \in DrivenScenarios
           /\ lastAcceptedDecision /= None /\ HandedOverInTurn
  BY DEF RunInv, DrivenInv, At, Emitting

LEMMA DeliverStep ==
    ASSUME RunInv, Deliver
    PROVE  RunInv'
<1> DEFINE i == Len(phase.outcomes) + 1
           outcome == OutcomeFrom(phase.step)
           to == IF i < Len(phase.events) THEN "DELIVER" ELSE "VERIFY"
<1>1. PICK s : s = Sent(phase, i)
  OBVIOUS
<1>2. PICK p : p = [s EXCEPT !.outcomes = Append(@, outcome)]
  OBVIOUS
<1>3. PhaseStep("DELIVER", p, to) /\ At("DELIVER")
  BY <1>1, <1>2 DEF Deliver, PhaseStep
<1>4. /\ Shapes /\ DrivenInv /\ scenario \in DrivenScenarios
      /\ lastAcceptedDecision /= None /\ HandedOverInTurn
  BY <1>3, EmittingFacts DEF At, Emitting
<1>5. /\ phase.step \in Nat /\ phase.outcomes \in Seq(OutcomeCodes)
      /\ phase.captured \in Seq(Nat) /\ Len(phase.outcomes) < Len(phase.events)
      /\ Len(phase.events) \in Nat /\ phase.events \in Seq(Events)
  BY <1>3, <1>4 DEF HandedOverInTurn
<1>6. i \in Nat /\ outcome \in OutcomeCodes
  <2>1. i \in Nat
    BY <1>5
  <2>2. outcome \in OutcomeCodes
    BY <1>4, <1>5, OutcomeKnown
  <2> QED
    BY <2>1, <2>2
<1>7. /\ s = [f \in DOMAIN phase |-> s[f]] /\ s.step \in Nat
      /\ s.events = phase.events /\ s.outcomes = phase.outcomes /\ s.captured \in Seq(Nat)
      /\ s.captured = IF outcome = "DELIVERED" THEN Append(phase.captured, i) ELSE phase.captured
  <2>1. /\ phase = [f \in DOMAIN phase |-> phase[f]]
        /\ {"events", "step", "outcomes", "captured", "status"} \subseteq DOMAIN phase
    BY <1>4 DEF Shapes
  <2> HIDE DEF i
  <2> QED
    BY <1>1, <1>4, <1>5, <1>6, <2>1, SentKeeps
<1>8. /\ p = [f \in DOMAIN phase |-> p[f]] /\ p.step \in Nat /\ p.events = phase.events
      /\ p.captured \in Seq(Nat) /\ p.captured = s.captured
      /\ p.outcomes = Append(phase.outcomes, outcome)
  BY <1>2, <1>4, <1>7 DEF Shapes
<1> HIDE DEF outcome
<1>9. drive'.pc = to /\ phase' = p
  BY <1>3, <1>8, PhaseKeeps DEF Emitting
<1>10. /\ p.outcomes \in Seq(OutcomeCodes) /\ Len(p.outcomes) = i
       /\ DOMAIN p.outcomes = 1..i /\ p.outcomes[i] = outcome
       /\ \A j \in 1..(i - 1) : p.outcomes[j] = phase.outcomes[j]
       /\ DOMAIN phase.outcomes = 1..(i - 1)
  <2>1. PICK o \in Seq(OutcomeCodes) : o = phase.outcomes
    BY <1>5
  <2>2. p.outcomes = Append(o, outcome) /\ i = Len(o) + 1
    BY <1>8, <2>1
  <2> QED
    BY <1>6, <2>1, <2>2
<1>11. ASSUME \A j \in DOMAIN p.outcomes : p.outcomes[j] = "DELIVERED"
       PROVE  /\ Len(p.captured) = Len(p.outcomes)
              /\ \A j \in DOMAIN p.captured : p.captured[j] = j
  <2>1. outcome = "DELIVERED" /\ \A j \in DOMAIN phase.outcomes : phase.outcomes[j] = "DELIVERED"
    BY <1>5, <1>6, <1>10, <1>11
  <2>2. /\ Len(phase.captured) = i - 1
        /\ \A j \in DOMAIN phase.captured : phase.captured[j] = j
    BY <1>4, <1>5, <2>1 DEF HandedOverInTurn, Delivered
  <2>3. p.captured = Append(phase.captured, i)
    BY <1>7, <1>8, <2>1
  <2> QED
    BY <1>5, <1>6, <1>10, <2>2, <2>3
<1>12. HandedOverInTurn'
  <2>1. /\ to = "DELIVER" => Len(p.outcomes) < Len(p.events)
        /\ to /= "DELIVER" => Len(p.outcomes) = Len(p.events)
    <3>1. PICK n \in Nat : n = Len(p.events)
      BY <1>5, <1>8
    <3>2. Len(p.outcomes) = i /\ i <= n /\ i \in Nat
      BY <1>5, <1>6, <1>8, <1>10, <3>1
    <3>3. to = IF i < n THEN "DELIVER" ELSE "VERIFY"
      BY <1>8, <3>1
    <3> HIDE DEF to, i
    <3> QED
      BY <3>1, <3>2, <3>3
  <2>2. p.outcomes /= <<>> /\ p.events \in Seq(Events) /\ p.outcomes \in Seq(OutcomeCodes)
    BY <1>5, <1>6, <1>8, <1>10
  <2> HIDE DEF to, i
  <2> QED
    BY <1>8, <1>9, <1>11, <2>1, <2>2 DEF HandedOverInTurn, Delivered, At
<1> QED
  BY <1>3, <1>4, <1>8, <1>12, EmittingInv DEF Emitting

(* The receiver looks at what it was handed, and changes none of it.       *)
LEMMA LookingInv ==
    ASSUME RunInv, NEW from \in Emitting, NEW to \in Emitting, NEW p, PhaseStep(from, p, to),
           from /= "DELIVER", to /= "DELIVER",
           to \in {"VERIFY", "AGAIN"} => from \in {"VERIFY", "AGAIN"}, p = [f \in DOMAIN phase |-> p[f]],
           p.step = phase.step, p.events = phase.events,
           p.outcomes = phase.outcomes, p.captured = phase.captured
    PROVE  RunInv'
<1>1. At(from) /\ drive.pc = from
  BY DEF PhaseStep, At
<1>2. lastAcceptedDecision /= None /\ HandedOverInTurn
  BY <1>1, EmittingFacts
<1>3. drive'.pc = to /\ phase' = p
  BY PhaseKeeps
<1>4. HandedOverInTurn'
  BY <1>1, <1>2, <1>3 DEF HandedOverInTurn, Delivered, At
<1> QED
  BY <1>2, <1>4, EmittingInv

LEMMA VerifyStep ==
    ASSUME RunInv, Verify
    PROVE  RunInv'
<1> DEFINE i == phase.captured[Len(phase.receiverCodes) + 1]
<1>1. PICK p : p = VerifiedBy(phase, i)
  OBVIOUS
<1>2. PhaseStep("VERIFY", p, "VERIFY")
  BY <1>1 DEF Verify
<1>3. Shapes
  BY DEF RunInv
<1>4. /\ p = [f \in DOMAIN phase |-> p[f]]
      /\ p.step = phase.step /\ p.events = phase.events
      /\ p.outcomes = phase.outcomes /\ p.captured = phase.captured
  BY <1>1, <1>3, VerifiedKeeps DEF Shapes
<1> QED
  BY <1>2, <1>4, LookingInv DEF Emitting

LEMMA ReceiverFaultsStep ==
    ASSUME RunInv, ReceiverFaults
    PROVE  RunInv'
<1>1. PICK verified, code, codes, again :
          PhaseStep("VERIFY",
              [phase EXCEPT !.verified = verified, !.receiverCode = code,
                            !.receiverCodes = codes, !.rePresented = again],
              "AGAIN")
  BY DEF ReceiverFaults
<1>2. PICK p : p = [phase EXCEPT !.verified = verified, !.receiverCode = code,
                                 !.receiverCodes = codes, !.rePresented = again]
  OBVIOUS
<1>3. PhaseStep("VERIFY", p, "AGAIN")
  BY <1>1, <1>2
<1>4. Shapes
  BY DEF RunInv
<1>5. /\ p = [f \in DOMAIN phase |-> p[f]]
      /\ p.step = phase.step /\ p.events = phase.events
      /\ p.outcomes = phase.outcomes /\ p.captured = phase.captured
  BY <1>2, <1>4 DEF Shapes
<1> QED
  BY <1>3, <1>5, LookingInv DEF Emitting
(* The first event again: if all went well it collapses.                   *)
LEMMA DeliverTwiceStep ==
    ASSUME RunInv, DeliverTwice
    PROVE  RunInv'
<1>1. PICK s : s = Sent(phase, 1)
  OBVIOUS
<1>2. PICK p : p = IF ~scenario.deliverTwice THEN phase
                   ELSE IF DeliveredBefore(1)
                   THEN [phase EXCEPT !.deliveredTwice = "DELIVERED_DUPLICATE"]
                   ELSE [s EXCEPT !.deliveredTwice = OutcomeFrom(phase.step)]
  OBVIOUS
<1>3. PhaseStep("AGAIN", p, "RECONCILE") /\ At("AGAIN")
  BY <1>1, <1>2 DEF DeliverTwice, PhaseStep
<1>4. /\ Shapes /\ scenario \in DrivenScenarios
      /\ lastAcceptedDecision /= None /\ HandedOverInTurn
  BY <1>3, EmittingFacts DEF At, Emitting
<1>5. CASE ~scenario.deliverTwice \/ DeliveredBefore(1)
  <2>1. p = phase \/ p = [phase EXCEPT !.deliveredTwice = "DELIVERED_DUPLICATE"]
    BY <1>2, <1>5
  <2>2. /\ p = [f \in DOMAIN phase |-> p[f]]
        /\ p.step = phase.step /\ p.events = phase.events
        /\ p.outcomes = phase.outcomes /\ p.captured = phase.captured
    BY <1>4, <2>1 DEF Shapes
  <2> QED
    BY <1>3, <2>2, LookingInv DEF Emitting
<1>6. CASE scenario.deliverTwice /\ ~DeliveredBefore(1)
  <2>1. p = [s EXCEPT !.deliveredTwice = OutcomeFrom(phase.step)]
    BY <1>2, <1>6
  <2>2. phase.step \in Nat /\ phase.captured \in Seq(Nat) /\ phase.outcomes \in Seq(OutcomeCodes)
    BY <1>4 DEF HandedOverInTurn
  <2>3. /\ phase = [f \in DOMAIN phase |-> phase[f]]
        /\ {"events", "step", "outcomes", "captured", "status"} \subseteq DOMAIN phase
    BY <1>4 DEF Shapes
  <2>4. /\ s = [f \in DOMAIN phase |-> s[f]] /\ s.step \in Nat
        /\ s.events = phase.events /\ s.outcomes = phase.outcomes /\ s.captured \in Seq(Nat)
    BY <1>1, <1>4, <2>2, <2>3, SentKeeps
  <2>5. /\ p = [f \in DOMAIN phase |-> p[f]] /\ p.step \in Nat /\ p.events = phase.events
        /\ p.outcomes = phase.outcomes /\ p.captured \in Seq(Nat)
    BY <2>1, <2>3, <2>4
  <2>6. ~Delivered
    <3> SUFFICES ASSUME Delivered PROVE DeliveredBefore(1)
      BY <1>6
    <3>1. /\ Len(phase.captured) = Len(phase.outcomes) /\ phase.outcomes /= <<>>
          /\ \A j \in DOMAIN phase.captured : phase.captured[j] = j
      BY <1>3, <1>4 DEF HandedOverInTurn
    <3>2. 1 \in DOMAIN phase.captured
      BY <2>2, <3>1
    <3> QED
      BY <3>1, <3>2 DEF DeliveredBefore
  <2>7. drive'.pc = "RECONCILE" /\ phase' = p
    BY <1>3, <2>5, PhaseKeeps DEF Emitting
  <2>8. HandedOverInTurn'
    BY <1>4, <2>5, <2>6, <2>7 DEF HandedOverInTurn, Delivered, At
  <2> QED
    BY <1>3, <1>4, <2>5, <2>8, EmittingInv DEF Emitting
<1> QED
  BY <1>5, <1>6

(* Some event was given up if and only if not all were delivered.          *)
LEMMA AmbiguousTells ==
    ASSUME phase.outcomes \in Seq(OutcomeCodes)
    PROVE  Ambiguous <=> ~Delivered
<1>1. ASSUME Delivered PROVE ~Ambiguous
  BY <1>1 DEF Ambiguous, Delivered
<1>2. ASSUME ~Ambiguous PROVE Delivered
  BY <1>2 DEF Ambiguous, Delivered, OutcomeCodes
<1> QED
  BY <1>1, <1>2

LEMMA ReconcileStep ==
    ASSUME RunInv, Reconcile
    PROVE  RunInv'
<1> DEFINE i == Len(phase.events) + 1
           event == [type |-> IF scenario.reconcile = "RESOLVE" THEN "reconciliation.completed"
                              ELSE "reconciliation.required",
                     sequence |-> scenario.emitEventCount + 1]
           outcome == OutcomeFrom(phase.step)
<1>1. PICK e : e = [phase EXCEPT !.events = Append(@, event)]
  OBVIOUS
<1>2. PICK sent : sent = Sent(e, i)
  OBVIOUS
<1>3. PICK s : s = [sent EXCEPT !.reconciliation = <<outcome>>]
  OBVIOUS
<1>4. PICK v : v = VerifiedBy(s, i)
  OBVIOUS
<1>5. PICK p : p = IF ~Ambiguous \/ scenario.reconcile = None THEN phase
                   ELSE IF outcome = "DELIVERED" THEN v ELSE s
  OBVIOUS
<1>6. PhaseStep("RECONCILE", p, "SPAN") /\ At("RECONCILE")
  BY <1>1, <1>2, <1>3, <1>4, <1>5 DEF Reconcile, PhaseStep
<1>7. /\ Shapes /\ scenario \in DrivenScenarios
      /\ lastAcceptedDecision /= None /\ HandedOverInTurn
  BY <1>6, EmittingFacts DEF At, Emitting
<1>8. CASE ~Ambiguous \/ scenario.reconcile = None
  <2>1. p = phase
    BY <1>5, <1>8
  <2>2. phase = [f \in DOMAIN phase |-> phase[f]]
    BY <1>7 DEF Shapes
  <2> QED
    BY <1>6, <2>1, <2>2, LookingInv DEF Emitting
<1>9. CASE Ambiguous /\ scenario.reconcile /= None
  <2>1. /\ phase.step \in Nat /\ phase.captured \in Seq(Nat)
        /\ phase.outcomes \in Seq(OutcomeCodes) /\ phase.events \in Seq(Events)
    BY <1>7 DEF HandedOverInTurn
  <2>2. /\ phase = [f \in DOMAIN phase |-> phase[f]]
        /\ {"events", "step", "outcomes", "captured", "status"} \subseteq DOMAIN phase
    BY <1>7 DEF Shapes
  <2>3. event \in Events
    <3>1. scenario.emitEventCount \in Nat
      BY <1>7, DrivenAssumption
    <3>2. (IF scenario.reconcile = "RESOLVE" THEN "reconciliation.completed"
           ELSE "reconciliation.required") \in EventTypes
      BY DEF EventTypes
    <3> QED
      BY <3>1, <3>2, EventType DEF event
  <2> HIDE DEF event
  <2>4. Append(phase.events, event) \in Seq(Events) /\ i \in Nat
    BY <2>1, <2>3
  <2> HIDE DEF i, outcome
  <2>5. /\ e = [f \in DOMAIN phase |-> e[f]] /\ e.events = Append(phase.events, event)
        /\ e.step = phase.step /\ e.captured = phase.captured /\ e.outcomes = phase.outcomes
    BY <1>1, <2>2
  <2>6. /\ sent = [f \in DOMAIN phase |-> sent[f]] /\ sent.step \in Nat
        /\ sent.events = e.events /\ sent.outcomes = e.outcomes /\ sent.captured \in Seq(Nat)
    BY <1>2, <1>7, <2>1, <2>2, <2>4, <2>5, SentKeeps
  <2>7. /\ s = [f \in DOMAIN phase |-> s[f]] /\ s.step \in Nat
        /\ s.events = e.events /\ s.outcomes = e.outcomes /\ s.captured \in Seq(Nat)
    BY <1>3, <2>2, <2>6
  <2>8. /\ v = [f \in DOMAIN phase |-> v[f]] /\ v.step = s.step /\ v.events = s.events
        /\ v.outcomes = s.outcomes /\ v.captured = s.captured
    BY <1>4, <2>2, <2>7, VerifiedKeeps
  <2>9. /\ p = [f \in DOMAIN phase |-> p[f]] /\ p.step \in Nat /\ p.events \in Seq(Events)
        /\ p.outcomes = phase.outcomes /\ p.captured \in Seq(Nat)
    BY <1>5, <1>9, <2>4, <2>5, <2>7, <2>8
  <2>10. ~Delivered
    BY <1>9, <2>1, AmbiguousTells
  <2>11. drive'.pc = "SPAN" /\ phase' = p
    BY <1>6, <2>9, PhaseKeeps DEF Emitting
  <2>12. HandedOverInTurn'
    BY <2>1, <2>9, <2>10, <2>11 DEF HandedOverInTurn, Delivered, At
  <2> QED
    BY <1>6, <1>7, <2>9, <2>12, EmittingInv DEF Emitting
<1> QED
  BY <1>8, <1>9
LEMMA RecordSpanStep ==
    ASSUME RunInv, RecordSpan
    PROVE  RunInv'
<1>1. PICK rec :
         PhaseStep("SPAN",
             [phase EXCEPT !.status = IF Ambiguous THEN "AMBIGUOUS" ELSE "SUCCESS",
                           !.reconciliationStatus = rec], "DONE")
  BY DEF RecordSpan
<1>2. PICK status : status = IF Ambiguous THEN "AMBIGUOUS" ELSE "SUCCESS"
  OBVIOUS
<1>3. PICK p : p = [phase EXCEPT !.status = status, !.reconciliationStatus = rec]
  OBVIOUS
<1>4. PhaseStep("SPAN", p, "DONE") /\ At("SPAN")
  BY <1>1, <1>2, <1>3 DEF PhaseStep
<1>5. /\ Shapes /\ DrivenInv /\ scenario \in DrivenScenarios
      /\ lastAcceptedDecision /= None /\ HandedOverInTurn
  BY <1>4, EmittingFacts DEF At, Emitting
<1>6. /\ p = [f \in DOMAIN phase |-> p[f]] /\ p.status = status
      /\ p.events = phase.events /\ p.captured = phase.captured
  BY <1>3, <1>5 DEF Shapes
<1>7. /\ IInv' /\ Shapes' /\ AcceptedOnce' /\ WithinNonces'
      /\ UNCHANGED <<scenario, executions>> /\ drive'.pc = "DONE" /\ phase' = p
  BY <1>4, <1>6, PhaseKeeps DEF Emitting
<1>8. status /= "FAILED" /\ Len(executions) = 1
  BY <1>2, <1>5 DEF DrivenInv, AcceptedOnce
<1>9. ASSUME status = "SUCCESS", NEW i \in DOMAIN phase.events
      PROVE  Cardinality({j \in DOMAIN phase.captured : phase.captured[j] = i}) = 1
  <2>1. phase.outcomes \in Seq(OutcomeCodes) /\ ~Ambiguous
    BY <1>2, <1>5, <1>9 DEF HandedOverInTurn
  <2>2. Delivered
    BY <2>1, AmbiguousTells
  <2>3. /\ Len(phase.captured) = Len(phase.events)
        /\ phase.captured \in Seq(Nat) /\ phase.events \in Seq(Events)
        /\ \A j \in DOMAIN phase.captured : phase.captured[j] = j
    BY <1>4, <1>5, <2>2 DEF HandedOverInTurn, At
  <2>4. {j \in DOMAIN phase.captured : phase.captured[j] = i} = {i}
    BY <1>9, <2>3
  <2> QED
    BY <2>4, FS_Singleton
<1>10. SpanTrue'
  <2>1. \A i : HandedOver(i)' = Cardinality({j \in DOMAIN phase.captured : phase.captured[j] = i})
    BY <1>6, <1>7 DEF HandedOver
  <2>2. /\ phase'.status = status /\ phase'.events = phase.events
        /\ Len(executions') = 1
    BY <1>6, <1>7, <1>8
  <2>3. status = "SUCCESS" => \A i \in DOMAIN phase'.events : HandedOver(i)' = 1
    BY <1>9, <2>1, <2>2
  <2> QED
    BY <1>8, <2>2, <2>3 DEF SpanTrue
<1> QED
  BY <1>5, <1>7, <1>10 DEF RunInv, DrivenInv, Presenting, Emitting

-----------------------------------------------------------------------------
(* The platform, whoever presents *)

LEMMA FreeStep ==
    ASSUME RunInv, Free
    PROVE  RunInv'
<1>1. At("FREE") /\ PlatformNext /\ UNCHANGED <<drive, phase>>
  BY DEF Free, runnerVars
<1>2. IInv'
  BY <1>1, StepInv DEF RunInv
<1> QED
  BY <1>1, <1>2 DEF RunInv, Shapes, At

LEMMA IdleStep ==
    ASSUME RunInv, UNCHANGED vars
    PROVE  RunInv'
<1>1. UNCHANGED <<platformVars, drive, phase>>
  BY DEF vars, runnerVars
<1>2. /\ UNCHANGED <<scenario, now, signed, nonces, records, circuit, passed, calls, executions>>
      /\ UNCHANGED <<lastDecision, lastAcceptedDecision, drive, phase>>
  BY <1>1 DEF platformVars, sharedVars, historyVars, decisionVars
<1>3. IInv'
  BY <1>2, QuietInv DEF RunInv, IInv, ReplayInv, ReplayOf
<1>4. Shapes'
  BY <1>2 DEF RunInv, Shapes
<1>5. CASE At("FREE")
  BY <1>2, <1>3, <1>4, <1>5 DEF RunInv, At
<1>6. CASE ~At("FREE")
  <2>1. DrivenInv
    BY <1>6 DEF RunInv
  <2>2. AcceptedOnce' /\ WithinNonces' /\ (HandedOverInTurn => HandedOverInTurn') /\ SpanTrue'
    <3>1. AcceptedOnce'
      BY <1>2, <2>1 DEF DrivenInv, AcceptedOnce
    <3>2. WithinNonces'
      BY <1>2, <2>1 DEF DrivenInv, WithinNonces, At
    <3>3. HandedOverInTurn => HandedOverInTurn'
      BY <1>2 DEF HandedOverInTurn, Delivered, At
    <3>4. SpanTrue'
      BY <1>2, <2>1 DEF DrivenInv, SpanTrue, HandedOver, At
    <3> QED
      BY <3>1, <3>2, <3>3, <3>4
  <2> QED
    BY <1>2, <1>3, <1>4, <2>1, <2>2 DEF RunInv, DrivenInv
<1> QED
  BY <1>5, <1>6

LEMMA RunInit == Init => RunInv
<1> SUFFICES ASSUME Init PROVE RunInv
  OBVIOUS
<1>1. FreshPlatform
  BY DEF Init
<1>2. scenario \in Scenarios \cup DrivenScenarios /\ (mode /= None => scenario \in DrivenScenarios)
  <2>1. CASE mode \in Matrix /\ scenario = mode.scenario
    BY <2>1 DEF DrivenScenarios
  <2>2. CASE \E p \in Plans : mode = Mode("plan", "SPAN", "SUCCESS", FALSE, p)
                             /\ scenario = mode.scenario
    BY <2>2 DEF Mode, DrivenScenarios
  <2>3. CASE mode = None /\ scenario \in Scenarios
    BY <2>3
  <2> QED
    BY <2>1, <2>2, <2>3 DEF Init
<1>3. scenario.circuit \in Breakers \cup {None} /\ scenario.receiptFault \in ReceiptFaults
  BY <1>2, ScenariosAssumption, DrivenAssumption
<1>4. IInv
  BY <1>1, <1>3, FreshInv
<1>5. /\ drive.pc = IF mode = None THEN "FREE" ELSE "EXECUTE"
      /\ drive.attempt = 1 /\ drive.presented = None
      /\ phase.step = 0 /\ phase.events = <<>> /\ phase.outcomes = <<>> /\ phase.captured = <<>>
  BY DEF Init
<1>6. Shapes
  <2>1. drive = [f \in DOMAIN drive |-> drive[f]] /\ {"pc", "attempt", "presented"} \subseteq DOMAIN drive
    BY DEF Init
  <2>2. /\ phase = [f \in DOMAIN phase |-> phase[f]]
        /\ {"events", "step", "outcomes", "captured", "status"} \subseteq DOMAIN phase
    BY DEF Init
  <2> QED
    BY <1>5, <2>1, <2>2 DEF Shapes, Presenting
<1>7. ASSUME ~At("FREE") PROVE DrivenInv
  <2>1. mode /= None /\ drive.pc = "EXECUTE" /\ scenario \in DrivenScenarios
    BY <1>2, <1>5, <1>7 DEF At
  <2>2. AcceptedOnce
    BY <1>1, TheKeyIsOne DEF FreshPlatform, AcceptedOnce
  <2>3. Cardinality(signed) = 0 /\ scenario.presentations \in Nat \ {0} /\ BuiltIn(scenario, 0) = 0
    <3>1. Cardinality(signed) = 0
      BY <1>1, FS_EmptySet DEF FreshPlatform
    <3>2. scenario.presentations \in Nat \ {0}
      BY <2>1, DrivenAssumption
    <3>3. BuiltIn(scenario, 0) = 0
      BY DEF BuiltIn
    <3> QED
      BY <3>1, <3>2, <3>3
  <2>4. WithinNonces
    BY <1>5, <2>1, <2>3 DEF WithinNonces, At
  <2> QED
    BY <1>5, <2>1, <2>2, <2>4 DEF DrivenInv, SpanTrue, At, Presenting, Emitting
<1> QED
  BY <1>4, <1>6, <1>7 DEF RunInv
LEMMA RunStep == RunInv /\ [Next]_vars => RunInv'
<1> SUFFICES ASSUME RunInv, [Next]_vars PROVE RunInv'
  OBVIOUS
<1>1. CASE Free
  BY <1>1, FreeStep
<1>2. CASE Execute \/ Process \/ ExecuteSecond \/ ProcessSecond
  BY <1>2, ExecuteStep, ProcessStep, ExecuteSecondStep, ProcessSecondStep
<1>3. CASE OpenPhase \/ RefusePhase
  BY <1>3, OpenPhaseStep, RefusePhaseStep
<1>4. CASE Deliver \/ Verify \/ ReceiverFaults
  BY <1>4, DeliverStep, VerifyStep, ReceiverFaultsStep
<1>5. CASE DeliverTwice \/ Reconcile \/ RecordSpan
  BY <1>5, DeliverTwiceStep, ReconcileStep, RecordSpanStep
<1>6. CASE Done \/ UNCHANGED vars
  BY <1>6, IdleStep DEF Done
<1> QED
  BY <1>1, <1>2, <1>3, <1>4, <1>5, <1>6 DEF Next

(* The inductive invariant of the platform and its driver holds throughout. *)
THEOREM RunInvariance == Spec => []RunInv
  BY RunInit, RunStep, PTL DEF Spec

(* ProcessedOnce, NoSecondExecution and BreakerHolds: the guards hold for  *)
(* the driver of the contract as for a free network.                       *)
THEOREM GuardsHold == Spec => [](ProcessedOnce /\ NoSecondExecution /\ BreakerHolds)
<1>1. RunInv => ProcessedOnce /\ NoSecondExecution /\ BreakerHolds
  BY DEF RunInv, IInv
<1> QED
  BY <1>1, RunInvariance, PTL

(* SpanTrue: for any scenario, any combination of faults and any script of *)
(* the transport, a span that tells of success stands for one operation    *)
(* whose events were all handed over once, and a span that tells of        *)
(* failure for none and no event.                                          *)
THEOREM SpansTell == Spec => []SpanTrue
<1>1. RunInv => SpanTrue
  BY DEF RunInv, DrivenInv, SpanTrue, At
<1> QED
  BY <1>1, RunInvariance, PTL

-----------------------------------------------------------------------------
(* The catalog: what stops the request of a scenario *)

(* The first failure of the chain is what resolution answers.              *)
LEMMA ResolveTells ==
    ASSUME NEW registry, NEW claims, NEW t,
           NEW i \in 1..14, Fails(Chain[i], registry, claims, t),
           \A j \in 1..(i - 1) : ~Fails(Chain[j], registry, claims, t)
    PROVE  Resolve(registry, claims, t) = Chain[i]
<1> DEFINE failing == {j \in DOMAIN Chain : Fails(Chain[j], registry, claims, t)}
<1>1. DOMAIN Chain = 1..14
  BY DEF Chain
<1>2. i \in failing /\ \A j \in failing : i <= j
  BY <1>1
<1>3. failing \subseteq Nat /\ failing /= {}
  BY <1>1, <1>2
<1> HIDE DEF failing
<1>4. \A j \in failing : (\A k \in failing : j <= k) => j = i
  BY <1>2, <1>3
<1>5. Min(failing) = i
  BY <1>2, <1>4 DEF Min
<1> QED
  BY <1>3, <1>5 DEF Resolve, failing

LEMMA ResolveClear ==
    ASSUME NEW registry, NEW claims, NEW t,
           \A j \in 1..14 : ~Fails(Chain[j], registry, claims, t)
    PROVE  Resolve(registry, claims, t) = None
<1>1. DOMAIN Chain = 1..14
  BY DEF Chain
<1> QED
  BY <1>1 DEF Resolve

(* The ladder on the registries of a scenario with one partner and one organisation. *)
LEMMA FailsOnOne ==
    ASSUME NEW p, NEW o, NEW claims, NEW t,
           p.partnerId = claims.partnerId, o.orgId = claims.orgId
    PROVE  LET R == [partners |-> {p}, orgs |-> {o}]
               bs == {b \in o.partnerBindings : b.partnerId = claims.partnerId}
               es == {e \in p.entitlements : e.entitlement = claims.entitlement}
               cs == {c \in UNION {e.capabilities : e \in es} : c.capability = claims.capability}
           IN  /\ ~Fails(Chain[1], R, claims, t)
               /\ Fails(Chain[2], R, claims, t) <=> p.status = "SUSPENDED"
               /\ Fails(Chain[3], R, claims, t) <=> p.status = "REVOKED"
               /\ ~Fails(Chain[4], R, claims, t)
               /\ Fails(Chain[5], R, claims, t) <=> o.status = "SUSPENDED"
               /\ Fails(Chain[6], R, claims, t) <=> bs = {}
               /\ Fails(Chain[7], R, claims, t) <=> \E b \in bs : b.status /= "ACTIVE"
               /\ Fails(Chain[8], R, claims, t) <=> \E b \in bs : claims.entitlement \notin b.entitlements
               /\ Fails(Chain[9], R, claims, t) <=> es = {}
               /\ Fails(Chain[10], R, claims, t) <=> \E e \in es : e.status = "INACTIVE"
               /\ Fails(Chain[11], R, claims, t) <=> \E e \in es : e.status = "REVOKED"
               /\ Fails(Chain[12], R, claims, t) <=> \E e \in es : Expired(e, t)
               /\ Fails(Chain[13], R, claims, t) <=> cs = {}
               /\ Fails(Chain[14], R, claims, t) <=> \E c \in cs : c.min > c.max
<1> DEFINE R == [partners |-> {p}, orgs |-> {o}]
           bs == {b \in o.partnerBindings : b.partnerId = claims.partnerId}
           es == {e \in p.entitlements : e.entitlement = claims.entitlement}
           cs == {c \in UNION {e.capabilities : e \in es} : c.capability = claims.capability}
<1>1. {q \in R.partners : q.partnerId = claims.partnerId} = {p}
  OBVIOUS
<1>2. {q \in R.orgs : q.orgId = claims.orgId} = {o}
  OBVIOUS
<1>3. {b \in UNION {q.partnerBindings : q \in {o}} : b.partnerId = claims.partnerId} = bs
  OBVIOUS
<1>4. {e \in UNION {q.entitlements : q \in {p}} : e.entitlement = claims.entitlement} = es
  OBVIOUS
<1> HIDE DEF R, bs, es, cs
<1>5. /\ Chain[1] = "PARTNER_UNKNOWN" /\ Chain[2] = "PARTNER_SUSPENDED"
      /\ Chain[3] = "PARTNER_REVOKED" /\ Chain[4] = "ORG_UNKNOWN"
      /\ Chain[5] = "ORG_SUSPENDED" /\ Chain[6] = "ORG_NOT_BOUND_TO_PARTNER"
      /\ Chain[7] = "BINDING_INACTIVE" /\ Chain[8] = "BINDING_UNKNOWN"
      /\ Chain[9] = "ENTITLEMENT_MISSING" /\ Chain[10] = "ENTITLEMENT_INACTIVE"
      /\ Chain[11] = "ENTITLEMENT_REVOKED" /\ Chain[12] = "ENTITLEMENT_EXPIRED"
      /\ Chain[13] = "CAPABILITY_UNKNOWN" /\ Chain[14] = "CAPABILITY_VERSION_UNSUPPORTED"
  BY DEF Chain
<1>6. /\ ~Fails("PARTNER_UNKNOWN", R, claims, t)
      /\ Fails("PARTNER_SUSPENDED", R, claims, t) <=> p.status = "SUSPENDED"
      /\ Fails("PARTNER_REVOKED", R, claims, t) <=> p.status = "REVOKED"
      /\ ~Fails("ORG_UNKNOWN", R, claims, t)
      /\ Fails("ORG_SUSPENDED", R, claims, t) <=> o.status = "SUSPENDED"
  BY <1>1, <1>2 DEF Fails
<1>7. /\ Fails("ORG_NOT_BOUND_TO_PARTNER", R, claims, t) <=> bs = {}
      /\ Fails("BINDING_INACTIVE", R, claims, t) <=> \E b \in bs : b.status /= "ACTIVE"
      /\ Fails("BINDING_UNKNOWN", R, claims, t) <=> \E b \in bs : claims.entitlement \notin b.entitlements
  BY <1>2, <1>3 DEF Fails
<1>8. /\ Fails("ENTITLEMENT_MISSING", R, claims, t) <=> es = {}
      /\ Fails("ENTITLEMENT_INACTIVE", R, claims, t) <=> \E e \in es : e.status = "INACTIVE"
      /\ Fails("ENTITLEMENT_REVOKED", R, claims, t) <=> \E e \in es : e.status = "REVOKED"
      /\ Fails("ENTITLEMENT_EXPIRED", R, claims, t) <=> \E e \in es : Expired(e, t)
  BY <1>1, <1>4 DEF Fails
<1>9. /\ Fails("CAPABILITY_UNKNOWN", R, claims, t) <=> cs = {}
      /\ Fails("CAPABILITY_VERSION_UNSUPPORTED", R, claims, t) <=> \E c \in cs : c.min > c.max
  BY <1>1, <1>4 DEF Fails, cs
<1> QED
  BY <1>5, <1>6, <1>7, <1>8, <1>9 DEF R, bs, es, cs

-----------------------------------------------------------------------------
(* The code with which a request of the scenario is stopped before the     *)
(* registry of operations, or None.                                        *)
SignedWrong(s) ==
    IF s.flaw = "BODY" THEN "SIGNATURE_BODY_HASH_INVALID"
    ELSE IF 0 - s.drift \notin (-Skew)..Skew THEN "SIGNATURE_CLOCK_SKEW_EXCEEDED"
    ELSE IF s.flaw = "NONCE" THEN "SIGNATURE_NONCE_INVALID"
    ELSE IF s.flaw = "SIGNATURE" THEN "SIGNATURE_SIGNATURE_MISMATCH"
    ELSE None

Resolved(s) == Resolve([partners |-> s.partners, orgs |-> s.orgs], s.claims, 0)

StopCode(s) ==
    IF s.killSwitch THEN "PLATFORM_KILL_SWITCH"
    ELSE IF SignedWrong(s) /= None THEN SignedWrong(s)
    ELSE Resolved(s)

(* What an injector of the registries leaves alone.                        *)
Plain(s) ==
    /\ s.flaw = None /\ s.drift = 0 /\ ~s.killSwitch
    /\ s.second = "NONE" /\ s.presentations = 1

Ordinary(id) ==
    /\ id.entitlement \notin {"other-entitlement", "claimed-unknown"}
    /\ id.capability /= "reports-unknown"
    /\ id.max \in Nat \ {0}

LEMMA SimulatorsOrdinary == \A id \in Simulators : Ordinary(id)
  BY DEF Simulators, Identity, Ordinary

LEMMA PlainSigned ==
    ASSUME NEW s, Plain(s)
    PROVE  SignedWrong(s) = None /\ StopCode(s) = Resolved(s)
<1>1. None \notin Texts /\ 0 - 0 \in (-Skew)..Skew
  BY CatalogAssumption
<1>2. None \notin {"BODY", "NONCE", "SIGNATURE"}
  BY <1>1 DEF Texts
<1> QED
  BY <1>1, <1>2 DEF Plain, SignedWrong, StopCode

LEMMA BaseIs ==
    ASSUME NEW id, NEW b, b = WellBehaved(id)
    PROVE  LET C == [capability |-> id.capability, min |-> 1, max |-> id.max]
               E == [entitlement |-> id.entitlement, status |-> "ACTIVE",
                     validUntil |-> None, capabilities |-> {C}]
               P == [partnerId |-> id.partnerId, status |-> "ACTIVE", entitlements |-> {E}]
               B == [partnerId |-> id.partnerId, status |-> "ACTIVE",
                     entitlements |-> {id.entitlement}]
               O == [orgId |-> id.orgId, status |-> "ACTIVE", partnerBindings |-> {B}]
           IN  /\ b.partners = {P} /\ b.orgs = {O}
               /\ b.claims = [partnerId |-> id.partnerId, orgId |-> id.orgId,
                              entitlement |-> id.entitlement, capability |-> id.capability]
               /\ Plain(b)
               /\ {"partners", "orgs", "claims", "flaw", "drift", "killSwitch", "second",
                   "presentations"} \subseteq DOMAIN b
  BY DEF WellBehaved, WellBehavedPartner, WellBehavedOrg, Partner, Org, Entitlement,
         Capability, Binding, Plain

(* A scenario whose claims name its one partner, organisation, binding,    *)
(* entitlement and capability.                                             *)
LEMMA OneOfEach ==
    ASSUME NEW p, NEW o, NEW bind, NEW e, NEW c, NEW claims, NEW t,
           p.partnerId = claims.partnerId, o.orgId = claims.orgId,
           bind.partnerId = claims.partnerId, o.partnerBindings = {bind},
           p.entitlements = {e}, e.entitlement = claims.entitlement,
           e.capabilities = {c}, c.capability = claims.capability
    PROVE  LET R == [partners |-> {p}, orgs |-> {o}]
           IN  /\ ~Fails(Chain[1], R, claims, t)
               /\ Fails(Chain[2], R, claims, t) <=> p.status = "SUSPENDED"
               /\ Fails(Chain[3], R, claims, t) <=> p.status = "REVOKED"
               /\ ~Fails(Chain[4], R, claims, t)
               /\ Fails(Chain[5], R, claims, t) <=> o.status = "SUSPENDED"
               /\ ~Fails(Chain[6], R, claims, t)
               /\ Fails(Chain[7], R, claims, t) <=> bind.status /= "ACTIVE"
               /\ Fails(Chain[8], R, claims, t) <=> claims.entitlement \notin bind.entitlements
               /\ ~Fails(Chain[9], R, claims, t)
               /\ Fails(Chain[10], R, claims, t) <=> e.status = "INACTIVE"
               /\ Fails(Chain[11], R, claims, t) <=> e.status = "REVOKED"
               /\ Fails(Chain[12], R, claims, t) <=> Expired(e, t)
               /\ ~Fails(Chain[13], R, claims, t)
               /\ Fails(Chain[14], R, claims, t) <=> c.min > c.max
<1> DEFINE R == [partners |-> {p}, orgs |-> {o}]
           bs == {x \in o.partnerBindings : x.partnerId = claims.partnerId}
           es == {x \in p.entitlements : x.entitlement = claims.entitlement}
           cs == {x \in UNION {y.capabilities : y \in es} : x.capability = claims.capability}
<1>1. bs = {bind} /\ es = {e}
  OBVIOUS
<1>2. cs = {c}
  <2>1. UNION {y.capabilities : y \in {e}} = {c}
    OBVIOUS
  <2> QED
    BY <1>1, <2>1
<1> HIDE DEF R, bs, es, cs
<1>3. /\ ~Fails(Chain[1], R, claims, t)
      /\ Fails(Chain[2], R, claims, t) <=> p.status = "SUSPENDED"
      /\ Fails(Chain[3], R, claims, t) <=> p.status = "REVOKED"
      /\ ~Fails(Chain[4], R, claims, t)
      /\ Fails(Chain[5], R, claims, t) <=> o.status = "SUSPENDED"
      /\ Fails(Chain[6], R, claims, t) <=> bs = {}
      /\ Fails(Chain[7], R, claims, t) <=> \E x \in bs : x.status /= "ACTIVE"
      /\ Fails(Chain[8], R, claims, t) <=> \E x \in bs : claims.entitlement \notin x.entitlements
      /\ Fails(Chain[9], R, claims, t) <=> es = {}
      /\ Fails(Chain[10], R, claims, t) <=> \E x \in es : x.status = "INACTIVE"
      /\ Fails(Chain[11], R, claims, t) <=> \E x \in es : x.status = "REVOKED"
      /\ Fails(Chain[12], R, claims, t) <=> \E x \in es : Expired(x, t)
      /\ Fails(Chain[13], R, claims, t) <=> cs = {}
      /\ Fails(Chain[14], R, claims, t) <=> \E x \in cs : x.min > x.max
  BY FailsOnOne DEF R, bs, es, cs
<1>4. R = [partners |-> {p}, orgs |-> {o}]
  BY DEF R
<1> QED
  BY <1>1, <1>2, <1>3, <1>4

(* So it resolves as the ladder of early returns would have it.            *)
Ladder(p, o, bind, e, c, claims, t) ==
    IF p.status = "SUSPENDED" THEN "PARTNER_SUSPENDED"
    ELSE IF p.status = "REVOKED" THEN "PARTNER_REVOKED"
    ELSE IF o.status = "SUSPENDED" THEN "ORG_SUSPENDED"
    ELSE IF bind.status /= "ACTIVE" THEN "BINDING_INACTIVE"
    ELSE IF claims.entitlement \notin bind.entitlements THEN "BINDING_UNKNOWN"
    ELSE IF e.status = "INACTIVE" THEN "ENTITLEMENT_INACTIVE"
    ELSE IF e.status = "REVOKED" THEN "ENTITLEMENT_REVOKED"
    ELSE IF Expired(e, t) THEN "ENTITLEMENT_EXPIRED"
    ELSE IF c.min > c.max THEN "CAPABILITY_VERSION_UNSUPPORTED"
    ELSE None

LEMMA LadderTells ==
    ASSUME NEW p, NEW o, NEW bind, NEW e, NEW c, NEW claims, NEW t,
           p.partnerId = claims.partnerId, o.orgId = claims.orgId,
           bind.partnerId = claims.partnerId, o.partnerBindings = {bind},
           p.entitlements = {e}, e.entitlement = claims.entitlement,
           e.capabilities = {c}, c.capability = claims.capability
    PROVE  Resolve([partners |-> {p}, orgs |-> {o}], claims, t)
               = Ladder(p, o, bind, e, c, claims, t)
<1> DEFINE R == [partners |-> {p}, orgs |-> {o}]
           F(j) == Fails(Chain[j], R, claims, t)
<1>1. /\ ~F(1)
      /\ F(2) <=> p.status = "SUSPENDED"
      /\ F(3) <=> p.status = "REVOKED"
      /\ ~F(4)
      /\ F(5) <=> o.status = "SUSPENDED"
      /\ ~F(6)
      /\ F(7) <=> bind.status /= "ACTIVE"
      /\ F(8) <=> claims.entitlement \notin bind.entitlements
      /\ ~F(9)
      /\ F(10) <=> e.status = "INACTIVE"
      /\ F(11) <=> e.status = "REVOKED"
      /\ F(12) <=> Expired(e, t)
      /\ ~F(13)
      /\ F(14) <=> c.min > c.max
  BY OneOfEach
<1> HIDE DEF R
<1>2. ASSUME NEW i \in 1..14, F(i), \A j \in 1..(i - 1) : ~F(j)
      PROVE  Resolve(R, claims, t) = Chain[i]
  BY <1>2, ResolveTells
<1>3. (\A j \in 1..14 : ~F(j)) => Resolve(R, claims, t) = None
  BY ResolveClear
<1>4. /\ Chain[2] = "PARTNER_SUSPENDED"
      /\ Chain[3] = "PARTNER_REVOKED"
      /\ Chain[5] = "ORG_SUSPENDED"
      /\ Chain[7] = "BINDING_INACTIVE" /\ Chain[8] = "BINDING_UNKNOWN"
      /\ Chain[10] = "ENTITLEMENT_INACTIVE"
      /\ Chain[11] = "ENTITLEMENT_REVOKED" /\ Chain[12] = "ENTITLEMENT_EXPIRED"
      /\ Chain[14] = "CAPABILITY_VERSION_UNSUPPORTED"
  BY DEF Chain
<1> HIDE DEF F
<1>5. Resolve(R, claims, t) =
          IF F(2) THEN Chain[2] ELSE IF F(3) THEN Chain[3] ELSE IF F(5) THEN Chain[5]
          ELSE IF F(7) THEN Chain[7] ELSE IF F(8) THEN Chain[8] ELSE IF F(10) THEN Chain[10]
          ELSE IF F(11) THEN Chain[11] ELSE IF F(12) THEN Chain[12]
          ELSE IF F(14) THEN Chain[14] ELSE None
  <2>1. F(2) => Resolve(R, claims, t) = Chain[2]
    BY <1>1, <1>2
  <2>2. ~F(2) /\ F(3) => Resolve(R, claims, t) = Chain[3]
    BY <1>1, <1>2
  <2>3. ~F(2) /\ ~F(3) /\ F(5) => Resolve(R, claims, t) = Chain[5]
    BY <1>1, <1>2
  <2>4. ~F(2) /\ ~F(3) /\ ~F(5) /\ F(7) => Resolve(R, claims, t) = Chain[7]
    BY <1>1, <1>2
  <2>5. ~F(2) /\ ~F(3) /\ ~F(5) /\ ~F(7) /\ F(8) => Resolve(R, claims, t) = Chain[8]
    BY <1>1, <1>2
  <2>6. ~F(2) /\ ~F(3) /\ ~F(5) /\ ~F(7) /\ ~F(8) /\ F(10) => Resolve(R, claims, t) = Chain[10]
    BY <1>1, <1>2
  <2>7. ~F(2) /\ ~F(3) /\ ~F(5) /\ ~F(7) /\ ~F(8) /\ ~F(10) /\ F(11) => Resolve(R, claims, t) = Chain[11]
    BY <1>1, <1>2
  <2>8. ~F(2) /\ ~F(3) /\ ~F(5) /\ ~F(7) /\ ~F(8) /\ ~F(10) /\ ~F(11) /\ F(12) => Resolve(R, claims, t) = Chain[12]
    BY <1>1, <1>2
  <2>9. ~F(2) /\ ~F(3) /\ ~F(5) /\ ~F(7) /\ ~F(8) /\ ~F(10) /\ ~F(11) /\ ~F(12) /\ F(14) => Resolve(R, claims, t) = Chain[14]
    BY <1>1, <1>2
  <2>10. ~F(2) /\ ~F(3) /\ ~F(5) /\ ~F(7) /\ ~F(8) /\ ~F(10) /\ ~F(11) /\ ~F(12) /\ ~F(14)
             => Resolve(R, claims, t) = None
    BY <1>1, <1>3
  <2> QED
    BY <2>1, <2>2, <2>3, <2>4, <2>5, <2>6, <2>7, <2>8, <2>9, <2>10
<1>6. Resolve(R, claims, t) = Ladder(p, o, bind, e, c, claims, t)
  BY <1>1, <1>4, <1>5 DEF Ladder
<1> QED
  BY <1>6 DEF R

(* Nothing stops the well-behaved scenario.                                *)
LEMMA BaseRuns ==
    ASSUME NEW id, Ordinary(id)
    PROVE  Plain(WellBehaved(id)) /\ Resolved(WellBehaved(id)) = None
<1> DEFINE b == WellBehaved(id)
           C == [capability |-> id.capability, min |-> 1, max |-> id.max]
           E == [entitlement |-> id.entitlement, status |-> "ACTIVE",
                 validUntil |-> None, capabilities |-> {C}]
           P == [partnerId |-> id.partnerId, status |-> "ACTIVE", entitlements |-> {E}]
           B == [partnerId |-> id.partnerId, status |-> "ACTIVE",
                 entitlements |-> {id.entitlement}]
           O == [orgId |-> id.orgId, status |-> "ACTIVE", partnerBindings |-> {B}]
<1>1. /\ b.partners = {P} /\ b.orgs = {O} /\ Plain(b)
      /\ b.claims = [partnerId |-> id.partnerId, orgId |-> id.orgId,
                     entitlement |-> id.entitlement, capability |-> id.capability]
  BY BaseIs
<1>2. /\ P.partnerId = b.claims.partnerId /\ O.orgId = b.claims.orgId
      /\ B.partnerId = b.claims.partnerId /\ O.partnerBindings = {B}
      /\ P.entitlements = {E} /\ E.entitlement = b.claims.entitlement
      /\ E.capabilities = {C} /\ C.capability = b.claims.capability
  BY <1>1
<1>3. Ladder(P, O, B, E, C, b.claims, 0) = None
  BY <1>1 DEF Expired, Ordinary, Ladder
<1> HIDE DEF b, C, E, P, B, O
<1>5. Resolve([partners |-> {P}, orgs |-> {O}], b.claims, 0) = None
  BY <1>2, <1>3, LadderTells
<1>6. Plain(b) /\ Resolved(b) = None
  BY <1>1, <1>5 DEF Resolved
<1> QED
  BY <1>6 DEF b

(* The records of the well-behaved scenario by name, and what an injector  *)
(* of one field makes of them.                                             *)
TheCapability(id) == Capability(id.capability, 1, id.max)
TheEntitlement(id) == Entitlement(id.entitlement, "ACTIVE", None, {TheCapability(id)})
TheBinding(id) == Binding(id.partnerId, "ACTIVE", {id.entitlement})
TheClaims(id) == [partnerId |-> id.partnerId, orgId |-> id.orgId,
                  entitlement |-> id.entitlement, capability |-> id.capability]

LEMMA BaseWorld ==
    ASSUME NEW id
    PROVE  /\ WellBehaved(id).partners = {WellBehavedPartner(id)}
           /\ WellBehaved(id).orgs = {WellBehavedOrg(id)}
           /\ WellBehaved(id).claims = TheClaims(id)
           /\ WellBehavedPartner(id) = Partner(id.partnerId, "ACTIVE", {TheEntitlement(id)})
           /\ WellBehavedOrg(id) = Org(id.orgId, "ACTIVE", {TheBinding(id)})
  BY DEF WellBehaved, WellBehavedPartner, WellBehavedOrg, TheClaims, TheEntitlement,
         TheCapability, TheBinding

(* A scenario with one record of each kind, linked by its claims.          *)
World(s, p, o, bind, e, c) ==
    /\ s.partners = {p} /\ s.orgs = {o} /\ Plain(s)
    /\ p.partnerId = s.claims.partnerId /\ o.orgId = s.claims.orgId
    /\ bind.partnerId = s.claims.partnerId /\ o.partnerBindings = {bind}
    /\ p.entitlements = {e} /\ e.entitlement = s.claims.entitlement
    /\ e.capabilities = {c} /\ c.capability = s.claims.capability

LEMMA WorldResolves ==
    ASSUME NEW s, NEW p, NEW o, NEW bind, NEW e, NEW c, World(s, p, o, bind, e, c)
    PROVE  Resolved(s) = Ladder(p, o, bind, e, c, s.claims, 0)
  BY LadderTells DEF World, Resolved

PartnerWith(id, field, value) == [WellBehavedPartner(id) EXCEPT ![field] = value]
OrgWith(id, field, value) == [WellBehavedOrg(id) EXCEPT ![field] = value]

LEMMA SetsPartners ==
    ASSUME NEW id, NEW field, NEW value, NEW s, s = SetPartner(WellBehaved(id), field, value)
    PROVE  /\ s.partners = {PartnerWith(id, field, value)}
           /\ s.orgs = {WellBehavedOrg(id)} /\ s.claims = TheClaims(id) /\ Plain(s)
<1>1. PICK b : b = WellBehaved(id)
  OBVIOUS
<1>2. /\ b.partners = {WellBehavedPartner(id)} /\ b.orgs = {WellBehavedOrg(id)}
      /\ b.claims = TheClaims(id) /\ Plain(b) /\ "partners" \in DOMAIN b
  BY <1>1, BaseIs, BaseWorld
<1>3. s = [b EXCEPT !.partners = {[q EXCEPT ![field] = value] : q \in b.partners}]
  BY <1>1 DEF SetPartner
<1>4. {[q EXCEPT ![field] = value] : q \in b.partners} = {PartnerWith(id, field, value)}
  BY <1>2 DEF PartnerWith
<1> QED
  BY <1>2, <1>3, <1>4 DEF Plain

LEMMA SetsOrgs ==
    ASSUME NEW id, NEW field, NEW value, NEW s, s = SetOrg(WellBehaved(id), field, value)
    PROVE  /\ s.orgs = {OrgWith(id, field, value)}
           /\ s.partners = {WellBehavedPartner(id)} /\ s.claims = TheClaims(id) /\ Plain(s)
<1>1. PICK b : b = WellBehaved(id)
  OBVIOUS
<1>2. /\ b.partners = {WellBehavedPartner(id)} /\ b.orgs = {WellBehavedOrg(id)}
      /\ b.claims = TheClaims(id) /\ Plain(b) /\ "orgs" \in DOMAIN b
  BY <1>1, BaseIs, BaseWorld
<1>3. s = [b EXCEPT !.orgs = {[q EXCEPT ![field] = value] : q \in b.orgs}]
  BY <1>1 DEF SetOrg
<1>4. {[q EXCEPT ![field] = value] : q \in b.orgs} = {OrgWith(id, field, value)}
  BY <1>2 DEF OrgWith
<1> QED
  BY <1>2, <1>3, <1>4 DEF Plain

(* The fields of the records.                                              *)
LEMMA RecordsAre ==
    ASSUME NEW id
    PROVE  /\ TheClaims(id).partnerId = id.partnerId /\ TheClaims(id).orgId = id.orgId
           /\ TheClaims(id).entitlement = id.entitlement
           /\ TheClaims(id).capability = id.capability
           /\ TheCapability(id).capability = id.capability
           /\ TheCapability(id).min = 1 /\ TheCapability(id).max = id.max
           /\ TheEntitlement(id).entitlement = id.entitlement
           /\ TheEntitlement(id).capabilities = {TheCapability(id)}
           /\ TheEntitlement(id).status = "ACTIVE" /\ TheEntitlement(id).validUntil = None
           /\ TheBinding(id).partnerId = id.partnerId /\ TheBinding(id).status = "ACTIVE"
           /\ TheBinding(id).entitlements = {id.entitlement}
           /\ WellBehavedPartner(id).partnerId = id.partnerId
           /\ WellBehavedPartner(id).status = "ACTIVE"
           /\ WellBehavedPartner(id).entitlements = {TheEntitlement(id)}
           /\ WellBehavedOrg(id).orgId = id.orgId /\ WellBehavedOrg(id).status = "ACTIVE"
           /\ WellBehavedOrg(id).partnerBindings = {TheBinding(id)}
  BY DEF TheClaims, TheCapability, TheEntitlement, TheBinding, WellBehavedPartner,
         WellBehavedOrg, Partner, Org, Entitlement, Capability, Binding

LEMMA ChangedAre ==
    ASSUME NEW id, NEW value
    PROVE  /\ PartnerWith(id, "status", value).partnerId = id.partnerId
           /\ PartnerWith(id, "status", value).status = value
           /\ PartnerWith(id, "status", value).entitlements = {TheEntitlement(id)}
           /\ OrgWith(id, "status", value).orgId = id.orgId
           /\ OrgWith(id, "status", value).status = value
           /\ OrgWith(id, "status", value).partnerBindings = {TheBinding(id)}
  BY DEF TheCapability, TheEntitlement, TheBinding, WellBehavedPartner, WellBehavedOrg,
         Partner, Org, Entitlement, Capability, Binding, PartnerWith, OrgWith

LEMMA PartnerWorld ==
    ASSUME NEW id, NEW status, NEW s, s = WithPartnerStatus(WellBehaved(id), status)
    PROVE  /\ World(s, PartnerWith(id, "status", status), WellBehavedOrg(id), TheBinding(id),
                    TheEntitlement(id), TheCapability(id))
           /\ s.claims = TheClaims(id)
<1>1. /\ s.partners = {PartnerWith(id, "status", status)} /\ s.orgs = {WellBehavedOrg(id)}
      /\ s.claims = TheClaims(id) /\ Plain(s)
  BY SetsPartners DEF WithPartnerStatus
<1> QED
  BY <1>1, RecordsAre, ChangedAre DEF World

LEMMA OrgWorld ==
    ASSUME NEW id, NEW status, NEW s, s = WithOrgStatus(WellBehaved(id), status)
    PROVE  /\ World(s, WellBehavedPartner(id), OrgWith(id, "status", status), TheBinding(id),
                    TheEntitlement(id), TheCapability(id))
           /\ s.claims = TheClaims(id)
<1>1. /\ s.orgs = {OrgWith(id, "status", status)} /\ s.partners = {WellBehavedPartner(id)}
      /\ s.claims = TheClaims(id) /\ Plain(s)
  BY SetsOrgs DEF WithOrgStatus
<1> QED
  BY <1>1, RecordsAre, ChangedAre DEF World

LEMMA BindingsWorld ==
    ASSUME NEW id, NEW bind, bind.partnerId = id.partnerId,
           NEW s, s = WithBindings(WellBehaved(id), {bind})
    PROVE  /\ World(s, WellBehavedPartner(id), OrgWith(id, "partnerBindings", {bind}), bind,
                    TheEntitlement(id), TheCapability(id))
           /\ OrgWith(id, "partnerBindings", {bind}).status = "ACTIVE"
           /\ s.claims = TheClaims(id)
<1>1. /\ s.orgs = {OrgWith(id, "partnerBindings", {bind})}
      /\ s.partners = {WellBehavedPartner(id)}
      /\ s.claims = TheClaims(id) /\ Plain(s)
  BY SetsOrgs DEF WithBindings
<1>2. PICK o : o = OrgWith(id, "partnerBindings", {bind})
  OBVIOUS
<1>3. o.orgId = id.orgId /\ o.status = "ACTIVE" /\ o.partnerBindings = {bind}
  <2>1. ASSUME NEW v
        PROVE  /\ OrgWith(id, "partnerBindings", v).orgId = id.orgId
               /\ OrgWith(id, "partnerBindings", v).status = "ACTIVE"
               /\ OrgWith(id, "partnerBindings", v).partnerBindings = v
    BY DEF OrgWith, WellBehavedOrg, Org
  <2>2. PICK v : v = {bind}
    OBVIOUS
  <2>3. o = OrgWith(id, "partnerBindings", v)
    BY <1>2, <2>2
  <2>4. o.orgId = id.orgId /\ o.status = "ACTIVE" /\ o.partnerBindings = v
    BY <2>1, <2>3
  <2> QED
    BY <2>2, <2>4
<1>4. s.orgs = {o}
  BY <1>1, <1>2
<1>5. World(s, WellBehavedPartner(id), o, bind, TheEntitlement(id), TheCapability(id))
  <2>1. PICK p, e, c : p = WellBehavedPartner(id) /\ e = TheEntitlement(id) /\ c = TheCapability(id)
    OBVIOUS
  <2>2. /\ s.claims.partnerId = id.partnerId /\ s.claims.orgId = id.orgId
        /\ s.claims.entitlement = id.entitlement /\ s.claims.capability = id.capability
    BY <1>1 DEF TheClaims
  <2>3. /\ p.partnerId = id.partnerId /\ p.entitlements = {e} /\ s.partners = {p}
        /\ e.entitlement = id.entitlement /\ e.capabilities = {c}
        /\ c.capability = id.capability
    BY <1>1, <2>1, RecordsAre
  <2>4. World(s, p, o, bind, e, c)
    BY <1>1, <1>3, <1>4, <2>2, <2>3 DEF World
  <2> QED
    BY <2>1, <2>4
<1> QED
  BY <1>1, <1>2, <1>3, <1>5

LEMMA EntitlementsWorld ==
    ASSUME NEW id, NEW e, e.entitlement = id.entitlement,
           NEW c, e.capabilities = {c}, c.capability = id.capability,
           NEW s, s = WithEntitlements(WellBehaved(id), {e})
    PROVE  /\ World(s, PartnerWith(id, "entitlements", {e}), WellBehavedOrg(id),
                    TheBinding(id), e, c)
           /\ PartnerWith(id, "entitlements", {e}).status = "ACTIVE"
           /\ s.claims = TheClaims(id)
<1>1. /\ s.partners = {PartnerWith(id, "entitlements", {e})} /\ s.orgs = {WellBehavedOrg(id)}
      /\ s.claims = TheClaims(id) /\ Plain(s)
  BY SetsPartners DEF WithEntitlements
<1>2. PICK p : p = PartnerWith(id, "entitlements", {e})
  OBVIOUS
<1>3. p.partnerId = id.partnerId /\ p.status = "ACTIVE" /\ p.entitlements = {e}
  <2>1. ASSUME NEW v
        PROVE  /\ PartnerWith(id, "entitlements", v).partnerId = id.partnerId
               /\ PartnerWith(id, "entitlements", v).status = "ACTIVE"
               /\ PartnerWith(id, "entitlements", v).entitlements = v
    BY DEF PartnerWith, WellBehavedPartner, Partner
  <2>2. PICK v : v = {e}
    OBVIOUS
  <2>3. p = PartnerWith(id, "entitlements", v)
    BY <1>2, <2>2
  <2>4. p.partnerId = id.partnerId /\ p.status = "ACTIVE" /\ p.entitlements = v
    BY <2>1, <2>3
  <2> QED
    BY <2>2, <2>4
<1>4. s.partners = {p}
  BY <1>1, <1>2
<1>5. World(s, p, WellBehavedOrg(id), TheBinding(id), e, c)
  <2>1. PICK o, b : o = WellBehavedOrg(id) /\ b = TheBinding(id)
    OBVIOUS
  <2>2. /\ s.claims.partnerId = id.partnerId /\ s.claims.orgId = id.orgId
        /\ s.claims.entitlement = id.entitlement /\ s.claims.capability = id.capability
    BY <1>1 DEF TheClaims
  <2>3. /\ o.orgId = id.orgId /\ o.partnerBindings = {b} /\ s.orgs = {o}
        /\ b.partnerId = id.partnerId
    BY <1>1, <2>1, RecordsAre
  <2>4. World(s, p, o, b, e, c)
    BY <1>1, <1>3, <1>4, <2>2, <2>3 DEF World
  <2> QED
    BY <2>1, <2>4
<1> QED
  BY <1>1, <1>2, <1>3, <1>5

(* WithBinding and WithClaimedEntitlementData change the one record there is. *)
BindingWith(id, field, value) == [TheBinding(id) EXCEPT ![field] = value]
EntitlementWith(id, field, value) == [TheEntitlement(id) EXCEPT ![field] = value]

LEMMA OneRecord ==
    ASSUME NEW id, NEW field, NEW value
    PROVE  /\ WithBinding(WellBehaved(id), field, value) =
                 WithBindings(WellBehaved(id), {BindingWith(id, field, value)})
           /\ WithClaimedEntitlementData(WellBehaved(id), field, value) =
                 WithEntitlements(WellBehaved(id), {EntitlementWith(id, field, value)})
<1>1. /\ UNION {o.partnerBindings : o \in {WellBehavedOrg(id)}} = {TheBinding(id)}
      /\ UNION {p.entitlements : p \in {WellBehavedPartner(id)}} = {TheEntitlement(id)}
  <2>1. /\ WellBehavedPartner(id).entitlements = {TheEntitlement(id)}
        /\ WellBehavedOrg(id).partnerBindings = {TheBinding(id)}
    BY RecordsAre
  <2> QED
    BY <2>1
<1>2. /\ WellBehaved(id).orgs = {WellBehavedOrg(id)}
      /\ WellBehaved(id).partners = {WellBehavedPartner(id)}
  BY BaseWorld
<1>3. {[x EXCEPT ![field] = value] : x \in {TheBinding(id)}} = {BindingWith(id, field, value)}
  BY DEF BindingWith
<1>4. {[x EXCEPT ![field] = value] : x \in {TheEntitlement(id)}}
          = {EntitlementWith(id, field, value)}
  BY DEF EntitlementWith
<1> QED
  BY <1>1, <1>2, <1>3, <1>4 DEF WithBinding, WithClaimedEntitlementData

(* The refusals of the catalog by what they stop the request with.         *)
StopTexts == ChainCodes \cup SignatureCodes \cup {"PLATFORM_KILL_SWITCH"}

Stops(s, code) == Plain(s) /\ Resolved(s) = code

LEMMA ChangedRecords ==
    ASSUME NEW id, NEW value
    PROVE  /\ BindingWith(id, "status", value).partnerId = id.partnerId
           /\ BindingWith(id, "status", value).status = value
           /\ BindingWith(id, "entitlements", value).partnerId = id.partnerId
           /\ BindingWith(id, "entitlements", value).status = "ACTIVE"
           /\ BindingWith(id, "entitlements", value).entitlements = value
           /\ \A field \in {"status", "validUntil", "capabilities"} :
                 EntitlementWith(id, field, value).entitlement = id.entitlement
           /\ \A field \in {"status", "validUntil"} :
                 EntitlementWith(id, field, value).capabilities = {TheCapability(id)}
           /\ EntitlementWith(id, "status", value).status = value
           /\ EntitlementWith(id, "validUntil", value).status = "ACTIVE"
           /\ EntitlementWith(id, "validUntil", value).validUntil = value
           /\ EntitlementWith(id, "capabilities", value).status = "ACTIVE"
           /\ EntitlementWith(id, "capabilities", value).validUntil = None
           /\ EntitlementWith(id, "capabilities", value).capabilities = value
  BY DEF BindingWith, EntitlementWith, TheBinding, TheEntitlement, Binding, Entitlement

LEMMA PartnerStops ==
    ASSUME NEW id, Ordinary(id)
    PROVE  /\ Stops(WithPartnerStatus(WellBehaved(id), "SUSPENDED"), "PARTNER_SUSPENDED")
           /\ Stops(WithPartnerStatus(WellBehaved(id), "REVOKED"), "PARTNER_REVOKED")
<1>1. ASSUME NEW status, status \in {"SUSPENDED", "REVOKED"}
      PROVE  Stops(WithPartnerStatus(WellBehaved(id), status),
                   IF status = "SUSPENDED" THEN "PARTNER_SUSPENDED" ELSE "PARTNER_REVOKED")
  <2>1. PICK s, p, o, b, e, c :
            /\ s = WithPartnerStatus(WellBehaved(id), status)
            /\ p = PartnerWith(id, "status", status) /\ o = WellBehavedOrg(id)
            /\ b = TheBinding(id) /\ e = TheEntitlement(id) /\ c = TheCapability(id)
    OBVIOUS
  <2>2. World(s, p, o, b, e, c) /\ p.status = status
    BY <2>1, PartnerWorld, ChangedAre
  <2>3. Resolved(s) = Ladder(p, o, b, e, c, s.claims, 0)
    BY <2>2, WorldResolves
  <2> QED
    BY <1>1, <2>1, <2>2, <2>3 DEF Ladder, World, Stops
<1> QED
  BY <1>1

LEMMA OrgStops ==
    ASSUME NEW id, Ordinary(id)
    PROVE  Stops(WithOrgStatus(WellBehaved(id), "SUSPENDED"), "ORG_SUSPENDED")
<1>1. PICK s, p, o, b, e, c :
          /\ s = WithOrgStatus(WellBehaved(id), "SUSPENDED")
          /\ p = WellBehavedPartner(id) /\ o = OrgWith(id, "status", "SUSPENDED")
          /\ b = TheBinding(id) /\ e = TheEntitlement(id) /\ c = TheCapability(id)
  OBVIOUS
<1>2. World(s, p, o, b, e, c) /\ p.status = "ACTIVE" /\ o.status = "SUSPENDED"
  BY <1>1, OrgWorld, ChangedAre, RecordsAre
<1>3. Resolved(s) = Ladder(p, o, b, e, c, s.claims, 0)
  BY <1>2, WorldResolves
<1> QED
  BY <1>1, <1>2, <1>3 DEF Ladder, World, Stops

LEMMA BindingStops ==
    ASSUME NEW id, Ordinary(id)
    PROVE  /\ Stops(WithBinding(WellBehaved(id), "status", "INACTIVE"), "BINDING_INACTIVE")
           /\ Stops(WithBinding(WellBehaved(id), "entitlements", {"other-entitlement"}),
                    "BINDING_UNKNOWN")
<1>1. ASSUME NEW b, b.partnerId = id.partnerId
      PROVE  \E s, p, o, e, c :
                /\ s = WithBindings(WellBehaved(id), {b}) /\ World(s, p, o, b, e, c)
                /\ p.status = "ACTIVE" /\ o.status = "ACTIVE"
                /\ s.claims.entitlement = id.entitlement
                /\ Plain(s) /\ Resolved(s) = Ladder(p, o, b, e, c, s.claims, 0)
  <2>1. PICK s, p, o, e, c :
            /\ s = WithBindings(WellBehaved(id), {b})
            /\ p = WellBehavedPartner(id) /\ o = OrgWith(id, "partnerBindings", {b})
            /\ e = TheEntitlement(id) /\ c = TheCapability(id)
    OBVIOUS
  <2>2. World(s, p, o, b, e, c) /\ o.status = "ACTIVE" /\ s.claims = TheClaims(id)
    BY <1>1, <2>1, BindingsWorld
  <2>3. p.status = "ACTIVE" /\ s.claims.entitlement = id.entitlement
    BY <2>1, <2>2 DEF TheClaims, WellBehavedPartner, Partner
  <2>4. Resolved(s) = Ladder(p, o, b, e, c, s.claims, 0)
    BY <2>2, WorldResolves
  <2> QED
    BY <2>1, <2>2, <2>3, <2>4 DEF World
<1>2. Stops(WithBinding(WellBehaved(id), "status", "INACTIVE"), "BINDING_INACTIVE")
  <2>1. PICK b : b = BindingWith(id, "status", "INACTIVE")
    OBVIOUS
  <2>2. b.partnerId = id.partnerId /\ b.status = "INACTIVE"
    BY <2>1, ChangedRecords
  <2>3. WithBinding(WellBehaved(id), "status", "INACTIVE") = WithBindings(WellBehaved(id), {b})
    BY <2>1, OneRecord
  <2>4. Stops(WithBindings(WellBehaved(id), {b}), "BINDING_INACTIVE")
    BY <1>1, <2>2 DEF Ladder, Stops
  <2> QED
    BY <2>3, <2>4
<1>3. Stops(WithBinding(WellBehaved(id), "entitlements", {"other-entitlement"}), "BINDING_UNKNOWN")
  <2>1. PICK v, b : v = {"other-entitlement"} /\ b = BindingWith(id, "entitlements", v)
    OBVIOUS
  <2>2. b.partnerId = id.partnerId /\ b.status = "ACTIVE" /\ b.entitlements = v
    BY <2>1, ChangedRecords
  <2>3. WithBinding(WellBehaved(id), "entitlements", v) = WithBindings(WellBehaved(id), {b})
    BY <2>1, OneRecord
  <2>4. id.entitlement \notin b.entitlements
    BY <2>1, <2>2 DEF Ordinary
  <2>5. Stops(WithBindings(WellBehaved(id), {b}), "BINDING_UNKNOWN")
    BY <1>1, <2>2, <2>4 DEF Ladder, Stops
  <2> QED
    BY <2>1, <2>3, <2>5
<1> QED
  BY <1>2, <1>3

LEMMA EntitlementStops ==
    ASSUME NEW id, Ordinary(id)
    PROVE  LET b == WellBehaved(id) IN
           /\ Stops(WithClaimedEntitlementData(b, "status", "INACTIVE"), "ENTITLEMENT_INACTIVE")
           /\ Stops(WithClaimedEntitlementData(b, "status", "REVOKED"), "ENTITLEMENT_REVOKED")
           /\ Stops(WithClaimedEntitlementData(b, "validUntil", 0), "ENTITLEMENT_EXPIRED")
           /\ Stops(WithClaimedEntitlementData(b, "capabilities",
                                               {Capability(b.claims.capability, 2, 1)}),
                    "CAPABILITY_VERSION_UNSUPPORTED")
<1>1. ASSUME NEW e, e.entitlement = id.entitlement,
             NEW c, e.capabilities = {c}, c.capability = id.capability
      PROVE  \E s, p, o, bind :
                /\ s = WithEntitlements(WellBehaved(id), {e}) /\ World(s, p, o, bind, e, c)
                /\ p.status = "ACTIVE" /\ o.status = "ACTIVE" /\ bind.status = "ACTIVE"
                /\ s.claims.entitlement \in bind.entitlements
                /\ Plain(s) /\ Resolved(s) = Ladder(p, o, bind, e, c, s.claims, 0)
  <2>1. PICK s, p, o, bind :
            /\ s = WithEntitlements(WellBehaved(id), {e})
            /\ p = PartnerWith(id, "entitlements", {e}) /\ o = WellBehavedOrg(id)
            /\ bind = TheBinding(id)
    OBVIOUS
  <2>2. World(s, p, o, bind, e, c) /\ p.status = "ACTIVE" /\ s.claims = TheClaims(id)
    BY <1>1, <2>1, EntitlementsWorld
  <2>3. o.status = "ACTIVE" /\ bind.status = "ACTIVE" /\ s.claims.entitlement \in bind.entitlements
    BY <2>1, <2>2 DEF TheClaims, WellBehavedOrg, Org, TheBinding, Binding
  <2>4. Resolved(s) = Ladder(p, o, bind, e, c, s.claims, 0)
    BY <2>2, WorldResolves
  <2> QED
    BY <2>1, <2>2, <2>3, <2>4 DEF World
<1>2. PICK c : c = TheCapability(id)
  OBVIOUS
<1>3. c.capability = id.capability
  BY <1>2 DEF TheCapability, Capability
<1>4. ASSUME NEW status \in {"INACTIVE", "REVOKED"}
      PROVE  Stops(WithClaimedEntitlementData(WellBehaved(id), "status", status),
                   IF status = "INACTIVE" THEN "ENTITLEMENT_INACTIVE" ELSE "ENTITLEMENT_REVOKED")
  <2>1. PICK e : e = EntitlementWith(id, "status", status)
    OBVIOUS
  <2>2. e.entitlement = id.entitlement /\ e.capabilities = {c} /\ e.status = status
    BY <1>2, <2>1, ChangedRecords
  <2>3. WithClaimedEntitlementData(WellBehaved(id), "status", status)
            = WithEntitlements(WellBehaved(id), {e})
    BY <2>1, OneRecord
  <2>4. Stops(WithEntitlements(WellBehaved(id), {e}),
              IF status = "INACTIVE" THEN "ENTITLEMENT_INACTIVE" ELSE "ENTITLEMENT_REVOKED")
    BY <1>1, <1>3, <2>2 DEF Ladder, Stops
  <2> QED
    BY <2>3, <2>4
<1>5. Stops(WithClaimedEntitlementData(WellBehaved(id), "validUntil", 0), "ENTITLEMENT_EXPIRED")
  <2>1. PICK e : e = EntitlementWith(id, "validUntil", 0)
    OBVIOUS
  <2>2. /\ e.entitlement = id.entitlement /\ e.capabilities = {c} /\ e.status = "ACTIVE"
        /\ e.validUntil = 0
    BY <1>2, <2>1, ChangedRecords
  <2>3. WithClaimedEntitlementData(WellBehaved(id), "validUntil", 0)
            = WithEntitlements(WellBehaved(id), {e})
    BY <2>1, OneRecord
  <2>4. Expired(e, 0)
    BY <2>2 DEF Expired
  <2>5. Stops(WithEntitlements(WellBehaved(id), {e}), "ENTITLEMENT_EXPIRED")
    BY <1>1, <1>3, <2>2, <2>4 DEF Ladder, Stops
  <2> QED
    BY <2>3, <2>5
<1>6. Stops(WithClaimedEntitlementData(WellBehaved(id), "capabilities",
                                       {Capability(WellBehaved(id).claims.capability, 2, 1)}),
            "CAPABILITY_VERSION_UNSUPPORTED")
  <2>1. PICK d, v, e : /\ d = Capability(id.capability, 2, 1) /\ v = {d}
                       /\ e = EntitlementWith(id, "capabilities", v)
    OBVIOUS
  <2>2. /\ e.entitlement = id.entitlement /\ e.capabilities = {d} /\ e.status = "ACTIVE"
        /\ e.validUntil = None
    BY <2>1, ChangedRecords
  <2>3. d.capability = id.capability /\ d.min > d.max
    BY <2>1 DEF Capability
  <2>4. WithClaimedEntitlementData(WellBehaved(id), "capabilities", v)
            = WithEntitlements(WellBehaved(id), {e})
    BY <2>1, OneRecord
  <2>5. WellBehaved(id).claims.capability = id.capability
    <3>1. WellBehaved(id).claims = TheClaims(id)
      BY BaseWorld
    <3> QED
      BY <3>1 DEF TheClaims
  <2>6. ~Expired(e, 0)
    BY <2>2 DEF Expired
  <2>7. Stops(WithEntitlements(WellBehaved(id), {e}), "CAPABILITY_VERSION_UNSUPPORTED")
    BY <1>1, <2>2, <2>3, <2>6 DEF Ladder, Stops
  <2> QED
    BY <2>1, <2>4, <2>5, <2>7
<1> QED
  BY <1>4, <1>5, <1>6

(* A registry, a binding or a name that is missing.                        *)
LEMMA NothingStops ==
    ASSUME NEW id, Ordinary(id)
    PROVE  LET b == WellBehaved(id) IN
           /\ Stops([b EXCEPT !.partners = {}], "PARTNER_UNKNOWN")
           /\ Stops([b EXCEPT !.orgs = {}], "ORG_UNKNOWN")
<1>1. PICK b, p : b = WellBehaved(id) /\ p = WellBehavedPartner(id)
  OBVIOUS
<1>2. /\ b.partners = {p} /\ b.claims = TheClaims(id) /\ Plain(b)
      /\ "partners" \in DOMAIN b /\ "orgs" \in DOMAIN b
  <2>1. b.partners = {p} /\ b.claims = TheClaims(id)
    BY <1>1, BaseWorld
  <2>2. Plain(b) /\ "partners" \in DOMAIN b /\ "orgs" \in DOMAIN b
    BY <1>1, BaseIs
  <2> QED
    BY <2>1, <2>2
<1>3. p.partnerId = b.claims.partnerId /\ p.status = "ACTIVE"
  BY <1>1, <1>2 DEF TheClaims, WellBehavedPartner, Partner
<1>4. /\ Chain[1] = "PARTNER_UNKNOWN" /\ Chain[2] = "PARTNER_SUSPENDED"
      /\ Chain[3] = "PARTNER_REVOKED" /\ Chain[4] = "ORG_UNKNOWN"
  BY DEF Chain
<1>5. Stops([b EXCEPT !.partners = {}], "PARTNER_UNKNOWN")
  <2>1. PICK s : s = [b EXCEPT !.partners = {}]
    OBVIOUS
  <2>2. s.partners = {} /\ Plain(s)
    BY <1>2, <2>1 DEF Plain
  <2>3. PICK R : R = [partners |-> s.partners, orgs |-> s.orgs]
    OBVIOUS
  <2>4. Fails(Chain[1], R, s.claims, 0)
    BY <1>4, <2>2, <2>3 DEF Fails
  <2>5. Resolve(R, s.claims, 0) = Chain[1]
    BY <2>4, ResolveTells
  <2> QED
    BY <1>4, <2>1, <2>2, <2>3, <2>5 DEF Stops, Resolved
<1>6. Stops([b EXCEPT !.orgs = {}], "ORG_UNKNOWN")
  <2>1. PICK s : s = [b EXCEPT !.orgs = {}]
    OBVIOUS
  <2>2. s.orgs = {} /\ s.partners = {p} /\ s.claims = b.claims /\ Plain(s)
    BY <1>2, <2>1 DEF Plain
  <2>3. PICK R : R = [partners |-> s.partners, orgs |-> s.orgs]
    OBVIOUS
  <2>4. {q \in R.partners : q.partnerId = s.claims.partnerId} = {p}
    BY <1>3, <2>2, <2>3
  <2>5. {o \in R.orgs : o.orgId = s.claims.orgId} = {}
    BY <2>2, <2>3
  <2>6. /\ ~Fails("PARTNER_UNKNOWN", R, s.claims, 0)
        /\ ~Fails("PARTNER_SUSPENDED", R, s.claims, 0)
        /\ ~Fails("PARTNER_REVOKED", R, s.claims, 0)
        /\ Fails("ORG_UNKNOWN", R, s.claims, 0)
    BY <1>3, <2>4, <2>5 DEF Fails
  <2>7. Fails(Chain[4], R, s.claims, 0) /\ \A j \in 1..(4 - 1) : ~Fails(Chain[j], R, s.claims, 0)
    BY <1>4, <2>6
  <2>8. Resolve(R, s.claims, 0) = Chain[4]
    BY <2>7, ResolveTells
  <2> QED
    BY <1>4, <2>1, <2>2, <2>3, <2>8 DEF Stops, Resolved
<1> QED
  BY <1>1, <1>5, <1>6

(* On one partner and one organisation, what the ladder meets first.       *)
Incapable(es, claims) ==
    \A e \in es : /\ e.status = "ACTIVE" /\ e.validUntil = None
                  /\ \A c \in e.capabilities : c.capability /= claims.capability

LEMMA MissingTells ==
    ASSUME NEW s, NEW p, NEW o, s.partners = {p}, s.orgs = {o}, Plain(s),
           p.partnerId = s.claims.partnerId, o.orgId = s.claims.orgId,
           p.status = "ACTIVE", o.status = "ACTIVE",
           NEW bs, bs = {b \in o.partnerBindings : b.partnerId = s.claims.partnerId},
           NEW es, es = {e \in p.entitlements : e.entitlement = s.claims.entitlement},
           \A b \in bs : b.status = "ACTIVE" /\ s.claims.entitlement \in b.entitlements,
           Incapable(es, s.claims), bs /= {}
    PROVE  Stops(s, IF es = {} THEN "ENTITLEMENT_MISSING" ELSE "CAPABILITY_UNKNOWN")
<1> DEFINE R == [partners |-> {p}, orgs |-> {o}]
           F(j) == Fails(Chain[j], R, s.claims, 0)
           cs == {c \in UNION {e.capabilities : e \in es} : c.capability = s.claims.capability}
<1>1. /\ ~F(1)
      /\ F(2) <=> p.status = "SUSPENDED"
      /\ F(3) <=> p.status = "REVOKED"
      /\ ~F(4)
      /\ F(5) <=> o.status = "SUSPENDED"
      /\ F(6) <=> bs = {}
      /\ F(7) <=> \E b \in bs : b.status /= "ACTIVE"
      /\ F(8) <=> \E b \in bs : s.claims.entitlement \notin b.entitlements
      /\ F(9) <=> es = {}
      /\ F(10) <=> \E e \in es : e.status = "INACTIVE"
      /\ F(11) <=> \E e \in es : e.status = "REVOKED"
      /\ F(12) <=> \E e \in es : Expired(e, 0)
      /\ F(13) <=> cs = {}
  BY FailsOnOne
<1>2. cs = {}
  BY DEF Incapable
<1>3. R = [partners |-> s.partners, orgs |-> s.orgs]
  OBVIOUS
<1> HIDE DEF R, cs
<1>4. /\ ~F(1) /\ ~F(2) /\ ~F(3) /\ ~F(4) /\ ~F(5) /\ ~F(7) /\ ~F(8)
      /\ ~F(10) /\ ~F(11) /\ ~F(12) /\ F(13)
      /\ F(6) <=> bs = {}
      /\ F(9) <=> es = {}
  BY <1>1, <1>2 DEF Expired, Incapable
<1>5. ASSUME NEW i \in 1..14, F(i), \A j \in 1..(i - 1) : ~F(j)
      PROVE  Resolve(R, s.claims, 0) = Chain[i]
  BY <1>5, ResolveTells
<1> HIDE DEF F
<1>6. CASE es = {}
  <2>1. Resolve(R, s.claims, 0) = Chain[9]
    BY <1>4, <1>5, <1>6
  <2> QED
    BY <1>3, <1>6, <2>1 DEF Stops, Resolved, Chain
<1>7. CASE es /= {}
  <2>1. Resolve(R, s.claims, 0) = Chain[13]
    BY <1>4, <1>5, <1>7
  <2> QED
    BY <1>3, <1>7, <2>1 DEF Stops, Resolved, Chain
<1> QED
  BY <1>6, <1>7

LEMMA UnboundStops ==
    ASSUME NEW id, Ordinary(id)
    PROVE  Stops(WithBindings(WellBehaved(id), {}), "ORG_NOT_BOUND_TO_PARTNER")
<1>1. PICK s, p, v, o, e : /\ s = WithBindings(WellBehaved(id), v) /\ v = {}
                           /\ p = WellBehavedPartner(id)
                           /\ o = OrgWith(id, "partnerBindings", v) /\ e = TheEntitlement(id)
  OBVIOUS
<1>2. s.orgs = {o} /\ s.partners = {p} /\ s.claims = TheClaims(id) /\ Plain(s)
  BY <1>1, SetsOrgs DEF WithBindings
<1>3. o.orgId = s.claims.orgId /\ o.status = "ACTIVE" /\ o.partnerBindings = {}
  BY <1>1, <1>2 DEF OrgWith, WellBehavedOrg, Org, TheClaims
<1>4. p.partnerId = s.claims.partnerId /\ p.status = "ACTIVE"
  BY <1>1, <1>2 DEF WellBehavedPartner, Partner, TheClaims
<1>6. PICK bs : bs = {b \in o.partnerBindings : b.partnerId = s.claims.partnerId}
  OBVIOUS
<1>7. bs = {}
  BY <1>3, <1>6
<1>8. s.partners = {p} /\ s.orgs = {o}
  BY <1>2
<1> DEFINE R == [partners |-> {p}, orgs |-> {o}]
<1>9. /\ \A j \in 1..5 : ~Fails(Chain[j], R, s.claims, 0)
      /\ Fails(Chain[6], R, s.claims, 0)
  BY <1>3, <1>4, <1>6, <1>7, FailsOnOne
<1>10. Resolve(R, s.claims, 0) = Chain[6]
  BY <1>9, ResolveTells
<1>11. R = [partners |-> s.partners, orgs |-> s.orgs]
  BY <1>8
<1> QED
  BY <1>1, <1>2, <1>10, <1>11 DEF Stops, Resolved, Chain

(* A claim of what the partner does not have.                              *)
LEMMA MissingStops ==
    ASSUME NEW id, Ordinary(id)
    PROVE  LET b == WellBehaved(id) IN
           /\ Stops(WithEntitlements(b, {}), "ENTITLEMENT_MISSING")
           /\ Stops(WithClaim(WithBinding(b, "entitlements", {"claimed-unknown"}),
                              "entitlement", "claimed-unknown"), "ENTITLEMENT_MISSING")
           /\ Stops(WithClaim(b, "capability", "reports-unknown"), "CAPABILITY_UNKNOWN")
<1>1. /\ TheClaims(id).partnerId = id.partnerId /\ TheClaims(id).orgId = id.orgId
      /\ TheClaims(id).entitlement = id.entitlement
      /\ TheBinding(id).partnerId = id.partnerId /\ TheBinding(id).status = "ACTIVE"
      /\ TheBinding(id).entitlements = {id.entitlement}
  BY DEF TheClaims, TheBinding, Binding
<1>2. /\ WellBehavedPartner(id).partnerId = id.partnerId
      /\ WellBehavedPartner(id).status = "ACTIVE"
      /\ WellBehavedPartner(id).entitlements = {TheEntitlement(id)}
      /\ WellBehavedOrg(id).orgId = id.orgId /\ WellBehavedOrg(id).status = "ACTIVE"
      /\ WellBehavedOrg(id).partnerBindings = {TheBinding(id)}
  BY RecordsAre
<1>3. /\ TheEntitlement(id).entitlement = id.entitlement
      /\ TheEntitlement(id).status = "ACTIVE" /\ TheEntitlement(id).validUntil = None
      /\ TheEntitlement(id).capabilities = {TheCapability(id)}
      /\ TheCapability(id).capability = id.capability
  BY DEF TheEntitlement, TheCapability, Entitlement, Capability
<1>4. Stops(WithEntitlements(WellBehaved(id), {}), "ENTITLEMENT_MISSING")
  <2>1. PICK s, v, p, o : /\ s = WithEntitlements(WellBehaved(id), v) /\ v = {}
                          /\ p = PartnerWith(id, "entitlements", v) /\ o = WellBehavedOrg(id)
    OBVIOUS
  <2>2. s.orgs = {o} /\ s.partners = {p} /\ s.claims = TheClaims(id) /\ Plain(s)
    BY <2>1, SetsPartners DEF WithEntitlements
  <2>3. p.partnerId = id.partnerId /\ p.status = "ACTIVE" /\ p.entitlements = {}
    BY <2>1 DEF PartnerWith, WellBehavedPartner, Partner
  <2>4. PICK bs, es : /\ bs = {b \in o.partnerBindings : b.partnerId = s.claims.partnerId}
                      /\ es = {e \in p.entitlements : e.entitlement = s.claims.entitlement}
    OBVIOUS
  <2>5. bs = {TheBinding(id)}
    BY <1>1, <1>2, <2>1, <2>2, <2>4
  <2>6. es = {} /\ Incapable(es, s.claims)
    BY <2>3, <2>4 DEF Incapable
  <2>7. /\ p.partnerId = s.claims.partnerId /\ o.orgId = s.claims.orgId
        /\ o.status = "ACTIVE" /\ bs /= {}
        /\ \A b \in bs : b.status = "ACTIVE" /\ s.claims.entitlement \in b.entitlements
    BY <1>1, <1>2, <2>1, <2>2, <2>3, <2>5
  <2>8. Stops(s, "ENTITLEMENT_MISSING")
    BY <2>2, <2>3, <2>4, <2>6, <2>7, MissingTells
  <2> QED
    BY <2>1, <2>8
<1>5. Stops(WithClaim(WithBinding(WellBehaved(id), "entitlements", {"claimed-unknown"}),
                      "entitlement", "claimed-unknown"), "ENTITLEMENT_MISSING")
  <2>1. PICK u, v, b, w, o, p, s :
            /\ u = {"claimed-unknown"} /\ b = BindingWith(id, "entitlements", u)
            /\ w = {b} /\ v = WithBindings(WellBehaved(id), w)
            /\ o = OrgWith(id, "partnerBindings", w) /\ p = WellBehavedPartner(id)
            /\ s = WithClaim(v, "entitlement", "claimed-unknown")
    OBVIOUS
  <2>2. WithBinding(WellBehaved(id), "entitlements", u) = v
    BY <2>1, OneRecord
  <2>3. v.orgs = {o} /\ v.partners = {p} /\ v.claims = TheClaims(id) /\ Plain(v)
    BY <2>1, SetsOrgs DEF WithBindings
  <2>4. /\ s.orgs = {o} /\ s.partners = {p} /\ Plain(s)
        /\ s.claims = [TheClaims(id) EXCEPT !["entitlement"] = "claimed-unknown"]
    <3>1. "claims" \in DOMAIN v
      BY <2>1, BaseIs DEF WithBindings, SetOrg
    <3>2. s = [v EXCEPT !.claims = [TheClaims(id) EXCEPT !["entitlement"] = "claimed-unknown"]]
      BY <2>1, <2>3 DEF WithClaim
    <3> QED
      BY <2>3, <3>1, <3>2 DEF Plain
  <2>5. /\ s.claims.partnerId = id.partnerId /\ s.claims.orgId = id.orgId
        /\ s.claims.entitlement = "claimed-unknown"
    BY <2>4 DEF TheClaims
  <2>6. /\ o.orgId = id.orgId /\ o.status = "ACTIVE" /\ o.partnerBindings = {b}
        /\ b.partnerId = id.partnerId /\ b.status = "ACTIVE" /\ b.entitlements = u
    <3>1. o.orgId = id.orgId /\ o.status = "ACTIVE" /\ o.partnerBindings = w
      BY <2>1 DEF OrgWith, WellBehavedOrg, Org
    <3>2. b.partnerId = id.partnerId /\ b.status = "ACTIVE" /\ b.entitlements = u
      BY <2>1 DEF BindingWith, TheBinding, Binding
    <3> QED
      BY <2>1, <3>1, <3>2
  <2>7. PICK bs, es : /\ bs = {q \in o.partnerBindings : q.partnerId = s.claims.partnerId}
                      /\ es = {e \in p.entitlements : e.entitlement = s.claims.entitlement}
    OBVIOUS
  <2>8. bs = {b}
    BY <2>5, <2>6, <2>7
  <2>9. es = {} /\ Incapable(es, s.claims)
    BY <1>2, <1>3, <2>1, <2>5, <2>7 DEF Ordinary, Incapable
  <2>10. /\ p.partnerId = s.claims.partnerId /\ o.orgId = s.claims.orgId
         /\ p.status = "ACTIVE" /\ o.status = "ACTIVE" /\ bs /= {}
         /\ \A q \in bs : q.status = "ACTIVE" /\ s.claims.entitlement \in q.entitlements
    BY <1>2, <2>1, <2>5, <2>6, <2>8
  <2>11. Stops(s, "ENTITLEMENT_MISSING")
    BY <2>4, <2>7, <2>9, <2>10, MissingTells
  <2> QED
    BY <2>1, <2>2, <2>11
<1>6. Stops(WithClaim(WellBehaved(id), "capability", "reports-unknown"), "CAPABILITY_UNKNOWN")
  <2>1. PICK v, o, p, s :
            /\ v = WellBehaved(id) /\ o = WellBehavedOrg(id) /\ p = WellBehavedPartner(id)
            /\ s = WithClaim(v, "capability", "reports-unknown")
    OBVIOUS
  <2>2. v.orgs = {o} /\ v.partners = {p} /\ v.claims = TheClaims(id) 
    BY <2>1, BaseWorld
  <2>3. Plain(v) /\ "claims" \in DOMAIN v
    BY <2>1, BaseIs
  <2>4. /\ s.orgs = {o} /\ s.partners = {p} /\ Plain(s)
        /\ s.claims = [TheClaims(id) EXCEPT !["capability"] = "reports-unknown"]
    <3>2. s = [v EXCEPT !.claims = [TheClaims(id) EXCEPT !["capability"] = "reports-unknown"]]
      BY <2>1, <2>2 DEF WithClaim
    <3> QED
      BY <2>2, <2>3, <3>2 DEF Plain
  <2>5. /\ s.claims.partnerId = id.partnerId /\ s.claims.orgId = id.orgId
        /\ s.claims.entitlement = id.entitlement /\ s.claims.capability = "reports-unknown"
    BY <2>4 DEF TheClaims
  <2>6. PICK bs, es : /\ bs = {q \in o.partnerBindings : q.partnerId = s.claims.partnerId}
                      /\ es = {e \in p.entitlements : e.entitlement = s.claims.entitlement}
    OBVIOUS
  <2>7. bs = {TheBinding(id)}
    BY <1>1, <1>2, <2>1, <2>5, <2>6
  <2>8. es = {TheEntitlement(id)}
    BY <1>2, <1>3, <2>1, <2>5, <2>6
  <2>9. /\ p.partnerId = s.claims.partnerId /\ o.orgId = s.claims.orgId
        /\ p.status = "ACTIVE" /\ o.status = "ACTIVE" /\ bs /= {} /\ es /= {}
        /\ \A q \in bs : q.status = "ACTIVE" /\ s.claims.entitlement \in q.entitlements
    BY <1>1, <1>2, <2>1, <2>5, <2>7, <2>8
  <2>10. Incapable(es, s.claims)
    BY <1>3, <2>5, <2>8 DEF Ordinary, Incapable
  <2>11. s.orgs = {o} /\ s.partners = {p} /\ Plain(s)
    BY <2>4
  <2>12. Stops(s, IF es = {} THEN "ENTITLEMENT_MISSING" ELSE "CAPABILITY_UNKNOWN")
    BY <2>6, <2>9, <2>10, <2>11, MissingTells
  <2> QED
    BY <2>1, <2>9, <2>12
<1> QED
  BY <1>4, <1>5, <1>6

PlanCodes == {"AMBIGUOUS_RECONCILE", "EXHAUSTED", "CLEAN_RETRY", "TERMINAL"}

-----------------------------------------------------------------------------
(* The kinds of scenarios in the catalog, by how their operation goes      *)

Stopped(s) == s.second = "NONE" /\ s.presentations = 1 /\ StopCode(s) \in StopTexts

(* Nothing stops the request.                                              *)
Runs(s) == s.flaw = None /\ s.drift = 0 /\ ~s.killSwitch /\ Resolved(s) = None

Healthy(s) ==
    Runs(s) /\ s.downstream = "HEALTHY" /\ s.circuit = None /\ s.presentations = 1

Unavailable(s) ==
    /\ Runs(s) /\ s.downstream = "UNAVAILABLE" /\ s.circuit = None
    /\ s.second = "NONE" /\ s.presentations = 5

FailsOnce(s) ==
    /\ Runs(s) /\ s.downstream = "FAILS_ONCE_THEN_HEALTHY" /\ s.circuit = None
    /\ s.second = "NONE" /\ s.presentations = 2 /\ s.receiptFault = "NONE"

Tripping(s) ==
    /\ Runs(s) /\ s.second = "NONE" /\ s.presentations = 4
    /\ s.circuit = [failureThreshold |-> 2, resetTimeout |-> 1, downstreamFailures |-> 3]

(* How their webhooks go.                                                  *)
Emits(s, count, script) ==
    /\ s.eventType = "processing.completed" /\ s.emitEventCount = count
    /\ s.transportScript = script

Delivering(s) ==
    /\ Healthy(s) /\ Emits(s, 2, <<"OK">>) /\ ~s.deliverTwice
    /\ s.secondOffset \in {0, -1} /\ s.second = "NONE"

Exhausting(s) == Healthy(s) /\ Emits(s, 1, <<"CLEAN">>)

Reconciling(s) ==
    Healthy(s) /\ Emits(s, 2, <<"AMBIGUOUS", "OK">>) /\ s.reconcile \in {"RESOLVE", "ESCALATE"}

Unknown(s) == Healthy(s) /\ s.eventType /= "processing.completed" /\ s.emitEventCount = 2

(* What the second request is answered, and what a fault of the receipt is. *)
SecondCode(second) ==
    CASE second = "REPLAY" -> "REQUEST_REPLAYED"
      [] second = "DUPLICATE" -> "IDEMPOTENCY_DUPLICATE_COLLAPSED"
      [] second = "CONFLICT" -> "IDEMPOTENCY_KEY_CONFLICT"

FaultReason(fault) ==
    CASE fault = "OMIT" -> "RECEIPT_MISSING_HEADERS"
      [] fault = "TAMPERED" -> "RECEIPT_CONTENT_HASH_MISMATCH"
      [] fault = "FORGED" -> "RECEIPT_INVALID_SIGNATURE"
      [] fault = "WRONG_OPERATION" -> "RECEIPT_FIELD_MISMATCH"

(* The kinds of modes: a scenario, the surface it is judged by, the code.  *)
StoppedMode(m) ==
    LET s == m.scenario IN
    /\ Stopped(s)
    /\ \/ m.surface = "PLATFORM_RESPONSE" /\ m.expectedCode = StopCode(s)
       \/ /\ m.surface = "PLAN" /\ m.expectedCode = "TERMINAL"
          /\ StopCode(s) \in SignatureCodes

AnsweredMode(m) ==
    LET s == m.scenario IN
    /\ Healthy(s)
    /\ \/ /\ m.surface = "PLATFORM_RESPONSE" /\ s.second \in {"REPLAY", "DUPLICATE", "CONFLICT"}
          /\ m.expectedCode = SecondCode(s.second)
       \/ /\ s.second = "NONE" /\ s.receiptFault \in ReceiptFaults \ {"NONE"}
          /\ \/ m.surface = "RECEIPT" /\ m.expectedCode = FaultReason(s.receiptFault)
             \/ m.surface = "PLAN" /\ m.expectedCode = "AMBIGUOUS_RECONCILE"

RetriedMode(m) ==
    LET s == m.scenario IN
    \/ FailsOnce(s) /\ m.surface = "PLAN" /\ m.expectedCode = "CLEAN_RETRY"
    \/ Unavailable(s) /\ m.surface = "PLAN" /\ m.expectedCode = "EXHAUSTED"
    \/ Tripping(s) /\ m.surface = "CIRCUIT" /\ m.expectedCode = "CIRCUIT_OPEN"

(* The code on the surface of the receiver, of those the phase recorded.   *)
ReceiverShows(s) ==
    IF s.tamperDelivery THEN "WEBHOOK_SIGNATURE_INVALID"
    ELSE IF s.secondOffset = -1 THEN "WEBHOOK_ORDERING_GAP"
    ELSE IF s.rePresent THEN "WEBHOOK_NONCE_REPLAYED"
    ELSE "OK"

WebhookMode(m) ==
    LET s == m.scenario IN
    \/ /\ Delivering(s) /\ m.surface = "CONTROL" /\ m.expectedCode = "OPERATION_COMPLETED"
       /\ s.secondOffset = 0 /\ s.receiptFault = "NONE"
    \/ /\ Delivering(s) /\ m.surface = "RECEIVER" /\ m.expectedCode = ReceiverShows(s)
    \/ Unknown(s) /\ m.surface = "EMIT" /\ m.expectedCode = "WEBHOOK_EVENT_TYPE_UNKNOWN"
    \/ Exhausting(s) /\ m.surface = "DELIVERY" /\ m.expectedCode = "RETRY_EXHAUSTED"
    \/ /\ Reconciling(s) /\ m.surface = "SPAN"
       /\ m.expectedCode = IF s.reconcile = "RESOLVE" THEN "RESOLVED" ELSE "REQUIRED_UNRESOLVED"

Sorted(m) == StoppedMode(m) \/ AnsweredMode(m) \/ RetriedMode(m) \/ WebhookMode(m)

-----------------------------------------------------------------------------
(* The operation, by kind of scenario *)

Blank ==
    [events |-> <<>>, views |-> <<>>, requestId |-> None,
     step |-> 0, outcomes |-> <<>>, captured |-> <<>>,
     last |-> 0, seen |-> {}, receiverCodes |-> <<>>,
     verified |-> FALSE, receiverCode |-> None, rePresented |-> None,
     deliveredTwice |-> None, reconciliation |-> <<>>,
     status |-> None, reconciliationStatus |-> None]

DriveFields ==
    {"pc", "attempt", "presented", "expected", "lastRequest", "accepted", "anyProcessedOk",
     "operationCodes", "receiptReasons", "plans"}

Fields ==
    /\ drive = [f \in DriveFields |-> drive[f]]
    /\ phase = [f \in DOMAIN Blank |-> phase[f]]
    /\ drive.pc \in Presenting => phase = Blank

Faithful == mode \in Matrix => scenario = mode.scenario

NothingNoted ==
    /\ drive.operationCodes = <<>> /\ drive.receiptReasons = <<>> /\ drive.plans = <<>>
    /\ drive.anyProcessedOk = FALSE

StoppedInv ==
    LET code == StopCode(scenario) IN
    /\ drive.pc \in {"EXECUTE", "PROCESS", "PHASE", "DONE"}
    /\ lastAcceptedDecision = None
    /\ At("EXECUTE") \/ At("PROCESS") => drive.attempt = 1 /\ NothingNoted
    /\ ~At("EXECUTE") => lastDecision /= None /\ lastDecision.code = code
    /\ At("PROCESS") => response = Failure(code)
    /\ At("PHASE") \/ At("DONE") => drive.plans = <<PlanRetry(code, 1)>>

HealthyInv ==
    /\ At("EXECUTE") => lastAcceptedDecision = None
    /\ ~At("EXECUTE") => lastAcceptedDecision /= None /\ "OPERATION_COMPLETED" \in reasonCodes
    /\ drive.pc \in Presenting \ {"PHASE"} => drive.attempt = 1
    /\ At("EXECUTE") \/ At("PROCESS") => NothingNoted
    /\ At("PROCESS") \/ At("SECOND") =>
          /\ drive.presented.flaw = None /\ drive.presented.at = 0
          /\ nonces[drive.presented.nonce] = 0
          /\ records[TheKey].payload = ThePayload /\ records[TheKey].expiresAt = Ttl
    /\ At("PROCESS") =>
          /\ response = Success([request |-> drive.expected, fault |-> scenario.receiptFault])
          /\ drive.expected \in Nonces
    /\ At("SECOND") \/ At("PROCESS_SECOND") => scenario.second /= "NONE"
    /\ scenario.second /= "NONE" /\ drive.pc \notin {"EXECUTE", "PROCESS", "SECOND"} =>
          lastDecision /= None /\ lastDecision.code = SecondCode(scenario.second)
    /\ scenario.second = "NONE" /\ drive.pc \notin {"EXECUTE", "PROCESS"} =>
          LET fault == scenario.receiptFault IN
          /\ drive.anyProcessedOk = (fault = "NONE")
          /\ drive.receiptReasons = IF fault = "NONE" THEN <<>> ELSE <<FaultReason(fault)>>
          /\ drive.plans = IF fault = "NONE" THEN <<>> ELSE <<"AMBIGUOUS_RECONCILE">>

UnavailableInv ==
    /\ drive.pc \in {"EXECUTE", "PROCESS", "PHASE", "DONE"}
    /\ lastAcceptedDecision = None
    /\ drive.plans \in Seq(PlanCodes)
    /\ At("PROCESS") => response = Failure("DOWNSTREAM_UNAVAILABLE")
    /\ ~At("PROCESS") /\ drive.attempt > 1 =>
          /\ drive.plans /= <<>>
          /\ Last(drive.plans) = PlanRetry("DOWNSTREAM_UNAVAILABLE", drive.attempt - 1)
    /\ At("PHASE") \/ At("DONE") => drive.attempt = 6

FailsOnceInv ==
    /\ drive.pc \notin {"SECOND", "PROCESS_SECOND"}
    /\ At("EXECUTE") \/ At("PROCESS") => drive.attempt \in {1, 2}
    /\ At("EXECUTE") =>
          lastAcceptedDecision = None /\ downstreamFailureCount = drive.attempt - 1
    /\ At("PROCESS") /\ drive.attempt = 1 =>
          /\ response = Failure("DOWNSTREAM_UNAVAILABLE")
          /\ lastAcceptedDecision = None /\ downstreamFailureCount = 1
    /\ At("PROCESS") /\ drive.attempt = 2 =>
          /\ response = Success([request |-> drive.expected, fault |-> "NONE"])
          /\ drive.expected \in Nonces
    /\ drive.plans = IF (At("EXECUTE") \/ At("PROCESS")) /\ drive.attempt = 1 THEN <<>>
                     ELSE <<"CLEAN_RETRY">>

TrippingInv ==
    /\ drive.pc \in {"EXECUTE", "PROCESS", "PHASE", "DONE"}
    /\ lastAcceptedDecision = None
    /\ drive.operationCodes \in Seq({"DOWNSTREAM_UNAVAILABLE", "CIRCUIT_OPEN"})
    /\ LET presented == IF At("EXECUTE") THEN drive.attempt - 1 ELSE drive.attempt IN
       At("EXECUTE") \/ At("PROCESS") =>
          /\ presented = 0 => circuit.state = "CLOSED" /\ circuit.failures = 0
          /\ presented = 1 => circuit.state = "CLOSED" /\ circuit.failures = 1
          /\ presented < 2 => downstreamFailureCount = presented
          /\ presented >= 2 => circuit.state = "OPEN" /\ circuit.lastFailureAt = 0
    /\ At("PROCESS") =>
          response = Failure(IF drive.attempt <= 2 THEN "DOWNSTREAM_UNAVAILABLE"
                             ELSE "CIRCUIT_OPEN")
    /\ ~At("PROCESS") /\ drive.attempt > 3 =>
          \E i \in DOMAIN drive.operationCodes : drive.operationCodes[i] = "CIRCUIT_OPEN"
    /\ At("PHASE") \/ At("DONE") => drive.attempt = 5

OperationInv ==
    /\ Stopped(scenario) => StoppedInv
    /\ Healthy(scenario) => HealthyInv
    /\ Unavailable(scenario) => UnavailableInv
    /\ FailsOnce(scenario) => FailsOnceInv
    /\ Tripping(scenario) => TrippingInv

-----------------------------------------------------------------------------
(* The webhook phase, by kind of scenario *)

Opened == drive.pc \in Emitting \cup {"DONE"}

(* What the guard makes of two deliveries in their order.                  *)
Guarded ==
    LET k == Len(phase.receiverCodes) IN
    \/ k = 0 /\ phase.last = 0 /\ phase.seen = {} /\ phase.receiverCodes = <<>>
    \/ k = 1 /\ phase.last = 1 /\ phase.seen = {1} /\ phase.receiverCodes = <<"OK">>
    \/ /\ k = 2
       /\ IF scenario.secondOffset = 0
          THEN phase.seen = {1, 2} /\ phase.receiverCodes = <<"OK", "OK">>
          ELSE /\ phase.last = 1 /\ phase.seen = {1}
               /\ phase.receiverCodes = <<"OK", "WEBHOOK_ORDERING_GAP">>

DeliveringInv ==
    /\ Delivered
    /\ ~At("SPAN") /\ ~At("DONE") => phase.events = EmittedEvents
    /\ At("DELIVER") \/ At("VERIFY") => Guarded
    /\ At("DELIVER") => phase.receiverCodes = <<>>
    /\ ~At("DELIVER") =>
          Len(phase.outcomes) = 2 /\ DOMAIN phase.outcomes = 1..2 /\ Len(phase.captured) = 2
    /\ drive.pc \in {"AGAIN", "RECONCILE", "SPAN", "DONE"} =>
          /\ phase.verified = (scenario.secondOffset = 0)
          /\ phase.receiverCode = IF scenario.tamperDelivery THEN "WEBHOOK_SIGNATURE_INVALID"
                                  ELSE IF scenario.secondOffset = -1 THEN "WEBHOOK_ORDERING_GAP"
                                  ELSE None
          /\ scenario.secondOffset = 0 =>
                phase.rePresented = IF scenario.rePresent THEN "WEBHOOK_NONCE_REPLAYED" ELSE None
          /\ ~scenario.tamperDelivery /\ scenario.secondOffset = 0 =>
                phase.receiverCodes = <<"OK", "OK">>
    /\ At("DONE") => phase.status = "SUCCESS"

ExhaustingInv ==
    IF At("DELIVER") THEN phase.outcomes = <<>> /\ phase.events = EmittedEvents
    ELSE phase.outcomes = <<"RETRY_EXHAUSTED">>

ReconcilingInv ==
    /\ At("DELIVER") /\ phase.outcomes = <<>> => phase.step = 0
    /\ phase.outcomes /= <<>> => phase.outcomes[1] = "DEAD_LETTERED_AMBIGUOUS"
    /\ ~At("DELIVER") => phase.outcomes /= <<>>
    /\ At("SPAN") => phase.reconciliation /= <<>>
    /\ At("DONE") =>
          phase.reconciliationStatus =
              IF scenario.reconcile = "RESOLVE" THEN "RESOLVED" ELSE "REQUIRED_UNRESOLVED"

PhaseInv ==
    Opened =>
        /\ Delivering(scenario) => DeliveringInv
        /\ Exhausting(scenario) => ExhaustingInv
        /\ Reconciling(scenario) => ReconcilingInv
        /\ Unknown(scenario) => phase.views = EmittedEvents

VerdictInv == ~At("FREE") => Fields /\ Faithful /\ OperationInv /\ PhaseInv

-----------------------------------------------------------------------------
(* Every mode of the catalog is of one of these kinds                      *)

LEMMA CodesOfChain ==
    /\ {"PARTNER_UNKNOWN", "PARTNER_SUSPENDED", "PARTNER_REVOKED", "ORG_UNKNOWN",
        "ORG_SUSPENDED", "ORG_NOT_BOUND_TO_PARTNER", "BINDING_INACTIVE", "BINDING_UNKNOWN",
        "ENTITLEMENT_MISSING", "ENTITLEMENT_INACTIVE", "ENTITLEMENT_REVOKED",
        "ENTITLEMENT_EXPIRED", "CAPABILITY_UNKNOWN", "CAPABILITY_VERSION_UNSUPPORTED"}
           \subseteq ChainCodes
    /\ \A c \in ChainCodes : c \in Texts /\ c \in StopTexts
    /\ \A c \in StopTexts : c \in Texts /\ c /= None
<1>1. \A i \in 1..14 : Chain[i] \in ChainCodes
  BY DEF Chain, ChainCodes
<1>2. /\ Chain[1] = "PARTNER_UNKNOWN" /\ Chain[2] = "PARTNER_SUSPENDED"
      /\ Chain[3] = "PARTNER_REVOKED" /\ Chain[4] = "ORG_UNKNOWN"
      /\ Chain[5] = "ORG_SUSPENDED" /\ Chain[6] = "ORG_NOT_BOUND_TO_PARTNER"
      /\ Chain[7] = "BINDING_INACTIVE" /\ Chain[8] = "BINDING_UNKNOWN"
      /\ Chain[9] = "ENTITLEMENT_MISSING" /\ Chain[10] = "ENTITLEMENT_INACTIVE"
      /\ Chain[11] = "ENTITLEMENT_REVOKED" /\ Chain[12] = "ENTITLEMENT_EXPIRED"
      /\ Chain[13] = "CAPABILITY_UNKNOWN" /\ Chain[14] = "CAPABILITY_VERSION_UNSUPPORTED"
  BY DEF Chain
<1>3. \A c \in StopTexts : c \in Texts
  BY DEF StopTexts, Texts
<1>4. None \notin Texts
  BY CatalogAssumption
<1>5. \A c \in ChainCodes : c \in Texts /\ c \in StopTexts
  BY DEF StopTexts, Texts
<1> QED
  BY <1>1, <1>2, <1>3, <1>4, <1>5

LEMMA RefusalSorted ==
    ASSUME NEW name, NEW code \in ChainCodes, NEW s, Stops(s, code),
           NEW m, m = Refusal(name, code, s)
    PROVE  Sorted(m)
<1>1. m.scenario = s /\ m.surface = "PLATFORM_RESPONSE" /\ m.expectedCode = code
  BY DEF Refusal, Mode
<1>2. StopCode(s) = code /\ code \in StopTexts
  BY PlainSigned, CodesOfChain DEF Stops
<1>3. Stopped(s)
  BY <1>2 DEF Stopped, Stops, Plain
<1> QED
  BY <1>1, <1>2, <1>3 DEF Sorted, StoppedMode

LEMMA AuthorizationSorted ==
    ASSUME NEW id, Ordinary(id), NEW m \in AuthorizationModes(WellBehaved(id))
    PROVE  Sorted(m)
<1>1. PICK b : b = WellBehaved(id)
  OBVIOUS
<1>2. PICK s1, s2, s3, s4, s5, s6, s7, s8 :
          /\ s1 = [b EXCEPT !.partners = {}] /\ s2 = WithPartnerStatus(b, "SUSPENDED")
          /\ s3 = WithPartnerStatus(b, "REVOKED") /\ s4 = [b EXCEPT !.orgs = {}]
          /\ s5 = WithOrgStatus(b, "SUSPENDED") /\ s6 = WithBindings(b, {})
          /\ s7 = WithBinding(b, "status", "INACTIVE")
          /\ s8 = WithBinding(b, "entitlements", {"other-entitlement"})
  OBVIOUS
<1>3. /\ Stops(s1, "PARTNER_UNKNOWN") /\ Stops(s2, "PARTNER_SUSPENDED")
      /\ Stops(s3, "PARTNER_REVOKED") /\ Stops(s4, "ORG_UNKNOWN")
      /\ Stops(s5, "ORG_SUSPENDED") /\ Stops(s6, "ORG_NOT_BOUND_TO_PARTNER")
      /\ Stops(s7, "BINDING_INACTIVE") /\ Stops(s8, "BINDING_UNKNOWN")
  BY <1>1, <1>2, NothingStops, PartnerStops, OrgStops, UnboundStops, BindingStops
<1>4. m \in {Refusal("authorization-partner-unknown", "PARTNER_UNKNOWN", s1),
             Refusal("authorization-partner-suspended", "PARTNER_SUSPENDED", s2),
             Refusal("authorization-partner-revoked", "PARTNER_REVOKED", s3),
             Refusal("authorization-org-unknown", "ORG_UNKNOWN", s4),
             Refusal("authorization-org-suspended", "ORG_SUSPENDED", s5),
             Refusal("authorization-org-unbound", "ORG_NOT_BOUND_TO_PARTNER", s6),
             Refusal("authorization-binding-inactive", "BINDING_INACTIVE", s7),
             Refusal("authorization-binding-unknown-entitlement", "BINDING_UNKNOWN", s8)}
  BY <1>1, <1>2 DEF AuthorizationModes
<1>5. \A name, s : \A code \in ChainCodes : Stops(s, code) => Sorted(Refusal(name, code, s))
  BY RefusalSorted
<1> QED
  BY <1>3, <1>4, <1>5, CodesOfChain

LEMMA EntitlementSorted ==
    ASSUME NEW id, Ordinary(id), NEW m \in EntitlementModes(WellBehaved(id))
    PROVE  Sorted(m)
<1>1. PICK b : b = WellBehaved(id)
  OBVIOUS
<1>2. PICK s1, s2, s3, s4, s5, s6, s7 :
          /\ s1 = WithEntitlements(b, {})
          /\ s2 = WithClaimedEntitlementData(b, "status", "INACTIVE")
          /\ s3 = WithClaimedEntitlementData(b, "status", "REVOKED")
          /\ s4 = WithClaimedEntitlementData(b, "validUntil", 0)
          /\ s5 = WithClaim(WithBinding(b, "entitlements", {"claimed-unknown"}),
                            "entitlement", "claimed-unknown")
          /\ s6 = WithClaim(b, "capability", "reports-unknown")
          /\ s7 = WithClaimedEntitlementData(b, "capabilities",
                                             {Capability(b.claims.capability, 2, 1)})
  OBVIOUS
<1>3. /\ Stops(s1, "ENTITLEMENT_MISSING") /\ Stops(s2, "ENTITLEMENT_INACTIVE")
      /\ Stops(s3, "ENTITLEMENT_REVOKED") /\ Stops(s4, "ENTITLEMENT_EXPIRED")
      /\ Stops(s5, "ENTITLEMENT_MISSING") /\ Stops(s6, "CAPABILITY_UNKNOWN")
      /\ Stops(s7, "CAPABILITY_VERSION_UNSUPPORTED")
  BY <1>1, <1>2, EntitlementStops, MissingStops
<1>4. m \in {Refusal("entitlement-missing", "ENTITLEMENT_MISSING", s1),
             Refusal("entitlement-inactive", "ENTITLEMENT_INACTIVE", s2),
             Refusal("entitlement-revoked", "ENTITLEMENT_REVOKED", s3),
             Refusal("entitlement-expired-boundary", "ENTITLEMENT_EXPIRED", s4),
             Refusal("entitlement-claimed-unknown", "ENTITLEMENT_MISSING", s5),
             Refusal("entitlement-capability-unknown", "CAPABILITY_UNKNOWN", s6),
             Refusal("entitlement-capability-version-inverted",
                     "CAPABILITY_VERSION_UNSUPPORTED", s7)}
  BY <1>1, <1>2 DEF EntitlementModes
<1>5. \A name, s : \A code \in ChainCodes : Stops(s, code) => Sorted(Refusal(name, code, s))
  BY RefusalSorted
<1> QED
  BY <1>3, <1>4, <1>5, CodesOfChain

(* The fields that the injectors of the other groups change.               *)
LEMMA BaseFields ==
    ASSUME NEW id, Ordinary(id), NEW b, b = WellBehaved(id)
    PROVE  /\ Runs(b) /\ Healthy(b) /\ Delivering(b)
           /\ b.flaw = None /\ b.drift = 0 /\ ~b.killSwitch /\ b.second = "NONE"
           /\ b.presentations = 1 /\ b.receiptFault = "NONE" /\ b.downstream = "HEALTHY"
           /\ b.circuit = None /\ b.eventType = "processing.completed"
           /\ b.emitEventCount = 2 /\ b.secondOffset = 0 /\ b.transportScript = <<"OK">>
           /\ ~b.rePresent /\ ~b.tamperDelivery /\ ~b.deliverTwice /\ b.reconcile = None
           /\ {"flaw", "drift", "killSwitch", "second", "presentations", "receiptFault",
               "downstream", "circuit", "eventType", "emitEventCount", "secondOffset",
               "transportScript", "rePresent", "tamperDelivery", "deliverTwice", "reconcile"}
                  \subseteq DOMAIN b
<1>1. /\ b.flaw = None /\ b.drift = 0 /\ ~b.killSwitch /\ b.second = "NONE"
      /\ b.presentations = 1 /\ b.receiptFault = "NONE" /\ b.downstream = "HEALTHY"
      /\ b.circuit = None /\ b.eventType = "processing.completed"
      /\ b.emitEventCount = 2 /\ b.secondOffset = 0 /\ b.transportScript = <<"OK">>
      /\ ~b.rePresent /\ ~b.tamperDelivery /\ ~b.deliverTwice /\ b.reconcile = None
  BY DEF WellBehaved
<1>2. {"flaw", "drift", "killSwitch", "second", "presentations", "receiptFault",
       "downstream", "circuit", "eventType", "emitEventCount", "secondOffset",
       "transportScript", "rePresent", "tamperDelivery", "deliverTwice", "reconcile"}
          \subseteq DOMAIN b
  BY DEF WellBehaved
<1>3. Resolved(b) = None
  BY BaseRuns
<1>4. Runs(b) /\ Healthy(b) /\ Delivering(b)
  BY <1>1, <1>3 DEF Runs, Healthy, Delivering, Emits
<1> QED
  BY <1>1, <1>2, <1>4

LEMMA SignatureSorted ==
    ASSUME NEW id, Ordinary(id), NEW b, b = WellBehaved(id), NEW m \in SignatureModes(b)
    PROVE  Sorted(m)
<1>1. PICK s1, s2, s3, s4 :
          /\ s1 = [b EXCEPT !.flaw = "SIGNATURE"] /\ s2 = [b EXCEPT !.drift = 2]
          /\ s3 = [b EXCEPT !.flaw = "BODY"] /\ s4 = [b EXCEPT !.flaw = "NONCE"]
  OBVIOUS
<1>2. /\ b.flaw = None /\ b.drift = 0 /\ ~b.killSwitch /\ b.second = "NONE"
      /\ b.presentations = 1
      /\ {"flaw", "drift", "killSwitch", "second", "presentations"} \subseteq DOMAIN b
  BY BaseFields
<1>3. \A s \in {s1, s2, s3, s4} :
          /\ ~s.killSwitch /\ s.second = "NONE" /\ s.presentations = 1
          /\ s.drift = IF s = s2 THEN 2 ELSE 0
  BY <1>1, <1>2
<1>4. s1.flaw = "SIGNATURE" /\ s2.flaw = None /\ s3.flaw = "BODY" /\ s4.flaw = "NONCE"
  BY <1>1, <1>2
<1>5. 0 - 0 \in (-Skew)..Skew /\ 0 - 2 \notin (-Skew)..Skew
  BY CatalogAssumption
<1>6. None \notin SignatureCodes /\ None \notin {"BODY", "NONCE", "SIGNATURE"}
  BY CodesAssumption, CatalogAssumption DEF Texts
<1>7. /\ StopCode(s1) = "SIGNATURE_SIGNATURE_MISMATCH"
      /\ StopCode(s2) = "SIGNATURE_CLOCK_SKEW_EXCEEDED"
      /\ StopCode(s3) = "SIGNATURE_BODY_HASH_INVALID"
      /\ StopCode(s4) = "SIGNATURE_NONCE_INVALID"
  BY <1>3, <1>4, <1>5, <1>6 DEF StopCode, SignedWrong, SignatureCodes
<1>8. m \in {Refusal("signature-tampered-signature", "SIGNATURE_SIGNATURE_MISMATCH", s1),
             Refusal("signature-wrong-secret", "SIGNATURE_SIGNATURE_MISMATCH", s1),
             Refusal("signature-clock-skew", "SIGNATURE_CLOCK_SKEW_EXCEEDED", s2),
             Refusal("signature-tampered-body", "SIGNATURE_BODY_HASH_INVALID", s3),
             Refusal("signature-nonce-pattern-violation", "SIGNATURE_NONCE_INVALID", s4)}
  BY <1>1 DEF SignatureModes
<1>9. m.surface = "PLATFORM_RESPONSE" /\ m.scenario \in {s1, s2, s3, s4}
      /\ m.expectedCode = StopCode(m.scenario) /\ m.expectedCode \in SignatureCodes
  BY <1>7, <1>8 DEF Refusal, Mode, SignatureCodes
<1> QED
  BY <1>3, <1>9 DEF Sorted, StoppedMode, Stopped, StopTexts

LEMMA KilledSorted ==
    ASSUME NEW id, Ordinary(id), NEW b, b = WellBehaved(id), NEW m \in KillSwitchModes(b)
    PROVE  Sorted(m)
<1>1. PICK s : s = [b EXCEPT !.killSwitch = TRUE]
  OBVIOUS
<1>2. /\ b.second = "NONE" /\ b.presentations = 1
      /\ {"flaw", "drift", "killSwitch", "second", "presentations"} \subseteq DOMAIN b
  BY BaseFields
<1>3. s.killSwitch /\ s.second = "NONE" /\ s.presentations = 1
  BY <1>1, <1>2
<1>4. m = Refusal("kill-switch-refuses-all", "PLATFORM_KILL_SWITCH", s)
  BY <1>1 DEF KillSwitchModes
<1> QED
  BY <1>3, <1>4 DEF Sorted, StoppedMode, Stopped, StopTexts, StopCode, Refusal, Mode

(* A scenario that differs in what does not concern resolution.            *)
Alike(b, s) ==
    /\ s.partners = b.partners /\ s.orgs = b.orgs /\ s.claims = b.claims
    /\ s.flaw = b.flaw /\ s.drift = b.drift /\ s.killSwitch = b.killSwitch

LEMMA RunsKept ==
    ASSUME NEW b, NEW s, Runs(b), Alike(b, s)
    PROVE  Runs(s)
  BY DEF Runs, Resolved, Alike

LEMMA AnswersSorted ==
    ASSUME NEW id, Ordinary(id), NEW b, b = WellBehaved(id),
           NEW m \in ReplayModes(b) \cup ReceiptModes(b)
    PROVE  Sorted(m)
<1>1. PICK s1, s2, s3, r1, r2, r3, r4 :
          /\ s1 = [b EXCEPT !.second = "REPLAY"] /\ s2 = [b EXCEPT !.second = "DUPLICATE"]
          /\ s3 = [b EXCEPT !.second = "CONFLICT"]
          /\ r1 = [b EXCEPT !.receiptFault = "OMIT"] /\ r2 = [b EXCEPT !.receiptFault = "FORGED"]
          /\ r3 = [b EXCEPT !.receiptFault = "TAMPERED"]
          /\ r4 = [b EXCEPT !.receiptFault = "WRONG_OPERATION"]
  OBVIOUS
<1>2. /\ Runs(b) /\ b.presentations = 1 /\ b.downstream = "HEALTHY" /\ b.circuit = None
      /\ b.second = "NONE" /\ {"second", "receiptFault"} \subseteq DOMAIN b
  BY BaseFields
<1>3. ASSUME NEW s, NEW v, s = [b EXCEPT !.second = v] \/ s = [b EXCEPT !.receiptFault = v]
      PROVE  Healthy(s)
  <2>1. CASE s = [b EXCEPT !.second = v]
    <3>1. /\ Alike(b, s) /\ s.presentations = 1 /\ s.downstream = "HEALTHY"
          /\ s.circuit = None
      BY <1>2, <2>1 DEF Alike
    <3> QED
      BY <1>2, <3>1, RunsKept DEF Healthy
  <2>2. CASE s = [b EXCEPT !.receiptFault = v]
    <3>1. /\ Alike(b, s) /\ s.presentations = 1 /\ s.downstream = "HEALTHY"
          /\ s.circuit = None
      BY <1>2, <2>2 DEF Alike
    <3> QED
      BY <1>2, <3>1, RunsKept DEF Healthy
  <2> QED
    BY <1>3, <2>1, <2>2
<1>4. \A s \in {s1, s2, s3, r1, r2, r3, r4} : Healthy(s)
  BY <1>1, <1>3
<1>5. s1.second = "REPLAY" /\ s2.second = "DUPLICATE" /\ s3.second = "CONFLICT"
  BY <1>1, <1>2
<1>6. /\ r1.receiptFault = "OMIT" /\ r2.receiptFault = "FORGED"
      /\ r3.receiptFault = "TAMPERED" /\ r4.receiptFault = "WRONG_OPERATION"
      /\ \A s \in {r1, r2, r3, r4} : s.second = "NONE"
  BY <1>1, <1>2
<1>7. CASE m \in ReplayModes(b)
  <2>1. m \in {Refusal("replay-same-signed-request", "REQUEST_REPLAYED", s1),
               Mode("replay-duplicate-collapse", "PLATFORM_RESPONSE",
                    "IDEMPOTENCY_DUPLICATE_COLLAPSED", FALSE, s2),
               Refusal("replay-idempotency-conflict", "IDEMPOTENCY_KEY_CONFLICT", s3)}
    BY <1>1, <1>7 DEF ReplayModes
  <2>2. m.surface = "PLATFORM_RESPONSE" /\ m.scenario \in {s1, s2, s3}
        /\ m.expectedCode = SecondCode(m.scenario.second)
    BY <1>5, <2>1 DEF Refusal, Mode, SecondCode
  <2> QED
    BY <1>4, <1>5, <2>2 DEF Sorted, AnsweredMode
<1>8. CASE m \in ReceiptModes(b)
  <2>1. m \in {Mode("receipt-omitted", "RECEIPT", "RECEIPT_MISSING_HEADERS", TRUE, r1),
               Mode("receipt-forged", "RECEIPT", "RECEIPT_INVALID_SIGNATURE", TRUE, r2),
               Mode("receipt-tampered-content-hash", "RECEIPT",
                    "RECEIPT_CONTENT_HASH_MISMATCH", TRUE, r3),
               Mode("receipt-wrong-operation", "RECEIPT", "RECEIPT_FIELD_MISMATCH", TRUE, r4)}
    BY <1>1, <1>8 DEF ReceiptModes
  <2>2. m.surface = "RECEIPT" /\ m.scenario \in {r1, r2, r3, r4}
        /\ m.expectedCode = FaultReason(m.scenario.receiptFault)
    BY <1>6, <2>1 DEF Mode, FaultReason
  <2> QED
    BY <1>4, <1>6, <2>2 DEF Sorted, AnsweredMode, ReceiptFaults
<1> QED
  BY <1>7, <1>8

LEMMA RetriesSorted ==
    ASSUME NEW id, Ordinary(id), NEW b, b = WellBehaved(id),
           NEW m \in RetryModes(b) \cup CircuitModes(b)
    PROVE  Sorted(m)
<1>0. PICK c : c = [failureThreshold |-> 2, resetTimeout |-> 1, downstreamFailures |-> 3]
  OBVIOUS
<1>1. PICK s1, s2, s3, s4, s5 :
          /\ s1 = [b EXCEPT !.downstream = "FAILS_ONCE_THEN_HEALTHY", !.presentations = 2]
          /\ s2 = [b EXCEPT !.receiptFault = "OMIT"] /\ s3 = [b EXCEPT !.flaw = "SIGNATURE"]
          /\ s4 = [b EXCEPT !.downstream = "UNAVAILABLE", !.presentations = 5]
          /\ s5 = [b EXCEPT !.circuit = c, !.presentations = 4]
  OBVIOUS
<1>2. /\ Runs(b) /\ b.presentations = 1 /\ b.downstream = "HEALTHY" /\ b.circuit = None
      /\ b.second = "NONE" /\ b.receiptFault = "NONE" /\ ~b.killSwitch
      /\ {"downstream", "presentations", "receiptFault", "flaw", "circuit"} \subseteq DOMAIN b
  BY BaseFields
<1>3. \A s \in {s1, s2, s4, s5} : Alike(b, s) /\ s.second = "NONE"
  <2>1. Alike(b, s1) /\ s1.second = "NONE"
    BY <1>1, <1>2 DEF Alike
  <2>2. Alike(b, s2) /\ s2.second = "NONE"
    BY <1>1, <1>2 DEF Alike
  <2>3. Alike(b, s4) /\ s4.second = "NONE"
    BY <1>1, <1>2 DEF Alike
  <2>4. Alike(b, s5) /\ s5.second = "NONE"
    BY <1>1, <1>2 DEF Alike
  <2> QED
    BY <2>1, <2>2, <2>3, <2>4
<1>4. /\ s1.downstream = "FAILS_ONCE_THEN_HEALTHY" /\ s1.presentations = 2
      /\ s1.circuit = None /\ s1.receiptFault = "NONE"
      /\ s2.receiptFault = "OMIT" /\ s2.presentations = 1 /\ s2.downstream = "HEALTHY"
      /\ s2.circuit = None
      /\ s4.downstream = "UNAVAILABLE" /\ s4.presentations = 5 /\ s4.circuit = None
      /\ s5.circuit = c /\ s5.presentations = 4
  BY <1>1, <1>2
<1>5. FailsOnce(s1) /\ Healthy(s2) /\ Unavailable(s4) /\ Tripping(s5)
  <2>1. Runs(s1) /\ Runs(s2) /\ Runs(s4) /\ Runs(s5)
    BY <1>2, <1>3, RunsKept
  <2> QED
    BY <1>0, <1>3, <1>4, <2>1 DEF FailsOnce, Healthy, Unavailable, Tripping
<1>6. CASE m \in RetryModes(b)
  <2>1. m \in {Mode("retry-clean-retryable", "PLAN", "CLEAN_RETRY", FALSE, s1),
               Mode("retry-ambiguous-reconcile", "PLAN", "AMBIGUOUS_RECONCILE", TRUE, s2),
               Mode("retry-terminal-classification", "PLAN", "TERMINAL", TRUE, s3),
               Mode("retry-exhaustion-schedule-bound", "PLAN", "EXHAUSTED", TRUE, s4)}
    BY <1>1, <1>6 DEF RetryModes
  <2>2. CASE m = Mode("retry-clean-retryable", "PLAN", "CLEAN_RETRY", FALSE, s1)
    BY <1>5, <2>2 DEF Mode, Sorted, RetriedMode
  <2>3. CASE m = Mode("retry-ambiguous-reconcile", "PLAN", "AMBIGUOUS_RECONCILE", TRUE, s2)
    BY <1>3, <1>4, <1>5, <2>3 DEF Mode, Sorted, AnsweredMode, ReceiptFaults
  <2>4. CASE m = Mode("retry-terminal-classification", "PLAN", "TERMINAL", TRUE, s3)
    <3>1. Refusal("signature-tampered-signature", "SIGNATURE_SIGNATURE_MISMATCH", s3)
              \in SignatureModes(b)
      BY <1>1 DEF SignatureModes
    <3>2. StopCode(s3) = "SIGNATURE_SIGNATURE_MISMATCH"
      <4>1. s3.flaw = "SIGNATURE" /\ ~s3.killSwitch /\ s3.drift = 0
        BY <1>1, <1>2 DEF Runs
      <4>2. 0 - 0 \in (-Skew)..Skew
        BY CatalogAssumption
      <4>3. None \notin SignatureCodes
        BY CodesAssumption
      <4> QED
        BY <4>1, <4>2, <4>3 DEF StopCode, SignedWrong, SignatureCodes
    <3>3. s3.second = "NONE" /\ s3.presentations = 1
      BY <1>1, <1>2
    <3> QED
      BY <2>4, <3>2, <3>3 DEF Mode, Sorted, StoppedMode, Stopped, StopTexts, SignatureCodes
  <2>5. CASE m = Mode("retry-exhaustion-schedule-bound", "PLAN", "EXHAUSTED", TRUE, s4)
    BY <1>5, <2>5 DEF Mode, Sorted, RetriedMode
  <2> QED
    BY <2>1, <2>2, <2>3, <2>4, <2>5
<1>7. CASE m \in CircuitModes(b)
  <2>1. m = Mode("circuit-threshold-trip-open", "CIRCUIT", "CIRCUIT_OPEN", TRUE, s5)
    BY <1>0, <1>1, <1>7 DEF CircuitModes
  <2> QED
    BY <1>5, <2>1 DEF Mode, Sorted, RetriedMode
<1> QED
  BY <1>6, <1>7

Operates(b, s) ==
    /\ Alike(b, s) /\ s.second = "NONE" /\ s.presentations = 1
    /\ s.downstream = "HEALTHY" /\ s.circuit = None
    /\ s.receiptFault = "NONE" /\ ~s.deliverTwice

LEMMA WebhooksSorted ==
    ASSUME NEW id, Ordinary(id), NEW b, b = WellBehaved(id),
           NEW m \in {ControlMode(b)} \cup WebhookModes(b) \cup ReconciliationModes(b)
    PROVE  Sorted(m)
<1>1. PICK s1, s2, s3, s4, s5, a, s6, s7 :
          /\ s1 = [b EXCEPT !.eventType = "sim.not-an-event"]
          /\ s2 = [b EXCEPT !.secondOffset = -1]
          /\ s3 = [b EXCEPT !.rePresent = TRUE] /\ s4 = [b EXCEPT !.tamperDelivery = TRUE]
          /\ s5 = [b EXCEPT !.emitEventCount = 1, !.transportScript = <<"CLEAN">>]
          /\ a = [b EXCEPT !.transportScript = <<"AMBIGUOUS", "OK">>]
          /\ s6 = [a EXCEPT !.reconcile = "RESOLVE"] /\ s7 = [a EXCEPT !.reconcile = "ESCALATE"]
  OBVIOUS
<1>2. /\ Runs(b) /\ b.presentations = 1 /\ b.downstream = "HEALTHY" /\ b.circuit = None
      /\ b.second = "NONE" /\ b.receiptFault = "NONE" /\ b.eventType = "processing.completed"
      /\ b.emitEventCount = 2 /\ b.secondOffset = 0 /\ b.transportScript = <<"OK">>
      /\ ~b.rePresent /\ ~b.tamperDelivery /\ ~b.deliverTwice
      /\ {"eventType", "emitEventCount", "secondOffset", "transportScript", "rePresent",
          "tamperDelivery", "reconcile"} \subseteq DOMAIN b
  BY BaseFields
<1>3. \A s \in {b, s1, s2, s3, s4, s5, s6, s7} : Operates(b, s)
  <2>1. Operates(b, b) /\ Operates(b, s1)
    BY <1>1, <1>2 DEF Operates, Alike
  <2>2. Operates(b, s2) /\ Operates(b, s3)
    BY <1>1, <1>2 DEF Operates, Alike
  <2>3. Operates(b, s4) /\ Operates(b, s5)
    BY <1>1, <1>2 DEF Operates, Alike
  <2>4. Operates(b, s6)
    BY <1>1, <1>2 DEF Operates, Alike
  <2>5. Operates(b, s7)
    BY <1>1, <1>2 DEF Operates, Alike
  <2> QED
    BY <2>1, <2>2, <2>3, <2>4, <2>5
<1>4. \A s \in {b, s1, s2, s3, s4, s5, s6, s7} : Healthy(s)
  BY <1>2, <1>3, RunsKept DEF Healthy, Operates
<1>5. \A s \in {b, s2, s3, s4} :
          /\ s.eventType = "processing.completed" /\ s.emitEventCount = 2
          /\ s.transportScript = <<"OK">>
          /\ s.secondOffset = IF s = s2 THEN -1 ELSE 0
  BY <1>1, <1>2
<1>6. \A s \in {b, s2, s3, s4} : Delivering(s)
  BY <1>3, <1>4, <1>5 DEF Delivering, Emits, Operates
<1>7. /\ b.secondOffset = 0 /\ ~b.tamperDelivery
      /\ s2.secondOffset = -1 /\ ~s2.tamperDelivery
      /\ s3.secondOffset = 0 /\ s3.rePresent /\ ~s3.tamperDelivery
      /\ s4.tamperDelivery
  BY <1>1, <1>2
<1>8. s1.eventType = "sim.not-an-event" /\ s1.emitEventCount = 2
  BY <1>1, <1>2
<1>9. /\ s5.eventType = "processing.completed" /\ s5.emitEventCount = 1
      /\ s5.transportScript = <<"CLEAN">>
  BY <1>1, <1>2
<1>10. /\ \A s \in {s6, s7} : Emits(s, 2, <<"AMBIGUOUS", "OK">>)
       /\ s6.reconcile = "RESOLVE" /\ s7.reconcile = "ESCALATE"
  BY <1>1, <1>2 DEF Emits
<1>11. Unknown(s1) /\ Exhausting(s5) /\ Reconciling(s6) /\ Reconciling(s7)
  BY <1>4, <1>8, <1>9, <1>10 DEF Unknown, Exhausting, Reconciling, Emits
<1>12. CASE m = ControlMode(b)
  BY <1>3, <1>6, <1>7, <1>12 DEF Operates, ControlMode, Mode, Sorted, WebhookMode
<1>13. CASE m \in WebhookModes(b)
  <2>1. m \in {Mode("webhook-unknown-event-type", "EMIT", "WEBHOOK_EVENT_TYPE_UNKNOWN", TRUE, s1),
               Mode("webhook-ordering-gap", "RECEIVER", "WEBHOOK_ORDERING_GAP", TRUE, s2),
               Mode("webhook-replayed-delivery", "RECEIVER", "WEBHOOK_NONCE_REPLAYED", TRUE, s3),
               Mode("webhook-tampered-delivery-body", "RECEIVER", "WEBHOOK_SIGNATURE_INVALID",
                    TRUE, s4),
               Mode("webhook-delivery-exhaustion", "DELIVERY", "RETRY_EXHAUSTED", TRUE, s5)}
    BY <1>1, <1>13 DEF WebhookModes
  <2>2. /\ ReceiverShows(s2) = "WEBHOOK_ORDERING_GAP"
        /\ ReceiverShows(s3) = "WEBHOOK_NONCE_REPLAYED"
        /\ ReceiverShows(s4) = "WEBHOOK_SIGNATURE_INVALID"
    BY <1>7 DEF ReceiverShows
  <2> QED
    BY <1>6, <1>11, <2>1, <2>2 DEF Mode, Sorted, WebhookMode
<1>14. CASE m \in ReconciliationModes(b)
  <2>1. m \in {Mode("reconciliation-resolve", "SPAN", "RESOLVED", FALSE, s6),
               Mode("reconciliation-escalate", "SPAN", "REQUIRED_UNRESOLVED", TRUE, s7)}
    BY <1>1, <1>14 DEF ReconciliationModes
  <2> QED
    BY <1>10, <1>11, <2>1 DEF Mode, Sorted, WebhookMode
<1> QED
  BY <1>12, <1>13, <1>14

LEMMA CatalogSorted ==
    ASSUME NEW m \in Matrix
    PROVE  Sorted(m)
<1>1. PICK id \in Simulators :
          m \in {ControlMode(WellBehaved(id))} \cup FailureModesOf(WellBehaved(id))
  BY DEF Matrix
<1>2. PICK b : b = WellBehaved(id) /\ m \in {ControlMode(b)} \cup FailureModesOf(b)
  BY <1>1
<1>3. Ordinary(id)
  BY SimulatorsOrdinary
<1>4. \/ m \in SignatureModes(b) \/ m \in KillSwitchModes(b)
      \/ m \in ReplayModes(b) \cup ReceiptModes(b)
      \/ m \in AuthorizationModes(b) \/ m \in EntitlementModes(b)
      \/ m \in RetryModes(b) \cup CircuitModes(b)
      \/ m \in {ControlMode(b)} \cup WebhookModes(b) \cup ReconciliationModes(b)
  BY <1>2 DEF FailureModesOf
<1>5. m \in AuthorizationModes(WellBehaved(id)) \/ m \in EntitlementModes(WellBehaved(id))
          => Sorted(m)
  BY <1>3, AuthorizationSorted, EntitlementSorted
<1> QED
  BY <1>2, <1>3, <1>4, <1>5, SignatureSorted, KilledSorted, AnswersSorted, RetriesSorted,
     WebhooksSorted

-----------------------------------------------------------------------------
(* What a request of a scenario is answered *)

LEMMA SignatureIs ==
    ASSUME scenario.drift \in Int, now = 0, NEW r, r.at = scenario.drift, r.flaw = scenario.flaw
    PROVE  SignatureFailure(r) = SignedWrong(scenario)
<1>1. now - r.at = 0 - scenario.drift
  OBVIOUS
<1> QED
  BY <1>1 DEF SignatureFailure, SignedWrong

LEMMA ResolutionIs ==
    ASSUME now = 0
    PROVE  Resolution = Resolved(scenario)
  BY DEF Resolution, Resolved, Registry

DecisionKinds ==
    [stage: {"KILL_SWITCH", "SIGNATURE", "REPLAY", "AUTHORIZATION", "IDEMPOTENCY",
             "IDEMPOTENCY_DUPLICATE", "OPERATION", "ACCEPTED"},
     accepted: BOOLEAN, code: Texts \cup {None}]

LEMMA DecisionIs ==
    ASSUME NEW d \in DecisionKinds
    PROVE  d /= None
<1>1. None \notin DecisionKinds
  BY CatalogAssumption DEF DecisionKinds
<1> QED
  BY <1>1

LEMMA RefusedTells ==
    ASSUME NEW stage \in {"KILL_SWITCH", "SIGNATURE", "REPLAY", "AUTHORIZATION", "IDEMPOTENCY",
                          "IDEMPOTENCY_DUPLICATE", "OPERATION", "ACCEPTED"},
           NEW code \in Texts, NEW reason, Refused(stage, code, reason)
    PROVE  /\ lastDecision' /= None /\ lastDecision'.code = code
           /\ response' = Failure(code)
           /\ UNCHANGED <<lastAcceptedDecision, records>> /\ reasonCodes \subseteq reasonCodes'
<1>1. lastDecision' = [stage |-> stage, accepted |-> FALSE, code |-> code]
  BY DEF Refused, Decision
<1>2. lastDecision' \in DecisionKinds /\ lastDecision'.code = code
  BY <1>1 DEF DecisionKinds
<1>3. lastDecision' /= None
  BY <1>2, DecisionIs
<1> QED
  BY <1>2, <1>3 DEF Refused

(* A request with something wrong is refused with the code that stops it.  *)
LEMMA StopsReceive ==
    ASSUME now = 0, scenario.drift \in Int, NEW r, r.at = scenario.drift,
           r.flaw = scenario.flaw, ~Replayed(r), Receive(r), StopCode(scenario) \in StopTexts
    PROVE  /\ lastDecision' /= None /\ lastDecision'.code = StopCode(scenario)
           /\ response' = Failure(StopCode(scenario))
           /\ UNCHANGED lastAcceptedDecision
<1>1. SignatureFailure(r) = SignedWrong(scenario) /\ Resolution = Resolved(scenario)
  BY SignatureIs, ResolutionIs
<1>2. StopCode(scenario) /= None /\ StopCode(scenario) \in Texts
  BY CodesOfChain
<1>3. CASE scenario.killSwitch
  <2>1. RefuseKilled(r)
    BY <1>3 DEF Receive, RefuseSignature, RefuseReplay, RefuseClaims, RefuseConflict,
       CollapseDuplicate, RefuseOpenCircuit, FailOperation, CompleteOperation, Reaches,
       Authorised, Fresh, Verified
  <2>2. Refused("KILL_SWITCH", StopCode(scenario), "KILL_SWITCH_ENGAGED")
    BY <1>3, <2>1 DEF RefuseKilled, StopCode
  <2> QED
    BY <1>2, <2>2, RefusedTells
<1>4. CASE ~scenario.killSwitch /\ SignedWrong(scenario) /= None
  <2>1. RefuseSignature(r)
    BY <1>1, <1>4 DEF Receive, RefuseKilled, RefuseReplay, RefuseClaims, RefuseConflict,
       CollapseDuplicate, RefuseOpenCircuit, FailOperation, CompleteOperation, Reaches,
       Authorised, Fresh, Verified
  <2>2. Refused("SIGNATURE", StopCode(scenario), StopCode(scenario))
    BY <1>1, <1>4, <2>1 DEF RefuseSignature, StopCode
  <2> QED
    BY <1>2, <2>2, RefusedTells
<1>5. CASE ~scenario.killSwitch /\ SignedWrong(scenario) = None
  <2>1. StopCode(scenario) = Resolution /\ Resolution /= None
    BY <1>1, <1>2, <1>5 DEF StopCode
  <2>2. RefuseClaims(r)
    BY <1>1, <1>5, <2>1 DEF Receive, RefuseKilled, RefuseSignature, RefuseReplay, RefuseConflict,
       CollapseDuplicate, RefuseOpenCircuit, FailOperation, CompleteOperation, Reaches,
       Authorised, Fresh, Verified
  <2>3. Refused("AUTHORIZATION", StopCode(scenario), StopCode(scenario))
    BY <2>1, <2>2 DEF RefuseClaims
  <2> QED
    BY <1>2, <2>3, RefusedTells
<1> QED
  BY <1>3, <1>4, <1>5

(* A request with nothing wrong gets through to the registry of operations. *)
LEMMA RunsVerified ==
    ASSUME now = 0, Runs(scenario), NEW r, r.at = 0, r.flaw = None
    PROVE  Verified(r) /\ Resolution = None
<1>1. 0 \in (-Skew)..Skew /\ now - r.at = 0
  OBVIOUS
<1>2. None \notin {"BODY", "NONCE", "SIGNATURE"}
  BY CatalogAssumption DEF Texts
<1>3. SignatureFailure(r) = None
  BY <1>1, <1>2 DEF SignatureFailure
<1> QED
  BY <1>3, ResolutionIs DEF Runs, Verified

LEMMA RunsReceive ==
    ASSUME now = 0, Runs(scenario), NEW r, r.at = 0, r.flaw = None, Receive(r)
    PROVE  IF Replayed(r) THEN RefuseReplay(r)
           ELSE CASE IdempotencyKind(r) = "CONFLICT" -> RefuseConflict(r)
                  [] IdempotencyKind(r) = "DUPLICATE" -> CollapseDuplicate(r)
                  [] IdempotencyKind(r) = "FRESH" ->
                        RefuseOpenCircuit(r) \/ FailOperation(r) \/ CompleteOperation(r)
<1>1. Verified(r) /\ Resolution = None
  BY RunsVerified
<1>2. ~RefuseKilled(r) /\ ~RefuseSignature(r) /\ ~RefuseClaims(r)
  BY <1>1 DEF RefuseKilled, RefuseSignature, RefuseClaims, Verified
<1>3. CASE Replayed(r)
  BY <1>2, <1>3 DEF Receive, RefuseConflict, CollapseDuplicate, RefuseOpenCircuit,
     FailOperation, CompleteOperation, Reaches, Authorised, Fresh
<1>4. CASE ~Replayed(r)
  <2>1. ~RefuseReplay(r)
    BY <1>4 DEF RefuseReplay
  <2>2. IdempotencyKind(r) \in {"FRESH", "CONFLICT", "DUPLICATE"}
    BY DEF IdempotencyKind
  <2>3. RefuseConflict(r) => IdempotencyKind(r) = "CONFLICT"
    BY DEF RefuseConflict
  <2>4. CollapseDuplicate(r) => IdempotencyKind(r) = "DUPLICATE"
    BY DEF CollapseDuplicate
  <2>5. RefuseOpenCircuit(r) \/ FailOperation(r) \/ CompleteOperation(r)
            => IdempotencyKind(r) = "FRESH"
    BY DEF RefuseOpenCircuit, FailOperation, CompleteOperation, Reaches
  <2> QED
    BY <1>2, <1>4, <2>1, <2>2, <2>3, <2>4, <2>5 DEF Receive
<1> QED
  BY <1>3, <1>4

(* The requests of the driver.                                             *)
LEMMA ExecuteFacts ==
    ASSUME RunInv, Fields, Execute
    PROVE  \E r \in Requests :
              /\ Receive(r) /\ r.key = TheKey /\ r.payload = ThePayload
              /\ r.flaw = scenario.flaw /\ r.at = scenario.drift /\ nonces[r.nonce] = None
              /\ At("EXECUTE") /\ now = 0 /\ scenario \in DrivenScenarios
              /\ drive.attempt \in Nat \ {0} /\ drive.attempt <= scenario.presentations
              /\ UNCHANGED <<scenario, now, mode, phase>>
              /\ drive' = [drive EXCEPT !.pc = "PROCESS", !.presented = r, !.expected = r.nonce]
<1>1. PICK r : r = Built(now + scenario.drift, TheKey, ThePayload, scenario.flaw)
  OBVIOUS
<1>2. At("EXECUTE") /\ ExecuteRequest(r, r.nonce)
  BY <1>1 DEF Execute
<1>3. /\ SignedInv /\ ReplayInv /\ AcceptedOnce /\ scenario \in DrivenScenarios
      /\ drive.attempt \in Nat \ {0} /\ drive.attempt <= scenario.presentations
      /\ Cardinality(signed) <= BuiltIn(scenario, drive.attempt - 1)
  BY <1>2 DEF RunInv, IInv, DrivenInv, WithinNonces, At
<1>4. /\ Cardinality(signed) \in Nat /\ BuiltIn(scenario, drive.attempt - 1) \in Nat
      /\ BuiltIn(scenario, drive.attempt - 1) + 1 <= BuiltIn(scenario, drive.attempt)
      /\ BuiltIn(scenario, drive.attempt) \in Nat
  BY <1>3, SignedCount, BuiltGrows
<1>5. r \in Requests /\ r.nonce = Cardinality(signed) + 1 /\ r.key = TheKey
  BY <1>1, <1>3, <1>4, BuiltRequest, TheKeyIsOne
<1>6. now = 0 /\ scenario.drift \in Int
  BY <1>3, DrivenAssumption DEF AcceptedOnce
<1>7. r.payload = ThePayload /\ r.flaw = scenario.flaw /\ r.at = scenario.drift
  BY <1>1, <1>6 DEF Built
<1>8. nonces[r.nonce] = None
  BY <1>3, <1>4, <1>5 DEF ReplayInv, ReplayOf, Requests
<1> QED
  BY <1>2, <1>3, <1>5, <1>6, <1>7, <1>8 DEF ExecuteRequest, At

LEMMA SecondFacts ==
    ASSUME RunInv, Fields, ExecuteSecond, scenario.drift = 0
    PROVE  \E r, e :
              /\ Receive(r) /\ r.key = TheKey
              /\ scenario.second = "REPLAY" => r = drive.presented
              /\ scenario.second /= "REPLAY" =>
                    /\ r.flaw = None /\ r.at = 0 /\ nonces[r.nonce] = None
                    /\ scenario.second \in {"DUPLICATE", "CONFLICT"}
                    /\ scenario.second = "DUPLICATE" => r.payload = ThePayload
                    /\ scenario.second = "CONFLICT" => r.payload = OtherPayload
              /\ At("SECOND") /\ now = 0 /\ scenario \in DrivenScenarios
              /\ UNCHANGED <<scenario, now, mode, phase>>
              /\ drive' = [drive EXCEPT !.pc = "PROCESS_SECOND", !.presented = r, !.expected = e]
<1>1. PICK r, e : r = SecondRequest /\ ExecuteRequest(r, e) /\ At("SECOND")
  BY DEF ExecuteSecond
<1>2. /\ SignedInv /\ ReplayInv /\ AcceptedOnce /\ scenario \in DrivenScenarios
      /\ drive.attempt \in Nat \ {0} /\ drive.attempt <= scenario.presentations
      /\ Cardinality(signed) <= BuiltIn(scenario, drive.attempt - 1) + 1
      /\ drive.presented \in signed /\ scenario.second /= "NONE"
  BY <1>1 DEF RunInv, IInv, DrivenInv, WithinNonces, At
<1>3. scenario.second \in {"REPLAY", "DUPLICATE", "CONFLICT"} /\ now = 0
  BY <1>2, DrivenAssumption DEF AcceptedOnce
<1>4. /\ Cardinality(signed) \in Nat /\ BuiltIn(scenario, drive.attempt - 1) \in Nat
      /\ BuiltIn(scenario, drive.attempt) \in Nat
      /\ scenario.second \in {"DUPLICATE", "CONFLICT"} =>
            Cardinality(signed) + 1 <= BuiltIn(scenario, drive.attempt)
  BY <1>2, SignedCount, BuiltGrows
<1>5. CASE scenario.second = "REPLAY"
  <2>1. r = drive.presented /\ r.key = TheKey
    BY <1>1, <1>2, <1>5 DEF SecondRequest, AcceptedOnce
  <2> QED
    BY <1>1, <1>2, <1>3, <1>5, <2>1 DEF ExecuteRequest, At
<1>6. CASE scenario.second \in {"DUPLICATE", "CONFLICT"}
  <2>1. PICK p \in Payloads :
            /\ r = Built(now, TheKey, p, None)
            /\ p = IF scenario.second = "DUPLICATE" THEN ThePayload ELSE OtherPayload
    BY <1>1, <1>6, TheKeyIsOne DEF SecondRequest
  <2>2. r \in Requests /\ r.nonce = Cardinality(signed) + 1 /\ r.key = TheKey
    BY <1>2, <1>4, <1>6, <2>1, BuiltRequest
  <2>3. r.payload = p /\ r.flaw = None /\ r.at = 0
    BY <1>3, <2>1 DEF Built
  <2>4. nonces[r.nonce] = None
    BY <1>2, <1>4, <2>2 DEF ReplayInv, ReplayOf, Requests
  <2> QED
    BY <1>1, <1>2, <1>3, <1>6, <2>1, <2>2, <2>3, <2>4 DEF ExecuteRequest, At
<1> QED
  BY <1>3, <1>5, <1>6

-----------------------------------------------------------------------------
(* What the driver notes of a response *)

LEMMA NotedFacts ==
    ASSUME Fields, NEW d, d = NoteProcessed
    PROVE  /\ d = [f \in DriveFields |-> d[f]]
           /\ d.attempt = drive.attempt /\ d.presented = drive.presented /\ d.plans = drive.plans
           /\ d.operationCodes = Append(drive.operationCodes, ProcessedCode)
           /\ d.receiptReasons = IF ReceiptReason = None THEN drive.receiptReasons
                                 ELSE Append(drive.receiptReasons, ReceiptReason)
           /\ d.anyProcessedOk = (drive.anyProcessedOk \/ ProcessedCode = "OK")
  BY DEF Fields, DriveFields, NoteProcessed

LEMMA AttemptFacts ==
    ASSUME NEW d, d = [f \in DriveFields |-> d[f]], NEW e, e = AfterAttempt(d)
    PROVE  /\ e = [f \in DriveFields |-> e[f]]
           /\ e.attempt = d.attempt + 1 /\ e.presented = d.presented /\ e.plans = d.plans
           /\ e.operationCodes = d.operationCodes /\ e.receiptReasons = d.receiptReasons
           /\ e.anyProcessedOk = d.anyProcessedOk
           /\ e.pc = IF d.attempt < scenario.presentations THEN "EXECUTE" ELSE "PHASE"
  BY DEF DriveFields, AfterAttempt

LEMMA ProcessFacts ==
    ASSUME Fields, Process
    PROVE  /\ At("PROCESS") /\ UNCHANGED <<platformVars, mode, phase>>
           /\ drive' = [f \in DriveFields |-> drive'[f]]
           /\ drive'.presented = drive.presented
           /\ drive'.operationCodes = Append(drive.operationCodes, ProcessedCode)
           /\ drive'.receiptReasons = IF ReceiptReason = None THEN drive.receiptReasons
                                      ELSE Append(drive.receiptReasons, ReceiptReason)
           /\ drive'.anyProcessedOk = (drive.anyProcessedOk \/ ProcessedCode = "OK")
           /\ drive'.plans = IF ProcessedCode = "OK" THEN drive.plans
                             ELSE Append(drive.plans, PlanRetry(ProcessedCode, drive.attempt))
           /\ scenario.second = "NONE" =>
                 /\ drive'.attempt = drive.attempt + 1
                 /\ drive'.pc = IF drive.attempt < scenario.presentations
                                THEN "EXECUTE" ELSE "PHASE"
           /\ scenario.second /= "NONE" =>
                 drive'.attempt = drive.attempt /\ drive'.pc = "SECOND"
<1>1. PICK d : d = NoteProcessed
  OBVIOUS
<1>2. PICK plans : plans = IF ProcessedCode = "OK" THEN drive.plans
                           ELSE Append(drive.plans, PlanRetry(ProcessedCode, drive.attempt))
  OBVIOUS
<1>3. /\ d = [f \in DriveFields |-> d[f]]
      /\ d.attempt = drive.attempt /\ d.presented = drive.presented /\ d.plans = drive.plans
      /\ d.operationCodes = Append(drive.operationCodes, ProcessedCode)
      /\ d.receiptReasons = IF ReceiptReason = None THEN drive.receiptReasons
                            ELSE Append(drive.receiptReasons, ReceiptReason)
      /\ d.anyProcessedOk = (drive.anyProcessedOk \/ ProcessedCode = "OK")
  BY <1>1, NotedFacts
<1> DEFINE noted == [d EXCEPT
                        !.lastRequest = drive.expected,
                        !.accepted = IF ProcessedCode = "OK" /\ @ = None THEN drive.expected ELSE @,
                        !.plans = IF ProcessedCode = "OK" THEN @
                                  ELSE Append(@, PlanRetry(ProcessedCode, drive.attempt))]
<1>4. PICK n : n = noted
  OBVIOUS
<1>5. /\ At("PROCESS") /\ UNCHANGED <<platformVars, mode, phase>>
      /\ drive' = IF scenario.second = "NONE" THEN AfterAttempt(n) ELSE [n EXCEPT !.pc = "SECOND"]
  BY <1>1, <1>4 DEF Process
<1>6. /\ n = [f \in DriveFields |-> n[f]] /\ n.plans = plans
      /\ n.attempt = drive.attempt /\ n.presented = drive.presented
      /\ n.operationCodes = d.operationCodes /\ n.receiptReasons = d.receiptReasons
      /\ n.anyProcessedOk = d.anyProcessedOk
  BY <1>2, <1>3, <1>4 DEF DriveFields
<1> HIDE DEF noted
<1>7. CASE scenario.second = "NONE"
  <2>1. drive' = AfterAttempt(n)
    BY <1>5, <1>7
  <2>2. /\ drive' = [f \in DriveFields |-> drive'[f]]
        /\ drive'.attempt = n.attempt + 1 /\ drive'.presented = n.presented
        /\ drive'.plans = n.plans
        /\ drive'.operationCodes = n.operationCodes /\ drive'.receiptReasons = n.receiptReasons
        /\ drive'.anyProcessedOk = n.anyProcessedOk
        /\ drive'.pc = IF n.attempt < scenario.presentations THEN "EXECUTE" ELSE "PHASE"
    BY <1>6, <2>1, AttemptFacts
  <2> QED
    BY <1>2, <1>3, <1>5, <1>6, <1>7, <2>2
<1>8. CASE scenario.second /= "NONE"
  <2>1. drive' = [n EXCEPT !.pc = "SECOND"]
    BY <1>5, <1>8
  <2>2. /\ drive' = [f \in DriveFields |-> drive'[f]]
        /\ drive'.attempt = n.attempt /\ drive'.presented = n.presented
        /\ drive'.plans = n.plans /\ drive'.pc = "SECOND"
        /\ drive'.operationCodes = n.operationCodes /\ drive'.receiptReasons = n.receiptReasons
        /\ drive'.anyProcessedOk = n.anyProcessedOk
    BY <1>6, <2>1 DEF DriveFields
  <2> QED
    BY <1>2, <1>3, <1>5, <1>6, <1>8, <2>2
<1> QED
  BY <1>7, <1>8

(* A step of the webhook phase moves the phase and the place.              *)
LEMMA PhaseFacts ==
    ASSUME Fields, NEW from, NEW p, NEW to, PhaseStep(from, p, to)
    PROVE  /\ At(from) /\ phase' = p /\ drive'.pc = to
           /\ drive' = [f \in DriveFields |-> drive'[f]]
           /\ drive'.attempt = drive.attempt
           /\ drive'.plans = drive.plans /\ drive'.operationCodes = drive.operationCodes
           /\ drive'.receiptReasons = drive.receiptReasons
           /\ drive'.anyProcessedOk = drive.anyProcessedOk
           /\ UNCHANGED <<scenario, now, nonces, records, circuit, downstreamFailureCount,
                          lastDecision, lastAcceptedDecision, response, reasonCodes, mode>>
<1>1. At(from) /\ phase' = p /\ drive' = [drive EXCEPT !.pc = to] /\ UNCHANGED <<platformVars, mode>>
  BY DEF PhaseStep
<1>2. UNCHANGED <<scenario, now, nonces, records, circuit, downstreamFailureCount,
                  lastDecision, lastAcceptedDecision, response, reasonCodes, mode>>
  BY <1>1 DEF platformVars, sharedVars, decisionVars
<1>3. /\ drive'.pc = to /\ drive' = [f \in DriveFields |-> drive'[f]]
      /\ drive'.attempt = drive.attempt
      /\ drive'.plans = drive.plans /\ drive'.operationCodes = drive.operationCodes
      /\ drive'.receiptReasons = drive.receiptReasons
      /\ drive'.anyProcessedOk = drive.anyProcessedOk
  BY <1>1 DEF Fields, DriveFields
<1> QED
  BY <1>1, <1>2, <1>3

-----------------------------------------------------------------------------
(* The fields of the driver and of the phase stay what they are.           *)

Formed(p) == p = [f \in DOMAIN Blank |-> p[f]]

LEMMA PhaseFields ==
    ASSUME Fields, NEW from, NEW p, NEW to \in Emitting \cup {"DONE"},
           PhaseStep(from, p, to), Formed(p)
    PROVE  Fields'
<1>1. phase' = p /\ drive'.pc = to /\ drive' = [f \in DriveFields |-> drive'[f]]
  BY PhaseFacts
<1>2. to \notin Presenting
  BY DEF Presenting, Emitting
<1> QED
  BY <1>1, <1>2 DEF Fields, Formed

LEMMA SentFormed ==
    ASSUME NEW q, Formed(q), NEW i, NEW s, s = Sent(q, i)
    PROVE  Formed(s)
<1> PICK D : D = DOMAIN Blank
  OBVIOUS
<1>1. q = [f \in D |-> q[f]]
  BY DEF Formed
<1>2. s = [f \in D |-> s[f]]
  BY <1>1 DEF Sent
<1> QED
  BY <1>2 DEF Formed

LEMMA VerifiedFormed ==
    ASSUME NEW q, Formed(q), NEW i, NEW s, s = VerifiedBy(q, i)
    PROVE  Formed(s)
<1> PICK D : D = DOMAIN Blank
  OBVIOUS
<1>1. q = [f \in D |-> q[f]]
  BY DEF Formed
<1>2. s = [f \in D |-> s[f]]
  BY <1>1 DEF VerifiedBy
<1> QED
  BY <1>2 DEF Formed

LEMMA FieldsInit == Init => Fields
<1> SUFFICES ASSUME Init PROVE Fields
  OBVIOUS
<1>1. phase = Blank
  BY DEF Init, Blank
<1>2. Blank = [f \in DOMAIN Blank |-> Blank[f]]
  BY DEF Blank
<1>3. drive = [f \in DriveFields |-> drive[f]]
  BY DEF Init, DriveFields
<1> QED
  BY <1>1, <1>2, <1>3 DEF Fields

LEMMA DriveFieldsKept ==
    ASSUME RunInv, Fields, Execute \/ Process \/ ExecuteSecond \/ ProcessSecond
    PROVE  Fields' /\ UNCHANGED <<scenario, mode>>
<1>1. drive.pc \in Presenting
  BY DEF Execute, Process, ExecuteSecond, ProcessSecond, At, Presenting
<1>2. phase' = phase /\ UNCHANGED <<scenario, mode>>
  BY DEF Execute, Process, ExecuteSecond, ProcessSecond, ExecuteRequest, platformVars
<1>3. drive' = [f \in DriveFields |-> drive'[f]]
  <2>1. CASE Execute \/ ExecuteSecond
    <3>1. PICK r, e, pc : drive' = [drive EXCEPT !.pc = pc, !.presented = r, !.expected = e]
      BY <2>1 DEF Execute, ExecuteSecond, ExecuteRequest
    <3> QED
      BY <3>1 DEF Fields, DriveFields
  <2>2. CASE Process
    BY <2>2, ProcessFacts
  <2>3. CASE ProcessSecond
    <3>1. PICK d : d = NoteProcessed
      OBVIOUS
    <3>2. drive' = AfterAttempt(d)
      BY <2>3, <3>1 DEF ProcessSecond
    <3>3. d = [f \in DriveFields |-> d[f]]
      BY <3>1, NotedFacts
    <3> QED
      BY <3>2, <3>3, AttemptFacts
  <2> QED
    BY <2>1, <2>2, <2>3
<1> QED
  BY <1>1, <1>2, <1>3 DEF Fields

LEMMA OpenFields ==
    ASSUME Fields, OpenPhase \/ RefusePhase
    PROVE  Fields' /\ UNCHANGED <<scenario, mode>>
<1>0. Formed(phase)
  BY DEF Fields, Formed
<1>1. CASE OpenPhase
  <2>0. PICK to \in Emitting : to = IF KnownType /\ scenario.emitEventCount > 0 THEN "DELIVER" ELSE "SPAN"
    BY DEF Emitting
  <2>1. PICK id, views, events :
            PhaseStep("PHASE", [phase EXCEPT !.requestId = id, !.views = views, !.events = events], to)
    BY <1>1, <2>0 DEF OpenPhase
  <2>2. PICK p : p = [phase EXCEPT !.requestId = id, !.views = views, !.events = events]
    OBVIOUS
  <2>3. Formed(p)
    BY <1>0, <2>2 DEF Formed
  <2>4. PhaseStep("PHASE", p, to)
    BY <2>1, <2>2
  <2> QED
    BY <2>3, <2>4, PhaseFields, PhaseFacts
<1>2. CASE RefusePhase
  <2>1. PICK p : p = [phase EXCEPT !.status = "FAILED", !.reconciliationStatus = "NONE"]
    OBVIOUS
  <2>2. PhaseStep("PHASE", p, "DONE")
    BY <1>2, <2>1 DEF RefusePhase
  <2>3. Formed(p)
    BY <1>0, <2>1 DEF Formed
  <2> QED
    BY <2>2, <2>3, PhaseFields, PhaseFacts
<1> QED
  BY <1>1, <1>2

LEMMA DeliverIs ==
    ASSUME Deliver, NEW s, s = Sent(phase, Len(phase.outcomes) + 1),
           NEW p, p = [s EXCEPT !.outcomes = Append(@, OutcomeFrom(phase.step))]
    PROVE  PhaseStep("DELIVER", p,
                     IF Len(phase.outcomes) + 1 < Len(phase.events) THEN "DELIVER" ELSE "VERIFY")
  BY DEF Deliver, PhaseStep

LEMMA EmitFields ==
    ASSUME Fields, Deliver \/ Verify \/ ReceiverFaults
    PROVE  Fields' /\ UNCHANGED <<scenario, mode>>
<1>0. Formed(phase)
  BY DEF Fields, Formed
<1>1. CASE Deliver
  <2>1. PICK s : s = Sent(phase, Len(phase.outcomes) + 1)
    OBVIOUS
  <2>2. PICK p : p = [s EXCEPT !.outcomes = Append(@, OutcomeFrom(phase.step))]
    OBVIOUS
  <2>0. PICK to \in Emitting :
            to = IF Len(phase.outcomes) + 1 < Len(phase.events) THEN "DELIVER" ELSE "VERIFY"
    BY DEF Emitting
  <2>3. PhaseStep("DELIVER", p,
                  IF Len(phase.outcomes) + 1 < Len(phase.events) THEN "DELIVER" ELSE "VERIFY")
    BY <1>1, <2>1, <2>2, DeliverIs
  <2>4. Formed(p)
    <3>1. Formed(s)
      BY <1>0, <2>1, SentFormed
    <3> QED
      BY <2>2, <3>1 DEF Formed
  <2> QED
    BY <2>0, <2>3, <2>4, PhaseFields, PhaseFacts
<1>2. CASE Verify
  <2>1. PICK p : p = VerifiedBy(phase, phase.captured[Len(phase.receiverCodes) + 1])
    OBVIOUS
  <2>2. PhaseStep("VERIFY", p, "VERIFY") /\ "VERIFY" \in Emitting
    BY <1>2, <2>1 DEF Verify, Emitting
  <2>3. Formed(p)
    BY <1>0, <2>1, VerifiedFormed
  <2> QED
    BY <2>2, <2>3, PhaseFields, PhaseFacts
<1>3. CASE ReceiverFaults
  <2>1. PICK verified, code, codes, again :
            PhaseStep("VERIFY",
                [phase EXCEPT !.verified = verified, !.receiverCode = code,
                              !.receiverCodes = codes, !.rePresented = again],
                "AGAIN")
    BY <1>3 DEF ReceiverFaults
  <2>2. PICK p : p = [phase EXCEPT !.verified = verified, !.receiverCode = code,
                                   !.receiverCodes = codes, !.rePresented = again]
    OBVIOUS
  <2>3. PhaseStep("VERIFY", p, "AGAIN") /\ "AGAIN" \in Emitting
    BY <2>1, <2>2 DEF Emitting
  <2>4. Formed(p)
    BY <1>0, <2>2 DEF Formed
  <2> QED
    BY <2>3, <2>4, PhaseFields, PhaseFacts
<1> QED
  BY <1>1, <1>2, <1>3

LEMMA CloseFields ==
    ASSUME Fields, DeliverTwice \/ Reconcile \/ RecordSpan
    PROVE  Fields' /\ UNCHANGED <<scenario, mode>>
<1>0. Formed(phase)
  BY DEF Fields, Formed
<1>1. CASE DeliverTwice
  <2>1. PICK s : s = Sent(phase, 1)
    OBVIOUS
  <2>2. PICK p : p = IF ~scenario.deliverTwice THEN phase
                     ELSE IF DeliveredBefore(1)
                     THEN [phase EXCEPT !.deliveredTwice = "DELIVERED_DUPLICATE"]
                     ELSE [s EXCEPT !.deliveredTwice = OutcomeFrom(phase.step)]
    OBVIOUS
  <2>3. PhaseStep("AGAIN", p, "RECONCILE") /\ "RECONCILE" \in Emitting
    BY <1>1, <2>1, <2>2 DEF DeliverTwice, Emitting
  <2>4. Formed(s)
    BY <1>0, <2>1, SentFormed
  <2>5. Formed(p)
    BY <1>0, <2>2, <2>4 DEF Formed
  <2> QED
    BY <2>3, <2>5, PhaseFields, PhaseFacts
<1>2. CASE Reconcile
  <2> DEFINE i == Len(phase.events) + 1
             event == [type |-> IF scenario.reconcile = "RESOLVE" THEN "reconciliation.completed"
                                ELSE "reconciliation.required",
                       sequence |-> scenario.emitEventCount + 1]
             outcome == OutcomeFrom(phase.step)
  <2>1. PICK e : e = [phase EXCEPT !.events = Append(@, event)]
    OBVIOUS
  <2>2. PICK sent : sent = Sent(e, i)
    OBVIOUS
  <2>3. PICK s : s = [sent EXCEPT !.reconciliation = <<outcome>>]
    OBVIOUS
  <2>4. PICK v : v = VerifiedBy(s, i)
    OBVIOUS
  <2>5. PICK p : p = IF ~Ambiguous \/ scenario.reconcile = None THEN phase
                     ELSE IF outcome = "DELIVERED" THEN v ELSE s
    OBVIOUS
  <2>6. PhaseStep("RECONCILE", p, "SPAN") /\ "SPAN" \in Emitting
    BY <1>2, <2>1, <2>2, <2>3, <2>4, <2>5 DEF Reconcile, Emitting
  <2> HIDE DEF i, event, outcome
  <2>7. Formed(e)
    BY <1>0, <2>1 DEF Formed
  <2>8. Formed(sent)
    BY <2>2, <2>7, SentFormed
  <2>9. Formed(s)
    BY <2>3, <2>8 DEF Formed
  <2>10. Formed(v)
    BY <2>4, <2>9, VerifiedFormed
  <2> QED
    BY <1>0, <2>5, <2>6, <2>9, <2>10, PhaseFields, PhaseFacts
<1>3. CASE RecordSpan
  <2>1. PICK status, rec :
           PhaseStep("SPAN", [phase EXCEPT !.status = status, !.reconciliationStatus = rec], "DONE")
    BY <1>3 DEF RecordSpan
  <2>2. PICK p : p = [phase EXCEPT !.status = status, !.reconciliationStatus = rec]
    OBVIOUS
  <2>3. PhaseStep("SPAN", p, "DONE")
    BY <2>1, <2>2
  <2>4. Formed(p)
    BY <1>0, <2>2 DEF Formed
  <2> QED
    BY <2>3, <2>4, PhaseFields, PhaseFacts
<1> QED
  BY <1>1, <1>2, <1>3

-----------------------------------------------------------------------------
(* The operation of a kind, step by step                                   *)

PhaseAction ==
    \/ OpenPhase \/ RefusePhase
    \/ Deliver \/ Verify \/ ReceiverFaults \/ DeliverTwice \/ Reconcile \/ RecordSpan

Moves ==
    /\ drive.pc \in {"PHASE"} \cup Emitting /\ drive'.pc \in Emitting \cup {"DONE"}
    /\ At("PHASE") => IF Gate THEN drive'.pc \in Emitting ELSE drive'.pc = "DONE"
    /\ drive' = [f \in DriveFields |-> drive'[f]]
    /\ drive'.attempt = drive.attempt
    /\ drive'.plans = drive.plans /\ drive'.operationCodes = drive.operationCodes
    /\ drive'.receiptReasons = drive.receiptReasons
    /\ drive'.anyProcessedOk = drive.anyProcessedOk
    /\ UNCHANGED <<scenario, now, nonces, records, circuit, downstreamFailureCount,
                   lastDecision, lastAcceptedDecision, response, reasonCodes, mode>>

LEMMA PhaseMoved ==
    ASSUME Fields, NEW from \in Emitting, NEW p, NEW to \in Emitting \cup {"DONE"},
           PhaseStep(from, p, to)
    PROVE  Moves
<1>1. from /= "PHASE"
  BY DEF Emitting
<1> QED
  BY <1>1, PhaseFacts DEF Moves, At

LEMMA PhaseMoves ==
    ASSUME Fields, PhaseAction
    PROVE  Moves
<1>0. {"DELIVER", "VERIFY", "AGAIN", "RECONCILE", "SPAN"} \subseteq Emitting
  BY DEF Emitting
<1>1. CASE OpenPhase
  <2>0. PICK to \in Emitting :
            to = IF KnownType /\ scenario.emitEventCount > 0 THEN "DELIVER" ELSE "SPAN"
    BY <1>0
  <2>1. PICK id, views, events :
            PhaseStep("PHASE", [phase EXCEPT !.requestId = id, !.views = views, !.events = events], to)
    BY <1>1, <2>0 DEF OpenPhase
  <2>2. PICK p : PhaseStep("PHASE", p, to)
    BY <2>1
  <2>3. Gate
    BY <1>1 DEF OpenPhase
  <2> QED
    BY <2>2, <2>3, PhaseFacts DEF Moves, At
<1>2. CASE RefusePhase
  <2>1. PICK p : p = [phase EXCEPT !.status = "FAILED", !.reconciliationStatus = "NONE"]
    OBVIOUS
  <2>2. PhaseStep("PHASE", p, "DONE") /\ ~Gate
    BY <1>2, <2>1 DEF RefusePhase
  <2> QED
    BY <2>2, PhaseFacts DEF Moves, At
<1>3. CASE Deliver
  <2>1. PICK s : s = Sent(phase, Len(phase.outcomes) + 1)
    OBVIOUS
  <2>2. PICK p : p = [s EXCEPT !.outcomes = Append(@, OutcomeFrom(phase.step))]
    OBVIOUS
  <2>3. PICK to \in Emitting :
            to = IF Len(phase.outcomes) + 1 < Len(phase.events) THEN "DELIVER" ELSE "VERIFY"
    BY <1>0
  <2>4. PhaseStep("DELIVER", p, to)
    BY <1>3, <2>1, <2>2, <2>3, DeliverIs
  <2> QED
    BY <1>0, <2>4, PhaseMoved
<1>4. CASE Verify
  <2>1. PICK p : p = VerifiedBy(phase, phase.captured[Len(phase.receiverCodes) + 1])
    OBVIOUS
  <2>2. PhaseStep("VERIFY", p, "VERIFY")
    BY <1>4, <2>1 DEF Verify
  <2> QED
    BY <1>0, <2>2, PhaseMoved
<1>5. CASE ReceiverFaults
  <2>1. PICK verified, code, codes, again :
            PhaseStep("VERIFY",
                [phase EXCEPT !.verified = verified, !.receiverCode = code,
                              !.receiverCodes = codes, !.rePresented = again],
                "AGAIN")
    BY <1>5 DEF ReceiverFaults
  <2>2. PICK p : PhaseStep("VERIFY", p, "AGAIN")
    BY <2>1
  <2> QED
    BY <1>0, <2>2, PhaseMoved
<1>6. CASE DeliverTwice
  <2>1. PICK s : s = Sent(phase, 1)
    OBVIOUS
  <2>2. PICK p : p = IF ~scenario.deliverTwice THEN phase
                     ELSE IF DeliveredBefore(1)
                     THEN [phase EXCEPT !.deliveredTwice = "DELIVERED_DUPLICATE"]
                     ELSE [s EXCEPT !.deliveredTwice = OutcomeFrom(phase.step)]
    OBVIOUS
  <2>3. PhaseStep("AGAIN", p, "RECONCILE")
    BY <1>6, <2>1, <2>2 DEF DeliverTwice
  <2> QED
    BY <1>0, <2>3, PhaseMoved
<1>7. CASE Reconcile
  <2>1. PICK p : PhaseStep("RECONCILE", p, "SPAN")
    BY <1>7 DEF Reconcile
  <2> QED
    BY <1>0, <2>1, PhaseMoved
<1>8. CASE RecordSpan
  <2>1. PICK status, rec :
           PhaseStep("SPAN", [phase EXCEPT !.status = status, !.reconciliationStatus = rec], "DONE")
    BY <1>8 DEF RecordSpan
  <2>2. PICK p : PhaseStep("SPAN", p, "DONE")
    BY <2>1
  <2> QED
    BY <1>0, <2>2, PhaseMoved
<1> QED
  BY <1>1, <1>2, <1>3, <1>4, <1>5, <1>6, <1>7, <1>8 DEF PhaseAction

LEMMA PresentsFields ==
    ASSUME Fields, NEW pc, NEW r, NEW e,
           drive' = [drive EXCEPT !.pc = pc, !.presented = r, !.expected = e]
    PROVE  /\ drive'.pc = pc /\ drive'.presented = r /\ drive'.expected = e
           /\ drive'.attempt = drive.attempt /\ drive'.plans = drive.plans
           /\ drive'.operationCodes = drive.operationCodes
           /\ drive'.receiptReasons = drive.receiptReasons
           /\ drive'.anyProcessedOk = drive.anyProcessedOk
  BY DEF Fields, DriveFields

LEMMA NotReplayed ==
    ASSUME NEW r, nonces[r.nonce] = None
    PROVE  ~Replayed(r)
  BY DEF Replayed

(* A refusal is read as its code, and plans what its code says.            *)
LEMMA RefusalRead ==
    ASSUME NEW code, response = Failure(code)
    PROVE  ReceiptReason = None /\ ProcessedCode = code
<1>1. response.receipt = None /\ response.code = code
  BY DEF Failure
<1> QED
  BY <1>1 DEF ReceiptReason, ProcessedCode

LEMMA StopsNotOk == "OK" \notin StopTexts
<1>1. DOMAIN Chain = 1..14 /\ \A i \in 1..14 : Chain[i] /= "OK"
  BY DEF Chain
<1>2. "OK" \notin ChainCodes
  BY <1>1 DEF ChainCodes
<1> QED
  BY <1>2 DEF StopTexts, SignatureCodes

LEMMA StoppedExecute ==
    ASSUME RunInv, Fields, Stopped(scenario), StoppedInv, Execute
    PROVE  StoppedInv'
<1>1. PICK r \in Requests :
          /\ Receive(r) /\ r.flaw = scenario.flaw /\ r.at = scenario.drift /\ nonces[r.nonce] = None
          /\ At("EXECUTE") /\ now = 0 /\ scenario \in DrivenScenarios
          /\ UNCHANGED <<scenario, now, mode, phase>>
          /\ drive' = [drive EXCEPT !.pc = "PROCESS", !.presented = r, !.expected = r.nonce]
  BY ExecuteFacts
<1>2. StopCode(scenario) \in StopTexts /\ scenario.drift \in Int /\ ~Replayed(r)
  BY <1>1, NotReplayed, DrivenAssumption DEF Stopped
<1>3. /\ lastDecision' /= None /\ lastDecision'.code = StopCode(scenario)
      /\ response' = Failure(StopCode(scenario))
      /\ UNCHANGED lastAcceptedDecision
  BY <1>1, <1>2, StopsReceive
<1>4. /\ drive'.pc = "PROCESS" /\ drive'.attempt = drive.attempt /\ drive'.plans = drive.plans
      /\ drive'.operationCodes = drive.operationCodes
      /\ drive'.receiptReasons = drive.receiptReasons
      /\ drive'.anyProcessedOk = drive.anyProcessedOk
  BY <1>1, PresentsFields
<1>5. StopCode(scenario)' = StopCode(scenario)
  BY <1>1 DEF StopCode, SignedWrong, Resolved
<1> QED
  BY <1>1, <1>3, <1>4, <1>5 DEF StoppedInv, NothingNoted, At, Failure

LEMMA StoppedProcess ==
    ASSUME RunInv, Fields, Stopped(scenario), StoppedInv, Process
    PROVE  StoppedInv'
<1>1. PICK code : code = StopCode(scenario)
  OBVIOUS
<1>2. /\ At("PROCESS") /\ drive.attempt = 1 /\ NothingNoted /\ response = Failure(code)
      /\ lastDecision /= None /\ lastDecision.code = code /\ lastAcceptedDecision = None
  BY <1>1, ProcessFacts DEF StoppedInv, At
<1>3. code \in StopTexts /\ code /= "OK" /\ scenario.second = "NONE" /\ scenario.presentations = 1
  BY <1>1, StopsNotOk DEF Stopped
<1>4. ReceiptReason = None /\ ProcessedCode = code
  BY <1>2, RefusalRead
<1>5. /\ drive'.pc = "PHASE" /\ drive'.plans = Append(<<>>, PlanRetry(code, 1))
      /\ UNCHANGED platformVars
  BY <1>2, <1>3, <1>4, ProcessFacts DEF NothingNoted
<1>6. UNCHANGED <<scenario, lastDecision, lastAcceptedDecision, response>>
  BY <1>5 DEF platformVars, decisionVars
<1>7. StopCode(scenario)' = code
  BY <1>1, <1>6 DEF StopCode, SignedWrong, Resolved
<1>8. PlanRetry(code, 1)' = PlanRetry(code, 1) /\ Append(<<>>, PlanRetry(code, 1)) = <<PlanRetry(code, 1)>>
  OBVIOUS
<1> QED
  BY <1>2, <1>5, <1>6, <1>7, <1>8 DEF StoppedInv, At

(* Nothing was accepted: the webhook phase is refused.                     *)
LEMMA ClosedPhase ==
    ASSUME RunInv, Fields, PhaseAction, lastAcceptedDecision = None,
           drive.pc \in {"EXECUTE", "PROCESS", "PHASE", "DONE"}
    PROVE  At("PHASE") /\ drive'.pc = "DONE"
<1>1. At("PHASE")
  BY PhaseMoves DEF Moves, At, Emitting
<1>2. ~Gate
  BY <1>1, GateTells DEF RunInv, DrivenInv, At
<1> QED
  BY <1>1, <1>2, PhaseMoves DEF Moves

LEMMA StoppedPhase ==
    ASSUME RunInv, Fields, Stopped(scenario), StoppedInv, PhaseAction
    PROVE  StoppedInv'
<1>1. At("PHASE") /\ drive'.pc = "DONE"
  BY ClosedPhase DEF StoppedInv
<1>2. drive'.plans = drive.plans /\ UNCHANGED <<scenario, lastDecision, lastAcceptedDecision>>
  BY PhaseMoves DEF Moves
<1>3. StopCode(scenario)' = StopCode(scenario)
  BY <1>2 DEF StopCode, SignedWrong, Resolved
<1>4. PlanRetry(StopCode(scenario), 1)' = PlanRetry(StopCode(scenario), 1)
  BY <1>3 DEF PlanRetry
<1> QED
  BY <1>1, <1>2, <1>3, <1>4 DEF StoppedInv, At

-----------------------------------------------------------------------------
(* A request with nothing wrong, while nothing was accepted.               *)
LEMMA RunsFresh ==
    ASSUME RunInv, ~At("FREE"), Runs(scenario), lastAcceptedDecision = None,
           NEW r, r.key = TheKey, r.at = 0, r.flaw = None,
           nonces[r.nonce] = None, Receive(r)
    PROVE  /\ RefuseOpenCircuit(r) \/ FailOperation(r) \/ CompleteOperation(r)
           /\ records[TheKey] = None
<1>1. now = 0 /\ records[TheKey] = None
  BY DEF RunInv, DrivenInv, AcceptedOnce
<1>2. IdempotencyKind(r) = "FRESH"
  BY <1>1 DEF IdempotencyKind, Live
<1>3. ~Replayed(r)
  BY NotReplayed
<1> QED
  BY <1>1, <1>2, <1>3, RunsReceive

LEMMA NoBreaker ==
    ASSUME scenario.circuit = None
    PROVE  ~HasCircuit /\ Allowed /\ \A r : ~RefuseOpenCircuit(r)
  BY DEF HasCircuit, Allowed, RefuseOpenCircuit

LEMMA FailTells ==
    ASSUME NEW r, FailOperation(r)
    PROVE  /\ response' = Failure("DOWNSTREAM_UNAVAILABLE")
           /\ UNCHANGED <<lastAcceptedDecision, records>>
           /\ DownstreamFails /\ downstreamFailureCount' = downstreamFailureCount + 1
           /\ HasCircuit => circuit' = AfterFailure
  BY DEF FailOperation, Refused, CallDownstream

LEMMA CompleteTells ==
    ASSUME NEW r, r.key = TheKey, CompleteOperation(r), records[TheKey] = None,
           records \in [Keys -> Records \cup {None}], nonces \in [Nonces -> Nat \cup {None}],
           r.nonce \in Nonces, now = 0
    PROVE  /\ ~DownstreamFails
           /\ response' = Success([request |-> r.nonce, fault |-> scenario.receiptFault])
           /\ lastAcceptedDecision' /= None
           /\ "OPERATION_COMPLETED" \in reasonCodes'
           /\ nonces'[r.nonce] = 0
           /\ records'[TheKey].payload = r.payload /\ records'[TheKey].expiresAt = Ttl
<1> DEFINE success == Success([request |-> r.nonce, fault |-> scenario.receiptFault])
           record == [payload |-> r.payload, response |-> success, expiresAt |-> now + Ttl]
<1>1. ~RecordConflict(r)
  BY DEF RecordConflict
<1>2. /\ response' = success /\ records' = [records EXCEPT ![TheKey] = record]
      /\ lastAcceptedDecision' = [stage |-> "ACCEPTED", accepted |-> TRUE, code |-> None]
      /\ reasonCodes' = reasonCodes \cup {"OPERATION_COMPLETED"}
      /\ nonces' = [nonces EXCEPT ![r.nonce] = now]
      /\ CallDownstream(TRUE)
  BY <1>1 DEF CompleteOperation, Decision, Burn
<1>3. ~DownstreamFails
  BY <1>2 DEF CallDownstream
<1>4. lastAcceptedDecision' \in DecisionKinds
  BY <1>2 DEF DecisionKinds
<1>5. records'[TheKey] = record /\ record.payload = r.payload /\ record.expiresAt = Ttl
  BY <1>2, TheKeyIsOne
<1>6. nonces'[r.nonce] = 0
  BY <1>2
<1> HIDE DEF record
<1> QED
  BY <1>2, <1>3, <1>4, <1>5, <1>6, DecisionIs

(* The partner tries while the downstream is unavailable.                  *)
LEMMA UnavailableExecute ==
    ASSUME RunInv, Fields, Unavailable(scenario), UnavailableInv, Execute
    PROVE  UnavailableInv'
<1>1. PICK r \in Requests :
          /\ Receive(r) /\ r.key = TheKey /\ r.flaw = scenario.flaw /\ r.at = scenario.drift
          /\ nonces[r.nonce] = None
          /\ At("EXECUTE") /\ now = 0 /\ scenario \in DrivenScenarios
          /\ UNCHANGED <<scenario, now, mode, phase>>
          /\ drive' = [drive EXCEPT !.pc = "PROCESS", !.presented = r, !.expected = r.nonce]
  BY ExecuteFacts
<1>2. /\ drive'.pc = "PROCESS" /\ drive'.attempt = drive.attempt /\ drive'.plans = drive.plans
  BY <1>1, PresentsFields
<1>3. /\ Runs(scenario) /\ scenario.circuit = None /\ DownstreamFails
      /\ r.flaw = None /\ r.at = 0 /\ lastAcceptedDecision = None
  BY <1>1 DEF Unavailable, Runs, DownstreamFails, UnavailableInv
<1>4. RefuseOpenCircuit(r) \/ FailOperation(r) \/ CompleteOperation(r)
  BY <1>1, <1>3, RunsFresh DEF At
<1>5. ~CompleteOperation(r)
  BY <1>3 DEF CompleteOperation, CallDownstream
<1>6. FailOperation(r)
  BY <1>3, <1>4, <1>5, NoBreaker
<1>7. response' = Failure("DOWNSTREAM_UNAVAILABLE") /\ lastAcceptedDecision' = None
  BY <1>3, <1>6, FailTells
<1> QED
  BY <1>2, <1>7 DEF UnavailableInv, At, Failure

LEMMA PlanIs ==
    ASSUME NEW code, NEW n \in Nat
    PROVE  PlanRetry(code, n) \in PlanCodes
<1>1. MaxAttempts \in Nat
  BY DrivenAssumption
<1> QED
  BY <1>1 DEF PlanRetry, PlanCodes

LEMMA AppendLast ==
    ASSUME NEW S, NEW s \in Seq(S), NEW x \in S
    PROVE  /\ Append(s, x) \in Seq(S) /\ Append(s, x) /= <<>>
           /\ Last(Append(s, x)) = x
<1> PICK t : t = Append(s, x)
  OBVIOUS
<1>1. t \in Seq(S) /\ Len(t) = Len(s) + 1 /\ t[Len(s) + 1] = x /\ Len(s) \in Nat
  OBVIOUS
<1>2. t /= <<>> /\ Last(t) = x
  BY <1>1 DEF Last
<1> QED
  BY <1>1, <1>2

LEMMA UnavailableProcess ==
    ASSUME RunInv, Fields, Unavailable(scenario), UnavailableInv, Process
    PROVE  UnavailableInv'
<1> DEFINE plan == PlanRetry("DOWNSTREAM_UNAVAILABLE", drive.attempt)
<1>1. /\ At("PROCESS") /\ response = Failure("DOWNSTREAM_UNAVAILABLE")
      /\ drive.plans \in Seq(PlanCodes) /\ lastAcceptedDecision = None
  BY ProcessFacts DEF UnavailableInv, At
<1>2. scenario.second = "NONE" /\ scenario.presentations = 5
  BY DEF Unavailable
<1>3. drive.attempt \in Nat \ {0} /\ drive.attempt <= 5
  BY <1>1, <1>2 DEF RunInv, DrivenInv, WithinNonces, At
<1>4. ProcessedCode = "DOWNSTREAM_UNAVAILABLE"
  BY <1>1, RefusalRead
<1>5. /\ drive'.plans = Append(drive.plans, plan) /\ drive'.attempt = drive.attempt + 1
      /\ drive'.pc = IF drive.attempt < 5 THEN "EXECUTE" ELSE "PHASE"
      /\ UNCHANGED platformVars
  BY <1>2, <1>4, ProcessFacts
<1>6. plan \in PlanCodes /\ drive'.attempt - 1 = drive.attempt
  BY <1>3, <1>5, PlanIs
<1> PICK q : q = plan
  OBVIOUS
<1> HIDE DEF plan
<1>7. drive'.plans \in Seq(PlanCodes) /\ drive'.plans /= <<>> /\ Last(drive'.plans) = q
  <2>1. q \in PlanCodes /\ drive'.plans = Append(drive.plans, q)
    BY <1>5, <1>6
  <2>2. Append(drive.plans, q) \in Seq(PlanCodes) /\ Append(drive.plans, q) /= <<>>
        /\ Last(Append(drive.plans, q)) = q
    BY <1>1, <2>1, AppendLast
  <2> QED
    BY <2>1, <2>2
<1>8. PlanRetry("DOWNSTREAM_UNAVAILABLE", drive.attempt - 1)' = q
  BY <1>6 DEF plan, PlanRetry
<1>9. UNCHANGED <<scenario, lastAcceptedDecision>>
  BY <1>5 DEF platformVars, decisionVars
<1>10. drive'.pc = "PHASE" => drive'.attempt = 6
  BY <1>3, <1>5
<1> QED
  BY <1>1, <1>5, <1>7, <1>8, <1>9, <1>10 DEF UnavailableInv, At

LEMMA UnavailablePhase ==
    ASSUME RunInv, Fields, Unavailable(scenario), UnavailableInv, PhaseAction
    PROVE  UnavailableInv'
<1>1. At("PHASE") /\ drive'.pc = "DONE"
  BY ClosedPhase DEF UnavailableInv
<1>2. /\ drive'.plans = drive.plans /\ drive'.attempt = drive.attempt
      /\ UNCHANGED lastAcceptedDecision
  BY PhaseMoves DEF Moves
<1>3. PlanRetry("DOWNSTREAM_UNAVAILABLE", drive.attempt - 1)'
          = PlanRetry("DOWNSTREAM_UNAVAILABLE", drive.attempt - 1)
  BY <1>2 DEF PlanRetry
<1> QED
  BY <1>1, <1>2, <1>3 DEF UnavailableInv, At

-----------------------------------------------------------------------------
(* A success is read as what the fault of its receipt says.                *)
LEMMA SuccessRead ==
    ASSUME drive.expected \in Nonces, NEW fault \in ReceiptFaults,
           response = Success([request |-> drive.expected, fault |-> fault])
    PROVE  /\ fault = "NONE" => ReceiptReason = None /\ ProcessedCode = "OK"
           /\ fault /= "NONE" =>
                 /\ ReceiptReason = FaultReason(fault) /\ ReceiptReason /= None
                 /\ ProcessedCode = "RECEIPT_VERIFICATION_FAILED"
<1>1. PICK receipt : receipt = [request |-> drive.expected, fault |-> fault]
  OBVIOUS
<1>2. receipt \in Receipts /\ receipt.request = drive.expected /\ receipt.fault = fault
  BY <1>1 DEF Receipts
<1>3. receipt /= None
  BY <1>2, CatalogAssumption
<1>4. response.receipt = receipt
  BY <1>1 DEF Success
<1>5. ReceiptReason = ReceiptFailure(receipt, drive.expected)
  BY <1>3, <1>4 DEF ReceiptReason
<1>6. CASE fault = "NONE"
  <2>1. ReceiptReason = None
    BY <1>2, <1>5, <1>6 DEF ReceiptFailure
  <2> QED
    BY <1>3, <1>4, <1>6, <2>1 DEF ProcessedCode
<1>7. CASE fault /= "NONE"
  <2>1. fault \in {"OMIT", "FORGED", "TAMPERED", "WRONG_OPERATION"}
    BY <1>7 DEF ReceiptFaults
  <2>2. ReceiptReason = FaultReason(fault)
    BY <1>2, <1>5, <2>1 DEF ReceiptFailure, FaultReason
  <2>3. FaultReason(fault) \in Texts
    BY <2>1 DEF FaultReason, Texts
  <2>4. ReceiptReason /= None
    BY <2>2, <2>3, CatalogAssumption
  <2> QED
    BY <1>3, <1>4, <1>7, <2>2, <2>4 DEF ProcessedCode
<1> QED
  BY <1>6, <1>7

(* The downstream fails once.                                              *)
LEMMA FailsOnceExecute ==
    ASSUME RunInv, Fields, FailsOnce(scenario), FailsOnceInv, Execute
    PROVE  FailsOnceInv'
<1>1. PICK r \in Requests :
          /\ Receive(r) /\ r.key = TheKey /\ r.flaw = scenario.flaw /\ r.at = scenario.drift
          /\ nonces[r.nonce] = None
          /\ At("EXECUTE") /\ now = 0 /\ scenario \in DrivenScenarios
          /\ UNCHANGED <<scenario, now, mode, phase>>
          /\ drive' = [drive EXCEPT !.pc = "PROCESS", !.presented = r, !.expected = r.nonce]
  BY ExecuteFacts
<1>2. /\ drive'.pc = "PROCESS" /\ drive'.attempt = drive.attempt /\ drive'.plans = drive.plans
      /\ drive'.expected = r.nonce
  <2>1. PICK e : e = r.nonce
    OBVIOUS
  <2>2. drive' = [drive EXCEPT !.pc = "PROCESS", !.presented = r, !.expected = e]
    BY <1>1, <2>1
  <2> QED
    BY <2>1, <2>2, PresentsFields
<1>3. /\ Runs(scenario) /\ scenario.circuit = None /\ r.flaw = None /\ r.at = 0
      /\ scenario.receiptFault = "NONE" /\ scenario.downstream = "FAILS_ONCE_THEN_HEALTHY"
      /\ lastAcceptedDecision = None /\ drive.attempt \in {1, 2}
      /\ downstreamFailureCount = drive.attempt - 1
  BY <1>1 DEF FailsOnce, Runs, FailsOnceInv
<1>4. FailOperation(r) \/ CompleteOperation(r)
  BY <1>1, <1>3, RunsFresh, NoBreaker DEF At
<1>5. DownstreamFails <=> drive.attempt = 1
  BY <1>3, NoBreaker DEF DownstreamFails
<1>6. CASE drive.attempt = 1
  <2>1. FailOperation(r)
    BY <1>4, <1>5, <1>6 DEF CompleteOperation, CallDownstream
  <2>2. /\ response' = Failure("DOWNSTREAM_UNAVAILABLE")
        /\ lastAcceptedDecision' = None /\ downstreamFailureCount' = 1
    BY <1>3, <1>6, <2>1, FailTells
  <2> QED
    BY <1>1, <1>2, <1>3, <1>6, <2>2 DEF FailsOnceInv, At, Failure
<1>7. CASE drive.attempt = 2
  <2>1. CompleteOperation(r)
    BY <1>3, <1>4, <1>5, <1>7, FailTells
  <2>2. records[TheKey] = None
    BY <1>1, <1>3, RunsFresh DEF At
  <2>3. /\ records \in [Keys -> Records \cup {None}] /\ nonces \in [Nonces -> Nat \cup {None}]
        /\ r.nonce \in Nonces
    BY <1>1 DEF RunInv, IInv, RecordInv, ReplayInv, ReplayOf, Requests
  <2>4. response' = Success([request |-> r.nonce, fault |-> scenario.receiptFault])
    BY <1>1, <2>1, <2>2, <2>3, CompleteTells
  <2>5. response' = Success([request |-> drive'.expected, fault |-> "NONE"])
    BY <1>2, <1>3, <2>4
  <2> QED
    BY <1>1, <1>2, <1>3, <1>7, <2>3, <2>5 DEF FailsOnceInv, At, Success
<1> QED
  BY <1>3, <1>6, <1>7

LEMMA FailsOnceProcess ==
    ASSUME RunInv, Fields, FailsOnce(scenario), FailsOnceInv, Process
    PROVE  FailsOnceInv'
<1>1. /\ At("PROCESS") /\ drive.attempt \in {1, 2} /\ UNCHANGED platformVars
      /\ scenario.second = "NONE" /\ scenario.presentations = 2
      /\ drive'.attempt = drive.attempt + 1
      /\ drive'.pc = IF drive.attempt < 2 THEN "EXECUTE" ELSE "PHASE"
  BY ProcessFacts DEF FailsOnceInv, FailsOnce, At
<1>2. UNCHANGED <<scenario, lastAcceptedDecision, downstreamFailureCount, response>>
  BY <1>1 DEF platformVars, sharedVars, decisionVars
<1>3. CASE drive.attempt = 1
  <2>1. /\ response = Failure("DOWNSTREAM_UNAVAILABLE") /\ drive.plans = <<>>
        /\ lastAcceptedDecision = None /\ downstreamFailureCount = 1
    BY <1>1, <1>3 DEF FailsOnceInv
  <2>2. ProcessedCode = "DOWNSTREAM_UNAVAILABLE"
    BY <2>1, RefusalRead
  <2>3. PlanRetry("DOWNSTREAM_UNAVAILABLE", 1) = "CLEAN_RETRY"
    BY CatalogAssumption DEF PlanRetry, CleanRetryable, AmbiguousCodes
  <2>4. drive'.plans = <<"CLEAN_RETRY">>
    BY <1>3, <2>1, <2>2, <2>3, ProcessFacts
  <2> QED
    BY <1>1, <1>2, <1>3, <2>1, <2>4 DEF FailsOnceInv, At
<1>4. CASE drive.attempt = 2
  <2>1. /\ response = Success([request |-> drive.expected, fault |-> "NONE"])
        /\ drive.expected \in Nonces /\ drive.plans = <<"CLEAN_RETRY">>
    BY <1>1, <1>4 DEF FailsOnceInv
  <2>2. ProcessedCode = "OK"
    BY <2>1, SuccessRead DEF ReceiptFaults
  <2>3. drive'.plans = <<"CLEAN_RETRY">>
    BY <2>1, <2>2, ProcessFacts
  <2> QED
    BY <1>1, <1>2, <1>4, <2>3 DEF FailsOnceInv, At
<1> QED
  BY <1>1, <1>3, <1>4

LEMMA FailsOncePhase ==
    ASSUME RunInv, Fields, FailsOnce(scenario), FailsOnceInv, PhaseAction
    PROVE  FailsOnceInv'
<1>1. /\ drive.pc \in {"PHASE"} \cup Emitting /\ drive'.pc \in Emitting \cup {"DONE"}
      /\ drive'.plans = drive.plans
  BY PhaseMoves DEF Moves
<1> QED
  BY <1>1 DEF FailsOnceInv, At, Emitting

(* The breaker trips.                                                      *)
LEMMA TrippingExecute ==
    ASSUME RunInv, Fields, Tripping(scenario), TrippingInv, Execute
    PROVE  TrippingInv'
<1>1. PICK r \in Requests :
          /\ Receive(r) /\ r.key = TheKey /\ r.flaw = scenario.flaw /\ r.at = scenario.drift
          /\ nonces[r.nonce] = None
          /\ At("EXECUTE") /\ now = 0 /\ scenario \in DrivenScenarios
          /\ drive.attempt \in Nat \ {0} /\ drive.attempt <= scenario.presentations
          /\ UNCHANGED <<scenario, now, mode, phase>>
          /\ drive' = [drive EXCEPT !.pc = "PROCESS", !.presented = r, !.expected = r.nonce]
  BY ExecuteFacts
<1>2. /\ drive'.pc = "PROCESS" /\ drive'.attempt = drive.attempt
      /\ drive'.operationCodes = drive.operationCodes
  BY <1>1, PresentsFields
<1>3. /\ Runs(scenario) /\ r.flaw = None /\ r.at = 0 /\ lastAcceptedDecision = None
      /\ scenario.circuit = [failureThreshold |-> 2, resetTimeout |-> 1, downstreamFailures |-> 3]
      /\ drive.operationCodes \in Seq({"DOWNSTREAM_UNAVAILABLE", "CIRCUIT_OPEN"})
  BY <1>1 DEF Tripping, Runs, TrippingInv
<1>4. scenario.circuit \in Breakers
  BY <1>3 DEF Breakers
<1>5. HasCircuit
  BY <1>4, CatalogAssumption DEF HasCircuit
<1>6. RefuseOpenCircuit(r) \/ FailOperation(r) \/ CompleteOperation(r)
  BY <1>1, <1>3, RunsFresh DEF At
<1>7. CASE drive.attempt \in {1, 2}
  <2>1. /\ circuit.state = "CLOSED" /\ circuit.failures = drive.attempt - 1
        /\ downstreamFailureCount = drive.attempt - 1
    BY <1>1, <1>7 DEF TrippingInv
  <2>2. DownstreamFails /\ Allowed
    BY <1>3, <1>5, <1>7, <2>1 DEF DownstreamFails, Allowed
  <2>3. FailOperation(r)
    BY <1>6, <2>2 DEF RefuseOpenCircuit, CompleteOperation, CallDownstream
  <2>4. /\ response' = Failure("DOWNSTREAM_UNAVAILABLE") /\ lastAcceptedDecision' = None
        /\ downstreamFailureCount' = drive.attempt /\ circuit' = AfterFailure
    BY <1>3, <1>5, <1>7, <2>1, <2>3, FailTells
  <2>5. /\ circuit'.failures = drive.attempt /\ circuit'.lastFailureAt = 0
        /\ circuit'.state = IF drive.attempt = 2 THEN "OPEN" ELSE "CLOSED"
    BY <1>1, <1>3, <1>7, <2>1, <2>4 DEF AfterFailure, StateChecked, Probing
  <2> QED
    BY <1>2, <1>3, <1>7, <2>4, <2>5 DEF TrippingInv, At, Failure
<1>8. CASE drive.attempt > 2
  <2>1. circuit.state = "OPEN" /\ circuit.lastFailureAt = 0
    BY <1>1, <1>8 DEF TrippingInv
  <2>2. ~Allowed
    BY <1>1, <1>3, <1>5, <2>1 DEF Allowed, Probing
  <2>3. RefuseOpenCircuit(r)
    BY <1>6, <2>2 DEF FailOperation, CompleteOperation, CallDownstream
  <2>4. /\ response' = Failure("CIRCUIT_OPEN") /\ lastAcceptedDecision' = None
        /\ UNCHANGED circuit
    BY <1>3, <2>3 DEF RefuseOpenCircuit, Refused
  <2> QED
    BY <1>1, <1>2, <1>3, <1>8, <2>1, <2>4 DEF TrippingInv, At, Failure
<1> QED
  BY <1>1, <1>7, <1>8

LEMMA AppendHas ==
    ASSUME NEW S, NEW s \in Seq(S), NEW x \in S
    PROVE  \E i \in DOMAIN Append(s, x) : Append(s, x)[i] = x
<1>1. Len(s) + 1 \in DOMAIN Append(s, x) /\ Append(s, x)[Len(s) + 1] = x
  OBVIOUS
<1> QED
  BY <1>1

LEMMA TrippingProcess ==
    ASSUME RunInv, Fields, Tripping(scenario), TrippingInv, Process
    PROVE  TrippingInv'
<1> DEFINE code == IF drive.attempt <= 2 THEN "DOWNSTREAM_UNAVAILABLE" ELSE "CIRCUIT_OPEN"
<1>1. /\ At("PROCESS") /\ response = Failure(code) /\ lastAcceptedDecision = None
      /\ drive.operationCodes \in Seq({"DOWNSTREAM_UNAVAILABLE", "CIRCUIT_OPEN"})
  BY ProcessFacts DEF TrippingInv, At
<1>2. scenario.second = "NONE" /\ scenario.presentations = 4
  BY DEF Tripping
<1>3. drive.attempt \in Nat \ {0} /\ drive.attempt <= 4
  BY <1>1, <1>2 DEF RunInv, DrivenInv, WithinNonces, At
<1>4. ProcessedCode = code
  BY <1>1, RefusalRead
<1>5. /\ drive'.operationCodes = Append(drive.operationCodes, code)
      /\ drive'.attempt = drive.attempt + 1
      /\ drive'.pc = IF drive.attempt < 4 THEN "EXECUTE" ELSE "PHASE"
      /\ UNCHANGED platformVars
  BY <1>2, <1>4, ProcessFacts
<1>6. UNCHANGED <<lastAcceptedDecision, circuit, downstreamFailureCount>>
  BY <1>5 DEF platformVars, sharedVars, decisionVars
<1>7. /\ drive'.operationCodes \in Seq({"DOWNSTREAM_UNAVAILABLE", "CIRCUIT_OPEN"})
      /\ drive'.attempt > 3 =>
            \E i \in DOMAIN drive'.operationCodes : drive'.operationCodes[i] = "CIRCUIT_OPEN"
  <2>0. PICK S : S = {"DOWNSTREAM_UNAVAILABLE", "CIRCUIT_OPEN"}
    OBVIOUS
  <2>1. PICK c \in S : c = code
    BY <2>0
  <2>2. /\ \E i \in DOMAIN Append(drive.operationCodes, c) : Append(drive.operationCodes, c)[i] = c
        /\ Append(drive.operationCodes, c) \in Seq(S)
    <3>1. drive.operationCodes \in Seq(S)
      BY <1>1, <2>0
    <3>2. Append(drive.operationCodes, c) \in Seq(S)
      BY <3>1
    <3> QED
      BY <3>1, <3>2, AppendHas
  <2>3. drive'.attempt > 3 => c = "CIRCUIT_OPEN"
    BY <1>3, <1>5, <2>1
  <2> QED
    BY <1>5, <2>0, <2>1, <2>2, <2>3
<1>8. /\ drive'.pc = "PHASE" => drive'.attempt = 5
      /\ drive'.pc = "EXECUTE" => drive'.attempt - 1 = drive.attempt
      /\ drive'.pc \in {"EXECUTE", "PHASE"}
  BY <1>3, <1>5
<1>9. /\ drive.attempt = 1 => circuit.state = "CLOSED" /\ circuit.failures = 1
      /\ drive.attempt < 2 => downstreamFailureCount = drive.attempt
      /\ drive.attempt >= 2 => circuit.state = "OPEN" /\ circuit.lastFailureAt = 0
  BY <1>1, <1>3 DEF TrippingInv, At
<1> HIDE DEF code
<1> QED
  BY <1>1, <1>3, <1>6, <1>7, <1>8, <1>9 DEF TrippingInv, At

LEMMA TrippingPhase ==
    ASSUME RunInv, Fields, Tripping(scenario), TrippingInv, PhaseAction
    PROVE  TrippingInv'
<1>1. At("PHASE") /\ drive'.pc = "DONE"
  BY ClosedPhase DEF TrippingInv
<1>2. /\ drive'.operationCodes = drive.operationCodes /\ drive'.attempt = drive.attempt
      /\ UNCHANGED lastAcceptedDecision
  BY PhaseMoves DEF Moves
<1> QED
  BY <1>1, <1>2 DEF TrippingInv, At

-----------------------------------------------------------------------------
(* The operation goes through, and a second request is answered.           *)
LEMMA HealthyExecute ==
    ASSUME RunInv, Fields, Healthy(scenario), HealthyInv, Execute
    PROVE  HealthyInv'
<1>1. PICK r \in Requests :
          /\ Receive(r) /\ r.key = TheKey /\ r.payload = ThePayload
          /\ r.flaw = scenario.flaw /\ r.at = scenario.drift /\ nonces[r.nonce] = None
          /\ At("EXECUTE") /\ now = 0 /\ scenario \in DrivenScenarios
          /\ UNCHANGED <<scenario, now, mode, phase>>
          /\ drive' = [drive EXCEPT !.pc = "PROCESS", !.presented = r, !.expected = r.nonce]
  BY ExecuteFacts
<1>2. /\ drive'.pc = "PROCESS" /\ drive'.attempt = drive.attempt /\ drive'.plans = drive.plans
      /\ drive'.presented = r /\ drive'.expected = r.nonce
      /\ drive'.operationCodes = drive.operationCodes
      /\ drive'.receiptReasons = drive.receiptReasons
      /\ drive'.anyProcessedOk = drive.anyProcessedOk
  <2>1. PICK e : e = r.nonce
    OBVIOUS
  <2>2. drive' = [drive EXCEPT !.pc = "PROCESS", !.presented = r, !.expected = e]
    BY <1>1, <2>1
  <2> QED
    BY <2>1, <2>2, PresentsFields
<1>3. /\ Runs(scenario) /\ scenario.circuit = None /\ r.flaw = None /\ r.at = 0
      /\ scenario.downstream = "HEALTHY" /\ lastAcceptedDecision = None
      /\ drive.attempt = 1 /\ NothingNoted
  BY <1>1 DEF Healthy, Runs, HealthyInv, At, Presenting
<1>4. RefuseOpenCircuit(r) \/ FailOperation(r) \/ CompleteOperation(r)
  BY <1>1, <1>3, RunsFresh DEF At
<1>5. records[TheKey] = None
  BY <1>1, <1>3, RunsFresh DEF At
<1>6. ~DownstreamFails
  BY <1>3, NoBreaker DEF DownstreamFails
<1>7. CompleteOperation(r)
  BY <1>3, <1>4, <1>6, NoBreaker, FailTells
<1>8. /\ records \in [Keys -> Records \cup {None}] /\ nonces \in [Nonces -> Nat \cup {None}]
      /\ r.nonce \in Nonces
  BY <1>1 DEF RunInv, IInv, RecordInv, ReplayInv, ReplayOf, Requests
<1>9. /\ response' = Success([request |-> r.nonce, fault |-> scenario.receiptFault])
      /\ lastAcceptedDecision' /= None
      /\ "OPERATION_COMPLETED" \in reasonCodes'
      /\ nonces'[r.nonce] = 0
      /\ records'[TheKey].payload = r.payload /\ records'[TheKey].expiresAt = Ttl
  BY <1>1, <1>5, <1>7, <1>8, CompleteTells
<1>10. response' = Success([request |-> drive'.expected, fault |-> scenario'.receiptFault])
  BY <1>1, <1>2, <1>9
<1> QED
  BY <1>1, <1>2, <1>3, <1>8, <1>9, <1>10 DEF HealthyInv, NothingNoted, At, Success

LEMMA HealthyProcess ==
    ASSUME RunInv, Fields, Healthy(scenario), HealthyInv, Process
    PROVE  HealthyInv'
<1> PICK fault : fault = scenario.receiptFault
  OBVIOUS
<1>1. /\ At("PROCESS") /\ drive.attempt = 1 /\ NothingNoted /\ UNCHANGED platformVars
      /\ drive.presented.flaw = None /\ drive.presented.at = 0
      /\ nonces[drive.presented.nonce] = 0
      /\ records[TheKey].payload = ThePayload /\ records[TheKey].expiresAt = Ttl
      /\ response = Success([request |-> drive.expected, fault |-> fault])
      /\ drive.expected \in Nonces
      /\ lastAcceptedDecision /= None /\ "OPERATION_COMPLETED" \in reasonCodes
  BY ProcessFacts DEF HealthyInv, At, Presenting
<1>2. fault \in ReceiptFaults /\ scenario.presentations = 1
  BY DEF RunInv, IInv, BreakerInv, Healthy
<1>3. UNCHANGED <<scenario, nonces, records, lastDecision, lastAcceptedDecision, response, reasonCodes>>
  BY <1>1 DEF platformVars, sharedVars, decisionVars
<1>4. CASE scenario.second = "NONE"
  <2>1. drive'.pc = "PHASE"
    BY <1>1, <1>2, <1>4, ProcessFacts
  <2>2. CASE fault = "NONE"
    <3>1. ReceiptReason = None /\ ProcessedCode = "OK"
      BY <1>1, <1>2, <2>2, SuccessRead
    <3>2. drive'.anyProcessedOk = TRUE /\ drive'.receiptReasons = <<>> /\ drive'.plans = <<>>
      BY <1>1, <3>1, ProcessFacts DEF NothingNoted
    <3> QED
      BY <1>1, <1>3, <1>4, <2>1, <2>2, <3>2 DEF HealthyInv, At, Presenting
  <2>3. CASE fault /= "NONE"
    <3>1. /\ ReceiptReason = FaultReason(fault) /\ ReceiptReason /= None
          /\ ProcessedCode = "RECEIPT_VERIFICATION_FAILED"
      BY <1>1, <1>2, <2>3, SuccessRead
    <3>2. PlanRetry("RECEIPT_VERIFICATION_FAILED", 1) = "AMBIGUOUS_RECONCILE"
      BY DEF PlanRetry, AmbiguousCodes, CleanRetryable
    <3>3. PICK reason : reason = FaultReason(fault)
      OBVIOUS
    <3>4. /\ drive'.plans = <<"AMBIGUOUS_RECONCILE">> /\ drive'.receiptReasons = <<reason>>
          /\ drive'.anyProcessedOk = (drive.anyProcessedOk \/ ProcessedCode = "OK")
      <4>1. drive'.receiptReasons = Append(<<>>, reason)
        BY <1>1, <3>1, <3>3, ProcessFacts DEF NothingNoted
      <4>2. drive'.plans = Append(<<>>, "AMBIGUOUS_RECONCILE")
        BY <1>1, <3>1, <3>2, ProcessFacts DEF NothingNoted
      <4>3. drive'.anyProcessedOk = (drive.anyProcessedOk \/ ProcessedCode = "OK")
        BY ProcessFacts
      <4> QED
        BY <4>1, <4>2, <4>3
    <3>5. FaultReason(scenario.receiptFault)' = reason /\ scenario.receiptFault' = fault
      BY <1>3, <3>3 DEF FaultReason
    <3>6. drive'.anyProcessedOk = (fault = "NONE")
      BY <1>1, <2>3, <3>1, <3>4 DEF NothingNoted
    <3> QED
      BY <1>1, <1>3, <1>4, <2>1, <2>3, <3>4, <3>5, <3>6 DEF HealthyInv, At, Presenting
  <2> QED
    BY <2>2, <2>3
<1>5. CASE scenario.second /= "NONE"
  <2>1. drive'.pc = "SECOND" /\ drive'.attempt = 1 /\ drive'.presented = drive.presented
    BY <1>1, <1>5, ProcessFacts
  <2> QED
    BY <1>1, <1>3, <1>5, <2>1 DEF HealthyInv, At, Presenting
<1> QED
  BY <1>4, <1>5

LEMMA HealthySecond ==
    ASSUME RunInv, Fields, Healthy(scenario), HealthyInv, ExecuteSecond
    PROVE  HealthyInv'
<1>0. scenario.drift = 0 /\ Runs(scenario)
  BY DEF Healthy, Runs
<1>1. PICK r, e :
          /\ Receive(r) /\ r.key = TheKey
          /\ scenario.second = "REPLAY" => r = drive.presented
          /\ scenario.second /= "REPLAY" =>
                /\ r.flaw = None /\ r.at = 0 /\ nonces[r.nonce] = None
                /\ scenario.second \in {"DUPLICATE", "CONFLICT"}
                /\ scenario.second = "DUPLICATE" => r.payload = ThePayload
                /\ scenario.second = "CONFLICT" => r.payload = OtherPayload
          /\ At("SECOND") /\ now = 0 /\ scenario \in DrivenScenarios
          /\ UNCHANGED <<scenario, now, mode, phase>>
          /\ drive' = [drive EXCEPT !.pc = "PROCESS_SECOND", !.presented = r, !.expected = e]
  BY <1>0, SecondFacts
<1>2. drive'.pc = "PROCESS_SECOND" /\ drive'.attempt = drive.attempt
  BY <1>1, PresentsFields
<1>3. /\ drive.attempt = 1 /\ scenario.second /= "NONE"
      /\ drive.presented.flaw = None /\ drive.presented.at = 0
      /\ nonces[drive.presented.nonce] = 0
      /\ records[TheKey].payload = ThePayload /\ records[TheKey].expiresAt = Ttl
      /\ lastAcceptedDecision /= None /\ "OPERATION_COMPLETED" \in reasonCodes
  BY <1>1 DEF HealthyInv, At, Presenting
<1>4. records[TheKey] /= None
  BY <1>1, <1>3 DEF RunInv, DrivenInv, AcceptedOnce, At
<1>5. /\ lastDecision' /= None /\ lastDecision'.code = SecondCode(scenario.second)
      /\ UNCHANGED lastAcceptedDecision /\ reasonCodes \subseteq reasonCodes'
  <2>1. CASE scenario.second = "REPLAY"
    <3>1. r.flaw = None /\ r.at = 0 /\ nonces[r.nonce] = 0
      BY <1>1, <1>3, <2>1
    <3>2. Replayed(r)
      BY <1>1, <3>1 DEF Replayed
    <3>3. RefuseReplay(r)
      BY <1>0, <1>1, <3>1, <3>2, RunsReceive
    <3>4. Refused("REPLAY", "REQUEST_REPLAYED", "REPLAY_DETECTED")
      BY <3>3 DEF RefuseReplay
    <3>5. "REQUEST_REPLAYED" \in Texts /\ SecondCode(scenario.second) = "REQUEST_REPLAYED"
      BY <2>1 DEF Texts, SecondCode
    <3> QED
      BY <3>4, <3>5, RefusedTells
  <2>2. CASE scenario.second = "DUPLICATE"
    <3>1. r.flaw = None /\ r.at = 0 /\ r.payload = ThePayload /\ ~Replayed(r)
      BY <1>1, <2>2, NotReplayed
    <3>2. IdempotencyKind(r) = "DUPLICATE"
      BY <1>1, <1>3, <1>4, <3>1 DEF IdempotencyKind, Live
    <3>3. CollapseDuplicate(r)
      BY <1>0, <1>1, <3>1, <3>2, RunsReceive
    <3>4. /\ lastDecision' = [stage |-> "IDEMPOTENCY_DUPLICATE", accepted |-> TRUE,
                              code |-> "IDEMPOTENCY_DUPLICATE_COLLAPSED"]
          /\ UNCHANGED lastAcceptedDecision /\ reasonCodes \subseteq reasonCodes'
      BY <3>3 DEF CollapseDuplicate, Decision
    <3>5. /\ "IDEMPOTENCY_DUPLICATE_COLLAPSED" \in Texts
          /\ SecondCode(scenario.second) = "IDEMPOTENCY_DUPLICATE_COLLAPSED"
      BY <2>2 DEF Texts, SecondCode
    <3>6. lastDecision' \in DecisionKinds
      BY <3>4, <3>5 DEF DecisionKinds
    <3> QED
      BY <3>4, <3>5, <3>6, DecisionIs
  <2>3. CASE scenario.second = "CONFLICT"
    <3>0. OtherPayload /= ThePayload
      <4>1. \E p \in Payloads : p /= ThePayload
        BY DrivenAssumption
      <4> QED
        BY <4>1 DEF OtherPayload
    <3>1. r.flaw = None /\ r.at = 0 /\ r.payload = OtherPayload /\ ~Replayed(r)
      BY <1>1, <2>3, NotReplayed
    <3>2. IdempotencyKind(r) = "CONFLICT"
      BY <1>1, <1>3, <1>4, <3>0, <3>1 DEF IdempotencyKind, Live
    <3>3. RefuseConflict(r)
      BY <1>0, <1>1, <3>1, <3>2, RunsReceive
    <3>4. Refused("IDEMPOTENCY", "IDEMPOTENCY_KEY_CONFLICT", "IDEMPOTENCY_KEY_CONFLICT")
      BY <3>3 DEF RefuseConflict
    <3>5. /\ "IDEMPOTENCY_KEY_CONFLICT" \in Texts
          /\ SecondCode(scenario.second) = "IDEMPOTENCY_KEY_CONFLICT"
      BY <2>3 DEF Texts, SecondCode
    <3> QED
      BY <3>4, <3>5, RefusedTells
  <2> QED
    BY <1>1, <2>1, <2>2, <2>3
<1>6. SecondCode(scenario.second)' = SecondCode(scenario.second)
  BY <1>1 DEF SecondCode
<1> QED
  BY <1>1, <1>2, <1>3, <1>5, <1>6 DEF HealthyInv, At, Presenting

LEMMA HealthyProcessSecond ==
    ASSUME RunInv, Fields, Healthy(scenario), HealthyInv, ProcessSecond
    PROVE  HealthyInv'
<1>1. PICK d : d = NoteProcessed
  OBVIOUS
<1>2. At("PROCESS_SECOND") /\ drive' = AfterAttempt(d) /\ UNCHANGED platformVars
  BY <1>1 DEF ProcessSecond
<1>3. d = [f \in DriveFields |-> d[f]] /\ d.attempt = drive.attempt
  BY <1>1, NotedFacts
<1>4. /\ drive.attempt = 1 /\ scenario.presentations = 1 /\ scenario.second /= "NONE"
      /\ lastAcceptedDecision /= None /\ "OPERATION_COMPLETED" \in reasonCodes
      /\ lastDecision /= None /\ lastDecision.code = SecondCode(scenario.second)
  BY <1>2 DEF HealthyInv, Healthy, At, Presenting
<1>5. drive'.pc = "PHASE"
  <2>1. drive'.pc = IF d.attempt < scenario.presentations THEN "EXECUTE" ELSE "PHASE"
    BY <1>2, <1>3, AttemptFacts
  <2> QED
    BY <1>3, <1>4, <2>1
<1>6. UNCHANGED <<scenario, lastDecision, lastAcceptedDecision, reasonCodes>>
  BY <1>2 DEF platformVars, decisionVars
<1>7. SecondCode(scenario.second)' = SecondCode(scenario.second)
  BY <1>6 DEF SecondCode
<1> QED
  BY <1>4, <1>5, <1>6, <1>7 DEF HealthyInv, At, Presenting

LEMMA HealthyPhase ==
    ASSUME RunInv, Fields, Healthy(scenario), HealthyInv, PhaseAction
    PROVE  HealthyInv'
<1>1. /\ drive.pc \in {"PHASE"} \cup Emitting /\ drive'.pc \in Emitting \cup {"DONE"}
      /\ drive'.plans = drive.plans /\ drive'.receiptReasons = drive.receiptReasons
      /\ drive'.anyProcessedOk = drive.anyProcessedOk
      /\ UNCHANGED <<scenario, lastDecision, lastAcceptedDecision, reasonCodes>>
  BY PhaseMoves DEF Moves
<1>2. /\ SecondCode(scenario.second)' = SecondCode(scenario.second)
      /\ FaultReason(scenario.receiptFault)' = FaultReason(scenario.receiptFault)
  BY <1>1 DEF SecondCode, FaultReason
<1> QED
  BY <1>1, <1>2 DEF HealthyInv, At, Presenting, Emitting

-----------------------------------------------------------------------------
(* The operation, whatever the kind                                        *)

LEMMA KindsStay ==
    ASSUME UNCHANGED scenario
    PROVE  /\ Stopped(scenario)' <=> Stopped(scenario)
           /\ Healthy(scenario)' <=> Healthy(scenario)
           /\ Unavailable(scenario)' <=> Unavailable(scenario)
           /\ FailsOnce(scenario)' <=> FailsOnce(scenario)
           /\ Tripping(scenario)' <=> Tripping(scenario)
<1>1. StopCode(scenario)' = StopCode(scenario) /\ (Runs(scenario)' <=> Runs(scenario))
  BY DEF StopCode, SignedWrong, Resolved, Runs
<1>2. Stopped(scenario)' <=> Stopped(scenario)
  BY <1>1 DEF Stopped
<1>3. Healthy(scenario)' <=> Healthy(scenario)
  BY <1>1 DEF Healthy
<1>4. Unavailable(scenario)' <=> Unavailable(scenario)
  BY <1>1 DEF Unavailable
<1>5. FailsOnce(scenario)' <=> FailsOnce(scenario)
  BY <1>1 DEF FailsOnce
<1>6. Tripping(scenario)' <=> Tripping(scenario)
  BY <1>1 DEF Tripping
<1> QED
  BY <1>2, <1>3, <1>4, <1>5, <1>6

LEMMA OperationInit == Init /\ ~At("FREE") => OperationInv
<1> SUFFICES ASSUME Init, ~At("FREE") PROVE OperationInv
  OBVIOUS
<1>1. /\ drive.pc = "EXECUTE" /\ drive.attempt = 1 /\ NothingNoted
      /\ lastAcceptedDecision = None /\ downstreamFailureCount = 0
      /\ circuit.state = "CLOSED" /\ circuit.failures = 0
  BY DEF Init, FreshPlatform, NothingNoted, At
<1>2. StoppedInv
  BY <1>1 DEF StoppedInv, At
<1>3. HealthyInv
  BY <1>1 DEF HealthyInv, At, Presenting
<1>4. UnavailableInv
  BY <1>1 DEF UnavailableInv, NothingNoted, At
<1>5. FailsOnceInv
  BY <1>1 DEF FailsOnceInv, NothingNoted, At
<1>6. TrippingInv
  BY <1>1 DEF TrippingInv, NothingNoted, At
<1> QED
  BY <1>2, <1>3, <1>4, <1>5, <1>6 DEF OperationInv

LEMMA OperationStep ==
    ASSUME RunInv, Fields, OperationInv,
           Execute \/ Process \/ ExecuteSecond \/ ProcessSecond \/ PhaseAction
    PROVE  OperationInv'
<1>1. UNCHANGED scenario
  BY DriveFieldsKept, PhaseMoves DEF Moves
<1>2. ASSUME Stopped(scenario) PROVE StoppedInv'
  <2>1. StoppedInv
    BY <1>2 DEF OperationInv
  <2>2. ~ExecuteSecond /\ ~ProcessSecond
    BY <2>1 DEF StoppedInv, ExecuteSecond, ProcessSecond, At
  <2> QED
    BY <1>2, <2>1, <2>2, StoppedExecute, StoppedProcess, StoppedPhase
<1>3. ASSUME Healthy(scenario) PROVE HealthyInv'
  <2>1. HealthyInv
    BY <1>3 DEF OperationInv
  <2> QED
    BY <1>3, <2>1, HealthyExecute, HealthyProcess, HealthySecond, HealthyProcessSecond, HealthyPhase
<1>4. ASSUME Unavailable(scenario) PROVE UnavailableInv'
  <2>1. UnavailableInv
    BY <1>4 DEF OperationInv
  <2>2. ~ExecuteSecond /\ ~ProcessSecond
    BY <2>1 DEF UnavailableInv, ExecuteSecond, ProcessSecond, At
  <2> QED
    BY <1>4, <2>1, <2>2, UnavailableExecute, UnavailableProcess, UnavailablePhase
<1>5. ASSUME FailsOnce(scenario) PROVE FailsOnceInv'
  <2>1. FailsOnceInv
    BY <1>5 DEF OperationInv
  <2>2. ~ExecuteSecond /\ ~ProcessSecond
    BY <2>1 DEF FailsOnceInv, ExecuteSecond, ProcessSecond, At
  <2> QED
    BY <1>5, <2>1, <2>2, FailsOnceExecute, FailsOnceProcess, FailsOncePhase
<1>6. ASSUME Tripping(scenario) PROVE TrippingInv'
  <2>1. TrippingInv
    BY <1>6 DEF OperationInv
  <2>2. ~ExecuteSecond /\ ~ProcessSecond
    BY <2>1 DEF TrippingInv, ExecuteSecond, ProcessSecond, At
  <2> QED
    BY <1>6, <2>1, <2>2, TrippingExecute, TrippingProcess, TrippingPhase
<1> QED
  BY <1>1, <1>2, <1>3, <1>4, <1>5, <1>6, KindsStay DEF OperationInv

LEMMA OperationIdle ==
    ASSUME OperationInv, UNCHANGED vars
    PROVE  OperationInv'
<1>1. /\ UNCHANGED <<scenario, nonces, records, circuit, downstreamFailureCount, response>>
      /\ UNCHANGED <<lastDecision, lastAcceptedDecision, reasonCodes, drive>>
  BY DEF vars, platformVars, runnerVars, sharedVars, decisionVars
<1>2. StoppedInv => StoppedInv'
  <2>1. /\ StopCode(scenario)' = StopCode(scenario)
        /\ PlanRetry(StopCode(scenario), 1)' = PlanRetry(StopCode(scenario), 1)
        /\ Failure(StopCode(scenario))' = Failure(StopCode(scenario))
    BY <1>1 DEF StopCode, SignedWrong, Resolved, PlanRetry, Failure
  <2> QED
    BY <1>1, <2>1 DEF StoppedInv, NothingNoted, At
<1>3. HealthyInv => HealthyInv'
  <2>1. /\ SecondCode(scenario.second)' = SecondCode(scenario.second)
        /\ FaultReason(scenario.receiptFault)' = FaultReason(scenario.receiptFault)
    BY <1>1 DEF SecondCode, FaultReason
  <2> QED
    BY <1>1, <2>1 DEF HealthyInv, NothingNoted, At, Success
<1>4. UnavailableInv => UnavailableInv'
  BY <1>1 DEF UnavailableInv, At, PlanRetry, Failure
<1>5. FailsOnceInv => FailsOnceInv'
  BY <1>1 DEF FailsOnceInv, At, Failure, Success
<1>6. TrippingInv => TrippingInv'
  BY <1>1 DEF TrippingInv, At, Failure
<1> QED
  BY <1>1, <1>2, <1>3, <1>4, <1>5, <1>6, KindsStay DEF OperationInv

-----------------------------------------------------------------------------
(* The transport of the kinds *)

LEMMA MinIs ==
    ASSUME NEW T, T \subseteq Nat, NEW m \in T, \A y \in T : m <= y
    PROVE  Min(T) = m
<1>1. \A j \in T : (\A k \in T : j <= k) => j = m
  OBVIOUS
<1> QED
  BY <1>1 DEF Min

(* A script of one step answers every attempt with it.                     *)
LEMMA OneStep ==
    ASSUME NEW a, scenario.transportScript = <<a>>, NEW i \in Nat \ {0}
    PROVE  ScriptStep(i) = a
<1>1. Len(scenario.transportScript) = 1
  OBVIOUS
<1>2. PICK T : T = {i, 1}
  OBVIOUS
<1>3. Min(T) = 1
  BY <1>2, MinIs
<1>4. ScriptStep(i) = scenario.transportScript[Min(T)]
  BY <1>1, <1>2 DEF ScriptStep
<1> QED
  BY <1>3, <1>4

LEMMA TwoSteps ==
    ASSUME NEW a, NEW b, scenario.transportScript = <<a, b>>
    PROVE  ScriptStep(1) = a
<1>1. Len(scenario.transportScript) = 2
  OBVIOUS
<1>2. PICK T : T = {1, 2}
  OBVIOUS
<1>3. Min(T) = 1
  BY <1>2, MinIs
<1>4. ScriptStep(1) = scenario.transportScript[Min(T)]
  BY <1>1, <1>2 DEF ScriptStep
<1> QED
  BY <1>3, <1>4

LEMMA OutcomeOfOne ==
    ASSUME scenario \in DrivenScenarios, NEW step \in Nat
    PROVE  /\ scenario.transportScript = <<"OK">> => OutcomeFrom(step) = "DELIVERED"
           /\ scenario.transportScript = <<"CLEAN">> => OutcomeFrom(step) = "RETRY_EXHAUSTED"
<1>1. step + AttemptsFrom(step) \in Nat \ {0}
  BY OutcomeKnown
<1>2. ASSUME NEW a, scenario.transportScript = <<a>>
      PROVE  ScriptStep(step + AttemptsFrom(step)) = a
  BY <1>1, <1>2, OneStep
<1> QED
  BY <1>2 DEF OutcomeFrom

(* The first of two steps answers the first attempt, and ends it.          *)
LEMMA OutcomeOfTwo ==
    ASSUME scenario \in DrivenScenarios, scenario.transportScript = <<"AMBIGUOUS", "OK">>
    PROVE  OutcomeFrom(0) = "DEAD_LETTERED_AMBIGUOUS"
<1>1. ScriptStep(1) = "AMBIGUOUS"
  BY TwoSteps
<1>2. PICK T : T = {n \in 1..MaxAttempts : ScriptStep(0 + n) /= "CLEAN"} \cup {MaxAttempts}
  OBVIOUS
<1>3. MaxAttempts \in Nat \ {0} /\ 0 + 1 = 1
  BY DrivenAssumption
<1>4. T \subseteq Nat /\ 1 \in T /\ \A y \in T : 1 <= y
  BY <1>1, <1>2, <1>3
<1>5. AttemptsFrom(0) = 1
  BY <1>2, <1>4, MinIs DEF AttemptsFrom
<1>6. ScriptStep(0 + AttemptsFrom(0)) = "AMBIGUOUS"
  BY <1>1, <1>3, <1>5
<1> QED
  BY <1>6 DEF OutcomeFrom

LEMMA EmittedAre ==
    ASSUME NEW n \in Nat, scenario.emitEventCount = n
    PROVE  /\ Len(EmittedEvents) = n /\ DOMAIN EmittedEvents = 1..n
           /\ \A i \in 1..n :
                 /\ EmittedEvents[i].type = IF KnownType THEN scenario.eventType
                                            ELSE "WEBHOOK_EVENT_TYPE_UNKNOWN"
                 /\ EmittedEvents[i].sequence = IF i = 2 THEN i + scenario.secondOffset ELSE i
<1> DEFINE event(k) ==
              [type |-> IF KnownType THEN scenario.eventType ELSE "WEBHOOK_EVENT_TYPE_UNKNOWN",
               sequence |-> IF k = 2 THEN k + scenario.secondOffset ELSE k]
<1>1. EmittedEvents = [k \in 1..n |-> event(k)]
  BY DEF EmittedEvents
<1>2. \A k \in 1..n :
          /\ event(k).type = IF KnownType THEN scenario.eventType
                             ELSE "WEBHOOK_EVENT_TYPE_UNKNOWN"
          /\ event(k).sequence = IF k = 2 THEN k + scenario.secondOffset ELSE k
  OBVIOUS
<1> HIDE DEF event
<1>3. Len(EmittedEvents) = n
  BY <1>1
<1> QED
  BY <1>1, <1>2, <1>3

-----------------------------------------------------------------------------
(* The webhook phase, action by action *)

LEMMA BlankIs ==
    /\ Formed(Blank)
    /\ Blank.events = <<>> /\ Blank.outcomes = <<>> /\ Blank.step = 0
    /\ Blank.captured = <<>> /\ Blank.last = 0 /\ Blank.seen = {} /\ Blank.receiverCodes = <<>>
    /\ {"events", "views", "requestId", "step", "outcomes", "captured", "last", "seen",
        "receiverCodes", "verified", "receiverCode", "rePresented", "deliveredTwice",
        "reconciliation", "status", "reconciliationStatus"} = DOMAIN Blank
  BY DEF Formed, Blank

LEMMA OpenFacts ==
    ASSUME Fields, OpenPhase
    PROVE  /\ phase'.views = EmittedEvents
           /\ phase'.events = IF KnownType THEN EmittedEvents ELSE <<>>
           /\ phase'.outcomes = <<>> /\ phase'.step = 0 /\ phase'.last = 0
           /\ phase'.seen = {} /\ phase'.receiverCodes = <<>>
           /\ drive'.pc = IF KnownType /\ scenario.emitEventCount > 0 THEN "DELIVER" ELSE "SPAN"
<1>1. PICK id, views, events, to :
          /\ views = EmittedEvents /\ events = IF KnownType THEN EmittedEvents ELSE <<>>
          /\ to = IF KnownType /\ scenario.emitEventCount > 0 THEN "DELIVER" ELSE "SPAN"
          /\ PhaseStep("PHASE",
                 [phase EXCEPT !.requestId = id, !.views = views, !.events = events], to)
  BY DEF OpenPhase
<1>2. PICK p : p = [phase EXCEPT !.requestId = id, !.views = views, !.events = events]
  OBVIOUS
<1>3. PhaseStep("PHASE", p, to)
  BY <1>1, <1>2
<1>4. phase' = p /\ drive'.pc = to /\ At("PHASE")
  BY <1>3, PhaseFacts
<1>5. phase = Blank
  BY <1>4 DEF Fields, At, Presenting
<1>6. /\ p.views = views /\ p.events = events /\ p.outcomes = <<>> /\ p.step = 0
      /\ p.last = 0 /\ p.seen = {} /\ p.receiverCodes = <<>>
  BY <1>2, <1>5 DEF Blank
<1> QED
  BY <1>1, <1>4, <1>6

LEMMA DeliverFacts ==
    ASSUME Fields, Deliver
    PROVE  /\ At("DELIVER")
           /\ phase'.outcomes = Append(phase.outcomes, OutcomeFrom(phase.step))
           /\ phase'.views = phase.views /\ phase'.events = phase.events
           /\ phase'.last = phase.last /\ phase'.seen = phase.seen
           /\ phase'.receiverCodes = phase.receiverCodes
           /\ drive'.pc = IF Len(phase.outcomes) + 1 < Len(phase.events)
                          THEN "DELIVER" ELSE "VERIFY"
<1>1. PICK outcome, i : outcome = OutcomeFrom(phase.step) /\ i = Len(phase.outcomes) + 1
  OBVIOUS
<1>2. PICK s : s = Sent(phase, i)
  OBVIOUS
<1>3. PICK p : p = [s EXCEPT !.outcomes = Append(@, outcome)]
  OBVIOUS
<1>4. PICK to : to = IF i < Len(phase.events) THEN "DELIVER" ELSE "VERIFY"
  OBVIOUS
<1>5. PhaseStep("DELIVER", p, to)
  BY <1>1, <1>2, <1>3, <1>4, DeliverIs
<1>6. At("DELIVER") /\ phase' = p /\ drive'.pc = to
  BY <1>5, PhaseFacts
<1>7. /\ s.outcomes = phase.outcomes /\ s.views = phase.views /\ s.events = phase.events
      /\ s.last = phase.last /\ s.seen = phase.seen /\ s.receiverCodes = phase.receiverCodes
  <2>1. PICK n, c : s = [phase EXCEPT !.step = n, !.captured = c]
    BY <1>2 DEF Sent
  <2>2. PICK D : D = DOMAIN Blank /\ phase = [f \in D |-> phase[f]]
    BY DEF Fields
  <2>3. {"outcomes", "views", "events", "last", "seen", "receiverCodes"} \subseteq D
    BY <2>2, BlankIs
  <2> QED
    BY <2>1, <2>2, <2>3
<1>8. Formed(s)
  BY <1>2, SentFormed DEF Fields, Formed
<1>9. /\ p.outcomes = Append(phase.outcomes, outcome)
      /\ p.views = phase.views /\ p.events = phase.events
      /\ p.last = phase.last /\ p.seen = phase.seen /\ p.receiverCodes = phase.receiverCodes
  BY <1>3, <1>7, <1>8, BlankIs DEF Formed
<1> QED
  BY <1>1, <1>4, <1>6, <1>9

LEMMA VerifiedKept ==
    ASSUME NEW q, Formed(q), NEW i, NEW v, v = VerifiedBy(q, i)
    PROVE  /\ v.outcomes = q.outcomes /\ v.captured = q.captured
           /\ v.views = q.views /\ v.events = q.events
           /\ v.reconciliation = q.reconciliation
  BY BlankIs DEF VerifiedBy, Formed

LEMMA VerifyFacts ==
    ASSUME Fields, Verify, NEW i, i = phase.captured[Len(phase.receiverCodes) + 1]
    PROVE  /\ At("VERIFY") /\ drive'.pc = "VERIFY"
           /\ Len(phase.receiverCodes) < Len(phase.captured)
           /\ phase'.receiverCodes = Append(phase.receiverCodes, GuardCode(phase, i))
           /\ phase'.last = IF GuardCode(phase, i) = "OK" THEN phase.events[i].sequence
                            ELSE phase.last
           /\ phase'.seen = IF GuardCode(phase, i) = "OK" THEN phase.seen \cup {i}
                            ELSE phase.seen
           /\ phase'.outcomes = phase.outcomes /\ phase'.captured = phase.captured
           /\ phase'.views = phase.views /\ phase'.events = phase.events
<1>0. PICK q : q = phase
  OBVIOUS
<1>1. PICK v : v = VerifiedBy(q, i)
  OBVIOUS
<1>2. PhaseStep("VERIFY", v, "VERIFY") /\ Len(phase.receiverCodes) < Len(phase.captured)
  BY <1>0, <1>1 DEF Verify
<1>3. At("VERIFY") /\ drive'.pc = "VERIFY" /\ phase' = v
  BY <1>2, PhaseFacts
<1>4. Formed(q)
  BY <1>0 DEF Fields, Formed
<1>5. PICK code : code = GuardCode(q, i)
  OBVIOUS
<1>6. /\ v.receiverCodes = Append(q.receiverCodes, code)
      /\ v.last = IF code = "OK" THEN q.events[i].sequence ELSE q.last
      /\ v.seen = IF code = "OK" THEN q.seen \cup {i} ELSE q.seen
      /\ v.outcomes = q.outcomes /\ v.captured = q.captured
      /\ v.views = q.views /\ v.events = q.events
  BY <1>1, <1>4, <1>5, BlankIs DEF VerifiedBy, Formed
<1> QED
  BY <1>0, <1>2, <1>3, <1>5, <1>6

-----------------------------------------------------------------------------
LEMMA LookFacts ==
    ASSUME Fields, ReceiverFaults,
           NEW codes, codes = phase.receiverCodes,
           NEW some, some = (phase.captured /= <<>>)
    PROVE  /\ At("VERIFY") /\ drive'.pc = "AGAIN" /\ Len(codes) = Len(phase.captured)
           /\ phase'.verified = (some /\ \A j \in DOMAIN codes : codes[j] = "OK")
           /\ phase'.receiverCode = IF some /\ scenario.tamperDelivery
                                    THEN "WEBHOOK_SIGNATURE_INVALID"
                                    ELSE IF some /\ Last(codes) /= "OK" THEN Last(codes) ELSE None
           /\ phase'.receiverCodes = IF some /\ scenario.tamperDelivery
                                     THEN Append(codes, "WEBHOOK_SIGNATURE_INVALID") ELSE codes
           /\ phase'.rePresented = IF some /\ scenario.rePresent
                                   THEN GuardCode(phase, Last(phase.captured)) ELSE None
           /\ phase'.outcomes = phase.outcomes /\ phase'.captured = phase.captured
           /\ phase'.views = phase.views /\ phase'.events = phase.events
<1>1. PICK verified, code, all, again, p :
          /\ verified = (some /\ \A j \in DOMAIN codes : codes[j] = "OK")
          /\ code = IF some /\ scenario.tamperDelivery THEN "WEBHOOK_SIGNATURE_INVALID"
                    ELSE IF some /\ Last(codes) /= "OK" THEN Last(codes) ELSE None
          /\ all = IF some /\ scenario.tamperDelivery
                   THEN Append(codes, "WEBHOOK_SIGNATURE_INVALID") ELSE codes
          /\ again = IF some /\ scenario.rePresent
                     THEN GuardCode(phase, Last(phase.captured)) ELSE None
          /\ p = [phase EXCEPT !.verified = verified, !.receiverCode = code,
                               !.receiverCodes = all, !.rePresented = again]
  OBVIOUS
<1>2. PhaseStep("VERIFY", p, "AGAIN") /\ Len(codes) = Len(phase.captured)
  BY <1>1 DEF ReceiverFaults
<1>3. At("VERIFY") /\ drive'.pc = "AGAIN" /\ phase' = p
  BY <1>2, PhaseFacts
<1>4. PICK D : D = DOMAIN Blank /\ phase = [f \in D |-> phase[f]]
  BY DEF Fields
<1>5. {"outcomes", "captured", "views", "events", "verified", "receiverCode",
       "receiverCodes", "rePresented"} \subseteq D
  BY <1>4, BlankIs
<1>6. /\ p.verified = verified /\ p.receiverCode = code /\ p.receiverCodes = all
      /\ p.rePresented = again /\ p.outcomes = phase.outcomes /\ p.captured = phase.captured
      /\ p.views = phase.views /\ p.events = phase.events
  BY <1>1, <1>4, <1>5
<1> QED
  BY <1>1, <1>2, <1>3, <1>6

LEMMA TwiceFacts ==
    ASSUME Fields, DeliverTwice
    PROVE  /\ At("AGAIN") /\ drive'.pc = "RECONCILE"
           /\ phase'.outcomes = phase.outcomes /\ phase'.views = phase.views
           /\ ~scenario.deliverTwice => phase' = phase
<1>1. PICK s : s = Sent(phase, 1)
  OBVIOUS
<1>2. PICK p : p = IF ~scenario.deliverTwice THEN phase
                   ELSE IF DeliveredBefore(1)
                   THEN [phase EXCEPT !.deliveredTwice = "DELIVERED_DUPLICATE"]
                   ELSE [s EXCEPT !.deliveredTwice = OutcomeFrom(phase.step)]
  OBVIOUS
<1>3. PhaseStep("AGAIN", p, "RECONCILE")
  BY <1>1, <1>2 DEF DeliverTwice
<1>4. At("AGAIN") /\ drive'.pc = "RECONCILE" /\ phase' = p
  BY <1>3, PhaseFacts
<1>5. PICK D : /\ D = DOMAIN Blank /\ phase = [f \in D |-> phase[f]]
               /\ {"outcomes", "views"} \subseteq D
  BY BlankIs DEF Fields
<1>6. PICK n, c : s = [phase EXCEPT !.step = n, !.captured = c]
  BY <1>1 DEF Sent
<1>7. s = [f \in D |-> s[f]] /\ s.outcomes = phase.outcomes /\ s.views = phase.views
  BY <1>5, <1>6
<1>8. p.outcomes = phase.outcomes /\ p.views = phase.views
  BY <1>2, <1>5, <1>7
<1> QED
  BY <1>2, <1>4, <1>8

LEMMA ReconcileFacts ==
    ASSUME Fields, Reconcile
    PROVE  /\ At("RECONCILE") /\ drive'.pc = "SPAN"
           /\ phase'.outcomes = phase.outcomes /\ phase'.views = phase.views
           /\ ~Ambiguous => phase' = phase
           /\ Ambiguous /\ scenario.reconcile /= None => phase'.reconciliation /= <<>>
<1> DEFINE i == Len(phase.events) + 1
           event == [type |-> IF scenario.reconcile = "RESOLVE" THEN "reconciliation.completed"
                              ELSE "reconciliation.required",
                     sequence |-> scenario.emitEventCount + 1]
           outcome == OutcomeFrom(phase.step)
<1>1. PICK e : e = [phase EXCEPT !.events = Append(@, event)]
  OBVIOUS
<1>2. PICK sent : sent = Sent(e, i)
  OBVIOUS
<1>3. PICK s : s = [sent EXCEPT !.reconciliation = <<outcome>>]
  OBVIOUS
<1>4. PICK v : v = VerifiedBy(s, i)
  OBVIOUS
<1>5. PICK p : p = IF ~Ambiguous \/ scenario.reconcile = None THEN phase
                   ELSE IF outcome = "DELIVERED" THEN v ELSE s
  OBVIOUS
<1>6. PhaseStep("RECONCILE", p, "SPAN")
  BY <1>1, <1>2, <1>3, <1>4, <1>5 DEF Reconcile
<1> HIDE DEF i, event, outcome
<1>7. At("RECONCILE") /\ drive'.pc = "SPAN" /\ phase' = p
  BY <1>6, PhaseFacts
<1>8. PICK D : /\ D = DOMAIN Blank /\ phase = [f \in D |-> phase[f]]
               /\ {"outcomes", "views", "reconciliation"} \subseteq D
  BY BlankIs DEF Fields
<1>9. e = [f \in D |-> e[f]] /\ e.outcomes = phase.outcomes /\ e.views = phase.views
  BY <1>1, <1>8
<1>10. PICK n, c : sent = [e EXCEPT !.step = n, !.captured = c]
  BY <1>2 DEF Sent
<1>11. sent = [f \in D |-> sent[f]] /\ sent.outcomes = e.outcomes /\ sent.views = e.views
  BY <1>8, <1>9, <1>10
<1>12. /\ s = [f \in D |-> s[f]] /\ s.outcomes = e.outcomes /\ s.views = e.views
       /\ s.reconciliation = <<outcome>>
  BY <1>3, <1>8, <1>11
<1>13. Formed(s)
  BY <1>8, <1>12 DEF Formed
<1>14. v.outcomes = s.outcomes /\ v.views = s.views /\ v.reconciliation = s.reconciliation
  BY <1>4, <1>13, VerifiedKept
<1>15. <<outcome>> /= <<>>
  OBVIOUS
<1> QED
  BY <1>5, <1>7, <1>9, <1>12, <1>14, <1>15

LEMMA SpanFacts ==
    ASSUME Fields, RecordSpan
    PROVE  /\ At("SPAN") /\ drive'.pc = "DONE"
           /\ phase'.status = IF Ambiguous THEN "AMBIGUOUS" ELSE "SUCCESS"
           /\ Ambiguous /\ phase.reconciliation /= <<>> =>
                 phase'.reconciliationStatus = IF scenario.reconcile = "RESOLVE" THEN "RESOLVED"
                                               ELSE "REQUIRED_UNRESOLVED"
           /\ \A f \in DOMAIN Blank \ {"status", "reconciliationStatus"} : phase'[f] = phase[f]
<1>1. PICK status, rec :
          /\ status = IF Ambiguous THEN "AMBIGUOUS" ELSE "SUCCESS"
          /\ rec = CASE ~Ambiguous -> "NONE"
                     [] Ambiguous /\ phase.reconciliation = <<>> -> "PENDING"
                     [] Ambiguous /\ phase.reconciliation /= <<>> ->
                            IF scenario.reconcile = "RESOLVE" THEN "RESOLVED"
                            ELSE "REQUIRED_UNRESOLVED"
  OBVIOUS
<1>2. PICK p : p = [phase EXCEPT !.status = status, !.reconciliationStatus = rec]
  OBVIOUS
<1>3. PhaseStep("SPAN", p, "DONE")
  BY <1>1, <1>2 DEF RecordSpan
<1>4. At("SPAN") /\ drive'.pc = "DONE" /\ phase' = p
  BY <1>3, PhaseFacts
<1>5. PICK D : /\ D = DOMAIN Blank /\ phase = [f \in D |-> phase[f]]
               /\ {"status", "reconciliationStatus"} \subseteq D
  BY BlankIs DEF Fields
<1>6. /\ p.status = status /\ p.reconciliationStatus = rec
      /\ \A f \in D \ {"status", "reconciliationStatus"} : p[f] = phase[f]
  BY <1>2, <1>5
<1>7. Ambiguous /\ phase.reconciliation /= <<>> =>
          rec = IF scenario.reconcile = "RESOLVE" THEN "RESOLVED" ELSE "REQUIRED_UNRESOLVED"
  BY <1>1
<1> QED
  BY <1>1, <1>4, <1>5, <1>6, <1>7

-----------------------------------------------------------------------------
(* The webhook phase of a kind, step by step *)

LEMMA EmittedStays ==
    ASSUME UNCHANGED scenario
    PROVE  EmittedEvents' = EmittedEvents /\ (KnownType' <=> KnownType)
  BY DEF EmittedEvents, KnownType

(* What a healthy operation was accepted for is emitted.                   *)
LEMMA HealthyOpens ==
    ASSUME RunInv, HealthyInv
    PROVE  ~RefusePhase
<1> SUFFICES ASSUME RefusePhase PROVE FALSE
  OBVIOUS
<1>1. At("PHASE") /\ ~Gate
  BY DEF RefusePhase, PhaseStep
<1>2. lastAcceptedDecision /= None
  BY <1>1 DEF HealthyInv, At
<1> QED
  BY <1>1, <1>2, GateTells DEF RunInv, DrivenInv, At

(* What happens to the outcomes and to the views.                          *)
LEMMA PhaseSteps ==
    ASSUME RunInv, Fields, HealthyInv, PhaseAction
    PROVE  /\ UNCHANGED scenario /\ drive'.pc \in Emitting \cup {"DONE"}
           /\ \/ OpenPhase
              \/ /\ Opened /\ phase'.views = phase.views
                 /\ \/ Deliver
                    \/ ~At("DELIVER") /\ drive'.pc /= "DELIVER" /\ phase'.outcomes = phase.outcomes
<1>1. UNCHANGED scenario /\ drive'.pc \in Emitting \cup {"DONE"}
  BY PhaseMoves DEF Moves
<1>2. {"views", "outcomes"} \subseteq DOMAIN Blank \ {"status", "reconciliationStatus"}
  BY BlankIs
<1>3. CASE Deliver
  BY <1>1, <1>3, DeliverFacts DEF Opened, At, Emitting
<1>4. CASE Verify
  <2>1. /\ At("VERIFY") /\ drive'.pc = "VERIFY"
        /\ phase'.outcomes = phase.outcomes /\ phase'.views = phase.views
    BY <1>4, VerifyFacts
  <2> QED
    BY <1>1, <2>1 DEF Opened, At, Emitting
<1>5. CASE ReceiverFaults
  <2>1. /\ At("VERIFY") /\ drive'.pc = "AGAIN"
        /\ phase'.outcomes = phase.outcomes /\ phase'.views = phase.views
    BY <1>5, LookFacts
  <2> QED
    BY <1>1, <2>1 DEF Opened, At, Emitting
<1>6. CASE DeliverTwice
  BY <1>1, <1>6, TwiceFacts DEF Opened, At, Emitting
<1>7. CASE Reconcile
  BY <1>1, <1>7, ReconcileFacts DEF Opened, At, Emitting
<1>8. CASE RecordSpan
  BY <1>1, <1>2, <1>8, SpanFacts DEF Opened, At, Emitting
<1> QED
  BY <1>1, <1>3, <1>4, <1>5, <1>6, <1>7, <1>8, HealthyOpens DEF PhaseAction

LEMMA UnknownPhase ==
    ASSUME RunInv, Fields, HealthyInv, PhaseAction, Opened => phase.views = EmittedEvents
    PROVE  phase'.views = EmittedEvents'
  BY PhaseSteps, EmittedStays, OpenFacts

LEMMA ExhaustingPhase ==
    ASSUME RunInv, Fields, HealthyInv, PhaseAction, Exhausting(scenario),
           Opened => ExhaustingInv
    PROVE  ExhaustingInv'
<1>1. /\ KnownType /\ scenario.emitEventCount = 1 /\ scenario.transportScript = <<"CLEAN">>
  BY DEF Exhausting, Emits, KnownType
<1>2. Len(EmittedEvents) = 1 /\ EmittedEvents' = EmittedEvents
  BY <1>1, EmittedAre, EmittedStays, PhaseSteps
<1>3. CASE OpenPhase
  BY <1>1, <1>2, <1>3, OpenFacts DEF ExhaustingInv, At
<1>4. CASE Deliver
  <2>1. At("DELIVER") /\ Opened
    BY <1>4, DeliverFacts DEF Opened, At, Emitting
  <2>2. phase.outcomes = <<>> /\ phase.events = EmittedEvents
    BY <2>1 DEF ExhaustingInv
  <2>3. scenario \in DrivenScenarios /\ phase.step \in Nat
    BY <2>1, EmittingFacts DEF At, Emitting, HandedOverInTurn
  <2>4. OutcomeFrom(phase.step) = "RETRY_EXHAUSTED"
    BY <1>1, <2>3, OutcomeOfOne
  <2>5. phase'.outcomes = Append(<<>>, "RETRY_EXHAUSTED")
    BY <1>4, <2>2, <2>4, DeliverFacts
  <2>6. drive'.pc = "VERIFY"
    <3>1. Len(phase.outcomes) + 1 = 1 /\ Len(phase.events) = 1
      <4>1. Len(<<>>) = 0
        OBVIOUS
      <4> QED
        BY <1>2, <2>2, <4>1
    <3> QED
      BY <1>4, <3>1, DeliverFacts
  <2> QED
    BY <2>5, <2>6 DEF ExhaustingInv, At
<1>5. CASE Opened /\ ~At("DELIVER") /\ drive'.pc /= "DELIVER" /\ phase'.outcomes = phase.outcomes
  BY <1>5 DEF ExhaustingInv, At
<1> QED
  BY <1>3, <1>4, <1>5, PhaseSteps

LEMMA ReconcilingPhase ==
    ASSUME RunInv, Fields, HealthyInv, PhaseAction, Reconciling(scenario),
           Opened => ReconcilingInv
    PROVE  ReconcilingInv'
<1>1. /\ KnownType /\ scenario.emitEventCount = 2
      /\ scenario.transportScript = <<"AMBIGUOUS", "OK">>
      /\ scenario.reconcile \in {"RESOLVE", "ESCALATE"}
  BY DEF Reconciling, Emits, KnownType
<1>2. scenario.reconcile /= None
  BY <1>1, CatalogAssumption DEF Texts
<1>3. UNCHANGED scenario
  BY PhaseSteps
<1>4. CASE OpenPhase
  BY <1>1, <1>4, OpenFacts DEF ReconcilingInv, At
<1>5. CASE Deliver
  <2>1. At("DELIVER") /\ Opened
    BY <1>5, DeliverFacts DEF Opened, At, Emitting
  <2>2. scenario \in DrivenScenarios /\ phase.outcomes \in Seq(OutcomeCodes)
    BY <2>1, EmittingFacts DEF At, Emitting, HandedOverInTurn
  <2>3. PICK outcome : outcome = OutcomeFrom(phase.step)
    OBVIOUS
  <2>4. phase'.outcomes = Append(phase.outcomes, outcome) /\ drive'.pc \in {"DELIVER", "VERIFY"}
    BY <1>5, <2>3, DeliverFacts
  <2>5. phase'.outcomes /= <<>> /\ phase'.outcomes[1] = "DEAD_LETTERED_AMBIGUOUS"
    <3>1. CASE phase.outcomes = <<>>
      <4>1. phase.step = 0
        BY <2>1, <3>1 DEF ReconcilingInv
      <4>2. outcome = "DEAD_LETTERED_AMBIGUOUS"
        BY <1>1, <2>2, <2>3, <4>1, OutcomeOfTwo
      <4> QED
        BY <2>4, <3>1, <4>2
    <3>2. CASE phase.outcomes /= <<>>
      <4>1. phase.outcomes[1] = "DEAD_LETTERED_AMBIGUOUS"
        BY <2>1, <3>2 DEF ReconcilingInv
      <4> QED
        BY <2>2, <2>4, <3>2, <4>1
    <3> QED
      BY <3>1, <3>2
  <2> QED
    BY <2>4, <2>5 DEF ReconcilingInv, At
<1>6. CASE Verify \/ ReceiverFaults \/ DeliverTwice
  <2>1. Opened /\ ~At("DELIVER") /\ phase'.outcomes = phase.outcomes
    BY <1>6, PhaseSteps DEF Deliver, OpenPhase, Verify, ReceiverFaults, DeliverTwice, PhaseStep, At
  <2>2. drive'.pc \in {"VERIFY", "AGAIN", "RECONCILE"}
    BY <1>6, VerifyFacts, LookFacts, TwiceFacts
  <2> QED
    BY <2>1, <2>2 DEF ReconcilingInv, At
<1>7. ASSUME Reconcile \/ RecordSpan PROVE Opened /\ Ambiguous /\ ReconcilingInv /\ phase.outcomes /= <<>>
  <2>1. At("RECONCILE") \/ At("SPAN")
    BY <1>7, ReconcileFacts, SpanFacts
  <2>2. Opened /\ ReconcilingInv
    BY <2>1 DEF Opened, At, Emitting
  <2>3. phase.outcomes \in Seq(OutcomeCodes)
    BY <2>1, EmittingFacts DEF At, Emitting, HandedOverInTurn
  <2>4. phase.outcomes /= <<>> /\ phase.outcomes[1] = "DEAD_LETTERED_AMBIGUOUS"
    BY <2>1, <2>2 DEF ReconcilingInv, At
  <2>5. ~Delivered
    BY <2>3, <2>4 DEF Delivered
  <2> QED
    BY <2>2, <2>3, <2>4, <2>5, AmbiguousTells
<1>8. CASE Reconcile
  <2>1. /\ drive'.pc = "SPAN" /\ phase'.outcomes = phase.outcomes
        /\ phase'.reconciliation /= <<>>
    BY <1>2, <1>7, <1>8, ReconcileFacts
  <2> QED
    BY <1>7, <1>8, <2>1 DEF ReconcilingInv, At
<1>9. CASE RecordSpan
  <2>1. /\ At("SPAN") /\ drive'.pc = "DONE" /\ phase'.outcomes = phase.outcomes
    <3>1. "outcomes" \in DOMAIN Blank \ {"status", "reconciliationStatus"}
      BY BlankIs
    <3> QED
      BY <1>9, <3>1, SpanFacts
  <2>2. phase.reconciliation /= <<>>
    BY <1>7, <1>9, <2>1 DEF ReconcilingInv
  <2>3. phase'.reconciliationStatus =
            IF scenario.reconcile = "RESOLVE" THEN "RESOLVED" ELSE "REQUIRED_UNRESOLVED"
    BY <1>7, <1>9, <2>2, SpanFacts
  <2> QED
    BY <1>3, <1>7, <1>9, <2>1, <2>3 DEF ReconcilingInv, At
<1> QED
  BY <1>4, <1>5, <1>6, <1>8, <1>9, HealthyOpens DEF PhaseAction

-----------------------------------------------------------------------------
LEMMA AppendTells ==
    ASSUME NEW S, NEW s \in Seq(S), NEW b \in S
    PROVE  /\ Append(s, b) \in Seq(S) /\ Len(Append(s, b)) = Len(s) + 1
           /\ \A i \in 1..Len(s) : Append(s, b)[i] = s[i]
           /\ Append(s, b)[Len(s) + 1] = b
  BY AppendProperties

LEMMA AppendToOne ==
    ASSUME NEW S, NEW s \in Seq(S), NEW b \in S, Len(s) = 1
    PROVE  /\ Append(s, b) \in Seq(S) /\ Len(Append(s, b)) = 2
           /\ Append(s, b)[1] = s[1] /\ Append(s, b)[2] = b
<1>1. /\ Append(s, b) \in Seq(S) /\ Len(Append(s, b)) = Len(s) + 1
      /\ \A i \in 1..Len(s) : Append(s, b)[i] = s[i]
      /\ Append(s, b)[Len(s) + 1] = b
  BY AppendTells
<1> QED
  BY <1>1

LEMMA AppendIs ==
    ASSUME NEW S, NEW s \in Seq(S), NEW b \in S, NEW t \in Seq(S),
           Len(s) = 1, Len(t) = 2, t[1] = s[1], t[2] = b
    PROVE  Append(s, b) = t
<1>1. PICK u \in Seq(S) : u = Append(s, b)
  BY AppendToOne
<1>2. Len(u) = 2 /\ u[1] = s[1] /\ u[2] = b
  BY <1>1, AppendToOne
<1>3. \A i \in 1..Len(u) : u[i] = t[i]
  BY <1>2
<1> QED
  BY <1>1, <1>2, <1>3, SeqEqual

LEMMA AppendSecond ==
    ASSUME NEW S, NEW a \in S, NEW b \in S
    PROVE  Append(<<a>>, b) = <<a, b>>
<1>1. <<a>> \in Seq(S) /\ Len(<<a>>) = 1 /\ <<a>>[1] = a
  OBVIOUS
<1>2. <<a, b>> \in Seq(S) /\ Len(<<a, b>>) = 2 /\ <<a, b>>[1] = a /\ <<a, b>>[2] = b
  OBVIOUS
<1>3. PICK s, t : s = <<a>> /\ t = <<a, b>>
  OBVIOUS
<1>4. /\ s \in Seq(S) /\ t \in Seq(S) /\ Len(s) = 1 /\ s[1] = a
      /\ Len(t) = 2 /\ t[1] = a /\ t[2] = b
  BY <1>1, <1>2, <1>3
<1>5. Append(s, b) = t
  BY <1>4, AppendIs
<1> QED
  BY <1>3, <1>5

LEMMA DeliveringIs ==
    ASSUME Delivering(scenario)
    PROVE  /\ KnownType /\ scenario.emitEventCount = 2
           /\ scenario.transportScript = <<"OK">> /\ ~scenario.deliverTwice
           /\ scenario.secondOffset \in {0, -1}
           /\ Len(EmittedEvents) = 2 /\ EmittedEvents[1].sequence = 1
           /\ EmittedEvents[2].sequence = 2 + scenario.secondOffset
<1>1. /\ KnownType /\ scenario.emitEventCount = 2
      /\ scenario.transportScript = <<"OK">> /\ ~scenario.deliverTwice
      /\ scenario.secondOffset \in {0, -1}
  BY DEF Delivering, Emits, KnownType
<1>2. PICK n \in Nat : n = 2 /\ scenario.emitEventCount = n
  BY <1>1
<1>3. /\ Len(EmittedEvents) = n
      /\ \A i \in 1..n :
            EmittedEvents[i].sequence = IF i = 2 THEN i + scenario.secondOffset ELSE i
  BY <1>2, EmittedAre
<1>4. EmittedEvents[1].sequence = 1 /\ EmittedEvents[2].sequence = 2 + scenario.secondOffset
  BY <1>2, <1>3
<1> QED
  BY <1>1, <1>2, <1>3, <1>4

LEMMA DeliveringOpen ==
    ASSUME Fields, Delivering(scenario), OpenPhase, UNCHANGED scenario
    PROVE  DeliveringInv'
<1>1. /\ phase'.events = EmittedEvents' /\ phase'.outcomes = <<>> /\ phase'.last = 0
      /\ phase'.seen = {} /\ phase'.receiverCodes = <<>> /\ drive'.pc = "DELIVER"
  BY OpenFacts, DeliveringIs, EmittedStays
<1>2. Delivered' /\ Guarded'
  BY <1>1 DEF Delivered, Guarded
<1> QED
  BY <1>1, <1>2 DEF DeliveringInv, At

LEMMA DeliveringDeliver ==
    ASSUME RunInv, RunInv', Fields, Delivering(scenario), DeliveringInv, Deliver,
           UNCHANGED scenario
    PROVE  DeliveringInv'
<1>1. At("DELIVER") /\ drive.pc \in Emitting
  BY DeliverFacts DEF At, Emitting
<1>2. scenario \in DrivenScenarios /\ HandedOverInTurn
  BY <1>1, EmittingFacts
<1>3. PICK outcome : outcome = OutcomeFrom(phase.step)
  OBVIOUS
<1>4. outcome = "DELIVERED"
  BY <1>2, <1>3, DeliveringIs, OutcomeOfOne DEF HandedOverInTurn
<1>5. /\ phase'.outcomes = Append(phase.outcomes, outcome) /\ phase'.events = phase.events
      /\ phase'.last = phase.last /\ phase'.seen = phase.seen
      /\ phase'.receiverCodes = phase.receiverCodes
      /\ drive'.pc \in {"DELIVER", "VERIFY"}
  BY <1>3, DeliverFacts
<1>6. /\ Delivered /\ phase.events = EmittedEvents /\ Guarded /\ phase.receiverCodes = <<>>
  BY <1>1 DEF DeliveringInv, At
<1>7. Delivered'
  <2>1. PICK o \in Seq(OutcomeCodes) : o = phase.outcomes
    BY <1>2 DEF HandedOverInTurn
  <2>2. \A j \in DOMAIN Append(o, outcome) : Append(o, outcome)[j] = "DELIVERED"
    BY <1>4, <1>6, <2>1 DEF Delivered
  <2> QED
    BY <1>5, <2>1, <2>2 DEF Delivered
<1>8. Guarded'
  BY <1>5, <1>6 DEF Guarded
<1>9. phase'.events = EmittedEvents'
  BY <1>5, <1>6, EmittedStays
<1>10. HandedOverInTurn'
  BY <1>5 DEF RunInv, DrivenInv, At, Emitting
<1>11. drive'.pc /= "DELIVER" =>
           Len(phase'.outcomes) = 2 /\ DOMAIN phase'.outcomes = 1..2 /\ Len(phase'.captured) = 2
  <2>1. Len(phase'.events) = 2
    BY <1>5, <1>6, DeliveringIs
  <2>2. drive'.pc /= "DELIVER" => Len(phase'.outcomes) = 2 /\ Len(phase'.captured) = 2
    BY <1>7, <1>10, <2>1 DEF HandedOverInTurn, At
  <2>3. PICK o \in Seq(OutcomeCodes) : o = phase'.outcomes
    BY <1>10 DEF HandedOverInTurn
  <2>4. DOMAIN o = 1..Len(o)
    OBVIOUS
  <2> QED
    BY <2>2, <2>3, <2>4
<1> QED
  BY <1>5, <1>6, <1>7, <1>8, <1>9, <1>11 DEF DeliveringInv, At

(* The first event passes; the second in its order passes, or leaves a gap. *)
LEMMA GuardedNext ==
    ASSUME Fields, Delivering(scenario), phase.events = EmittedEvents, Guarded, Verify,
           Len(phase.captured) = 2, \A j \in 1..2 : phase.captured[j] = j,
           UNCHANGED scenario
    PROVE  Guarded'
<1>1. PICK k : k = Len(phase.receiverCodes)
  OBVIOUS
<1>2. PICK i : i = phase.captured[Len(phase.receiverCodes) + 1]
  OBVIOUS
<1>3. PICK code : code = GuardCode(phase, i)
  OBVIOUS
<1>4. /\ k < 2 /\ phase'.receiverCodes = Append(phase.receiverCodes, code)
      /\ phase'.last = IF code = "OK" THEN phase.events[i].sequence ELSE phase.last
      /\ phase'.seen = IF code = "OK" THEN phase.seen \cup {i} ELSE phase.seen
  BY <1>1, <1>2, <1>3, VerifyFacts
<1>5. /\ phase.events[1].sequence = 1
      /\ phase.events[2].sequence = 2 + scenario.secondOffset
      /\ scenario.secondOffset \in {0, -1}
  BY DeliveringIs
<1>6. CASE k = 0
  <2>1. phase.last = 0 /\ phase.seen = {} /\ phase.receiverCodes = <<>> /\ i = 1
    BY <1>1, <1>2, <1>6 DEF Guarded
  <2>2. code = "OK"
    BY <1>3, <2>1 DEF GuardCode
  <2>3. phase'.receiverCodes = <<"OK">> /\ phase'.last = 1 /\ phase'.seen = {1}
    BY <1>4, <1>5, <2>1, <2>2
  <2> QED
    BY <2>3 DEF Guarded
<1>7. CASE k = 1
  <2>1. phase.last = 1 /\ phase.seen = {1} /\ phase.receiverCodes = <<"OK">> /\ i = 2
    BY <1>1, <1>2, <1>7 DEF Guarded
  <2>2. CASE scenario.secondOffset = 0
    <3>1. phase.events[2].sequence - 1 = 1
      BY <1>5, <2>2
    <3>2. code = "OK"
      BY <1>3, <2>1, <3>1 DEF GuardCode
    <3>3. Append(<<"OK">>, code) = <<"OK", code>> /\ {1} \cup {2} = {1, 2}
      <4>1. PICK S : code \in S
        BY <3>2
      <4> QED
        BY <3>2, <4>1, AppendSecond
    <3>4. phase'.receiverCodes = <<"OK", "OK">> /\ phase'.seen = {1, 2}
      BY <1>4, <2>1, <3>2, <3>3
    <3> QED
      BY <2>2, <3>4 DEF Guarded
  <2>3. CASE scenario.secondOffset = -1
    <3>1. phase.events[2].sequence - 1 = 0
      BY <1>5, <2>3
    <3>2. code = "WEBHOOK_ORDERING_GAP"
      BY <1>3, <2>1, <3>1 DEF GuardCode
    <3>3. Append(<<"OK">>, code) = <<"OK", code>>
      <4>1. PICK S : S = {"OK", "WEBHOOK_ORDERING_GAP"}
        OBVIOUS
      <4>2. "OK" \in S /\ code \in S
        BY <3>2, <4>1
      <4> QED
        BY <4>2, AppendSecond
    <3>4. /\ phase'.receiverCodes = <<"OK", "WEBHOOK_ORDERING_GAP">>
          /\ phase'.last = 1 /\ phase'.seen = {1}
      BY <1>4, <2>1, <3>2, <3>3
    <3> QED
      BY <2>3, <3>4 DEF Guarded
  <2> QED
    BY <1>5, <2>2, <2>3
<1>8. k = 0 \/ k = 1 \/ k = 2
  BY <1>1 DEF Guarded
<1> QED
  BY <1>4, <1>6, <1>7, <1>8

LEMMA DeliveringVerify ==
    ASSUME RunInv, Fields, Delivering(scenario), DeliveringInv, Verify, UNCHANGED scenario
    PROVE  DeliveringInv'
<1>1. PICK i : i = phase.captured[Len(phase.receiverCodes) + 1]
  OBVIOUS
<1>2. /\ At("VERIFY") /\ drive'.pc = "VERIFY"
      /\ phase'.outcomes = phase.outcomes /\ phase'.captured = phase.captured
      /\ phase'.events = phase.events
  BY <1>1, VerifyFacts
<1>3. /\ Delivered /\ phase.events = EmittedEvents /\ Guarded
      /\ Len(phase.outcomes) = 2 /\ DOMAIN phase.outcomes = 1..2
      /\ Len(phase.captured) = 2
  BY <1>2 DEF DeliveringInv, At
<1>4. HandedOverInTurn
  BY <1>2, EmittingFacts DEF At, Emitting
<1>5. \A j \in 1..2 : phase.captured[j] = j
  <2>1. phase.captured \in Seq(Nat) /\ \A j \in DOMAIN phase.captured : phase.captured[j] = j
    BY <1>3, <1>4 DEF HandedOverInTurn
  <2> QED
    BY <1>3, <2>1
<1>6. Guarded'
  BY <1>3, <1>5, GuardedNext
<1>7. Delivered' /\ phase'.events = EmittedEvents'
  BY <1>2, <1>3, EmittedStays DEF Delivered
<1> QED
  BY <1>2, <1>3, <1>6, <1>7 DEF DeliveringInv, At

LEMMA DeliveringLook ==
    ASSUME RunInv, Fields, Delivering(scenario), DeliveringInv, ReceiverFaults,
           UNCHANGED scenario
    PROVE  DeliveringInv'
<1>1. PICK codes, some : codes = phase.receiverCodes /\ some = (phase.captured /= <<>>)
  OBVIOUS
<1>2. /\ At("VERIFY") /\ drive'.pc = "AGAIN" /\ Len(codes) = Len(phase.captured)
      /\ phase'.verified = (some /\ \A j \in DOMAIN codes : codes[j] = "OK")
      /\ phase'.receiverCode = IF some /\ scenario.tamperDelivery
                               THEN "WEBHOOK_SIGNATURE_INVALID"
                               ELSE IF some /\ Last(codes) /= "OK" THEN Last(codes) ELSE None
      /\ phase'.receiverCodes = IF some /\ scenario.tamperDelivery
                                THEN Append(codes, "WEBHOOK_SIGNATURE_INVALID") ELSE codes
      /\ phase'.rePresented = IF some /\ scenario.rePresent
                              THEN GuardCode(phase, Last(phase.captured)) ELSE None
      /\ phase'.outcomes = phase.outcomes /\ phase'.captured = phase.captured
      /\ phase'.events = phase.events
  BY <1>1, LookFacts
<1>3. /\ Delivered /\ phase.events = EmittedEvents /\ Guarded
      /\ Len(phase.outcomes) = 2 /\ DOMAIN phase.outcomes = 1..2
      /\ Len(phase.captured) = 2
  BY <1>2 DEF DeliveringInv, At
<1>4. some /\ Len(codes) = 2
  <2>1. Len(<<>>) = 0
    OBVIOUS
  <2>2. phase.captured /= <<>> /\ Len(codes) = 2
    BY <1>2, <1>3, <2>1
  <2> QED
    BY <1>1, <2>2
<1>5. IF scenario.secondOffset = 0
      THEN phase.seen = {1, 2} /\ codes = <<"OK", "OK">>
      ELSE codes = <<"OK", "WEBHOOK_ORDERING_GAP">>
  BY <1>1, <1>3, <1>4 DEF Guarded
<1>6. scenario.secondOffset \in {0, -1} /\ 0 /= -1
  BY DeliveringIs
<1>7. Last(phase.captured) = 2
  <2>1. HandedOverInTurn
    BY <1>2, EmittingFacts DEF At, Emitting
  <2>2. phase.captured \in Seq(Nat) /\ \A j \in DOMAIN phase.captured : phase.captured[j] = j
    BY <1>3, <2>1 DEF HandedOverInTurn
  <2> QED
    BY <1>3, <2>2 DEF Last
<1>8. CASE scenario.secondOffset = 0
  <2>1. codes = <<"OK", "OK">> /\ phase.seen = {1, 2}
    BY <1>5, <1>8
  <2>2. Last(codes) = "OK" /\ \A j \in DOMAIN codes : codes[j] = "OK"
    BY <2>1 DEF Last
  <2>3. GuardCode(phase, 2) = "WEBHOOK_NONCE_REPLAYED"
    BY <2>1 DEF GuardCode
  <2>4. /\ phase'.verified = TRUE
        /\ phase'.receiverCode = IF scenario.tamperDelivery THEN "WEBHOOK_SIGNATURE_INVALID" ELSE None
        /\ phase'.rePresented = IF scenario.rePresent THEN "WEBHOOK_NONCE_REPLAYED" ELSE None
        /\ ~scenario.tamperDelivery => phase'.receiverCodes = <<"OK", "OK">>
    BY <1>2, <1>4, <1>7, <2>1, <2>2, <2>3
  <2>5. Delivered' /\ phase'.events = EmittedEvents'
    BY <1>2, <1>3, EmittedStays DEF Delivered
  <2> QED
    BY <1>2, <1>3, <1>6, <1>8, <2>4, <2>5 DEF DeliveringInv, At
<1>9. CASE scenario.secondOffset = -1
  <2>1. codes = <<"OK", "WEBHOOK_ORDERING_GAP">>
    BY <1>5, <1>6, <1>9
  <2>2. Last(codes) = "WEBHOOK_ORDERING_GAP" /\ ~\A j \in DOMAIN codes : codes[j] = "OK"
    BY <2>1 DEF Last
  <2>3. /\ phase'.verified = FALSE
        /\ phase'.receiverCode = IF scenario.tamperDelivery THEN "WEBHOOK_SIGNATURE_INVALID"
                                 ELSE "WEBHOOK_ORDERING_GAP"
    BY <1>2, <1>4, <2>2
  <2>4. Delivered' /\ phase'.events = EmittedEvents'
    BY <1>2, <1>3, EmittedStays DEF Delivered
  <2> QED
    BY <1>2, <1>3, <1>6, <1>9, <2>3, <2>4 DEF DeliveringInv, At
<1> QED
  BY <1>6, <1>8, <1>9

LEMMA DeliveringClose ==
    ASSUME RunInv, Fields, Delivering(scenario), DeliveringInv,
           DeliverTwice \/ Reconcile \/ RecordSpan, UNCHANGED scenario
    PROVE  DeliveringInv'
<1>1. At("AGAIN") \/ At("RECONCILE") \/ At("SPAN")
  BY TwiceFacts, ReconcileFacts, SpanFacts
<1>2. ~Ambiguous /\ Delivered
  <2>1. phase.outcomes \in Seq(OutcomeCodes)
    BY <1>1, EmittingFacts DEF At, Emitting, HandedOverInTurn
  <2> QED
    BY <2>1, AmbiguousTells DEF DeliveringInv
<1>3. CASE DeliverTwice
  <2>1. phase' = phase /\ drive'.pc = "RECONCILE" /\ At("AGAIN")
    BY <1>3, TwiceFacts, DeliveringIs
  <2> QED
    BY <1>2, <2>1, EmittedStays DEF DeliveringInv, Delivered, At
<1>4. CASE Reconcile
  <2>1. phase' = phase /\ drive'.pc = "SPAN" /\ At("RECONCILE")
    BY <1>2, <1>4, ReconcileFacts
  <2> QED
    BY <1>2, <2>1 DEF DeliveringInv, Delivered, At
<1>5. CASE RecordSpan
  <2>1. {"outcomes", "captured", "verified", "receiverCode", "rePresented", "receiverCodes"}
            \subseteq DOMAIN Blank \ {"status", "reconciliationStatus"}
    BY BlankIs
  <2>2. /\ phase'.outcomes = phase.outcomes /\ phase'.captured = phase.captured
        /\ phase'.verified = phase.verified /\ phase'.receiverCode = phase.receiverCode
        /\ phase'.rePresented = phase.rePresented
        /\ phase'.receiverCodes = phase.receiverCodes
        /\ At("SPAN") /\ drive'.pc = "DONE" /\ phase'.status = "SUCCESS"
    BY <1>2, <1>5, <2>1, SpanFacts
  <2> QED
    BY <1>2, <2>2 DEF DeliveringInv, Delivered, At
<1> QED
  BY <1>3, <1>4, <1>5

LEMMA DeliveringPhase ==
    ASSUME RunInv, RunInv', Fields, HealthyInv, PhaseAction, Delivering(scenario),
           Opened => DeliveringInv
    PROVE  DeliveringInv'
<1>1. UNCHANGED scenario /\ (OpenPhase \/ Opened) /\ ~RefusePhase
  BY PhaseSteps, HealthyOpens
<1> QED
  BY <1>1, DeliveringOpen, DeliveringDeliver, DeliveringVerify, DeliveringLook, DeliveringClose
     DEF PhaseAction

-----------------------------------------------------------------------------
(* The webhook phase, whatever the kind *)

LEMMA EmissionsStay ==
    ASSUME UNCHANGED scenario
    PROVE  /\ Delivering(scenario)' <=> Delivering(scenario)
           /\ Exhausting(scenario)' <=> Exhausting(scenario)
           /\ Reconciling(scenario)' <=> Reconciling(scenario)
           /\ Unknown(scenario)' <=> Unknown(scenario)
<1>1. Healthy(scenario)' <=> Healthy(scenario)
  BY KindsStay
<1>2. Delivering(scenario)' <=> Delivering(scenario)
  BY <1>1 DEF Delivering, Emits
<1>3. Exhausting(scenario)' <=> Exhausting(scenario)
  BY <1>1 DEF Exhausting, Emits
<1>4. Reconciling(scenario)' <=> Reconciling(scenario)
  BY <1>1 DEF Reconciling, Emits
<1>5. Unknown(scenario)' <=> Unknown(scenario)
  BY <1>1 DEF Unknown
<1> QED
  BY <1>2, <1>3, <1>4, <1>5

(* The operation does not open the phase.                                  *)
LEMMA StillPresenting ==
    ASSUME Fields, Execute \/ Process \/ ExecuteSecond \/ ProcessSecond
    PROVE  ~Opened'
<1>1. drive'.pc \in Presenting
  <2>1. CASE Execute \/ ExecuteSecond
    <3>1. PICK r, e : ExecuteRequest(r, e)
      BY <2>1 DEF Execute, ExecuteSecond
    <3>2. PICK pc : pc = IF At("EXECUTE") THEN "PROCESS" ELSE "PROCESS_SECOND"
      OBVIOUS
    <3>3. drive' = [drive EXCEPT !.pc = pc, !.presented = r, !.expected = e]
      BY <3>1, <3>2 DEF ExecuteRequest
    <3>4. drive'.pc = pc
      BY <3>3, PresentsFields
    <3> QED
      BY <3>2, <3>4 DEF Presenting
  <2>2. CASE Process
    BY <2>2, ProcessFacts DEF Presenting
  <2>3. CASE ProcessSecond
    <3>1. PICK d : d = NoteProcessed
      OBVIOUS
    <3>2. drive' = AfterAttempt(d)
      BY <2>3, <3>1 DEF ProcessSecond
    <3>3. d = [f \in DriveFields |-> d[f]]
      BY <3>1, NotedFacts
    <3>4. drive'.pc \in {"EXECUTE", "PHASE"}
      BY <3>2, <3>3, AttemptFacts
    <3> QED
      BY <3>4 DEF Presenting
  <2> QED
    BY <2>1, <2>2, <2>3
<1> QED
  BY <1>1 DEF Opened, Presenting, Emitting

LEMMA PhaseInvStep ==
    ASSUME RunInv, RunInv', Fields, OperationInv, PhaseInv,
           Execute \/ Process \/ ExecuteSecond \/ ProcessSecond \/ PhaseAction
    PROVE  PhaseInv'
<1>1. CASE Execute \/ Process \/ ExecuteSecond \/ ProcessSecond
  BY <1>1, StillPresenting DEF PhaseInv
<1>2. CASE PhaseAction
  <2>1. UNCHANGED scenario
    BY <1>2, PhaseMoves DEF Moves
  <2>2. ASSUME Delivering(scenario) PROVE DeliveringInv'
    <3>1. HealthyInv /\ (Opened => DeliveringInv)
      BY <2>2 DEF Delivering, OperationInv, PhaseInv
    <3> QED
      BY <1>2, <2>2, <3>1, DeliveringPhase
  <2>3. ASSUME Exhausting(scenario) PROVE ExhaustingInv'
    <3>1. HealthyInv /\ (Opened => ExhaustingInv)
      BY <2>3 DEF Exhausting, OperationInv, PhaseInv
    <3> QED
      BY <1>2, <2>3, <3>1, ExhaustingPhase
  <2>4. ASSUME Reconciling(scenario) PROVE ReconcilingInv'
    <3>1. HealthyInv /\ (Opened => ReconcilingInv)
      BY <2>4 DEF Reconciling, OperationInv, PhaseInv
    <3> QED
      BY <1>2, <2>4, <3>1, ReconcilingPhase
  <2>5. ASSUME Unknown(scenario) PROVE phase'.views = EmittedEvents'
    <3>1. HealthyInv /\ (Opened => phase.views = EmittedEvents)
      BY <2>5 DEF Unknown, OperationInv, PhaseInv
    <3> QED
      BY <1>2, <3>1, UnknownPhase
  <2> QED
    BY <2>1, <2>2, <2>3, <2>4, <2>5, EmissionsStay DEF PhaseInv
<1> QED
  BY <1>1, <1>2

LEMMA PhaseInvIdle ==
    ASSUME PhaseInv, UNCHANGED vars
    PROVE  PhaseInv'
<1>1. UNCHANGED <<scenario, drive, phase>>
  BY DEF vars, platformVars, runnerVars
<1>2. EmittedEvents' = EmittedEvents
  BY <1>1, EmittedStays
<1>3. DeliveringInv => DeliveringInv'
  BY <1>1, <1>2 DEF DeliveringInv, Delivered, Guarded, At
<1>4. (ExhaustingInv => ExhaustingInv') /\ (ReconcilingInv => ReconcilingInv')
  BY <1>1, <1>2 DEF ExhaustingInv, ReconcilingInv, At
<1>5. Opened' <=> Opened
  BY <1>1 DEF Opened
<1> QED
  BY <1>1, <1>2, <1>3, <1>4, <1>5, EmissionsStay DEF PhaseInv

-----------------------------------------------------------------------------
(* What is true of every mode while it is driven *)

LEMMA VerdictInit == Init => VerdictInv
<1> SUFFICES ASSUME Init, ~At("FREE") PROVE Fields /\ Faithful /\ OperationInv /\ PhaseInv
  BY DEF VerdictInv
<1>1. mode /= None /\ drive.pc = "EXECUTE"
  BY DEF Init, At
<1>2. Faithful
  BY <1>1 DEF Init, Faithful
<1>3. PhaseInv
  BY <1>1 DEF PhaseInv, Opened, Emitting
<1> QED
  BY <1>2, <1>3, FieldsInit, OperationInit

LEMMA PhaseStarts ==
    ASSUME PhaseAction
    PROVE  ~At("FREE")
<1>1. PICK from, p, to :
          /\ from \in {"PHASE", "DELIVER", "VERIFY", "AGAIN", "RECONCILE", "SPAN"}
          /\ PhaseStep(from, p, to)
  BY DEF PhaseAction, OpenPhase, RefusePhase, Deliver, Verify, ReceiverFaults, DeliverTwice,
         Reconcile, RecordSpan
<1> QED
  BY <1>1 DEF PhaseStep, At

LEMMA VerdictStep == RunInv /\ RunInv' /\ VerdictInv /\ [Next]_vars => VerdictInv'
<1> SUFFICES ASSUME RunInv, RunInv', VerdictInv, [Next]_vars PROVE VerdictInv'
  OBVIOUS
<1>1. CASE Free
  BY <1>1 DEF Free, runnerVars, VerdictInv, At
<1>2. CASE Execute \/ Process \/ ExecuteSecond \/ ProcessSecond
  <2>1. ~At("FREE")
    BY <1>2 DEF Execute, Process, ExecuteSecond, ProcessSecond, At
  <2>2. Fields /\ Faithful /\ OperationInv /\ PhaseInv
    BY <2>1 DEF VerdictInv
  <2>3. Fields' /\ UNCHANGED <<scenario, mode>>
    BY <1>2, <2>2, DriveFieldsKept
  <2>4. Faithful'
    BY <2>2, <2>3 DEF Faithful
  <2> QED
    BY <1>2, <2>2, <2>3, <2>4, OperationStep, PhaseInvStep DEF VerdictInv
<1>3. CASE PhaseAction
  <2>1. Fields /\ Faithful /\ OperationInv /\ PhaseInv
    BY <1>3, PhaseStarts DEF VerdictInv
  <2>2. Fields' /\ UNCHANGED <<scenario, mode>>
    BY <1>3, <2>1, OpenFields, EmitFields, CloseFields DEF PhaseAction
  <2>3. Faithful'
    BY <2>1, <2>2 DEF Faithful
  <2> QED
    BY <1>3, <2>1, <2>2, <2>3, OperationStep, PhaseInvStep DEF VerdictInv
<1>4. CASE Done \/ UNCHANGED vars
  <2>1. UNCHANGED vars
    BY <1>4 DEF Done
  <2>2. UNCHANGED <<scenario, drive, phase, mode>>
    BY <2>1 DEF vars, platformVars, runnerVars
  <2>3. (Fields => Fields') /\ (Faithful => Faithful')
    BY <2>2 DEF Fields, Faithful
  <2>4. (OperationInv => OperationInv') /\ (PhaseInv => PhaseInv')
    BY <2>1, OperationIdle, PhaseInvIdle
  <2> QED
    BY <2>2, <2>3, <2>4 DEF VerdictInv, At
<1> QED
  BY <1>1, <1>2, <1>3, <1>4 DEF Next, PhaseAction

-----------------------------------------------------------------------------
(* The verdict on a mode that is done *)

LEMMA LastOne ==
    ASSUME NEW x, NEW s, s = <<x>>
    PROVE  s /= <<>> /\ LastOf(s) = x /\ \E i \in DOMAIN s : s[i] = x
<1>1. Len(s) = 1 /\ s[1] = x /\ 1 \in DOMAIN s
  OBVIOUS
<1>2. s /= <<>>
  BY <1>1
<1> QED
  BY <1>1, <1>2 DEF LastOf, Last

(* The first that is there.                                                *)
LEMMA FirstIs ==
    ASSUME NEW s, DOMAIN s \subseteq Nat, NEW k \in DOMAIN s, s[k] /= None,
           \A j \in DOMAIN s : j < k => s[j] = None
    PROVE  FirstOf(s) = s[k]
<1>1. PICK T : T = {i \in DOMAIN s : s[i] /= None}
  OBVIOUS
<1>2. T \subseteq Nat /\ k \in T /\ \A y \in T : k <= y
  BY <1>1
<1>3. Min(T) = k
  BY <1>2, MinIs
<1> QED
  BY <1>1, <1>2, <1>3 DEF FirstOf

LEMMA FirstOfThree ==
    ASSUME NEW a, NEW b, NEW c, NEW s, s = <<a, b, c>>
    PROVE  /\ a /= None => FirstOf(s) = a
           /\ a = None /\ b /= None => FirstOf(s) = b
           /\ a = None /\ b = None /\ c /= None => FirstOf(s) = c
<1>1. DOMAIN s = 1..3 /\ s[1] = a /\ s[2] = b /\ s[3] = c
  OBVIOUS
<1>2. DOMAIN s \subseteq Nat /\ 1 \in DOMAIN s /\ 2 \in DOMAIN s /\ 3 \in DOMAIN s
  BY <1>1
<1>3. a /= None => FirstOf(s) = s[1]
  BY <1>1, <1>2, FirstIs
<1>4. a = None /\ b /= None => FirstOf(s) = s[2]
  BY <1>1, <1>2, FirstIs
<1>5. a = None /\ b = None /\ c /= None => FirstOf(s) = s[3]
  BY <1>1, <1>2, FirstIs
<1> QED
  BY <1>1, <1>3, <1>4, <1>5

LEMMA FirstOfTwo ==
    ASSUME NEW a, a /= None, NEW b, NEW s, s = <<a, b>>
    PROVE  FirstOf(s) = a
<1>1. DOMAIN s = 1..2 /\ s[1] = a /\ s[2] = b
  OBVIOUS
<1>2. DOMAIN s \subseteq Nat /\ 1 \in DOMAIN s
  BY <1>1
<1>3. FirstOf(s) = s[1]
  BY <1>1, <1>2, FirstIs
<1> QED
  BY <1>1, <1>3

(* A code on any surface is observed.                                      *)
LEMMA Observes ==
    ASSUME NEW c, c /= None,
           \/ \E i \in DOMAIN drive.operationCodes : drive.operationCodes[i] = c
           \/ \E i \in DOMAIN drive.receiptReasons : drive.receiptReasons[i] = c
           \/ \E i \in DOMAIN drive.plans : drive.plans[i] = c
           \/ lastDecision /= None /\ lastDecision.code = c
           \/ phase.outcomes /= <<>> /\ Last(phase.outcomes) = c
           \/ c \in {phase.receiverCode, phase.rePresented, phase.status,
                     phase.reconciliationStatus}
           \/ \E i \in DOMAIN phase.receiverCodes : phase.receiverCodes[i] = c
           \/ \E i \in DOMAIN phase.views : phase.views[i].type = c
           \/ c \in reasonCodes
    PROVE  c \in ObservedCodes
<1>1. CASE lastDecision /= None /\ lastDecision.code = c
  <2>1. c \in {d.code : d \in {lastDecision} \ {None}}
    BY <1>1
  <2> QED
    BY <2>1 DEF ObservedCodes
<1>2. CASE phase.outcomes /= <<>> /\ Last(phase.outcomes) = c
  <2>1. c \in (IF phase.outcomes = <<>> THEN {} ELSE {Last(phase.outcomes)})
    BY <1>2
  <2> QED
    BY <2>1 DEF ObservedCodes
<1>3. CASE \E i \in DOMAIN phase.views : phase.views[i].type = c
  <2>1. c \in {v.type : v \in Elements(phase.views)}
    BY <1>3 DEF Elements
  <2> QED
    BY <2>1 DEF ObservedCodes
<1>4. CASE \/ \E i \in DOMAIN drive.operationCodes : drive.operationCodes[i] = c
           \/ \E i \in DOMAIN drive.receiptReasons : drive.receiptReasons[i] = c
           \/ \E i \in DOMAIN drive.plans : drive.plans[i] = c
           \/ \E i \in DOMAIN phase.receiverCodes : phase.receiverCodes[i] = c
  <2>1. \/ c \in Elements(drive.operationCodes) \/ c \in Elements(drive.receiptReasons)
        \/ c \in Elements(drive.plans) \/ c \in Elements(phase.receiverCodes)
    BY <1>4 DEF Elements
  <2> QED
    BY <2>1 DEF ObservedCodes
<1>5. CASE c \in {phase.receiverCode, phase.rePresented, phase.status,
                  phase.reconciliationStatus}
  BY <1>5 DEF ObservedCodes
<1>6. CASE c \in reasonCodes
  BY <1>6 DEF ObservedCodes
<1> QED
  BY <1>1, <1>2, <1>3, <1>4, <1>5, <1>6

(* What passes a mode that is not the control.                             *)
Shows(code) ==
    /\ code \in ObservedCodes /\ mode.surface /= "CONTROL"
    /\ PrimaryObservation = mode.expectedCode /\ mode.expectedCode = code

LEMMA ShowsPasses ==
    ASSUME NEW code, Shows(code)
    PROVE  Passed /\ PrimaryObservation = mode.expectedCode
  BY DEF Shows, Passed

LEMMA PlanShows ==
    ASSUME NEW code \in Texts, mode.surface = "PLAN", mode.expectedCode = code,
           LastOf(drive.plans) = code, \E i \in DOMAIN drive.plans : drive.plans[i] = code
    PROVE  Shows(code)
<1>1. code /= None
  BY CatalogAssumption
<1>2. code \in ObservedCodes
  BY <1>1, Observes
<1> QED
  BY <1>2 DEF Shows, PrimaryObservation

LEMMA ResponseShows ==
    ASSUME NEW code \in Texts, mode.surface = "PLATFORM_RESPONSE", mode.expectedCode = code,
           lastDecision /= None, lastDecision.code = code
    PROVE  Shows(code)
<1>1. code /= None
  BY CatalogAssumption
<1>2. code \in ObservedCodes
  BY <1>1, Observes
<1> QED
  BY <1>2 DEF Shows, PrimaryObservation

LEMMA StoppedShows ==
    ASSUME StoppedInv, At("DONE"), StoppedMode(mode), scenario = mode.scenario
    PROVE  \E code : Shows(code)
<1>1. PICK code : code = StopCode(scenario)
  OBVIOUS
<1>2. code \in StopTexts /\ code \in Texts
  BY <1>1, CodesOfChain DEF StoppedMode, Stopped
<1>3. CASE mode.surface = "PLATFORM_RESPONSE"
  <2>1. mode.expectedCode = code
    BY <1>1, <1>3 DEF StoppedMode
  <2>2. lastDecision /= None /\ lastDecision.code = code
    BY <1>1 DEF StoppedInv, At
  <2> QED
    BY <1>2, <1>3, <2>1, <2>2, ResponseShows
<1>4. CASE mode.surface = "PLAN"
  <2>1. mode.expectedCode = "TERMINAL" /\ code \in SignatureCodes
    BY <1>1, <1>4 DEF StoppedMode
  <2>2. PlanRetry(code, 1) = "TERMINAL"
    BY <2>1 DEF PlanRetry, SignatureCodes, AmbiguousCodes, CleanRetryable
  <2>3. drive.plans = <<"TERMINAL">>
    BY <1>1, <2>2 DEF StoppedInv
  <2>4. PICK plan : plan = "TERMINAL" /\ plan \in Texts /\ drive.plans = <<plan>>
    BY <2>3 DEF Texts
  <2>5. LastOf(drive.plans) = plan /\ \E i \in DOMAIN drive.plans : drive.plans[i] = plan
    BY <2>4, LastOne
  <2>6. Shows(plan)
    BY <1>4, <2>1, <2>4, <2>5, PlanShows
  <2> QED
    BY <2>6
<1> QED
  BY <1>3, <1>4 DEF StoppedMode

LEMMA AnsweredShows ==
    ASSUME HealthyInv, At("DONE"), AnsweredMode(mode), scenario = mode.scenario
    PROVE  \E code : Shows(code)
<1>1. CASE mode.surface = "PLATFORM_RESPONSE"
  <2>1. /\ scenario.second \in {"REPLAY", "DUPLICATE", "CONFLICT"}
        /\ mode.expectedCode = SecondCode(scenario.second)
    BY <1>1 DEF AnsweredMode
  <2>2. SecondCode(scenario.second) \in Texts
    BY <2>1 DEF SecondCode, Texts
  <2>3. lastDecision /= None /\ lastDecision.code = SecondCode(scenario.second)
    BY <2>1 DEF HealthyInv, At
  <2> QED
    BY <1>1, <2>1, <2>2, <2>3, ResponseShows
<1>2. CASE mode.surface \in {"RECEIPT", "PLAN"}
  <2>1. /\ scenario.second = "NONE" /\ scenario.receiptFault \in ReceiptFaults \ {"NONE"}
        /\ mode.expectedCode = IF mode.surface = "RECEIPT" THEN FaultReason(scenario.receiptFault)
                               ELSE "AMBIGUOUS_RECONCILE"
    BY <1>2 DEF AnsweredMode
  <2>2. /\ drive.receiptReasons = <<FaultReason(scenario.receiptFault)>>
        /\ drive.plans = <<"AMBIGUOUS_RECONCILE">>
    BY <2>1 DEF HealthyInv, At
  <2>3. CASE mode.surface = "RECEIPT"
    <3>1. PICK code \in Texts : code = FaultReason(scenario.receiptFault)
      BY <2>1 DEF FaultReason, Texts, ReceiptFaults
    <3>2. /\ LastOf(drive.receiptReasons) = code
          /\ \E i \in DOMAIN drive.receiptReasons : drive.receiptReasons[i] = code
      BY <2>2, <3>1, LastOne
    <3>3. code \in ObservedCodes
      BY <3>2, Observes, CatalogAssumption
    <3> QED
      BY <2>1, <2>3, <3>1, <3>2, <3>3 DEF Shows, PrimaryObservation
  <2>4. CASE mode.surface = "PLAN"
    <3>1. PICK plan : plan = "AMBIGUOUS_RECONCILE" /\ plan \in Texts /\ drive.plans = <<plan>>
      BY <2>2 DEF Texts
    <3>2. LastOf(drive.plans) = plan /\ \E i \in DOMAIN drive.plans : drive.plans[i] = plan
      BY <3>1, LastOne
    <3>3. Shows(plan)
      BY <2>1, <2>4, <3>1, <3>2, PlanShows
    <3> QED
      BY <3>3
  <2> QED
    BY <1>2, <2>3, <2>4
<1> QED
  BY <1>1, <1>2 DEF AnsweredMode

-----------------------------------------------------------------------------
LEMMA RetriedShows ==
    ASSUME /\ FailsOnce(scenario) => FailsOnceInv
           /\ Unavailable(scenario) => UnavailableInv
           /\ Tripping(scenario) => TrippingInv,
           At("DONE"), RetriedMode(mode), scenario = mode.scenario
    PROVE  \E code : Shows(code)
<1>1. CASE FailsOnce(scenario) /\ mode.surface = "PLAN" /\ mode.expectedCode = "CLEAN_RETRY"
  <2>1. drive.plans = <<"CLEAN_RETRY">>
    BY <1>1 DEF FailsOnceInv, At
  <2>2. PICK plan : plan = "CLEAN_RETRY" /\ plan \in Texts /\ drive.plans = <<plan>>
    BY <2>1 DEF Texts
  <2>3. LastOf(drive.plans) = plan /\ \E i \in DOMAIN drive.plans : drive.plans[i] = plan
    BY <2>2, LastOne
  <2>4. Shows(plan)
    BY <1>1, <2>2, <2>3, PlanShows
  <2> QED
    BY <2>4
<1>2. CASE Unavailable(scenario) /\ mode.surface = "PLAN" /\ mode.expectedCode = "EXHAUSTED"
  <2>1. /\ drive.attempt = 6 /\ drive.plans \in Seq(PlanCodes) /\ drive.plans /= <<>>
        /\ Last(drive.plans) = PlanRetry("DOWNSTREAM_UNAVAILABLE", drive.attempt - 1)
    BY <1>2 DEF UnavailableInv, At
  <2>2. MaxAttempts \in 2..5 /\ drive.attempt - 1 = 5
    BY <2>1, CatalogAssumption
  <2>3. PlanRetry("DOWNSTREAM_UNAVAILABLE", 5) = "EXHAUSTED"
    BY <2>2 DEF PlanRetry, AmbiguousCodes, CleanRetryable
  <2>4. PICK plan : plan = "EXHAUSTED" /\ plan \in Texts /\ Last(drive.plans) = plan
    BY <2>1, <2>2, <2>3 DEF Texts
  <2>5. Len(drive.plans) \in DOMAIN drive.plans
    BY <2>1
  <2>6. LastOf(drive.plans) = plan /\ \E i \in DOMAIN drive.plans : drive.plans[i] = plan
    BY <2>1, <2>4, <2>5 DEF LastOf, Last
  <2>7. Shows(plan)
    BY <1>2, <2>4, <2>6, PlanShows
  <2> QED
    BY <2>7
<1>3. CASE Tripping(scenario) /\ mode.surface = "CIRCUIT" /\ mode.expectedCode = "CIRCUIT_OPEN"
  <2>1. \E i \in DOMAIN drive.operationCodes : drive.operationCodes[i] = "CIRCUIT_OPEN"
    BY <1>3 DEF TrippingInv, At
  <2>2. PICK code \in Texts : code = "CIRCUIT_OPEN"
    BY DEF Texts
  <2>3. code \in ObservedCodes
    BY <2>1, <2>2, Observes, CatalogAssumption
  <2>4. "CIRCUIT_OPEN" \in Elements(drive.operationCodes)
    BY <2>1 DEF Elements
  <2> QED
    BY <1>3, <2>2, <2>3, <2>4 DEF Shows, PrimaryObservation
<1> QED
  BY <1>1, <1>2, <1>3 DEF RetriedMode

(* Everything that the control has to show.                                *)
LEMMA ControlShows ==
    ASSUME HealthyInv, DeliveringInv, At("DONE"), Delivering(scenario),
           scenario.secondOffset = 0, scenario.receiptFault = "NONE"
    PROVE  ControlCompleted
<1>1. scenario.second = "NONE"
  BY DEF Delivering
<1>2. drive.anyProcessedOk /\ drive.receiptReasons = <<>>
  BY <1>1 DEF HealthyInv, At
<1>3. "OPERATION_COMPLETED" \in reasonCodes
  BY DEF HealthyInv, At
<1>4. /\ Delivered /\ Len(phase.outcomes) = 2 /\ DOMAIN phase.outcomes = 1..2
      /\ phase.verified /\ phase.status = "SUCCESS"
  BY DEF DeliveringInv, At
<1>5. phase.outcomes /= <<>> /\ Last(phase.outcomes) = "DELIVERED"
  BY <1>4 DEF Delivered, Last
<1> QED
  BY <1>2, <1>3, <1>4, <1>5 DEF ControlCompleted

(* What the receiver reports is the first of its three fields.             *)
LEMMA ReceiverIs ==
    ASSUME DeliveringInv, At("DONE"), Delivering(scenario), mode.surface = "RECEIVER",
           mode.expectedCode = ReceiverShows(scenario)
    PROVE  \E code : Shows(code)
<1>1. None \notin Texts
  BY CatalogAssumption
<1>2. PICK code \in Texts : code = ReceiverShows(scenario)
  BY DEF ReceiverShows, Texts
<1>3. PICK seen : seen = <<phase.receiverCode, phase.rePresented, LastOf(phase.receiverCodes)>>
  OBVIOUS
<1>4. PrimaryObservation = FirstOf(seen)
  BY <1>3 DEF PrimaryObservation
<1>5. /\ scenario.secondOffset \in {0, -1} /\ 0 /= -1
      /\ phase.receiverCode = IF scenario.tamperDelivery THEN "WEBHOOK_SIGNATURE_INVALID"
                              ELSE IF scenario.secondOffset = -1 THEN "WEBHOOK_ORDERING_GAP"
                              ELSE None
      /\ scenario.secondOffset = 0 =>
            phase.rePresented = IF scenario.rePresent THEN "WEBHOOK_NONCE_REPLAYED" ELSE None
      /\ ~scenario.tamperDelivery /\ scenario.secondOffset = 0 =>
            phase.receiverCodes = <<"OK", "OK">>
  BY DeliveringIs DEF DeliveringInv, At
<1>6. CASE scenario.tamperDelivery \/ scenario.secondOffset = -1
  <2>1. phase.receiverCode = code
    BY <1>2, <1>5, <1>6 DEF ReceiverShows
  <2>2. FirstOf(seen) = code
    BY <1>1, <1>3, <2>1, FirstOfThree
  <2>3. code \in ObservedCodes
    BY <1>1, <2>1, Observes
  <2> QED
    BY <1>2, <1>4, <2>2, <2>3 DEF Shows
<1>7. CASE ~scenario.tamperDelivery /\ scenario.secondOffset = 0 /\ scenario.rePresent
  <2>1. phase.receiverCode = None /\ phase.rePresented = code
    BY <1>2, <1>5, <1>7 DEF ReceiverShows
  <2>2. FirstOf(seen) = code
    BY <1>1, <1>3, <2>1, FirstOfThree
  <2>3. code \in ObservedCodes
    BY <1>1, <2>1, Observes
  <2> QED
    BY <1>2, <1>4, <2>2, <2>3 DEF Shows
<1>8. CASE ~scenario.tamperDelivery /\ scenario.secondOffset = 0 /\ ~scenario.rePresent
  <2>1. phase.receiverCode = None /\ phase.rePresented = None /\ code = "OK"
    BY <1>2, <1>5, <1>8 DEF ReceiverShows
  <2>2. PICK s : s = phase.receiverCodes /\ s = <<"OK", "OK">>
    BY <1>5, <1>8
  <2>3. s /= <<>> /\ Last(s) = "OK" /\ \E i \in DOMAIN s : s[i] = "OK"
    <3>1. Len(s) = 2 /\ s[2] = "OK" /\ 2 \in DOMAIN s
      BY <2>2
    <3>2. Len(<<>>) /= Len(s)
      BY <3>1
    <3>3. s /= <<>>
      BY <3>2, Zenon
    <3>4. Last(s) = "OK"
      BY <3>1 DEF Last
    <3> QED
      BY <3>1, <3>3, <3>4
  <2>4. LastOf(phase.receiverCodes) = code
    BY <2>1, <2>2, <2>3 DEF LastOf
  <2>5. FirstOf(seen) = code
    BY <1>1, <1>3, <2>1, <2>4, FirstOfThree
  <2>6. code \in ObservedCodes
    BY <1>1, <2>1, <2>2, <2>3, Observes
  <2> QED
    BY <1>2, <1>4, <2>5, <2>6 DEF Shows
<1> QED
  BY <1>5, <1>6, <1>7, <1>8

LEMMA EmitShows ==
    ASSUME phase.views = EmittedEvents, Unknown(scenario), mode.surface = "EMIT",
           mode.expectedCode = "WEBHOOK_EVENT_TYPE_UNKNOWN"
    PROVE  \E code : Shows(code)
<1>1. PICK n \in Nat : n = 2 /\ scenario.emitEventCount = n
  BY DEF Unknown
<1>2. PICK code \in Texts : code = "WEBHOOK_EVENT_TYPE_UNKNOWN"
  BY DEF Texts
<1>3. ~KnownType
  BY DEF Unknown, KnownType
<1>4. PICK views : views = phase.views
  OBVIOUS
<1>5. /\ Len(EmittedEvents) = n /\ DOMAIN EmittedEvents = 1..n
      /\ \A i \in 1..n : EmittedEvents[i].type = "WEBHOOK_EVENT_TYPE_UNKNOWN"
  BY <1>1, <1>3, EmittedAre
<1>6. Len(views) = 2 /\ DOMAIN views = 1..2 /\ views[2].type = code
  BY <1>1, <1>2, <1>4, <1>5
<1>7. views /= <<>> /\ Last(views).type = code /\ \E i \in DOMAIN views : views[i].type = code
  BY <1>6 DEF Last
<1>8. code \in ObservedCodes
  BY <1>4, <1>7, Observes, CatalogAssumption
<1> QED
  BY <1>2, <1>4, <1>7, <1>8 DEF Shows, PrimaryObservation

LEMMA DeliveryShows ==
    ASSUME ExhaustingInv, At("DONE"), mode.surface = "DELIVERY",
           mode.expectedCode = "RETRY_EXHAUSTED"
    PROVE  \E code : Shows(code)
<1>1. PICK code : code = "RETRY_EXHAUSTED" /\ code \in Texts /\ phase.outcomes = <<code>>
  BY DEF ExhaustingInv, At, Texts
<1>2. phase.outcomes /= <<>> /\ LastOf(phase.outcomes) = code
  BY <1>1, LastOne
<1>3. Last(phase.outcomes) = code
  BY <1>2 DEF LastOf
<1>4. code \in ObservedCodes
  BY <1>1, <1>2, <1>3, Observes, CatalogAssumption
<1> QED
  BY <1>1, <1>2, <1>4 DEF Shows, PrimaryObservation

LEMMA SpanShows ==
    ASSUME ReconcilingInv, At("DONE"), mode.surface = "SPAN",
           mode.expectedCode = IF scenario.reconcile = "RESOLVE" THEN "RESOLVED"
                               ELSE "REQUIRED_UNRESOLVED"
    PROVE  \E code : Shows(code)
<1>1. PICK code \in Texts : code = IF scenario.reconcile = "RESOLVE" THEN "RESOLVED"
                                   ELSE "REQUIRED_UNRESOLVED"
  BY DEF Texts
<1>2. phase.reconciliationStatus = code /\ code /= None
  BY <1>1, CatalogAssumption DEF ReconcilingInv, At
<1>3. PICK seen : seen = <<phase.reconciliationStatus, phase.status>>
  OBVIOUS
<1>4. FirstOf(seen) = code
  BY <1>2, <1>3, FirstOfTwo
<1>5. code \in ObservedCodes
  BY <1>2, Observes
<1> QED
  BY <1>1, <1>3, <1>4, <1>5 DEF Shows, PrimaryObservation

LEMMA VerdictTells == VerdictInv => CatalogPasses
<1> SUFFICES ASSUME VerdictInv, At("DONE"), mode \in Matrix
             PROVE  Passed /\ PrimaryObservation = mode.expectedCode
  BY DEF CatalogPasses
<1>1. /\ scenario = mode.scenario /\ OperationInv /\ PhaseInv /\ Opened
  BY DEF VerdictInv, Faithful, At, Opened
<1>2. Sorted(mode)
  BY CatalogSorted
<1>3. CASE StoppedMode(mode)
  <2>1. StoppedInv
    BY <1>1, <1>3 DEF StoppedMode, OperationInv
  <2> QED
    BY <1>1, <1>3, <2>1, StoppedShows, ShowsPasses
<1>4. CASE AnsweredMode(mode)
  <2>1. HealthyInv
    BY <1>1, <1>4 DEF AnsweredMode, OperationInv
  <2> QED
    BY <1>1, <1>4, <2>1, AnsweredShows, ShowsPasses
<1>5. CASE RetriedMode(mode)
  BY <1>1, <1>5, RetriedShows, ShowsPasses DEF OperationInv
<1>6. CASE WebhookMode(mode)
  <2>1. CASE /\ Delivering(scenario) /\ mode.surface = "CONTROL"
             /\ mode.expectedCode = "OPERATION_COMPLETED"
             /\ scenario.secondOffset = 0 /\ scenario.receiptFault = "NONE"
    <3>1. HealthyInv /\ DeliveringInv
      BY <1>1, <2>1 DEF OperationInv, PhaseInv, Delivering
    <3>2. ControlCompleted
      BY <2>1, <3>1, ControlShows
    <3>3. PrimaryObservation = mode.expectedCode
      BY <2>1, <3>2 DEF PrimaryObservation
    <3>4. PICK code \in Texts : code = "OPERATION_COMPLETED"
      BY DEF Texts
    <3>5. code \in reasonCodes
      BY <3>2, <3>4 DEF ControlCompleted
    <3>6. mode.expectedCode \in ObservedCodes
      BY <2>1, <3>4, <3>5, Observes, CatalogAssumption
    <3> QED
      BY <3>2, <3>3, <3>6 DEF Passed
  <2>2. CASE /\ Delivering(scenario) /\ mode.surface = "RECEIVER"
             /\ mode.expectedCode = ReceiverShows(scenario)
    <3>1. DeliveringInv
      BY <1>1, <2>2 DEF PhaseInv
    <3> QED
      BY <2>2, <3>1, ReceiverIs, ShowsPasses
  <2>3. CASE /\ Unknown(scenario) /\ mode.surface = "EMIT"
             /\ mode.expectedCode = "WEBHOOK_EVENT_TYPE_UNKNOWN"
    <3>1. phase.views = EmittedEvents
      BY <1>1, <2>3 DEF PhaseInv
    <3> QED
      BY <2>3, <3>1, EmitShows, ShowsPasses
  <2>4. CASE /\ Exhausting(scenario) /\ mode.surface = "DELIVERY"
             /\ mode.expectedCode = "RETRY_EXHAUSTED"
    <3>1. ExhaustingInv
      BY <1>1, <2>4 DEF PhaseInv
    <3> QED
      BY <2>4, <3>1, DeliveryShows, ShowsPasses
  <2>5. CASE /\ Reconciling(scenario) /\ mode.surface = "SPAN"
             /\ mode.expectedCode = IF scenario.reconcile = "RESOLVE" THEN "RESOLVED"
                                    ELSE "REQUIRED_UNRESOLVED"
    <3>1. ReconcilingInv
      BY <1>1, <2>5 DEF PhaseInv
    <3> QED
      BY <2>5, <3>1, SpanShows, ShowsPasses
  <2> QED
    BY <1>1, <1>6, <2>1, <2>2, <2>3, <2>4, <2>5 DEF WebhookMode
<1> QED
  BY <1>2, <1>3, <1>4, <1>5, <1>6 DEF Sorted

(* While a mode is driven, the kind of its scenario tells what the         *)
(* platform has answered so far, what the partner has made of it, and how  *)
(* far the webhook phase has come.                                         *)
THEOREM VerdictInvariance == Spec => []VerdictInv
<1>1. Init => VerdictInv
  BY VerdictInit
<1>2. RunInv /\ RunInv' /\ VerdictInv /\ [Next]_vars => VerdictInv'
  BY VerdictStep
<1> QED
  BY <1>1, <1>2, RunInvariance, PTL DEF Spec

(* CatalogPasses: every failure mode of the catalog, of every simulator,   *)
(* ends with the code its contract expects on the surface it declares, and *)
(* every control completes (evidenceForScenario); for every skew below the *)
(* injected drift, window, lifetime of a record and schedule of two to     *)
(* five attempts.                                                          *)
THEOREM CatalogHolds == Spec => []CatalogPasses
  BY VerdictTells, VerdictInvariance, PTL
=============================================================================
