------------------------ MODULE WebhookDelivery_proofs ------------------------
(***************************************************************************)
(* Proofs about webhook delivery, for any events, streams, clocks, windows *)
(* of at least two skews, schedules and numbers of calls: the types, the   *)
(* truth of the outcomes, the life of a nonce, the gapless stream and the  *)
(* finality of a gap.                                                      *)
(***************************************************************************)
EXTENDS WebhookDelivery, TLAPS

USE EventsAssumption, ClockAssumption, LimitsAssumption

-----------------------------------------------------------------------------
(* Messages and calls *)

(* A call is for an event, and a message belongs to a call. *)
LEMMA CallsAre == \A c \in Calls : c[1] \in Events
  BY DEF Calls

LEMMA MessagesAre ==
    /\ \A m \in Messages : m[1] \in Calls /\ EventOf(m) \in Events
    /\ \A c \in Calls : attempt \in Attempts =>
          Message(c) \in Messages /\ Message(c)[1] = c /\ EventOf(Message(c)) = c[1]
  BY CallsAre DEF Messages, EventOf, Message

LEMMA EventNumbers ==
    \A e \in Events :
        /\ StreamOf[e] \in Streams
        /\ SequenceOf[e] \in SequenceNumbers
        /\ SequenceOf[e] \in Nat /\ SequenceOf[e] /= 0
  BY DEF SequenceNumbers

-----------------------------------------------------------------------------
(* The inductive invariant *)

(* One call is under way at a time, for an event that was built, with an   *)
(* attempt that has sent nothing yet; what left belongs to built events.   *)
CallInv ==
    /\ \A c, d \in Calls : result[c] = "SENDING" /\ result[d] = "SENDING" => c = d
    /\ \A c \in Calls : result[c] = "SENDING" => attempt \in Attempts /\ c[1] \in emitted
    /\ \A c \in Calls : result[c] \in {"NOT_MADE", "SENDING"} => SentBy(c) = {}
    /\ taken \subseteq wire
    /\ \A m \in wire : EventOf(m) \in emitted

(* A nonce that was taken is at most as old as its envelope seen from the  *)
(* far end of the skew, and it is dropped only after the window.           *)
NonceInv ==
    \A m \in taken :
        /\ age[EventOf(m)] <= Skew => nonceAge[m] <= age[EventOf(m)] + Skew
        /\ nonceAge[m] <= Window => m \in seenNonces

(* The guard's last number is the last one applied. *)
StreamInv ==
    \A s \in Streams :
        /\ applied[s] = <<>> <=> last[s] = 0
        /\ applied[s] /= <<>> => last[s] = applied[s][Len(applied[s])]

IInv == TypeOK /\ CallInv /\ NonceInv /\ OutcomesTrue /\ StreamInv

-----------------------------------------------------------------------------
(* The steps, sorted by what they touch *)

(* A step of the guard: it lets one message pass, or only prunes. *)
GuardStep(m) == Accept(m) \/ Refuse(m)

LEMMA RememberedSeen == Remembered \subseteq seenNonces
  BY DEF Remembered

(* Whatever the guard does with a message, its state stays well typed. *)
LEMMA GuardTypes ==
    ASSUME TypeOK, NEW m \in Messages, GuardStep(m)
    PROVE  /\ seenNonces' \subseteq Messages
           /\ seenEventIds' \subseteq Events
           /\ last' \in [Streams -> SequenceNumbers \cup {0}]
           /\ nonceAge' \in [Messages -> 0..(Window + 1)]
           /\ taken' \subseteq Messages
           /\ applied' \in [Streams -> Seq(SequenceNumbers)]
<1> DEFINE e == EventOf(m)
<1>1. e \in Events /\ StreamOf[e] \in Streams /\ SequenceOf[e] \in SequenceNumbers
  BY MessagesAre, EventNumbers
<1>2. CASE Accept(m)
  <2>1. Append(applied[StreamOf[e]], SequenceOf[e]) \in Seq(SequenceNumbers)
    BY <1>1 DEF TypeOK
  <2>2. applied' \in [Streams -> Seq(SequenceNumbers)]
    BY <1>1, <1>2, <2>1 DEF TypeOK, Accept
  <2>3. seenNonces' \subseteq Messages /\ taken' \subseteq Messages /\ seenEventIds' \subseteq Events
    BY <1>1, <1>2, RememberedSeen DEF TypeOK, Accept
  <2>4. last' \in [Streams -> SequenceNumbers \cup {0}]
    BY <1>1, <1>2 DEF TypeOK, Accept
  <2>5. nonceAge' \in [Messages -> 0..(Window + 1)]
    BY <1>2 DEF TypeOK, Accept
  <2> QED
    BY <2>2, <2>3, <2>4, <2>5
<1>3. CASE Refuse(m)
  BY <1>3, RememberedSeen DEF TypeOK, Refuse
<1> QED
  BY <1>2, <1>3 DEF GuardStep

(* A step of the guard keeps what it says of the nonces it took. *)
LEMMA GuardNonces ==
    ASSUME TypeOK, NonceInv, NEW m \in Messages, GuardStep(m), UNCHANGED age
    PROVE  NonceInv'
<1>1. EventOf(m) \in Events
  BY MessagesAre
<1>2. CASE Accept(m)
  <2> SUFFICES ASSUME NEW n \in taken'
               PROVE  /\ age[EventOf(n)] <= Skew => nonceAge'[n] <= age[EventOf(n)] + Skew
                      /\ nonceAge'[n] <= Window => n \in seenNonces'
    BY DEF NonceInv
  <2>1. CASE n = m
    <3>1. age[EventOf(m)] \in Int /\ age[EventOf(m)] >= -Skew
      BY <1>1, <1>2 DEF Accept, Accepted, Timely, TypeOK, Ages
    <3>2. nonceAge'[m] = 0 /\ m \in seenNonces'
      BY <1>2 DEF Accept, TypeOK
    <3> QED
      BY <2>1, <3>1, <3>2
  <2>2. CASE n /= m
    <3>1. n \in taken /\ n \in Messages /\ nonceAge'[n] = nonceAge[n]
      BY <1>2, <2>2 DEF Accept, TypeOK
    <3>2. nonceAge[n] <= Window => n \in Remembered
      BY <3>1 DEF NonceInv, Remembered
    <3> QED
      BY <1>2, <3>1, <3>2 DEF NonceInv, Accept
  <2> QED
    BY <2>1, <2>2
<1>3. CASE Refuse(m)
  <2>1. \A n \in taken : nonceAge[n] <= Window => n \in seenNonces'
    BY <1>3 DEF Refuse, NonceInv, Remembered
  <2> QED
    BY <1>3, <2>1 DEF Refuse, NonceInv
<1> QED
  BY <1>2, <1>3 DEF GuardStep

(* A step of the guard keeps its last numbers and the stream together. *)
LEMMA GuardStream ==
    ASSUME TypeOK, StreamInv, NEW m \in Messages, GuardStep(m)
    PROVE  StreamInv'
<1> DEFINE e == EventOf(m)
           t == StreamOf[e]
<1>1. e \in Events /\ t \in Streams /\ SequenceOf[e] \in Nat /\ SequenceOf[e] /= 0
  BY MessagesAre, EventNumbers
<1>2. CASE Accept(m)
  <2> SUFFICES ASSUME NEW s \in Streams
               PROVE  /\ applied'[s] = <<>> <=> last'[s] = 0
                      /\ applied'[s] /= <<>> => last'[s] = applied'[s][Len(applied'[s])]
    BY DEF StreamInv
  <2>1. CASE s = t
    <3>1. applied'[t] = Append(applied[t], SequenceOf[e]) /\ last'[t] = SequenceOf[e]
      BY <1>1, <1>2 DEF Accept, TypeOK
    <3>2. applied[t] \in Seq(SequenceNumbers) /\ SequenceOf[e] \in SequenceNumbers
      BY <1>1, EventNumbers DEF TypeOK
    <3>3. /\ Append(applied[t], SequenceOf[e]) /= <<>>
          /\ Len(Append(applied[t], SequenceOf[e])) = Len(applied[t]) + 1
          /\ Append(applied[t], SequenceOf[e])[Len(applied[t]) + 1] = SequenceOf[e]
      BY <3>2
    <3> QED
      BY <1>1, <2>1, <3>1, <3>3
  <2>2. CASE s /= t
    BY <1>1, <1>2, <2>2 DEF Accept, TypeOK, StreamInv
  <2> QED
    BY <2>1, <2>2
<1>3. CASE Refuse(m)
  BY <1>3 DEF Refuse, StreamInv
<1> QED
  BY <1>2, <1>3 DEF GuardStep

(* What the guard has taken only grows, by the message it let pass. *)
LEMMA GuardTakes ==
    ASSUME NEW m, GuardStep(m)
    PROVE  taken \subseteq taken' /\ taken' \subseteq taken \cup {m}
  BY DEF GuardStep, Accept, Refuse

-----------------------------------------------------------------------------
(* Each step preserves the invariant *)

LEMMA InitInv == Init => IInv
<1> SUFFICES ASSUME Init PROVE IInv
  OBVIOUS
<1>1. TypeOK
  BY DEF Init, TypeOK, Ages
<1>2. CallInv /\ OutcomesTrue
  BY CallsAre DEF Init, CallInv, OutcomesTrue, SentBy
<1>3. NonceInv
  BY DEF Init, NonceInv
<1>4. StreamInv
  BY DEF Init, StreamInv
<1> QED
  BY <1>1, <1>2, <1>3, <1>4 DEF IInv

(* An envelope is built once, before any of its messages. *)
LEMMA EmitInv ==
    ASSUME IInv, NEW e \in Events, NEW offset \in Offsets, Emit(e, offset)
    PROVE  IInv'
<1> USE DEF Emit, senderVars, guardVars
<1>1. TypeOK'
  BY DEF IInv, TypeOK, Ages
<1>2. CallInv'
  BY DEF IInv, CallInv, SentBy
<1>3. NonceInv'
  <2> SUFFICES ASSUME NEW m \in taken
               PROVE  age'[EventOf(m)] = age[EventOf(m)]
    BY DEF IInv, NonceInv
  <2>1. EventOf(m) \in emitted /\ EventOf(m) \in Events
    BY MessagesAre DEF IInv, CallInv, TypeOK
  <2> QED
    BY <2>1 DEF IInv, TypeOK
<1>4. OutcomesTrue'
  BY DEF IInv, OutcomesTrue, SentBy
<1>5. StreamInv'
  BY DEF IInv, StreamInv
<1> QED
  BY <1>1, <1>2, <1>3, <1>4, <1>5 DEF IInv

(* Time passes for envelopes and nonces alike. *)
LEMMA TickInv ==
    ASSUME IInv, Tick
    PROVE  IInv'
<1> USE DEF Tick, senderVars
<1>1. TypeOK'
  <2>1. age' \in [Events -> Ages]
    BY DEF IInv, TypeOK, Ages, Older
  <2>2. nonceAge' \in [Messages -> 0..(Window + 1)]
    BY DEF IInv, TypeOK, Older
  <2> QED
    BY <2>1, <2>2 DEF IInv, TypeOK
<1>2. CallInv'
  BY DEF IInv, CallInv, SentBy
<1>3. NonceInv'
  <2> SUFFICES ASSUME NEW m \in taken
               PROVE  /\ age'[EventOf(m)] <= Skew =>
                            nonceAge'[m] <= age'[EventOf(m)] + Skew
                      /\ nonceAge'[m] <= Window => m \in seenNonces
    BY DEF NonceInv
  <2>1. m \in Messages /\ EventOf(m) \in Events /\ EventOf(m) \in emitted
    BY MessagesAre DEF IInv, CallInv, TypeOK
  <2>2. /\ age[EventOf(m)] \in Int /\ nonceAge[m] \in Int
        /\ age'[EventOf(m)] = Older(age[EventOf(m)], Skew)
        /\ nonceAge'[m] = Older(nonceAge[m], Window)
    BY <2>1 DEF IInv, TypeOK, Ages
  <2>3. /\ age[EventOf(m)] <= Skew => nonceAge[m] <= age[EventOf(m)] + Skew
        /\ nonceAge[m] <= Window => m \in seenNonces
    BY DEF IInv, NonceInv
  <2> QED
    BY <2>2, <2>3 DEF Older
<1>4. OutcomesTrue'
  BY DEF IInv, OutcomesTrue, SentBy
<1>5. StreamInv'
  BY DEF IInv, StreamInv
<1> QED
  BY <1>1, <1>2, <1>3, <1>4, <1>5 DEF IInv

(* A late message reaches the guard alone. *)
LEMMA ArriveLateInv ==
    ASSUME IInv, NEW m \in Messages, ArriveLate(m)
    PROVE  IInv'
<1>1. GuardStep(m) /\ m \in wire /\ UNCHANGED <<clockVars, senderVars>>
  BY DEF ArriveLate, GuardStep
<1> USE DEF clockVars, senderVars
<1>2. TypeOK'
  BY <1>1, GuardTypes DEF IInv, TypeOK
<1>3. taken \subseteq taken' /\ taken' \subseteq wire
  BY <1>1, GuardTakes DEF IInv, CallInv
<1>4. CallInv'
  BY <1>1, <1>3 DEF IInv, CallInv, SentBy
<1>5. NonceInv'
  BY <1>1, GuardNonces DEF IInv
<1>6. OutcomesTrue'
  BY <1>1, <1>3 DEF IInv, OutcomesTrue, SentBy
<1>7. StreamInv'
  BY <1>1, GuardStream DEF IInv
<1> QED
  BY <1>2, <1>4, <1>5, <1>6, <1>7 DEF IInv

(* A call that ends or begins without sending leaves everything true. *)
LEMMA RefuseTargetInv ==
    ASSUME IInv, NEW c \in Calls, RefuseTarget(c) \/ CollapseDuplicate(c)
    PROVE  IInv'
<1> USE DEF RefuseTarget, CollapseDuplicate, Return, NextCall, clockVars, guardVars
<1>1. PICK outcome \in Outcomes : result' = [result EXCEPT ![c] = outcome] /\ attempt' = 0
  BY DEF Outcomes
<1>2. TypeOK'
  <2>1. result' \in [Calls -> Outcomes \cup {"NOT_MADE", "SENDING"}]
    BY <1>1 DEF IInv, TypeOK
  <2>2. attempt' \in 0..MaxAttempts
    BY <1>1
  <2> QED
    BY <2>1, <2>2 DEF IInv, TypeOK
<1>3. CallInv'
  <2>1. \A d \in Calls : result'[d] \in {"NOT_MADE", "SENDING"} => result[d] = result'[d]
    BY <1>1 DEF IInv, TypeOK, Outcomes
  <2>2. Idle /\ UNCHANGED <<wire, taken, emitted>>
    OBVIOUS
  <2> QED
    BY <2>1, <2>2 DEF IInv, CallInv, SentBy, Idle
<1>4. NonceInv'
  BY DEF IInv, NonceInv
<1>5. OutcomesTrue'
  BY DEF IInv, OutcomesTrue, SentBy, TypeOK
<1>6. StreamInv'
  BY DEF IInv, StreamInv
<1> QED
  BY <1>2, <1>3, <1>4, <1>5, <1>6 DEF IInv

(* A call begins with its first attempt, having sent nothing. *)
LEMMA DeliverInv ==
    ASSUME IInv, NEW c \in Calls, Deliver(c)
    PROVE  IInv'
<1> USE DEF Deliver, clockVars, guardVars
<1>1. TypeOK'
  BY DEF IInv, TypeOK
<1>2. CallInv'
  <2>1. result[c] = "NOT_MADE" /\ c[1] \in emitted /\ Idle
    <3>1. c[2] \in 1..CallLimit[c[1]] /\ c = <<c[1], c[2]>>
      BY DEF Calls
    <3> QED
      BY <3>1 DEF NextCall
  <2> QED
    BY <2>1 DEF IInv, CallInv, SentBy, Idle, TypeOK, Attempts
<1>3. NonceInv'
  BY DEF IInv, NonceInv
<1>4. OutcomesTrue'
  BY DEF IInv, OutcomesTrue, SentBy, TypeOK
<1>5. StreamInv'
  BY DEF IInv, StreamInv
<1> QED
  BY <1>1, <1>2, <1>3, <1>4, <1>5 DEF IInv

(* A clean failure has sent nothing, whether it is retried or given up. *)
LEMMA FailCleanlyInv ==
    ASSUME IInv, NEW c \in Calls, FailCleanly(c)
    PROVE  IInv'
<1> USE DEF FailCleanly, Return, Sending, clockVars, guardVars
<1>0. /\ \/ attempt < MaxAttempts /\ attempt' = attempt + 1 /\ result' = result
         \/ attempt' = 0 /\ result' = [result EXCEPT ![c] = "RETRY_EXHAUSTED"]
      /\ attempt \in 0..MaxAttempts
      /\ result \in [Calls -> Outcomes \cup {"NOT_MADE", "SENDING"}]
  BY DEF IInv, TypeOK, MayRetry
<1>1. TypeOK'
  <2>1. attempt' \in 0..MaxAttempts
    BY <1>0
  <2>2. result' \in [Calls -> Outcomes \cup {"NOT_MADE", "SENDING"}]
    BY <1>0 DEF Outcomes
  <2> QED
    BY <2>1, <2>2 DEF IInv, TypeOK
<1>2. CallInv'
  <2>1. \A d \in Calls :
          /\ result'[d] = "SENDING" => result[d] = "SENDING" /\ attempt' \in Attempts
          /\ result'[d] = "NOT_MADE" => result[d] = "NOT_MADE"
    BY <1>0 DEF IInv, CallInv, Attempts
  <2>2. UNCHANGED <<wire, taken, emitted>>
    OBVIOUS
  <2> QED
    BY <2>1, <2>2 DEF IInv, CallInv, SentBy
<1>3. NonceInv'
  BY DEF IInv, NonceInv
<1>4. OutcomesTrue'
  BY DEF IInv, CallInv, OutcomesTrue, SentBy, TypeOK
<1>5. StreamInv'
  BY DEF IInv, StreamInv
<1> QED
  BY <1>1, <1>2, <1>3, <1>4, <1>5 DEF IInv

(* A message leaves, and the call ends: it is the first of its call.       *)
(* Delivered is claimed only of a message the guard has taken.             *)
LEMMA LeaveInv ==
    ASSUME IInv, NEW c \in Calls,
           Acknowledged(c) \/ RefusedByPartner(c) \/ TimeOut(c)
    PROVE  IInv'
<1> DEFINE m == Message(c)
<1>1. /\ result[c] = "SENDING" /\ attempt \in Attempts /\ c[1] \in emitted
      /\ SentBy(c) = {}
  BY DEF IInv, CallInv, Acknowledged, RefusedByPartner, TimeOut, Sending
<1>2. m \in Messages /\ m[1] = c /\ EventOf(m) = c[1] /\ c[1] \in Events
  BY <1>1, MessagesAre, CallsAre
<1>3. /\ GuardStep(m) \/ UNCHANGED guardVars
      /\ UNCHANGED clockVars
      /\ wire' = wire \cup {m}
  BY DEF Acknowledged, RefusedByPartner, TimeOut, GuardStep
<1>4. PICK outcome \in {"DELIVERED", "DEAD_LETTERED_AMBIGUOUS"} :
         /\ Return(c, outcome)
         /\ outcome = "DELIVERED" => Accept(m) /\ delivered' = delivered \cup {c[1]}
         /\ outcome /= "DELIVERED" => UNCHANGED delivered
  BY DEF Acknowledged, RefusedByPartner, TimeOut
<1> HIDE DEF m
<1>5. TypeOK'
  <2>1. /\ seenNonces' \subseteq Messages
        /\ seenEventIds' \subseteq Events
        /\ last' \in [Streams -> SequenceNumbers \cup {0}]
        /\ nonceAge' \in [Messages -> 0..(Window + 1)]
        /\ taken' \subseteq Messages
        /\ applied' \in [Streams -> Seq(SequenceNumbers)]
    BY <1>2, <1>3, GuardTypes DEF IInv, TypeOK, guardVars
  <2>2. result' \in [Calls -> Outcomes \cup {"NOT_MADE", "SENDING"}] /\ attempt' \in 0..MaxAttempts
    BY <1>4 DEF IInv, TypeOK, Return, Outcomes
  <2> QED
    BY <1>2, <1>3, <1>4, <2>1, <2>2 DEF IInv, TypeOK, clockVars
<1>6. taken \subseteq taken' /\ taken' \subseteq taken \cup {m}
  BY <1>3, GuardTakes DEF guardVars
<1>7. result' = [result EXCEPT ![c] = outcome] /\ result \in [Calls -> Outcomes \cup {"NOT_MADE", "SENDING"}]
  BY <1>4 DEF Return, IInv, TypeOK
<1>8. \A d \in Calls : SentBy(d)' = IF d = c THEN {m} ELSE SentBy(d)
  BY <1>1, <1>2, <1>3 DEF SentBy
<1>9. CallInv'
  <2>1. \A d \in Calls : result'[d] \in {"NOT_MADE", "SENDING"} => d /= c /\ result[d] = result'[d]
    BY <1>7
  <2>2. \A d \in Calls : result'[d] /= "SENDING"
    BY <1>1, <2>1 DEF IInv, CallInv
  <2> QED
    BY <1>1, <1>2, <1>3, <1>6, <1>8, <2>1, <2>2 DEF IInv, CallInv, clockVars
<1>10. NonceInv'
  <2>1. CASE GuardStep(m)
    BY <1>2, <1>3, <2>1, GuardNonces DEF IInv, clockVars
  <2>2. CASE UNCHANGED guardVars
    BY <1>3, <2>2 DEF IInv, NonceInv, guardVars, clockVars
  <2> QED
    BY <1>3, <2>1, <2>2
<1>11. OutcomesTrue'
  <2>1. \A d \in Calls : \A m1, m2 \in wire' : m1 \in SentBy(d)' /\ m2 \in SentBy(d)' => m1 = m2
    <3>1. \A d \in Calls : \A m1, m2 \in SentBy(d) : m1 = m2
      BY DEF IInv, OutcomesTrue, SentBy
    <3> QED
      BY <1>8, <3>1
  <2>2. outcome = "DELIVERED" => m \in taken'
    BY <1>4 DEF Accept
  <2>3. \A d \in Calls :
          /\ result'[d] = "RETRY_EXHAUSTED" => SentBy(d)' = {}
          /\ result'[d] = "DELIVERED" => SentBy(d)' \cap taken' /= {}
    BY <1>6, <1>7, <1>8, <2>2 DEF IInv, OutcomesTrue
  <2>4. \A e \in delivered' : \E n \in taken' : EventOf(n) = e
    BY <1>2, <1>4, <1>6, <2>2 DEF IInv, OutcomesTrue
  <2> QED
    BY <2>1, <2>3, <2>4 DEF OutcomesTrue
<1>12. StreamInv'
  <2>1. CASE GuardStep(m)
    BY <1>2, <2>1, GuardStream DEF IInv
  <2>2. CASE UNCHANGED guardVars
    BY <2>2 DEF IInv, StreamInv, guardVars
  <2> QED
    BY <1>3, <2>1, <2>2
<1> QED
  BY <1>5, <1>9, <1>10, <1>11, <1>12 DEF IInv

LEMMA StepInv == IInv /\ [Next]_vars => IInv'
<1> SUFFICES ASSUME IInv, [Next]_vars PROVE IInv'
  OBVIOUS
<1>1. CASE \E e \in Events, offset \in Offsets : Emit(e, offset)
  BY <1>1, EmitInv
<1>2. CASE \E c \in Calls : CallStep(c)
  BY <1>2, RefuseTargetInv, DeliverInv, FailCleanlyInv, LeaveInv DEF CallStep
<1>3. CASE \E m \in Messages : ArriveLate(m)
  BY <1>3, ArriveLateInv
<1>4. CASE Tick
  BY <1>4, TickInv
<1>5. CASE UNCHANGED vars
  BY <1>5 DEF vars, clockVars, senderVars, guardVars, IInv, TypeOK, CallInv, NonceInv,
              OutcomesTrue, StreamInv, SentBy
<1> QED
  BY <1>1, <1>2, <1>3, <1>4, <1>5 DEF Next

(* The inductive invariant holds throughout. *)
THEOREM Invariance == Spec => []IInv
  BY InitInv, StepInv, PTL DEF Spec

(* TypeOK: sender, network and guard stay well typed. *)
THEOREM TypeCorrect == Spec => []TypeOK
<1>1. IInv => TypeOK
  BY DEF IInv
<1> QED
  BY <1>1, Invariance, PTL

(* OutcomesTrue: no call sends twice, and what deliver returns is true of  *)
(* what has left and of what the partner has taken.                        *)
THEOREM OutcomesAreTrue == Spec => []OutcomesTrue
<1>1. IInv => OutcomesTrue
  BY DEF IInv
<1> QED
  BY <1>1, Invariance, PTL

(* NonceOutlivesTimestamp: for every window of at least two skews, a nonce *)
(* is remembered while the timestamp it came with would still be accepted. *)
THEOREM NoncesOutlive == Spec => []NonceOutlivesTimestamp
<1>1. IInv => NonceOutlivesTimestamp
  <2> SUFFICES ASSUME IInv, NEW m \in taken, Timely(EventOf(m))
               PROVE  m \in Remembered
    BY DEF NonceOutlivesTimestamp
  <2>1. m \in Messages /\ EventOf(m) \in Events
    BY MessagesAre DEF IInv, TypeOK
  <2>2. age[EventOf(m)] \in Int /\ age[EventOf(m)] <= Skew /\ nonceAge[m] \in Int
    BY <2>1 DEF IInv, TypeOK, Timely, Ages
  <2>3. nonceAge[m] <= Window
    BY <2>2 DEF IInv, NonceInv
  <2> QED
    BY <2>3 DEF IInv, NonceInv, Remembered
<1> QED
  BY <1>1, Invariance, PTL

-----------------------------------------------------------------------------
(* The gapless stream *)

(* Every step of the guard is a step of the stream, or none. *)
LEMMA GuardRefines ==
    ASSUME IInv, NEW m \in Messages, GuardStep(m)
    PROVE  Stream!Next \/ UNCHANGED applied
<1> DEFINE e == EventOf(m)
           t == StreamOf[e]
<1>1. e \in Events /\ t \in Streams /\ SequenceOf[e] \in SequenceNumbers
  BY MessagesAre, EventNumbers
<1>2. CASE Accept(m)
  <2>1. applied' = [applied EXCEPT ![t] = Append(@, SequenceOf[e])] /\ InOrder(e)
    BY <1>2 DEF Accept, Accepted
  <2>2. applied[t] = <<>> \/ SequenceOf[e] = applied[t][Len(applied[t])] + 1
    BY <1>1, <2>1 DEF IInv, StreamInv, InOrder
  <2>3. Stream!Apply(t, SequenceOf[e])
    BY <2>1, <2>2 DEF Stream!Apply
  <2> QED
    BY <1>1, <2>3 DEF Stream!Next
<1>3. CASE Refuse(m)
  BY <1>3 DEF Refuse
<1> QED
  BY <1>2, <1>3 DEF GuardStep

LEMMA StepRefines == IInv /\ [Next]_vars => [Stream!Next]_applied
<1> SUFFICES ASSUME IInv, [Next]_vars PROVE Stream!Next \/ UNCHANGED applied
  OBVIOUS
<1>1. CASE \E e \in Events, offset \in Offsets : Emit(e, offset)
  BY <1>1 DEF Emit, guardVars
<1>2. CASE \E c \in Calls : CallStep(c)
  <2> PICK c \in Calls : CallStep(c)
    BY <1>2
  <2>1. CASE Acknowledged(c) \/ RefusedByPartner(c)
    <3>1. Message(c) \in Messages
      BY <2>1, MessagesAre DEF IInv, CallInv, Acknowledged, RefusedByPartner, Sending
    <3> QED
      BY <2>1, <3>1, GuardRefines DEF Acknowledged, RefusedByPartner, GuardStep
  <2>2. CASE RefuseTarget(c) \/ CollapseDuplicate(c) \/ Deliver(c) \/ FailCleanly(c) \/ TimeOut(c)
    BY <2>2 DEF RefuseTarget, CollapseDuplicate, Deliver, FailCleanly, TimeOut, guardVars
  <2> QED
    BY <2>1, <2>2 DEF CallStep
<1>3. CASE \E m \in Messages : ArriveLate(m)
  BY <1>3, GuardRefines DEF ArriveLate, GuardStep
<1>4. CASE Tick
  BY <1>4 DEF Tick
<1>5. CASE UNCHANGED vars
  BY <1>5 DEF vars, guardVars
<1> QED
  BY <1>1, <1>2, <1>3, <1>4, <1>5 DEF Next

(* ImplementsEventStream: what the partner applies is a gapless stream,    *)
(* whatever is lost, late, repeated or sent again.                         *)
THEOREM Gapless == Spec => ImplementsEventStream
<1>1. Init => Stream!Init
  BY DEF Init, Stream!Init
<1> QED
  BY <1>1, StepRefines, Invariance, PTL DEF Spec, ImplementsEventStream, Stream!Spec

-----------------------------------------------------------------------------
(* A gap is final *)

(* An event that can no longer continue its stream never can again. *)
LEMMA NoContinuation ==
    ASSUME IInv, NEW s \in Streams, Continuations(s) = {},
           seenEventIds \subseteq seenEventIds', UNCHANGED last,
           \/ \E f \in Events, offset \in Offsets : Emit(f, offset)
           \/ Tick
           \/ UNCHANGED clockVars
    PROVE  Continuations(s)' = {}
<1> SUFFICES ASSUME NEW e \in Events, StreamOf[e] = s, e \notin seenEventIds,
                    SequenceOf[e] = last[s] + 1
             PROVE  e \in emitted' /\ ~(age'[e] <= Skew)
  BY DEF Continuations
<1>1. e \in emitted /\ ~(age[e] <= Skew)
  BY DEF Continuations
<1>2. age[e] \in Int
  BY DEF IInv, TypeOK, Ages
<1>3. CASE \E f \in Events, offset \in Offsets : Emit(f, offset)
  BY <1>1, <1>3 DEF Emit, IInv, TypeOK
<1>4. CASE Tick
  BY <1>1, <1>2, <1>4 DEF Tick, Older
<1>5. CASE UNCHANGED clockVars
  BY <1>1, <1>5 DEF clockVars
<1> QED
  BY <1>3, <1>4, <1>5

(* The guard lets nothing pass of a stream without a continuation. *)
LEMMA GuardStaysShut ==
    ASSUME IInv, NEW m \in Messages, GuardStep(m), UNCHANGED clockVars,
           NEW s \in Streams, last[s] /= 0, Continuations(s) = {}
    PROVE  applied'[s] = applied[s] /\ Continuations(s)' = {}
<1> DEFINE e == EventOf(m)
<1>1. e \in Events /\ StreamOf[e] \in Streams
  BY MessagesAre, EventNumbers
<1>2. CASE Accept(m)
  <2>1. StreamOf[e] /= s
    <3> SUFFICES ASSUME StreamOf[e] = s PROVE FALSE
      OBVIOUS
    <3>1. /\ e \notin seenEventIds /\ SequenceOf[e] = last[s] + 1 /\ age[e] <= Skew
      BY <1>1, <1>2 DEF Accept, Accepted, Timely, Unseen, InOrder
    <3> QED
      BY <1>1, <3>1 DEF Continuations
  <2>2. applied'[s] = applied[s] /\ last'[s] = last[s]
    BY <1>1, <1>2, <2>1 DEF Accept, IInv, TypeOK
  <2>3. seenEventIds \subseteq seenEventIds'
    BY <1>2 DEF Accept
  <2> QED
    BY <2>2, <2>3 DEF Continuations, clockVars
<1>3. CASE Refuse(m)
  BY <1>3, NoContinuation DEF Refuse
<1> QED
  BY <1>2, <1>3 DEF GuardStep

LEMMA StepStaysShut ==
    ASSUME IInv, [Next]_vars, NEW s \in Streams, last[s] /= 0, Continuations(s) = {}
    PROVE  applied'[s] = applied[s] /\ Continuations(s)' = {}
<1>1. CASE \E e \in Events, offset \in Offsets : Emit(e, offset)
  BY <1>1, NoContinuation DEF Emit, guardVars
<1>2. CASE \E c \in Calls : CallStep(c)
  <2> PICK c \in Calls : CallStep(c)
    BY <1>2
  <2>1. CASE Acknowledged(c) \/ RefusedByPartner(c)
    <3>1. Message(c) \in Messages
      BY <2>1, MessagesAre DEF IInv, CallInv, Acknowledged, RefusedByPartner, Sending
    <3>2. GuardStep(Message(c)) /\ UNCHANGED clockVars
      BY <2>1 DEF Acknowledged, RefusedByPartner, GuardStep
    <3> QED
      BY <3>1, <3>2, GuardStaysShut
  <2>2. CASE RefuseTarget(c) \/ CollapseDuplicate(c) \/ Deliver(c) \/ FailCleanly(c) \/ TimeOut(c)
    <3>1. UNCHANGED <<clockVars, guardVars>>
      BY <2>2 DEF RefuseTarget, CollapseDuplicate, Deliver, FailCleanly, TimeOut
    <3> QED
      BY <3>1, NoContinuation DEF guardVars
  <2> QED
    BY <2>1, <2>2 DEF CallStep
<1>3. CASE \E m \in Messages : ArriveLate(m)
  BY <1>3, GuardStaysShut DEF ArriveLate, GuardStep
<1>4. CASE Tick
  BY <1>4, NoContinuation DEF Tick
<1>5. CASE UNCHANGED vars
  BY <1>5, NoContinuation DEF vars, guardVars
<1> QED
  BY <1>1, <1>2, <1>3, <1>4, <1>5 DEF Next

(* GapIsFinal: once the event that would continue a stream is too old, the *)
(* partner takes nothing more of that stream.                              *)
THEOREM GapsAreFinal == Spec => GapIsFinal
<1>1. IInv /\ [Next]_vars => [StaysShut]_vars
  BY StepStaysShut DEF StaysShut
<1> QED
  BY <1>1, Invariance, PTL DEF Spec, GapIsFinal
=============================================================================
