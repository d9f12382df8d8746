---------------------------- MODULE WebhookDelivery ----------------------------
(***************************************************************************)
(* Webhook delivery (shared/webhooks): the service that signs and sends    *)
(* events, and the partner's guard that verifies what arrives.             *)
(*                                                                         *)
(* A call of deliver is synchronous: the service makes one attempt after   *)
(* another, each with a fresh nonce, and while it waits for the transport  *)
(* messages of earlier attempts may still arrive.  A message that has left *)
(* may arrive late, several times, or never.  A transport that reports a   *)
(* clean failure has sent nothing; one that reports an ambiguous outcome   *)
(* has sent the message and knows no more; one that reports a code of the  *)
(* receiver has seen it refused.                                           *)
(*                                                                         *)
(* Abstractions.  An envelope is its event; its signature is genuine.  A   *)
(* clock is replaced by ages: of an envelope, the receiver's time less the *)
(* time it is dated; of a nonce, the time since the guard took it.  Ages   *)
(* stop at the first value past the limit they are compared with.          *)
(***************************************************************************)
EXTENDS Integers, Sequences

CONSTANTS
    Events,          \* envelopes that may be built, one event id each
    Streams,
    StreamOf,        \* event -> its stream
    SequenceOf,      \* event -> its sequence number in the stream
    Skew,            \* MAX_CLOCK_SKEW_MS
    Window,          \* NONCE_WINDOW_MS
    Offsets,         \* how far a sender's clock may be behind the receiver's
    MaxAttempts,     \* options.maxAttempts
    ScheduleLength,  \* entries of the policy's backoff schedule
    CallLimit        \* bound: event -> calls of deliver for it

ASSUME EventsAssumption ==
    /\ StreamOf \in [Events -> Streams]
    /\ SequenceOf \in [Events -> Nat \ {0}]
ASSUME ClockAssumption ==
    /\ Skew \in Nat
    /\ Window \in Nat /\ Window >= 2 * Skew
    /\ Offsets \subseteq (-(Skew + 1))..(Skew + 1)
ASSUME LimitsAssumption ==
    /\ MaxAttempts \in Nat \ {0}
    /\ ScheduleLength \in Nat
    /\ CallLimit \in [Events -> Nat]

VARIABLES
    emitted,    \* the events built so far
    age,        \* event -> age of its envelope
    result,     \* call -> what deliver has returned, or where it stands
    attempt,    \* number of the attempt under way
    delivered,  \* the events recorded as DELIVERED
    wire,       \* the messages that have left
    seenNonces, seenEventIds, last,   \* the guard; last is 0 if undefined
    nonceAge,   \* message -> time since the guard took its nonce
    taken,      \* the messages the guard has let pass
    applied     \* stream -> the sequence numbers it let pass, in order

clockVars == <<emitted, age>>
senderVars == <<result, attempt, delivered, wire>>
guardVars == <<seenNonces, seenEventIds, last, nonceAge, taken, applied>>
vars == <<clockVars, senderVars, guardVars>>

-----------------------------------------------------------------------------
(* Types *)

Calls == UNION {{e} \X (1..CallLimit[e]) : e \in Events}
Attempts == 1..MaxAttempts
(* The nonce is drawn for the attempt, so a message is named by its attempt. *)
Messages == Calls \X Attempts
EventOf(m) == m[1][1]

Outcomes == {"DELIVERED", "DELIVERED_DUPLICATE", "RETRY_EXHAUSTED",
             "DEAD_LETTERED_AMBIGUOUS", "DELIVERY_ENDPOINT_INVALID"}
Ages == (-(Skew + 1))..(Skew + 1)
SequenceNumbers == {SequenceOf[e] : e \in Events}

TypeOK ==
    /\ emitted \subseteq Events
    /\ age \in [Events -> Ages]
    /\ result \in [Calls -> Outcomes \cup {"NOT_MADE", "SENDING"}]
    /\ attempt \in 0..MaxAttempts
    /\ delivered \subseteq Events
    /\ wire \subseteq Messages
    /\ seenNonces \subseteq Messages
    /\ seenEventIds \subseteq Events
    /\ last \in [Streams -> SequenceNumbers \cup {0}]
    /\ nonceAge \in [Messages -> 0..(Window + 1)]
    /\ taken \subseteq Messages
    /\ applied \in [Streams -> Seq(SequenceNumbers)]

Init ==
    /\ emitted = {}
    /\ age = [e \in Events |-> 0]
    /\ result = [c \in Calls |-> "NOT_MADE"]
    /\ attempt = 0
    /\ delivered = {}
    /\ wire = {}
    /\ seenNonces = {}
    /\ seenEventIds = {}
    /\ last = [s \in Streams |-> 0]
    /\ nonceAge = [m \in Messages |-> 0]
    /\ taken = {}
    /\ applied = [s \in Streams |-> <<>>]

-----------------------------------------------------------------------------
(* The receiver *)

Timely(e) == age[e] \in (-Skew)..Skew

(* Mutant: a nonce is dropped when the window ends, not after it. *)
ShortMemory == {m \in seenNonces : nonceAge[m] < Window}

(* The nonces the guard still holds after it has pruned. *)
Remembered == {m \in seenNonces : nonceAge[m] <= Window}

Unseen(m) == m \notin Remembered /\ EventOf(m) \notin seenEventIds

(* Mutant: only what is behind the stream is out of order. *)
AheadOfStream(e) == SequenceOf[e] > last[StreamOf[e]]

InOrder(e) ==
    \/ last[StreamOf[e]] = 0
    \/ SequenceOf[e] = last[StreamOf[e]] + 1

Accepted(m) == Timely(EventOf(m)) /\ Unseen(m) /\ InOrder(EventOf(m))

Accept(m) ==
    LET e == EventOf(m) IN
    /\ Accepted(m)
    /\ seenNonces' = Remembered \cup {m}
    /\ nonceAge' = [nonceAge EXCEPT ![m] = 0]
    /\ seenEventIds' = seenEventIds \cup {e}
    /\ last' = [last EXCEPT ![StreamOf[e]] = SequenceOf[e]]
    /\ taken' = taken \cup {m}
    /\ applied' = [applied EXCEPT ![StreamOf[e]] = Append(@, SequenceOf[e])]

(* The timestamp is looked at before the guard, which prunes in any case. *)
Refuse(m) ==
    /\ ~Accepted(m)
    /\ seenNonces' = IF Timely(EventOf(m)) THEN Remembered ELSE seenNonces
    /\ UNCHANGED <<seenEventIds, last, nonceAge, taken, applied>>

(* A message arrives when no attempt waits for the answer. *)
ArriveLate(m) ==
    /\ m \in wire
    /\ Accept(m) \/ Refuse(m)
    /\ UNCHANGED <<clockVars, senderVars>>

-----------------------------------------------------------------------------
(* The sender *)

Emit(e, offset) ==
    /\ e \notin emitted
    /\ emitted' = emitted \cup {e}
    /\ age' = [age EXCEPT ![e] = offset]
    /\ UNCHANGED <<senderVars, guardVars>>

Idle == \A c \in Calls : result[c] /= "SENDING"

(* The calls for one event are numbered as they are made. *)
NextCall(c) ==
    /\ c[1] \in emitted
    /\ Idle
    /\ \A n \in 1..CallLimit[c[1]] : (result[<<c[1], n>>] = "NOT_MADE") <=> (n >= c[2])

Return(c, outcome) ==
    /\ result' = [result EXCEPT ![c] = outcome]
    /\ attempt' = 0

RefuseTarget(c) ==
    /\ NextCall(c)
    /\ Return(c, "DELIVERY_ENDPOINT_INVALID")
    /\ UNCHANGED <<delivered, wire, clockVars, guardVars>>

CollapseDuplicate(c) ==
    /\ NextCall(c)
    /\ c[1] \in delivered
    /\ Return(c, "DELIVERED_DUPLICATE")
    /\ UNCHANGED <<delivered, wire, clockVars, guardVars>>

Deliver(c) ==
    /\ NextCall(c)
    /\ c[1] \notin delivered
    /\ result' = [result EXCEPT ![c] = "SENDING"]
    /\ attempt' = 1
    /\ UNCHANGED <<delivered, wire, clockVars, guardVars>>

Message(c) == <<c, attempt>>
Sending(c) == result[c] = "SENDING"

(* policy.computeBackoff(attempt - 1).allowed, below maxAttempts. *)
MayRetry == attempt < MaxAttempts /\ attempt - 1 < ScheduleLength

FailCleanly(c) ==
    /\ Sending(c)
    /\ IF MayRetry
       THEN attempt' = attempt + 1 /\ UNCHANGED result
       ELSE Return(c, "RETRY_EXHAUSTED")
    /\ UNCHANGED <<delivered, wire, clockVars, guardVars>>

Acknowledged(c) ==
    /\ Sending(c)
    /\ wire' = wire \cup {Message(c)}
    /\ Accept(Message(c))
    /\ Return(c, "DELIVERED")
    /\ delivered' = delivered \cup {c[1]}
    /\ UNCHANGED clockVars

(* The receiver's code is neither clean nor ambiguous, and dead-letters. *)
RefusedByPartner(c) ==
    /\ Sending(c)
    /\ wire' = wire \cup {Message(c)}
    /\ Refuse(Message(c))
    /\ Return(c, "DEAD_LETTERED_AMBIGUOUS")
    /\ UNCHANGED <<delivered, clockVars>>

(* Mutant: an ambiguous outcome is retried as a clean failure is. *)
RetryBlindly(c) ==
    /\ Sending(c)
    /\ wire' = wire \cup {Message(c)}
    /\ IF MayRetry
       THEN attempt' = attempt + 1 /\ UNCHANGED result
       ELSE Return(c, "RETRY_EXHAUSTED")
    /\ UNCHANGED <<delivered, clockVars, guardVars>>

TimeOut(c) ==
    /\ Sending(c)
    /\ wire' = wire \cup {Message(c)}
    /\ Return(c, "DEAD_LETTERED_AMBIGUOUS")
    /\ UNCHANGED <<delivered, clockVars, guardVars>>

-----------------------------------------------------------------------------
(* Time *)

Older(a, limit) == IF a > limit THEN a ELSE a + 1

Tick ==
    /\ age' = [e \in Events |->
                  IF e \in emitted THEN Older(age[e], Skew) ELSE age[e]]
    /\ nonceAge' = [m \in Messages |->
                  IF m \in taken THEN Older(nonceAge[m], Window) ELSE nonceAge[m]]
    /\ UNCHANGED <<emitted, senderVars, seenNonces, seenEventIds, last, taken, applied>>

CallStep(c) ==
    \/ RefuseTarget(c)
    \/ CollapseDuplicate(c)
    \/ Deliver(c)
    \/ FailCleanly(c)
    \/ Acknowledged(c)
    \/ RefusedByPartner(c)
    \/ TimeOut(c)

Next ==
    \/ \E e \in Events, offset \in Offsets : Emit(e, offset)
    \/ \E c \in Calls : CallStep(c)
    \/ \E m \in Messages : ArriveLate(m)
    \/ Tick

Spec == Init /\ [][Next]_vars

-----------------------------------------------------------------------------
(* Properties *)

(* What the guard lets pass is a gapless stream, whatever is lost, late,   *)
(* repeated or sent again, and however often deliver is called.            *)
Stream == INSTANCE EventStream WITH Numbers <- SequenceNumbers
ImplementsEventStream == Stream!Spec

(* While an envelope's timestamp would still be accepted, the guard holds  *)
(* the nonce it came with: the window is exactly as long as the skew on    *)
(* both sides requires, whenever the pruning happens.                      *)
NonceOutlivesTimestamp ==
    \A m \in taken : Timely(EventOf(m)) => m \in Remembered

SentBy(c) == {m \in wire : m[1] = c}

(* No call sends a second message once one of unknown fate has left; a     *)
(* dead letter that says RETRY_EXHAUSTED left nothing on the way; and an   *)
(* event is called DELIVERED only when the partner took the very message   *)
(* that was acknowledged.                                                  *)
OutcomesTrue ==
    /\ \A c \in Calls, m1, m2 \in wire : m1 \in SentBy(c) /\ m2 \in SentBy(c) => m1 = m2
    /\ \A c \in Calls :
          /\ result[c] = "RETRY_EXHAUSTED" => SentBy(c) = {}
          /\ result[c] = "DELIVERED" => SentBy(c) \cap taken /= {}
    /\ \A e \in delivered : \E m \in taken : EventOf(m) = e

(* The events that could still continue a stream. *)
Continuations(s) ==
    {e \in Events : /\ StreamOf[e] = s
                    /\ e \notin seenEventIds
                    /\ SequenceOf[e] = last[s] + 1
                    /\ e \in emitted => age[e] <= Skew}

(* A stream that nothing can continue stays as it is. *)
StaysShut ==
    \A s \in Streams :
        last[s] /= 0 /\ Continuations(s) = {} =>
            applied'[s] = applied[s] /\ Continuations(s)' = {}

(* A gap is final: once the event that would continue a stream is too old  *)
(* to be accepted, the partner takes nothing more of the stream, whatever  *)
(* the service delivers, redelivers or the network still brings.           *)
GapIsFinal == [][StaysShut]_vars
=============================================================================
