------------------------------ MODULE EventStream ------------------------------
(***************************************************************************)
(* What a partner may rely on when it consumes signed webhooks: in each    *)
(* stream it applies events one by one, from any first sequence number on, *)
(* without a gap, a repetition or an inversion.                            *)
(***************************************************************************)
EXTENDS Integers, Sequences

CONSTANTS Streams,   \* the streams a partner consumes
          Numbers    \* the sequence numbers events may carry

VARIABLE applied   \* stream -> the sequence numbers applied, in order

Init == applied = [s \in Streams |-> <<>>]

Apply(s, n) ==
    /\ \/ applied[s] = <<>>
       \/ n = applied[s][Len(applied[s])] + 1
    /\ applied' = [applied EXCEPT ![s] = Append(@, n)]

Next == \E s \in Streams, n \in Numbers : Apply(s, n)

Spec == Init /\ [][Next]_applied
=============================================================================
