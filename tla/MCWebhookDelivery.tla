--------------------------- MODULE MCWebhookDelivery ---------------------------
(* Three events of one stream; the second may be delivered again.          *)
EXTENDS WebhookDelivery

CONSTANTS e1, e2, e3, s1

MCStreamOf == [e \in Events |-> s1]
MCSequenceOf == [e \in Events |-> IF e = e1 THEN 1 ELSE IF e = e2 THEN 2 ELSE 3]
MCCallLimit == [e \in Events |-> IF e = e2 THEN 2 ELSE 1]
MCOffsets == {-1, 1}
=============================================================================
