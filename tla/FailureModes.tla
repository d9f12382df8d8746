----------------------------- MODULE FailureModes -----------------------------
(***************************************************************************)
(* The simulator identities, the scenario configuration and the catalog of *)
(* failure modes (simulators/behaviors.ts, simulators/failureModes.ts): a  *)
(* mode is the well-behaved scenario with one thing changed, the surface   *)
(* its verdict is read from, and the code the contract expects there.      *)
(*                                                                         *)
(* A fault plan of the partner is a flaw put into the request after it was *)
(* signed, or a drift of its clock, and a second presentation.  A step of  *)
(* the transport script is "OK", "CLEAN" (a clean-retryable code),         *)
(* "AMBIGUOUS" or "REFUSED" (any other code).  The clock of a scenario     *)
(* stands at 0.                                                            *)
(***************************************************************************)
EXTENDS PartnerRegistry, Sequences

Identity(name, entitlement, capability, max) ==
    [partnerId |-> "partner-" \o name, orgId |-> "org-" \o name,
     entitlement |-> entitlement, capability |-> capability, max |-> max]

Simulators ==
    {Identity("alpha", "basic", "reports-basic", 2),
     Identity("beta", "premium", "reports-premium", 2),
     Identity("gamma", "basic", "reports-bulk", 3)}

WellBehavedPartner(id) ==
    Partner(id.partnerId, "ACTIVE",
            {Entitlement(id.entitlement, "ACTIVE", None,
                         {Capability(id.capability, 1, id.max)})})

WellBehavedOrg(id) ==
    Org(id.orgId, "ACTIVE", {Binding(id.partnerId, "ACTIVE", {id.entitlement})})

WellBehaved(id) ==
    [partners |-> {WellBehavedPartner(id)},
     orgs |-> {WellBehavedOrg(id)},
     claims |-> [partnerId |-> id.partnerId, orgId |-> id.orgId,
                 entitlement |-> id.entitlement, capability |-> id.capability],
     flaw |-> None, drift |-> 0, second |-> "NONE", presentations |-> 1,
     killSwitch |-> FALSE, receiptFault |-> "NONE",
     downstream |-> "HEALTHY", circuit |-> None,
     eventType |-> "processing.completed", emitEventCount |-> 2, secondOffset |-> 0,
     transportScript |-> <<"OK">>, rePresent |-> FALSE, tamperDelivery |-> FALSE,
     deliverTwice |-> FALSE, reconcile |-> None]

-----------------------------------------------------------------------------
(* Injectors *)

SetPartner(b, field, value) ==
    [b EXCEPT !.partners = {[p EXCEPT ![field] = value] : p \in @}]
SetOrg(b, field, value) ==
    [b EXCEPT !.orgs = {[o EXCEPT ![field] = value] : o \in @}]

WithPartnerStatus(b, status) == SetPartner(b, "status", status)
WithOrgStatus(b, status) == SetOrg(b, "status", status)
WithBindings(b, bindings) == SetOrg(b, "partnerBindings", bindings)

WithBinding(b, field, value) ==
    WithBindings(b, {[bind EXCEPT ![field] = value] :
                        bind \in UNION {o.partnerBindings : o \in b.orgs}})

WithEntitlements(b, entitlements) == SetPartner(b, "entitlements", entitlements)

WithClaimedEntitlementData(b, field, value) ==
    WithEntitlements(b, {[e EXCEPT ![field] = value] :
                            e \in UNION {p.entitlements : p \in b.partners}})

WithClaim(b, field, value) == [b EXCEPT !.claims[field] = value]

-----------------------------------------------------------------------------
(* The catalog *)

Mode(id, surface, code, failClosed, scenario) ==
    [modeId |-> id, surface |-> surface, expectedCode |-> code,
     failClosed |-> failClosed, scenario |-> scenario]

(* Most modes are refusals that the platform answers. *)
Refusal(id, code, scenario) == Mode(id, "PLATFORM_RESPONSE", code, TRUE, scenario)

ControlMode(b) == Mode("control", "CONTROL", "OPERATION_COMPLETED", FALSE, b)

SignatureModes(b) ==
    {Refusal("signature-tampered-signature", "SIGNATURE_SIGNATURE_MISMATCH",
             [b EXCEPT !.flaw = "SIGNATURE"]),
     Refusal("signature-wrong-secret", "SIGNATURE_SIGNATURE_MISMATCH",
             [b EXCEPT !.flaw = "SIGNATURE"]),
     Refusal("signature-clock-skew", "SIGNATURE_CLOCK_SKEW_EXCEEDED",
             [b EXCEPT !.drift = 2]),
     Refusal("signature-tampered-body", "SIGNATURE_BODY_HASH_INVALID",
             [b EXCEPT !.flaw = "BODY"]),
     Refusal("signature-nonce-pattern-violation", "SIGNATURE_NONCE_INVALID",
             [b EXCEPT !.flaw = "NONCE"])}

ReplayModes(b) ==
    {Refusal("replay-same-signed-request", "REQUEST_REPLAYED",
             [b EXCEPT !.second = "REPLAY"]),
     Mode("replay-duplicate-collapse", "PLATFORM_RESPONSE",
          "IDEMPOTENCY_DUPLICATE_COLLAPSED", FALSE, [b EXCEPT !.second = "DUPLICATE"]),
     Refusal("replay-idempotency-conflict", "IDEMPOTENCY_KEY_CONFLICT",
             [b EXCEPT !.second = "CONFLICT"])}

ReceiptModes(b) ==
    {Mode("receipt-omitted", "RECEIPT", "RECEIPT_MISSING_HEADERS", TRUE,
          [b EXCEPT !.receiptFault = "OMIT"]),
     Mode("receipt-forged", "RECEIPT", "RECEIPT_INVALID_SIGNATURE", TRUE,
          [b EXCEPT !.receiptFault = "FORGED"]),
     Mode("receipt-tampered-content-hash", "RECEIPT", "RECEIPT_CONTENT_HASH_MISMATCH",
          TRUE, [b EXCEPT !.receiptFault = "TAMPERED"]),
     Mode("receipt-wrong-operation", "RECEIPT", "RECEIPT_FIELD_MISMATCH", TRUE,
          [b EXCEPT !.receiptFault = "WRONG_OPERATION"])}

AuthorizationModes(b) ==
    {Refusal("authorization-partner-unknown", "PARTNER_UNKNOWN", [b EXCEPT !.partners = {}]),
     Refusal("authorization-partner-suspended", "PARTNER_SUSPENDED",
             WithPartnerStatus(b, "SUSPENDED")),
     Refusal("authorization-partner-revoked", "PARTNER_REVOKED",
             WithPartnerStatus(b, "REVOKED")),
     Refusal("authorization-org-unknown", "ORG_UNKNOWN", [b EXCEPT !.orgs = {}]),
     Refusal("authorization-org-suspended", "ORG_SUSPENDED", WithOrgStatus(b, "SUSPENDED")),
     Refusal("authorization-org-unbound", "ORG_NOT_BOUND_TO_PARTNER", WithBindings(b, {})),
     Refusal("authorization-binding-inactive", "BINDING_INACTIVE",
             WithBinding(b, "status", "INACTIVE")),
     Refusal("authorization-binding-unknown-entitlement", "BINDING_UNKNOWN",
             WithBinding(b, "entitlements", {"other-entitlement"}))}

EntitlementModes(b) ==
    {Refusal("entitlement-missing", "ENTITLEMENT_MISSING", WithEntitlements(b, {})),
     Refusal("entitlement-inactive", "ENTITLEMENT_INACTIVE",
             WithClaimedEntitlementData(b, "status", "INACTIVE")),
     Refusal("entitlement-revoked", "ENTITLEMENT_REVOKED",
             WithClaimedEntitlementData(b, "status", "REVOKED")),
     Refusal("entitlement-expired-boundary", "ENTITLEMENT_EXPIRED",
             WithClaimedEntitlementData(b, "validUntil", 0)),
     Refusal("entitlement-claimed-unknown", "ENTITLEMENT_MISSING",
             WithClaim(WithBinding(b, "entitlements", {"claimed-unknown"}),
                       "entitlement", "claimed-unknown")),
     Refusal("entitlement-capability-unknown", "CAPABILITY_UNKNOWN",
             WithClaim(b, "capability", "reports-unknown")),
     Refusal("entitlement-capability-version-inverted", "CAPABILITY_VERSION_UNSUPPORTED",
             WithClaimedEntitlementData(b, "capabilities",
                                        {Capability(b.claims.capability, 2, 1)}))}

WebhookModes(b) ==
    {Mode("webhook-unknown-event-type", "EMIT", "WEBHOOK_EVENT_TYPE_UNKNOWN", TRUE,
          [b EXCEPT !.eventType = "sim.not-an-event"]),
     Mode("webhook-ordering-gap", "RECEIVER", "WEBHOOK_ORDERING_GAP", TRUE,
          [b EXCEPT !.secondOffset = -1]),
     Mode("webhook-replayed-delivery", "RECEIVER", "WEBHOOK_NONCE_REPLAYED", TRUE,
          [b EXCEPT !.rePresent = TRUE]),
     Mode("webhook-tampered-delivery-body", "RECEIVER", "WEBHOOK_SIGNATURE_INVALID", TRUE,
          [b EXCEPT !.tamperDelivery = TRUE]),
     Mode("webhook-delivery-exhaustion", "DELIVERY", "RETRY_EXHAUSTED", TRUE,
          [b EXCEPT !.emitEventCount = 1, !.transportScript = <<"CLEAN">>])}

RetryModes(b) ==
    {Mode("retry-clean-retryable", "PLAN", "CLEAN_RETRY", FALSE,
          [b EXCEPT !.downstream = "FAILS_ONCE_THEN_HEALTHY", !.presentations = 2]),
     Mode("retry-ambiguous-reconcile", "PLAN", "AMBIGUOUS_RECONCILE", TRUE,
          [b EXCEPT !.receiptFault = "OMIT"]),
     Mode("retry-terminal-classification", "PLAN", "TERMINAL", TRUE,
          [b EXCEPT !.flaw = "SIGNATURE"]),
     Mode("retry-exhaustion-schedule-bound", "PLAN", "EXHAUSTED", TRUE,
          [b EXCEPT !.downstream = "UNAVAILABLE", !.presentations = 5])}

ReconciliationModes(b) ==
    LET ambiguous == [b EXCEPT !.transportScript = <<"AMBIGUOUS", "OK">>]
    IN  {Mode("reconciliation-resolve", "SPAN", "RESOLVED", FALSE,
              [ambiguous EXCEPT !.reconcile = "RESOLVE"]),
         Mode("reconciliation-escalate", "SPAN", "REQUIRED_UNRESOLVED", TRUE,
              [ambiguous EXCEPT !.reconcile = "ESCALATE"])}

CircuitModes(b) ==
    {Mode("circuit-threshold-trip-open", "CIRCUIT", "CIRCUIT_OPEN", TRUE,
          [b EXCEPT !.circuit = [failureThreshold |-> 2, resetTimeout |-> 1,
                                 downstreamFailures |-> 3],
                    !.presentations = 4])}

KillSwitchModes(b) ==
    {Refusal("kill-switch-refuses-all", "PLATFORM_KILL_SWITCH",
             [b EXCEPT !.killSwitch = TRUE])}

FailureModesOf(b) ==
    SignatureModes(b) \cup ReplayModes(b) \cup ReceiptModes(b)
        \cup AuthorizationModes(b) \cup EntitlementModes(b) \cup WebhookModes(b)
        \cup RetryModes(b) \cup ReconciliationModes(b) \cup CircuitModes(b)
        \cup KillSwitchModes(b)

(* Every simulator under every mode, with the control. *)
Matrix ==
    UNION {{ControlMode(WellBehaved(id))} \cup FailureModesOf(WellBehaved(id)) :
              id \in Simulators}
===============================================================================
