---------------------------- MODULE PartnerRegistry ----------------------------
(***************************************************************************)
(* The partner registry (shared/registry/partnerRegistry.ts): from the     *)
(* claims of a request to a typed refusal, or to nothing to object to.     *)
(* Records are what registration lets through; a list with unique names is *)
(* a set of records, and a version is its number.                          *)
(***************************************************************************)
EXTENDS Integers, FiniteSetsExt

CONSTANT None

Capability(name, min, max) == [capability |-> name, min |-> min, max |-> max]
Entitlement(name, status, until, capabilities) ==
    [entitlement |-> name, status |-> status, validUntil |-> until,
     capabilities |-> capabilities]
Partner(id, status, entitlements) ==
    [partnerId |-> id, status |-> status, entitlements |-> entitlements]
Binding(partner, status, entitlements) ==
    [partnerId |-> partner, status |-> status, entitlements |-> entitlements]
Org(id, status, bindings) ==
    [orgId |-> id, status |-> status, partnerBindings |-> bindings]

(* The chain, in the order in which resolve walks it. *)
Chain == <<
    "PARTNER_UNKNOWN", "PARTNER_SUSPENDED", "PARTNER_REVOKED",
    "ORG_UNKNOWN", "ORG_SUSPENDED",
    "ORG_NOT_BOUND_TO_PARTNER", "BINDING_INACTIVE", "BINDING_UNKNOWN",
    "ENTITLEMENT_MISSING", "ENTITLEMENT_INACTIVE", "ENTITLEMENT_REVOKED",
    "ENTITLEMENT_EXPIRED", "CAPABILITY_UNKNOWN", "CAPABILITY_VERSION_UNSUPPORTED">>

ChainCodes == {Chain[i] : i \in DOMAIN Chain}

Expired(e, now) ==
    \/ e.status = "EXPIRED"
    \/ e.validUntil /= None /\ now >= e.validUntil

(* Each set below has one element, or none if nothing of that name exists. *)
Fails(code, registry, claims, now) ==
    LET partner == {p \in registry.partners : p.partnerId = claims.partnerId}
        org == {o \in registry.orgs : o.orgId = claims.orgId}
        binding == {b \in UNION {o.partnerBindings : o \in org} :
                       b.partnerId = claims.partnerId}
        entitlement == {e \in UNION {p.entitlements : p \in partner} :
                           e.entitlement = claims.entitlement}
        capability == {c \in UNION {e.capabilities : e \in entitlement} :
                          c.capability = claims.capability}
    IN  CASE code = "PARTNER_UNKNOWN" -> partner = {}
          [] code = "PARTNER_SUSPENDED" -> \E p \in partner : p.status = "SUSPENDED"
          [] code = "PARTNER_REVOKED" -> \E p \in partner : p.status = "REVOKED"
          [] code = "ORG_UNKNOWN" -> org = {}
          [] code = "ORG_SUSPENDED" -> \E o \in org : o.status = "SUSPENDED"
          [] code = "ORG_NOT_BOUND_TO_PARTNER" -> binding = {}
          [] code = "BINDING_INACTIVE" -> \E b \in binding : b.status /= "ACTIVE"
          [] code = "BINDING_UNKNOWN" ->
                 \E b \in binding : claims.entitlement \notin b.entitlements
          [] code = "ENTITLEMENT_MISSING" -> entitlement = {}
          [] code = "ENTITLEMENT_INACTIVE" -> \E e \in entitlement : e.status = "INACTIVE"
          [] code = "ENTITLEMENT_REVOKED" -> \E e \in entitlement : e.status = "REVOKED"
          [] code = "ENTITLEMENT_EXPIRED" -> \E e \in entitlement : Expired(e, now)
          [] code = "CAPABILITY_UNKNOWN" -> capability = {}
          [] code = "CAPABILITY_VERSION_UNSUPPORTED" -> \E c \in capability : c.min > c.max

(* None, or the first failure of the chain. *)
Resolve(registry, claims, now) ==
    LET failing == {i \in DOMAIN Chain : Fails(Chain[i], registry, claims, now)}
    IN  IF failing = {} THEN None ELSE Chain[Min(failing)]
=============================================================================
