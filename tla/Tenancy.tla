------------------------------- MODULE Tenancy -------------------------------
(***************************************************************************)
(* Which tenant a request runs in, and whether the X-Tenant-Id header may  *)
(* choose it.  A deployment `d' has                                        *)
(*   auth    auth.enabled                                                  *)
(*   strict  auth.require_tenant                                           *)
(*   trust   the effective auth.tenant_header_trust                        *)
(* and a request `r' has                                                   *)
(*   header  the X-Tenant-Id it sends, trimmed, or None                    *)
(*   claim   the tenant its valid bearer is bound to, or None              *)
(*   peer    "proxy" when the TCP peer is inside trusted_proxies,          *)
(*           "other" when it is not, "unknown" when no peer was recorded   *)
(***************************************************************************)
None == "none"

\* RESERVED_TENANT, the column default of rows nobody asserted a tenant for.
Default == "default"

\* The 400 and 403 answers.
Refused == "refused"

\* tenant_from_headers: a blank header is no assertion.
TenantFromHeaders(r) == IF r.header = "" THEN None ELSE r.header

\* tenant_header_trusted.
TenantHeaderTrusted(d, r) ==
    \/ d.trust = "any_peer"
    \/ d.trust = "trusted_proxies" /\ r.peer = "proxy"

\* unbound_header_tenant: an untrusted header is refused, never ignored.
UnboundHeaderTenant(d, r) ==
    LET header == TenantFromHeaders(r)
    IN  IF header = None \/ TenantHeaderTrusted(d, r) THEN header ELSE Refused

\* reconcile_tenant_sources.
ReconcileTenantSources(claim, header) ==
    IF claim = None THEN header
    ELSE IF header \in {None, claim} THEN claim ELSE Refused

\* tenant_with_claim.
TenantWithClaim(d, r, claim) ==
    LET header == TenantFromHeaders(r)
        resolved == IF d.auth /\ claim # None
                    THEN ReconcileTenantSources(claim, header)
                    ELSE UnboundHeaderTenant(d, r)
    IN  IF \/ header = Default
           \/ d.auth /\ (resolved = Default \/ (d.strict /\ resolved = None))
        THEN Refused
        ELSE resolved

\* tenant_for_request and tenant_for_principal.
TenantForRequest(d, r) == TenantWithClaim(d, r, r.claim)

\* tenant_for_publish: without a claim, the producer's configured binding.
TenantForPublish(d, r, binding) ==
    TenantWithClaim(d, r, IF r.claim # None THEN r.claim ELSE binding)

\* The value of the tenant_id column.
Column(tenant) == IF tenant = None THEN Default ELSE tenant
=============================================================================
