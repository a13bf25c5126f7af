------------------------------ MODULE MCStartup ------------------------------
(* An instance of Startup.                                                 *)
EXTENDS Startup

\* Everything on, over Postgres.
Full ==
    [Defaults EXCEPT
        !.registry.bind = "public",
        !.storage.backend = "postgres",
        !.auth.enabled = TRUE, !.auth.jwt_secret = "good",
        !.auth.admin_tokens = "good", !.auth.read_tokens = "good",
        !.rate_limit.trusted_proxies = "good", !.rate_limit.backend = "postgres",
        !.read_limits.enabled = TRUE, !.read_limits.advertise = TRUE,
        !.receipt.key = "good", !.receipt.head_receipts = TRUE,
        !.lifecycle.enabled = TRUE, !.log.enabled = TRUE,
        !.changes.enabled = TRUE, !.changes.key = "good",
        !.changes.max_change_bucket_length = 16,
        !.events.enabled = TRUE, !.keyless.enabled = TRUE, !.keyless.issuers = "good",
        !.witnesses.list = "good"]

\* Strict tenancy over SQLite, tenants bound to agents.
Tenants ==
    [Defaults EXCEPT
        !.auth.enabled = TRUE, !.auth.jwt_secret = "good",
        !.auth.tenant_agents = TRUE, !.auth.require_tenant = TRUE,
        !.lifecycle.enabled = TRUE]

InMemory == [Defaults EXCEPT !.storage.backend = "memory", !.storage.where = FALSE]

Deployed ==
    {[built |-> "sqlite", file |-> Defaults, unhashed |-> 0],
     [built |-> "sqlite", file |-> Tenants, unhashed |-> 2],
     [built |-> "postgres", file |-> Full, unhashed |-> 0],
     [built |-> "memory", file |-> InMemory, unhashed |-> 0]}

O(s, f, raw, v) == [section |-> s, setting |-> f, raw |-> raw, value |-> v]

Variables ==
    {O("auth", "jwt_secret", "empty", "empty"), O("auth", "jwt_secret", "blank", "blank"),
     O("auth", "enabled", "value", TRUE), O("playground", "pinned_keys", "blank", "blank"),
     O("receipt", "key", "value", "good")}
=============================================================================
