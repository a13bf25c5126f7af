------------------------------- MODULE Config -------------------------------
(***************************************************************************)
(* The configuration of the server: its sections, how a file and the       *)
(* environment make one, which ones the binary refuses before it touches   *)
(* the database, and what one makes the registry advertise and build.      *)
(*                                                                         *)
(* A setting is a member of a small set, one value for each way the code   *)
(* tells its values apart.                                                 *)
(***************************************************************************)
EXTENDS Integers

\* REGISTRY_ADVERTISABLE_PROFILES, beyond core and discovery.
Advertisable ==
    {"receipts", "head-receipts", "lifecycle", "transparency-log", "changes",
     "events", "keyless"}

(***************************************************************************)
(* The sections, each a record of the sets its settings range over.        *)
(***************************************************************************)
CorsConfig == {"none", "origins", "public_reads", "both"}

\* "garbled": the files exist and are not PEM.
TlsConfig == {"off", "good", "garbled", "missing"}

\* authority: "no_did" makes a DID that nothing of the library takes,
\* "no_server" one that only RegistryServer::try_new refuses.
RegistrySection ==
    [authority |-> {"good", "no_server", "no_did"},
     bind |-> {"loopback", "localhost", "public", "garbled"},
     allow_public_bind |-> BOOLEAN,
     profiles |-> {{}} \cup {{p} : p \in Advertisable \cup {"log-witness"}},
     cors |-> CorsConfig, tls |-> TlsConfig]

\* "where" is the path or the URL of the backend.
StorageConfig == [backend |-> {"sqlite", "postgres", "memory"}, where |-> BOOLEAN]

\* One entry of auth.read_tokens, or none.
ReadTokenEntry == {"none", "good", "expired", "tenant", "malformed"}

TenantHeaderTrust == {"none", "trusted_proxies", "any_peer"}

AuthConfig ==
    [enabled |-> BOOLEAN,
     did_methods |-> {{"did:web"}, {"did:web", "did:key"}, {"did:key"}, {"did:web", "did:ion"}},
     jwt_signing_alg |-> {"HS256", "EdDSA", "RS256"},
     jwt_secret |-> {"empty", "blank", "changeme", "short", "good"},
     jwt_private_key_pem |-> {"empty", "garbled", "good"},
     allow_ephemeral_secret |-> BOOLEAN,
     anonymous_public_reads |-> BOOLEAN,
     admin_tokens |-> {"none", "good", "blank", "padded"},
     tenant_agents |-> BOOLEAN, require_tenant |-> BOOLEAN,
     tenant_header_trust |-> TenantHeaderTrust,
     read_tokens |-> ReadTokenEntry,
     max_read_tokens_per_did |-> {1, 5}]

WebhookConfig ==
    [enabled |-> BOOLEAN, url |-> {"empty", "refused", "good"}, secret |-> {"blank", "good"}]

RateLimitConfig ==
    [enabled |-> BOOLEAN, global_per_minute |-> {0, 6000},
     trusted_proxies |-> {"none", "good", "garbled", "all"},
     forwarded_header_trust |-> {"trusted_proxies", "any_peer"},
     forwarded_skip_rightmost |-> {0, 4, 5},
     backend |-> {"memory", "postgres"},
     backend_timeout_ms |-> {0, 250}, backend_prune_seconds |-> {0, 300}]

ReadLimitsConfig ==
    [enabled |-> BOOLEAN, anonymous_per_minute |-> {0, 600},
     authenticated_per_minute |-> {0, 1200}, advertise |-> BOOLEAN]

\* The sizes and the TTL the capabilities advertise, taken together: whether
\* RegistryServer::try_new accepts them.  No other number of [limits] matters
\* to a boot.
LimitsConfig == [advertised |-> {"good", "refused"}]

MetricsConfig ==
    [enabled |-> BOOLEAN, bearer_token |-> {"empty", "blank", "good"},
     duration_buckets |-> {"increasing", "empty", "unordered"}]

PlaygroundConfig ==
    [enabled |-> BOOLEAN, pinned_keys |-> {"none", "good", "malformed"},
     pinned_only |-> BOOLEAN]

\* "both": an inline key and a path.
KeySource == {"none", "good", "both", "garbled"}

ReceiptConfig ==
    [key |-> KeySource, key_id_fragment |-> {"good", "bad"},
     retired_keys |-> {"none", "good", "garbled"}, head_receipts |-> BOOLEAN]

LifecycleConfig == [enabled |-> BOOLEAN]

LogConfig == [enabled |-> BOOLEAN, instance |-> {"good", "bad"}]

\* "seed": the receipt signing seed again.
ChangesConfig ==
    [enabled |-> BOOLEAN, key |-> KeySource \cup {"seed"},
     retention |-> {"30 days", "less"}, prune_interval_seconds |-> {0, 3600},
     max_change_filters |-> {99, 100, 1000, 1001},
     max_changes_page |-> {99, 100, 1000, 1001},
     max_change_bucket_length |-> {0, 3, 4, 16, 17}]

EventsConfig == [enabled |-> BOOLEAN, max_subscriptions_per_requester |-> {0, 10}]

KeylessConfig ==
    [enabled |-> BOOLEAN, max_attestation_ttl_seconds |-> {59, 600, 3601},
     jwks_cache_ttl_seconds |-> {59, 300, 3601}, jwks_max_stale |-> {"week", "more"},
     fetch_timeout_ms |-> {99, 5000}, max_fetch_bytes |-> {1023, 65536},
     issuers |-> {"none", "good", "twice", "garbled"}]

\* One witness, or none.
WitnessConfig == {"none", "good", "did:key", "refused"}

RegistryConfig ==
    [registry |-> RegistrySection, storage |-> StorageConfig, auth |-> AuthConfig,
     webhook |-> WebhookConfig, rate_limit |-> RateLimitConfig,
     limits |-> LimitsConfig, read_limits |-> ReadLimitsConfig, metrics |-> MetricsConfig,
     playground |-> PlaygroundConfig, receipt |-> ReceiptConfig,
     lifecycle |-> LifecycleConfig, log |-> LogConfig, changes |-> ChangesConfig,
     events |-> EventsConfig, keyless |-> KeylessConfig,
     witnesses |-> [list |-> WitnessConfig]]

\* A configuration has every section, every setting of a section, and for
\* each setting one of its values.
IsConfig(c) ==
    /\ DOMAIN c = DOMAIN RegistryConfig
    /\ \A s \in DOMAIN RegistryConfig :
          /\ DOMAIN c[s] = DOMAIN RegistryConfig[s]
          /\ \A f \in DOMAIN RegistryConfig[s] : c[s][f] \in RegistryConfig[s][f]

(***************************************************************************)
(* The defaults.                                                           *)
(***************************************************************************)
DefaultAuth ==
    [enabled |-> FALSE, did_methods |-> {"did:web"}, jwt_signing_alg |-> "HS256",
     jwt_secret |-> "empty", jwt_private_key_pem |-> "empty",
     allow_ephemeral_secret |-> FALSE, anonymous_public_reads |-> FALSE,
     admin_tokens |-> "none", tenant_agents |-> FALSE, require_tenant |-> FALSE,
     tenant_header_trust |-> "none", read_tokens |-> "none",
     max_read_tokens_per_did |-> 5]

DefaultWebhook == [enabled |-> FALSE, url |-> "empty", secret |-> "blank"]

DefaultRateLimit ==
    [enabled |-> TRUE, global_per_minute |-> 6000, trusted_proxies |-> "none",
     forwarded_header_trust |-> "trusted_proxies", forwarded_skip_rightmost |-> 0,
     backend |-> "memory", backend_timeout_ms |-> 250, backend_prune_seconds |-> 300]

DefaultReadLimits ==
    [enabled |-> FALSE, anonymous_per_minute |-> 600, authenticated_per_minute |-> 1200,
     advertise |-> FALSE]

DefaultMetrics ==
    [enabled |-> FALSE, bearer_token |-> "empty", duration_buckets |-> "increasing"]

DefaultReceipt ==
    [key |-> "none", key_id_fragment |-> "good", retired_keys |-> "none",
     head_receipts |-> FALSE]

DefaultLog == [enabled |-> FALSE, instance |-> "good"]

DefaultChanges ==
    [enabled |-> FALSE, key |-> "none", retention |-> "30 days",
     prune_interval_seconds |-> 3600, max_change_filters |-> 100,
     max_changes_page |-> 100, max_change_bucket_length |-> 0]

DefaultEvents == [enabled |-> FALSE, max_subscriptions_per_requester |-> 10]

DefaultKeyless ==
    [enabled |-> FALSE, max_attestation_ttl_seconds |-> 600,
     jwks_cache_ttl_seconds |-> 300, jwks_max_stale |-> "week",
     fetch_timeout_ms |-> 5000, max_fetch_bytes |-> 65536, issuers |-> "none"]

Defaults ==
    [registry |-> [authority |-> "good", bind |-> "loopback", allow_public_bind |-> FALSE,
                   profiles |-> {}, cors |-> "none", tls |-> "off"],
     storage |-> [backend |-> "sqlite", where |-> TRUE],
     auth |-> DefaultAuth, webhook |-> DefaultWebhook,
     rate_limit |-> DefaultRateLimit, limits |-> [advertised |-> "good"],
     read_limits |-> DefaultReadLimits, metrics |-> DefaultMetrics,
     playground |-> [enabled |-> FALSE, pinned_keys |-> "none", pinned_only |-> FALSE],
     receipt |-> DefaultReceipt, lifecycle |-> [enabled |-> FALSE], log |-> DefaultLog,
     changes |-> DefaultChanges, events |-> DefaultEvents, keyless |-> DefaultKeyless,
     witnesses |-> [list |-> "none"]]

(***************************************************************************)
(* Loading.  An override is [section, setting, raw, value]: raw is "empty" *)
(* or "blank" when that is all the variable holds, "value" otherwise.      *)
(***************************************************************************)
\* The JSON escape hatches, read beside the other variables.
JsonHatch ==
    {<<"auth", "tenant_agents">>, <<"playground", "pinned_keys">>,
     <<"keyless", "issuers">>, <<"auth", "read_tokens">>}

\* What `load' passes over.
Ignored(o) ==
    \/ o.raw = "empty"
    \/ o.raw = "blank" /\ <<o.section, o.setting>> \in JsonHatch

\* empty_env_overrides_ignored: what main warns about.
EmptyEnvOverridesIgnored(env) == {o \in env : o.raw = "empty"}

\* RegistryConfig::load: the environment beats the file, the file the defaults.
Load(file, env) ==
    LET Set(s, f) ==
            {o \in env : ~ Ignored(o) /\ o.section = s /\ o.setting = f}
    IN  [s \in DOMAIN file |-> [f \in DOMAIN file[s] |->
            IF Set(s, f) = {} THEN file[s][f]
            ELSE (CHOOSE o \in Set(s, f) : TRUE).value]]

(***************************************************************************)
(* Helpers of the checks.                                                  *)
(***************************************************************************)
\* ReceiptConfig::is_configured.
IsConfigured(c) == c.receipt.key # "none"

\* load_signing_key: exactly one source, of 32 bytes.
SigningKeyLoads(c) == c.receipt.key = "good"

\* build_signer, for the DID of the authority.
SignerBuilds(c) ==
    /\ SigningKeyLoads(c) /\ c.receipt.key_id_fragment = "good"
    /\ c.registry.authority # "no_did"

\* build_did_document.
DidDocumentBuilds(c) == SignerBuilds(c) /\ c.receipt.retired_keys # "garbled"

\* ladder_claims.
LadderClaims(c) ==
    {1} \cup (IF IsConfigured(c) THEN {2} ELSE {})
        \cup (IF c.receipt.head_receipts \/ c.lifecycle.enabled \/ c.log.enabled
              THEN {3} ELSE {})
        \cup (IF c.witnesses.list # "none" THEN {4} ELSE {})

\* acdp_version_claim, the minor version: anchors claim 5 always.
AcdpVersion(c) ==
    LET claims == LadderClaims(c) \cup {5}
    IN  CHOOSE v \in claims : \A w \in claims : w <= v

\* event_receipts_gate.
EventReceiptsGate(c) ==
    c.lifecycle.enabled /\ IsConfigured(c) /\ AcdpVersion(c) >= 5

\* load_changes_key: a key equal to the receipt seed is refused when that
\* seed loads; a key that only equals a broken seed passes.
ChangesKeyLoads(c) ==
    \/ c.changes.key = "good"
    \/ c.changes.key = "seed" /\ ~ SigningKeyLoads(c)

\* is_loopback_bind.
IsLoopbackBind(c) == c.registry.bind \in {"loopback", "localhost"}

\* resolve_bind_addr takes IP literals only.
BindAddrResolves(c) == c.registry.bind \in {"loopback", "public"}

Lists(c, profile) == profile \in c.registry.profiles

(***************************************************************************)
(* validate_config, check by check and in its order.                       *)
(***************************************************************************)
CorsOk(c) == c.registry.cors # "both"

AlgOk(c) == c.auth.enabled => c.auth.jwt_signing_alg \in {"HS256", "EdDSA"}

\* Mutant: nobody notices that the secret is missing.
SecretPresent_Never(c) == TRUE

SecretPresent(c) ==
    ~ (/\ c.auth.enabled /\ c.auth.jwt_signing_alg # "EdDSA"
       /\ c.auth.jwt_secret \in {"empty", "blank"} /\ ~ c.auth.allow_ephemeral_secret)

\* Mutant: checked only while auth is on.
SecretUsable_AuthOnly(c) ==
    c.auth.enabled /\ c.auth.jwt_signing_alg # "EdDSA" => c.auth.jwt_secret \in {"empty", "good"}

\* Whether or not auth is on.
SecretUsable(c) ==
    c.auth.jwt_signing_alg # "EdDSA" => c.auth.jwt_secret \in {"empty", "good"}

PemUsable(c) ==
    c.auth.jwt_signing_alg = "EdDSA" => c.auth.jwt_private_key_pem = "good"

AdminTokensOk(c) == c.auth.admin_tokens \in {"none", "good"}

WebhookOk(c) ==
    c.webhook.enabled => c.webhook.url = "good" /\ c.webhook.secret = "good"

TenantAgentsOk(c) == c.auth.tenant_agents => c.auth.require_tenant

TenancyStored(c) ==
    c.auth.tenant_agents \/ c.auth.require_tenant => c.storage.backend # "memory"

DidMethodsOk(c) ==
    "did:web" \in c.auth.did_methods /\ c.auth.did_methods \subseteq {"did:web", "did:key"}

\* validate_playground_config.
PlaygroundOk(c) ==
    /\ c.playground.pinned_keys # "malformed"
    /\ ~ (IsConfigured(c) /\ c.playground.enabled /\ ~ c.playground.pinned_only)
    /\ ~ (/\ c.playground.enabled /\ c.playground.pinned_only
          /\ c.playground.pinned_keys = "none")

ReceiptOk(c) == IsConfigured(c) => SignerBuilds(c) /\ DidDocumentBuilds(c)

ProfilesKnown(c) == c.registry.profiles \subseteq Advertisable

ReceiptsProfileOk(c) == Lists(c, "receipts") => IsConfigured(c)

HeadReceiptsOk(c) == c.receipt.head_receipts => IsConfigured(c)

HeadProfileOk(c) == Lists(c, "head-receipts") => c.receipt.head_receipts

LifecycleProfileOk(c) == Lists(c, "lifecycle") => c.lifecycle.enabled

ChangesProfileOk(c) == Lists(c, "changes") => c.changes.enabled

\* KeylessConfig::validate.
KeylessSectionOk(c) ==
    /\ c.keyless.max_attestation_ttl_seconds \in 60..3600
    /\ c.keyless.jwks_cache_ttl_seconds \in 60..3600
    /\ c.keyless.jwks_max_stale = "week"
    /\ c.keyless.fetch_timeout_ms >= 100 /\ c.keyless.max_fetch_bytes >= 1024
    /\ c.keyless.issuers = "good"

\* validate_keyless_at.
KeylessOk(c) ==
    /\ Lists(c, "keyless") => c.keyless.enabled
    /\ c.keyless.enabled =>
          KeylessSectionOk(c) /\ EventReceiptsGate(c) /\ c.log.enabled

\* validate_changes_retention, whether or not the feed is served.
RetentionOk(c) ==
    c.changes.retention = "30 days" /\ c.changes.prune_interval_seconds > 0

\* change_bucket_length_checks; 0 stands for unset.
BucketLengthOk(c) ==
    c.changes.max_change_bucket_length # 0 =>
        c.changes.max_change_bucket_length \in 4..16 /\ c.changes.enabled

\* Mutant: without the check of the key.
ChangesOk_NoKey(c) ==
    c.changes.enabled =>
        /\ EventReceiptsGate(c) /\ c.storage.backend # "memory"
        /\ {c.changes.max_change_filters, c.changes.max_changes_page} \subseteq 100..1000

\* validate_changes.
ChangesOk(c) ==
    c.changes.enabled =>
        /\ EventReceiptsGate(c) /\ c.storage.backend # "memory"
        /\ {c.changes.max_change_filters, c.changes.max_changes_page} \subseteq 100..1000
        /\ ChangesKeyLoads(c)

\* validate_events.
EventsOk(c) ==
    /\ Lists(c, "events") => c.events.enabled
    /\ c.events.enabled =>
          /\ c.changes.enabled /\ c.auth.enabled
          /\ c.events.max_subscriptions_per_requester > 0

LogOk(c) ==
    /\ c.log.enabled =>
          /\ IsConfigured(c) /\ c.storage.backend # "memory"
          /\ c.log.instance = "good" /\ c.registry.authority # "no_did"
    /\ Lists(c, "transparency-log") => c.log.enabled

WitnessesOk(c) ==
    c.witnesses.list # "none" => c.log.enabled /\ c.witnesses.list = "good"

PublicBindOk(c) ==
    \/ IsLoopbackBind(c) \/ c.registry.tls # "off" \/ c.auth.enabled
    \/ c.registry.allow_public_bind

\* TrustedProxies::parse and refuse_match_all_trusted_proxies.
ProxiesParse(c) == c.rate_limit.trusted_proxies \in {"none", "good"}

ProxiesUsed(c) ==
    c.rate_limit.trusted_proxies # "none" =>
        \/ c.rate_limit.enabled \/ c.read_limits.enabled
        \/ c.auth.tenant_header_trust = "trusted_proxies"

\* Mutant: strict mode is not asked where a tenant could come from.
TenantHeaderTrustOk_AnySource(c) ==
    c.auth.tenant_header_trust = "trusted_proxies" => c.rate_limit.trusted_proxies # "none"

\* tenant_header_trust_checks.
TenantHeaderTrustOk(c) ==
    /\ c.auth.tenant_header_trust = "trusted_proxies" => c.rate_limit.trusted_proxies # "none"
    /\ ~ (/\ c.auth.require_tenant /\ ~ c.auth.tenant_agents
          /\ c.auth.tenant_header_trust = "none")

\* read_limit_checks.
ReadLimitsOk(c) ==
    /\ c.read_limits.enabled =>
          c.read_limits.anonymous_per_minute > 0 \/ c.read_limits.authenticated_per_minute > 0
    /\ c.read_limits.advertise => c.read_limits.enabled
    /\ c.rate_limit.forwarded_skip_rightmost <= 4
    /\ c.rate_limit.forwarded_skip_rightmost > 0 =>
          \/ c.rate_limit.forwarded_header_trust = "any_peer"
          \/ c.rate_limit.trusted_proxies # "none"

\* read_token_checks; an expired entry only warns.
ReadTokensOk(c) ==
    c.auth.read_tokens # "none" =>
        /\ c.auth.enabled /\ c.auth.max_read_tokens_per_did >= 2
        /\ c.auth.read_tokens # "malformed"

\* validate_shared_rate_limit.
SharedRateLimitOk(c) ==
    c.rate_limit.backend = "postgres" =>
        /\ c.storage.backend = "postgres" /\ c.rate_limit.enabled
        /\ c.rate_limit.global_per_minute > 0
        /\ c.rate_limit.backend_timeout_ms > 0 /\ c.rate_limit.backend_prune_seconds > 0

MetricsOk(c) ==
    c.metrics.enabled =>
        c.metrics.bearer_token # "blank" /\ c.metrics.duration_buckets = "increasing"

\* The files must exist; they are not read.
TlsOk(c) == c.registry.tls # "missing"

ValidateConfig(c) ==
    /\ CorsOk(c) /\ AlgOk(c) /\ SecretPresent(c) /\ SecretUsable(c) /\ PemUsable(c)
    /\ AdminTokensOk(c) /\ WebhookOk(c) /\ TenantAgentsOk(c) /\ TenancyStored(c)
    /\ DidMethodsOk(c) /\ PlaygroundOk(c) /\ ReceiptOk(c) /\ ProfilesKnown(c)
    /\ ReceiptsProfileOk(c) /\ HeadReceiptsOk(c) /\ HeadProfileOk(c)
    /\ LifecycleProfileOk(c) /\ ChangesProfileOk(c) /\ KeylessOk(c) /\ RetentionOk(c)
    /\ BucketLengthOk(c) /\ ChangesOk(c) /\ EventsOk(c) /\ LogOk(c) /\ WitnessesOk(c)
    /\ PublicBindOk(c) /\ ProxiesParse(c) /\ ProxiesUsed(c) /\ TenantHeaderTrustOk(c)
    /\ ReadLimitsOk(c) /\ ReadTokensOk(c) /\ SharedRateLimitOk(c) /\ MetricsOk(c)
    /\ TlsOk(c)

(***************************************************************************)
(* What is advertised.                                                     *)
(***************************************************************************)
\* build_capabilities and the with_* builders.
Profiles(c) ==
    c.registry.profiles
      \cup {p \in Advertisable :
              \/ p = "transparency-log" /\ c.log.enabled
              \/ p = "changes" /\ c.changes.enabled
              \/ p = "events" /\ c.events.enabled
              \/ p = "keyless" /\ c.keyless.enabled
              \/ p = "receipts" /\ IsConfigured(c)
              \/ p = "head-receipts" /\ c.receipt.head_receipts
              \/ p = "lifecycle" /\ c.lifecycle.enabled}

\* advertised_reads_per_minute.
AdvertisesReads(c) ==
    /\ c.read_limits.advertise /\ c.read_limits.enabled /\ c.auth.enabled
    /\ c.read_limits.authenticated_per_minute > 0

\* advertised_anonymous_reads_per_minute.
AdvertisesAnonymousReads(c) ==
    /\ c.read_limits.advertise /\ c.read_limits.enabled
    /\ c.auth.anonymous_public_reads /\ c.read_limits.anonymous_per_minute > 0

\* advertised_change_bucket_length.
AdvertisesBuckets(c) == c.changes.max_change_bucket_length # 0 /\ c.changes.enabled

\* read_authentication_methods; an entry whose hash does not parse is dropped.
ReadAuthenticationMethods(c) ==
    {m \in {"bearer_jwt", "bearer_static"} :
        c.auth.enabled /\ (m = "bearer_static" => c.auth.read_tokens \notin {"none", "malformed"})}

(***************************************************************************)
(* What is built.  These constructors answer None where the configuration  *)
(* does not let them build; only the keyless one makes the boot fail.      *)
(***************************************************************************)
\* LogState::from_config, its error dropped.
LogState(c) == c.log.enabled /\ SignerBuilds(c) /\ c.log.instance = "good"

\* AppStateInner::changes.
ChangesState(c) == c.changes.enabled /\ ChangesKeyLoads(c)

\* events_key.
EventsKey(c) == c.events.enabled /\ ChangesState(c)

\* KeylessState::from_config.
KeylessState(c) == c.keyless.enabled /\ SignerBuilds(c)

\* The JWT signer of serve_with_store: where its key comes from.
JwtKey(c) ==
    IF c.auth.jwt_signing_alg = "EdDSA"
    THEN IF c.auth.jwt_private_key_pem = "good" THEN "configured" ELSE "refused"
    ELSE IF c.auth.jwt_secret = "empty" THEN "ephemeral"
    ELSE IF c.auth.jwt_secret = "good" THEN "configured" ELSE "refused"

\* The read limiters of AppStateInner.
ReadLimiters(c) ==
    {l \in {"anonymous", "principal"} :
        /\ c.read_limits.enabled
        /\ (IF l = "anonymous" THEN c.read_limits.anonymous_per_minute
            ELSE c.read_limits.authenticated_per_minute) > 0}

(***************************************************************************)
(* What serve_with_store can still refuse once the store is open.          *)
(***************************************************************************)
\* RegistryServer::try_new, of what validate_config does not look at: the
\* authority and the numbers of [limits].  The library decides.
ServerAccepts(c) ==
    c.registry.authority = "good" /\ c.limits.advertised = "good"

\* The rest: a read ceiling of zero, which try_new refuses in any capabilities
\* document; the SDK builders, the JWT signer, the webhook worker, the state.
Composes(c) ==
    /\ AdvertisesReads(c) => c.read_limits.authenticated_per_minute > 0
    /\ AdvertisesAnonymousReads(c) => c.read_limits.anonymous_per_minute > 0
    /\ IsConfigured(c) => SignerBuilds(c)
    /\ c.receipt.head_receipts => IsConfigured(c)
    /\ JwtKey(c) # "refused"
    /\ c.webhook.enabled /\ c.webhook.url # "empty" =>
          c.webhook.url = "good" /\ c.webhook.secret = "good"
    /\ c.keyless.enabled => KeylessState(c)

=============================================================================
