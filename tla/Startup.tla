------------------------------ MODULE Startup ------------------------------
(***************************************************************************)
(* One server process over one database, from the configuration file to    *)
(* the socket and back: load, validate, open and migrate the store, the    *)
(* lifecycle gate, the receipt sweep, the composition of the state, the    *)
(* listener, and the drain on SIGTERM.  Between two boots the operator     *)
(* edits the file or the environment, or purges lifecycle state; a crash   *)
(* or a database error may end any of it.                                  *)
(*                                                                         *)
(* The secret and certificate files do not change during a boot.  What     *)
(* RegistryServer::try_new refuses is the library's: the model has an      *)
(* authority and limits it refuses and others it accepts.                  *)
(***************************************************************************)
EXTENDS Config, Tenancy, Sequences

CONSTANTS
    Ctx,         \* the contexts of the database
    Deployments, \* [built, file, unhashed]: a build's storage feature, a first
                 \* file, and the batches a backfill of the database takes
    Overrides,   \* the environment variables that may be set
    MaxEdits,    \* bound: edits of the file and of the environment
    MaxUsed      \* bound: edits, requests, signals and faults together

ASSUME StartupAssumption ==
    /\ MaxEdits \in Nat /\ MaxUsed \in Nat
    /\ \A d \in Deployments :
          /\ IsConfig(d.file)
          /\ d.unhashed \in Nat /\ (d.built # "sqlite" => d.unhashed = 0)
    \* A variable that counts holds a value of its setting.
    /\ \A o \in Overrides : ~ Ignored(o) =>
          /\ o.section \in DOMAIN RegistryConfig
          /\ o.setting \in DOMAIN RegistryConfig[o.section]
          /\ o.value \in RegistryConfig[o.section][o.setting]

VARIABLES
    built,       \* the storage feature this binary was compiled with
    file, env,   \* the configuration file, and the variables set
    pc,          \* where the process is
    cfg,         \* the configuration it loaded
    rt,          \* what it composed
    worker,      \* the hint worker
    busy,        \* whether a request is in flight
    events,      \* lifecycle_events: whether each row of a context has a receipt
    retracted,   \* the contexts with the retracted flag
    unhashed,    \* batches of feed rows that migration 021 left without hashes
    ended,       \* why the last boot was refused, and whether it had migrated
    edits, used

vars == <<built, file, env, pc, cfg, rt, worker, busy, events, retracted,
          unhashed, ended, edits, used>>

db == <<events, retracted, unhashed>>
process == <<cfg, rt, worker, busy>>
operator == <<built, file, env, edits>>

Nothing == [built |-> FALSE]

Use == used < MaxUsed /\ used' = used + 1

Running == [why |-> "none", migrated |-> FALSE]

(***************************************************************************)
(* The end of a process, refused for a reason or not ("none").  The memory *)
(* backend ends with it.                                                   *)
(***************************************************************************)
End(why) ==
    /\ pc' = "down"
    /\ ended' = [why |-> why, migrated |-> why # "none" /\ pc # "validated"]
    /\ cfg' = Defaults /\ rt' = Nothing /\ worker' = "none" /\ busy' = FALSE
    /\ IF built = "memory"
       THEN events' = [c \in Ctx |-> <<>>] /\ retracted' = {} /\ UNCHANGED unhashed
       ELSE UNCHANGED db

Goto(step) ==
    pc' = step /\ UNCHANGED ended

(***************************************************************************)
(* The operator, while the process is down.                                *)
(***************************************************************************)
EditFile(s, f, v) ==
    /\ pc = "down" /\ edits < MaxEdits /\ file[s][f] # v /\ Use
    /\ file' = [file EXCEPT ![s][f] = v] /\ edits' = edits + 1
    /\ UNCHANGED <<built, env, pc, process, db, ended>>

SetVariable(o) ==
    /\ pc = "down" /\ edits < MaxEdits /\ env = {} /\ Use
    /\ env' = {o} /\ edits' = edits + 1
    /\ UNCHANGED <<built, file, pc, process, db, ended>>

\* The purge docs/CONFIGURATION.md describes.
Purge ==
    /\ pc = "down" /\ Use
    /\ events' = [c \in Ctx |-> <<>>] /\ retracted' = {}
    /\ UNCHANGED <<operator, pc, process, unhashed, ended>>

(***************************************************************************)
(* The boot.                                                               *)
(***************************************************************************)
\* main: load and validate_config, before anything else is touched.  A
\* configuration it refuses changes nothing.
Start ==
    /\ pc = "down"
    /\ \E c \in {Load(file, env)} :
          ValidateConfig(c) /\ cfg' = c
    /\ pc' = "validated" /\ ended' = Running
    /\ UNCHANGED <<operator, rt, worker, busy, db, used>>

\* run: the build's backend, its path or URL and the minter come before the
\* store; then connect, and the SQL half of migrate.
Open ==
    /\ pc = "validated"
    /\ IF /\ cfg.storage.backend = built
          /\ built # "memory" => cfg.storage.where
          /\ EventReceiptsGate(cfg) => SignerBuilds(cfg)
       THEN Goto("migrating") /\ UNCHANGED <<process, db>>
       ELSE End("build")
    /\ UNCHANGED <<operator, used>>

\* backfill_hashes, the other half on SQLite: one batch, one transaction.
Backfill ==
    /\ pc = "migrating" /\ unhashed > 0
    /\ unhashed' = unhashed - 1
    /\ UNCHANGED <<operator, pc, process, events, retracted, ended, used>>

\* migrate returns once no row lacks a hash.
Migrated ==
    /\ pc = "migrating" /\ unhashed = 0
    /\ Goto("migrated")
    /\ UNCHANGED <<operator, process, db, used>>

\* Mutant: only the flag of a retracted context counts.
HasLifecycleState_FlagOnly == retracted # {}

\* has_lifecycle_state; the memory backend keeps the trait's FALSE.
HasLifecycleState ==
    built # "memory" /\ (retracted # {} \/ \E c \in Ctx : events[c] # <<>>)

\* lifecycle_state_gate.
Gate ==
    /\ pc = "migrated"
    /\ IF HasLifecycleState /\ ~ cfg.lifecycle.enabled
       THEN End("state")
       ELSE Goto("sweeping") /\ UNCHANGED <<process, db>>
    /\ UNCHANGED <<operator, used>>

HasHole(s) == \E i, j \in DOMAIN s : i < j /\ ~ s[i] /\ s[j]

Filled(s) == [i \in DOMAIN s |-> TRUE]

\* The contexts backfill_event_receipts of a store with a minter fills.
ToSweep ==
    IF EventReceiptsGate(cfg) /\ built # "memory"
    THEN {c \in Ctx : ~ HasHole(events[c]) /\ \E i \in DOMAIN events[c] : ~ events[c][i]}
    ELSE {}

\* backfill_event_receipts: a transaction for each context.
Sweep(c) ==
    /\ pc = "sweeping" /\ c \in ToSweep
    /\ events' = [events EXCEPT ![c] = Filled(@)]
    /\ UNCHANGED <<operator, pc, process, retracted, unhashed, ended, used>>

\* Mutant: a sweep that stops early is only logged.
SweepDone_Partial ==
    /\ pc = "sweeping"
    /\ Goto("swept")
    /\ UNCHANGED <<operator, process, db, used>>

SweepDone ==
    /\ pc = "sweeping" /\ ToSweep = {}
    /\ Goto("swept")
    /\ UNCHANGED <<operator, process, db, used>>

\* What serve_with_store and AppStateInner::try_new build.  A log, a feed
\* key or a DID document that does not build is left out, with an error log.
Runtime(c) ==
    [built |-> TRUE, signer |-> IsConfigured(c), did |-> IsConfigured(c) /\ DidDocumentBuilds(c),
     log |-> LogState(c), changes |-> ChangesState(c), keyless |-> KeylessState(c),
     minter |-> EventReceiptsGate(c), jwt |-> JwtKey(c), limiters |-> ReadLimiters(c),
     routes |-> {r \in {"auth", "metrics"} :
                    IF r = "auth" THEN c.auth.enabled ELSE c.metrics.enabled}]

\* serve_with_store from the capabilities to the router.  The hint worker
\* starts exactly when there is an events key.
Compose ==
    /\ pc = "swept"
    /\ IF ~ ServerAccepts(cfg) THEN End("server")
       ELSE IF Composes(cfg)
       THEN /\ rt' = Runtime(cfg)
            /\ worker' = IF EventsKey(cfg) THEN "idle" ELSE "none"
            /\ Goto("composed") /\ UNCHANGED <<cfg, busy, db>>
       ELSE End("late")
    /\ UNCHANGED <<operator, used>>

\* resolve_bind_addr and RustlsConfig::from_pem_file.
Bind ==
    /\ pc = "composed"
    /\ IF ~ BindAddrResolves(cfg) THEN End("bind")
       ELSE IF cfg.registry.tls = "garbled" THEN End("tls")
       ELSE Goto("serving") /\ UNCHANGED <<process, db>>
    /\ UNCHANGED <<operator, used>>

\* serve finds the port taken.
PortTaken ==
    /\ pc = "composed" /\ BindAddrResolves(cfg) /\ cfg.registry.tls # "garbled" /\ Use
    /\ End("port")
    /\ UNCHANGED operator

\* A store call of the boot fails.
DatabaseError ==
    /\ pc \in {"validated", "migrating", "migrated", "sweeping"} /\ built # "memory" /\ Use
    /\ End("database")
    /\ UNCHANGED operator

(***************************************************************************)
(* Serving.                                                                *)
(***************************************************************************)
\* plan_event_receipts: a minter fills what is missing, then the new row.
WithEvent(s) ==
    Append(IF rt.minter /\ ~ HasHole(s) THEN Filled(s) ELSE s, rt.minter)

\* The routes answer 501 while lifecycle is off.
Retract(c) ==
    /\ pc \in {"serving", "draining"} /\ cfg.lifecycle.enabled /\ c \notin retracted /\ Use
    /\ events' = [events EXCEPT ![c] = WithEvent(@)]
    /\ retracted' = retracted \cup {c}
    /\ UNCHANGED <<operator, pc, process, unhashed, ended>>

Republish(c) ==
    /\ pc \in {"serving", "draining"} /\ cfg.lifecycle.enabled /\ c \in retracted /\ Use
    /\ events' = [events EXCEPT ![c] = WithEvent(@)]
    /\ retracted' = retracted \ {c}
    /\ UNCHANGED <<operator, pc, process, unhashed, ended>>

BeginRequest ==
    /\ pc = "serving" /\ ~ busy /\ Use
    /\ busy' = TRUE
    /\ UNCHANGED <<operator, pc, cfg, rt, worker, db, ended>>

EndRequest ==
    /\ busy /\ busy' = FALSE
    /\ UNCHANGED <<operator, pc, cfg, rt, worker, db, ended, used>>

\* The worker claims nothing once it is told to stop.
Claim ==
    /\ pc = "serving" /\ worker = "idle" /\ Use
    /\ worker' = "delivering"
    /\ UNCHANGED <<operator, pc, cfg, rt, busy, db, ended>>

Delivered ==
    /\ worker = "delivering" /\ worker' = "idle"
    /\ UNCHANGED <<operator, pc, cfg, rt, busy, db, ended, used>>

WorkerStops ==
    /\ pc \in {"draining", "joining"} /\ worker = "idle"
    /\ worker' = "stopped"
    /\ UNCHANGED <<operator, pc, cfg, rt, busy, db, ended, used>>

\* spawn_shutdown_watcher.
Sigterm ==
    /\ pc = "serving" /\ Use
    /\ Goto("draining")
    /\ UNCHANGED <<operator, process, db>>

\* graceful_shutdown: the requests end, or thirty seconds pass.
Drained(graceOver) ==
    /\ pc = "draining" /\ (graceOver \/ ~ busy)
    /\ Goto("joining") /\ busy' = FALSE
    /\ UNCHANGED <<operator, cfg, rt, worker, db, used>>

\* The worker is awaited for LEASE_MS at most.
Join(leaseOver) ==
    /\ pc = "joining" /\ (leaseOver \/ worker \in {"none", "stopped"})
    /\ End("none")
    /\ UNCHANGED <<operator, used>>

Crash ==
    /\ pc # "down" /\ Use
    /\ End("none")
    /\ UNCHANGED operator

(***************************************************************************)
(* The system.                                                             *)
(***************************************************************************)
Init ==
    /\ \E d \in Deployments : built = d.built /\ file = d.file /\ unhashed = d.unhashed
    /\ env = {} /\ pc = "down" /\ cfg = Defaults /\ rt = Nothing
    /\ worker = "none" /\ busy = FALSE
    /\ events = [c \in Ctx |-> <<>>] /\ retracted = {}
    /\ ended = Running
    /\ edits = 0 /\ used = 0

Boot ==
    Start \/ Open \/ Backfill \/ Migrated \/ Gate \/ (\E c \in Ctx : Sweep(c)) \/ SweepDone \/ Compose \/ Bind

Stop == \E over \in BOOLEAN : Drained(over) \/ Join(over)

Next ==
    \/ \E s \in DOMAIN RegistryConfig :
          \E f \in DOMAIN RegistryConfig[s] :
              \E v \in RegistryConfig[s][f] : EditFile(s, f, v)
    \/ \E o \in Overrides : SetVariable(o)
    \/ Purge \/ Boot \/ PortTaken \/ DatabaseError
    \/ \E c \in Ctx : Retract(c) \/ Republish(c)
    \/ BeginRequest \/ EndRequest \/ Claim \/ Delivered \/ WorkerStops
    \/ Sigterm \/ Stop \/ Crash

Spec == Init /\ [][Next]_vars

(***************************************************************************)
(* Properties.                                                             *)
(***************************************************************************)
\* What honouring a profile takes of the running process.
Honoured(p) ==
    CASE p = "receipts" -> rt.signer /\ rt.did
      [] p = "head-receipts" -> rt.signer
      [] p = "lifecycle" -> cfg.lifecycle.enabled
      [] p = "transparency-log" -> rt.log /\ rt.signer /\ built # "memory"
      [] p = "changes" -> rt.changes /\ rt.minter /\ built # "memory"
      [] p = "events" -> worker # "none" /\ rt.changes /\ "auth" \in rt.routes
      [] p = "keyless" -> rt.keyless /\ rt.minter /\ rt.log
      [] OTHER -> FALSE

\* A serving process has what each profile, limit and read method of its
\* capabilities promises: nothing advertised answers 501, is unsigned or is
\* kept in memory only, although the state drops what does not build.
AdvertisedIsHonoured ==
    pc = "serving" =>
        /\ \A p \in Profiles(cfg) : Honoured(p)
        /\ AdvertisesReads(cfg) => "principal" \in rt.limiters
        /\ AdvertisesAnonymousReads(cfg) => "anonymous" \in rt.limiters
        /\ AdvertisesBuckets(cfg) => rt.changes
        /\ ReadAuthenticationMethods(cfg) # {} => "auth" \in rt.routes

\* Reasons that are no setting: what the database holds, that it fails, and
\* who else listens on the port.
OutsideTheSettings == {"state", "database", "port"}

\* The settings validate_config accepts whatever they hold, or without a look
\* at all of it: the authority and [limits] (RegistryServer::try_new refuses
\* them), a bind that is no IP literal (resolve_bind_addr), and the contents
\* of the PEM files (from_pem_file).
UncheckedSettings == {"server", "bind", "tls"}

\* A boot that has migrated the database is refused for no setting but an
\* unchecked one: whatever validate_config checks, it checks as
\* serve_with_store will, also where that does so whether or not the feature
\* is on.  It is less than the comment in main asks for, that every fixable
\* misconfiguration surface before the migrations.
NothingLeftToRefuse ==
    ended.migrated => ended.why \in OutsideTheSettings \cup UncheckedSettings

\* A process without [lifecycle] never has an event or a retraction to
\* show: not after any sequence of boots under other settings.
LifecycleOffShowsNothing ==
    pc \in {"serving", "draining"} /\ ~ cfg.lifecycle.enabled =>
        retracted = {} /\ \A c \in Ctx : events[c] = <<>>

\* A process that mints event receipts serves no event without one, and
\* none serves a feed row that no bucket finds, also when the sweep or the
\* backfill of an earlier boot was cut short.
SweptBeforeServing ==
    pc \in {"serving", "draining"} =>
        /\ unhashed = 0
        /\ rt.minter => \A c \in Ctx : \A i \in DOMAIN events[c] : events[c][i]

\* The requests a client may send to this deployment: a claim needs a token
\* the registry issued to a bound agent, or a static one with a tenant.
Possible ==
    {r \in [header : {None, "acme"}, claim : {None, "acme"}, peer : {"proxy", "other"}] :
        /\ r.claim # None => cfg.auth.enabled /\ (cfg.auth.tenant_agents \/ cfg.auth.read_tokens = "tenant")
        /\ r.peer = "proxy" => cfg.rate_limit.trusted_proxies = "good"}

\* A registry that is up can serve somebody, whatever its tenancy settings:
\* some request is scoped, and the store can answer for its tenant.
SomeoneIsServed ==
    pc = "serving" =>
        \E r \in Possible :
            LET t == TenantForRequest([auth |-> cfg.auth.enabled,
                                       strict |-> cfg.auth.require_tenant,
                                       trust |-> cfg.auth.tenant_header_trust], r)
            IN  t # Refused /\ (t # None => built # "memory")

\* The key that signs tokens is the configured one, unless auth is off or
\* the operator accepted that tokens end with the process.
TokensOutliveTheProcess ==
    pc = "serving" /\ cfg.auth.enabled =>
        rt.jwt = "configured" \/ cfg.auth.allow_ephemeral_secret

\* A process that serves keeps its word: what it advertises works, somebody
\* can be served, and tokens outlive it as configured.
ServingKeepsPromises ==
    AdvertisedIsHonoured /\ SomeoneIsServed /\ TokensOutliveTheProcess

\* A boot ends with nothing half done: after the schema has moved, no setting
\* is refused but the authority, [limits], the bind address and the contents of
\* the PEM files, which validate_config leaves to their users; and what an
\* earlier boot left unfinished, or stored under other settings, is finished or
\* refused before anything is served.
BootsCleanly == NothingLeftToRefuse /\ SweptBeforeServing /\ LifecycleOffShowsNothing
=============================================================================
