# Verification of acdp-registry-rs

TLA+ models of the registry for the Agent Context Distribution Protocol, the
TLC runs that check them on small instances, and TLAPS proofs of its storage
contract, of the Postgres backend that implements it, of torn reads, of the
transparency log, of authentication, of keyless signing, of the publish
handlers, of search and listings, of the change feed's readers, of the rate
limits of a fleet and of start-up, for every instance. `PROJECT.json` lists components, runs, mutants,
the map from definitions to source lines, hazards and theorems.

Run a check with `tlc -workers 2 -config StorePublish.cfg MCRegistryStore`, the
proofs of a module with `tlapm RegistryStoreProofs.tla`.

## 1. The system

The registry stores signed *contexts*. A context is immutable; a new version
supersedes an old one, which makes *lineages*. A producer can retract and
republish a context by *lifecycle events*. Every publish and event can get a
signed *receipt*, every publish a leaf in a *transparency log*, and every change
to what readers may rely on (a supersession, an event, a revoked key) a row in
a *change feed*. Any number of server processes share one Postgres database; a
single process may use SQLite; a demo backend keeps everything in memory.

| Component (crate) | State | Operations | Interacts with |
| --- | --- | --- | --- |
| Store writes (`sqlite`, `pg`, rules in `store`) | contexts, idempotency records, lifecycle events, log leaves, feed rows | `commit_publish`, `commit_lifecycle_event`, the receipt sweep `backfill_ctx`, eviction of idempotency records | handlers, start-up and background tasks of `main.rs`; other processes through the database |
| Change feed storage (`sqlite`/`pg` `changes.rs`) | feed rows, `pruned_through` | append within the writing transaction, prune | store writes, pruner task |
| Context reads (`sqlite`/`pg` `store.rs`, `store/lifecycle.rs`) | none | `get`, `lineage`, `current`, the lineage audit; search and listings with cursors | race with store writes |
| Log serving (`core/handlers/log.rs`, `core/log.rs`) | head-root cache | checkpoint, inclusion and consistency proofs, entries | reads leaves that publishes append |
| Witness cosignatures (`core/witness.rs`) | stored cosignatures | one poller per witness: fetch, verify, store | log serving attaches them |
| Authentication (`auth`) | challenges, issued tokens with their tombstones, poll cursors | issue challenge, exchange it for a token, validate, revoke, evict, poll a peer's revocation feed | every handler; peers |
| Feed polling (`core/handlers/changes.rs`) | cursors held by clients | evaluate a page, refill, expire a cursor | feed storage, visibility |
| Subscriptions and hints (`core/hints.rs`) | subscriptions with leases, back-off and `last_hinted_seq` | create, claim, deliver, finish, disable, expire | feed polling, receivers |
| Publish and lifecycle handlers (`core/handlers/context.rs`, `lifecycle.rs`) | none of their own | order of limits, tenant, verification, commit, stamps and emission | all of the above |
| Webhooks (`webhook`) | a bounded queue | emit, deliver with retries | publish and lifecycle handlers |
| Rate limits (`core/rate_limit*.rs`) | fixed windows, local and shared in Postgres | peek, record, check, prune | every public route |
| Static read tokens | a table read at start-up | authenticate a read | read gate |
| Keyless publishing (`core/keyless`, `store/key_attestations.rs`) | attestations, JWKS cache | mint, withdraw and use an attestation | publish, the issuer's key server |
| Configuration and start-up (`types/config.rs`, `server/main.rs`) | the loaded configuration, what was composed from it | load, override, validate, migrate, sweep, listen, drain | everything |
| Administration, metrics, playground, in-memory backend | a playground section that can be reloaded | listings, audit, reload | publish, reads |

### What is hard, and what makes each part correct

The hazards are listed with their lines in `PROJECT.json`. In short:

- *Store writes.* Publishers race for a predecessor, for an idempotency key,
  for the next leaf index and the next feed position; a client retries a
  publish whose answer was lost; clocks are read before a lock is waited for;
  processes with and without a receipt signer serve one database; a process
  dies between two statements. Correct means: lineages are chains, a retry is
  answered with its own context, receipts are an ordered prefix, the log holds
  every context once, the feed says everything once and in order.
- *Feed and pruning.* A reader who passed position *n* never looks back, so
  nothing may appear at or below *n*; pruning, on a clock of its own, removes
  only an expired prefix.
- *Reads and log serving* make several queries without a snapshot, and share a
  cache; what they sign or serve must still be one consistent picture.
- *Authentication.* Requests race for a nonce; a revocation must hold as long
  as any validator would accept the token, across evictions, failed writes and
  restarts.
- *Polling.* The pruner runs between two scans of a page, an answer is lost, a
  restored backup reuses positions: a consumer gets every change it may see
  once and in order, or is told its cursor expired.
- *Hints* are delivered at least once by workers with leases that crash, stall
  and answer late: the recorded position is covered, and no hint is owed
  forever.
- *Handlers* await between the budget's peek and its charge, between commit and
  stamp and webhook; clients disconnect in any of them.
- *Listings* page by cursors through rows that appear, disappear and get their
  tenant later, and two SQL dialects must agree.
- *Keyless.* One key cache with refetches, back-off and stale copies is shared by
  requests; an attestation can be withdrawn between check and commit.
- *Start-up* decides from many settings what to refuse, what to build and
  what to advertise, around migrations that cannot be taken back.
- *Limits* are counted by statements that may be late, abandoned or lost.

## 2. Modules

| Module | Models | Composition |
| --- | --- | --- |
| `RegistryStore` | the storage contract; the SQLite backend, whose writers are serial | |
| `PgStore` | the Postgres backend: the same writes as interleaved transactions with locks | extends `RegistryStore`, and implements it (`Abs == INSTANCE RegistryStore WITH ...`) |
| `ContextReads` | reads and the lineage audit, torn by writes | extends `RegistryStore`, whose `Next` runs beside the reads |
| `LogService` | the log's handlers, root cache and witness pollers | appends leaves as `RegistryStore!WithLeaf` does |
| `Auth` | challenges, tokens, revocation, poller | |
| `FeedRead` | snapshots, watch filter and `evaluate_changes`, over a feed that grows, is pruned and is restored | |
| `Polling`, `Hints` | `GET /changes` and its consumers; subscriptions and hint workers | both extend `FeedRead`, as the code shares the evaluation; their specifications are `PollSpec` and `HintSpec`, so that one proof module can extend both |
| `RateLimit` | the fixed-window limiter | |
| `ClientAddress`, `Tenancy` | which address a limiter keys on; which tenant a request runs in | |
| `Publishing` | the publish and lifecycle handlers, the webhook queue | extends `Tenancy`, `RateLimit` |
| `Admission` | limiters in front of the handlers of a fleet | extends `RateLimit`, `ClientAddress`; its specification is `AdmitSpec`, so that one proof module can extend it and `Startup` |
| `Listing` | search, listing, and the tenant gates of single reads | extends `Tenancy`; its specification is `ListSpec`, so that one proof module can extend it and `Publishing` |
| `IssuerKeys`, `Keyless` | a slot of the JWKS cache; minting and using attestations | `Keyless` extends `IssuerKeys`, `RateLimit` |
| `Config`, `Startup` | settings, validation, what they advertise and build; a process from boot to drain | `Startup` extends `Config`, `Tenancy` |
| `...Proofs` | theorems about the module they are named after; `RegistryStoreProofs` also about `ContextReads`, `HandlerProofs` about `Publishing` and `Listing`, `FeedReadProofs` about `Polling` and `Hints`, `ServerProofs` about `Admission` and `Startup` | extend it; section 4 |
| `MC...` | the instances TLC checks: bodies, requests, symmetry | |

Definitions whose name has a suffix after an underscore (`Peek_OffByOne`) and
whose comment begins with "Mutant" are wrong versions of the definition that
follows; no specification uses them. They show that a property notices the
mistake: put in the place of the right definition they make TLC report the
property.

### RegistryStore

State: the tables `contexts`, `idem`, `events`, `leaves`, `changes`, the
identity counter `lastSeq`, `prunedThrough`, true time `clock`, and one history
variable, `appended`, every feed row ever written.

Each write path of the SQLite backend opens with `BEGIN IMMEDIATE`, so one action is
one committed transaction. A call that is refused or replayed changes nothing
and is a stuttering step; `PublishOutcome` and `LifecycleOutcome` compute its
reply.

| Action | Code |
| --- | --- |
| `Publish` | `commit_publish`: key check, supersession checks, row, predecessor's status, leaf, feed rows, idempotency record |
| `CommitLifecycle` | `commit_lifecycle_event`: alternation, receipts of this and earlier events, flag, feed row |
| `Backfill` | `backfill_ctx`, the start-up sweep that receipts older events |
| `Evict` | `idempotency_evict_inner` |
| `Prune` | one pass of `prune_changes_once` |
| `Tick` | time |

Clocks: a process reads true time plus or minus `Skew`; `commit_publish` reads
it before it waits for the write lock (`EntryReadings`, `LockWait`); feed rows
are stamped by a clock that may be another one (`FeedSkew`). The retention,
margin and batch of the pruner are constants. Identity values that rolled-back
writers skip are `Gap`.

Abstractions: a signed body keeps the members that checks look at (predecessor,
version, lineage, contributors, whether it revokes a key) and `data` for the
rest; a `lineage_id`, a hash of the first `ctx_id`, is that `ctx_id`; a receipt
is its `accepted_at`. Gates that only refuse (keyless attestations, revoked
predecessor keys) are left out here, since a refusal changes nothing; `Keyless`
has them. Store I/O errors are left out here; `PgStore` has `Abort`.

### PgStore

A transaction is a record of where it is, the locks it holds, its clock
reading and its pending writes. Locks are context rows, idempotency records,
the unique key a pending insert claims, the advisory locks of the log and the
feed, and the `changes_meta` row. Isolation is READ COMMITTED: a statement sees
what is committed when its lock is granted. `Abort` may end a transaction at any
point; values it drew from the identity column are lost. The `DELETE` of an
expired record and the following `SELECT` are one step, which is exact because
the deleted row's lock keeps others out. `CheckIdem`, `LockPredecessor`,
`Recheck`, `AppendLeaf`, `ClaimKey`, `ReadBack`, `DrawPositions`, `CommitPublish` are
the statements of `commit_publish` in their order; the other operations are
split in the same way.

`PgAssumption` has two conjuncts about time. A transaction is short compared to
the idempotency TTL of a day, `2 * (MaxTx + Skew) < TTL`: without it the record of
the winner of a key race could expire and be evicted before the loser reads it
back, and the loser would be answered with an internal error. And
`Retention + Margin >= Skew + FeedSkew + MaxTx`: configuration refuses a
retention under 30 days (`types/config.rs`) and the pruner keeps an hour of
margin (`server/main.rs`), so a position drawn by a transaction that is still
open is not below what the pruner, with its own clock, takes for expired.

The implementation of `RegistryStore` is with wider clocks: what a transaction
reads is up to `MaxTx` older than its commit.

### ContextReads

`ReadRows` is the first query of `get`, `lineage`, `current` or the audit,
`ReadEvents` the second with the projection of the status; every action of
`RegistryStore` may happen in between. One read at a time suffices, since reads
change nothing.

### LogService

Hashes are modelled by what they cover: a root is the sequence of leaves it is
computed from, so equality of roots is equality of trees. Each handler is its
sequence of queries (`ReadSize`, `ReadRecord`, `ReadHashes`, `ComputeRoot`, `Serve`,
`ReadEntries`). A witness may claim any root for any size (`Claims`); `Fetch` and
`VerifyAndStore` are the two sides of the poller's await. Malformed parameters
are left out; who may see which context is the constant `Readable`.

### Auth

`issue_token` is split at its awaits: `TakeChallenge`, `CheckExpiry`,
`VerifySignature`, `RecordIssued`. A bearer check is `Decode` then `CheckRevoked`,
since the clock is read twice; a revocation goes on with `CheckOwner` and
`Revoke`. The evictors, the poller (`Fetch`, `ApplyEntry`, `EndBatch`), failing
store calls and restarts interleave. Time is in ticks, `Second` of them to a
second, because the tables keep exact times and the claims of a token whole
seconds.

Abstractions: a signature is the agent that made it; every refusal is
"refused"; entries of a foreign issuer or with a malformed expiry are of kind
"dropped"; the peer revokes tokens that exist, with their expiry, and feed
positions are distinct. The tables are those of the database backends. All
clocks are one: skew between replicas is not modelled.

### FeedRead, Polling, Hints

A feed position is shown to the evaluation in snapshots, one per query, so
pruning and appending happen between the scans of one request. A restore takes
the feed back to an earlier state, with or without a new epoch, and the
positions are reused for other changes. A cursor is sealed over position, epoch
and filter; `Polling` gives every consumer one, loses answers, and keeps as
history where its synchronisation began (`base`) and what it got. `Hints` keeps
times relative to now, so time needs no bound. A worker claims under a lease,
evaluates, posts and finishes; a receiver may get a hint whose answer is lost.

### Publishing, Admission, RateLimit

A request is a job whose steps are the code between two awaits. `Publishing` has
one step per store call, with the playground path (`put`, then stamps) beside
the production one; the webhook worker takes from a bounded queue. `Admission`
has replicas with a local limiter each and shared windows in Postgres; a
statement takes its `now()` when it is sent and counts when it gets the row.

### Listing, Keyless, Startup

`Listing` follows one client through pages of a search or an admin listing on
either SQL backend, next to writers. Text search is reduced to the words a
document holds. `Keyless` runs the mint and the publish of attested keys with the
JWKS slot's mutex held across a fetch. `Startup` takes a process through loading,
validation, migration, sweep, composition, serving and draining, and lets the
operator edit between boots; a setting is a member of a small set, one value
for each way the code tells its values apart. `RegistryServer::try_new` is in the
`acdp` library: of the authority and of the sizes and the TTL of `[limits]` the
model has values it refuses and values it accepts, and values of the authority
that the signer and the log id refuse too; a read ceiling of zero, which the
library refuses as the conformance tests show, is part of `Composes`.

## 3. Runs

Each run finishes within three minutes with two workers.

| Run | Question | Instance |
| --- | --- | --- |
| `store_publish` | Do racing keyed publishes keep lineages chains, keys unique, retries answered and the log a mirror? | 3 contexts, 2 agents (one a contributor), 2 tenants, 1 key, TTL 2, lock wait 1, time to 3 |
| `reads` | Do torn reads hide a retraction, revive an old version or blame a sound lineage, and is history kept? | 2 contexts, 2 events, a body that expires, minting and non-minting processes, pruning |
| `log_serve` | Are served checkpoints, proofs, pages and cosignatures of one log? | 2 requests, 2 publishes, 1 witness that may lie |
| `pg` | Do all transactions of the Postgres backend implement the store, answer truthfully, and never wait in a circle? | 2 connections, 3 contexts of a lineage, 1 key that expires, 1 event, sweep, pruner, evictor, aborts |
| `auth` | One token per challenge, revocable, refused once revoked, and no revocation skipped? | 2 requests, 1 nonce, 2 tokens, 2 feed entries, two ticks a second, restarts |
| `feed_poll` | Does a consumer that follows its cursors get everything, through pruning, restores and lost answers? Do the three watch filters agree? | 3 contexts, 4 watches, 3 positions, 1 restore, 1 lost answer, pages of 1 and 2 |
| `hints` | Is the recorded position covered by hints, and no hint owed forever? | 2 workers, 1 subscription, 2 positions, 1 crash or overrun |
| `publishing` | Who is charged, what is stored in which tenant, what may go unverified, what the webhook tells | 2 requests at a time, 2 producers, 2 deployments, 4 playground sections, budget 1, 3 uses |
| `listing` | Is a walk through pages exact, and do the SQL backends agree? | 4 contexts, 3 writes during the walk, refill budget 2 |
| `keyless` | Is every body covered by its attestation, is the key cache bounded, does every request end? | 2 requests, 2 kids, 2 identities, Postgres and memory backend, 4 uses |
| `startup` | Is what is advertised backed by what was built? Which settings can a boot refuse after the schema has moved, and what can it leave undone? | 4 deployments, every one and every two edits, crashes, database errors, a taken port |
| `admission` | Do the fleet and each replica keep their budgets? | 2 replicas, 2 requests at a time, 3 addresses, 4 kinds of proxy, windows of 2 ticks |

Why the bounds suffice: a lineage needs a root, a successor and a rival for
either; receipts need two events and one that arrives after a gap; keys need
one live, one expired and one reused; two transactions are what a lock order,
a lost update or an early visible position needs, and every wait in the code is
for one holder. The auth instance spans issue, expiry and the end of the
leeway at two ticks a second. Two replicas, workers or requests are one that
acts and one that interferes. What the small instances leave out is in the
proofs: `Gap`, `MaxTx` and clock skew greater than 0, several lineages at once, and any
number of connections and requests. `pg` and `store_publish` restrict what TLC
explores to one lineage, and side steps to small registries (`OneLineage`,
`FewSideSteps`); the theorems do not. Symmetry is over identifiers that the
specifications only compare, in runs without liveness. A `VIEW` leaves out the
last answer, which is checked in the step that gives it and read by nothing.
Deadlock is not checked where the bound on time or identifiers ends every
behaviour; `NoDeadlock` says for `pg` what matters about it.

Fairness is stated where a run has a liveness property, and is weak:

- `feed_poll`: a consumer keeps polling and the server goes on with its request
  (`WF` of `Client`). Nothing makes appends, prunes, restores or losses happen.
- `hints`: each worker's loop goes on and time passes. `run_hint_worker` is a
  loop over a timer; a receiver need not answer, and crashes are bounded.
- `publishing`: a request's next step, and the webhook worker's. The runtime
  polls ready futures; every await of theirs has a timeout or is a store call
  that may fail. Requests, crashes, edits and time are not fair.
- `keyless`: a request's next step. A fetch ends, as an answer or as an error,
  because the HTTP client has a timeout.

## 4. Proofs

| Module | Theorems | For every |
| --- | --- | --- |
| `RegistryStoreProofs` | `TypeCorrect`, `LineagesSound`, `KeysAreSound`, `EventsAreSound`, `FeedGrowsAtHead`, `PruningRespectsRetention`; `LogIsMirror`, `FeedIsSound`, `HistoryIsKept`; `StatusesNeverMilder`, `HeadsAreNewest`, `AuditsBlameOnlyRetraction` | set of contexts, agents, tenants, keys, events, bodies; skew, lock wait, TTL, retention; any gaps in positions, any mix of minting processes; any expiry times |
| `PgStoreProofs` | `PgImplementsStore`, `PgAnswersAreTrue`, `PgFeedIsSound` | the same, any number of connections, transactions of any length up to `MaxTx` |
| `LogServiceProofs` | `CheckpointsAreConsistent`, `ProofsAreVerifiable`, `CosignaturesDoMatch` | number of requests, contexts, witnesses and their claims |
| `AuthProofs` | `ChallengesPayOnce`, `TokensStayRevocable`, `CursorIsSafe`, `RevocationHolds` | number of agents, nonces, tokens, requests; any clock resolution, lifetimes, leeway, page size |
| `KeylessProofs` | `StoredIsAttested`, `CacheIsBounded`, `BackendsRefuseAlike` | number of requests, tokens, kids, identities, attestations; any TTLs and windows in the order below |
| `HandlerProofs` | `PublishingInvariant`, `ChargesAreSound`, `ReceiptsAreVerified`, `ContextsAreSound`, `WebhooksAreInOrder`; `ListInvariant`, `WalksAreExact`, `SearchesAgree` | finite number of requests in flight, any producers, requests, deployments, playground sections, budget, key TTL, queue capacity, retries; any finite table, queries, page size, refill cap, cursor lifetime, number of writes during a walk |
| `FeedReadProofs` | `PollInvariant`, `ServedCursorsSkipNothing`, `BackendsFilterAlike`; `HintInvariant`, `HintsCoverPosition`, `HintStepsAreSafe` | feeds of any length, watches, visibility, page and scan limits, number of restores, consumers; number of subscriptions, workers and faults, any delays |
| `ServerProofs` | `AdmitInvariant`, `SharedLimitsHold`, `LocalLimitsHold`; `BootInvariant`, `ServingIsAsPromised`, `EveryBootIsClean` | number of replicas, addresses, agents and requests in flight; any budgets, fronts, arrivals, orders of statements; any files, environments, databases, edits and faults |

`PROJECT.json` names the property of a run that each of them states.

Assumptions: `NameAssumption` (absent values are not identifiers; event ids and
context ids differ), `ContentAssumption` (a body supersedes something exactly when
it is not version 1: the protocol library's request validation),
`ParameterAssumption` (the parameters are naturals), `PgAssumption` (section 2),
`ExpiryAssumption` (expiry times are naturals), `LogServiceAssumption` and
`AuthAssumption` (types of parameters; lifetimes are positive; finitely many contexts),
`IssuerKeysAssumption` (the back-off is positive and no longer than the gap
between forced fetches, 30 seconds both, nor than the shortest TTL, 60 seconds,
which `KeylessConfig::validate` makes the least of the configured one) and
`KeylessAssumption` (types of tokens and requests), `PublishingAssumption`
(numbers; `Limit`, `KeyTtl` and `QueueCapacity` positive) and `RequestsAssumption`
(finitely many slots; requests and events name known producers and one of the
two transitions), `ListingAssumption` (types of parameters; a page has at least
one row), `QueryAssumption` (a request never runs in the reserved tenant, which
`reject_reserved_tenant` refuses, and `admin_list` passes no requester) and
`TableAssumption` (a finite table of rows), `FeedReadAssumption`, `PollingAssumption` and `HintsAssumption`
(types of parameters; a page asks for at least one entry, as `parse_request`
clamps it; a batch of attempts fits inside the lease, which `hints.rs` asserts at
compile time; "nobody" is no worker) and `BucketAssumption` (hashes and
buckets are digit strings, and a bucket, of at most 16 digits, is no longer
than a hash, of 64); for the server, `WindowAssumption` (a window is positive),
`AdmissionAssumption` (budgets are positive, since a budget of zero builds no
limiter; the timeout of a shared statement is at most a tick longer than a
window, the default being a quarter of a second against a minute, although
validation asks only that it be positive), `FleetAssumption` (requests are of
known clients and agents), `ArrivalAssumption` (the front is configured as it
is built: a request comes from its client, or through proxies that wrote the
client's address behind whatever the client put into the header, `Genuine`) and
`StartupAssumption` (files and variables hold values of their settings; only
SQLite has rows to backfill). TLC evaluates all of them.

### RegistryStoreProofs

`IInv` is inductive and has these parts:

- *Types.*
- *Lineages.* `LineageIsChain` is the conjunction of four facts that need each
  other: a publish extends a context that is not superseded; that is the newest
  of its lineage (`OnlyNewestActive`), so the new version number is free
  (`NoFork`); its predecessor's lineage leads back to a root (`Linked`), which is
  what the query for the first version finds, so the successor gets the same
  lineage. `FirstVersion` chooses a least version, whence the lemma `LeastNat`.
- *Keys.* Uniqueness alone is not inductive: the record that prevents the second
  publish is in another table, and may be evicted. `IdemBacked` ties a record to
  the context it answers with and its expiry to the creation time;
  `KeyProtected` says that the record stays until some clock can have passed
  it. The skew of the clocks and the wait for the lock enter here.
- *Events.* A history with a hole is never continued with a receipt, and a new
  receipt is clamped to the latest one (`WithEventChained`, `FilledChained`).
- *Feed.* The retained rows are the appended ones past `pruned_through`, which
  is not past the head, and no row is above the head.

Each action has a lemma (`PublishStep`, `LifecycleStep`, `BackfillStep`, `EvictStep`,
`PruneStep`, `TickStep`) that treats the parts it can disturb; lemmas named
`Same...` say which tables a part depends on.

The next part of the module is about history. `HInv` is about `appended`, every feed row ever written. That each change is
reported (`SaysAll`) and reported once (`SaidOnce`) needs that no row speaks of
something that did not happen (`SaysTrue`): otherwise a row could be there before
its event, and the event's own row would be the second. Order in a lineage
(`SupersessionsOrdered`) follows from the predecessor having been the newest, order
of a context's events (`EventsOrdered`) from the history being appended to.
`FeedFromInv` then gives `FeedSound` from `IInv` and `HInv`, and `HistoryKept` is proved
action by action. That lifecycle events are all reported holds when every process mints
(`Minting = {TRUE}`), which the statement says.

The last part is about `ContextReads`. The rows a read took are a snapshot of one
lineage. `RowsOK` says of the snapshot alone that it is a chain, so no later commit
can disturb it. The events are read at the end and agree, by `IInv`, with the flags
of that moment. `RInv` also has that finitely many contexts are stored, which the
count of tips needs.

### PgStoreProofs

`PgInv` adds to `IInv` and `HInv` what each open transaction knows, at each of its
statements, and which lock keeps it true: a publish knows the predecessor it
locked passes the checks (`LinkKnown`), its leaf index is the length of the log
while it holds the log's advisory lock (`LeafKnown`), its positions follow the
ones lost by others (`Drew`), and what the record of its key can be (`KeyKnown`);
similarly `LifeInv`, `FillInv` and `PruneInv`. No two transactions hold a lock in
common (`Exclusive`), so the commit of one leaves every other one `Undisturbed`, and
an undisturbed transaction keeps what it knows (`Frame`). At its commit a
transaction therefore knows everything the corresponding action of
`RegistryStore` checks, and the refinement is one lemma per commit. The mapping
is the identity on the tables; what `Abs` gets instead is wider clocks.

The hardest part is the key. A publish that found no record waits for a
predecessor's lock and may find a record when it claims the key; the record is
then young enough not to expire while the publish runs, so reading it back never
fails. This is where `2 * (MaxTx + Skew) < TTL` is used. `PgAnswersAreTrue` follows with
`IdemBacked`: the record read back is of a context with the same agent and key.

### LogServiceProofs

The log only grows, so the root of its first *n* leaves stays that root
(`PrefixStays`). `LInv` says of every request in progress that the sizes it holds are
within the log, the leaf it found is where it found it, and the root it holds is
the one of the size it holds; of the cache and of stored cosignatures, that they
are of the own log. Nothing has to be said about what a witness claims:
`VerifyAndStore` compares it with the own root.

### AuthProofs

`AInv`: a nonce is in the table or with one request, or spent (`NonceInOnePlace`); a token id is
drawn once (`JtiDrawnOnce`); the row of a token is there until the end of its leeway,
and says so when the token is revoked (`RowsKept`), which is what evictors
must not break; every entry before the cursor is applied, and every entry before
the one a batch is at, unless a write of the batch failed (`CursorOK`).

### KeylessProofs

`KInv` has two halves. `StoreInv`: what a gate found out about an attestation is true
until the commit, because attestations are only added and only their `out` flag
changes (`AttsKept`); the predecessor it looked at is not superseded meanwhile,
because no two requests past the gate have one predecessor (`RowsHeld`), and it
had no successor, because a successor leaves the flag behind (`BodyOK`). `CacheInv`:
the keys of the copy were published when its fetch began or later, so a copy
inside its window has no key dropped before that (`CopyOK`); the request that fetches
is the holder of the slot, and its start is a back-off window after the last one
(`FetchOK`), which needs that the last fetch left a trace: the time of its failure, or
a copy at least that fresh, or, if it was forced, the time of the force (`QuietOK`).
That the back-off is no longer than the shortest TTL and the gap is used there.

### HandlerProofs

*Publishing.* `PublishingInv` has three parts, and each action a lemma for each part. `ServerInv`:
a request in flight knows what its stage says (`StageSound`), and its permit is armed
exactly when its identity is proven, which is why every way a request can end
charges it rightly. `BudgetBound` counts the requests still in flight with those
charged, so that a charge at the end of a request replaces one by the other; a
request is only let in while the window has room, and that needs the lemmas on
the limiter: a charge spends one unit of one key (`RecordSpends`), and a prune
keeps every open window (`PruneKeepsSpent`). The reloaded playground cell is one
the loader accepts (`CellSound`), so with receipts no request is ever at a stage of the
unverified path. `StoreInv`: a proven keyed context has a record in the idempotency
table that lives as long as its key (`KeysSound`), which the next publish under the key must meet;
the tenant a request carries is the one it was vouched for, so a context has it
at birth. `HookInv`: ids rise from what was received, past what is being sent, to the
end of the queue (`QueueSound`); a context is made by one request that has not
announced it (`ToldSound`).

The proof corrected a property: `BornInItsTenant` took a blank `X-Tenant-Id` of a
producer without binding for a tenant. A blank header is no assertion
(`tenant_from_headers`), and `VouchedTenant` now says so; the run has such a request.

*Listings.* The rows are in a strict total order (`BeforeIsOrder`), and a page is a
first segment of what the statement finds, with the cursor at its last row
(`FirstOfFacts`, `LastOfFacts`, `ScanFinds`). `ListInv` says of a walk between two
pages that the caller was given, up to the cursor, all it was entitled to all
along, and nothing past it (`PageInv`); and of a page in hand that it has what lies between the
cursor and the next one (`ScanInv`). A page that is then narrowed by level and
owner loses nothing the caller was entitled to, so the walk moves to the next
cursor (`PageDone`), and past the last one everything was given. Three facts about
writes carry this past them (`WriteKeeps`): a row keeps its place, is not deleted,
and leaves its tenant only from the reserved one, in which no request runs. A row
inserted behind the cursor is not owed to the caller: it was not there all
along. That a page shows nothing foreign rests on the disclosure rule being part of
the statement, so that the cursor, which is the last row scanned and perhaps not
kept, names a visible row too. `BackendsAgree` needs of the table only its
types (`SearchIsMeant`, `RulesAgree`).

### FeedReadProofs

*The evaluation.* A page has, past the position it was asked for, every matching
row up to where it was scanned, and with a row every earlier one (`PageFacts`,
from `FirstRowsFacts`). Wherever the byte cap or the limit breaks the loop off, a
turn therefore takes along every row its reader wants between the old and the
new position (`ScannedFacts`); `Polling` and `Hints` both rest on this one lemma.

*Hints.* `HintInv` says of an attempt what it knows at its stage (`AttemptSound`): the
scan has everything visible up to its position that the pruner left
(`EvaluationSound`), a delivery follows at least one visible change, and the
position about to be recorded leaves nothing untold (`ProgressSound`). Whoever
holds a lease started from the recorded position (`Leased`): that is why `Finish`, which
compares the holder and not the position, never moves a position back and never
jumps over a change.

*Cursors.* That a cursor's holder has everything up to its position is not
inductive, since a restore takes rows back and other rows get their
positions. `PollInv` splits cursors: the row that the anchor names is in the feed as it
is, and then the holder has everything (`CursorSound`), or it is of an earlier
era and gone for good (`CursorDead`), and then no form of the anchor check passes
(`DeadIsRefused`), because a fingerprint tells the time of the append. A restore
turns the one into the other (`CursorAfterRestore`), an append into neither,
because its position is past the head and its era is the present one.

*Filters.* The bounds of a bucket's range are compared with a hash at the least
digit where it differs from the bucket (`RangeIsBucket`). The proof shows why hashes must
not be shorter than buckets: a hash that is a proper prefix of the upper bound is
below it and outside the bucket.

### ServerProofs

*Limits in memory.* That a key gets less than twice its budget in any window of
time is not inductive: the bucket forgets what came before it opened. `ChargeSound`
splits the charges of the last `Window` at the start of the open bucket. The later
ones are counted in it; the earlier ones are fewer than the limit, because the
charge that opened the bucket before has left the `Window` when this one opens
(`ChargeKeepsSound`, `TickKeepsSound`). A prune drops only elapsed buckets
(`PruneKeepsSound`).

*The shared rows.* A row may be pruned and come back, so its count alone proves
nothing. `RowInv` says that a window in which anybody was admitted is the row's
window, or an older one, or lies more than two windows back; and a statement
that can still run was sent at most `Timeout` ago (`Punctual`), orphans of
requests that gave up and of replicas that restarted included, so it never
reaches a window of the third kind. This is where the pruner's slack and the bound on the timeout
are used. `SpareInv` pays for both statements of a request when L1 lets it in.

*Addresses.* `ClientIpIsGenuine` finds the last hop that is not trusted, counted from
the configured skip, to be the one a proxy wrote.

*Start-up.* `BootInv` follows a boot. A process runs under a configuration that
passed `validate_config`; its backend is the one it was built with; what a step
establishes lasts until the process ends: no row without a hash after the
migration, nothing of lifecycle past the gate where `[lifecycle]` is off, no event
without a receipt past the sweep where there is a minter. The sweep passes over a context with
a hole among its receipts, so this needs that there never is one
(`EventIsAdded`). What is advertised and built is then a matter of
`validate_config` alone (the lemmas `Valid...`), in particular that the builders,
the signers, the webhook worker and the state, composed after the schema moved,
refuse nothing it accepted (`ValidComposes`), and that strict tenancy leaves a
request that can be served (`SomeoneHolds`). What `EveryBootIsClean` does not
say is that no setting at all is refused after the migration: `UncheckedSettings`
names those that can be, and section 5 says why.

### What stays with TLC

Liveness under fairness (`NeverLeftBehind`, `NoHintOwedForever`, `ComesToRest`,
`EveryRequestEnds`) and `NoDeadlock`, which speaks of `ENABLED`, are out of the
prover's reach. So is induction over data: what folds and recursive functions
compute (page walks, hop chains) is checked on bounded inputs.
Every other property of the runs is a theorem.

## 5. Observations

Places where a comment or document says more than the code does. None of them
breaks a property above; each property states what does hold.

*Store and reads*

- `store/src/lifecycle.rs` says that the served status and events can never
  contradict each other. A `get` whose row query sees a retracted row and whose
  event query sees the republish that follows answers "retracted" beside events
  that end in "republished". It errs on the safe side (`StatusNeverMilder`).
- The lineage audit expects "exactly one non-superseded tip" (`handlers/admin.rs`)
  and reports two for a sound lineage whose superseded version was retracted;
  `AuditBlamesOnlyRetraction` says that this is all it reports wrongly.
- Events that a process without a receipt signer accepted never reach the feed,
  not even when the sweep receipts them later.
- The playground path stamps the tenant again when it replays; a replayed
  lifecycle call emits its webhook under a fresh event id.
- `store/src/cursor.rs` describes a tenant-less search with a filter after it;
  the handlers use `search_in_tenant`.

*Log and authentication*

- `handlers/log.rs` says an enabled log serves and nothing in between exists. An
  inclusion request that reads the size, and then the record of a leaf
  published after that, is answered with an internal error.
- `revocation_store.rs` says tombstones outlive every token the validator would
  accept. The validator compares whole seconds and accepts to the end of second
  `exp + leeway`; the tombstone ends within that second.
  `RevokedStaysRefused` holds up to it.

*Keyless and configuration*

- A forced refetch by one request can make another, which waited for the slot,
  answer "unknown kid"; a client that leaves during a fetch leaves no
  `failed_at`; forced refetches ignore the back-off.
- "During the overlap window, signatures from either key verify"
  (`types/config.rs`), while `pinned_for_at` returns the newest valid entry only.
- `main` validates to "surface every fixable misconfiguration BEFORE running
  migrations or binding the socket" (`server/main.rs`, line 144). Four settings can be
  refused only after the migrations. `bind = "localhost"`, or a host name with
  authentication or TLS on or a public bind allowed, passes `validate_config` and
  fails in `resolve_bind_addr`. Certificate and key files are checked to exist and
  parsed by the listener. `registry.authority` and the sizes and the TTL of
  `[limits]` go unchecked into `RegistryServer::try_new`, which validates
  the capabilities and may refuse them (line 1337); an authority is looked at before
  only by the receipt signer and the log id, where these are on.
  `NothingLeftToRefuse` holds for every other setting.
- `require_tenant` without `auth.enabled` serves requests
  without a header unscoped. Two replicas may run with different `lifecycle.enabled`.

*Limits*

- `rate_limit_shared.rs` bounds the statements of a window; requests in flight when
  the window rolls can exceed it, the cumulative bound holds. Requests
  that straddle two windows allow up to twice a limit in one real minute.
- A header line that is not ASCII behind a trusted proxy puts its client into
  the proxy's bucket. `/auth` keys on full IPv6 addresses. `backend_timeout_ms` has
  no upper bound, while the pruner leaves two windows of slack
  (`AdmissionAssumption`).

## 6. Not modelled

- Cryptography, DID resolution, encoding and schema validation: pure functions
  of the protocol library, outside `src/`.
- The inner store of the in-memory backend (the library's), `mark_superseded`
  (reached only by its unverified path), and the in-memory stores of `auth`.
- The row locks the keyless gates take on Postgres: `Keyless` has the gate and
  the commit as two steps of one transaction.
- Clock skew between replicas in `Auth`.
- Parsing and formatting of configuration and headers, metrics, the `live-smoke`
  tool, and the parity test suite.

## 7. Plan

Every safety property of the runs except `NoDeadlock` is proved. Left are liveness, which the
prover does not reach, and the parts of section 6, of which the row locks of the keyless
gates on Postgres and clock skew between replicas in `Auth` are the ones that
would add behaviour.
