--------------------------- MODULE RegistryStore ---------------------------
(***************************************************************************)
(* The registry's storage contract: contexts and their lineages, the       *)
(* idempotency records of keyed publishes, lifecycle events with their     *)
(* receipts, the transparency log and the change feed.                     *)
(*                                                                         *)
(* Every action is one committed transaction, which is how the SQLite      *)
(* backend runs them: each write path opens with BEGIN IMMEDIATE, so       *)
(* writers are serial.  The Postgres backend interleaves the statements of *)
(* its transactions; module PgStore models it.                             *)
(* A call that is refused, replayed or fails rolls back and is a           *)
(* stuttering step; PublishOutcome and LifecycleOutcome say which reply it *)
(* gets.                                                                   *)
(***************************************************************************)
EXTENDS Integers, Sequences, FiniteSets

CONSTANTS
    Ctx,           \* context ids the protocol library can draw
    Agent,         \* producers (DIDs)
    Tenant,        \* tenant ids, DefaultTenant among them
    DefaultTenant, \* where a publish without an authoritative tenant lands
    Key,           \* Idempotency-Key values
    EventId,       \* lifecycle event ids
    NoCtx,         \* "supersedes", "lineage_id": absent
    NoKey,         \* a publish without Idempotency-Key
    NoTenant,      \* a publish without an authoritative tenant
    Content,       \* the signed bodies agents submit, a subset of ContentType
    Minting,       \* which kinds of process run: {TRUE}, {FALSE} or both,
                   \* TRUE for one configured with a receipt signer
    LogEnabled,    \* [log] enabled: every publish appends a leaf
    TTL,           \* lifetime of an idempotency record
    Skew,          \* how far a process's clock is from true time
    FeedSkew,      \* how far the clock that stamps feed rows is from true
                   \* time: the database's on Postgres, the process's on SQLite
    LockWait,      \* longest wait for the write lock
    Retention,     \* [changes] retention_seconds
    Margin,        \* CHANGES_PRUNE_SKEW_MARGIN_MS
    Batch,         \* CHANGES_PRUNE_BATCH
    Gap,           \* most sequence values rolled-back writers skip at once
    MaxTime        \* bound on the modelled true time

VARIABLES
    contexts,      \* table contexts: a row for every stored ctx_id
    idem,          \* table idempotency_records, keyed by <<agent, key>>
    events,        \* table lifecycle_events: per context, in append order
    leaves,        \* table log_leaves: ctx_ids by leaf_index
    changes,       \* table changes: the retained change-feed rows
    lastSeq,       \* the highest feed position ever assigned
    prunedThrough, \* changes_meta.pruned_through
    clock,         \* true time
    appended       \* history: every feed row ever appended

vars == <<contexts, idem, events, leaves, changes, lastSeq, prunedThrough,
          clock, appended>>

(***************************************************************************)
(* Types.                                                                  *)
(***************************************************************************)
\* Bodies: two bodies have one content_hash exactly when they are equal.
\* `data' stands for the signed members no check looks at.
ContentType ==
    [supersedes : Ctx \cup {NoCtx}, version : Nat \ {0},
     lineage : Ctx \cup {NoCtx}, contributors : SUBSET Agent,
     revokes : BOOLEAN, data : Nat]

\* A lineage_id is derived from the ctx_id of the lineage's first version and
\* from nothing else, so the model names the lineage by that ctx_id.
Lineage == Ctx

Request ==
    [agent : Agent, key : Key \cup {NoKey},
     tenant : Tenant \cup {NoTenant}, content : Content]

\* `key' and `committed' are history: the key the publish carried, and the
\* true time at which its transaction committed.
ContextRow ==
    [content : ContentType, lineage : Lineage, agent : Agent, tenant : Tenant,
     status : {"active", "superseded"}, retracted : BOOLEAN,
     receipt : BOOLEAN, created : Nat,
     key : Key \cup {NoKey}, committed : Nat]

IdemRow == [content : ContentType, ctx : Ctx, expires : Nat]

NoReceipt == -1          \* the receipt column is NULL

\* `receipt' is the receipt's accepted_at.
Event == [id : EventId, type : {"retracted", "republished"},
          receipt : Nat \cup {NoReceipt}]

\* `about' is what a row carries beside its context: the successor of a
\* superseded row, the event of a lifecycle row.
FeedRow ==
    [seq : Nat \ {0}, kind : {"superseded", "lifecycle", "key_revocation"},
     ctx : Ctx, about : Ctx \cup EventId \cup {NoCtx}, at : Nat]

ASSUME NameAssumption ==
    /\ NoCtx \notin Ctx /\ NoKey \notin Key /\ NoTenant \notin Tenant
    /\ DefaultTenant \in Tenant
    /\ Ctx \cap EventId = {}

\* The library's request validation: a first version supersedes nothing and
\* is version 1, a later one names its predecessor.
ASSUME ContentAssumption ==
    /\ Content \subseteq ContentType
    /\ \A b \in Content : (b.supersedes = NoCtx) <=> (b.version = 1)

ASSUME ParameterAssumption ==
    /\ Minting \subseteq BOOLEAN /\ Minting # {}
    /\ LogEnabled \in BOOLEAN
    /\ TTL \in Nat \ {0} /\ LockWait \in Nat
    /\ Skew \in Nat /\ FeedSkew \in Nat
    /\ Retention \in Nat /\ Margin \in Nat /\ Batch \in Nat \ {0}
    /\ Gap \in Nat /\ MaxTime \in Nat

Stored == DOMAIN contexts

(***************************************************************************)
(* Clocks.  A process reads its own clock, within Skew of true time; a     *)
(* publish reads it before it waits for the write lock.  Feed rows are     *)
(* stamped under the lock.                                                 *)
(***************************************************************************)
Readings == {t \in 0 .. clock + Skew : t >= clock - Skew}

FeedReadings == {t \in 0 .. clock + FeedSkew : t >= clock - FeedSkew}

EntryReadings == {t \in 0 .. clock + Skew : t >= clock - Skew - LockWait}

(***************************************************************************)
(* commit_publish.                                                         *)
(***************************************************************************)
\* Step 1: the record left after the ones expired by `now' are deleted.
IdemLive(a, k, now) == <<a, k>> \in DOMAIN idem /\ idem[<<a, k>>].expires > now

\* A publish with no authoritative tenant is not compared, and lands in the
\* default tenant.
SameTenant(t, prev) == t = NoTenant \/ t = contexts[prev].tenant

IsOwner(a, prev) ==
    \/ a = contexts[prev].agent
    \/ a \in contexts[prev].content.contributors

\* Mutant: the requester need not own the predecessor.
SupersessionOutcome_AnySigner(r) ==
    LET prev == r.content.supersedes
        p == contexts[prev]
    IN  IF prev = NoCtx THEN "ok"
        ELSE IF prev \notin Stored \/ ~ SameTenant(r.tenant, prev)
             THEN "not_found"
        ELSE IF r.content.version # p.content.version + 1
             THEN "version_mismatch"
        ELSE IF p.status = "superseded" THEN "already_superseded"
        ELSE "ok"

\* Mutant: the predecessor's status is not looked at.
SupersessionOutcome_Fork(r) ==
    LET prev == r.content.supersedes
    IN  IF prev = NoCtx THEN "ok"
        ELSE IF \/ prev \notin Stored
                \/ ~ SameTenant(r.tenant, prev)
                \/ ~ IsOwner(r.agent, prev) THEN "not_found"
        ELSE IF r.content.version # contexts[prev].content.version + 1
             THEN "version_mismatch"
        ELSE "ok"

\* Step 2, in the order the code checks.
SupersessionOutcome(r) ==
    LET prev == r.content.supersedes
        p == contexts[prev]
    IN  IF prev = NoCtx THEN "ok"
        ELSE IF \/ prev \notin Stored
                \/ ~ SameTenant(r.tenant, prev)
                \/ ~ IsOwner(r.agent, prev) THEN "not_found"
        ELSE IF r.content.lineage \notin {NoCtx, p.lineage}
             THEN "lineage_mismatch"
        ELSE IF r.content.version # p.content.version + 1
             THEN "version_mismatch"
        ELSE IF p.status = "superseded" THEN "already_superseded"
        ELSE "ok"

\* Mutant: supersession is checked before the idempotency record.
PublishOutcome_SupersessionFirst(r, now) ==
    IF SupersessionOutcome(r) # "ok" THEN SupersessionOutcome(r)
    ELSE IF r.key # NoKey /\ IdemLive(r.agent, r.key, now)
         THEN IF idem[<<r.agent, r.key>>].content = r.content
              THEN "replayed" ELSE "duplicate_publish"
         ELSE "ok"

\* Mutant: a key is only compared with a record of the same content.
PublishOutcome_NoDuplicate(r, now) ==
    IF /\ r.key # NoKey /\ IdemLive(r.agent, r.key, now)
       /\ idem[<<r.agent, r.key>>].content = r.content
    THEN "replayed" ELSE SupersessionOutcome(r)

\* What the caller is told; "ok" becomes Inserted unless minting fails.
PublishOutcome(r, now) ==
    IF r.key # NoKey /\ IdemLive(r.agent, r.key, now)
    THEN IF idem[<<r.agent, r.key>>].content = r.content
         THEN "replayed" ELSE "duplicate_publish"
    ELSE SupersessionOutcome(r)

\* Step 3: the lineage continues the first version of the predecessor's.
FirstVersion(l) ==
    CHOOSE c \in Stored :
        /\ contexts[c].lineage = l
        /\ \A d \in Stored : contexts[d].lineage = l =>
              contexts[c].content.version <= contexts[d].content.version

AssignedLineage(c, r) ==
    IF r.content.supersedes = NoCtx THEN c
    ELSE FirstVersion(contexts[r.content.supersedes].lineage)

NewRow(c, r, minted, now) ==
    [content |-> r.content, lineage |-> AssignedLineage(c, r),
     agent |-> r.agent,
     tenant |-> IF r.tenant = NoTenant THEN DefaultTenant ELSE r.tenant,
     status |-> "active", retracted |-> FALSE, receipt |-> minted,
     created |-> now, key |-> r.key, committed |-> clock]

\* Steps 5 and 6: insert the body, mark the predecessor superseded.
WithPublished(c, r, minted, now) ==
    [d \in Stored \cup {c} |->
        IF d = c THEN NewRow(c, r, minted, now)
        ELSE IF d = r.content.supersedes
             THEN [contexts[d] EXCEPT !.status = "superseded"]
             ELSE contexts[d]]

\* Step 7: the record that makes a retry of this publish a replay.
WithIdem(c, r, now) ==
    [k \in DOMAIN idem \cup {<<r.agent, r.key>>} |->
        IF k = <<r.agent, r.key>>
        THEN [content |-> r.content, ctx |-> c, expires |-> now + TTL]
        ELSE idem[k]]

\* feed_appends_for_publish: superseded for the predecessor, then
\* key_revocation; nothing at all without a receipt.
SupersededRows(c, r, base, at) ==
    IF r.content.supersedes = NoCtx THEN {}
    ELSE {[seq |-> base + 1, kind |-> "superseded",
           ctx |-> r.content.supersedes, about |-> c, at |-> at]}

\* Mutant: both rows of a superseding revocation get one position.
RevocationRows_SamePosition(c, r, base, at) ==
    IF ~ r.content.revokes THEN {}
    ELSE {[seq |-> base + 1,
           kind |-> "key_revocation", ctx |-> c, about |-> NoCtx, at |-> at]}

RevocationRows(c, r, base, at) ==
    IF ~ r.content.revokes THEN {}
    ELSE {[seq |-> IF r.content.supersedes = NoCtx THEN base + 1 ELSE base + 2,
           kind |-> "key_revocation", ctx |-> c, about |-> NoCtx, at |-> at]}

\* Mutant: a superseding revocation is reported as a revocation only.
PublishRows_OneKind(c, r, base, at) ==
    IF r.content.revokes THEN RevocationRows(c, r, base, at)
    ELSE SupersededRows(c, r, base, at)

PublishRows(c, r, base, at) ==
    SupersededRows(c, r, base, at) \cup RevocationRows(c, r, base, at)

\* The n rows take the positions right after `base'; base passes lastSeq
\* when writers that rolled back drew positions of their own.
AppendRows(rows, n, base) ==
    /\ changes' = changes \cup rows
    /\ appended' = appended \cup rows
    /\ lastSeq' = IF n = 0 THEN lastSeq ELSE base + n

PublishRowCount(r) ==
    (IF r.content.supersedes = NoCtx THEN 0 ELSE 1)
    + (IF r.content.revokes THEN 1 ELSE 0)

\* Mutant: the leaf goes to the index of the last one.
WithLeaf_OffByOne(c) ==
    IF leaves = << >> THEN <<c>> ELSE [leaves EXCEPT ![Len(leaves)] = c]

\* Step 5.5: leaf_index is the number of leaves so far.
WithLeaf(c) == IF LogEnabled THEN Append(leaves, c) ELSE leaves

Publish(c, r, minted, now, base, at) ==
    /\ PublishOutcome(r, now) = "ok"
    /\ LogEnabled => minted
    /\ contexts' = WithPublished(c, r, minted, now)
    /\ leaves' = WithLeaf(c)
    /\ idem' = IF r.key = NoKey THEN idem ELSE WithIdem(c, r, now)
    /\ IF minted
       THEN AppendRows(PublishRows(c, r, base, at), PublishRowCount(r), base)
       ELSE AppendRows({}, 0, base)
    /\ UNCHANGED <<events, prunedThrough, clock>>

(***************************************************************************)
(* commit_lifecycle_event.                                                 *)
(***************************************************************************)
\* External: the protocol library's retraction_state.
RetractionState(s) == s # << >> /\ s[Len(s)].type = "retracted"

\* Mutant: no alternation check.
LifecycleOutcome_NoAlternation(c, id, type) ==
    IF c \notin Stored THEN "not_found"
    ELSE IF \E i \in DOMAIN events[c] : events[c][i].id = id
         THEN "replayed" ELSE "ok"

\* A resubmitted event_id is a replay only with the same content.  Types
\* other than the two that transition are refused.
LifecycleOutcome(c, id, type) ==
    IF c \notin Stored THEN "not_found"
    ELSE IF \E i \in DOMAIN events[c] : events[c][i].id = id
         THEN IF \E i \in DOMAIN events[c] :
                    events[c][i].id = id /\ events[c][i].type = type
              THEN "replayed" ELSE "schema_violation"
    ELSE IF type \notin {"retracted", "republished"} THEN "schema_violation"
    ELSE IF (type = "retracted") = RetractionState(events[c])
         THEN "invalid_lifecycle_transition"
    ELSE "ok"

\* A NULL receipt before a minted one.
HasHole(s) ==
    \E i, j \in DOMAIN s :
        i < j /\ s[i].receipt = NoReceipt /\ s[j].receipt # NoReceipt

\* clamp_accepted_at: not before the context, not before a receipt already
\* minted for it.  The receipts one call mints are chained one after the
\* other, so they all get this time.
AcceptedAt(s, created, now) ==
    CHOOSE t \in {now, created} \cup {s[i].receipt : i \in DOMAIN s} :
        /\ t >= now /\ t >= created
        /\ \A i \in DOMAIN s : t >= s[i].receipt

\* Mutant: receipts already minted are minted again.
Filled_All(s, at) == [i \in DOMAIN s |-> [s[i] EXCEPT !.receipt = at]]

\* fill_nulls.
Filled(s, at) ==
    [i \in DOMAIN s |->
        IF s[i].receipt = NoReceipt THEN [s[i] EXCEPT !.receipt = at]
        ELSE s[i]]

\* Mutant: the new event is receipted, the ones before it are not filled.
WithEvent_NoFill(s, id, type, mints, at) ==
    Append(s, [id |-> id, type |-> type,
               receipt |-> IF mints THEN at ELSE NoReceipt])

\* plan_event_receipts: fill every NULL unless there is a hole, then the new
\* event's own receipt.
WithEvent(s, id, type, mints, at) ==
    Append(IF mints /\ ~ HasHole(s) THEN Filled(s, at) ELSE s,
           [id |-> id, type |-> type,
            receipt |-> IF mints THEN at ELSE NoReceipt])

LifecycleRows(c, id, base, at) ==
    {[seq |-> base + 1, kind |-> "lifecycle", ctx |-> c, about |-> id,
      at |-> at]}

CommitLifecycle(c, id, type, mints, now, base, at) ==
    /\ LifecycleOutcome(c, id, type) = "ok"
    /\ events' = [events EXCEPT ![c] =
                    WithEvent(@, id, type, mints,
                              AcceptedAt(@, contexts[c].created, now))]
    /\ contexts' = [contexts EXCEPT ![c].retracted = (type = "retracted")]
    /\ IF mints THEN AppendRows(LifecycleRows(c, id, base, at), 1, base)
                ELSE AppendRows({}, 0, base)
    /\ UNCHANGED <<idem, leaves, prunedThrough, clock>>

\* backfill_event_receipts, one context: the start-up sweep of a process
\* that mints.  It appends no feed row.
Backfill(c, now) ==
    /\ \E i \in DOMAIN events[c] : events[c][i].receipt = NoReceipt
    /\ ~ HasHole(events[c])
    /\ events' = [events EXCEPT ![c] =
                    Filled(@, AcceptedAt(@, contexts[c].created, now))]
    /\ UNCHANGED <<contexts, idem, leaves, changes, lastSeq, prunedThrough,
                   clock, appended>>

(***************************************************************************)
(* Background tasks.                                                       *)
(***************************************************************************)
\* idempotency_evict_inner, every five minutes.
Evict(now) ==
    /\ idem' = [k \in {j \in DOMAIN idem : idem[j].expires > now} |-> idem[k]]
    /\ UNCHANGED <<contexts, events, leaves, changes, lastSeq, prunedThrough,
                   clock, appended>>

\* Mutant: a row exactly as old as the cutoff goes too.
Prunable_OffByOne(now) ==
    {x \in changes :
        /\ Cardinality({y \in changes : y.seq <= x.seq}) <= Batch
        /\ \A y \in changes :
              y.seq <= x.seq => y.at <= now - Retention - Margin}

\* prune: among the oldest Batch rows, the longest run from the front whose
\* rows are all older than the cutoff.
Prunable(now) ==
    {x \in changes :
        /\ Cardinality({y \in changes : y.seq <= x.seq}) <= Batch
        /\ \A y \in changes :
              y.seq <= x.seq => y.at < now - Retention - Margin}

\* Mutant: the boundary row itself is kept.
PruneThrough_KeepLast(seq) ==
    /\ changes' = {x \in changes : x.seq >= seq}
    /\ prunedThrough' = IF seq > prunedThrough THEN seq ELSE prunedThrough
    /\ UNCHANGED <<contexts, idem, events, leaves, lastSeq, clock, appended>>

PruneThrough(seq) ==
    /\ changes' = {x \in changes : x.seq > seq}
    /\ prunedThrough' = IF seq > prunedThrough THEN seq ELSE prunedThrough
    /\ UNCHANGED <<contexts, idem, events, leaves, lastSeq, clock, appended>>

Prune(now) ==
    \E last \in Prunable(now) :
        /\ \A x \in Prunable(now) : x.seq <= last.seq
        /\ PruneThrough(last.seq)

Tick ==
    /\ clock < MaxTime
    /\ clock' = clock + 1
    /\ UNCHANGED <<contexts, idem, events, leaves, changes, lastSeq,
                   prunedThrough, appended>>

Init ==
    /\ contexts = [c \in {} |-> NoCtx]
    /\ idem = [k \in {} |-> NoCtx]
    /\ events = [c \in Ctx |-> << >>]
    /\ leaves = << >>
    /\ changes = {}
    /\ lastSeq = 0
    /\ prunedThrough = 0
    /\ clock = 0
    /\ appended = {}

\* Mutant: positions restart above the retained rows, as a plain rowid does.
Bases_Rowid ==
    {IF changes = {} THEN 0
     ELSE CHOOSE n \in {x.seq : x \in changes} : \A x \in changes : x.seq <= n}

\* Where the next run of feed positions may start.
Bases == lastSeq .. lastSeq + Gap

Next ==
    \/ \E c \in Ctx \ Stored, r \in Request, minted \in Minting :
          \E now \in EntryReadings, base \in Bases, at \in FeedReadings :
              Publish(c, r, minted, now, base, at)
    \/ \E c \in Stored, id \in EventId, mints \in Minting :
          \E type \in {"retracted", "republished"} :
              \E now \in Readings, base \in Bases, at \in FeedReadings :
                  CommitLifecycle(c, id, type, mints, now, base, at)
    \/ /\ TRUE \in Minting
       /\ \E c \in Stored, now \in Readings : Backfill(c, now)
    \/ \E now \in Readings : Evict(now)
    \/ \E now \in Readings : Prune(now)
    \/ Tick

Spec == Init /\ [][Next]_vars

(***************************************************************************)
(* Properties.                                                             *)
(***************************************************************************)
\* Every table holds rows of its type.
TypeOK ==
    /\ Stored \subseteq Ctx /\ contexts \in [Stored -> ContextRow]
    /\ DOMAIN idem \subseteq Agent \X Key /\ idem \in [DOMAIN idem -> IdemRow]
    /\ events \in [Ctx -> Seq(Event)]
    /\ leaves \in Seq(Ctx)
    /\ changes \subseteq appended /\ appended \subseteq FeedRow
    /\ lastSeq \in Nat /\ prunedThrough \in Nat /\ clock \in Nat

Prev(c) == contexts[c].content.supersedes

Version(c) == contexts[c].content.version

\* A first version founds its lineage; a later one continues the lineage of
\* a stored predecessor, one version up; every lineage has its first version.
Linked ==
    \A c \in Stored :
        /\ IF Prev(c) = NoCtx
           THEN Version(c) = 1 /\ contexts[c].lineage = c
           ELSE /\ Prev(c) \in Stored
                /\ contexts[c].lineage = contexts[Prev(c)].lineage
                /\ Version(c) = Version(Prev(c)) + 1
        /\ contexts[c].lineage \in Stored
        /\ Version(contexts[c].lineage) = 1

\* A context is superseded exactly when a stored one supersedes it.
SupersededIffSuccessor ==
    \A c \in Stored :
        (contexts[c].status = "superseded") <=> \E d \in Stored : Prev(d) = c

\* No lineage has two contexts of one version: it never forks.
NoFork ==
    \A c, d \in Stored :
        contexts[c].lineage = contexts[d].lineage /\ Version(c) = Version(d)
            => c = d

\* Only the newest version of a lineage is not superseded.
OnlyNewestActive ==
    \A c, d \in Stored :
        (/\ contexts[c].status = "active"
         /\ contexts[c].lineage = contexts[d].lineage)
            => Version(d) <= Version(c)

\* Lineages are chains: the supersession checks of commit_publish, made
\* before the write, keep every lineage a single unbroken line of versions
\* whatever publishes race for the same predecessor.
LineageIsChain ==
    Linked /\ SupersededIffSuccessor /\ NoFork /\ OnlyNewestActive

\* Only the producer of a context or a contributor it declared extends its
\* lineage, and only within its tenant: a successor is in its predecessor's
\* tenant, or in the default one when the publish carried no tenant.
ProducerContinuity ==
    \A c \in Stored :
        Prev(c) # NoCtx =>
            /\ Prev(c) \in Stored
            /\ IsOwner(contexts[c].agent, Prev(c))
            /\ contexts[c].tenant \in {contexts[Prev(c)].tenant, DefaultTenant}

\* The denormalized flag the read paths serve agrees with the event history,
\* and the history alternates, starting with a retraction; only stored
\* contexts have events.
RetractionConsistent ==
    /\ \A c \in Stored :
          /\ contexts[c].retracted = RetractionState(events[c])
          /\ \A i \in DOMAIN events[c] :
                (events[c][i].type = "retracted") <=> (i % 2 = 1)
    /\ \A c \in Ctx \ Stored : events[c] = << >>

\* The receipted events of s are a prefix, in time order from `created' on.
ReceiptsChained(s, created) ==
    \A j \in DOMAIN s :
        s[j].receipt # NoReceipt =>
            /\ s[j].receipt >= created
            /\ \A i \in 1 .. j :
                  s[i].receipt # NoReceipt /\ s[i].receipt <= s[j].receipt

\* Event receipts: whichever mix of minting and non-minting processes wrote
\* the events, the receipted ones are a prefix of the history, in time order
\* and none before the context was created.
ReceiptChain ==
    \A c \in Stored : ReceiptsChained(events[c], contexts[c].created)

\* A keyed publish is protected for its whole TTL: while no clock can have
\* passed created_at + TTL, a retry of the same request is answered with the
\* first one's context, also when the lineage has moved on since.
RetryReplays ==
    \A c \in Stored :
        LET row == contexts[c]
        IN  row.key # NoKey /\ clock + Skew < row.created + TTL =>
                /\ <<row.agent, row.key>> \in DOMAIN idem
                /\ idem[<<row.agent, row.key>>].ctx = c
                /\ \A now \in EntryReadings, t \in Tenant \cup {NoTenant} :
                      PublishOutcome([agent |-> row.agent, key |-> row.key,
                                      tenant |-> t, content |-> row.content],
                                     now) = "replayed"

\* Two contexts under one Idempotency-Key of an agent are a TTL apart: the
\* later one is committed only when some clock has passed the expiry of the
\* earlier one's record.
KeyUniqueWithinTtl ==
    \A c, d \in Stored :
        LET p == contexts[c]
            q == contexts[d]
        IN  c # d /\ p.agent = q.agent /\ p.key = q.key /\ p.key # NoKey =>
                \/ p.created + TTL <= q.committed + Skew
                \/ q.created + TTL <= p.committed + Skew

\* With the log enabled, the leaves are exactly the stored contexts, each
\* once, a predecessor before its successor; disabled, there are none.
LogMirrorsContexts ==
    IF ~ LogEnabled THEN leaves = << >>
    ELSE /\ {leaves[i] : i \in DOMAIN leaves} = Stored
         /\ \A i, j \in DOMAIN leaves :
               /\ leaves[i] = leaves[j] => i = j
               /\ Prev(leaves[j]) = leaves[i] => i < j

\* The feed says everything once: one superseded row for each supersession
\* by a receipted publish, one key_revocation row for each receipted
\* revocation, and with every process minting one lifecycle row for each
\* event; no row says anything else.
FeedComplete ==
    LET Rows(kind, c, about) ==
            {x \in appended : x.kind = kind /\ x.ctx = c /\ x.about = about}
    IN  /\ \A x, y \in appended :
              x.kind = y.kind /\ x.ctx = y.ctx /\ x.about = y.about => x = y
        /\ \A c \in Stored :
              /\ Prev(c) # NoCtx =>
                    (Rows("superseded", Prev(c), c) # {}) = contexts[c].receipt
              /\ (Rows("key_revocation", c, NoCtx) # {})
                    = (contexts[c].receipt /\ contexts[c].content.revokes)
              /\ Minting = {TRUE} => \A i \in DOMAIN events[c] :
                    Rows("lifecycle", c, events[c][i].id) # {}
        /\ \A x \in appended :
              CASE x.kind = "superseded" ->
                      x.about \in Stored /\ Prev(x.about) = x.ctx
                [] x.kind = "key_revocation" -> x.ctx \in Stored
                [] x.kind = "lifecycle" ->
                      \E i \in DOMAIN events[x.ctx] :
                          /\ events[x.ctx][i].id = x.about
                          /\ events[x.ctx][i].receipt # NoReceipt

\* The retained rows are those past pruned_through: pruning removes a prefix
\* of the positions, never a row with an older one left behind.
FeedIsSuffix == changes = {x \in appended : x.seq > prunedThrough}

\* Positions are never reused and tell the order of the changes: no two rows
\* share one, none is past the head, supersessions of a lineage are in
\* version order and the events of a context in append order.
FeedOrder ==
    /\ \A x, y \in appended : x.seq = y.seq => x = y
    /\ \A x \in appended : x.seq <= lastSeq
    /\ \A x, y \in appended :
          /\ (/\ x.kind = "superseded" /\ y.kind = "superseded"
              /\ contexts[x.ctx].lineage = contexts[y.ctx].lineage)
                => (x.seq < y.seq <=> Version(x.ctx) < Version(y.ctx))
          /\ (/\ x.kind = "lifecycle" /\ y.kind = "lifecycle"
              /\ x.ctx = y.ctx /\ x.seq < y.seq)
                => \E i, j \in DOMAIN events[x.ctx] :
                      /\ i < j
                      /\ events[x.ctx][i].id = x.about
                      /\ events[x.ctx][j].id = y.about

\* What is written stays written: bodies and their creation times never
\* change, a superseded context stays superseded, events and leaves are only
\* appended and a receipt once minted is never replaced.
AppendOnly ==
    [][/\ Stored \subseteq DOMAIN contexts'
       /\ \A c \in Stored :
             /\ \A f \in {"content", "lineage", "agent", "tenant", "created"} :
                   contexts'[c][f] = contexts[c][f]
             /\ contexts[c].status = "superseded" =>
                   contexts'[c].status = "superseded"
             /\ Len(events[c]) <= Len(events'[c])
             /\ \A i \in DOMAIN events[c] :
                   /\ events'[c][i].id = events[c][i].id
                   /\ events[c][i].receipt # NoReceipt =>
                         events'[c][i] = events[c][i]
       /\ Len(leaves) <= Len(leaves')
       /\ leaves = SubSeq(leaves', 1, Len(leaves))]_vars

\* A change becomes visible only past everything a reader can have seen:
\* new feed rows are above the head, and the head and the pruned mark never
\* move back.
FeedAppendsAboveHead ==
    [][/\ \A x \in changes' \ changes : x.seq > lastSeq
       /\ lastSeq' >= lastSeq /\ prunedThrough' >= prunedThrough]_vars

\* With the margin covering the clocks' disagreement, no row leaves the feed
\* within the advertised retention of the latest true time at which it can
\* have been appended.
NotPrunedEarly ==
    [][Margin >= Skew + FeedSkew =>
          \A x \in changes \ changes' :
              x.at + FeedSkew + Retention < clock]_vars

(***************************************************************************)
(* What the runs check, theme by theme.                                    *)
(***************************************************************************)
\* Lineages: whatever publishes race, each is one unbroken line of versions,
\* each version by an owner of the one before.
LineageSound == LineageIsChain /\ ProducerContinuity

\* Idempotency keys: within the TTL a key stands for one context, and a retry
\* is answered with it, whatever locks and clocks did in between.
KeysSound == KeyUniqueWithinTtl /\ RetryReplays

\* Lifecycle histories: the flag the reads serve, the events and their
\* receipts tell one story, whichever processes wrote them.
EventsSound == RetractionConsistent /\ ReceiptChain

\* The change feed: it says everything once, in the order it happened, and
\* what is retained is what lies past pruned_through.
FeedSound == FeedComplete /\ FeedIsSuffix /\ FeedOrder

\* History: nothing written is changed or taken back, changes appear at the
\* head of the feed only, and leave it after their retention only.
HistoryKept == AppendOnly /\ FeedAppendsAboveHead /\ NotPrunedEarly
=============================================================================
