------------------------------ MODULE Publishing ------------------------------
(***************************************************************************)
(* POST /contexts, POST /contexts/{id}/retract and /republish, their admin *)
(* forms, the per-agent write budget they share, the reload of the         *)
(* playground section, and the webhook queue behind them.                  *)
(*                                                                         *)
(* A request is a job of a worker that yields at every await.  The store's *)
(* transactions are single steps here; RegistryStore and PgStore open them.*)
(***************************************************************************)
EXTENDS Tenancy, RateLimit, Sequences

CONSTANTS
    Worker,        \* slots for requests in flight
    Agent,         \* producers
    MethodOf,      \* the DID method of each producer
    BindingOf,     \* auth.tenant_agents: a tenant or None
    Publishes,     \* the publish requests that may arrive
    Events,        \* the lifecycle requests that may arrive
    Deployment,    \* the deployments to start from
    Playgrounds,   \* the [playground] sections an operator may write
    Limit,         \* publish_per_agent_per_minute
    KeyTtl,        \* idempotency_key_ttl_seconds, in ticks
    QueueCapacity, \* webhook.queue_capacity
    MaxRetries,    \* webhook.max_retries
    MaxUsed        \* bound: requests that get past the early refusals,
                   \* ticks, crashes, cancellations, store errors and edits

ASSUME PublishingAssumption ==
    /\ Limit \in Nat \ {0} /\ KeyTtl \in Nat \ {0}
    /\ QueueCapacity \in Nat \ {0} /\ MaxRetries \in Nat
    /\ MaxUsed \in Nat

\* The slots are finitely many; a request names its producer, an event the
\* context it is about and one of the two transitions.
ASSUME RequestsAssumption ==
    /\ IsFiniteSet(Worker) /\ None \notin Worker
    /\ \A r \in Publishes : r.agent \in Agent
    /\ \A e \in Events : /\ e.agent \in Agent /\ e.ctx \in Nat
                         /\ e.type \in {"retracted", "republished"}

VARIABLES
    d,             \* the deployment: [auth, strict, trust, receipts]
    up,            \* whether the process runs
    disk,          \* the [playground] section on disk
    playground,    \* the live cell
    now,           \* the clock
    limiter,       \* the per-agent write limiter
    job,           \* per worker: its request
    contexts,      \* the store: contexts by number
    keys,          \* the store: idempotency records, newest per (agent, key)
    queue,         \* the webhook channel
    sending,       \* the delivery the webhook worker holds
    minted,        \* event ids minted
    received,      \* history: the last event the receiver saw, how often,
                   \* and whether it ever saw one out of order
    misjudged,     \* history: agents wrongly charged, or wrongly not
    told,          \* history: the contexts announced as published
    used           \* requests, ticks and faults so far

storeVars == <<contexts, keys>>
vars == <<d, up, disk, playground, now, limiter, job, contexts, keys, queue,
          sending, minted, received, misjudged, told, used>>

Idle == [pc |-> "idle"]

\* The slot the next request takes: which one is free makes no difference.
FreeSlot ==
    IF \E w \in Worker : job[w] = Idle
    THEN CHOOSE w \in Worker : job[w] = Idle ELSE None

NoDelivery == [attempt |-> -1]

(***************************************************************************)
(* The playground section.                                                 *)
(***************************************************************************)
\* PlaygroundConfig::pinned_for_at.
PinnedFor(cell, a) ==
    LET live == {p \in cell.pins : /\ p.agent = a /\ p.from <= now
                                   /\ now < p.until}
    IN  {p \in live : \A q \in live : q.from <= p.from}

\* enforce_pinned_signature.
EnforcePinnedSignature(cell, r) ==
    IF cell.pins = {} THEN "unpinned"
    ELSE IF PinnedFor(cell, r.agent) = {}
         THEN IF cell.pinnedOnly THEN Refused ELSE "unpinned"
    ELSE IF \E p \in PinnedFor(cell, r.agent) : p.key = r.sig THEN "pinned"
    ELSE Refused

\* Mutant: an empty list of pins is not refused under pinned_only.
ValidPlayground_EmptyPins(cell, receipts) ==
    /\ \A p \in cell.pins : p.from < p.until
    /\ ~ (receipts /\ cell.enabled /\ ~ cell.pinnedOnly)

\* validate_playground_config.  The key material is always usable here.
ValidPlayground(cell, receipts) ==
    /\ \A p \in cell.pins : p.from < p.until
    /\ ~ (receipts /\ cell.enabled /\ ~ cell.pinnedOnly)
    /\ ~ (cell.enabled /\ cell.pinnedOnly /\ cell.pins = {})

\* A request, a tick or a fault, against the bound.
Use == used < MaxUsed /\ used' = used + 1

\* The operator edits the file.
EditConfig(cell) ==
    /\ disk # cell /\ Use
    /\ disk' = cell
    /\ UNCHANGED <<d, up, playground, now, limiter, job, contexts, keys, queue,
                   sending, minted, received, misjudged, told>>

\* reload_pinned_keys: validated before the cell is written.
ReloadPinnedKeys ==
    /\ up /\ playground # disk
    /\ ValidPlayground(disk, d.receipts)
    /\ playground' = disk
    /\ UNCHANGED <<d, up, disk, now, limiter, job, contexts, keys, queue,
                   sending, minted, received, misjudged, told, used>>

(***************************************************************************)
(* The store.                                                              *)
(***************************************************************************)
LiveKey(agent, key) ==
    {k \in keys : k.agent = agent /\ k.key = key /\ k.expires > now}

PutKey(r, ctx) ==
    IF r.key = None THEN keys
    ELSE {k \in keys : <<k.agent, k.key>> # <<r.agent, r.key>>}
           \cup {[agent |-> r.agent, key |-> r.key, hash |-> r.hash,
                  ctx |-> ctx, expires |-> now + KeyTtl]}

NewContext(r, tenant, proven) ==
    Append(contexts, [agent |-> r.agent, hash |-> r.hash, key |-> r.key,
                      at |-> now, tenant |-> Column(tenant), by |-> r,
                      proven |-> proven, events |-> <<>>])

IsRetracted(c) ==
    c.events # <<>> /\ c.events[Len(c.events)].type = "retracted"

(***************************************************************************)
(* How a request ends: the charge fires if it was armed, whatever the      *)
(* answer.                                                                 *)
(***************************************************************************)
\* PublishCharge::drop.
DropCharge(j) ==
    limiter' = IF j.armed THEN Record(limiter, j.agent, now) ELSE limiter

End(w, j) ==
    /\ job' = [job EXCEPT ![w] = Idle]
    /\ DropCharge(j)
    /\ misjudged' = IF j.armed = j.earned THEN misjudged
                    ELSE misjudged \cup {j.agent}

\* The handler goes on with `j', unless its client has gone.
Resume(w, j) ==
    IF job[w].gone THEN End(w, j)
    ELSE job' = [job EXCEPT ![w] = j] /\ UNCHANGED <<limiter, misjudged>>

\* The identity is proven, or the publish succeeded: `earned' records that.
Arm(j) == [j EXCEPT !.armed = TRUE, !.earned = TRUE]

\* The row exists: stamp the tenant (playground only), then finish.
AfterCommit(j, ctx, replay) ==
    [j EXCEPT !.pc = IF j.snapshot.enabled /\ j.tenant # None
                     THEN "stamp" ELSE "finish",
              !.ctx = ctx, !.replay = replay]

frame == <<d, up, disk, playground, now>>

(***************************************************************************)
(* POST /contexts.                                                         *)
(***************************************************************************)
\* Which pipeline a publish takes, decided with the snapshot of the cell.
Branch(r) ==
    IF MethodOf[r.agent] = "key" THEN "key"
    ELSE IF playground.enabled THEN EnforcePinnedSignature(playground, r)
    ELSE "web"

NewJob(pc, r, branch, tenant) ==
    [pc |-> pc, r |-> r, agent |-> r.agent, branch |-> branch,
     snapshot |-> playground, tenant |-> tenant, ctx |-> 0,
     replay |-> FALSE, armed |-> FALSE, earned |-> FALSE, gone |-> FALSE]

\* publish_inner up to its first await: the budget is only looked at, the
\* tenant resolved, the playground cell copied and a pinned signature
\* verified.  A refusal at any of these leaves no trace.
Publish(w, r) ==
    /\ up /\ Use /\ w = FreeSlot
    /\ Peek(limiter, r.agent, now, Limit)
    /\ \E tenant \in {TenantForPublish(d, r, BindingOf[r.agent])},
          branch \in {Branch(r)} :
          /\ tenant # Refused /\ branch # Refused
          /\ job' = [job EXCEPT ![w] =
                        NewJob(IF branch = "unpinned" THEN "lookup" ELSE "prove",
                               r, branch, tenant)]
    /\ UNCHANGED <<frame, limiter, contexts, keys, queue, sending, minted,
                   received, misjudged, told>>

\* Mutant: the budget is charged on success only.
Prove_ArmLate(w) ==
    /\ up /\ job[w].pc = "prove"
    /\ job[w].branch = "pinned" \/ job[w].r.sig = "own"
    /\ job' = [job EXCEPT ![w].pc = "commit", ![w].earned = TRUE]
    /\ UNCHANGED <<frame, limiter, contexts, keys, queue, sending, minted,
                   received, misjudged, told, used>>

\* prove_publish_identity and its did:key and pinned forms; the charge is
\* armed between the proof and the commit.
Prove(w) ==
    /\ up /\ job[w].pc = "prove"
    /\ job[w].branch = "pinned" \/ job[w].r.sig = "own"
    /\ job' = [job EXCEPT ![w] = [Arm(@) EXCEPT !.pc = "commit"]]
    /\ UNCHANGED <<frame, limiter, contexts, keys, queue, sending, minted,
                   received, misjudged, told, used>>

\* The proof fails: a wrong signature, or a key or a body the SDK refuses.
ProofRefused(w) ==
    /\ up /\ job[w].pc = "prove"
    /\ End(w, job[w])
    /\ UNCHANGED <<frame, contexts, keys, queue, sending, minted, received,
                   told, used>>

\* Mutant: the transaction does not look the key up again.
Commit_NoLookup(w) ==
    /\ up /\ job[w].pc = "commit"
    /\ LET r == job[w].r
           fresh == Len(contexts) + 1
       IN  /\ contexts' = NewContext(r, job[w].tenant, TRUE)
           /\ keys' = PutKey(r, fresh)
           /\ Resume(w, AfterCommit(job[w], fresh, FALSE))
    /\ UNCHANGED <<frame, queue, sending, minted, received, told, used>>

\* Mutant: the tenant is left to the stamp that follows.
Commit_StampLater(w) ==
    /\ up /\ job[w].pc = "commit"
    /\ LET r == job[w].r
           fresh == Len(contexts) + 1
       IN  /\ contexts' = NewContext(r, None, TRUE)
           /\ keys' = PutKey(r, fresh)
           /\ Resume(w, [AfterCommit(job[w], fresh, FALSE) EXCEPT
                            !.pc = IF job[w].tenant = None THEN "finish"
                                   ELSE "stamp"])
    /\ UNCHANGED <<frame, queue, sending, minted, received, told, used>>

\* commit_proven: one transaction looks the key up, and inserts the row with
\* its tenant and the record, or replays, or refuses a reused key.
Commit(w) ==
    /\ up /\ job[w].pc = "commit"
    /\ LET r == job[w].r
           prior == LiveKey(r.agent, r.key)
           fresh == Len(contexts) + 1
       IN  IF prior = {}
           THEN /\ contexts' = NewContext(r, job[w].tenant, TRUE)
                /\ keys' = PutKey(r, fresh)
                /\ Resume(w, AfterCommit(job[w], fresh, FALSE))
           ELSE /\ UNCHANGED storeVars
                /\ \E k \in prior :
                      IF k.hash = r.hash
                      THEN Resume(w, AfterCommit(job[w], k.ctx, TRUE))
                      ELSE End(w, job[w])
    /\ UNCHANGED <<frame, queue, sending, minted, received, told, used>>

(***************************************************************************)
(* The unpinned playground branch: lookup, insert and record are three     *)
(* store calls, and nothing is proven.                                     *)
(***************************************************************************)
\* A replay returns from here, charged; a reused key is refused, uncharged.
Lookup(w) ==
    /\ up /\ job[w].pc = "lookup"
    /\ LET r == job[w].r
           prior == LiveKey(r.agent, r.key)
       IN  IF prior = {}
           THEN Resume(w, [job[w] EXCEPT !.pc = "insert"])
           ELSE \E k \in prior :
                  IF k.hash = r.hash /\ ~ job[w].gone
                  THEN End(w, Arm(job[w])) ELSE End(w, job[w])
    /\ UNCHANGED <<frame, contexts, keys, queue, sending, minted, received,
                   told, used>>

\* publish_unverified_for_tests: untenanted.
InsertUnverified(w) ==
    /\ up /\ job[w].pc = "insert"
    /\ LET fresh == Len(contexts) + 1
           next == AfterCommit(job[w], fresh, FALSE)
       IN  /\ contexts' = NewContext(job[w].r, None, FALSE)
           /\ Resume(w, IF job[w].r.key = None THEN next
                        ELSE [next EXCEPT !.pc = "record"])
    /\ UNCHANGED <<frame, keys, queue, sending, minted, received, told,
                   used>>

\* idempotency_record: an upsert.
RecordKey(w) ==
    /\ up /\ job[w].pc = "record"
    /\ keys' = PutKey(job[w].r, job[w].ctx)
    /\ Resume(w, AfterCommit(job[w], job[w].ctx, FALSE))
    /\ UNCHANGED <<frame, contexts, queue, sending, minted, received, told,
                   used>>

\* set_tenant_of_ctx, whenever the snapshot had the playground on.
StampTenant(w) ==
    /\ up /\ job[w].pc = "stamp"
    /\ contexts' = [contexts EXCEPT ![job[w].ctx] =
                        [@ EXCEPT !.tenant = job[w].tenant, !.by = job[w].r]]
    /\ Resume(w, [job[w] EXCEPT !.pc = "finish"])
    /\ UNCHANGED <<frame, keys, queue, sending, minted, received, told,
                   used>>

(***************************************************************************)
(* The end of a successful request.                                        *)
(***************************************************************************)
\* WebhookEmitter::emit_with_tenant: a full queue drops the event.
Emit(kind, ctx, tenant) ==
    LET event == [id |-> minted + 1, kind |-> kind, ctx |-> ctx,
                  tenant |-> tenant]
    IN  /\ minted' = minted + 1
        /\ IF Len(queue) < QueueCapacity
           THEN /\ queue' = Append(queue, event)
                /\ told' = IF kind = "published" THEN Append(told, ctx) ELSE told
           ELSE UNCHANGED <<queue, told>>

\* Mutant: a replay announces the context again.
Finish_AnnounceReplay(w) ==
    /\ up /\ job[w].pc = "finish"
    /\ Emit("published", job[w].ctx, job[w].tenant)
    /\ End(w, Arm(job[w]))
    /\ UNCHANGED <<frame, contexts, keys, sending, received, used>>

\* publish_inner after the store: a fresh publish is announced, a replay is
\* not; the charge is armed if it was not yet.
Finish(w) ==
    /\ up /\ job[w].pc = "finish"
    /\ IF job[w].replay THEN UNCHANGED <<minted, queue, told>>
       ELSE Emit("published", job[w].ctx, job[w].tenant)
    /\ End(w, Arm(job[w]))
    /\ UNCHANGED <<frame, contexts, keys, sending, received, used>>

(***************************************************************************)
(* Lifecycle events, of a producer and of the administrator.               *)
(***************************************************************************)
\* lifecycle_transition up to its first await.
Transition(w, e) ==
    /\ up /\ Use /\ w = FreeSlot
    /\ Peek(limiter, e.agent, now, Limit)
    /\ \E tenant \in {TenantForRequest(d, e)} :
          /\ tenant # Refused
          /\ job' = [job EXCEPT ![w] = NewJob("gate", e, "event", tenant)]
    /\ UNCHANGED <<frame, limiter, contexts, keys, queue, sending, minted,
                   received, misjudged, told>>

\* The tenant gate: tenant_of_ctx, kept for the webhook.
TenantGate(w) ==
    /\ up /\ job[w].pc = "gate"
    /\ LET e == job[w].r
           stored == IF e.ctx \in DOMAIN contexts THEN contexts[e.ctx].tenant
                     ELSE Default
       IN  IF job[w].tenant \notin {None, stored} THEN End(w, job[w])
           ELSE Resume(w, [job[w] EXCEPT !.pc = "prove_event",
                                         !.tenant = stored, !.ctx = e.ctx])
    /\ UNCHANGED <<frame, contexts, keys, queue, sending, minted, received,
                   told, used>>

\* prove_lifecycle_identity: the actor is the producer and signed the event.
ProveEvent(w) ==
    /\ up /\ job[w].pc = "prove_event"
    /\ job[w].ctx \in DOMAIN contexts
    /\ contexts[job[w].ctx].agent = job[w].agent /\ job[w].r.sig = "own"
    /\ job' = [job EXCEPT ![w] = [Arm(@) EXCEPT !.pc = "commit_event"]]
    /\ UNCHANGED <<frame, limiter, contexts, keys, queue, sending, minted,
                   received, misjudged, told, used>>

EventRefused(w) ==
    /\ up /\ job[w].pc = "prove_event"
    /\ End(w, job[w])
    /\ UNCHANGED <<frame, contexts, keys, queue, sending, minted, received,
                   told, used>>

\* commit_lifecycle_event: the same event again is answered as a success,
\* another event under its id and a transition out of turn are refused.
AppendEvent(ctx, id, type) ==
    LET c == contexts[ctx]
        same == {i \in DOMAIN c.events : c.events[i].id = id}
    IN  IF same # {}
        THEN [ok |-> \A i \in same : c.events[i].type = type, c |-> c]
        ELSE IF (type = "retracted") = IsRetracted(c) THEN [ok |-> FALSE, c |-> c]
        ELSE [ok |-> TRUE,
              c |-> [c EXCEPT !.events = Append(@, [id |-> id, type |-> type])]]

CommitEvent(w) ==
    /\ up /\ job[w].pc = "commit_event"
    /\ \E res \in {AppendEvent(job[w].ctx, job[w].r.id, job[w].r.type)} :
          /\ contexts' = [contexts EXCEPT ![job[w].ctx] = res.c]
          /\ IF res.ok THEN Resume(w, [job[w] EXCEPT !.pc = "finish_event"])
             ELSE End(w, job[w])
    /\ UNCHANGED <<frame, keys, queue, sending, minted, received, told,
                   used>>

\* A success is announced, a repeated event too, under the tenant read at
\* the gate.
FinishEvent(w) ==
    /\ up /\ job[w].pc = "finish_event"
    /\ Emit(job[w].r.type, job[w].ctx,
            IF job[w].tenant = Default THEN None ELSE job[w].tenant)
    /\ End(w, job[w])
    /\ UNCHANGED <<frame, contexts, keys, sending, received, used>>

\* admin_lifecycle_transition: not charged, a fresh event id each time, and
\* the tenant is read after the commit.
AdminTransition(ctx, type) ==
    /\ up /\ Use
    /\ ctx \in DOMAIN contexts
    /\ \E res \in {AppendEvent(ctx, <<"registry", Len(contexts[ctx].events)>>,
                               type)} :
          /\ res.ok
          /\ contexts' = [contexts EXCEPT ![ctx] = res.c]
          /\ Emit(type, ctx, IF res.c.tenant = Default THEN None
                             ELSE res.c.tenant)
    /\ UNCHANGED <<frame, limiter, job, keys, sending, received, misjudged>>

(***************************************************************************)
(* What goes wrong.                                                        *)
(***************************************************************************)
\* A store call fails: the handler returns the error.
StoreError(w) ==
    /\ up /\ Use
    /\ job[w].pc \in {"commit", "lookup", "insert", "record", "stamp", "gate",
                      "commit_event"}
    /\ End(w, job[w])
    /\ UNCHANGED <<frame, contexts, keys, queue, sending, minted, received,
                   told>>

\* The client goes away.  A did:web proof is awaited and dropped; what runs
\* on the blocking pool, or has reached the store, is finished unobserved.
ClientGone(w) ==
    /\ up /\ Use
    /\ job[w].pc \in {"prove", "commit", "lookup", "insert", "record", "stamp",
                      "gate", "prove_event", "commit_event"}
    /\ ~ job[w].gone
    /\ IF job[w].pc = "prove" /\ job[w].branch = "web" THEN End(w, job[w])
       ELSE job' = [job EXCEPT ![w] = [@ EXCEPT !.gone = TRUE]]
            /\ UNCHANGED <<limiter, misjudged>>
    /\ UNCHANGED <<frame, contexts, keys, queue, sending, minted, received,
                   told>>

\* The process dies: budgets, the queue and the requests are gone.
Crash ==
    /\ up /\ Use
    /\ up' = FALSE
    /\ job' = [w \in Worker |-> Idle]
    /\ limiter' = NewLimiter(Agent)
    /\ queue' = <<>> /\ sending' = NoDelivery
    /\ UNCHANGED <<d, disk, playground, now, contexts, keys, minted, received,
                   misjudged, told>>

\* It starts again from the file, which startup validates the same way.
Start ==
    /\ ~ up /\ ValidPlayground(disk, d.receipts)
    /\ up' = TRUE /\ playground' = disk
    /\ UNCHANGED <<d, disk, now, limiter, job, contexts, keys, queue, sending,
                   minted, received, misjudged, told, used>>

Tick ==
    /\ Use
    /\ now' = now + 1
    /\ UNCHANGED <<d, up, disk, playground, limiter, job, contexts, keys, queue,
                   sending, minted, received, misjudged, told>>

(***************************************************************************)
(* The webhook worker.                                                     *)
(***************************************************************************)
jobVars == <<d, up, disk, playground, now, limiter, job, contexts, keys, minted,
             misjudged, told>>

TakeEvent ==
    /\ up /\ sending = NoDelivery /\ queue # <<>>
    /\ sending' = [event |-> Head(queue), attempt |-> 0]
    /\ queue' = Tail(queue)
    /\ UNCHANGED <<jobVars, received, used>>

\* The receiver's view: an id below the last one is out of order.
See(id) ==
    [last    |-> id,
     times   |-> IF id = received.last THEN received.times + 1 ELSE 1,
     ordered |-> received.ordered /\ id >= received.last]

\* A 2xx, or a 4xx other than 429, ends the delivery.
Delivered(seen) ==
    /\ up /\ sending # NoDelivery
    /\ received' = IF seen THEN See(sending.event.id) ELSE received
    /\ sending' = NoDelivery
    /\ UNCHANGED <<jobVars, queue, used>>

\* Mutant: max_retries counts the attempts after the first.
Undelivered_OneMore(seen) ==
    /\ up /\ sending # NoDelivery
    /\ received' = IF seen THEN See(sending.event.id) ELSE received
    /\ sending' = IF sending.attempt >= MaxRetries THEN NoDelivery
                  ELSE [sending EXCEPT !.attempt = @ + 1]
    /\ UNCHANGED <<jobVars, queue, used>>

\* Mutant: an event nobody receives is tried for ever.
Undelivered_Forever(seen) ==
    /\ up /\ sending # NoDelivery /\ sending.attempt \in {0, 1}
    /\ sending' = [sending EXCEPT !.attempt = 1 - @]
    /\ UNCHANGED <<jobVars, queue, received, used>>

\* Anything else is tried again, until max_retries attempts were made; the
\* receiver may have seen an attempt whose answer was lost.
Undelivered(seen) ==
    /\ up /\ sending # NoDelivery
    /\ received' = IF seen THEN See(sending.event.id) ELSE received
    /\ sending' = IF sending.attempt + 1 >= MaxRetries THEN NoDelivery
                  ELSE [sending EXCEPT !.attempt = @ + 1]
    /\ UNCHANGED <<jobVars, queue, used>>

(***************************************************************************)
(* The specification.                                                      *)
(***************************************************************************)
Init ==
    /\ d \in Deployment
    /\ up = TRUE
    /\ disk \in {c \in Playgrounds : ValidPlayground(c, d.receipts)}
    /\ playground = disk
    /\ now = 0
    /\ limiter = NewLimiter(Agent)
    /\ job = [w \in Worker |-> Idle]
    /\ contexts = <<>> /\ keys = {}
    /\ queue = <<>> /\ sending = NoDelivery
    /\ minted = 0
    /\ received = [last |-> 0, times |-> 0, ordered |-> TRUE]
    /\ misjudged = {} /\ told = <<>>
    /\ used = 0

Step(w) ==
    \/ Prove(w) \/ ProofRefused(w) \/ Commit(w)
    \/ Lookup(w) \/ InsertUnverified(w) \/ RecordKey(w) \/ StampTenant(w)
    \/ Finish(w)
    \/ TenantGate(w) \/ ProveEvent(w) \/ EventRefused(w) \/ CommitEvent(w)
    \/ FinishEvent(w)

Hook == TakeEvent \/ \E seen \in BOOLEAN : Delivered(seen) \/ Undelivered(seen)

Next ==
    \/ \E w \in Worker :
          \/ \E r \in Publishes : Publish(w, r)
          \/ \E e \in Events : Transition(w, e)
          \/ Step(w) \/ StoreError(w) \/ ClientGone(w)
    \/ \E ctx \in DOMAIN contexts, type \in {"retracted", "republished"} :
          AdminTransition(ctx, type)
    \/ \E cell \in Playgrounds : EditConfig(cell)
    \/ ReloadPinnedKeys \/ Crash \/ Start \/ Tick
    \/ Hook

Spec == Init /\ [][Next]_vars /\ \A w \in Worker : WF_vars(Step(w))
             /\ WF_vars(Hook)

(***************************************************************************)
(* Properties.                                                             *)
(***************************************************************************)
\* The budget in one window is exceeded by at most the requests in flight:
\* peek and charge are apart by the whole pipeline, and the code states
\* the bound as `limit + concurrent in-flight publishes for that agent'.
BudgetBound ==
    \A a \in Agent :
        LET pending == {w \in Worker : job[w] # Idle /\ job[w].agent = a}
        IN  Spent(limiter, a, now) + Cardinality(pending)
                <= Limit - 1 + Cardinality(Worker)

\* Once an identity is proven its request is charged exactly once, however
\* it ends: commit refused, store error, client gone, replay.  Nothing
\* that proved nothing and published nothing is charged.
EveryProofIsCharged == misjudged = {}

\* A registry that issues receipts has no unverified publish path, whatever
\* is written to the file, reloaded, or read at a restart, and whenever the
\* pinned keys run out.
NoUnverifiedWithReceipts ==
    d.receipts => \A i \in DOMAIN contexts : contexts[i].proven

\* The tenant a request's credentials and configuration give it: a claim,
\* else the producer's binding, else a header from behind the boundary.
VouchedTenant(r) ==
    CASE d.auth /\ r.claim # None -> r.claim
      [] d.auth /\ r.claim = None /\ BindingOf[r.agent] # None -> BindingOf[r.agent]
      [] OTHER -> TenantFromHeaders(r)

\* A proven context is in the tenant its publisher was vouched for from the
\* moment it exists, also when the process dies right after the commit (in
\* strict mode, never in the default bucket); an unverified one may be left
\* in the default bucket, but is in no other tenant than that.
BornInItsTenant ==
    \A i \in DOMAIN contexts :
        LET c == contexts[i]
        IN  /\ \/ c.tenant = Column(VouchedTenant(c.by))
               \/ ~ c.proven /\ c.tenant = Default
            /\ c.proven /\ d.auth /\ d.strict => c.tenant # Default

\* Two proven publishes of an agent under one idempotency key make two
\* contexts only when the first one's record had expired.
OneContextPerKey ==
    \A i, j \in DOMAIN contexts :
        /\ i < j /\ contexts[i].proven /\ contexts[j].proven
        /\ contexts[i].agent = contexts[j].agent
        /\ contexts[i].key = contexts[j].key /\ contexts[i].key # None
        => contexts[j].at >= contexts[i].at + KeyTtl

\* Every context is announced as published under at most one event id, so a
\* receiver that drops repeated ids counts each publication once; and what
\* is announced has been stored.
AnnouncedOnce ==
    /\ \A i, j \in DOMAIN told : told[i] = told[j] => i = j
    /\ \A i \in DOMAIN queue : queue[i].ctx \in DOMAIN contexts

\* The receiver sees events in the order they were emitted: the attempts of
\* one event are next to each other and no more than max_retries.
DeliveredInOrder ==
    /\ received.ordered
    /\ received.times <= Max({1, MaxRetries})

\* Everything comes to rest: each request is answered and the webhook queue
\* empties, whatever the receiver does.
ComesToRest == []<>(queue = <<>> /\ sending = NoDelivery
                    /\ \A w \in Worker : job[w] = Idle)

\* The publish budget: each proven request is charged once, and a window is
\* exceeded by the requests in flight at most.
ChargesSound == BudgetBound /\ EveryProofIsCharged

\* What is stored: each context in its tenant, one for each key.
ContextsSound == BornInItsTenant /\ OneContextPerKey

\* What the receiver of the webhook sees: each publication once, in order,
\* and no attempt too many.
WebhooksInOrder == AnnouncedOnce /\ DeliveredInOrder
=============================================================================
