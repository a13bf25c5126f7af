---------------------------- MODULE HandlerProofs ----------------------------
(***************************************************************************)
(* The handlers that write contexts and the ones that list and read them.  *)
(*                                                                         *)
(* The publish and lifecycle handlers are proved for any number of         *)
(* requests in flight, producers, retries and queue slots: what the write  *)
(* budget charges, which contexts may exist, and what a webhook's receiver *)
(* sees.  The invariant has three parts.  ServerInv: a request in flight   *)
(* knows what its stage says (StageSound), its permit is armed exactly     *)
(* when its identity is proven, and with those still to be charged an      *)
(* agent never exceeds the bound.  StoreInv: a proven keyed context has a  *)
(* record that lives as long as its key, and no two requests make one      *)
(* context (ToldSound).  HookInv: event ids rise along the queue and past  *)
(* what is being sent and what was received.                               *)
(*                                                                         *)
(* Search, listing and the single reads are proved for every table, query, *)
(* page size, refill cap and number of writes beside them: the walk along  *)
(* next_cursor is exact and the two backends answer alike.  The invariant  *)
(* (ListInv) says that the cursor is the place of a row the caller may     *)
(* see; that up to it the caller was given all it was entitled to all      *)
(* along, and nothing past it (PageInv); and that a scan has found what    *)
(* lies between the cursor and the next one (ScanInv).                     *)
(***************************************************************************)
EXTENDS Publishing, Listing, FiniteSetTheorems, WellFoundedInduction, SequenceTheorems, TLAPS

(***************************************************************************)
(* Types.                                                                  *)
(***************************************************************************)
Requests == Publishes \cup Events

\* What a request may be stamped with.
Tenants ==
    {None, Default} \cup {r.claim : r \in Requests}
        \cup {r.header : r \in Requests} \cup {BindingOf[a] : a \in Agent}

\* The stages of a publish.
PublishStages ==
    {"prove", "commit", "lookup", "insert", "record", "stamp", "finish"}

\* Those of a lifecycle event.
EventStages == {"gate", "prove_event", "commit_event", "finish_event"}

\* A request in flight.
Jobs ==
    [pc : PublishStages \cup EventStages, r : Requests, agent : Agent,
     branch : {"key", "web", "pinned", "unpinned", "event"},
     snapshot : Playgrounds, tenant : Tenants, ctx : Nat, replay : BOOLEAN,
     armed : BOOLEAN, earned : BOOLEAN, gone : BOOLEAN]

\* The ids of events: an actor's, or of the registry's own making.
Ids == {e.id : e \in Events} \cup ({"registry"} \X Nat)

\* The rows of the contexts table, with what the model remembers of each.
StoredContexts ==
    [agent : Agent, hash : {r.hash : r \in Publishes},
     key : {r.key : r \in Publishes}, at : Nat, tenant : Tenants,
     by : Publishes, proven : BOOLEAN,
     events : Seq([id : Ids, type : {"retracted", "republished"}])]

\* The rows of the idempotency table.
KeyRecords ==
    [agent : Agent, key : {r.key : r \in Publishes},
     hash : {r.hash : r \in Publishes}, ctx : Nat, expires : Nat]

\* The webhook's events.
Announcements ==
    [id : Nat, kind : {"published", "retracted", "republished"}, ctx : Nat,
     tenant : Tenants]

\* The write limiter's windows.
Buckets == [Agent -> [start : Int, count : Nat]]

\* A write limiter; its threshold plays no part in what it charges.
IsLimiter(lim) ==
    /\ lim = [buckets |-> lim.buckets, threshold |-> lim.threshold]
    /\ lim.buckets \in Buckets

\* The types of the process's state and its configuration.
ServerType ==
    /\ d \in Deployment
    /\ disk \in Playgrounds /\ playground \in Playgrounds
    /\ now \in Nat
    /\ IsLimiter(limiter)
    /\ job \in [Worker -> Jobs \cup {Idle}]

\* The types of the tables.
StoreType ==
    /\ contexts \in Seq(StoredContexts)
    /\ keys \in SUBSET KeyRecords

\* The types of the webhook's queue and of its receiver.
HookType ==
    /\ queue \in Seq(Announcements)
    /\ sending \in [event : Announcements, attempt : Nat] \cup {NoDelivery}
    /\ minted \in Nat
    /\ received \in [last : Nat, times : Nat, ordered : BOOLEAN]
    /\ told \in Seq(Nat)

(***************************************************************************)
(* What a request in flight has established, by its stage.                 *)
(***************************************************************************)
\* The stages at which the identity has been proven, or published.
Proven(t) ==
    \/ t.pc \in {"commit", "commit_event", "finish_event"}
    \/ t.pc \in {"stamp", "finish"} /\ t.branch # "unpinned"

\* What request t knows at its stage, with n contexts stored.
StageSound(t, dep, n) ==
    /\ t.agent = t.r.agent
    /\ t.armed = t.earned
    /\ t.armed <=> Proven(t)
    /\ t.pc \in PublishStages =>
          /\ t.r \in Publishes
          /\ t.tenant = TenantForPublish(dep, t.r, BindingOf[t.r.agent])
          /\ t.tenant # Refused
    /\ t.pc \in EventStages => t.r \in Events
    /\ t.pc \in {"lookup", "insert", "record"} =>
          ~ dep.receipts /\ t.branch = "unpinned"
    /\ t.pc \in {"prove", "commit"} => t.branch # "unpinned"
    /\ t.pc = "record" => ~ t.replay
    /\ t.pc = "stamp" => t.tenant # None
    /\ t.pc \in {"record", "stamp", "finish", "commit_event", "finish_event"}
          => t.ctx \in 1..n

\* Every request in flight knows what its stage says.
JobsSound ==
    \A w \in Worker : job[w] # Idle => StageSound(job[w], d, Len(contexts))

\* A publish that made its context and has not announced it.
Fresh(t) == t.pc \in {"record", "stamp", "finish"} /\ ~ t.replay

\* Every context is made by one request and announced once.
ToldSound ==
    /\ \A i \in DOMAIN told : told[i] \in 1..Len(contexts)
    /\ \A i, j \in DOMAIN told : told[i] = told[j] => i = j
    /\ \A w \in Worker : Fresh(job[w]) =>
          \A i \in DOMAIN told : told[i] # job[w].ctx
    /\ \A v, w \in Worker : Fresh(job[v]) /\ Fresh(job[w])
                            /\ job[v].ctx = job[w].ctx => v = w

\* The record of a proven keyed context lives as long as its key.
KeysSound ==
    /\ \A k \in keys : k.ctx \in 1..Len(contexts)
    /\ \A i \in DOMAIN contexts :
          /\ contexts[i].at <= now
          /\ contexts[i].proven /\ contexts[i].key # None =>
                \E k \in keys : /\ k.agent = contexts[i].agent
                                /\ k.key = contexts[i].key
                                /\ k.expires >= contexts[i].at + KeyTtl

\* Ids rise from what was received, past what is being sent, to the queue's end.
QueueSound ==
    /\ \A i, j \in DOMAIN queue : i < j => queue[i].id < queue[j].id
    /\ \A i \in DOMAIN queue : /\ received.last < queue[i].id
                               /\ queue[i].id <= minted
                               /\ queue[i].ctx \in 1..Len(contexts)
    /\ received.last <= minted
    /\ received.ordered /\ received.times <= Max({1, MaxRetries})
    /\ sending # NoDelivery =>
          /\ sending.event.id <= minted /\ received.last <= sending.event.id
          /\ \A i \in DOMAIN queue : sending.event.id < queue[i].id
          /\ sending.attempt = 0 \/ sending.attempt < MaxRetries
          /\ received.last = sending.event.id => received.times <= sending.attempt

\* The playground cell in force is one the loader accepts.
CellSound == ValidPlayground(playground, d.receipts)

(***************************************************************************)
(* The write limiter.                                                      *)
(***************************************************************************)
\* The larger of one and a number bounds both.
LEMMA MaxOfTwo ==
    ASSUME NEW m \in Nat
    PROVE  Max({1, m}) \in Nat /\ Max({1, m}) >= 1 /\ Max({1, m}) >= m
<1>1. \E x \in {1, m} : \A y \in {1, m} : x >= y
  <2>1. CASE m >= 1
    BY <2>1
  <2>2. CASE m < 1
    BY <2>2
  <2> QED BY <2>1, <2>2
<1> DEFINE x == CHOOSE x \in {1, m} : \A y \in {1, m} : x >= y
<1>2. x \in {1, m} /\ \A y \in {1, m} : x >= y
  BY <1>1
<1> HIDE DEF x
<1>3. x \in Nat /\ x >= 1 /\ x >= m
  BY <1>2
<1> QED BY <1>3 DEF Max, x

\* What an agent has spent is a number, and only less when time passes.
LEMMA SpentType ==
    ASSUME NEW lim, IsLimiter(lim), NEW a \in Agent, NEW t \in Nat
    PROVE  /\ Spent(lim, a, t) \in Nat
           /\ Spent(lim, a, t + 1) <= Spent(lim, a, t)
<1>1. lim.buckets[a].count \in Nat /\ lim.buckets[a].start \in Int
  BY DEF IsLimiter, Buckets
<1>2. Elapsed(lim.buckets[a], t) => Elapsed(lim.buckets[a], t + 1)
  BY <1>1, WindowAssumption DEF Elapsed
<1>3. a \in LiveKeys(lim, t + 1) => a \in LiveKeys(lim, t)
  BY <1>2 DEF LiveKeys
<1> QED BY <1>1, <1>3 DEF Spent

\* A new limiter has recorded nothing.
LEMMA NewLimiterFacts ==
    ASSUME NEW t \in Nat
    PROVE  /\ IsLimiter(NewLimiter(Agent))
           /\ \A a \in Agent : Spent(NewLimiter(Agent), a, t) = 0
<1> DEFINE l == NewLimiter(Agent)
<1>1. l.buckets = [k \in Agent |-> NoBucket] /\ l.threshold = PruneAt
  BY DEF NewLimiter
<1>2. IsLimiter(l)
  BY DEF NewLimiter, IsLimiter, Buckets, NoBucket
<1>3. \A a \in Agent : a \notin Tracked(l)
  BY <1>1 DEF Tracked
<1> HIDE DEF l
<1>4. \A a \in Agent : Spent(l, a, t) = 0
  BY <1>3 DEF Spent, LiveKeys
<1> QED BY <1>2, <1>4 DEF l

\* A prune keeps every open window.
LEMMA PruneKeepsSpent ==
    ASSUME NEW lim, IsLimiter(lim), NEW t \in Nat
    PROVE  /\ IsLimiter(PruneIfDue(lim, t))
           /\ \A a \in Agent :
                 /\ a \in LiveKeys(PruneIfDue(lim, t), t) <=> a \in LiveKeys(lim, t)
                 /\ a \in LiveKeys(lim, t) =>
                       PruneIfDue(lim, t).buckets[a] = lim.buckets[a]
<1>1. CASE Cardinality(Tracked(lim)) < lim.threshold
  <2>1. PruneIfDue(lim, t) = lim
    BY <1>1 DEF PruneIfDue
  <2> QED BY <2>1
<1>2. CASE ~ (Cardinality(Tracked(lim)) < lim.threshold)
  <2> DEFINE live == LiveKeys(lim, t)
  <2> DEFINE th == Max({PruneAt, 2 * Cardinality(live)})
  <2> DEFINE b == [k \in DOMAIN lim.buckets |->
                      IF k \in live THEN lim.buckets[k] ELSE NoBucket]
  <2>1. PruneIfDue(lim, t) = [buckets |-> b, threshold |-> th]
    BY <1>2 DEF PruneIfDue
  <2>2. DOMAIN lim.buckets = Agent
    BY DEF IsLimiter, Buckets
  <2>3. b \in Buckets
    BY <2>2 DEF IsLimiter, Buckets, NoBucket
  <2>4. \A a \in Agent : b[a] = IF a \in live THEN lim.buckets[a] ELSE NoBucket
    BY <2>2
  <2> HIDE DEF b, th
  <2> DEFINE p == [buckets |-> b, threshold |-> th]
  <2>5. p.buckets = b /\ DOMAIN b = Agent
    BY <2>3 DEF Buckets
  <2>6. IsLimiter(p)
    BY <2>3 DEF IsLimiter
  <2> HIDE DEF p
  <2>7. ASSUME NEW a \in Agent
        PROVE  /\ a \in LiveKeys(p, t) <=> a \in live
               /\ a \in live => p.buckets[a] = lim.buckets[a]
    <3>1. a \in live => lim.buckets[a] # NoBucket /\ ~ Elapsed(lim.buckets[a], t)
      BY DEF LiveKeys, Tracked
    <3>2. a \in LiveKeys(p, t) <=> b[a] # NoBucket /\ ~ Elapsed(b[a], t)
      BY <2>5 DEF LiveKeys, Tracked
    <3> QED BY <3>1, <3>2, <2>4, <2>5
  <2> QED BY <2>1, <2>6, <2>7 DEF p
<1> QED BY <1>1, <1>2

\* record_at spends one unit of the agent's budget and nobody else's.
LEMMA RecordSpends ==
    ASSUME NEW lim, IsLimiter(lim), NEW k \in Agent, NEW t \in Nat
    PROVE  /\ IsLimiter(Record(lim, k, t))
           /\ Spent(Record(lim, k, t), k, t) = Spent(lim, k, t) + 1
           /\ \A a \in Agent \ {k} :
                 Spent(Record(lim, k, t), a, t) = Spent(lim, a, t)
<1> DEFINE p == PruneIfDue(lim, t)
<1>1. /\ IsLimiter(p)
      /\ \A a \in Agent : /\ a \in LiveKeys(p, t) <=> a \in LiveKeys(lim, t)
                          /\ a \in LiveKeys(lim, t) => p.buckets[a] = lim.buckets[a]
  BY PruneKeepsSpent
<1> HIDE DEF p
<1> DEFINE open == [start |-> t, count |-> 0]
<1> DEFINE q == Rolled(lim, k, t)
<1>2. /\ IsLimiter(q)
      /\ q.buckets[k] = IF k \in LiveKeys(p, t) THEN p.buckets[k] ELSE open
      /\ \A a \in Agent \ {k} : q.buckets[a] = p.buckets[a]
  <2>1. CASE k \in LiveKeys(p, t)
    <3>1. q = p
      BY <2>1 DEF Rolled, p
    <3> QED BY <3>1, <2>1, <1>1
  <2>2. CASE k \notin LiveKeys(p, t)
    <3>1. q = [p EXCEPT !.buckets = [p.buckets EXCEPT ![k] = open]]
      BY <2>2 DEF Rolled, p
    <3>2. q = [buckets |-> [p.buckets EXCEPT ![k] = open], threshold |-> p.threshold]
      BY <3>1, <1>1 DEF IsLimiter
    <3>3. open \in [start : Int, count : Nat]
      OBVIOUS
    <3> DEFINE b == [p.buckets EXCEPT ![k] = open]
    <3>4. b \in Buckets /\ b[k] = open /\ \A a \in Agent \ {k} : b[a] = p.buckets[a]
      BY <1>1, <3>3 DEF IsLimiter, Buckets
    <3> HIDE DEF b
    <3> QED BY <3>2, <3>4, <2>2 DEF IsLimiter, b
  <2> QED BY <2>1, <2>2
<1> HIDE DEF q
<1> DEFINE c == q.buckets[k]
<1>3. c \in [start : Int, count : Nat]
  BY <1>2 DEF IsLimiter, Buckets
<1> DEFINE c1 == [c EXCEPT !.count = c.count + 1]
<1>4. c1.start = c.start /\ c1.count = c.count + 1 /\ c1 \in [start : Int, count : Nat]
  BY <1>3
<1> DEFINE z == Record(lim, k, t)
<1>5. z = [q EXCEPT !.buckets = [q.buckets EXCEPT ![k] = c1]]
  BY DEF Record, q
<1>6. z = [buckets |-> [q.buckets EXCEPT ![k] = c1], threshold |-> q.threshold]
  BY <1>5, <1>2 DEF IsLimiter
<1> DEFINE b == [q.buckets EXCEPT ![k] = c1]
<1> HIDE DEF c1, c
<1>7. b \in Buckets /\ b[k] = c1 /\ \A a \in Agent \ {k} : b[a] = q.buckets[a]
  BY <1>2, <1>4 DEF IsLimiter, Buckets
<1> HIDE DEF b
<1>8. z.buckets = b /\ IsLimiter(z) /\ DOMAIN z.buckets = Agent
  BY <1>6, <1>7 DEF IsLimiter, b, Buckets
<1> HIDE DEF z
<1>9. ASSUME NEW a \in Agent \ {k}
      PROVE  Spent(z, a, t) = Spent(lim, a, t)
  <2>1. z.buckets[a] = p.buckets[a]
    BY <1>8, <1>7, <1>2
  <2>2. a \in LiveKeys(z, t) <=> a \in LiveKeys(p, t)
    BY <2>1, <1>8, <1>1 DEF LiveKeys, Tracked, IsLimiter, Buckets
  <2> QED BY <2>1, <2>2, <1>1 DEF Spent
<1>10. Spent(z, k, t) = Spent(lim, k, t) + 1
  <2>1. c1 # NoBucket
    BY <1>4, <1>3 DEF NoBucket
  <2>2. ~ Elapsed(c, t)
    <3>1. k \in LiveKeys(p, t) => ~ Elapsed(p.buckets[k], t)
      BY DEF LiveKeys
    <3>2. ~ Elapsed(open, t)
      BY WindowAssumption DEF Elapsed
    <3> QED BY <3>1, <3>2, <1>2 DEF c
  <2>3. ~ Elapsed(c1, t)
    BY <2>2, <1>4 DEF Elapsed
  <2>4. k \in LiveKeys(z, t)
    BY <2>1, <2>3, <1>8, <1>7 DEF LiveKeys, Tracked
  <2>5. Spent(z, k, t) = c.count + 1
    BY <2>4, <1>8, <1>7, <1>4 DEF Spent
  <2>6. c.count = Spent(lim, k, t)
    BY <1>2, <1>1 DEF Spent, c
  <2> QED BY <2>5, <2>6
<1> QED BY <1>8, <1>9, <1>10 DEF z

(***************************************************************************)
(* Tenants and branches.                                                   *)
(***************************************************************************)
\* A tenant that is not refused is one the request or its producer names.
LEMMA TenantIsNamed ==
    ASSUME NEW dep, NEW r \in Requests, NEW claim \in Tenants,
           TenantWithClaim(dep, r, claim) # Refused
    PROVE  TenantWithClaim(dep, r, claim) \in Tenants
<1>1. r.header \in Tenants /\ None \in Tenants
  BY DEF Tenants
<1>2. TenantFromHeaders(r) \in Tenants
  BY <1>1 DEF TenantFromHeaders
<1>3. ReconcileTenantSources(claim, TenantFromHeaders(r)) \in Tenants \cup {Refused}
  BY <1>2 DEF ReconcileTenantSources
<1>4. UnboundHeaderTenant(dep, r) \in Tenants \cup {Refused}
  BY <1>2 DEF UnboundHeaderTenant
<1> QED BY <1>3, <1>4 DEF TenantWithClaim

\* tenant_for_publish puts a publish in the tenant it was vouched for, and
\* in strict mode never in the default bucket.
LEMMA PublishTenant ==
    ASSUME NEW r \in Publishes, r.agent \in Agent,
           TenantForPublish(d, r, BindingOf[r.agent]) # Refused
    PROVE  /\ TenantForPublish(d, r, BindingOf[r.agent]) \in Tenants
           /\ Column(TenantForPublish(d, r, BindingOf[r.agent]))
                 = Column(VouchedTenant(r))
           /\ d.auth /\ d.strict =>
                 Column(TenantForPublish(d, r, BindingOf[r.agent])) # Default
<1> DEFINE claim == IF r.claim # None THEN r.claim ELSE BindingOf[r.agent]
<1> DEFINE tenant == TenantForPublish(d, r, BindingOf[r.agent])
<1>1. tenant = TenantWithClaim(d, r, claim)
  BY DEF TenantForPublish
<1>2. claim \in Tenants
  BY DEF Tenants, Requests
<1>3. tenant \in Tenants
  BY <1>1, <1>2, TenantIsNamed DEF Requests
<1> HIDE DEF tenant
<1>4. CASE d.auth /\ claim # None
  <2>1. tenant = claim
    BY <1>1, <1>4 DEF TenantWithClaim, ReconcileTenantSources, tenant
  <2>2. VouchedTenant(r) = claim
    BY <1>4 DEF VouchedTenant
  <2>3. tenant # Default
    BY <1>1, <1>4 DEF TenantWithClaim, tenant, Default, Refused
  <2> QED BY <1>3, <2>1, <2>2, <2>3, <1>4 DEF Column, tenant
<1>5. CASE ~ (d.auth /\ claim # None)
  <2>1. tenant = TenantFromHeaders(r)
    BY <1>1, <1>5 DEF TenantWithClaim, UnboundHeaderTenant, tenant
  <2>2. VouchedTenant(r) = TenantFromHeaders(r)
    BY <1>5 DEF VouchedTenant
  <2>3. d.auth /\ d.strict => tenant # Default /\ tenant # None
    BY <1>1, <1>5, <2>1 DEF TenantWithClaim, UnboundHeaderTenant, tenant
  <2> QED BY <1>3, <2>1, <2>2, <2>3 DEF Column, tenant
<1> QED BY <1>4, <1>5

\* Under a valid playground section no publish of a registry that issues
\* receipts is left unverified.
LEMMA BranchIsVerified ==
    ASSUME NEW r, CellSound, Branch(r) = "unpinned"
    PROVE  ~ d.receipts
BY DEF CellSound, ValidPlayground, Branch, EnforcePinnedSignature, Refused

\* The branches.
LEMMA BranchType ==
    ASSUME NEW r, Branch(r) # Refused
    PROVE  Branch(r) \in {"key", "web", "pinned", "unpinned"}
BY DEF Branch, EnforcePinnedSignature

(***************************************************************************)
(* The budget.                                                             *)
(***************************************************************************)
\* An idle slot is no request.
LEMMA IdleIsNoJob == Idle \notin Jobs /\ Idle.pc = "idle"
BY DEF Idle, Jobs, PublishStages, EventStages

\* A request is placed in an idle slot.
LEMMA SlotIsIdle ==
    ASSUME NEW w \in Worker, w = FreeSlot
    PROVE  job[w] = Idle
<1>1. \E v \in Worker : job[v] = Idle
  BY RequestsAssumption DEF FreeSlot
<1> QED BY <1>1 DEF FreeSlot

\* The requests in flight of an agent.
Pending(a) == {w \in Worker : job[w] # Idle /\ job[w].agent = a}

\* BudgetBound by the name of its set.
LEMMA BudgetByPending ==
    BudgetBound <=> \A a \in Agent : Spent(limiter, a, now) + Cardinality(Pending(a))
                                        <= Limit - 1 + Cardinality(Worker)
BY DEF BudgetBound, Pending

\* The requests of an agent are at most as many as the slots.
LEMMA PendingIsBounded ==
    ASSUME NEW S \in SUBSET Worker
    PROVE  /\ IsFiniteSet(S) /\ Cardinality(S) \in Nat
           /\ Cardinality(Worker) \in Nat
           /\ Cardinality(S) <= Cardinality(Worker)
BY FS_Subset, FS_CardinalityType, RequestsAssumption

\* A request is admitted while its agent has budget left.
LEMMA BudgetAdmits ==
    ASSUME ServerType, BudgetBound, NEW w \in Worker, job[w] = Idle,
           NEW x \in Jobs, job' = [job EXCEPT ![w] = x],
           Peek(limiter, x.agent, now, Limit), UNCHANGED <<limiter, now>>
    PROVE  BudgetBound'
<1> SUFFICES ASSUME NEW a \in Agent
             PROVE  Spent(limiter', a, now') + Cardinality(Pending(a)')
                       <= Limit - 1 + Cardinality(Worker)
  BY DEF BudgetBound, Pending
<1>1. /\ Spent(limiter, a, now) \in Nat
      /\ Spent(limiter', a, now') = Spent(limiter, a, now)
  BY SpentType DEF ServerType
<1>2. Pending(a)' \in SUBSET Worker /\ Pending(a) \in SUBSET Worker
  BY DEF Pending
<1> DEFINE before == Cardinality(Pending(a))
<1> DEFINE after == Cardinality(Pending(a)')
<1> DEFINE slots == Cardinality(Worker)
<1> DEFINE spent == Spent(limiter, a, now)
<1>3. after \in Nat /\ slots \in Nat /\ after <= slots /\ before \in Nat
  BY <1>2, PendingIsBounded
<1>4. spent + before <= Limit - 1 + slots
  BY BudgetByPending
<1>5. CASE a = x.agent
  <2>1. spent < Limit
    BY <1>5 DEF Peek
  <2> HIDE DEF spent, after, slots, before
  <2>2. spent + after <= Limit - 1 + slots
    BY <2>1, <1>3, <1>1, PublishingAssumption DEF spent
  <2> QED BY <2>2, <1>1 DEF spent, after, slots
<1>6. CASE a # x.agent
  <2>1. Pending(a)' = Pending(a)
    BY <1>6 DEF Pending, ServerType
  <2> QED BY <2>1, <1>1, <1>4
<1> QED BY <1>5, <1>6

\* A step that keeps a request's agent and charges nothing.
LEMMA BudgetKept ==
    ASSUME ServerType, BudgetBound, NEW w \in Worker, job[w] \in Jobs,
           NEW x \in Jobs, job' = [job EXCEPT ![w] = x], x.agent = job[w].agent,
           UNCHANGED <<limiter, now>>
    PROVE  BudgetBound'
<1> SUFFICES ASSUME NEW a \in Agent
             PROVE  Spent(limiter', a, now') + Cardinality(Pending(a)')
                       <= Limit - 1 + Cardinality(Worker)
  BY DEF BudgetBound, Pending
<1>1. Pending(a)' = Pending(a)
  BY IdleIsNoJob DEF Pending, ServerType
<1> QED BY <1>1, BudgetByPending

\* A request ends: what it adds to the budget is no longer in flight.
LEMMA BudgetEnds ==
    ASSUME ServerType, BudgetBound, EveryProofIsCharged,
           NEW w \in Worker, job[w] \in Jobs, NEW j \in Jobs,
           j.agent = job[w].agent, j.armed = j.earned, End(w, j), now' = now
    PROVE  /\ IsLimiter(limiter') /\ BudgetBound' /\ EveryProofIsCharged'
           /\ job' = [job EXCEPT ![w] = Idle]
<1>1. job' = [job EXCEPT ![w] = Idle] /\ misjudged' = misjudged
  BY DEF End
<1>2. j.agent \in Agent /\ IsLimiter(limiter) /\ now \in Nat
  BY DEF Jobs, ServerType
<1> DEFINE extra(a) == IF a = j.agent THEN 1 ELSE 0
<1>3. /\ IsLimiter(limiter')
      /\ \A a \in Agent : Spent(limiter', a, now) <= Spent(limiter, a, now) + extra(a)
                          /\ Spent(limiter', a, now) \in Nat
  <2>1. CASE j.armed
    <3>1. limiter' = Record(limiter, j.agent, now)
      BY <2>1 DEF End, DropCharge
    <3>2. \A a \in Agent : Spent(limiter, a, now) \in Nat
      BY <1>2, SpentType
    <3>3. /\ IsLimiter(limiter')
          /\ Spent(limiter', j.agent, now) = Spent(limiter, j.agent, now) + 1
          /\ \A a \in Agent \ {j.agent} : Spent(limiter', a, now) = Spent(limiter, a, now)
      BY <3>1, <1>2, RecordSpends
    <3>4. ASSUME NEW a \in Agent
          PROVE  /\ Spent(limiter', a, now) <= Spent(limiter, a, now) + extra(a)
                 /\ Spent(limiter', a, now) \in Nat
      <4>1. CASE a = j.agent
        BY <3>2, <3>3, <4>1
      <4>2. CASE a # j.agent
        BY <3>2, <3>3, <4>2
      <4> QED BY <4>1, <4>2
    <3> QED BY <3>3, <3>4
  <2>2. CASE ~ j.armed
    <3>1. limiter' = limiter
      BY <2>2 DEF End, DropCharge
    <3>2. \A a \in Agent : Spent(limiter, a, now) \in Nat
      BY <1>2, SpentType
    <3> QED BY <3>1, <3>2, <1>2
  <2> QED BY <2>1, <2>2
<1>4. ASSUME NEW a \in Agent
      PROVE  Spent(limiter', a, now') + Cardinality(Pending(a)')
                <= Limit - 1 + Cardinality(Worker)
  <2> DEFINE before == Cardinality(Pending(a))
  <2> DEFINE after == Cardinality(Pending(a)')
  <2> DEFINE slots == Cardinality(Worker)
  <2> DEFINE spent == Spent(limiter, a, now)
  <2> DEFINE spent1 == Spent(limiter', a, now)
  <2>1. Pending(a) \in SUBSET Worker /\ Pending(a)' \in SUBSET Worker
    BY DEF Pending
  <2>2. /\ before \in Nat /\ after \in Nat /\ slots \in Nat
        /\ IsFiniteSet(Pending(a))
    BY <2>1, PendingIsBounded
  <2>3. spent + before <= Limit - 1 + slots
    BY BudgetByPending
  <2>4. spent \in Nat
    BY <1>2, SpentType
  <2>5. spent1 \in Nat /\ spent1 <= spent + extra(a)
    BY <1>3
  <2>6. after = before - extra(a)
    <3>1. CASE a = j.agent
      <4>1. Pending(a)' = Pending(a) \ {w}
        BY <1>1, IdleIsNoJob DEF Pending, ServerType
      <4>2. w \in Pending(a)
        BY <3>1, IdleIsNoJob DEF Pending
      <4>3. Cardinality(Pending(a) \ {w}) = Cardinality(Pending(a)) - 1
        BY <4>2, <2>2, FS_RemoveElement
      <4> QED BY <4>1, <4>3, <3>1
    <3>2. CASE a # j.agent
      <4>1. Pending(a)' = Pending(a)
        BY <3>2, <1>1, IdleIsNoJob DEF Pending, ServerType
      <4> QED BY <4>1, <3>2, <2>2
    <3> QED BY <3>1, <3>2
  <2>7. extra(a) \in Nat
    OBVIOUS
  <2> HIDE DEF before, after, slots, spent, spent1, extra
  <2>8. spent1 + after <= Limit - 1 + slots
    BY <2>2, <2>3, <2>4, <2>5, <2>6, <2>7, PublishingAssumption
  <2> QED BY <2>8 DEF after, slots, spent1
<1>5. BudgetBound'
  BY <1>4 DEF BudgetBound, Pending
<1> QED BY <1>1, <1>3, <1>5 DEF EveryProofIsCharged

(***************************************************************************)
(* The requests in flight.                                                 *)
(***************************************************************************)
\* One request moves on or ends; the store only grows.  A publish keeps the
\* context it made, or has just made one that did not exist.
LEMMA Moves ==
    ASSUME ServerType, StoreType, HookType, JobsSound, ToldSound,
           NEW w \in Worker, NEW x \in Jobs \cup {Idle},
           job' = [job EXCEPT ![w] = x],
           x # Idle => StageSound(x, d', Len(contexts')),
           Fresh(x) => \/ Fresh(job[w]) /\ x.ctx = job[w].ctx
                       \/ x.ctx \notin 1..Len(contexts),
           d' = d, told' = told, Len(contexts') \in Nat,
           Len(contexts') >= Len(contexts)
    PROVE  JobsSound' /\ ToldSound'
<1>0. Len(contexts) \in Nat
  BY DEF StoreType
<1>1. \A v \in Worker : job'[v] = IF v = w THEN x ELSE job[v]
  BY DEF ServerType
<1>2. \A n \in 1..Len(contexts) : n \in 1..Len(contexts')
  BY <1>0
<1>3. ASSUME NEW v \in Worker, job'[v] # Idle
      PROVE  StageSound(job'[v], d', Len(contexts'))
  <2>1. CASE v = w
    BY <2>1, <1>1, <1>3
  <2>2. CASE v # w
    <3>1. StageSound(job[v], d, Len(contexts)) /\ job'[v] = job[v]
      BY <2>2, <1>1, <1>3 DEF JobsSound
    <3> QED BY <3>1, <1>2 DEF StageSound
  <2> QED BY <2>1, <2>2
<1>4. JobsSound'
  BY <1>3 DEF JobsSound
<1>5. \A v \in Worker : Fresh(job[v]) => job[v].ctx \in 1..Len(contexts)
  BY IdleIsNoJob DEF JobsSound, StageSound, Fresh
<1>6. \A i \in DOMAIN told' : told'[i] \in 1..Len(contexts')
  BY <1>2 DEF ToldSound
<1>7. ASSUME NEW v \in Worker, Fresh(job'[v]), NEW i \in DOMAIN told'
      PROVE  told'[i] # job'[v].ctx
  BY <1>1, <1>7 DEF ToldSound
<1>8. ASSUME NEW u \in Worker, NEW v \in Worker, Fresh(job'[u]), Fresh(job'[v]),
             job'[u].ctx = job'[v].ctx
      PROVE  u = v
  <2>1. CASE u # w /\ v # w
    BY <2>1, <1>1, <1>8 DEF ToldSound
  <2>2. CASE u = w /\ v # w
    <3>1. Fresh(x) /\ Fresh(job[v]) /\ x.ctx = job[v].ctx
      BY <2>2, <1>1, <1>8
    <3>2. x.ctx \in 1..Len(contexts)
      BY <3>1, <1>5
    <3> QED BY <3>1, <3>2, <2>2 DEF ToldSound
  <2>3. CASE u # w /\ v = w
    <3>1. Fresh(x) /\ Fresh(job[u]) /\ x.ctx = job[u].ctx
      BY <2>3, <1>1, <1>8
    <3>2. x.ctx \in 1..Len(contexts)
      BY <3>1, <1>5
    <3> QED BY <3>1, <3>2, <2>3 DEF ToldSound
  <2> QED BY <2>1, <2>2, <2>3
<1>9. ToldSound'
  BY <1>6, <1>7, <1>8 DEF ToldSound, Fresh
<1> QED BY <1>4, <1>9

\* The server's part of the invariant.
ServerInv ==
    /\ ServerType /\ JobsSound /\ ToldSound /\ CellSound
    /\ BudgetBound /\ EveryProofIsCharged

\* The request of slot w ends as j, or goes on as j, which is sound.
Goes(w, j) ==
    \/ End(w, j) /\ j.armed = j.earned
    \/ /\ \/ Resume(w, j)
          \/ job' = [job EXCEPT ![w] = j] /\ UNCHANGED <<limiter, misjudged>>
       /\ StageSound(j, d, Len(contexts'))
       /\ Fresh(j) => \/ Fresh(job[w]) /\ j.ctx = job[w].ctx
                      \/ j.ctx \notin 1..Len(contexts)

\* A request goes on, or ends, while the store only grows.
LEMMA Resumes ==
    ASSUME ServerInv, StoreType, HookType,
           NEW w \in Worker, job[w] \in Jobs, NEW j \in Jobs,
           j.agent = job[w].agent, Goes(w, j),
           UNCHANGED <<d, disk, playground, now, told>>,
           Len(contexts') \in Nat, Len(contexts') >= Len(contexts)
    PROVE  ServerInv'
<1>1. j.armed = j.earned
  BY DEF StageSound, Goes
<1>2. CASE End(w, j)
  <2>1. /\ IsLimiter(limiter') /\ BudgetBound' /\ EveryProofIsCharged'
        /\ job' = [job EXCEPT ![w] = Idle]
    BY <1>1, <1>2, BudgetEnds DEF ServerInv
  <2>2. ~ Fresh(Idle)
    BY IdleIsNoJob DEF Fresh
  <2>3. JobsSound' /\ ToldSound'
    BY <2>1, <2>2, Moves DEF ServerInv
  <2>4. job' \in [Worker -> Jobs \cup {Idle}]
    BY <2>1 DEF ServerInv, ServerType
  <2> QED BY <2>1, <2>3, <2>4 DEF ServerInv, ServerType, CellSound, ValidPlayground
<1>3. CASE /\ ~ End(w, j)
           /\ job' = [job EXCEPT ![w] = j] /\ UNCHANGED <<limiter, misjudged>>
  <2>1. BudgetBound'
    BY <1>3, BudgetKept DEF ServerInv
  <2>0. /\ StageSound(j, d, Len(contexts'))
        /\ Fresh(j) => \/ Fresh(job[w]) /\ j.ctx = job[w].ctx
                       \/ j.ctx \notin 1..Len(contexts)
    BY <1>3 DEF Goes
  <2>2. JobsSound' /\ ToldSound'
    BY <1>3, <2>0, Moves DEF ServerInv
  <2>3. job' \in [Worker -> Jobs \cup {Idle}]
    BY <1>3 DEF ServerInv, ServerType
  <2> QED BY <1>3, <2>1, <2>2, <2>3
          DEF ServerInv, ServerType, CellSound, ValidPlayground, EveryProofIsCharged
<1> QED BY <1>2, <1>3 DEF Resume, Goes

\* Requests, clock and cell as they were; the store only grows.
LEMMA ServerIdles ==
    ASSUME ServerInv, StoreType,
           UNCHANGED <<d, disk, playground, now, told, job, limiter, misjudged>>,
           Len(contexts') \in Nat, Len(contexts') >= Len(contexts)
    PROVE  ServerInv'
<1>0. Len(contexts) \in Nat
  BY DEF StoreType
<1>1. \A n \in 1..Len(contexts) : n \in 1..Len(contexts')
  BY <1>0
<1>2. ASSUME NEW v \in Worker, job[v] # Idle
      PROVE  StageSound(job[v], d, Len(contexts'))
  <2>1. StageSound(job[v], d, Len(contexts))
    BY <1>2 DEF JobsSound, ServerInv
  <2> QED BY <2>1, <1>1 DEF StageSound
<1>3. JobsSound'
  BY <1>2 DEF JobsSound
<1>4. ToldSound'
  BY <1>1 DEF ServerInv, ToldSound, Fresh
<1>5. BudgetBound'
  BY DEF ServerInv, BudgetBound
<1> QED BY <1>3, <1>4, <1>5
        DEF ServerInv, ServerType, CellSound, ValidPlayground, EveryProofIsCharged

\* The job after a commit.
LEMMA AfterCommitFields ==
    ASSUME NEW t \in Jobs, NEW c \in Nat, NEW b \in BOOLEAN
    PROVE  LET j == AfterCommit(t, c, b)
           IN  /\ j \in Jobs /\ j.ctx = c /\ j.replay = b
               /\ j.pc = IF t.snapshot.enabled /\ t.tenant # None
                         THEN "stamp" ELSE "finish"
               /\ j.r = t.r /\ j.agent = t.agent /\ j.tenant = t.tenant
               /\ j.branch = t.branch
               /\ j.armed = t.armed /\ j.earned = t.earned
BY DEF AfterCommit, Jobs, PublishStages, EventStages

\* The job once its charge is armed.
LEMMA ArmFields ==
    ASSUME NEW t \in Jobs
    PROVE  LET j == Arm(t)
           IN  /\ j \in Jobs /\ j.ctx = t.ctx /\ j.replay = t.replay
               /\ j.pc = t.pc /\ j.r = t.r /\ j.agent = t.agent
               /\ j.tenant = t.tenant /\ j.branch = t.branch
               /\ j.snapshot = t.snapshot /\ j.gone = t.gone
               /\ j.armed = TRUE /\ j.earned = TRUE
BY DEF Arm, Jobs

\* The job at another stage.
LEMMA StageFields ==
    ASSUME NEW t \in Jobs, NEW p \in PublishStages \cup EventStages
    PROVE  LET j == [t EXCEPT !.pc = p]
           IN  /\ j \in Jobs /\ j.ctx = t.ctx /\ j.replay = t.replay
               /\ j.pc = p /\ j.r = t.r /\ j.agent = t.agent
               /\ j.tenant = t.tenant /\ j.branch = t.branch
               /\ j.armed = t.armed /\ j.earned = t.earned
BY DEF Jobs

(***************************************************************************)
(* The store.                                                              *)
(***************************************************************************)
StoreInv ==
    /\ StoreType /\ KeysSound
    /\ NoUnverifiedWithReceipts /\ BornInItsTenant /\ OneContextPerKey

\* One context in the tenant it belongs to.
Born(c) ==
    /\ \/ c.tenant = Column(VouchedTenant(c.by))
       \/ ~ c.proven /\ c.tenant = Default
    /\ c.proven /\ d.auth /\ d.strict => c.tenant # Default

\* A record in `held' that outlives the time e.
Covered(held, agent, key, e) ==
    \E k \in held : k.agent = agent /\ k.key = key /\ k.expires >= e

\* The store is not touched; time may pass.
LEMMA StoreIdles ==
    ASSUME StoreInv, UNCHANGED <<d, contexts, keys>>, now \in Nat, now' \in Nat,
           now' >= now
    PROVE  StoreInv'
<1>1. ASSUME NEW i \in DOMAIN contexts
      PROVE  contexts[i].at <= now'
  <2>1. contexts[i].at <= now
    BY DEF StoreInv, KeysSound
  <2>2. contexts[i] \in StoredContexts
    BY DEF StoreInv, StoreType
  <2>3. contexts[i].at \in Nat
    BY <2>2 DEF StoredContexts
  <2> QED BY <2>1, <2>3
<1>2. KeysSound'
  BY <1>1 DEF StoreInv, KeysSound
<1>3. StoreType' /\ NoUnverifiedWithReceipts' /\ OneContextPerKey'
  BY DEF StoreInv, StoreType, NoUnverifiedWithReceipts, OneContextPerKey
<1>4. BornInItsTenant'
  BY DEF StoreInv, BornInItsTenant, VouchedTenant
<1> QED BY <1>2, <1>3, <1>4 DEF StoreInv

\* A context is stored.
LEMMA StoreAppends ==
    ASSUME StoreInv, NEW c \in StoredContexts, contexts' = Append(contexts, c),
           c.at = now, now \in Nat, UNCHANGED <<d, now>>, keys' \in SUBSET KeyRecords,
           d.receipts => c.proven, Born(c),
           \A k \in keys' : k.ctx \in 1..Len(contexts) \/ k.ctx = Len(contexts) + 1,
           \A i \in DOMAIN contexts :
              Covered(keys, contexts[i].agent, contexts[i].key, contexts[i].at + KeyTtl)
              => Covered(keys', contexts[i].agent, contexts[i].key,
                         contexts[i].at + KeyTtl),
           c.proven /\ c.key # None =>
              /\ Covered(keys', c.agent, c.key, now + KeyTtl)
              /\ \A i \in DOMAIN contexts :
                    contexts[i].agent = c.agent /\ contexts[i].key = c.key
                    /\ contexts[i].proven => now >= contexts[i].at + KeyTtl
    PROVE  /\ StoreInv' /\ Len(contexts') = Len(contexts) + 1
           /\ Len(contexts) \in Nat
<1>1. /\ contexts \in Seq(StoredContexts) /\ Len(contexts) \in Nat
      /\ DOMAIN contexts = 1..Len(contexts)
  BY DEF StoreInv, StoreType
<1>2. /\ contexts' \in Seq(StoredContexts) /\ Len(contexts') = Len(contexts) + 1
      /\ DOMAIN contexts' = 1..(Len(contexts) + 1)
      /\ \A i \in DOMAIN contexts : contexts'[i] = contexts[i]
      /\ contexts'[Len(contexts) + 1] = c
  BY <1>1
<1> DEFINE n == Len(contexts) + 1
<1>3. \A i \in DOMAIN contexts' : i \in DOMAIN contexts \/ i = n
  BY <1>1, <1>2
<1>4. n \notin DOMAIN contexts
  BY <1>1
<1> HIDE DEF n
<1>5. contexts'[n] = c
  BY <1>2 DEF n
<1>6. StoreType'
  BY <1>2 DEF StoreType
<1>7. KeysSound'
  <2>1. ASSUME NEW k \in keys'
        PROVE  k.ctx \in 1..Len(contexts')
    <3>1. k.ctx \in Nat
      BY DEF KeyRecords
    <3> QED BY <1>1, <1>2, <3>1
  <2>2. ASSUME NEW i \in DOMAIN contexts'
        PROVE  /\ contexts'[i].at <= now'
               /\ contexts'[i].proven /\ contexts'[i].key # None =>
                     Covered(keys', contexts'[i].agent, contexts'[i].key,
                             contexts'[i].at + KeyTtl)
    <3>1. CASE i = n
      BY <3>1, <1>5
    <3>2. CASE i \in DOMAIN contexts
      <4>1. contexts'[i] = contexts[i]
        BY <3>2, <1>2
      <4>2. contexts[i].at <= now
        BY <3>2 DEF StoreInv, KeysSound
      <4>3. contexts[i].proven /\ contexts[i].key # None =>
               Covered(keys, contexts[i].agent, contexts[i].key, contexts[i].at + KeyTtl)
        BY <3>2 DEF StoreInv, KeysSound, Covered
      <4> QED BY <4>1, <4>2, <4>3, <3>2
    <3> QED BY <3>1, <3>2, <1>3
  <2> QED BY <2>1, <2>2 DEF KeysSound, Covered
<1>8. NoUnverifiedWithReceipts'
  BY <1>2, <1>3, <1>5 DEF StoreInv, NoUnverifiedWithReceipts
<1>9. BornInItsTenant'
  <2>1. ASSUME NEW i \in DOMAIN contexts'
        PROVE  Born(contexts'[i])
    BY <1>2, <1>3, <1>5 DEF StoreInv, BornInItsTenant, Born
  <2> QED BY <2>1 DEF BornInItsTenant, Born, VouchedTenant
<1>10. OneContextPerKey'
  <2> SUFFICES ASSUME NEW i \in DOMAIN contexts', NEW j \in DOMAIN contexts', i < j,
                      contexts'[i].proven, contexts'[j].proven,
                      contexts'[i].agent = contexts'[j].agent,
                      contexts'[i].key = contexts'[j].key, contexts'[i].key # None
               PROVE  contexts'[j].at >= contexts'[i].at + KeyTtl
    BY DEF OneContextPerKey
  <2>1. i \in DOMAIN contexts
    BY <1>1, <1>2, <1>3 DEF n
  <2>2. CASE j \in DOMAIN contexts
    BY <2>1, <2>2, <1>2 DEF StoreInv, OneContextPerKey
  <2>3. CASE j = n
    BY <2>1, <2>3, <1>2, <1>5
  <2> QED BY <2>2, <2>3, <1>3
<1> QED BY <1>1, <1>2, <1>6, <1>7, <1>8, <1>9, <1>10 DEF StoreInv

\* A stored context is rewritten: its tenant, or its events.
LEMMA StoreRewrites ==
    ASSUME StoreInv, NEW n \in DOMAIN contexts, NEW c \in StoredContexts,
           contexts' = [contexts EXCEPT ![n] = c], UNCHANGED <<d, keys, now>>,
           c.agent = contexts[n].agent, c.key = contexts[n].key,
           c.at = contexts[n].at, c.proven = contexts[n].proven, Born(c)
    PROVE  StoreInv' /\ Len(contexts') = Len(contexts) /\ Len(contexts) \in Nat
<1>1. /\ contexts \in Seq(StoredContexts) /\ Len(contexts) \in Nat
      /\ DOMAIN contexts = 1..Len(contexts)
  BY DEF StoreInv, StoreType
<1>2. /\ contexts' \in Seq(StoredContexts) /\ Len(contexts') = Len(contexts)
      /\ DOMAIN contexts' = DOMAIN contexts
  BY <1>1
<1>3. \A i \in DOMAIN contexts : contexts'[i] = IF i = n THEN c ELSE contexts[i]
  BY <1>1
<1>4. \A i \in DOMAIN contexts :
         /\ contexts'[i].agent = contexts[i].agent
         /\ contexts'[i].key = contexts[i].key
         /\ contexts'[i].at = contexts[i].at
         /\ contexts'[i].proven = contexts[i].proven
  BY <1>3
<1>5. StoreType'
  BY <1>2 DEF StoreInv, StoreType
<1>6. KeysSound'
  BY <1>2, <1>4 DEF StoreInv, KeysSound
<1>7. NoUnverifiedWithReceipts'
  BY <1>2, <1>4 DEF StoreInv, NoUnverifiedWithReceipts
<1>8. OneContextPerKey'
  BY <1>2, <1>4 DEF StoreInv, OneContextPerKey
<1>9. \A i \in DOMAIN contexts' : Born(contexts'[i])
  BY <1>2, <1>3 DEF StoreInv, BornInItsTenant, Born
<1>10. BornInItsTenant'
  BY <1>9 DEF BornInItsTenant, Born, VouchedTenant
<1> QED BY <1>1, <1>2, <1>5, <1>6, <1>7, <1>8, <1>10 DEF StoreInv

\* idempotency_record: the record of this agent and key is the newest, and
\* every other is as it was.
LEMMA PutKeyFacts ==
    ASSUME StoreType, now \in Nat, NEW r \in Publishes, NEW n \in Nat
    PROVE  /\ PutKey(r, n) \in SUBSET KeyRecords
           /\ \A k \in PutKey(r, n) : k \in keys \/ k.ctx = n
           /\ r.key # None => Covered(PutKey(r, n), r.agent, r.key, now + KeyTtl)
           /\ \A agent, key : \A e \in Int :
                 e <= now + KeyTtl /\ Covered(keys, agent, key, e)
                 => Covered(PutKey(r, n), agent, key, e)
<1>1. CASE r.key = None
  <2>1. PutKey(r, n) = keys
    BY <1>1 DEF PutKey
  <2> QED BY <2>1, <1>1 DEF StoreType
<1>2. CASE r.key # None
  <2> DEFINE new == [agent |-> r.agent, key |-> r.key, hash |-> r.hash,
                     ctx |-> n, expires |-> now + KeyTtl]
  <2> DEFINE kept == {k \in keys : <<k.agent, k.key>> # <<r.agent, r.key>>}
  <2>1. PutKey(r, n) = kept \cup {new}
    BY <1>2 DEF PutKey
  <2>2. /\ new \in KeyRecords /\ new.ctx = n /\ new.agent = r.agent
        /\ new.key = r.key /\ new.expires = now + KeyTtl /\ new.expires \in Nat
    BY RequestsAssumption, PublishingAssumption DEF KeyRecords
  <2>3. \A k \in keys : k \in kept \/ (k.agent = r.agent /\ k.key = r.key)
    OBVIOUS
  <2>4. kept \in SUBSET keys
    OBVIOUS
  <2> HIDE DEF new, kept
  <2>5. Covered(PutKey(r, n), r.agent, r.key, now + KeyTtl)
    BY <2>1, <2>2 DEF Covered
  <2>6. ASSUME NEW agent, NEW key, NEW e \in Int, e <= now + KeyTtl,
               Covered(keys, agent, key, e)
        PROVE  Covered(PutKey(r, n), agent, key, e)
    BY <2>1, <2>2, <2>3, <2>6 DEF Covered
  <2> QED BY <2>1, <2>2, <2>4, <2>5, <2>6 DEF StoreType
<1> QED BY <1>1, <1>2

(***************************************************************************)
(* The webhook queue.                                                      *)
(***************************************************************************)
HookInv == HookType /\ QueueSound

\* The queue is not touched; the store only grows.
LEMMA HookIdles ==
    ASSUME HookInv, UNCHANGED <<queue, sending, minted, received, told>>,
           Len(contexts) \in Nat, Len(contexts') \in Nat,
           Len(contexts') >= Len(contexts)
    PROVE  HookInv'
<1>1. \A n \in 1..Len(contexts) : n \in 1..Len(contexts')
  OBVIOUS
<1>2. HookType'
  BY DEF HookInv, HookType
<1>3. QueueSound'
  BY <1>1 DEF HookInv, QueueSound
<1> QED BY <1>2, <1>3 DEF HookInv

\* emit_with_tenant, for a stored context: the new event is the newest, or
\* it is dropped.
LEMMA HookEmits ==
    ASSUME HookInv, NEW kind \in {"published", "retracted", "republished"},
           NEW c \in Nat, c \in 1..Len(contexts'), NEW tenant \in Tenants,
           Emit(kind, c, tenant), UNCHANGED <<sending, received>>,
           Len(contexts) \in Nat, Len(contexts') \in Nat,
           Len(contexts') >= Len(contexts)
    PROVE  /\ HookInv'
           /\ told' = told \/ (kind = "published" /\ told' = Append(told, c))
<1> DEFINE event == [id |-> minted + 1, kind |-> kind, ctx |-> c, tenant |-> tenant]
<1>1. minted' = minted + 1 /\ minted \in Nat /\ minted' \in Nat
  BY DEF Emit, HookInv, HookType
<1>2. event \in Announcements /\ event.id = minted + 1 /\ event.ctx = c
  BY <1>1 DEF Announcements
<1>3. \/ queue' = Append(queue, event)
      \/ queue' = queue
  BY DEF Emit
<1>4. told' = told \/ (kind = "published" /\ told' = Append(told, c))
  BY DEF Emit
<1> HIDE DEF event
<1>5. queue \in Seq(Announcements) /\ told \in Seq(Nat)
  BY DEF HookInv, HookType
<1>6. queue' \in Seq(Announcements) /\ told' \in Seq(Nat)
  <2>1. queue' \in Seq(Announcements)
    BY <1>2, <1>3, <1>5
  <2>2. told' \in Seq(Nat)
    BY <1>4, <1>5
  <2> QED BY <2>1, <2>2
<1>7. HookType'
  BY <1>1, <1>6 DEF HookInv, HookType
<1>8. /\ received.last \in Nat /\ received.last <= minted
      /\ \A i \in DOMAIN queue : queue[i].id \in Nat /\ queue[i].id <= minted
                                 /\ queue[i].ctx \in 1..Len(contexts)
                                 /\ received.last < queue[i].id
  <2>1. \A i \in DOMAIN queue : queue[i] \in Announcements
    BY <1>5
  <2> QED BY <2>1 DEF HookInv, HookType, QueueSound, Announcements
<1>9. sending # NoDelivery => sending.event.id \in Nat
  BY DEF HookInv, HookType, Announcements
<1>10. ASSUME NEW i \in DOMAIN queue'
       PROVE  \/ i \in DOMAIN queue /\ queue'[i] = queue[i] /\ i <= Len(queue)
              \/ queue'[i] = event /\ i = Len(queue) + 1
  <2>1. CASE queue' = queue
    BY <2>1, <1>5
  <2>2. CASE queue' = Append(queue, event)
    BY <2>2, <1>2, <1>5
  <2> QED BY <2>1, <2>2, <1>3
<1>11. \A i \in DOMAIN queue' : /\ received.last < queue'[i].id
                                /\ queue'[i].id <= minted'
                                /\ queue'[i].ctx \in 1..Len(contexts')
  <2> SUFFICES ASSUME NEW i \in DOMAIN queue'
               PROVE  /\ received.last < queue'[i].id
                      /\ queue'[i].id <= minted'
                      /\ queue'[i].ctx \in 1..Len(contexts')
    OBVIOUS
  <2>1. CASE i \in DOMAIN queue /\ queue'[i] = queue[i]
    BY <2>1, <1>1, <1>8
  <2>2. CASE queue'[i] = event
    BY <2>2, <1>1, <1>2, <1>8
  <2> QED BY <2>1, <2>2, <1>10
<1>12. ASSUME NEW i \in DOMAIN queue', NEW j \in DOMAIN queue', i < j
       PROVE  queue'[i].id < queue'[j].id
  <2>0. i \in Nat /\ j \in Nat /\ Len(queue) \in Nat
    BY <1>5, <1>6
  <2>1. i \in DOMAIN queue /\ queue'[i] = queue[i]
    BY <1>10, <1>12, <2>0
  <2>2. CASE j \in DOMAIN queue /\ queue'[j] = queue[j]
    BY <2>1, <2>2, <1>12 DEF HookInv, QueueSound
  <2>3. CASE queue'[j] = event
    BY <2>1, <2>3, <1>2, <1>8, <1>1
  <2> QED BY <2>2, <2>3, <1>10
<1>13. ASSUME sending # NoDelivery
       PROVE  /\ sending.event.id <= minted'
              /\ \A i \in DOMAIN queue' : sending.event.id < queue'[i].id
  <2>1. /\ sending.event.id <= minted
        /\ \A i \in DOMAIN queue : sending.event.id < queue[i].id
    BY <1>13 DEF HookInv, QueueSound
  <2>2. ASSUME NEW i \in DOMAIN queue'
        PROVE  sending.event.id < queue'[i].id
    <3>1. CASE i \in DOMAIN queue /\ queue'[i] = queue[i]
      BY <3>1, <2>1
    <3>2. CASE queue'[i] = event
      BY <3>2, <2>1, <1>2, <1>1, <1>9, <1>13
    <3> QED BY <3>1, <3>2, <1>10
  <2> QED BY <2>1, <2>2, <1>1, <1>9, <1>13
<1>14. received.last <= minted'
  BY <1>1, <1>8
<1>15. QueueSound'
  BY <1>11, <1>12, <1>13, <1>14 DEF HookInv, QueueSound, NoDelivery
<1> QED BY <1>4, <1>7, <1>15 DEF HookInv

\* The worker takes the oldest event: the receiver has seen only older ones.
LEMMA HookTakes ==
    ASSUME HookInv, TakeEvent
    PROVE  HookInv'
<1>1. queue \in Seq(Announcements) /\ queue # <<>>
  BY DEF TakeEvent, HookInv, HookType
<1>2. /\ queue' \in Seq(Announcements) /\ Len(queue) \in Nat /\ Len(queue) >= 1
      /\ queue' = Tail(queue) /\ Head(queue) = queue[1] /\ 1 \in DOMAIN queue
      /\ Head(queue) \in Announcements
  BY <1>1 DEF TakeEvent
<1>3. \A i \in DOMAIN queue' : /\ i \in Nat /\ i + 1 \in DOMAIN queue
                               /\ 1 < i + 1 /\ queue'[i] = queue[i + 1]
  BY <1>1, <1>2
<1> DEFINE h == Head(queue)
<1> HIDE DEF h
<1>4. /\ sending' = [event |-> h, attempt |-> 0]
      /\ UNCHANGED <<minted, received, told, contexts>>
  BY DEF TakeEvent, jobVars, h
<1>5. /\ h \in Announcements /\ h.id \in Nat /\ h.id <= minted
      /\ received.last < h.id /\ received.last \in Nat /\ minted \in Nat
  BY <1>2 DEF h, HookInv, HookType, QueueSound, Announcements
<1>6. /\ sending'.event = h /\ sending'.attempt = 0
      /\ sending' \in [event : Announcements, attempt : Nat]
  BY <1>4, <1>5
<1>7. HookType'
  BY <1>2, <1>4, <1>6 DEF HookInv, HookType
<1>8. \A i \in DOMAIN queue' : h.id < queue'[i].id
  BY <1>2, <1>3 DEF HookInv, QueueSound, h
<1>9. \A i \in DOMAIN queue' : /\ received.last < queue'[i].id
                               /\ queue'[i].id <= minted
                               /\ queue'[i].ctx \in 1..Len(contexts)
  BY <1>3 DEF HookInv, QueueSound
<1>10. \A i, j \in DOMAIN queue' : i < j => queue'[i].id < queue'[j].id
  <2> SUFFICES ASSUME NEW i \in DOMAIN queue', NEW j \in DOMAIN queue', i < j
               PROVE  queue'[i].id < queue'[j].id
    OBVIOUS
  <2>1. i + 1 < j + 1
    BY <1>3
  <2> QED BY <2>1, <1>3 DEF HookInv, QueueSound
<1>11. /\ received.last <= h.id /\ received.last # h.id
  BY <1>5
<1>12. QueueSound'
  BY <1>4, <1>5, <1>6, <1>8, <1>9, <1>10, <1>11 DEF HookInv, QueueSound
<1> QED BY <1>7, <1>12 DEF HookInv

\* An attempt of the event in hand, seen by the receiver or not: the event is
\* the receiver's last one or newer, and was tried less often than allowed.
LEMMA AttemptIsSeen ==
    ASSUME HookInv, sending # NoDelivery, NEW seen \in BOOLEAN,
           received' = IF seen THEN See(sending.event.id) ELSE received
    PROVE  /\ sending.event \in Announcements /\ sending.event.id \in Nat
           /\ sending.attempt \in Nat
           /\ sending = [event |-> sending.event, attempt |-> sending.attempt]
           /\ received' \in [last : Nat, times : Nat, ordered : BOOLEAN]
           /\ received'.ordered /\ received'.times <= Max({1, MaxRetries})
           /\ received'.last <= sending.event.id
           /\ received'.last \in Nat
           /\ received'.last = sending.event.id =>
                 received'.times <= sending.attempt + 1
<1>1. sending \in [event : Announcements, attempt : Nat]
  BY DEF HookInv, HookType
<1>2. /\ sending.event \in Announcements /\ sending.event.id \in Nat
      /\ sending.attempt \in Nat
      /\ sending = [event |-> sending.event, attempt |-> sending.attempt]
  BY <1>1 DEF Announcements
<1> DEFINE id == sending.event.id
<1> DEFINE n == sending.attempt
<1>3. /\ received.ordered /\ received.last <= id
      /\ received.times <= Max({1, MaxRetries})
      /\ n = 0 \/ n < MaxRetries
      /\ received.last = id => received.times <= n
  BY DEF HookInv, QueueSound
<1>4. received \in [last : Nat, times : Nat, ordered : BOOLEAN]
  BY DEF HookInv, HookType
<1>5. received.last \in Nat /\ received.times \in Nat
  BY <1>4
<1>6. MaxRetries \in Nat
  BY PublishingAssumption
<1> DEFINE m == Max({1, MaxRetries})
<1>7. m \in Nat /\ m >= 1 /\ m >= MaxRetries
  BY <1>6, MaxOfTwo
<1> HIDE DEF id, n, m
<1>8. CASE ~ seen
  <2>1. received' = received
    BY <1>8
  <2>2. received.last = id => received.times <= n + 1
    BY <1>3, <1>5, <1>2 DEF n
  <2> QED BY <2>1, <2>2, <1>2, <1>3, <1>4, <1>5 DEF id, n
<1>9. CASE seen
  <2> DEFINE tm == IF id = received.last THEN received.times + 1 ELSE 1
  <2>1. /\ received'.last = id /\ received'.times = tm
        /\ received'.ordered = (received.ordered /\ id >= received.last)
        /\ received' = [last |-> received'.last, times |-> received'.times,
                        ordered |-> received'.ordered]
    BY <1>9 DEF See, id
  <2>2. tm \in Nat /\ tm <= n + 1
    BY <1>2, <1>3, <1>5 DEF n
  <2>3. n + 1 <= m
    BY <1>2, <1>3, <1>6, <1>7 DEF n
  <2>4. tm <= m
    BY <2>2, <2>3, <1>2, <1>7 DEF n
  <2>5. id >= received.last /\ id \in Nat
    BY <1>3, <1>5, <1>2 DEF id
  <2> HIDE DEF tm
  <2>6. received'.ordered = TRUE
    BY <2>1, <2>5, <1>3, <1>4
  <2>7. /\ received'.last \in Nat /\ received'.times \in Nat
        /\ received'.ordered \in BOOLEAN
    BY <2>1, <2>2, <2>5, <2>6
  <2>8. received' \in [last : Nat, times : Nat, ordered : BOOLEAN]
    BY <2>1, <2>7
  <2>9. received'.last <= id
    BY <2>1, <2>5
  <2>10. received'.times <= n + 1 /\ received'.times <= m
    BY <2>1, <2>2, <2>4
  <2> QED BY <2>6, <2>7, <2>8, <2>9, <2>10, <1>2 DEF id, n, m
<1> QED BY <1>8, <1>9

\* The end of a delivery, or of one attempt of it.
LEMMA HookDelivers ==
    ASSUME HookInv, NEW seen \in BOOLEAN, Delivered(seen) \/ Undelivered(seen)
    PROVE  HookInv'
<1>1. /\ sending # NoDelivery
      /\ received' = IF seen THEN See(sending.event.id) ELSE received
      /\ UNCHANGED <<queue, minted, told, contexts>>
  BY DEF Delivered, Undelivered, jobVars
<1>2. /\ sending.event \in Announcements /\ sending.event.id \in Nat
      /\ sending.attempt \in Nat
      /\ sending = [event |-> sending.event, attempt |-> sending.attempt]
      /\ received' \in [last : Nat, times : Nat, ordered : BOOLEAN]
      /\ received'.ordered /\ received'.times <= Max({1, MaxRetries})
      /\ received'.last <= sending.event.id
      /\ received'.last \in Nat
      /\ received'.last = sending.event.id => received'.times <= sending.attempt + 1
  BY <1>1, AttemptIsSeen
<1>3. /\ sending.event.id <= minted /\ minted \in Nat
      /\ \A i \in DOMAIN queue : sending.event.id < queue[i].id
  BY <1>1 DEF HookInv, HookType, QueueSound
<1>4. received'.last <= minted
  BY <1>2, <1>3
<1>5. \A i \in DOMAIN queue : received'.last < queue[i].id
  <2> SUFFICES ASSUME NEW i \in DOMAIN queue
               PROVE  received'.last < queue[i].id
    OBVIOUS
  <2>1. queue[i] \in Announcements
    BY DEF HookInv, HookType
  <2>2. queue[i].id \in Nat
    BY <2>1 DEF Announcements
  <2> QED BY <2>2, <1>2, <1>3
<1>6. CASE sending' = NoDelivery
  <2>1. HookType'
    BY <1>1, <1>2, <1>6 DEF HookInv, HookType
  <2>2. QueueSound'
    BY <1>1, <1>2, <1>4, <1>5, <1>6 DEF HookInv, QueueSound, NoDelivery
  <2> QED BY <2>1, <2>2 DEF HookInv
<1>7. CASE /\ ~ (sending.attempt + 1 >= MaxRetries)
           /\ sending' = [sending EXCEPT !.attempt = sending.attempt + 1]
  <2>1. /\ sending' = [event |-> sending.event, attempt |-> sending.attempt + 1]
    BY <1>2, <1>7
  <2>2. /\ sending'.event = sending.event /\ sending'.attempt = sending.attempt + 1
        /\ sending' \in [event : Announcements, attempt : Nat]
    BY <2>1, <1>2
  <2>3. sending.attempt + 1 < MaxRetries
    BY <1>2, <1>7, PublishingAssumption
  <2>4. HookType'
    BY <1>1, <1>2, <2>2 DEF HookInv, HookType
  <2>5. QueueSound'
    BY <1>1, <1>2, <1>3, <1>4, <1>5, <2>2, <2>3 DEF HookInv, QueueSound
  <2> QED BY <2>4, <2>5 DEF HookInv
<1> QED BY <1>6, <1>7 DEF Delivered, Undelivered

(***************************************************************************)
(* The invariant, and the steps of a request that leave the store and the  *)
(* webhook alone.                                                          *)
(***************************************************************************)
PublishingInv == ServerInv /\ StoreInv /\ HookInv

\* Store and webhook as they were.
LEMMA RestIdles ==
    ASSUME PublishingInv,
           UNCHANGED <<d, now, contexts, keys, queue, sending, minted, received, told>>
    PROVE  StoreInv' /\ HookInv' /\ Len(contexts) \in Nat
<1>1. Len(contexts) \in Nat /\ now \in Nat
  BY DEF PublishingInv, StoreInv, StoreType, ServerInv, ServerType
<1>2. StoreInv'
  BY <1>1, StoreIdles DEF PublishingInv
<1>3. HookInv'
  BY <1>1, HookIdles DEF PublishingInv
<1> QED BY <1>1, <1>2, <1>3

\* A request goes on or ends and nothing else changes.
LEMMA GoesOn ==
    ASSUME PublishingInv, NEW w \in Worker, job[w] \in Jobs, NEW j \in Jobs,
           j.agent = job[w].agent, Goes(w, j),
           UNCHANGED <<d, disk, playground, now, contexts, keys, queue, sending,
                       minted, received, told>>
    PROVE  PublishingInv'
<1>1. StoreInv' /\ HookInv' /\ Len(contexts) \in Nat
  BY RestIdles
<1>2. ServerInv'
  BY <1>1, Resumes DEF PublishingInv, StoreInv, HookInv
<1> QED BY <1>1, <1>2 DEF PublishingInv

\* A request is admitted.
LEMMA Arrives ==
    ASSUME PublishingInv, NEW w \in Worker, job[w] = Idle, NEW x \in Jobs,
           job' = [job EXCEPT ![w] = x], Peek(limiter, x.agent, now, Limit),
           StageSound(x, d, Len(contexts)), ~ Fresh(x),
           UNCHANGED <<d, disk, playground, now, limiter, contexts, keys, queue,
                       sending, minted, received, misjudged, told>>
    PROVE  PublishingInv'
<1>1. StoreInv' /\ HookInv' /\ Len(contexts) \in Nat
  BY RestIdles
<1>2. BudgetBound'
  BY BudgetAdmits DEF PublishingInv, ServerInv
<1>3. JobsSound' /\ ToldSound'
  <2>1. /\ StageSound(x, d', Len(contexts')) /\ Len(contexts') = Len(contexts)
        /\ Len(contexts) \in Nat /\ Len(contexts') >= Len(contexts)
    BY <1>1
  <2>2. ServerType /\ StoreType /\ HookType /\ JobsSound /\ ToldSound
    BY DEF PublishingInv, ServerInv, StoreInv, HookInv
  <2> QED BY <2>1, <2>2, Moves
<1>4. job' \in [Worker -> Jobs \cup {Idle}]
  BY DEF PublishingInv, ServerInv, ServerType
<1>5. ServerInv'
  BY <1>2, <1>3, <1>4 DEF PublishingInv, ServerInv, ServerType, CellSound,
                          ValidPlayground, EveryProofIsCharged
<1> QED BY <1>1, <1>5 DEF PublishingInv

\* The request in a slot that is not idle, and what it has established.
LEMMA JobInHand ==
    ASSUME PublishingInv, NEW w \in Worker, job[w].pc # "idle"
    PROVE  job[w] \in Jobs /\ StageSound(job[w], d, Len(contexts))
BY IdleIsNoJob DEF PublishingInv, ServerInv, ServerType, JobsSound

\* publish_inner up to its first await.
LEMMA PublishKeeps ==
    ASSUME PublishingInv, NEW w \in Worker, NEW r \in Publishes, Publish(w, r)
    PROVE  PublishingInv'
<1> DEFINE tenant == TenantForPublish(d, r, BindingOf[r.agent])
<1> DEFINE branch == Branch(r)
<1> DEFINE p == IF branch = "unpinned" THEN "lookup" ELSE "prove"
<1> DEFINE x == NewJob(p, r, branch, tenant)
<1>1. job[w] = Idle
  BY SlotIsIdle DEF Publish
<1>2. /\ tenant # Refused /\ branch # Refused
      /\ job' = [job EXCEPT ![w] = x]
      /\ Peek(limiter, r.agent, now, Limit)
      /\ UNCHANGED <<d, disk, playground, now, limiter, contexts, keys, queue,
                     sending, minted, received, misjudged, told>>
  BY DEF Publish, frame
<1>3. tenant \in Tenants
  BY <1>2, PublishTenant, RequestsAssumption
<1>4. branch \in {"key", "web", "pinned", "unpinned"}
  BY <1>2, BranchType
<1>5. branch = "unpinned" => ~ d.receipts
  BY BranchIsVerified DEF PublishingInv, ServerInv
<1>6. r.agent \in Agent /\ r \in Requests /\ playground \in Playgrounds
  BY RequestsAssumption DEF Requests, PublishingInv, ServerInv, ServerType
<1> HIDE DEF tenant, branch
<1>7. p \in {"lookup", "prove"}
  OBVIOUS
<1>8. /\ x \in Jobs /\ x.agent = r.agent /\ x.r = r /\ x.pc = p /\ x.branch = branch
      /\ x.tenant = tenant /\ x.armed = FALSE /\ x.earned = FALSE
  BY <1>3, <1>4, <1>6, <1>7 DEF NewJob, Jobs, PublishStages
<1>9. StageSound(x, d, Len(contexts)) /\ ~ Fresh(x)
  <2> HIDE DEF x
  <2>1. (p = "lookup" <=> branch = "unpinned") /\ ~ Proven(x)
    BY <1>7, <1>8 DEF Proven
  <2> HIDE DEF p
  <2>2. x.tenant = TenantForPublish(d, x.r, BindingOf[x.r.agent])
    BY <1>8 DEF tenant
  <2> QED BY <2>1, <2>2, <1>2, <1>5, <1>7, <1>8
          DEF StageSound, Fresh, PublishStages, EventStages
<1> HIDE DEF x
<1> QED BY <1>1, <1>2, <1>8, <1>9, Arrives

\* lifecycle_transition up to its first await.
LEMMA TransitionKeeps ==
    ASSUME PublishingInv, NEW w \in Worker, NEW e \in Events, Transition(w, e)
    PROVE  PublishingInv'
<1> DEFINE tenant == TenantForRequest(d, e)
<1> DEFINE x == NewJob("gate", e, "event", tenant)
<1>1. job[w] = Idle
  BY SlotIsIdle DEF Transition
<1>2. /\ tenant # Refused
      /\ job' = [job EXCEPT ![w] = x]
      /\ Peek(limiter, e.agent, now, Limit)
      /\ UNCHANGED <<d, disk, playground, now, limiter, contexts, keys, queue,
                     sending, minted, received, misjudged, told>>
  BY DEF Transition, frame
<1>3. e \in Requests /\ e.claim \in Tenants
  BY DEF Requests, Tenants
<1>4. tenant \in Tenants
  BY <1>2, <1>3, TenantIsNamed DEF TenantForRequest
<1>5. e.agent \in Agent /\ playground \in Playgrounds
  BY RequestsAssumption DEF PublishingInv, ServerInv, ServerType
<1> HIDE DEF tenant
<1>6. /\ x \in Jobs /\ x.agent = e.agent /\ x.r = e /\ x.pc = "gate"
      /\ x.armed = FALSE /\ x.earned = FALSE
  BY <1>3, <1>4, <1>5 DEF NewJob, Jobs, EventStages
<1> HIDE DEF x
<1>7. StageSound(x, d, Len(contexts)) /\ ~ Fresh(x)
  <2>1. ~ Proven(x)
    BY <1>6 DEF Proven
  <2> QED BY <2>1, <1>6 DEF StageSound, Fresh, PublishStages
<1> QED BY <1>1, <1>2, <1>6, <1>7, Arrives

\* The identity is proven: the charge is armed before the commit.
LEMMA ProveKeeps ==
    ASSUME PublishingInv, NEW w \in Worker, Prove(w)
    PROVE  PublishingInv'
<1> DEFINE t == job[w]
<1>1. t \in Jobs /\ StageSound(t, d, Len(contexts)) /\ t.pc = "prove"
  BY JobInHand DEF Prove
<1> DEFINE a == Arm(t)
<1>2. /\ a \in Jobs /\ a.r = t.r /\ a.agent = t.agent /\ a.tenant = t.tenant
      /\ a.branch = t.branch /\ a.armed = TRUE /\ a.earned = TRUE
  BY <1>1, ArmFields
<1> DEFINE j == [a EXCEPT !.pc = "commit"]
<1>3. /\ job' = [job EXCEPT ![w] = j]
      /\ UNCHANGED <<d, disk, playground, now, limiter, contexts, keys, queue,
                     sending, minted, received, misjudged, told>>
  BY DEF Prove, frame
<1> HIDE DEF a, t
<1>4. /\ j \in Jobs /\ j.r = t.r /\ j.agent = t.agent /\ j.tenant = t.tenant
      /\ j.branch = t.branch /\ j.armed = TRUE /\ j.earned = TRUE /\ j.pc = "commit"
  BY <1>2, StageFields DEF PublishStages
<1> HIDE DEF j
<1>5. StageSound(j, d, Len(contexts)) /\ ~ Fresh(j)
  <2>1. Proven(j)
    BY <1>4 DEF Proven
  <2> QED BY <2>1, <1>1, <1>4 DEF StageSound, Fresh, PublishStages, EventStages
<1>6. Goes(w, j)
  BY <1>3, <1>5 DEF Goes
<1> QED BY <1>1, <1>3, <1>4, <1>6, GoesOn DEF t

\* A request ends as it stands: a refused proof, a store error.
LEMMA EndKeeps ==
    ASSUME PublishingInv, NEW w \in Worker, job[w].pc # "idle", End(w, job[w]),
           UNCHANGED <<d, disk, playground, now, contexts, keys, queue, sending,
                       minted, received, told>>
    PROVE  PublishingInv'
<1>1. job[w] \in Jobs /\ job[w].armed = job[w].earned
  BY JobInHand DEF StageSound
<1>2. Goes(w, job[w])
  BY <1>1 DEF Goes
<1> QED BY <1>1, <1>2, GoesOn

\* The unpinned branch looks the key up: a replay is charged, a reused key
\* is not.
LEMMA LookupKeeps ==
    ASSUME PublishingInv, NEW w \in Worker, Lookup(w)
    PROVE  PublishingInv'
<1> DEFINE t == job[w]
<1>1. t \in Jobs /\ StageSound(t, d, Len(contexts)) /\ t.pc = "lookup"
  BY JobInHand DEF Lookup
<1> DEFINE j == [t EXCEPT !.pc = "insert"]
<1>2. /\ \/ Resume(w, j) \/ End(w, Arm(t)) \/ End(w, t)
      /\ UNCHANGED <<d, disk, playground, now, contexts, keys, queue, sending,
                     minted, received, told>>
  BY DEF Lookup, frame
<1>3. CASE Resume(w, j)
  <2>1. /\ j \in Jobs /\ j.r = t.r /\ j.agent = t.agent /\ j.tenant = t.tenant
        /\ j.branch = t.branch /\ j.armed = t.armed /\ j.earned = t.earned
        /\ j.pc = "insert"
    BY <1>1, StageFields DEF PublishStages
  <2> HIDE DEF j
  <2>2. StageSound(j, d, Len(contexts)) /\ ~ Fresh(j)
    <3>1. ~ Proven(j) /\ ~ Proven(t)
      BY <2>1, <1>1 DEF Proven
    <3> QED BY <3>1, <2>1, <1>1 DEF StageSound, Fresh, PublishStages, EventStages
  <2>3. Goes(w, j)
    BY <1>2, <1>3, <2>2 DEF Goes
  <2> QED BY <1>1, <1>2, <2>1, <2>3, GoesOn
<1>4. CASE End(w, Arm(t))
  <2>1. Arm(t) \in Jobs /\ Arm(t).agent = t.agent /\ Arm(t).armed = Arm(t).earned
    BY <1>1, ArmFields
  <2>2. Goes(w, Arm(t))
    BY <1>4, <2>1 DEF Goes
  <2> QED BY <1>1, <1>2, <2>1, <2>2, GoesOn
<1>5. CASE End(w, t)
  BY <1>1, <1>2, <1>5, EndKeeps
<1> QED BY <1>2, <1>3, <1>4, <1>5

\* The tenant gate: the tenant is the stored one from here on.
LEMMA TenantGateKeeps ==
    ASSUME PublishingInv, NEW w \in Worker, TenantGate(w)
    PROVE  PublishingInv'
<1> DEFINE t == job[w]
<1> DEFINE e == t.r
<1> DEFINE stored == IF e.ctx \in DOMAIN contexts THEN contexts[e.ctx].tenant
                     ELSE Default
<1>1. t \in Jobs /\ StageSound(t, d, Len(contexts)) /\ t.pc = "gate"
  BY JobInHand DEF TenantGate
<1>2. e \in Events /\ e.ctx \in Nat
  BY <1>1, RequestsAssumption DEF StageSound, EventStages
<1>3. stored \in Tenants
  <2>1. Default \in Tenants
    BY DEF Tenants
  <2>2. e.ctx \in DOMAIN contexts => contexts[e.ctx] \in StoredContexts
    BY DEF PublishingInv, StoreInv, StoreType
  <2> QED BY <2>1, <2>2 DEF StoredContexts
<1> DEFINE j == [t EXCEPT !.pc = "prove_event", !.tenant = stored, !.ctx = e.ctx]
<1>4. /\ Resume(w, j) \/ End(w, t)
      /\ UNCHANGED <<d, disk, playground, now, contexts, keys, queue, sending,
                     minted, received, told>>
  BY DEF TenantGate, frame
<1>5. CASE Resume(w, j)
  <2> HIDE DEF stored
  <2>1. /\ j \in Jobs /\ j.r = e /\ j.agent = t.agent
        /\ j.armed = t.armed /\ j.earned = t.earned /\ j.pc = "prove_event"
    BY <1>1, <1>2, <1>3 DEF Jobs, EventStages
  <2> HIDE DEF j
  <2>2. StageSound(j, d, Len(contexts)) /\ ~ Fresh(j)
    <3>1. ~ Proven(j) /\ ~ Proven(t)
      BY <2>1, <1>1 DEF Proven
    <3> QED BY <3>1, <2>1, <1>1 DEF StageSound, Fresh, PublishStages, EventStages
  <2>3. Goes(w, j)
    BY <1>4, <1>5, <2>2 DEF Goes
  <2> QED BY <1>1, <1>4, <2>1, <2>3, GoesOn
<1>6. CASE End(w, t)
  BY <1>1, <1>4, <1>6, EndKeeps
<1> QED BY <1>4, <1>5, <1>6

\* prove_lifecycle_identity, of the producer of a stored context.
LEMMA ProveEventKeeps ==
    ASSUME PublishingInv, NEW w \in Worker, ProveEvent(w)
    PROVE  PublishingInv'
<1> DEFINE t == job[w]
<1>1. /\ t \in Jobs /\ StageSound(t, d, Len(contexts)) /\ t.pc = "prove_event"
      /\ t.ctx \in DOMAIN contexts
  BY JobInHand DEF ProveEvent
<1>2. t.ctx \in 1..Len(contexts)
  BY <1>1 DEF PublishingInv, StoreInv, StoreType
<1> DEFINE a == Arm(t)
<1>3. /\ a \in Jobs /\ a.r = t.r /\ a.agent = t.agent /\ a.ctx = t.ctx
      /\ a.armed = TRUE /\ a.earned = TRUE
  BY <1>1, ArmFields
<1> DEFINE j == [a EXCEPT !.pc = "commit_event"]
<1>4. /\ job' = [job EXCEPT ![w] = j]
      /\ UNCHANGED <<d, disk, playground, now, limiter, contexts, keys, queue,
                     sending, minted, received, misjudged, told>>
  BY DEF ProveEvent, frame
<1> HIDE DEF a, t
<1>5. /\ j \in Jobs /\ j.r = t.r /\ j.agent = t.agent /\ j.ctx = t.ctx
      /\ j.armed = TRUE /\ j.earned = TRUE /\ j.pc = "commit_event"
  BY <1>3, StageFields DEF EventStages
<1> HIDE DEF j
<1>6. StageSound(j, d, Len(contexts)) /\ ~ Fresh(j)
  <2>1. Proven(j)
    BY <1>5 DEF Proven
  <2> QED BY <2>1, <1>1, <1>2, <1>5 DEF StageSound, Fresh, PublishStages, EventStages
<1>7. Goes(w, j)
  BY <1>4, <1>6 DEF Goes
<1> QED BY <1>1, <1>4, <1>5, <1>7, GoesOn DEF t

\* The client goes away: its request ends there, or goes on unobserved.
LEMMA ClientGoneKeeps ==
    ASSUME PublishingInv, NEW w \in Worker, ClientGone(w)
    PROVE  PublishingInv'
<1> DEFINE t == job[w]
<1>1. t \in Jobs /\ StageSound(t, d, Len(contexts)) /\ t.pc # "idle"
  BY JobInHand DEF ClientGone
<1> DEFINE j == [t EXCEPT !.gone = TRUE]
<1>2. /\ \/ End(w, t)
         \/ job' = [job EXCEPT ![w] = j] /\ UNCHANGED <<limiter, misjudged>>
      /\ UNCHANGED <<d, disk, playground, now, contexts, keys, queue, sending,
                     minted, received, told>>
  BY DEF ClientGone, frame
<1>3. CASE End(w, t)
  BY <1>1, <1>2, <1>3, EndKeeps
<1>4. CASE job' = [job EXCEPT ![w] = j] /\ UNCHANGED <<limiter, misjudged>>
  <2>1. /\ j \in Jobs /\ j.r = t.r /\ j.agent = t.agent /\ j.tenant = t.tenant
        /\ j.branch = t.branch /\ j.armed = t.armed /\ j.earned = t.earned
        /\ j.pc = t.pc /\ j.ctx = t.ctx /\ j.replay = t.replay
    BY <1>1 DEF Jobs
  <2> HIDE DEF j
  <2>2. StageSound(j, d, Len(contexts))
    BY <2>1, <1>1 DEF StageSound, Proven
  <2>3. Fresh(j) => Fresh(t) /\ j.ctx = t.ctx
    BY <2>1 DEF Fresh
  <2>4. Goes(w, j)
    BY <1>2, <1>4, <2>2, <2>3 DEF Goes
  <2> QED BY <1>1, <1>2, <2>1, <2>4, GoesOn
<1> QED BY <1>2, <1>3, <1>4

(***************************************************************************)
(* The steps of a request that write to the store.                         *)
(***************************************************************************)
\* A publish goes on with the context it has in the store.
LEMMA AfterCommitSound ==
    ASSUME NEW t \in Jobs, NEW m \in Nat, NEW n \in Nat,
           StageSound(t, d, n), t.pc \in {"commit", "insert", "record"},
           t.pc = "commit" => t.armed, t.branch = "unpinned" <=> t.pc # "commit",
           NEW c \in 1..m, NEW b \in BOOLEAN
    PROVE  StageSound(AfterCommit(t, c, b), d, m)
<1> DEFINE j == AfterCommit(t, c, b)
<1>1. c \in Nat
  OBVIOUS
<1>2. /\ j \in Jobs /\ j.ctx = c /\ j.replay = b
      /\ j.pc = IF t.snapshot.enabled /\ t.tenant # None THEN "stamp" ELSE "finish"
      /\ j.r = t.r /\ j.agent = t.agent /\ j.tenant = t.tenant
      /\ j.branch = t.branch
      /\ j.armed = t.armed /\ j.earned = t.earned
  BY <1>1, AfterCommitFields
<1> HIDE DEF j
<1>3. j.pc \in {"stamp", "finish"} /\ (j.pc = "stamp" => t.tenant # None)
  BY <1>2
<1>4. j.armed <=> Proven(j)
  BY <1>2, <1>3 DEF Proven, StageSound
<1>5. StageSound(j, d, m)
  BY <1>2, <1>3, <1>4 DEF StageSound, PublishStages, EventStages
<1> QED BY <1>5 DEF j

\* commit_proven.
LEMMA CommitKeeps ==
    ASSUME PublishingInv, NEW w \in Worker, Commit(w)
    PROVE  PublishingInv'
<1> DEFINE t == job[w]
<1> DEFINE r == t.r
<1> DEFINE n == Len(contexts)
<1> DEFINE prior == LiveKey(r.agent, r.key)
<1>1. t \in Jobs /\ StageSound(t, d, n) /\ t.pc = "commit"
  BY JobInHand DEF Commit
<1>2. /\ r \in Publishes /\ r.agent \in Agent /\ t.agent = r.agent
      /\ t.tenant = TenantForPublish(d, r, BindingOf[r.agent])
      /\ t.tenant # Refused
      /\ t.armed
  BY <1>1, RequestsAssumption DEF StageSound, PublishStages, Proven
<1>3. n \in Nat /\ now \in Nat /\ n + 1 \in Nat /\ n + 1 >= n
  BY DEF PublishingInv, StoreInv, StoreType, ServerInv, ServerType
<1>4. /\ UNCHANGED <<d, disk, playground, now, queue, sending, minted, received, told>>
      /\ \/ /\ prior = {}
            /\ contexts' = NewContext(r, t.tenant, TRUE)
            /\ keys' = PutKey(r, n + 1)
            /\ Resume(w, AfterCommit(t, n + 1, FALSE))
         \/ /\ UNCHANGED <<contexts, keys>>
            /\ \E k \in prior : \/ Resume(w, AfterCommit(t, k.ctx, TRUE))
                                \/ End(w, t)
  BY DEF Commit, frame, storeVars
<1>5. CASE /\ prior = {}
           /\ contexts' = NewContext(r, t.tenant, TRUE)
           /\ keys' = PutKey(r, n + 1)
           /\ Resume(w, AfterCommit(t, n + 1, FALSE))
  <2> DEFINE c == [agent |-> r.agent, hash |-> r.hash, key |-> r.key, at |-> now,
                   tenant |-> Column(t.tenant), by |-> r, proven |-> TRUE,
                   events |-> <<>>]
  <2>1. contexts' = Append(contexts, c)
    BY <1>5 DEF NewContext
  <2>2. /\ t.tenant \in Tenants /\ Default \in Tenants
        /\ Column(t.tenant) = Column(VouchedTenant(r))
        /\ d.auth /\ d.strict => Column(t.tenant) # Default
    BY <1>2, PublishTenant DEF Tenants
  <2>3. Column(t.tenant) \in Tenants
    BY <2>2 DEF Column
  <2>4. /\ c \in StoredContexts /\ c.at = now /\ c.proven = TRUE /\ c.agent = r.agent
        /\ c.key = r.key /\ c.tenant = Column(t.tenant) /\ c.by = r
    BY <1>2, <1>3, <2>3 DEF StoredContexts
  <2> HIDE DEF c
  <2>5. Born(c)
    BY <2>2, <2>4 DEF Born
  <2>6. /\ keys' \in SUBSET KeyRecords
        /\ \A k \in keys' : k \in keys \/ k.ctx = n + 1
        /\ r.key # None => Covered(keys', r.agent, r.key, now + KeyTtl)
        /\ \A agent, key : \A e \in Int :
              e <= now + KeyTtl /\ Covered(keys, agent, key, e)
              => Covered(keys', agent, key, e)
    BY <1>2, <1>3, <1>5, PutKeyFacts DEF PublishingInv, StoreInv
  <2>7. \A k \in keys' : k.ctx \in 1..n \/ k.ctx = n + 1
    BY <2>6 DEF PublishingInv, StoreInv, KeysSound
  <2>8. ASSUME NEW i \in DOMAIN contexts
        PROVE  /\ contexts[i].at + KeyTtl \in Int
               /\ contexts[i].at + KeyTtl <= now + KeyTtl
               /\ contexts[i].proven /\ contexts[i].key # None =>
                     Covered(keys, contexts[i].agent, contexts[i].key,
                             contexts[i].at + KeyTtl)
    <3>1. contexts[i] \in StoredContexts
      BY DEF PublishingInv, StoreInv, StoreType
    <3>2. contexts[i].at \in Nat /\ contexts[i].at <= now
      BY <3>1 DEF StoredContexts, PublishingInv, StoreInv, KeysSound
    <3>3. KeyTtl \in Nat
      BY PublishingAssumption
    <3>4. contexts[i].at + KeyTtl \in Int /\ contexts[i].at + KeyTtl <= now + KeyTtl
      BY <3>2, <3>3, <1>3
    <3> QED BY <3>4 DEF PublishingInv, StoreInv, KeysSound, Covered
  <2>9. \A i \in DOMAIN contexts :
           Covered(keys, contexts[i].agent, contexts[i].key, contexts[i].at + KeyTtl)
           => Covered(keys', contexts[i].agent, contexts[i].key,
                      contexts[i].at + KeyTtl)
    BY <2>6, <2>8
  <2>10. ASSUME NEW i \in DOMAIN contexts, contexts[i].agent = r.agent,
                contexts[i].key = r.key, r.key # None, contexts[i].proven
         PROVE  now >= contexts[i].at + KeyTtl
    <3>1. PICK k \in keys : /\ k.agent = r.agent /\ k.key = r.key
                            /\ k.expires >= contexts[i].at + KeyTtl
      BY <2>8, <2>10 DEF Covered
    <3>2. k.expires \in Nat
      BY DEF PublishingInv, StoreInv, StoreType, KeyRecords
    <3>3. ~ (k.expires > now)
      BY <1>5, <3>1 DEF LiveKey
    <3> QED BY <3>1, <3>2, <3>3, <2>8, <1>3
  <2>11. /\ StoreInv' /\ Len(contexts') = n + 1
    BY <1>2, <1>3, <1>4, <2>1, <2>4, <2>5, <2>6, <2>7, <2>9, <2>10, StoreAppends
       DEF PublishingInv
  <2>12. HookInv'
    BY <1>3, <1>4, <2>11, HookIdles DEF PublishingInv
  <2> DEFINE j == AfterCommit(t, n + 1, FALSE)
  <2>13. j \in Jobs /\ j.agent = t.agent /\ j.ctx = n + 1
    BY <1>1, <1>3, AfterCommitFields
  <2>14. StageSound(j, d, n + 1)
    <3>1. t.branch # "unpinned"
      BY <1>1 DEF StageSound
    <3>2. n + 1 \in 1..(n + 1)
      BY <1>3
    <3> HIDE DEF n
    <3> QED BY <3>1, <3>2, <1>1, <1>2, <1>3, AfterCommitSound
  <2> HIDE DEF j
  <2>15. Goes(w, j)
    <3>1. j.ctx \notin 1..n
      BY <2>13, <1>3
    <3>2. StageSound(j, d, Len(contexts'))
      BY <2>11, <2>14
    <3> QED BY <3>1, <3>2, <1>5 DEF Goes, j
  <2>16. ServerInv'
    BY <1>1, <1>3, <1>4, <2>11, <2>13, <2>15, Resumes
       DEF PublishingInv, StoreInv, HookInv
  <2> QED BY <2>11, <2>12, <2>16 DEF PublishingInv
<1>6. CASE /\ UNCHANGED <<contexts, keys>>
           /\ \E k \in prior : \/ Resume(w, AfterCommit(t, k.ctx, TRUE))
                               \/ End(w, t)
  <2>1. PICK k \in prior : Resume(w, AfterCommit(t, k.ctx, TRUE)) \/ End(w, t)
    BY <1>6
  <2>2. k.ctx \in 1..n /\ k.ctx \in Nat
    BY <1>3 DEF LiveKey, PublishingInv, StoreInv, KeysSound
  <2>3. CASE End(w, t)
    BY <1>1, <1>4, <1>6, <2>3, EndKeeps
  <2>4. CASE Resume(w, AfterCommit(t, k.ctx, TRUE))
    <3> DEFINE j == AfterCommit(t, k.ctx, TRUE)
    <3>1. j \in Jobs /\ j.agent = t.agent /\ j.replay = TRUE
      BY <1>1, <2>2, AfterCommitFields
    <3>2. StageSound(j, d, n)
      <4>1. t.branch # "unpinned"
        BY <1>1 DEF StageSound
      <4> QED BY <4>1, <1>1, <1>2, <1>3, <2>2, AfterCommitSound
    <3> HIDE DEF j
    <3>3. Goes(w, j)
      BY <3>1, <3>2, <2>4, <1>6 DEF Goes, j, Fresh
    <3> QED BY <1>1, <1>4, <1>6, <3>1, <3>3, GoesOn
  <2> QED BY <2>1, <2>3, <2>4
<1> QED BY <1>4, <1>5, <1>6

\* publish_unverified_for_tests: a context nobody proved, which only a
\* registry without receipts stores.
LEMMA InsertKeeps ==
    ASSUME PublishingInv, NEW w \in Worker, InsertUnverified(w)
    PROVE  PublishingInv'
<1> DEFINE t == job[w]
<1> DEFINE r == t.r
<1> DEFINE n == Len(contexts)
<1> DEFINE next == AfterCommit(t, n + 1, FALSE)
<1> DEFINE kept == [next EXCEPT !.pc = "record"]
<1>1. t \in Jobs /\ StageSound(t, d, n) /\ t.pc = "insert"
  BY JobInHand DEF InsertUnverified
<1>2. /\ r \in Publishes /\ r.agent \in Agent /\ t.agent = r.agent
      /\ ~ d.receipts /\ t.branch = "unpinned" /\ ~ t.armed /\ t.armed = t.earned
      /\ t.tenant = TenantForPublish(d, r, BindingOf[r.agent])
      /\ t.tenant # Refused
  BY <1>1, RequestsAssumption DEF StageSound, PublishStages, Proven
<1>3. n \in Nat /\ now \in Nat /\ n + 1 \in Nat /\ n + 1 >= n
  BY DEF PublishingInv, StoreInv, StoreType, ServerInv, ServerType
<1>4. /\ UNCHANGED <<d, disk, playground, now, keys, queue, sending, minted,
                     received, told>>
      /\ contexts' = NewContext(r, None, FALSE)
      /\ Resume(w, next) \/ Resume(w, kept)
  BY DEF InsertUnverified, frame
<1> DEFINE c == [agent |-> r.agent, hash |-> r.hash, key |-> r.key, at |-> now,
                 tenant |-> Column(None), by |-> r, proven |-> FALSE,
                 events |-> <<>>]
<1>5. contexts' = Append(contexts, c)
  BY <1>4 DEF NewContext
<1>6. Column(None) = Default /\ Default \in Tenants
  BY DEF Column, Tenants
<1>7. /\ c \in StoredContexts /\ c.at = now /\ c.proven = FALSE
      /\ c.tenant = Default
  BY <1>2, <1>3, <1>6 DEF StoredContexts
<1> HIDE DEF c
<1>8. Born(c)
  BY <1>7 DEF Born
<1>9. /\ keys' \in SUBSET KeyRecords
      /\ \A k \in keys' : k.ctx \in 1..n \/ k.ctx = n + 1
  BY <1>4 DEF PublishingInv, StoreInv, StoreType, KeysSound
<1>10. /\ StoreInv' /\ Len(contexts') = n + 1
  BY <1>2, <1>3, <1>4, <1>5, <1>7, <1>8, <1>9, StoreAppends DEF PublishingInv
<1>11. HookInv'
  BY <1>3, <1>4, <1>10, HookIdles DEF PublishingInv
<1>12. next \in Jobs /\ next.agent = t.agent /\ next.ctx = n + 1
       /\ next.r = r /\ next.tenant = t.tenant /\ next.branch = t.branch
       /\ next.armed = t.armed /\ next.earned = t.earned /\ next.replay = FALSE
  BY <1>1, <1>3, AfterCommitFields
<1>13. n + 1 \in 1..(n + 1) /\ n + 1 \notin 1..n
  BY <1>3
<1>14. StageSound(next, d, n + 1)
  <2> HIDE DEF n
  <2> QED BY <1>1, <1>2, <1>3, <1>13, AfterCommitSound
<1> HIDE DEF next
<1>15. /\ kept \in Jobs /\ kept.agent = t.agent /\ kept.ctx = n + 1
       /\ kept.r = r /\ kept.tenant = t.tenant /\ kept.branch = t.branch
       /\ kept.armed = t.armed /\ kept.earned = t.earned /\ kept.pc = "record"
       /\ kept.replay = FALSE
  BY <1>12, StageFields DEF PublishStages
<1> HIDE DEF kept
<1>16. StageSound(kept, d, n + 1)
  <2>1. ~ Proven(kept)
    BY <1>15 DEF Proven
  <2> QED BY <2>1, <1>2, <1>13, <1>15 DEF StageSound, PublishStages, EventStages
<1>17. CASE Resume(w, next)
  <2>1. Goes(w, next)
    BY <1>10, <1>12, <1>13, <1>14, <1>17 DEF Goes
  <2>2. ServerInv'
    BY <1>1, <1>3, <1>4, <1>10, <1>12, <2>1, Resumes
       DEF PublishingInv, StoreInv, HookInv
  <2> QED BY <1>10, <1>11, <2>2 DEF PublishingInv
<1>18. CASE Resume(w, kept)
  <2>1. Goes(w, kept)
    BY <1>10, <1>15, <1>13, <1>16, <1>18 DEF Goes
  <2>2. ServerInv'
    BY <1>1, <1>3, <1>4, <1>10, <1>15, <2>1, Resumes
       DEF PublishingInv, StoreInv, HookInv
  <2> QED BY <1>10, <1>11, <2>2 DEF PublishingInv
<1> QED BY <1>4, <1>17, <1>18

\* A record is written for a stored context.
LEMMA StoreRecords ==
    ASSUME StoreInv, now \in Nat, NEW r \in Publishes, NEW n \in 1..Len(contexts),
           keys' = PutKey(r, n), UNCHANGED <<d, now, contexts>>
    PROVE  StoreInv'
<1>1. n \in Nat
  OBVIOUS
<1>2. /\ keys' \in SUBSET KeyRecords
      /\ \A k \in keys' : k \in keys \/ k.ctx = n
      /\ \A agent, key : \A e \in Int :
            e <= now + KeyTtl /\ Covered(keys, agent, key, e)
            => Covered(keys', agent, key, e)
  BY <1>1, PutKeyFacts DEF StoreInv
<1>3. \A k \in keys' : k.ctx \in 1..Len(contexts)
  BY <1>2 DEF StoreInv, KeysSound
<1>4. ASSUME NEW i \in DOMAIN contexts, contexts[i].proven, contexts[i].key # None
      PROVE  Covered(keys', contexts[i].agent, contexts[i].key,
                     contexts[i].at + KeyTtl)
  <2>1. contexts[i] \in StoredContexts
    BY DEF StoreInv, StoreType
  <2>2. contexts[i].at \in Nat /\ contexts[i].at <= now
    BY <2>1 DEF StoredContexts, StoreInv, KeysSound
  <2>3. contexts[i].at + KeyTtl \in Int /\ contexts[i].at + KeyTtl <= now + KeyTtl
    BY <2>2, PublishingAssumption
  <2>4. Covered(keys, contexts[i].agent, contexts[i].key, contexts[i].at + KeyTtl)
    BY <1>4 DEF StoreInv, KeysSound, Covered
  <2> QED BY <2>3, <2>4, <1>2
<1>5. KeysSound'
  BY <1>3, <1>4 DEF StoreInv, KeysSound, Covered
<1>6. StoreType' /\ NoUnverifiedWithReceipts' /\ OneContextPerKey'
  BY <1>2 DEF StoreInv, StoreType, NoUnverifiedWithReceipts, OneContextPerKey
<1>7. BornInItsTenant'
  BY DEF StoreInv, BornInItsTenant, VouchedTenant
<1> QED BY <1>5, <1>6, <1>7 DEF StoreInv

\* idempotency_record of the unpinned branch.
LEMMA RecordKeyKeeps ==
    ASSUME PublishingInv, NEW w \in Worker, RecordKey(w)
    PROVE  PublishingInv'
<1> DEFINE t == job[w]
<1> DEFINE n == Len(contexts)
<1> DEFINE j == AfterCommit(t, t.ctx, FALSE)
<1>1. t \in Jobs /\ StageSound(t, d, n) /\ t.pc = "record"
  BY JobInHand DEF RecordKey
<1>2. /\ t.r \in Publishes /\ t.branch = "unpinned" /\ t.ctx \in 1..n /\ t.ctx \in Nat
  BY <1>1 DEF StageSound, PublishStages, Jobs
<1>3. n \in Nat /\ now \in Nat
  BY DEF PublishingInv, StoreInv, StoreType, ServerInv, ServerType
<1>4. /\ UNCHANGED <<d, disk, playground, now, contexts, queue, sending, minted,
                     received, told>>
      /\ keys' = PutKey(t.r, t.ctx)
      /\ Resume(w, j)
  BY DEF RecordKey, frame
<1>5. StoreInv'
  BY <1>2, <1>3, <1>4, StoreRecords DEF PublishingInv
<1>6. HookInv'
  BY <1>3, <1>4, HookIdles DEF PublishingInv
<1>7. /\ j \in Jobs /\ j.agent = t.agent /\ j.ctx = t.ctx /\ j.replay = FALSE
  BY <1>1, <1>2, AfterCommitFields
<1>8. StageSound(j, d, n)
  BY <1>1, <1>2, <1>3, AfterCommitSound
<1>9. Goes(w, j)
  <2>1. CASE Fresh(t)
    <3> HIDE DEF j
    <3> QED BY <2>1, <1>4, <1>7, <1>8 DEF Goes
  <2>2. CASE ~ Fresh(t)
    <3>1. t.replay
      BY <2>2, <1>1 DEF Fresh
    <3> QED BY <3>1, <1>1 DEF StageSound
  <2> QED BY <2>1, <2>2
<1> HIDE DEF j
<1>10. ServerInv'
  BY <1>1, <1>3, <1>4, <1>7, <1>9, Resumes DEF PublishingInv, StoreInv, HookInv
<1> QED BY <1>5, <1>6, <1>10 DEF PublishingInv

\* set_tenant_of_ctx: the publisher's tenant.
LEMMA StampTenantKeeps ==
    ASSUME PublishingInv, NEW w \in Worker, StampTenant(w)
    PROVE  PublishingInv'
<1> DEFINE t == job[w]
<1> DEFINE n == Len(contexts)
<1> DEFINE j == [t EXCEPT !.pc = "finish"]
<1>1. t \in Jobs /\ StageSound(t, d, n) /\ t.pc = "stamp"
  BY JobInHand DEF StampTenant
<1>2. /\ t.r \in Publishes /\ t.r.agent \in Agent /\ t.ctx \in 1..n /\ t.tenant # None
      /\ t.tenant = TenantForPublish(d, t.r, BindingOf[t.r.agent])
      /\ t.tenant # Refused
  BY <1>1, RequestsAssumption DEF StageSound, PublishStages
<1>3. n \in Nat /\ now \in Nat /\ DOMAIN contexts = 1..n
  BY DEF PublishingInv, StoreInv, StoreType, ServerInv, ServerType
<1> DEFINE o == contexts[t.ctx]
<1> DEFINE c == [o EXCEPT !.tenant = t.tenant, !.by = t.r]
<1>4. /\ UNCHANGED <<d, disk, playground, now, keys, queue, sending, minted,
                     received, told>>
      /\ contexts' = [contexts EXCEPT ![t.ctx] = c]
      /\ Resume(w, j)
  BY DEF StampTenant, frame
<1>5. o \in StoredContexts
  BY <1>2, <1>3 DEF PublishingInv, StoreInv, StoreType
<1>6. /\ t.tenant \in Tenants
      /\ Column(t.tenant) = Column(VouchedTenant(t.r))
      /\ d.auth /\ d.strict => Column(t.tenant) # Default
  BY <1>2, PublishTenant
<1>7. t.tenant = Column(t.tenant)
  BY <1>2 DEF Column
<1> HIDE DEF o
<1>8. /\ c \in StoredContexts /\ c.agent = o.agent /\ c.key = o.key /\ c.at = o.at
      /\ c.proven = o.proven /\ c.tenant = t.tenant /\ c.by = t.r
  BY <1>2, <1>5, <1>6 DEF StoredContexts
<1> HIDE DEF c
<1>9. Born(c)
  BY <1>6, <1>7, <1>8 DEF Born
<1>10. StoreInv' /\ Len(contexts') = n
  BY <1>2, <1>3, <1>4, <1>8, <1>9, StoreRewrites DEF PublishingInv, o
<1>11. HookInv'
  BY <1>3, <1>4, <1>10, HookIdles DEF PublishingInv
<1>12. /\ j \in Jobs /\ j.agent = t.agent /\ j.ctx = t.ctx /\ j.replay = t.replay
       /\ j.r = t.r /\ j.tenant = t.tenant /\ j.branch = t.branch
       /\ j.armed = t.armed /\ j.earned = t.earned /\ j.pc = "finish"
  BY <1>1, StageFields DEF PublishStages
<1> HIDE DEF j
<1>13. StageSound(j, d, n)
  <2>1. Proven(j) <=> Proven(t)
    BY <1>1, <1>12 DEF Proven
  <2> QED BY <2>1, <1>1, <1>12 DEF StageSound, PublishStages, EventStages
<1>14. Fresh(j) => Fresh(t) /\ j.ctx = t.ctx
  BY <1>1, <1>12 DEF Fresh
<1>15. Goes(w, j)
  BY <1>4, <1>10, <1>13, <1>14 DEF Goes
<1>16. ServerInv'
  BY <1>1, <1>3, <1>4, <1>10, <1>12, <1>15, Resumes
     DEF PublishingInv, StoreInv, HookInv
<1> QED BY <1>10, <1>11, <1>16 DEF PublishingInv

(***************************************************************************)
(* The announcements.                                                      *)
(***************************************************************************)
\* A publish announces the context it made, and ends.
LEMMA Announces ==
    ASSUME ServerInv, StoreType, HookType, NEW w \in Worker, Fresh(job[w]),
           job' = [job EXCEPT ![w] = Idle], told' = Append(told, job[w].ctx),
           UNCHANGED <<d, contexts>>
    PROVE  JobsSound' /\ ToldSound'
<1>1. \A v \in Worker : job'[v] = IF v = w THEN Idle ELSE job[v]
  BY DEF ServerInv, ServerType
<1>2. JobsSound'
  BY <1>1 DEF ServerInv, JobsSound
<1>3. ~ Fresh(Idle) /\ job[w] \in Jobs
  BY IdleIsNoJob DEF Fresh, ServerInv, ServerType
<1> DEFINE c == job[w].ctx
<1>4. c \in Nat /\ c \in 1..Len(contexts)
  BY <1>3, IdleIsNoJob DEF Jobs, ServerInv, JobsSound, StageSound, Fresh
<1> HIDE DEF c
<1>5. told \in Seq(Nat) /\ Len(told) \in Nat /\ told' = Append(told, c)
  BY DEF HookType, c
<1>6. /\ DOMAIN told' = 1..(Len(told) + 1) /\ DOMAIN told = 1..Len(told)
      /\ \A i \in DOMAIN told : told'[i] = told[i]
      /\ told'[Len(told) + 1] = c
  BY <1>4, <1>5
<1> DEFINE n == Len(told) + 1
<1>7. /\ \A i \in DOMAIN told' : i \in DOMAIN told \/ i = n
      /\ n \notin DOMAIN told
  BY <1>5, <1>6
<1>8. told'[n] = c
  BY <1>6
<1> HIDE DEF n
<1>9. \A i \in DOMAIN told : told[i] # c
  BY DEF ServerInv, ToldSound, c
<1>10. \A i \in DOMAIN told' : told'[i] \in 1..Len(contexts')
  BY <1>4, <1>6, <1>7, <1>8 DEF ServerInv, ToldSound
<1>11. \A i, j \in DOMAIN told' : told'[i] = told'[j] => i = j
  BY <1>6, <1>7, <1>8, <1>9 DEF ServerInv, ToldSound
<1>12. ASSUME NEW v \in Worker, Fresh(job'[v]), NEW i \in DOMAIN told'
       PROVE  told'[i] # job'[v].ctx
  <2>1. v # w /\ job'[v] = job[v] /\ Fresh(job[v])
    BY <1>1, <1>3, <1>12
  <2>2. job[v].ctx # c
    BY <2>1 DEF ServerInv, ToldSound, c
  <2>3. CASE i \in DOMAIN told
    BY <2>1, <2>3, <1>6 DEF ServerInv, ToldSound
  <2>4. CASE i = n
    BY <2>1, <2>2, <2>4, <1>8
  <2> QED BY <2>3, <2>4, <1>7
<1>13. ASSUME NEW u \in Worker, NEW v \in Worker, Fresh(job'[u]), Fresh(job'[v]),
              job'[u].ctx = job'[v].ctx
       PROVE  u = v
  BY <1>1, <1>3, <1>13 DEF ServerInv, ToldSound
<1>14. ToldSound'
  BY <1>10, <1>11, <1>12, <1>13 DEF ToldSound, Fresh
<1> QED BY <1>2, <1>14

\* publish_inner after the store.
LEMMA FinishKeeps ==
    ASSUME PublishingInv, NEW w \in Worker, Finish(w)
    PROVE  PublishingInv'
<1> DEFINE t == job[w]
<1> DEFINE a == Arm(t)
<1> DEFINE n == Len(contexts)
<1>1. t \in Jobs /\ StageSound(t, d, n) /\ t.pc = "finish"
  BY JobInHand DEF Finish
<1>2. /\ a \in Jobs /\ a.agent = t.agent /\ a.armed = a.earned
  BY <1>1, ArmFields
<1>3. /\ End(w, a)
      /\ UNCHANGED <<d, disk, playground, now, contexts, keys, sending, received>>
      /\ \/ t.replay /\ UNCHANGED <<minted, queue, told>>
         \/ ~ t.replay /\ Emit("published", t.ctx, t.tenant)
  BY DEF Finish, frame
<1> HIDE DEF a
<1>4. Goes(w, a)
  BY <1>2, <1>3 DEF Goes
<1>5. CASE t.replay /\ UNCHANGED <<minted, queue, told>>
  BY <1>1, <1>2, <1>3, <1>4, <1>5, GoesOn
<1>6. CASE ~ t.replay /\ Emit("published", t.ctx, t.tenant)
  <2>1. /\ t.ctx \in Nat /\ t.ctx \in 1..n /\ t.tenant \in Tenants
        /\ n \in Nat /\ now \in Nat /\ Fresh(t)
    BY <1>1, <1>6 DEF Jobs, StageSound, Fresh, PublishingInv, StoreInv, StoreType,
                      ServerInv, ServerType
  <2>2. HookInv' /\ (told' = told \/ told' = Append(told, t.ctx))
    BY <2>1, <1>3, <1>6, HookEmits DEF PublishingInv
  <2>3. StoreInv'
    BY <2>1, <1>3, StoreIdles DEF PublishingInv
  <2>4. CASE told' = told
    <3>1. ServerInv'
      BY <1>1, <1>2, <1>3, <1>4, <2>1, <2>4, Resumes
         DEF PublishingInv, StoreInv, HookInv
    <3> QED BY <3>1, <2>2, <2>3 DEF PublishingInv
  <2>5. CASE told' = Append(told, t.ctx)
    <3>1. /\ IsLimiter(limiter') /\ BudgetBound' /\ EveryProofIsCharged'
          /\ job' = [job EXCEPT ![w] = Idle]
      BY <1>1, <1>2, <1>3, BudgetEnds DEF PublishingInv, ServerInv
    <3>2. JobsSound' /\ ToldSound'
      BY <1>3, <2>1, <2>5, <3>1, Announces DEF PublishingInv, StoreInv, HookInv
    <3>3. job' \in [Worker -> Jobs \cup {Idle}]
      BY <3>1 DEF PublishingInv, ServerInv, ServerType
    <3>4. ServerInv'
      BY <1>3, <3>1, <3>2, <3>3
         DEF PublishingInv, ServerInv, ServerType, CellSound, ValidPlayground
    <3> QED BY <3>4, <2>2, <2>3 DEF PublishingInv
  <2> QED BY <2>2, <2>4, <2>5
<1> QED BY <1>3, <1>5, <1>6

\* commit_lifecycle_event changes a context's events and nothing else of it.
LEMMA AppendEventFacts ==
    ASSUME PublishingInv, NEW n \in DOMAIN contexts, NEW id \in Ids,
           NEW type \in {"retracted", "republished"}
    PROVE  LET c == AppendEvent(n, id, type).c
           IN  /\ c \in StoredContexts /\ c.agent = contexts[n].agent
               /\ c.key = contexts[n].key /\ c.at = contexts[n].at
               /\ c.proven = contexts[n].proven /\ c.tenant = contexts[n].tenant
               /\ c.by = contexts[n].by
               /\ Born(c)
<1> DEFINE o == contexts[n]
<1> DEFINE e == [id |-> id, type |-> type]
<1> DEFINE c == AppendEvent(n, id, type).c
<1>1. o \in StoredContexts
  BY DEF PublishingInv, StoreInv, StoreType
<1>2. c = o \/ c = [o EXCEPT !.events = Append(o.events, e)]
  BY DEF AppendEvent
<1>3. Born(o)
  BY DEF PublishingInv, StoreInv, BornInItsTenant, Born
<1>4. /\ o.events \in Seq([id : Ids, type : {"retracted", "republished"}])
      /\ e \in [id : Ids, type : {"retracted", "republished"}]
  BY <1>1 DEF StoredContexts
<1> DEFINE es == Append(o.events, e)
<1>5. es \in Seq([id : Ids, type : {"retracted", "republished"}])
  BY <1>4
<1> HIDE DEF o, c, es
<1>6. /\ c \in StoredContexts /\ c.agent = o.agent /\ c.key = o.key /\ c.at = o.at
      /\ c.proven = o.proven /\ c.tenant = o.tenant /\ c.by = o.by
  BY <1>1, <1>2, <1>5 DEF StoredContexts, es
<1>7. Born(c)
  BY <1>3, <1>6 DEF Born
<1> QED BY <1>6, <1>7 DEF o, c

\* lifecycle_transition, the commit.
LEMMA CommitEventKeeps ==
    ASSUME PublishingInv, NEW w \in Worker, CommitEvent(w)
    PROVE  PublishingInv'
<1> DEFINE t == job[w]
<1> DEFINE n == Len(contexts)
<1> DEFINE c == AppendEvent(t.ctx, t.r.id, t.r.type).c
<1> DEFINE j == [t EXCEPT !.pc = "finish_event"]
<1>1. t \in Jobs /\ StageSound(t, d, n) /\ t.pc = "commit_event"
  BY JobInHand DEF CommitEvent
<1>2. /\ t.r \in Events /\ t.ctx \in 1..n /\ n \in Nat /\ now \in Nat
      /\ DOMAIN contexts = 1..n
  BY <1>1 DEF StageSound, EventStages, PublishingInv, StoreInv, StoreType,
              ServerInv, ServerType
<1>3. t.r.id \in Ids /\ t.r.type \in {"retracted", "republished"}
  BY <1>2, RequestsAssumption DEF Ids
<1>4. /\ contexts' = [contexts EXCEPT ![t.ctx] = c]
      /\ Resume(w, j) \/ End(w, t)
      /\ UNCHANGED <<d, disk, playground, now, keys, queue, sending, minted,
                     received, told>>
  BY DEF CommitEvent, frame
<1>5. /\ c \in StoredContexts /\ c.agent = contexts[t.ctx].agent
      /\ c.key = contexts[t.ctx].key /\ c.at = contexts[t.ctx].at
      /\ c.proven = contexts[t.ctx].proven /\ Born(c)
  BY <1>2, <1>3, AppendEventFacts
<1> HIDE DEF c
<1>6. StoreInv' /\ Len(contexts') = n
  BY <1>2, <1>4, <1>5, StoreRewrites DEF PublishingInv
<1>7. HookInv'
  BY <1>2, <1>4, <1>6, HookIdles DEF PublishingInv
<1>8. /\ j \in Jobs /\ j.agent = t.agent /\ j.ctx = t.ctx
      /\ j.r = t.r /\ j.armed = t.armed /\ j.earned = t.earned
      /\ j.pc = "finish_event"
  BY <1>1, StageFields DEF EventStages
<1> HIDE DEF j
<1>9. StageSound(j, d, n) /\ ~ Fresh(j)
  <2>1. Proven(j) /\ Proven(t)
    BY <1>1, <1>8 DEF Proven
  <2> QED BY <2>1, <1>1, <1>8 DEF StageSound, Fresh, PublishStages, EventStages
<1>10. CASE Resume(w, j)
  <2>1. Goes(w, j)
    BY <1>6, <1>9, <1>10 DEF Goes
  <2>2. ServerInv'
    BY <1>1, <1>2, <1>4, <1>6, <1>8, <2>1, Resumes
       DEF PublishingInv, StoreInv, HookInv
  <2> QED BY <1>6, <1>7, <2>2 DEF PublishingInv
<1>11. CASE End(w, t)
  <2>1. Goes(w, t)
    BY <1>1, <1>11 DEF Goes, StageSound
  <2>2. ServerInv'
    BY <1>1, <1>2, <1>4, <1>6, <2>1, Resumes
       DEF PublishingInv, StoreInv, HookInv
  <2> QED BY <1>6, <1>7, <2>2 DEF PublishingInv
<1> QED BY <1>4, <1>10, <1>11

\* lifecycle_transition, the webhook.
LEMMA FinishEventKeeps ==
    ASSUME PublishingInv, NEW w \in Worker, FinishEvent(w)
    PROVE  PublishingInv'
<1> DEFINE t == job[w]
<1> DEFINE n == Len(contexts)
<1> DEFINE tenant == IF t.tenant = Default THEN None ELSE t.tenant
<1>1. t \in Jobs /\ StageSound(t, d, n) /\ t.pc = "finish_event"
  BY JobInHand DEF FinishEvent
<1>2. /\ t.r \in Events /\ t.ctx \in 1..n /\ n \in Nat /\ now \in Nat
      /\ t.armed = t.earned /\ t.ctx \in Nat
  BY <1>1 DEF StageSound, EventStages, PublishingInv, StoreInv, StoreType,
              ServerInv, ServerType, Jobs
<1>3. t.r.type \in {"retracted", "republished"}
  BY <1>2, RequestsAssumption
<1>4. tenant \in Tenants
  BY <1>1 DEF Jobs, Tenants
<1>5. /\ End(w, t) /\ Emit(t.r.type, t.ctx, tenant)
      /\ UNCHANGED <<d, disk, playground, now, contexts, keys, sending, received>>
  BY DEF FinishEvent, frame
<1> HIDE DEF tenant
<1>6. HookInv' /\ told' = told
  BY <1>2, <1>3, <1>4, <1>5, HookEmits DEF PublishingInv
<1>7. StoreInv'
  BY <1>2, <1>5, StoreIdles DEF PublishingInv
<1>8. Goes(w, t)
  BY <1>2, <1>5 DEF Goes
<1>9. ServerInv'
  BY <1>1, <1>2, <1>5, <1>6, <1>8, Resumes DEF PublishingInv, StoreInv, HookInv
<1> QED BY <1>6, <1>7, <1>9 DEF PublishingInv

\* admin_lifecycle_transition.
LEMMA AdminKeeps ==
    ASSUME PublishingInv, NEW n \in DOMAIN contexts,
           NEW type \in {"retracted", "republished"}, AdminTransition(n, type)
    PROVE  PublishingInv'
<1> DEFINE id == <<"registry", Len(contexts[n].events)>>
<1> DEFINE c == AppendEvent(n, id, type).c
<1> DEFINE tenant == IF c.tenant = Default THEN None ELSE c.tenant
<1>1. /\ Len(contexts) \in Nat /\ now \in Nat /\ DOMAIN contexts = 1..Len(contexts)
      /\ contexts[n] \in StoredContexts
  BY DEF PublishingInv, StoreInv, StoreType, ServerInv, ServerType
<1>2. id \in Ids
  BY <1>1 DEF StoredContexts, Ids
<1>3. /\ contexts' = [contexts EXCEPT ![n] = c]
      /\ Emit(type, n, tenant)
      /\ UNCHANGED <<d, disk, playground, now, limiter, job, keys, sending,
                     received, misjudged>>
  BY DEF AdminTransition, frame
<1> HIDE DEF id
<1>4. /\ c \in StoredContexts /\ c.agent = contexts[n].agent
      /\ c.key = contexts[n].key /\ c.at = contexts[n].at
      /\ c.proven = contexts[n].proven /\ Born(c)
  BY <1>2, AppendEventFacts
<1> HIDE DEF c
<1>5. tenant \in Tenants
  BY <1>4 DEF StoredContexts, Tenants
<1> HIDE DEF tenant
<1>6. StoreInv' /\ Len(contexts') = Len(contexts)
  BY <1>3, <1>4, StoreRewrites DEF PublishingInv
<1>7. n \in Nat /\ n \in 1..Len(contexts')
  BY <1>1, <1>6
<1>8. HookInv' /\ told' = told
  BY <1>1, <1>3, <1>5, <1>6, <1>7, HookEmits DEF PublishingInv
<1>9. ServerInv'
  BY <1>1, <1>3, <1>6, <1>8, ServerIdles DEF PublishingInv, StoreInv
<1> QED BY <1>6, <1>8, <1>9 DEF PublishingInv

(***************************************************************************)
(* The operator, the process, the clock and the webhook worker.            *)
(***************************************************************************)
\* An edit of the file changes nothing that runs.
LEMMA EditKeeps ==
    ASSUME PublishingInv, NEW cell \in Playgrounds, EditConfig(cell)
    PROVE  PublishingInv'
<1>1. /\ disk' = cell
      /\ UNCHANGED <<d, playground, now, limiter, job, contexts, keys, queue,
                     sending, minted, received, misjudged, told>>
  BY DEF EditConfig
<1>2. StoreInv' /\ HookInv'
  BY <1>1, RestIdles
<1>3. ServerInv'
  BY <1>1 DEF PublishingInv, ServerInv, ServerType, JobsSound, ToldSound, Fresh,
              CellSound, ValidPlayground, BudgetBound, EveryProofIsCharged
<1> QED BY <1>2, <1>3 DEF PublishingInv

\* The live cell is replaced by a section that was validated, by a reload or
\* at a start.
LEMMA CellKeeps ==
    ASSUME PublishingInv, ReloadPinnedKeys \/ Start
    PROVE  PublishingInv'
<1>1. /\ playground' = disk /\ ValidPlayground(disk, d.receipts)
      /\ UNCHANGED <<d, disk, now, limiter, job, contexts, keys, queue,
                     sending, minted, received, misjudged, told>>
  BY DEF ReloadPinnedKeys, Start
<1>2. StoreInv' /\ HookInv'
  BY <1>1, RestIdles
<1>3. CellSound'
  BY <1>1 DEF CellSound, ValidPlayground
<1>4. ServerInv'
  BY <1>1, <1>3 DEF PublishingInv, ServerInv, ServerType, JobsSound, ToldSound,
                    Fresh, BudgetBound, EveryProofIsCharged
<1> QED BY <1>2, <1>4 DEF PublishingInv

\* No request, nothing spent.
LEMMA BudgetStarts ==
    ASSUME now' \in Nat, limiter' = NewLimiter(Agent), job' = [w \in Worker |-> Idle]
    PROVE  BudgetBound'
<1> SUFFICES ASSUME NEW a \in Agent
             PROVE  Spent(limiter', a, now') + Cardinality(Pending(a)')
                       <= Limit - 1 + Cardinality(Worker)
  BY DEF BudgetBound, Pending
<1>1. Spent(limiter', a, now') = 0
  BY NewLimiterFacts
<1>2. Pending(a)' = {}
  BY DEF Pending
<1>3. Cardinality(Pending(a)') = 0
  BY <1>2, FS_EmptySet
<1>4. Cardinality(Worker) \in Nat
  BY RequestsAssumption, FS_CardinalityType
<1> DEFINE slots == Cardinality(Worker)
<1> HIDE DEF slots
<1>5. 0 + 0 <= Limit - 1 + slots
  BY <1>4, PublishingAssumption DEF slots
<1> QED BY <1>1, <1>3, <1>5 DEF slots

\* The process dies: the requests, the budgets and the queue are gone.
LEMMA CrashKeeps ==
    ASSUME PublishingInv, Crash
    PROVE  PublishingInv'
<1>1. /\ job' = [w \in Worker |-> Idle] /\ limiter' = NewLimiter(Agent)
      /\ queue' = <<>> /\ sending' = NoDelivery
      /\ UNCHANGED <<d, disk, playground, now, contexts, keys, minted, received,
                     misjudged, told>>
  BY DEF Crash
<1>2. now \in Nat
  BY DEF PublishingInv, ServerInv, ServerType
<1>3. StoreInv'
  BY <1>1, <1>2, StoreIdles DEF PublishingInv
<1>4. BudgetBound'
  BY <1>1, <1>2, BudgetStarts
<1>5. \A w \in Worker : job'[w] = Idle /\ ~ Fresh(job'[w])
  BY <1>1, IdleIsNoJob DEF Fresh
<1>6. JobsSound'
  BY <1>5 DEF JobsSound
<1>7. ToldSound'
  BY <1>1, <1>5 DEF PublishingInv, ServerInv, ToldSound, Fresh
<1>8. IsLimiter(limiter')
  BY <1>1, <1>2, NewLimiterFacts
<1>9. ServerInv'
  BY <1>1, <1>4, <1>6, <1>7, <1>8 DEF PublishingInv, ServerInv, ServerType, CellSound,
                                      ValidPlayground, EveryProofIsCharged
<1>10. HookInv'
  BY <1>1 DEF PublishingInv, HookInv, HookType, QueueSound, NoDelivery
<1> QED BY <1>3, <1>9, <1>10 DEF PublishingInv

\* Time passes: windows close, records expire.
LEMMA TickKeeps ==
    ASSUME PublishingInv, Tick
    PROVE  PublishingInv'
<1>1. /\ now' = now + 1 /\ now \in Nat /\ now' \in Nat /\ now' >= now
      /\ UNCHANGED <<d, disk, playground, limiter, job, contexts, keys, queue,
                     sending, minted, received, misjudged, told>>
  BY DEF Tick, PublishingInv, ServerInv, ServerType
<1>2. StoreInv'
  BY <1>1, StoreIdles DEF PublishingInv
<1>3. HookInv'
  <2>1. Len(contexts) \in Nat
    BY DEF PublishingInv, StoreInv, StoreType
  <2> QED BY <1>1, <2>1, HookIdles DEF PublishingInv
<1>4. ASSUME NEW a \in Agent
      PROVE  Spent(limiter', a, now') + Cardinality(Pending(a)')
                <= Limit - 1 + Cardinality(Worker)
  <2> DEFINE before == Spent(limiter, a, now)
  <2> DEFINE after == Spent(limiter', a, now')
  <2> DEFINE flying == Cardinality(Pending(a))
  <2> DEFINE slots == Cardinality(Worker)
  <2>1. IsLimiter(limiter) /\ limiter' = limiter
    BY <1>1 DEF PublishingInv, ServerInv, ServerType
  <2>2. before \in Nat /\ after \in Nat /\ after <= before
    BY <1>1, <2>1, SpentType
  <2>3. Pending(a)' = Pending(a) /\ Pending(a) \in SUBSET Worker
    BY <1>1 DEF Pending
  <2>4. flying \in Nat /\ slots \in Nat
    BY <2>3, PendingIsBounded
  <2>5. before + flying <= Limit - 1 + slots
    BY BudgetByPending DEF PublishingInv, ServerInv
  <2>6. Cardinality(Pending(a)') = flying
    BY <2>3
  <2> HIDE DEF before, after, flying, slots
  <2>7. after + flying <= Limit - 1 + slots
    BY <2>2, <2>4, <2>5, PublishingAssumption
  <2> QED BY <2>6, <2>7 DEF after, slots
<1>5. BudgetBound'
  BY <1>4 DEF BudgetBound, Pending
<1>6. ServerInv'
  BY <1>1, <1>5 DEF PublishingInv, ServerInv, ServerType, JobsSound, ToldSound,
                    Fresh, CellSound, ValidPlayground, EveryProofIsCharged
<1> QED BY <1>2, <1>3, <1>6 DEF PublishingInv

\* The webhook worker.
LEMMA HookKeeps ==
    ASSUME PublishingInv, Hook
    PROVE  PublishingInv'
<1>1. UNCHANGED <<d, disk, playground, now, limiter, job, contexts, keys, minted,
                  misjudged, told>>
  BY DEF Hook, TakeEvent, Delivered, Undelivered, jobVars
<1>2. HookInv'
  BY HookTakes, HookDelivers DEF Hook, PublishingInv
<1>3. Len(contexts) \in Nat /\ now \in Nat
  BY DEF PublishingInv, StoreInv, StoreType, ServerInv, ServerType
<1>4. StoreInv'
  BY <1>1, <1>3, StoreIdles DEF PublishingInv
<1>5. ServerInv'
  BY <1>1, <1>3, ServerIdles DEF PublishingInv, StoreInv
<1> QED BY <1>2, <1>4, <1>5 DEF PublishingInv

(***************************************************************************)
(* The theorems.                                                           *)
(***************************************************************************)
\* A registry starts with no request, no context and no event, from a
\* section that was validated.
LEMMA InitInv == Init => PublishingInv
<1> SUFFICES ASSUME Init
             PROVE  PublishingInv
  OBVIOUS
<1>1. IsLimiter(limiter) /\ \A a \in Agent : Spent(limiter, a, now) = 0
  BY NewLimiterFacts DEF Init
<1>2. \A w \in Worker : job[w] = Idle /\ ~ Fresh(job[w])
  BY IdleIsNoJob DEF Init, Fresh
<1>3. BudgetBound
  <2> SUFFICES ASSUME NEW a \in Agent
               PROVE  Spent(limiter, a, now) + Cardinality(Pending(a))
                         <= Limit - 1 + Cardinality(Worker)
    BY BudgetByPending
  <2>1. Pending(a) = {} /\ Spent(limiter, a, now) = 0
    BY <1>1, <1>2 DEF Pending
  <2>2. Cardinality(Pending(a)) = 0
    BY <2>1, FS_EmptySet
  <2> DEFINE slots == Cardinality(Worker)
  <2>3. slots \in Nat
    BY RequestsAssumption, FS_CardinalityType
  <2> HIDE DEF slots
  <2>4. 0 + 0 <= Limit - 1 + slots
    BY <2>3, PublishingAssumption
  <2> QED BY <2>1, <2>2, <2>4 DEF slots
<1>4. ServerType /\ JobsSound /\ ToldSound /\ CellSound /\ EveryProofIsCharged
  BY <1>1, <1>2 DEF Init, ServerType, JobsSound, ToldSound, CellSound,
                    EveryProofIsCharged
<1>5. StoreInv
  BY DEF Init, StoreInv, StoreType, KeysSound, NoUnverifiedWithReceipts,
         BornInItsTenant, OneContextPerKey
<1>6. HookInv
  <2>1. Max({1, MaxRetries}) \in Nat
    BY MaxOfTwo, PublishingAssumption
  <2> DEFINE m == Max({1, MaxRetries})
  <2> HIDE DEF m
  <2>2. received.times <= m /\ received.ordered /\ received.last <= minted
    BY <2>1 DEF Init, m
  <2> QED BY <2>2 DEF Init, HookInv, HookType, QueueSound, m
<1> QED BY <1>3, <1>4, <1>5, <1>6 DEF PublishingInv, ServerInv

\* A stuttering step.
LEMMA StutterKeeps ==
    ASSUME PublishingInv, UNCHANGED vars
    PROVE  PublishingInv'
<1>1. UNCHANGED <<d, disk, playground, now, limiter, job, contexts, keys, queue,
                  sending, minted, received, misjudged, told>>
  BY DEF vars
<1>2. StoreInv' /\ HookInv' /\ Len(contexts) \in Nat
  BY <1>1, RestIdles
<1>3. ServerInv'
  BY <1>1, <1>2, ServerIdles DEF PublishingInv, StoreInv
<1> QED BY <1>2, <1>3 DEF PublishingInv

\* Every step keeps the invariant.
LEMMA NextInv == PublishingInv /\ [Next]_vars => PublishingInv'
<1> SUFFICES ASSUME PublishingInv, [Next]_vars
             PROVE  PublishingInv'
  OBVIOUS
<1>1. ASSUME NEW w \in Worker, NEW r \in Publishes, Publish(w, r)
      PROVE  PublishingInv'
  BY <1>1, PublishKeeps
<1>2. ASSUME NEW w \in Worker, NEW e \in Events, Transition(w, e)
      PROVE  PublishingInv'
  BY <1>2, TransitionKeeps
<1>3. ASSUME NEW w \in Worker, Step(w)
      PROVE  PublishingInv'
  <2>1. CASE Prove(w)
    BY <2>1, ProveKeeps
  <2>2. CASE ProofRefused(w)
    BY <2>2, EndKeeps DEF ProofRefused, frame
  <2>3. CASE Commit(w)
    BY <2>3, CommitKeeps
  <2>4. CASE Lookup(w)
    BY <2>4, LookupKeeps
  <2>5. CASE InsertUnverified(w)
    BY <2>5, InsertKeeps
  <2>6. CASE RecordKey(w)
    BY <2>6, RecordKeyKeeps
  <2>7. CASE StampTenant(w)
    BY <2>7, StampTenantKeeps
  <2>8. CASE Finish(w)
    BY <2>8, FinishKeeps
  <2>9. CASE TenantGate(w)
    BY <2>9, TenantGateKeeps
  <2>10. CASE ProveEvent(w)
    BY <2>10, ProveEventKeeps
  <2>11. CASE EventRefused(w)
    BY <2>11, EndKeeps DEF EventRefused, frame
  <2>12. CASE CommitEvent(w)
    BY <2>12, CommitEventKeeps
  <2>13. CASE FinishEvent(w)
    BY <2>13, FinishEventKeeps
  <2> QED BY <1>3, <2>1, <2>2, <2>3, <2>4, <2>5, <2>6, <2>7, <2>8, <2>9, <2>10,
             <2>11, <2>12, <2>13 DEF Step
<1>4. ASSUME NEW w \in Worker, StoreError(w)
      PROVE  PublishingInv'
  BY <1>4, EndKeeps DEF StoreError, frame
<1>5. ASSUME NEW w \in Worker, ClientGone(w)
      PROVE  PublishingInv'
  BY <1>5, ClientGoneKeeps
<1>6. ASSUME NEW n \in DOMAIN contexts, NEW type \in {"retracted", "republished"},
             AdminTransition(n, type)
      PROVE  PublishingInv'
  BY <1>6, AdminKeeps
<1>7. ASSUME NEW cell \in Playgrounds, EditConfig(cell)
      PROVE  PublishingInv'
  BY <1>7, EditKeeps
<1>8. CASE ReloadPinnedKeys \/ Start
  BY <1>8, CellKeeps
<1>9. CASE Crash
  BY <1>9, CrashKeeps
<1>10. CASE Tick
  BY <1>10, TickKeeps
<1>11. CASE Hook
  BY <1>11, HookKeeps
<1>12. CASE UNCHANGED vars
  BY <1>12, StutterKeeps
<1> QED BY <1>1, <1>2, <1>3, <1>4, <1>5, <1>6, <1>7, <1>8, <1>9, <1>10, <1>11,
           <1>12 DEF Next

\* The invariant of the handlers, the store behind them and the webhook.
THEOREM PublishingInvariant == Spec => []PublishingInv
BY InitInv, NextInv, PTL DEF Spec

\* The publish budget, for any number of requests in flight: each proven
\* identity is charged once, and an agent exceeds its window by at most the
\* requests in flight.
THEOREM ChargesAreSound == Spec => []ChargesSound
<1>1. PublishingInv => ChargesSound
  BY DEF PublishingInv, ServerInv, ChargesSound
<1> QED BY <1>1, PublishingInvariant, PTL

\* A registry that issues receipts stores no unverified context, through any
\* sequence of edits, reloads, crashes and restarts.
THEOREM ReceiptsAreVerified == Spec => []NoUnverifiedWithReceipts
<1>1. PublishingInv => NoUnverifiedWithReceipts
  BY DEF PublishingInv, StoreInv
<1> QED BY <1>1, PublishingInvariant, PTL

\* Every context is in the tenant its publisher was vouched for, and two
\* proven publishes under one key make one context while its record lives.
THEOREM ContextsAreSound == Spec => []ContextsSound
<1>1. PublishingInv => ContextsSound
  BY DEF PublishingInv, StoreInv, ContextsSound
<1> QED BY <1>1, PublishingInvariant, PTL

\* The webhook's receiver sees each publication under one id, events in the
\* order they were emitted, and no attempt too many.
THEOREM WebhooksAreInOrder == Spec => []WebhooksInOrder
<1>1. PublishingInv => WebhooksInOrder
  <2> SUFFICES ASSUME PublishingInv
               PROVE  WebhooksInOrder
    OBVIOUS
  <2>1. \A i \in DOMAIN queue : queue[i].ctx \in DOMAIN contexts
    BY DEF PublishingInv, HookInv, QueueSound, StoreInv, StoreType
  <2>2. \A i, j \in DOMAIN told : told[i] = told[j] => i = j
    BY DEF PublishingInv, ServerInv, ToldSound
  <2>3. DeliveredInOrder
    BY DEF PublishingInv, HookInv, QueueSound, DeliveredInOrder
  <2> QED BY <2>1, <2>2, <2>3 DEF WebhooksInOrder, AnnouncedOnce
<1> QED BY <1>1, PublishingInvariant, PTL

(***************************************************************************)
(* The order of the rows.                                                  *)
(***************************************************************************)
\* The contexts table has finitely many rows, each a row of a context.
RowsSound ==
    Stored \subseteq Ctx /\ IsFiniteSet(Stored) /\ rows \in [Stored -> ContextRow]

\* The rows of a set that come before one.
Ahead(S, c) == {e \in S : Before(e, c)}

\* What a sequence has.
Of(s) == {s[i] : i \in DOMAIN s}

\* A nonempty set of naturals has a least element.
LEMMA LeastNumber ==
    ASSUME NEW T, T \subseteq Nat, T # {}
    PROVE  \E x \in T : \A y \in T : x <= y
<1> DEFINE R == OpToRel(<, Nat)
<1>1. \E x \in T : \A y \in T : ~ (<<y, x>> \in R)
  <2>1. IsWellFoundedOn(R, Nat)
    BY NatLessThanWellFounded
  <2> HIDE DEF R
  <2> QED BY <2>1, WFMin
<1>2. \A x, y \in Nat : <<y, x>> \in R <=> y < x
  BY DEF OpToRel
<1> HIDE DEF R
<1>3. PICK x \in T : \A y \in T : ~ (<<y, x>> \in R)
  BY <1>1
<1>4. \A y \in T : ~ (y < x)
  BY <1>2, <1>3
<1>5. \A y \in T : x <= y
  BY <1>4
<1> QED BY <1>5

\* Newest first, and by id among equals: a strict total order of the rows.
LEMMA BeforeIsOrder ==
    ASSUME RowsSound
    PROVE  /\ \A c \in Stored : ~ Before(c, c)
           /\ \A c, e \in Stored : c = e \/ Before(c, e) \/ Before(e, c)
           /\ \A c, e \in Stored : Before(c, e) => ~ Before(e, c)
           /\ \A c, e, g \in Stored : Before(c, e) /\ Before(e, g) => Before(c, g)
<1>1. \A c \in Stored : c \in Nat /\ rows[c].at \in Nat
  BY ListingAssumption DEF RowsSound, ContextRow
<1> QED BY <1>1 DEF Before

\* Whoever comes later has more rows ahead.
LEMMA AheadGrows ==
    ASSUME RowsSound, NEW S, S \subseteq Stored
    PROVE  /\ IsFiniteSet(S) /\ Cardinality(S) \in Nat
           /\ \A c \in S : /\ IsFiniteSet(Ahead(S, c)) /\ Cardinality(Ahead(S, c)) \in Nat
                           /\ Cardinality(Ahead(S, c)) < Cardinality(S)
           /\ \A c, e \in S : Before(c, e) =>
                 Cardinality(Ahead(S, c)) < Cardinality(Ahead(S, e))
<1>1. IsFiniteSet(S) /\ Cardinality(S) \in Nat
  BY FS_Subset, FS_CardinalityType DEF RowsSound
<1>2. ASSUME NEW c \in S, NEW U, U \subseteq S, Ahead(S, c) \subseteq U, c \in U
      PROVE  /\ IsFiniteSet(Ahead(S, c)) /\ Cardinality(Ahead(S, c)) \in Nat
             /\ Cardinality(Ahead(S, c)) < Cardinality(U)
  <2>1. IsFiniteSet(U)
    BY <1>1, <1>2, FS_Subset
  <2>2. c \notin Ahead(S, c)
    BY <1>2, BeforeIsOrder DEF Ahead
  <2>3. IsFiniteSet(Ahead(S, c)) /\ Cardinality(Ahead(S, c)) <= Cardinality(U)
        /\ (Cardinality(Ahead(S, c)) = Cardinality(U) => Ahead(S, c) = U)
    BY <1>2, <2>1, FS_Subset
  <2>4. Cardinality(Ahead(S, c)) \in Nat /\ Cardinality(U) \in Nat
    BY <2>1, <2>3, FS_CardinalityType
  <2> QED BY <1>2, <2>2, <2>3, <2>4
<1>3. ASSUME NEW c \in S
      PROVE  /\ IsFiniteSet(Ahead(S, c)) /\ Cardinality(Ahead(S, c)) \in Nat
             /\ Cardinality(Ahead(S, c)) < Cardinality(S)
  <2>1. Ahead(S, c) \subseteq S
    BY DEF Ahead
  <2> QED BY <1>2, <2>1
<1>4. ASSUME NEW c \in S, NEW e \in S, Before(c, e)
      PROVE  Cardinality(Ahead(S, c)) < Cardinality(Ahead(S, e))
  <2>1. Ahead(S, e) \subseteq S /\ c \in Ahead(S, e)
    BY <1>4 DEF Ahead
  <2>2. Ahead(S, c) \subseteq Ahead(S, e)
    BY <1>4, BeforeIsOrder DEF Ahead
  <2> QED BY <1>2, <2>1, <2>2
<1> QED BY <1>1, <1>3, <1>4

\* The first n of a set: nothing outside comes before one of them, and there
\* is one if there can be.
LEMMA FirstOfFacts ==
    ASSUME RowsSound, NEW S, S \subseteq Stored, NEW n \in Nat \ {0}
    PROVE  /\ FirstOf(S, n) \subseteq S
           /\ \A c \in FirstOf(S, n), e \in S : Before(e, c) => e \in FirstOf(S, n)
           /\ S # {} => FirstOf(S, n) # {}
<1>1. FirstOf(S, n) = {c \in S : Cardinality(Ahead(S, c)) < n}
  BY DEF FirstOf, Ahead
<1> DEFINE rank(c) == Cardinality(Ahead(S, c))
<1>2. \A c \in S : rank(c) \in Nat
  BY AheadGrows
<1>3. \A c, e \in S : Before(e, c) => rank(e) < rank(c)
  BY AheadGrows
<1> HIDE DEF rank
<1>4. ASSUME NEW c \in FirstOf(S, n), NEW e \in S, Before(e, c)
      PROVE  e \in FirstOf(S, n)
  <2>1. c \in S /\ rank(c) < n
    BY <1>1 DEF rank
  <2>2. rank(e) < rank(c) /\ rank(e) \in Nat /\ rank(c) \in Nat
    BY <1>2, <1>3, <1>4, <2>1
  <2>3. rank(e) < n
    BY <2>1, <2>2
  <2> QED BY <1>1, <2>3 DEF rank
<1>5. ASSUME S # {} PROVE FirstOf(S, n) # {}
  <2> DEFINE T == {rank(c) : c \in S}
  <2>1. T \subseteq Nat /\ T # {}
    BY <1>2, <1>5
  <2>2. PICK c \in S : \A e \in S : rank(c) <= rank(e)
    <3>1. PICK x \in T : \A y \in T : x <= y
      BY <2>1, LeastNumber
    <3> QED BY <3>1
  <2>3. Ahead(S, c) = {}
    <3> SUFFICES ASSUME NEW e \in Ahead(S, c) PROVE FALSE
      OBVIOUS
    <3>1. e \in S /\ Before(e, c)
      BY DEF Ahead
    <3>2. rank(e) < rank(c) /\ rank(c) <= rank(e) /\ rank(e) \in Nat /\ rank(c) \in Nat
      BY <3>1, <1>2, <1>3, <2>2
    <3> QED BY <3>2
  <2>4. Cardinality(Ahead(S, c)) = 0
    BY <2>3, FS_EmptySet
  <2> QED BY <1>1, <2>4
<1> QED BY <1>1, <1>4, <1>5

\* The last of a nonempty set of rows.
LEMMA LastOfFacts ==
    ASSUME RowsSound, NEW S, S \subseteq Stored, S # {}
    PROVE  LastOf(S) \in S /\ \A e \in S : e = LastOf(S) \/ Before(e, LastOf(S))
<1> DEFINE rank(c) == Cardinality(Ahead(S, c))
<1> DEFINE N == Cardinality(S)
<1>1. N \in Nat /\ \A c \in S : rank(c) \in Nat /\ rank(c) < N
  BY AheadGrows
<1>2. \A c, e \in S : Before(e, c) => rank(e) < rank(c)
  BY AheadGrows
<1> HIDE DEF rank, N
<1> DEFINE T == {N - rank(c) : c \in S}
<1>3. T \subseteq Nat /\ T # {}
  BY <1>1
<1>4. PICK c \in S : \A e \in S : N - rank(c) <= N - rank(e)
  <2>1. PICK x \in T : \A y \in T : x <= y
    BY <1>3, LeastNumber
  <2> QED BY <2>1
<1>5. ASSUME NEW e \in S, e # c PROVE Before(e, c)
  <2>1. rank(e) \in Nat /\ rank(c) \in Nat /\ rank(e) <= rank(c)
    BY <1>1, <1>4
  <2>2. ~ Before(c, e)
    BY <1>2, <2>1
  <2> QED BY <1>5, <2>2, BeforeIsOrder
<1>6. \E x \in S : \A e \in S : e = x \/ Before(e, x)
  BY <1>5
<1> QED BY <1>6 DEF LastOf

\* An ordered sequence of a set has every member once.
LEMMA OrderedFacts ==
    ASSUME RowsSound, NEW S, S \subseteq Stored
    PROVE  /\ Ordered(S) \in Seq(S) /\ Of(Ordered(S)) = S
           /\ \A i, j \in DOMAIN Ordered(S) : Ordered(S)[i] = Ordered(S)[j] => i = j
<1> DEFINE N == Cardinality(S)
<1> DEFINE Good(s) == \A i, j \in DOMAIN s : i < j => Before(s[i], s[j])
<1> DEFINE f == [c \in S |-> Cardinality(Ahead(S, c)) + 1]
<1>1. IsFiniteSet(S) /\ N \in Nat
  BY AheadGrows
<1>2. \A c \in S : f[c] \in 1..N
  BY AheadGrows
<1>3. \A c, e \in S : Before(c, e) => f[c] < f[e]
  BY AheadGrows
<1>4. f \in [S -> 1..N]
  BY <1>2
<1> HIDE DEF f
<1>5. \A c, e \in S : f[c] = f[e] => c = e
  BY <1>2, <1>3, BeforeIsOrder
<1>6. IsFiniteSet(1..N) /\ Cardinality(1..N) = N
  <2>1. 1 \in Int /\ N \in Int
    BY <1>1
  <2>2. IsFiniteSet(1..N) /\ Cardinality(1..N) = IF 1 > N THEN 0 ELSE N - 1 + 1
    BY <2>1, FS_Interval
  <2> QED BY <2>2, <1>1
<1>7. f \in Injection(S, 1..N)
  BY <1>4, <1>5 DEF Injection, IsInjective
<1>8. \A i \in 1..N : \E c \in S : f[c] = i
  <2>1. f \in Surjection(S, 1..N)
    BY <1>6, <1>7, FS_Injection
  <2> QED BY <2>1 DEF Surjection
<1> DEFINE g == [i \in 1..N |-> CHOOSE c \in S : f[c] = i]
<1>9. \A i \in 1..N : g[i] \in S /\ f[g[i]] = i
  BY <1>8
<1>10. g \in [1..N -> S]
  BY <1>9
<1>11. DOMAIN g = 1..N
  OBVIOUS
<1> HIDE DEF g
<1>12. Good(g)
  <2> SUFFICES ASSUME NEW i \in 1..N, NEW j \in 1..N, i < j
               PROVE  Before(g[i], g[j])
    BY <1>11
  <2>1. g[i] \in S /\ g[j] \in S /\ f[g[i]] = i /\ f[g[j]] = j
    BY <1>9
  <2>2. g[i] # g[j]
    BY <2>1
  <2>3. ~ Before(g[j], g[i])
    <3> SUFFICES ASSUME Before(g[j], g[i]) PROVE FALSE
      OBVIOUS
    <3>1. f[g[j]] < f[g[i]]
      BY <1>3, <2>1
    <3>2. j < i
      BY <2>1, <3>1
    <3> QED BY <3>2
  <2> QED BY <2>1, <2>2, <2>3, BeforeIsOrder
<1> DEFINE s == Ordered(S)
<1>13. s \in [1..N -> S] /\ Good(s)
  <2>1. \E x \in [1..N -> S] : Good(x)
    BY <1>10, <1>12
  <2> QED BY <2>1 DEF Ordered
<1> HIDE DEF s
<1>14. \A i, j \in 1..N : s[i] = s[j] => i = j
  <2> SUFFICES ASSUME NEW i \in 1..N, NEW j \in 1..N, s[i] = s[j], i < j
               PROVE  FALSE
    <3>1. \A i, j \in 1..N : i = j \/ i < j \/ j < i
      BY <1>1
    <3> QED BY <3>1
  <2>1. Before(s[i], s[i]) /\ s[i] \in S
    BY <1>13
  <2> QED BY <2>1, BeforeIsOrder
<1>15. Of(s) = S
  <2>1. s \in Injection(1..N, S)
    BY <1>13, <1>14 DEF Injection, IsInjective
  <2>2. s \in Surjection(1..N, S)
    BY <1>1, <1>6, <2>1, FS_Injection
  <2>3. \A c \in S : \E i \in 1..N : s[i] = c
    BY <2>2 DEF Surjection
  <2> QED BY <1>13, <2>3 DEF Of
<1>16. s \in Seq(S) /\ DOMAIN s = 1..N
  BY <1>1, <1>13, IsASeq
<1> QED BY <1>14, <1>15, <1>16 DEF s

\* What a page adds to what was served before.
LEMMA ServedGrows ==
    ASSUME RowsSound, NEW s \in Seq(Ctx), NEW S, S \subseteq Stored, S \cap Of(s) = {},
           \A i, j \in DOMAIN s : s[i] = s[j] => i = j
    PROVE  LET t == s \o Ordered(S)
           IN  /\ t \in Seq(Ctx) /\ Of(t) = Of(s) \cup S
               /\ \A i, j \in DOMAIN t : t[i] = t[j] => i = j
<1> DEFINE p == Ordered(S)
<1>1. p \in Seq(S) /\ Of(p) = S /\ \A i, j \in DOMAIN p : p[i] = p[j] => i = j
  BY OrderedFacts
<1>2. S \subseteq Ctx
  BY DEF RowsSound
<1> HIDE DEF p
<1>3. p \in Seq(Ctx)
  BY <1>1, <1>2
<1> DEFINE t == s \o p
<1>4. t \in Seq(Ctx) /\ Len(t) = Len(s) + Len(p)
      /\ \A i \in 1..(Len(s) + Len(p)) : t[i] = IF i <= Len(s) THEN s[i] ELSE p[i - Len(s)]
  BY <1>3
<1>5. Len(s) \in Nat /\ Len(p) \in Nat /\ DOMAIN s = 1..Len(s) /\ DOMAIN p = 1..Len(p)
  BY <1>3
<1>6. DOMAIN t = 1..(Len(s) + Len(p))
  BY <1>4
<1> HIDE DEF t
<1>7. \A i \in DOMAIN t : \/ i \in DOMAIN s /\ t[i] = s[i]
                          \/ i - Len(s) \in DOMAIN p /\ t[i] = p[i - Len(s)] /\ i > Len(s)
  BY <1>4, <1>5, <1>6
<1>8. \A i \in DOMAIN s : i \in DOMAIN t /\ t[i] = s[i]
  BY <1>4, <1>5, <1>6
<1>9. \A i \in DOMAIN p : i + Len(s) \in DOMAIN t /\ t[i + Len(s)] = p[i]
  BY <1>4, <1>5, <1>6
<1>10. Of(t) = Of(s) \cup Of(p)
  <2>1. Of(t) \subseteq Of(s) \cup Of(p)
    BY <1>7 DEF Of
  <2>2. Of(s) \subseteq Of(t)
    BY <1>8 DEF Of
  <2>3. Of(p) \subseteq Of(t)
    <3> SUFFICES ASSUME NEW i \in DOMAIN p PROVE p[i] \in Of(t)
      BY DEF Of
    <3> QED BY <1>9 DEF Of
  <2> QED BY <2>1, <2>2, <2>3
<1>11. ASSUME NEW i \in DOMAIN t, NEW j \in DOMAIN t, t[i] = t[j]
       PROVE  i = j
  <2>1. CASE i \in DOMAIN s /\ t[i] = s[i]
    <3>1. CASE j \in DOMAIN s /\ t[j] = s[j]
      BY <1>11, <2>1, <3>1
    <3>2. CASE j - Len(s) \in DOMAIN p /\ t[j] = p[j - Len(s)]
      BY <1>1, <1>11, <2>1, <3>2 DEF Of
    <3> QED BY <1>7, <3>1, <3>2
  <2>2. CASE i - Len(s) \in DOMAIN p /\ t[i] = p[i - Len(s)]
    <3>1. CASE j \in DOMAIN s /\ t[j] = s[j]
      BY <1>1, <1>11, <2>2, <3>1 DEF Of
    <3>2. CASE j - Len(s) \in DOMAIN p /\ t[j] = p[j - Len(s)]
      <4>1. i - Len(s) = j - Len(s)
        BY <1>1, <1>11, <2>2, <3>2
      <4>2. i \in Int /\ j \in Int /\ Len(s) \in Int
        BY <1>5, <1>6
      <4> QED BY <4>1, <4>2
    <3> QED BY <1>7, <3>1, <3>2
  <2> QED BY <1>7, <2>1, <2>2
<1> QED BY <1>1, <1>4, <1>10, <1>11 DEF t, p

(***************************************************************************)
(* The statements, of every backend and for every query.                   *)
(***************************************************************************)
\* The status clause of the statement is the projected status.
LEMMA StatusIsProjected ==
    ASSUME RowsSound, clock \in Nat, NEW q \in Queries, NEW c \in Stored
    PROVE  StatusSql(q, rows[c], Body[c]) <=> HasStatus(q, c)
<1>1. /\ rows[c].status \in {"active", "superseded"} /\ rows[c].retracted \in BOOLEAN
      /\ q.status \in {"active", "superseded", "expired", "retracted"}
      /\ Body[c].expires \in Nat
  BY ListingAssumption DEF RowsSound, ContextRow, SearchQuery
<1> QED BY <1>1 DEF StatusSql, HasStatus, Projected

\* A statement and what is left to Rust together are what the query means.
LEMMA SearchIsMeant ==
    ASSUME RowsSound, clock \in Nat, NEW q \in Queries, NEW c \in Stored
    PROVE  /\ SqliteSql(q, c) /\ SqlitePost(q, c) <=> Meets(q, c)
           /\ PgSql(q, c) /\ PgPost(q, c) <=> Meets(q, c)
           /\ SqliteSql(q, c) \/ PgSql(q, c) => HasStatus(q, c)
<1>1. StatusSql(q, rows[c], Body[c]) <=> HasStatus(q, c)
  BY StatusIsProjected
<1>2. TextSqlite(q, Body[c]) <=>
         /\ q.words # {} => {} # q.words \ Stopwords
         /\ q.words \ Stopwords \subseteq Body[c].words
  BY DEF TextSqlite
<1>3. TextPg(q, Body[c]) <=>
         /\ q.words # {} => {} # q.words \ Stopwords
         /\ q.words \ Stopwords \subseteq Body[c].words
  BY DEF TextPg
<1>4. CommonSql(q, c) <=>
         /\ SearchVisible(Body[c], q.who, PublicOpen) /\ q.tenant \in {None, rows[c].tenant}
         /\ q.agent \in {None, Body[c].owner} /\ rows[c].at >= q.after
         /\ HasStatus(q, c)
  BY <1>1 DEF CommonSql, InTenant
<1> QED BY <1>2, <1>3, <1>4 DEF SqliteSql, SqlitePost, PgSql, PgPost, Meets

\* The three forms of the retrieval rule.
LEMMA RulesAgree ==
    ASSUME NEW b, NEW who
    PROVE  /\ ListVisible(b, who, PublicOpen) <=> RetrieveVisible(b, who, PublicOpen)
           /\ ListVisiblePg(b, who, PublicOpen) = RetrieveVisible(b, who, PublicOpen)
<1>1. PublicOpen \in BOOLEAN
  BY ListingAssumption
<1> QED BY <1>1 DEF ListVisible, ListVisiblePg, RetrieveVisible

\* What a request may be given, and may learn the position of.
MaySee(q, c) ==
    /\ c \in Stored
    /\ q.tenant # None => rows[c].tenant = q.tenant
    /\ q.op = "search" => SearchVisible(Body[c], q.who, PublicOpen)
    /\ q.op = "list" => Body[c].visibility = "public"
    /\ ~ Paging(q) => ListVisible(Body[c], q.who, PublicOpen)

\* The statement finds what is wanted, and nothing that may not be seen.
LEMMA StatementFinds ==
    ASSUME RowsSound, clock \in Nat, NEW q \in Queries, Paging(q), NEW c \in Stored
    PROVE  /\ Wanted(q, c) => Sql(q, c) /\ Post(q, c)
           /\ Sql(q, c) => MaySee(q, c)
<1>1. CASE q.op = "search"
  <2>1. /\ SqliteSql(q, c) /\ SqlitePost(q, c) <=> Meets(q, c)
        /\ PgSql(q, c) /\ PgPost(q, c) <=> Meets(q, c)
    BY SearchIsMeant
  <2>2. SqliteSql(q, c) \/ PgSql(q, c) => CommonSql(q, c)
    BY DEF SqliteSql, PgSql
  <2>3. CommonSql(q, c) => MaySee(q, c)
    BY <1>1 DEF CommonSql, InTenant, MaySee, Paging
  <2> QED BY <1>1, <2>1, <2>2, <2>3 DEF Wanted, Sql, Post
<1>2. CASE q.op = "list"
  <2>1. q.who = None
    BY <1>2, QueryAssumption
  <2> QED BY <1>2, <2>1 DEF Wanted, Sql, Post, ListSqlite, ListPg, ListVisible, ListVisiblePg,
                            InTenant, MaySee, Paging
<1> QED BY <1>1, <1>2 DEF Paging

(***************************************************************************)
(* The inductive invariant.                                                *)
(***************************************************************************)
\* A cursor the client may hold, and a request in flight.
Cursor == {NoCursor} \cup [at : Nat, ctx : Ctx, mint : Nat]

ReadRecord ==
    [pc : {"scan", "filter", "client", "done", "fetch", "gate"}, q : Queries,
     cursor : Cursor, next : Cursor, found : SUBSET Ctx, got : SUBSET Ctx, scans : Nat]

\* A cursor is the place of a row that the caller may see.
CursorSound(q, cursor) ==
    cursor # NoCursor => cursor.at = rows[cursor.ctx].at /\ MaySee(q, cursor.ctx)

\* Up to the cursor, the caller was given all it was entitled to all along,
\* and nothing past it.
PageInv(q, cursor, given) ==
    /\ CursorSound(q, cursor)
    /\ cursor = NoCursor => given = {}
    /\ \A c \in given : MaySee(q, c) /\ ~ PastCursor(cursor, c)
    /\ \A c \in steady : c \in given \/ PastCursor(cursor, c)

\* Between the cursor and the next one, the scan found it.
ScanInv(q, cursor, next, found) ==
    /\ CursorSound(q, next)
    /\ next # NoCursor => PastCursor(cursor, next.ctx)
    /\ \A c \in found : /\ MaySee(q, c) /\ PastCursor(cursor, c)
                        /\ next # NoCursor => ~ PastCursor(next, c)
    /\ \A c \in steady : PastCursor(cursor, c) =>
          c \in found \/ (next # NoCursor /\ PastCursor(next, c))

\* What a listing in flight knows.
WalkInv(q) ==
    /\ \A c \in steady : Wanted(q, c)
    /\ read.pc \in {"scan", "filter", "client", "done"}
    /\ read.pc # "done" => /\ PageInv(q, read.cursor, Of(served) \cup read.got)
                           /\ Of(served) \cap read.got = {}
    /\ read.pc = "filter" => ScanInv(q, read.cursor, read.next, read.found)
    /\ read.pc = "done" => steady \subseteq Of(served)

\* What a single read in flight knows: the half of the disclosure rule that
\* it has checked.
SingleInv(q) ==
    /\ steady = {}
    /\ read.pc \in {"fetch", "gate", "done"}
    /\ read.pc # "done" => served = <<>>
    /\ read.pc = "gate" /\ q.op # "body" =>
          \A c \in read.found : c \in Stored /\ ListVisible(Body[c], q.who, PublicOpen)
    /\ read.pc = "fetch" /\ q.op = "body" =>
          q.ctx \in Stored /\ (q.tenant # None => rows[q.ctx].tenant = q.tenant)

\* Whatever is in flight, nothing it was given so far may not be seen.
ReadInv ==
    read # NoRead =>
        /\ read \in ReadRecord
        /\ read.pc \in {"done", "fetch", "gate"} => read.cursor = NoCursor
        /\ \A c \in Of(served) : MaySee(read.q, c)
        /\ IF Paging(read.q) THEN WalkInv(read.q) ELSE SingleInv(read.q)

\* The inductive invariant.
ListInv ==
    /\ RowsSound /\ clock \in Nat
    /\ served \in Seq(Ctx) /\ \A i, j \in DOMAIN served : served[i] = served[j] => i = j
    /\ ReadInv

\* Past a cursor is after its row.
LEMMA PastIsAfter ==
    ASSUME NEW q, NEW cursor \in Cursor, CursorSound(q, cursor), cursor # NoCursor, RowsSound
    PROVE  \A c \in Stored : PastCursor(cursor, c) <=> Before(cursor.ctx, c)
<1>1. cursor.at = rows[cursor.ctx].at /\ cursor.ctx \in Stored
  BY DEF CursorSound, MaySee
<1>2. \A c \in Stored : rows[c].at \in Nat /\ c \in Nat
  BY ListingAssumption DEF RowsSound, ContextRow
<1> QED BY <1>1, <1>2 DEF PastCursor, Before

(***************************************************************************)
(* Writes.                                                                 *)
(***************************************************************************)
\* A write, or time, moves no row and takes no row out of a tenant; who is no
\* longer entitled leaves `steady'.
LEMMA WriteKeeps ==
    ASSUME ListInv, RowsSound', clock' \in Nat, Stored \subseteq Stored',
           \A c \in Stored : /\ rows'[c].at = rows[c].at
                             /\ rows[c].tenant # Default => rows'[c].tenant = rows[c].tenant,
           UNCHANGED <<read, served>>, Keep
    PROVE  ListInv'
<1>1. CASE read = NoRead
  BY <1>1 DEF ListInv, ReadInv
<1>2. CASE read # NoRead
  <2> DEFINE q == read.q
  <2>1. q \in Queries /\ q.tenant # Default /\ read \in ReadRecord
    BY <1>2, QueryAssumption DEF ListInv, ReadInv, ReadRecord
  <2>2. \A c \in Stored : c \in Stored'
    OBVIOUS
  <2>3. \A c : MaySee(q, c) => MaySee(q, c)'
    BY <2>1, <2>2 DEF MaySee
  <2>4. \A cursor, c : c \in Stored => (PastCursor(cursor, c)' <=> PastCursor(cursor, c))
    BY DEF PastCursor
  <2>5. \A cursor : CursorSound(q, cursor) => CursorSound(q, cursor)'
    BY <2>3 DEF CursorSound, MaySee
  <2>6. CASE Paging(q)
    <3>1. steady' \subseteq steady /\ \A c \in steady' : Wanted(q, c)'
      BY <1>2, <2>6 DEF Keep
    <3>2. WalkInv(q)
      BY <1>2, <2>6 DEF ListInv, ReadInv
    <3>3. steady \subseteq Stored
      BY <3>2 DEF WalkInv, Wanted
    <3>4. ASSUME NEW cursor, NEW given, PageInv(q, cursor, given)
          PROVE  PageInv(q, cursor, given)'
      <4>1. \A c \in given : c \in Stored
        BY <3>4 DEF PageInv, MaySee
      <4> QED BY <2>3, <2>4, <2>5, <3>1, <3>3, <3>4, <4>1 DEF PageInv
    <3>5. ASSUME NEW cursor, NEW next, NEW found, ScanInv(q, cursor, next, found)
          PROVE  ScanInv(q, cursor, next, found)'
      <4>1. \A c \in found : c \in Stored
        BY <3>5 DEF ScanInv, MaySee
      <4>2. next # NoCursor => next.ctx \in Stored
        BY <3>5 DEF ScanInv, CursorSound, MaySee
      <4> QED BY <2>3, <2>4, <2>5, <3>1, <3>3, <3>5, <4>1, <4>2 DEF ScanInv
    <3>6. WalkInv(q)'
      BY <3>1, <3>2, <3>4, <3>5 DEF WalkInv
    <3> QED BY <1>2, <2>3, <2>6, <3>6 DEF ListInv, ReadInv
  <2>7. CASE ~ Paging(q)
    <3>1. steady' = steady
      BY <2>7 DEF Keep
    <3>2. SingleInv(q)
      BY <1>2, <2>7 DEF ListInv, ReadInv
    <3>3. SingleInv(q)'
      BY <2>1, <2>2, <3>1, <3>2 DEF SingleInv
    <3> QED BY <1>2, <2>3, <2>7, <3>3 DEF ListInv, ReadInv
  <2> QED BY <2>6, <2>7
<1> QED BY <1>1, <1>2

(***************************************************************************)
(* Pages.                                                                  *)
(***************************************************************************)
\* One statement: what it finds, and the cursor after it.
LEMMA ScanFinds ==
    ASSUME RowsSound, clock \in Nat, NEW q \in Queries, Paging(q),
           NEW cursor \in Cursor, \A c \in steady : Wanted(q, c),
           NEW cs, cs = {c \in Stored : Sql(q, c) /\ PastCursor(cursor, c)},
           NEW found, found = {c \in FirstOf(cs, q.limit) : Post(q, c)},
           NEW next, next = NextCursor(q, cursor, cs)
    PROVE  next \in Cursor /\ found \subseteq Ctx /\ ScanInv(q, cursor, next, found)
<1> DEFINE page == FirstOf(cs, q.limit)
<1>1. q.limit \in Nat \ {0}
  BY ListingAssumption DEF SearchQuery
<1>2. cs \subseteq Stored /\ \A c \in cs : MaySee(q, c) /\ PastCursor(cursor, c)
  BY StatementFinds
<1>3. /\ page \subseteq cs
      /\ \A c \in page, e \in cs : Before(e, c) => e \in page
      /\ cs # {} => page # {}
  BY <1>1, <1>2, FirstOfFacts
<1>4. next = IF cs = page THEN NoCursor ELSE EncodeCursor(LastOf(page))
  BY DEF NextCursor
<1>5. found = {c \in page : Post(q, c)}
  OBVIOUS
<1> HIDE DEF page
<1>6. found \subseteq page /\ found \subseteq Ctx
  BY <1>2, <1>3, <1>5 DEF RowsSound
<1>7. \A c \in steady : PastCursor(cursor, c) => c \in cs /\ (c \in page => c \in found)
  BY <1>5, StatementFinds DEF Wanted
<1>8. CASE cs = page
  <2>1. next = NoCursor
    BY <1>4, <1>8
  <2> QED BY <1>2, <1>6, <1>7, <1>8, <2>1 DEF ScanInv, CursorSound, Cursor
<1>9. CASE cs # page
  <2> DEFINE last == LastOf(page)
  <2>1. page # {} /\ page \subseteq Stored
    BY <1>2, <1>3, <1>9
  <2>2. last \in page /\ \A e \in page : e = last \/ Before(e, last)
    BY <2>1, LastOfFacts
  <2>3. next = [at |-> rows[last].at, ctx |-> last, mint |-> clock]
    BY <1>4, <1>9 DEF EncodeCursor
  <2> HIDE DEF last
  <2>4. last \in Stored /\ last \in Ctx /\ rows[last].at \in Nat
    BY <2>1, <2>2 DEF RowsSound, ContextRow
  <2>5. next \in Cursor /\ next.at = rows[last].at /\ next.ctx = last
    BY <2>3, <2>4 DEF Cursor
  <2>6. next # NoCursor
    BY <2>4, <2>5 DEF NoCursor
  <2>7. MaySee(q, last) /\ PastCursor(cursor, last)
    BY <1>2, <1>3, <2>2
  <2>8. CursorSound(q, next)
    BY <2>5, <2>7 DEF CursorSound
  <2>9. \A c \in Stored : PastCursor(next, c) <=> Before(last, c)
    BY <2>5, <2>6, <2>8, PastIsAfter
  <2>10. \A c \in page : ~ PastCursor(next, c)
    BY <2>1, <2>2, <2>4, <2>9, BeforeIsOrder
  <2>11. \A c \in cs : c \notin page => PastCursor(next, c)
    <3> SUFFICES ASSUME NEW c \in cs, c \notin page PROVE Before(last, c)
      BY <1>2, <2>9
    <3>1. c # last /\ ~ Before(c, last)
      BY <1>3, <2>2
    <3> QED BY <3>1, <1>2, <2>4, BeforeIsOrder
  <2>12. \A c \in found : MaySee(q, c) /\ PastCursor(cursor, c) /\ ~ PastCursor(next, c)
    BY <1>2, <1>3, <1>6, <2>10
  <2>13. \A c \in steady : PastCursor(cursor, c) => c \in found \/ PastCursor(next, c)
    BY <1>7, <2>11
  <2> QED BY <1>6, <2>5, <2>6, <2>7, <2>8, <2>12, <2>13 DEF ScanInv
<1> QED BY <1>8, <1>9

\* The filter after the statement drops nothing the caller was entitled to.
Narrowed(found, kept) == kept \subseteq found /\ steady \cap found \subseteq kept

\* A page that is narrowed but keeps what the caller was entitled to takes
\* the walk to the next cursor, or to its end.
LEMMA PageDone ==
    ASSUME RowsSound, NEW q, NEW cursor \in Cursor, NEW next \in Cursor, NEW given,
           NEW found, NEW kept, Narrowed(found, kept),
           NEW more, more = given \cup kept,
           steady \subseteq Stored,
           PageInv(q, cursor, given), ScanInv(q, cursor, next, found)
    PROVE  /\ next # NoCursor => PageInv(q, next, more)
           /\ next = NoCursor => steady \subseteq more
           /\ \A c \in kept : c \notin given
           /\ \A c \in more : MaySee(q, c)
<1>1. \A c \in kept : /\ MaySee(q, c) /\ PastCursor(cursor, c)
                      /\ next # NoCursor => ~ PastCursor(next, c)
  BY DEF ScanInv, Narrowed
<1>2. \A c \in given : MaySee(q, c) /\ ~ PastCursor(cursor, c)
  BY DEF PageInv
<1>3. \A c \in steady : c \in more \/ (next # NoCursor /\ PastCursor(next, c))
  BY DEF ScanInv, PageInv, Narrowed
<1>4. ASSUME next # NoCursor, NEW c \in given PROVE ~ PastCursor(next, c)
  <2>1. cursor # NoCursor /\ CursorSound(q, cursor) /\ cursor.ctx \in Stored
    BY <1>2, <1>4 DEF PageInv, CursorSound, MaySee
  <2>2. CursorSound(q, next) /\ next.ctx \in Stored /\ PastCursor(cursor, next.ctx)
    BY <1>4 DEF ScanInv, CursorSound, MaySee
  <2>3. c \in Stored
    BY <1>2 DEF MaySee
  <2>4. Before(cursor.ctx, next.ctx) /\ ~ Before(cursor.ctx, c)
    BY <1>2, <2>1, <2>2, <2>3, PastIsAfter
  <2>5. ~ Before(next.ctx, c)
    BY <2>1, <2>2, <2>3, <2>4, BeforeIsOrder
  <2> QED BY <1>4, <2>2, <2>3, <2>5, PastIsAfter
<1>5. next # NoCursor => PageInv(q, next, more)
  <2>1. CursorSound(q, next)
    BY DEF ScanInv
  <2> QED BY <1>1, <1>2, <1>3, <1>4, <2>1 DEF PageInv
<1> QED BY <1>1, <1>2, <1>3, <1>5

(***************************************************************************)
(* The requests.                                                           *)
(***************************************************************************)
\* A read is about a table that does not change under one of its steps.
LEMMA Still ==
    ASSUME UNCHANGED <<clock, rows>>
    PROVE  /\ RowsSound' <=> RowsSound
           /\ Stored' = Stored
           /\ \A q, c : MaySee(q, c)' <=> MaySee(q, c)
           /\ \A q, c : Wanted(q, c)' <=> Wanted(q, c)
           /\ \A cursor, c : PastCursor(cursor, c)' <=> PastCursor(cursor, c)
           /\ \A q, cursor : CursorSound(q, cursor)' <=> CursorSound(q, cursor)
<1>1. Stored' = Stored /\ (RowsSound' <=> RowsSound)
  BY DEF Stored, RowsSound
<1>2. \A q, c : MaySee(q, c)' <=> MaySee(q, c)
  BY <1>1 DEF MaySee
<1>3. \A q, c : Wanted(q, c)' <=> Wanted(q, c)
  BY <1>1 DEF Wanted, Meets, HasStatus, Projected
<1>4. \A cursor, c : PastCursor(cursor, c)' <=> PastCursor(cursor, c)
  BY DEF PastCursor
<1>5. \A q, cursor : CursorSound(q, cursor)' <=> CursorSound(q, cursor)
  BY <1>2 DEF CursorSound
<1> QED BY <1>1, <1>2, <1>3, <1>4, <1>5

\* The same of a walk's bookkeeping.
LEMMA StillWalking ==
    ASSUME UNCHANGED <<clock, rows, steady>>
    PROVE  /\ \A q, cursor, given :
                 PageInv(q, cursor, given)' <=> PageInv(q, cursor, given)
           /\ \A q, cursor, next, found :
                 ScanInv(q, cursor, next, found)' <=> ScanInv(q, cursor, next, found)
<1>1. /\ \A q, c : MaySee(q, c)' <=> MaySee(q, c)
      /\ \A cursor, c : PastCursor(cursor, c)' <=> PastCursor(cursor, c)
      /\ \A q, cursor : CursorSound(q, cursor)' <=> CursorSound(q, cursor)
  BY Still
<1>2. \A q, cursor, given : PageInv(q, cursor, given)' <=> PageInv(q, cursor, given)
  BY <1>1 DEF PageInv
<1>3. \A q, cursor, next, found :
         ScanInv(q, cursor, next, found)' <=> ScanInv(q, cursor, next, found)
  BY <1>1 DEF ScanInv
<1> QED BY <1>2, <1>3

\* A request in flight is a walk or a single read.
LEMMA InFlight ==
    ASSUME ListInv, read.pc # "idle"
    PROVE  /\ read # NoRead /\ read \in ReadRecord /\ read.q \in Queries
           /\ \A c \in Of(served) : MaySee(read.q, c)
           /\ read.pc \in {"scan", "filter", "client"} => Paging(read.q)
           /\ read.pc \in {"fetch", "gate"} => ~ Paging(read.q) /\ read.cursor = NoCursor
           /\ Paging(read.q) => WalkInv(read.q)
           /\ ~ Paging(read.q) => SingleInv(read.q)
<1>1. read # NoRead
  BY DEF NoRead
<1>2. read \in ReadRecord /\ read.q \in Queries
  BY <1>1 DEF ListInv, ReadInv, ReadRecord
<1>3. /\ \A c \in Of(served) : MaySee(read.q, c)
      /\ IF Paging(read.q) THEN WalkInv(read.q) ELSE SingleInv(read.q)
      /\ read.pc \in {"done", "fetch", "gate"} => read.cursor = NoCursor
  BY <1>1 DEF ListInv, ReadInv
<1> QED BY <1>1, <1>2, <1>3 DEF WalkInv, SingleInv

\* A request arrives.
LEMMA OpenKeeps ==
    ASSUME ListInv, NEW q \in Queries, NEW pc, Open(q, pc),
           pc = IF Paging(q) THEN "scan" ELSE IF q.op = "body" THEN "gate" ELSE "fetch"
    PROVE  ListInv'
<1>1. read' \in ReadRecord /\ read'.q = q /\ read'.pc = pc /\ read'.cursor = NoCursor
      /\ read'.got = {}
  BY DEF Open, ReadRecord, Cursor
<1>2. served' = <<>> /\ Of(served') = {} /\ served' \in Seq(Ctx)
  BY DEF Open, Of
<1>3. UNCHANGED <<clock, rows>>
  BY DEF Open
<1>4. RowsSound' /\ clock' \in Nat
  BY <1>3, Still DEF ListInv
<1>5. CASE Paging(q)
  <2>1. \A c \in steady' : Wanted(q, c)'
    BY <1>3, <1>5, Still DEF Open
  <2>2. PageInv(q, NoCursor, {})'
    BY DEF PageInv, CursorSound, PastCursor
  <2>3. WalkInv(q)'
    BY <1>1, <1>2, <1>5, <2>1, <2>2 DEF WalkInv
  <2> QED BY <1>1, <1>2, <1>4, <1>5, <2>3 DEF ListInv, ReadInv
<1>6. CASE ~ Paging(q)
  <2>1. SingleInv(q)'
    BY <1>1, <1>2, <1>6 DEF SingleInv, Open
  <2> QED BY <1>1, <1>2, <1>4, <1>6, <2>1 DEF ListInv, ReadInv
<1> QED BY <1>5, <1>6

\* A statement.
LEMMA ScanKeeps ==
    ASSUME ListInv, Scan
    PROVE  ListInv'
<1>1. PICK q \in Queries : q = read.q
  BY InFlight DEF Scan
<1>2. PICK cursor \in Cursor : cursor = read.cursor
  BY InFlight DEF Scan, ReadRecord
<1>3. /\ read \in ReadRecord /\ Paging(q) /\ WalkInv(q) /\ read.pc = "scan"
      /\ \A c \in Of(served) : MaySee(q, c)
  BY <1>1, InFlight DEF Scan
<1>4. UNCHANGED <<clock, rows, served, steady>> /\ RowsSound /\ clock \in Nat
  BY DEF Scan, ListInv
<1>5. PICK cs : /\ cs = {c \in Stored : Sql(q, c) /\ PastCursor(cursor, c)}
                /\ read' = [read EXCEPT
                      !.pc = "filter",
                      !.found = {c \in FirstOf(cs, q.limit) : Post(q, c)},
                      !.next = NextCursor(q, cursor, cs),
                      !.scans = @ + 1]
  BY <1>1, <1>2 DEF Scan
<1>6. PICK found : found = {c \in FirstOf(cs, q.limit) : Post(q, c)}
  OBVIOUS
<1>7. PICK next : next = NextCursor(q, cursor, cs)
  OBVIOUS
<1>8. \A c \in steady : Wanted(q, c)
  BY <1>3 DEF WalkInv
<1>9. next \in Cursor /\ found \subseteq Ctx /\ ScanInv(q, cursor, next, found)
  BY <1>3, <1>4, <1>5, <1>6, <1>7, <1>8, ScanFinds
<1>10. PICK n \in Nat : n = read.scans + 1
  BY <1>3 DEF ReadRecord
<1>11. /\ read' \in ReadRecord /\ read'.q = q /\ read'.pc = "filter" /\ read'.cursor = cursor
       /\ read'.got = read.got /\ read'.found = found /\ read'.next = next
  <2>1. read' = [read EXCEPT !.pc = "filter", !.found = found, !.next = next, !.scans = n]
    BY <1>5, <1>6, <1>7, <1>10
  <2>2. found \in SUBSET Ctx /\ next \in Cursor
    BY <1>9
  <2> HIDE DEF Cursor
  <2>3. read' \in ReadRecord
    BY <1>3, <2>1, <2>2 DEF ReadRecord
  <2> QED BY <1>1, <1>2, <1>3, <2>1, <2>3 DEF ReadRecord
<1>12. \A c \in steady' : Wanted(q, c)'
  BY <1>4, <1>8, Still
<1>13. PICK given : given = Of(served) \cup read.got
  OBVIOUS
<1>14. PageInv(q, cursor, given) /\ Of(served) \cap read.got = {}
  BY <1>2, <1>3, <1>13 DEF WalkInv
<1>15. PageInv(q, cursor, given)' /\ ScanInv(q, cursor, next, found)'
  BY <1>4, <1>9, <1>14, StillWalking
<1>16. Of(served') = Of(served) /\ Of(served') \cup read'.got = given
  BY <1>4, <1>11, <1>13
<1>17. WalkInv(q)'
  BY <1>11, <1>12, <1>14, <1>15, <1>16 DEF WalkInv
<1>18. RowsSound' /\ clock' \in Nat /\ \A c \in Of(served') : MaySee(q, c)'
  BY <1>3, <1>4, <1>16, Still
<1> QED BY <1>3, <1>4, <1>11, <1>17, <1>18 DEF ListInv, ReadInv

\* A page is narrowed, and scanned on from or answered.
LEMMA FilterKeeps ==
    ASSUME ListInv, Filter
    PROVE  ListInv'
<1>1. PICK q \in Queries : q = read.q
  BY InFlight DEF Filter
<1>2. read \in ReadRecord /\ read.pc = "filter" /\ Paging(q) /\ WalkInv(q)
      /\ \A c \in Of(served) : MaySee(q, c)
  BY <1>1, InFlight DEF Filter
<1>3. PICK cursor \in Cursor, next \in Cursor : cursor = read.cursor /\ next = read.next
  BY <1>2 DEF ReadRecord
<1>4. PICK found, got, given : /\ found = read.found /\ got = read.got
                               /\ given = Of(served) \cup got
  OBVIOUS
<1>5. /\ UNCHANGED <<clock, rows, steady>> /\ RowsSound /\ clock \in Nat
      /\ served \in Seq(Ctx) /\ \A i, j \in DOMAIN served : served[i] = served[j] => i = j
  BY DEF Filter, ListInv
<1>6. /\ PageInv(q, cursor, given) /\ ScanInv(q, cursor, next, found)
      /\ \A c \in steady : Wanted(q, c)
      /\ Of(served) \cap got = {}
  BY <1>2, <1>3, <1>4 DEF WalkInv
<1>7. PICK kept : kept = IF q.op = "list" THEN found
                         ELSE OwnedBy({c \in found : AtLevel(q, c)}, q.tenant)
  OBVIOUS
<1>8. Narrowed(found, kept)
  <2>1. kept \subseteq found
    BY <1>7 DEF OwnedBy
  <2>2. CASE q.op = "list"
    BY <1>7, <2>2 DEF Narrowed
  <2>3. CASE q.op # "list"
    <3>1. \A c \in steady : c \in Stored /\ AtLevel(q, c) /\ q.tenant \in {None, rows[c].tenant}
      BY <1>6, <2>3 DEF Wanted, Meets
    <3> QED BY <1>7, <2>1, <2>3, <3>1 DEF OwnedBy, Narrowed
  <2> QED BY <2>1, <2>2, <2>3
<1>9. steady \subseteq Stored
  BY <1>6 DEF Wanted
<1>10. PICK all : all = got \cup kept
  OBVIOUS
<1>11. PICK more : more = given \cup kept
  OBVIOUS
<1>12. /\ next # NoCursor => PageInv(q, next, more)
       /\ next = NoCursor => steady \subseteq more
       /\ \A c \in kept : c \notin given
       /\ \A c \in more : MaySee(q, c)
  <2>1. RowsSound
    BY <1>5
  <2>2. PageInv(q, cursor, given) /\ ScanInv(q, cursor, next, found)
    BY <1>6
  <2> QED BY <2>1, <2>2, <1>8, <1>9, <1>11, PageDone
<1>13. more = Of(served) \cup all /\ Of(served) \cap all = {}
  BY <1>4, <1>6, <1>10, <1>11, <1>12
<1>14. all \subseteq Stored /\ all \subseteq Ctx
  <2>1. all \subseteq Stored
    BY <1>11, <1>12, <1>13 DEF MaySee
  <2> QED BY <1>5, <2>1 DEF RowsSound
<1>15. RowsSound' /\ clock' \in Nat /\ (\A c \in steady' : Wanted(q, c)')
       /\ \A c \in more : MaySee(q, c)'
  BY <1>5, <1>6, <1>11, <1>12, Still
<1>16. next # NoCursor => PageInv(q, next, more)'
  BY <1>5, <1>11, <1>12, StillWalking
<1>17. CASE Refill(q, all)
  <2>1. read' = [read EXCEPT !.pc = "scan", !.got = all, !.cursor = next, !.found = {}]
        /\ served' = served
    BY <1>1, <1>3, <1>4, <1>7, <1>10, <1>17 DEF Filter
  <2>2. next # NoCursor
    BY <1>3, <1>17 DEF Refill
  <2>3. /\ read' \in ReadRecord /\ read'.q = q /\ read'.pc = "scan"
        /\ read'.cursor = next /\ read'.got = all
    BY <1>1, <1>2, <1>14, <2>1 DEF ReadRecord
  <2>4. Of(served') = Of(served) /\ Of(served') \cup read'.got = more
    BY <1>13, <2>1, <2>3
  <2>5. WalkInv(q)'
    BY <1>13, <1>15, <1>16, <2>2, <2>3, <2>4 DEF WalkInv
  <2>6. \A c \in Of(served') : MaySee(q, c)'
    BY <1>13, <1>15, <2>4
  <2> QED BY <1>2, <1>5, <1>15, <2>1, <2>3, <2>5, <2>6 DEF ListInv, ReadInv
<1>18. CASE ~ Refill(q, all)
  <2>1. PICK pc : pc = IF next = NoCursor THEN "done" ELSE "client"
    OBVIOUS
  <2>2. /\ read' = [read EXCEPT !.got = {}, !.found = {}, !.scans = 0, !.cursor = next,
                                !.pc = pc]
        /\ served' = served \o Ordered(all)
    BY <1>1, <1>3, <1>4, <1>7, <1>10, <1>18, <2>1 DEF Filter
  <2>3. /\ read' \in ReadRecord /\ read'.q = q /\ read'.pc = pc
        /\ read'.cursor = next /\ read'.got = {}
    BY <1>1, <1>2, <2>1, <2>2 DEF ReadRecord
  <2>4. /\ served' \in Seq(Ctx) /\ Of(served') = Of(served) \cup all
        /\ \A i, j \in DOMAIN served' : served'[i] = served'[j] => i = j
    BY <1>5, <1>13, <1>14, <2>2, ServedGrows
  <2>5. Of(served') = more /\ Of(served') \cup read'.got = more
    BY <1>13, <2>3, <2>4
  <2>6. next = NoCursor => steady' \subseteq more
    BY <1>5, <1>11, <1>12
  <2>7. WalkInv(q)'
    BY <1>15, <1>16, <2>1, <2>3, <2>5, <2>6 DEF WalkInv
  <2>8. \A c \in Of(served') : MaySee(q, c)'
    BY <1>15, <2>5
  <2> QED BY <1>2, <1>15, <2>1, <2>3, <2>4, <2>7, <2>8 DEF ListInv, ReadInv
<1> QED BY <1>17, <1>18

\* The client comes back in time.
LEMMA GoOnKeeps ==
    ASSUME ListInv, GoOn
    PROVE  ListInv'
<1>1. PICK q \in Queries : q = read.q
  BY InFlight DEF GoOn
<1>2. PICK cursor \in Cursor : cursor = read.cursor
  BY InFlight DEF GoOn, ReadRecord
<1>3. read \in ReadRecord /\ read.pc = "client" /\ Paging(q) /\ WalkInv(q)
      /\ \A c \in Of(served) : MaySee(q, c)
  BY <1>1, InFlight DEF GoOn
<1>4. PICK given : given = Of(served) \cup read.got
  OBVIOUS
<1>5. UNCHANGED <<clock, rows, served, steady>> /\ RowsSound /\ clock \in Nat
  BY DEF GoOn, ListInv
<1>6. /\ read' \in ReadRecord /\ read'.q = q /\ read'.pc = "scan" /\ read'.cursor = cursor
      /\ read'.got = read.got
  BY <1>1, <1>2, <1>3 DEF GoOn, ReadRecord
<1>7. PageInv(q, cursor, given)'
  BY <1>2, <1>3, <1>4, <1>5, StillWalking DEF WalkInv
<1>8. Of(served') = Of(served) /\ Of(served') \cup read'.got = given
  BY <1>4, <1>5, <1>6
<1>9. \A c \in steady' : Wanted(q, c)'
  BY <1>3, <1>5, Still DEF WalkInv
<1>10. WalkInv(q)'
  BY <1>3, <1>6, <1>7, <1>8, <1>9 DEF WalkInv
<1>11. RowsSound' /\ clock' \in Nat /\ \A c \in Of(served') : MaySee(q, c)'
  BY <1>3, <1>5, <1>8, Still
<1> QED BY <1>3, <1>5, <1>6, <1>10, <1>11 DEF ListInv, ReadInv

\* A request ends.
LEMMA CloseKeeps ==
    ASSUME ListInv, read' = NoRead, UNCHANGED <<clock, rows, served>>
    PROVE  ListInv'
BY Still DEF ListInv, ReadInv

\* A single read fetches what the requester may see.
LEMMA FetchKeeps ==
    ASSUME ListInv, Fetch
    PROVE  ListInv'
<1>1. PICK q \in Queries : q = read.q
  BY InFlight DEF Fetch
<1>2. read \in ReadRecord /\ read.pc = "fetch" /\ ~ Paging(q) /\ SingleInv(q)
      /\ read.cursor = NoCursor /\ served = <<>>
  BY <1>1, InFlight DEF Fetch, SingleInv
<1>3. UNCHANGED <<clock, rows, steady>> /\ RowsSound /\ clock \in Nat
  BY DEF Fetch, ListInv
<1>4. PICK cs : cs = VisibleCtxIds(Asked(q), q.who, None, PublicOpen)
  OBVIOUS
<1>5. \A c \in cs : /\ c \in Stored /\ ListVisible(Body[c], q.who, PublicOpen)
                    /\ q.op = "body" => c = q.ctx
  BY <1>4 DEF VisibleCtxIds, Asked
<1>6. PICK pc : pc = IF q.op = "body" \/ cs = {} THEN "done" ELSE "gate"
  OBVIOUS
<1>7. /\ read' = [read EXCEPT !.found = cs, !.pc = pc]
      /\ served' = IF q.op = "body" THEN served \o Ordered(cs) ELSE served
  BY <1>1, <1>4, <1>6 DEF Fetch
<1>8. cs \in SUBSET Ctx /\ cs \subseteq Stored
  BY <1>3, <1>5 DEF RowsSound
<1>9. /\ read' \in ReadRecord /\ read'.q = q /\ read'.pc = pc /\ read'.found = cs
      /\ read'.cursor = NoCursor
  BY <1>1, <1>2, <1>6, <1>7, <1>8 DEF ReadRecord
<1>10. SingleInv(q)'
  <2>1. q.op # "body" => served' = <<>>
    BY <1>2, <1>7
  <2>2. \A c \in cs : c \in Stored' /\ ListVisible(Body[c], q.who, PublicOpen)
    BY <1>3, <1>5, Still
  <2> QED BY <1>2, <1>3, <1>6, <1>9, <2>1, <2>2 DEF SingleInv
<1>11. /\ Of(served) = {} /\ served \in Seq(Ctx) /\ cs \cap Of(served) = {}
       /\ \A i, j \in DOMAIN served : served[i] = served[j] => i = j
  BY <1>2 DEF Of, ListInv
<1>12. PICK given : given = IF q.op = "body" THEN cs ELSE {}
  OBVIOUS
<1>13. /\ served' \in Seq(Ctx) /\ Of(served') = given
       /\ \A i, j \in DOMAIN served' : served'[i] = served'[j] => i = j
  <2>1. CASE q.op = "body"
    <3>1. /\ served' \in Seq(Ctx) /\ Of(served') = Of(served) \cup cs
          /\ \A i, j \in DOMAIN served' : served'[i] = served'[j] => i = j
      BY <1>3, <1>7, <1>8, <1>11, <2>1, ServedGrows
    <3> QED BY <1>11, <1>12, <2>1, <3>1
  <2>2. CASE q.op # "body"
    BY <1>7, <1>11, <1>12, <2>2
  <2> QED BY <2>1, <2>2
<1>14. \A c \in given : MaySee(q, c)
  BY <1>2, <1>5, <1>12 DEF SingleInv, MaySee, Paging
<1>15. RowsSound' /\ clock' \in Nat /\ \A c \in Of(served') : MaySee(q, c)'
  BY <1>3, <1>13, <1>14, Still
<1> QED BY <1>2, <1>9, <1>10, <1>13, <1>15 DEF ListInv, ReadInv

\* A single read is gated on the tenant.
LEMMA GateKeeps ==
    ASSUME ListInv, Gate
    PROVE  ListInv'
<1>1. PICK q \in Queries : q = read.q
  BY InFlight DEF Gate
<1>2. read \in ReadRecord /\ read.pc = "gate" /\ ~ Paging(q) /\ SingleInv(q)
      /\ read.cursor = NoCursor /\ served = <<>>
  BY <1>1, InFlight DEF Gate, SingleInv
<1>3. UNCHANGED <<clock, rows, steady>> /\ RowsSound /\ clock \in Nat
  BY DEF Gate, ListInv
<1>4. PICK mine : mine = OwnedBy(IF q.op = "body" THEN Stored \cap {q.ctx} ELSE read.found,
                                 q.tenant)
  OBVIOUS
<1>5. \A c \in mine : /\ c \in Stored /\ (q.tenant # None => rows[c].tenant = q.tenant)
                      /\ IF q.op = "body" THEN c = q.ctx
                         ELSE ListVisible(Body[c], q.who, PublicOpen)
  BY <1>2, <1>4 DEF OwnedBy, SingleInv
<1>6. PICK pc : pc = IF q.op = "body" /\ mine # {} THEN "fetch" ELSE "done"
  OBVIOUS
<1>7. /\ read' = [read EXCEPT !.pc = pc]
      /\ served' = IF q.op = "body" THEN served ELSE served \o Ordered(mine)
  BY <1>1, <1>4, <1>6 DEF Gate
<1>8. /\ read' \in ReadRecord /\ read'.q = q /\ read'.pc = pc /\ read'.cursor = NoCursor
  BY <1>1, <1>2, <1>6, <1>7 DEF ReadRecord
<1>9. SingleInv(q)'
  <2>1. pc = "fetch" => /\ served' = <<>> /\ q.ctx \in Stored'
                        /\ q.tenant # None => rows'[q.ctx].tenant = q.tenant
    BY <1>2, <1>3, <1>5, <1>6, <1>7, Still
  <2> QED BY <1>2, <1>3, <1>6, <1>8, <2>1 DEF SingleInv
<1>10. /\ Of(served) = {} /\ served \in Seq(Ctx) /\ mine \cap Of(served) = {}
       /\ \A i, j \in DOMAIN served : served[i] = served[j] => i = j
  BY <1>2 DEF Of, ListInv
<1>11. mine \subseteq Stored
  BY <1>5
<1>12. PICK given : given = IF q.op = "body" THEN {} ELSE mine
  OBVIOUS
<1>13. /\ served' \in Seq(Ctx) /\ Of(served') = given
       /\ \A i, j \in DOMAIN served' : served'[i] = served'[j] => i = j
  <2>1. CASE q.op # "body"
    <3>1. /\ served' \in Seq(Ctx) /\ Of(served') = Of(served) \cup mine
          /\ \A i, j \in DOMAIN served' : served'[i] = served'[j] => i = j
      BY <1>3, <1>7, <1>10, <1>11, <2>1, ServedGrows
    <3> QED BY <1>10, <1>12, <2>1, <3>1
  <2>2. CASE q.op = "body"
    BY <1>7, <1>10, <1>12, <2>2
  <2> QED BY <2>1, <2>2
<1>14. \A c \in given : MaySee(q, c)
  BY <1>2, <1>5, <1>12 DEF MaySee, Paging
<1>15. RowsSound' /\ clock' \in Nat /\ \A c \in Of(served') : MaySee(q, c)'
  BY <1>3, <1>13, <1>14, Still
<1> QED BY <1>2, <1>8, <1>9, <1>13, <1>15 DEF ListInv, ReadInv

(***************************************************************************)
(* The writers and the clock.                                              *)
(***************************************************************************)
\* A row is published, stamped at once or not yet.
LEMMA RowInsertKeeps ==
    ASSUME ListInv, NEW c \in Ctx, NEW at \in Nat, NEW tenant \in {None, Body[c].tenant},
           Insert(c, at, tenant)
    PROVE  ListInv'
<1>1. Stored' = Stored \cup {c} /\ \A e \in Stored : rows'[e] = rows[e]
  BY DEF Insert, Stored
<1>2. \A e \in Stored' : rows'[e] \in ContextRow
  <2>1. \A e \in Stored : rows[e] \in ContextRow
    BY DEF ListInv, RowsSound
  <2>2. rows'[c] = [at |-> at, status |-> "active", retracted |-> FALSE,
                    tenant |-> Column(tenant)]
    BY DEF Insert
  <2>3. Column(tenant) \in {Default} \cup {Body[e].tenant : e \in Ctx}
    BY DEF Column
  <2>4. rows'[c] \in ContextRow
    BY <2>2, <2>3 DEF ContextRow
  <2> QED BY <1>1, <2>1, <2>4
<1>3. rows' \in [Stored' -> ContextRow]
  BY <1>2 DEF Insert, Stored
<1>4. IsFiniteSet(Stored') /\ Stored' \subseteq Ctx
  BY <1>1, FS_AddElement DEF ListInv, RowsSound
<1>5. RowsSound'
  BY <1>3, <1>4 DEF RowsSound
<1> QED BY <1>1, <1>5, WriteKeeps DEF Insert, Write, ListInv

\* A row is stamped, retracted, reinstated or superseded.
LEMMA UpdateKeeps ==
    ASSUME ListInv, NEW c \in Stored, Stamp(c) \/ Flip(c) \/ Supersede(c)
    PROVE  ListInv'
<1>1. /\ rows \in [Stored -> ContextRow] /\ c \in Ctx /\ clock \in Nat
      /\ Stored \subseteq Ctx /\ IsFiniteSet(Stored)
  BY DEF ListInv, RowsSound
<1>2. /\ rows' \in [Stored -> ContextRow]
      /\ \A e \in Stored : /\ rows'[e].at = rows[e].at
                           /\ rows[e].tenant # Default => rows'[e].tenant = rows[e].tenant
  <2>1. CASE Stamp(c)
    BY <1>1, <2>1, ListingAssumption DEF Stamp, ContextRow
  <2>2. CASE Flip(c)
    BY <1>1, <2>2 DEF Flip, ContextRow
  <2>3. CASE Supersede(c)
    BY <1>1, <2>3 DEF Supersede, ContextRow
  <2> QED BY <2>1, <2>2, <2>3
<1>3. Stored' = Stored
  BY <1>2 DEF Stored
<1>4. RowsSound'
  BY <1>1, <1>2, <1>3 DEF RowsSound
<1>5. UNCHANGED <<clock, read, served>> /\ Keep
  BY DEF Stamp, Flip, Supersede, Write
<1> QED BY <1>1, <1>2, <1>3, <1>4, <1>5, WriteKeeps

\* Time passes, and rows expire.
LEMMA TimeKeeps ==
    ASSUME ListInv, ClockTick
    PROVE  ListInv'
<1>1. UNCHANGED <<rows, read, served>> /\ Keep /\ clock' \in Nat
  BY DEF ClockTick, ListInv
<1>2. Stored' = Stored /\ RowsSound'
  BY <1>1 DEF Stored, RowsSound, ListInv
<1> QED BY <1>1, <1>2, WriteKeeps

(***************************************************************************)
(* The theorems.                                                           *)
(***************************************************************************)
\* Every table a registry starts from, with no request in flight.
LEMMA ListInitially == ListInit => ListInv
<1> SUFFICES ASSUME ListInit PROVE ListInv
  OBVIOUS
<1>1. RowsSound
  BY TableAssumption DEF ListInit, RowsSound, Stored
<1> QED BY <1>1 DEF ListInit, ListInv, ReadInv

\* Every step of a request, of a writer or of time.
LEMMA ListStep == ListInv /\ [ListNext]_listVars => ListInv'
<1> SUFFICES ASSUME ListInv, [ListNext]_listVars PROVE ListInv'
  OBVIOUS
<1>1. CASE UNCHANGED listVars
  <2>1. UNCHANGED <<clock, rows, read, served, steady>>
    BY <1>1 DEF listVars
  <2>2. Stored' = Stored /\ RowsSound' /\ clock' \in Nat
    BY <2>1, Still DEF ListInv
  <2>3. Keep
    <3>1. CASE read = NoRead \/ ~ Paging(read.q)
      BY <2>1, <3>1 DEF Keep
    <3>2. CASE read # NoRead /\ Paging(read.q)
      <4>1. PICK q : q = read.q
        OBVIOUS
      <4>2. \A c \in steady : Wanted(q, c)'
        BY <2>1, <3>2, <4>1, Still DEF ListInv, ReadInv, WalkInv
      <4> QED BY <2>1, <3>2, <4>1, <4>2 DEF Keep
    <3> QED BY <3>1, <3>2
  <2> QED BY <2>1, <2>2, <2>3, WriteKeeps
<1>2. ASSUME NEW q \in Queries, BeginSearch(q) \/ BeginList(q) \/ BeginRead(q)
      PROVE  ListInv'
  BY <1>2, OpenKeeps DEF BeginSearch, BeginList, BeginRead, Paging
<1>3. CASE Serve
  BY <1>3, ScanKeeps, FilterKeeps, GoOnKeeps, FetchKeeps, GateKeeps DEF Serve
<1>4. CASE TooLate \/ Close
  BY <1>4, CloseKeeps DEF TooLate, Close
<1>5. ASSUME NEW c \in Ctx, NEW at \in {clock - 1, clock}, NEW stamped \in BOOLEAN, at >= 0,
             Insert(c, at, IF stamped THEN Body[c].tenant ELSE None)
      PROVE  ListInv'
  <2>1. at \in Nat
    BY <1>5 DEF ListInv
  <2>2. (IF stamped THEN Body[c].tenant ELSE None) \in {None, Body[c].tenant}
    OBVIOUS
  <2> QED BY <1>5, <2>1, <2>2, RowInsertKeeps
<1>6. ASSUME NEW c \in Stored, Stamp(c) \/ Flip(c) \/ Supersede(c)
      PROVE  ListInv'
  BY <1>6, UpdateKeeps
<1>7. CASE ClockTick
  BY <1>7, TimeKeeps
<1> QED BY <1>1, <1>2, <1>3, <1>4, <1>5, <1>6, <1>7 DEF ListNext

\* Of every listing and single read, at every moment beside every writer: up
\* to its cursor the caller was given what it was entitled to all along, and
\* neither an answer nor a cursor names what it may not see.
THEOREM ListInvariant == ListSpec => []ListInv
<1>1. ListInit => ListInv
  BY ListInitially
<1>2. ListInv /\ [ListNext]_listVars => ListInv'
  BY ListStep
<1> QED BY <1>1, <1>2, PTL DEF ListSpec

\* Following next_cursor to its end gives every context that met the query
\* all along, each once, and nothing outside the caller's tenant or hidden
\* from it (try_paginate_rows, run_search_with_refill, the tenant gates).
THEOREM WalksAreExact == ListSpec => []WalkIsExact
<1>1. ListInv => WalkIsExact
  <2> SUFFICES ASSUME ListInv PROVE WalkIsExact
    OBVIOUS
  <2>1. NothingMissed
    <3> SUFFICES ASSUME read.pc = "done" PROVE steady \subseteq Of(served)
      BY DEF NothingMissed, Of
    <3> QED BY InFlight DEF WalkInv, SingleInv
  <2>2. ServedOnce
    BY DEF ListInv, ServedOnce
  <2>3. NothingForeign
    <3> SUFFICES ASSUME read # NoRead,
                        NEW c \in (IF read.cursor = NoCursor THEN {} ELSE {read.cursor.ctx})
                                  \cup Of(served)
                 PROVE  /\ read.q.tenant # None => rows[c].tenant = read.q.tenant
                        /\ CASE read.q.op = "search" ->
                                  SearchVisible(Body[c], read.q.who, PublicOpen)
                             [] read.q.op = "list" -> Body[c].visibility = "public"
                             [] OTHER -> ListVisible(Body[c], read.q.who, PublicOpen)
      BY DEF NothingForeign, Of
    <3>1. MaySee(read.q, c)
      <4>1. CASE c \in Of(served)
        BY <4>1 DEF ListInv, ReadInv
      <4>2. CASE read.cursor # NoCursor /\ c = read.cursor.ctx
        <5>1. Paging(read.q) /\ WalkInv(read.q) /\ read.pc # "done"
          BY <4>2 DEF ListInv, ReadInv, SingleInv
        <5>2. CursorSound(read.q, read.cursor)
          BY <5>1 DEF WalkInv, PageInv
        <5> QED BY <4>2, <5>2 DEF CursorSound
      <4> QED BY <4>1, <4>2
    <3> QED BY <3>1 DEF MaySee, Paging
  <2> QED BY <2>1, <2>2, <2>3 DEF WalkIsExact
<1> QED BY <1>1, ListInvariant, PTL

\* The two backends and Rust's rule answer alike, whatever the table, the
\* bodies and the queries (search_inner, retrieve_visible, LIST_VISIBILITY_PG).
THEOREM SearchesAgree == ListSpec => []BackendsAgree
<1>1. ListInv => BackendsAgree
  <2> SUFFICES ASSUME ListInv, NEW q \in Queries, q.op = "search"
               PROVE  /\ VisibleCtxIds(Ctx, q.who, q.tenant, PublicOpen)
                            = VisibleOneByOne(Ctx, q.who, q.tenant, PublicOpen)
                      /\ \A c \in Ctx : ListVisiblePg(Body[c], q.who, PublicOpen)
                                           = RetrieveVisible(Body[c], q.who, PublicOpen)
                      /\ LET lite == {c \in Stored : SqliteSql(q, c)}
                             pg == {c \in Stored : PgSql(q, c)}
                             meant == {c \in Stored : Meets(q, c)}
                         IN  /\ {c \in lite : SqlitePost(q, c)} = meant
                             /\ {c \in pg : PgPost(q, c)} = meant
                             /\ \A c \in lite \cup pg : HasStatus(q, c)
    BY DEF BackendsAgree
  <2>1. RowsSound /\ clock \in Nat
    BY DEF ListInv
  <2>2. \A c : ListVisible(Body[c], q.who, PublicOpen)
                  <=> RetrieveVisible(Body[c], q.who, PublicOpen)
    BY RulesAgree
  <2>3. VisibleCtxIds(Ctx, q.who, q.tenant, PublicOpen)
           = VisibleOneByOne(Ctx, q.who, q.tenant, PublicOpen)
    BY <2>2 DEF VisibleCtxIds, VisibleOneByOne
  <2>4. \A c \in Ctx : ListVisiblePg(Body[c], q.who, PublicOpen)
                          = RetrieveVisible(Body[c], q.who, PublicOpen)
    BY RulesAgree
  <2>5. \A c \in Stored : /\ SqliteSql(q, c) /\ SqlitePost(q, c) <=> Meets(q, c)
                          /\ PgSql(q, c) /\ PgPost(q, c) <=> Meets(q, c)
                          /\ SqliteSql(q, c) \/ PgSql(q, c) => HasStatus(q, c)
    BY <2>1, SearchIsMeant
  <2> QED BY <2>3, <2>4, <2>5
<1> QED BY <1>1, ListInvariant, PTL
=============================================================================
