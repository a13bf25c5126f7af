------------------------------- MODULE Keyless -------------------------------
(***************************************************************************)
(* Keyless signing: POST /key-attestations mints an attestation for a      *)
(* workload token, POST /contexts publishes a body under an attested key,  *)
(* and the registry may withdraw an attestation meanwhile.  One issuer,    *)
(* one controller.                                                         *)
(*                                                                         *)
(* A request is a job; every action is what runs between two awaits.  The  *)
(* SQLite transaction is one step after created_at was read, the Postgres  *)
(* one reads the attestation and commits in two, and the memory backend    *)
(* decides from snapshots under its lock.                                  *)
(***************************************************************************)
EXTENDS IssuerKeys, RateLimit, Sequences

CONSTANTS
    Job,           \* requests in flight
    Kid,           \* key ids the issuer ever publishes
    FirstKid,      \* the one it starts with
    Identity,      \* workload identities
    FirstIdentity, \* the one already attested
    Tokens,        \* token -> [kid, exp, id, flaw]
    Requests,      \* the requests that may arrive
    Backends,      \* the backends to start from
    OrgWide,       \* the identities the controller lists as org-wide
    IpBudget, IdBudget,
    MaxTtl,        \* max_attestation_ttl_seconds
    MaxUsed        \* bound: requests, ticks, rotations and faults together

MintRequest == [op : {"mint"}, token : DOMAIN Tokens, pop : BOOLEAN]

\* `att' is the attestation and `sup' the predecessor or 0; `binds' is
\* whether the key of the body is the attested one.
PublishRequest == [op : {"publish"}, att : Nat, sup : Nat, binds : BOOLEAN]

ASSUME KeylessAssumption ==
    /\ OrgWide \subseteq Identity /\ FirstKid \in Kid /\ FirstIdentity \in Identity
    /\ MaxTtl \in Nat \ {0} /\ MaxUsed \in Nat
    /\ \A t \in DOMAIN Tokens : /\ Tokens[t].kid \in Kid /\ Tokens[t].id \in Identity
                                /\ Tokens[t].exp \in Int
    /\ "earlier" \notin DOMAIN Tokens /\ Free \notin Job
    /\ Requests \subseteq MintRequest \cup PublishRequest

VARIABLES
    backend,       \* "sqlite", "pg" or "memory"
    now,
    published,     \* the keys the issuer publishes
    up,            \* whether the issuer answers
    slot,          \* the cache's slot for it
    doc, docCopy,  \* identities the DID document lists, and the cached copy
    lims,          \* the per-IP and the per-identity limiter
    atts,          \* the key_attestations index, joined to its contexts
    bodies,        \* the other contexts, by either kind of signer
    jobs,
    seen,          \* history: when each key was last published
    fetches,       \* history: per kind of fetch, when the last one that ended
                   \* began, and whether that was too soon after one before
    used

vars == <<backend, now, published, up, slot, doc, docCopy, lims, atts, bodies,
          jobs, seen, fetches, used>>

issuer == <<published, up, seen>>
store == <<atts, bodies>>

Idle == [pc |-> "idle"]

Refuse(j) == jobs' = [jobs EXCEPT ![j] = Idle]

GoTo(j, pc) == jobs' = [jobs EXCEPT ![j].pc = pc]

Use == used < MaxUsed /\ used' = used + 1

(***************************************************************************)
(* Minting.                                                                *)
(***************************************************************************)
\* mint_attestation up to the token: the IP is charged on arrival, the
\* identity's budget only read; a descriptor, issuer or header that is
\* refused is refused before any fetch.
Arrive(j, r) ==
    /\ jobs[j] = Idle /\ r.op = "mint" /\ Use
    /\ \E ip \in {Check(lims.ip, "ip", now, IpBudget)} :
          /\ lims' = [lims EXCEPT !.ip = ip.lim]
          /\ jobs' = [jobs EXCEPT ![j] =
                 IF /\ ip.ok
                    /\ Peek(lims.id, Tokens[r.token].id, now, IdBudget)
                    /\ Tokens[r.token].flaw \notin {"schema", "issuer", "header"}
                 THEN [pc |-> "keys", req |-> r, at |-> now, asof |-> now]
                 ELSE Idle]
    /\ UNCHANGED <<backend, now, issuer, slot, doc, docCopy, store, fetches>>

\* verify after the keys: the kid is looked up, then the signature and the
\* claims; exp is compared with the clock as the request came in.
Verify(j, keys, asof, forced) ==
    LET t == Tokens[jobs[j].req.token] IN
    IF t.kid \notin keys
    THEN /\ jobs' = [jobs EXCEPT ![j] = IF forced THEN Idle ELSE [@ EXCEPT !.pc = "force"]]
         /\ UNCHANGED lims
    ELSE IF t.flaw # "none" \/ t.exp <= jobs[j].at
    THEN Refuse(j) /\ UNCHANGED lims
    ELSE /\ jobs' = [jobs EXCEPT ![j] =
                      [pc |-> "token", req |-> @.req, at |-> @.at, asof |-> asof]]
         /\ lims' = [lims EXCEPT !.id = Record(@, t.id, now)]

\* JwksCache::keys without a fetch, and the checks that follow.
Keys(j) ==
    /\ jobs[j].pc = "keys" /\ slot.holder = Free
    /\ \/ /\ Lookup(slot, now) = "copy"
          /\ Verify(j, slot.copy.keys, now, FALSE)
          /\ UNCHANGED slot
       \/ /\ Lookup(slot, now) = "unreachable"
          /\ Refuse(j) /\ UNCHANGED <<slot, lims>>
       \/ /\ Lookup(slot, now) = "fetch"
          /\ slot' = Hold(slot, j, FALSE, now)
          /\ jobs' = [jobs EXCEPT ![j] =
                       [pc |-> "fetch", req |-> @.req, at |-> @.at, asof |-> now]]
          /\ UNCHANGED lims
    /\ UNCHANGED <<backend, now, issuer, doc, docCopy, store, fetches, used>>

\* refresh_for_unknown_kid, under the lock taken again.
RefreshForUnknownKid(j) ==
    /\ jobs[j].pc = "force" /\ slot.holder = Free
    /\ IF MayForce(slot, now)
       THEN /\ slot' = Hold(slot, j, TRUE, now)
            /\ jobs' = [jobs EXCEPT ![j] =
                         [pc |-> "forcing", req |-> @.req, at |-> @.at, asof |-> now]]
       ELSE Refuse(j) /\ UNCHANGED slot
    /\ UNCHANGED <<backend, now, issuer, doc, docCopy, lims, store, fetches, used>>

\* A fetch ends: the issuer's keys of that moment, or a failure.
FetchEnds(j, maxage) ==
    /\ jobs[j].pc \in {"fetch", "forcing"} /\ slot.holder = j
    /\ LET forced == jobs[j].pc = "forcing"
           started == jobs[j].asof
       IN  /\ fetches' = [fetches EXCEPT ![forced] =
                [last |-> started,
                 close |-> @.close \/ started < @.last + Backoff]]
           /\ IF up
              THEN /\ slot' = Fetched(slot, published, maxage, started)
                   /\ Verify(j, published, started, forced)
              ELSE /\ slot' = Failed(slot, started)
                   /\ IF ~ forced /\ AfterFailure(slot, started) = "copy"
                      THEN Verify(j, slot.copy.keys, started, FALSE)
                      ELSE Refuse(j) /\ UNCHANGED lims
    /\ UNCHANGED <<backend, now, issuer, doc, docCopy, store, used>>

\* The client goes away during a fetch: the guard is dropped, and nothing of
\* the fetch is recorded.
Gone(j) ==
    /\ jobs[j].pc \in {"fetch", "forcing"} /\ slot.holder = j /\ Use
    /\ slot' = [slot EXCEPT !.holder = Free]
    /\ Refuse(j)
    /\ UNCHANGED <<backend, now, issuer, doc, docCopy, lims, store, fetches>>

\* key_attestation_token_seen, then the proof of possession and algorithm.
Token(j) ==
    /\ jobs[j].pc = "token"
    /\ IF \/ \E i \in DOMAIN atts : atts[i].token = jobs[j].req.token
          \/ ~ jobs[j].req.pop
       THEN Refuse(j)
       ELSE jobs' = [jobs EXCEPT ![j] = [pc |-> "listed", req |-> @.req]]
    /\ UNCHANGED <<backend, now, issuer, slot, doc, docCopy, lims, store, fetches, used>>

\* WebResolver::resolve_until: a copy that lists the identity is enough, one
\* that does not is fetched again, unless that is rate-limited or fails.
Listed(j) ==
    LET id == Tokens[jobs[j].req.token].id IN
    /\ jobs[j].pc = "listed"
    /\ \/ id \in docCopy /\ GoTo(j, "mint") /\ UNCHANGED docCopy
       \/ /\ id \notin docCopy /\ docCopy' = doc
          /\ IF id \in doc THEN GoTo(j, "mint") ELSE Refuse(j)
       \/ id \notin docCopy /\ Refuse(j) /\ UNCHANGED docCopy
    /\ UNCHANGED <<backend, now, issuer, slot, doc, lims, store, fetches, used>>

\* Mutant: the window is the requested length, whatever the token says.
AttestationWindow_IgnoresExp(t) == [from |-> now, to |-> now + MaxTtl]

\* window.
AttestationWindow(t) ==
    [from |-> now, to |-> IF Tokens[t].exp < now + MaxTtl THEN Tokens[t].exp
                          ELSE now + MaxTtl]

Opens(w) == w.to > now

\* Step 7.
Mint(j) ==
    /\ jobs[j].pc = "mint"
    /\ \E w \in {AttestationWindow(jobs[j].req.token)} :
          IF ~ Opens(w) THEN Refuse(j)
          ELSE jobs' = [jobs EXCEPT ![j] =
                           [pc |-> "index", req |-> @.req, window |-> w]]
    /\ UNCHANGED <<backend, now, issuer, slot, doc, docCopy, lims, store, fetches, used>>

\* Mutant: only the read before the commit looks for the token.
Replayed_ReadOnly(token) == FALSE

\* index_attestation's ON CONFLICT, and the memory backend's token set.
Replayed(token) == \E i \in DOMAIN atts : atts[i].token = token

\* commit_publish of an attestation: body, receipt, index row together.
Index(j) ==
    LET r == jobs[j].req
        id == Tokens[r.token].id
    IN
    /\ jobs[j].pc = "index"
    /\ Refuse(j)
    /\ atts' = IF Replayed(r.token) THEN atts
               ELSE Append(atts, [token |-> r.token, id |-> id,
                                  org |-> id \in OrgWide,
                                  from |-> jobs[j].window.from,
                                  to |-> jobs[j].window.to, out |-> FALSE])
    /\ UNCHANGED <<backend, now, issuer, slot, doc, docCopy, lims, bodies,
                   fetches, used>>

(***************************************************************************)
(* Publishing under an attested key.                                       *)
(***************************************************************************)
InWindow(a, t) == a.from <= t /\ t < a.to

\* check_keyless_publish, steps 1 to 6 (the window provisionally).
Publish(j, r) ==
    /\ jobs[j] = Idle /\ r.op = "publish" /\ Use
    /\ IF /\ r.att \in DOMAIN atts /\ r.binds
          /\ ~ atts[r.att].out /\ InWindow(atts[r.att], now)
       THEN jobs' = [jobs EXCEPT ![j] = [pc |-> "signer", req |-> r]]
       ELSE UNCHANGED jobs
    /\ UNCHANGED <<backend, now, issuer, slot, doc, docCopy, lims, store, fetches>>

\* Steps 7 and 8 against the cached document, and the proof; then the store
\* reads its clock.
Prove(j) ==
    /\ jobs[j].pc = "signer"
    /\ IF atts[jobs[j].req.att].id \in docCopy
       THEN jobs' = [jobs EXCEPT ![j] = [pc |-> "store", req |-> @.req, at |-> now]]
       ELSE Refuse(j)
    /\ UNCHANGED <<backend, now, issuer, slot, doc, docCopy, lims, store, fetches, used>>

\* may_supersede (the SDK's): the same identity, or an org-wide successor; a
\* body of the controller's own key only by an org-wide one.
MaySupersede(pred, a) ==
    \/ a.org
    \/ pred.att # 0 /\ atts[pred.att].id = a.id

\* The backend's own checks of a supersession.
Superseding(r) ==
    IF r.sup = 0 THEN "ok"
    ELSE IF r.sup \notin DOMAIN bodies THEN "not_found"
    ELSE IF bodies[r.sup].superseded THEN "already_superseded" ELSE "ok"

\* Mutant: the handler's look at the retraction is taken for good.
Admit_HandlerOnly(r) ==
    IF r.att \notin DOMAIN atts THEN "attestation_not_found"
    ELSE IF ~ r.binds THEN "attestation_mismatch" ELSE "ok"

\* admit_successor.
Admit(r) ==
    IF r.att \notin DOMAIN atts THEN "attestation_not_found"
    ELSE IF ~ r.binds THEN "attestation_mismatch"
    ELSE IF atts[r.att].out THEN "attestation_withdrawn" ELSE "ok"

\* supersession_gate's rule.
Supersession(r) ==
    IF r.sup = 0 \/ MaySupersede(bodies[r.sup], atts[r.att]) THEN "ok"
    ELSE "keyless_identity_mismatch"

\* check_window, against the assigned created_at.
CheckWindow(r, at) ==
    IF InWindow(atts[r.att], at) THEN "ok" ELSE "outside_attestation_window"

\* The order every backend refuses in.
Refusal(r, at) ==
    IF Superseding(r) # "ok" THEN Superseding(r)
    ELSE IF Admit(r) # "ok" THEN Admit(r)
    ELSE IF Supersession(r) # "ok" THEN Supersession(r)
    ELSE CheckWindow(r, at)

\* Mutant: what the snapshots refuse is refused at once.
MemoryRefusal_Eager(r, at) ==
    IF Admit(r) # "ok" THEN Admit(r)
    ELSE IF Superseding(r) # "ok" THEN Superseding(r)
    ELSE IF Supersession(r) # "ok" THEN Supersession(r)
    ELSE CheckWindow(r, at)

\* commit_publish of the memory backend: the inner store's checks, the
\* wrapped admission when there is a predecessor, then the wrapped minter.
MemoryRefusal(r, at) ==
    LET admission == IF r.sup = 0 THEN "ok"
                     ELSE IF Admit(r) # "ok" THEN Admit(r) ELSE Supersession(r)
        minter == IF Admit(r) # "ok" THEN Admit(r) ELSE CheckWindow(r, at)
    IN  IF Superseding(r) # "ok" THEN Superseding(r)
        ELSE IF admission # "ok" THEN admission ELSE minter

Answer(r, at) ==
    IF backend = "memory" THEN MemoryRefusal(r, at) ELSE Refusal(r, at)

\* The new row, and its predecessor's status; gone is what was withdrawn as
\* the transaction read it.
Insert(r, at, gone) ==
    LET b == [att |-> r.att, sup |-> r.sup, at |-> at, superseded |-> FALSE,
              gone |-> gone]
    IN  bodies' = Append(IF r.sup = 0 THEN bodies
                         ELSE [bodies EXCEPT ![r.sup].superseded = TRUE], b)

Withdrawn == {i \in DOMAIN atts : atts[i].out}

\* Mutant: the predecessor is read without FOR UPDATE.
RowFree_NoLock(r) == TRUE

\* Postgres holds the predecessor's row from its first read.
RowFree(r) == \A k \in Job : jobs[k].pc = "gated" => (r.sup = 0 \/ jobs[k].req.sup # r.sup)

\* commit_publish: one step, or on Postgres its gates alone.
Store(j) ==
    LET r == jobs[j].req
        at == jobs[j].at
    IN
    /\ jobs[j].pc = "store" /\ RowFree(r)
    /\ IF Answer(r, at) # "ok" THEN Refuse(j) /\ UNCHANGED bodies
       ELSE IF backend = "pg"
       THEN /\ jobs' = [jobs EXCEPT ![j] = [pc |-> "gated", req |-> r, at |-> at,
                                            gone |-> Withdrawn]]
            /\ UNCHANGED bodies
       ELSE Refuse(j) /\ Insert(r, at, Withdrawn)
    /\ UNCHANGED <<backend, now, issuer, slot, doc, docCopy, lims, atts, fetches, used>>

PgCommit(j) ==
    /\ jobs[j].pc = "gated"
    /\ Insert(jobs[j].req, jobs[j].at, jobs[j].gone)
    /\ Refuse(j)
    /\ UNCHANGED <<backend, now, issuer, slot, doc, docCopy, lims, atts, fetches, used>>

(***************************************************************************)
(* The rest of the world.                                                  *)
(***************************************************************************)
\* The registry retracts an attestation; an event of a keyless key never
\* gets that far (refuse_keyless_event).
Withdraw(i) ==
    /\ ~ atts[i].out /\ Use
    /\ atts' = [atts EXCEPT ![i].out = TRUE]
    /\ UNCHANGED <<backend, now, issuer, slot, doc, docCopy, lims, bodies, jobs, fetches>>

\* The issuer rotates its keys, or stops or starts to answer.
Rotate(keys) ==
    /\ keys # published /\ Use
    /\ published' = keys
    /\ seen' = [k \in Kid |-> IF k \in published \cup keys THEN now ELSE seen[k]]
    /\ UNCHANGED <<backend, now, up, slot, doc, docCopy, lims, store, jobs, fetches>>

Outage ==
    /\ Use /\ up' = ~ up
    /\ UNCHANGED <<backend, now, published, slot, doc, docCopy, lims, store, jobs,
                   seen, fetches>>

\* The controller lists other identities; the cached copy follows later.
Relist(ids) ==
    /\ ids # doc /\ Use
    /\ doc' = ids
    /\ UNCHANGED <<backend, now, issuer, slot, docCopy, lims, store, jobs, fetches>>

DocExpires ==
    /\ docCopy # doc /\ docCopy' = doc
    /\ UNCHANGED <<backend, now, issuer, slot, doc, lims, store, jobs, fetches, used>>

Tick ==
    /\ Use /\ now' = now + 1
    /\ seen' = [k \in Kid |-> IF k \in published THEN now + 1 ELSE seen[k]]
    /\ UNCHANGED <<backend, published, up, slot, doc, docCopy, lims, store, jobs, fetches>>

FirstBody(att) ==
    [att |-> att, sup |-> 0, at |-> 0, superseded |-> FALSE, gone |-> {}]

\* A key attestation was minted just now, by a process before this one or by
\* this one, whose copy of the keys is what the issuer published before it
\* rotated them.  There are two bodies: the controller's own and an attested one.
Init ==
    /\ backend \in Backends /\ now = 0 /\ up = TRUE
    /\ doc = Identity /\ docCopy = Identity
    /\ \/ slot = NewSlot /\ published = {FirstKid}
       \/ /\ slot = Fetched(NewSlot, {FirstKid}, FALSE, 0)
          /\ published \in {{k} : k \in Kid \ {FirstKid}}
    /\ lims = [ip |-> NewLimiter({"ip"}), id |-> NewLimiter(Identity)]
    /\ atts = <<[token |-> "earlier", id |-> FirstIdentity,
                 org |-> FirstIdentity \in OrgWide, from |-> 0, to |-> MaxTtl,
                 out |-> FALSE]>>
    /\ bodies = <<FirstBody(0), FirstBody(1)>>
    /\ jobs = [j \in Job |-> Idle]
    /\ seen = [k \in Kid |-> IF k \in published \cup {FirstKid} THEN 0 ELSE -9]
    /\ fetches = [forced \in BOOLEAN |-> [last |-> -Backoff, close |-> FALSE]]
    /\ used = 0

Step(j) ==
    \/ Keys(j) \/ RefreshForUnknownKid(j) \/ \E maxage \in BOOLEAN : FetchEnds(j, maxage)
    \/ Token(j) \/ Listed(j) \/ Mint(j) \/ Index(j)
    \/ Prove(j) \/ Store(j) \/ PgCommit(j)

Next ==
    \/ \E j \in Job : Step(j) \/ Gone(j)
    \/ \E j \in Job, r \in Requests : Arrive(j, r) \/ Publish(j, r)
    \/ \E i \in DOMAIN atts : Withdraw(i)
    \/ \E k \in Kid : Rotate({k})
    \/ \E ids \in SUBSET Identity : Relist(ids)
    \/ Outage \/ DocExpires \/ Tick

Spec == Init /\ [][Next]_vars /\ \A j \in Job : WF_vars(Step(j))

(***************************************************************************)
(* Properties.                                                             *)
(***************************************************************************)
\* A token mints one attestation, however many requests carry it at once:
\* the read before the mint cannot decide that.
OneMintPerToken ==
    \A i, k \in DOMAIN atts : atts[i].token = atts[k].token => i = k

\* No attestation outlives its token, and no body is dated outside the
\* window of its attestation, though both clocks are read well before the
\* commit and the token's expiry was judged by an earlier one.
InsideWindow ==
    /\ \A i \in DOMAIN atts :
          atts[i].token \in DOMAIN Tokens => atts[i].to <= Tokens[atts[i].token].exp
    /\ \A i \in DOMAIN bodies :
          bodies[i].att # 0 => InWindow(atts[bodies[i].att], bodies[i].at)

\* A withdrawal that committed before a publish's transaction read the
\* attestation stops that publish, whatever the handler saw earlier.
WithdrawnStaysWithdrawn ==
    \A i \in DOMAIN bodies : bodies[i].att \notin bodies[i].gone

\* Along a lineage a keyless body follows one of the same identity, or is
\* org-wide; a body has one successor at most.
LineageKeepsSigner ==
    \A i \in DOMAIN bodies : bodies[i].sup # 0 =>
        /\ MaySupersede(bodies[bodies[i].sup], atts[bodies[i].att])
        /\ \A k \in DOMAIN bodies : bodies[k].sup = bodies[i].sup => i = k

\* A token is accepted under a key the issuer published within the cache's
\* TTL and stale window of the lookup: a key it has dropped is not good for
\* longer, whatever fails.
KeysNotTooOld ==
    \A j \in Job : jobs[j].pc = "token" =>
        seen[Tokens[jobs[j].req.token].kid] > jobs[j].asof - (Ttl + MaxStale)

\* Of the fetches that run to their end, two for a copy that ran out begin a
\* backoff window apart, and so do two for a kid nobody knows, in an outage as
\* well (of a fetch whose client leaves nothing is remembered).
IssuerNotHammered == \A forced \in BOOLEAN : ~ fetches[forced].close

\* The memory backend, which cannot look anything up while it commits,
\* refuses every keyless publish with the reason the SQL backends give.
RefusalsAgree ==
    \A r \in Requests : r.op = "publish" =>
        MemoryRefusal(r, now) = Refusal(r, now)

\* Every request ends: no fetch that fails, and no client that leaves during
\* one, leaves the others waiting for the slot.
EveryRequestEnds == \A j \in Job : []<>(jobs[j] = Idle)

\* Everything stored under an attestation is covered by it: one attestation
\* for a token, bodies inside its window and not after its withdrawal, and a
\* lineage in the hands of its signer.
BodiesAreAttested ==
    OneMintPerToken /\ InsideWindow /\ WithdrawnStaysWithdrawn /\ LineageKeepsSigner

\* The key cache: never older than it may be, and never a burden to the
\* issuer.
KeyCacheBounded == KeysNotTooOld /\ IssuerNotHammered
=============================================================================
