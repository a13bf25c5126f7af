---------------------------- MODULE LogService ----------------------------
(***************************************************************************)
(* Serving the transparency log: GET /log/checkpoint, /log/proof and       *)
(* /log/entries, the head-root cache they share, and the pollers that      *)
(* collect witness cosignatures.                                           *)
(*                                                                         *)
(* Every handler makes several store queries, one after the other, without *)
(* a snapshot; publishes (RegistryStore!Publish) append leaves in between. *)
(* The hash of a tree is modelled by the leaves it is computed from: two   *)
(* trees have one root exactly when they have the same leaves.             *)
(***************************************************************************)
EXTENDS Integers, Sequences, FiniteSets

CONSTANTS
    Ctx,        \* the contexts whose publishes are logged
    Readable,   \* those the requesters may retrieve
    Client,     \* requests that can be in progress at once
    Witness,    \* configured witnesses, one poller each
    Ops,        \* the kinds of request made
    PageCap,    \* LOG_ENTRIES_PAGE_CAP
    None        \* no value: an absent parameter, an empty cache

ASSUME LogServiceAssumption ==
    /\ PageCap \in Nat \ {0} /\ None \notin Ctx \cup Nat /\ IsFiniteSet(Ctx)
    /\ Readable \subseteq Ctx

VARIABLES
    leaves,     \* table log_leaves, by leaf_index + 1
    cache,      \* LogState::root_cache: [size, root] or None
    cosigs,     \* table log_witness_cosignatures
    req,        \* the request each client has in progress
    poll        \* the cosignature each witness's poller is verifying

vars == <<leaves, cache, cosigs, req, poll>>

MaxLeaves == Cardinality(Ctx)

Size == 0 .. MaxLeaves

\* What is asked for.  Of the malformed queries only those stay that the
\* handler cannot tell from the parameters alone.
Query ==
    [op : Ops \cap {"checkpoint"}]
    \cup [op : Ops \cap {"by_ctx"}, ctx : Ctx, size : Size \cup {None}]
    \cup [op : Ops \cap {"by_index"}, index : Size, size : Size \cup {None}]
    \cup [op : Ops \cap {"consistency"}, first : Size, second : Size]
    \cup [op : Ops \cap {"entries"}, start : Size, end : Size]

Idle == [at |-> "idle"]

\* The root hash of the tree of the first n leaves.
Root(n) == SubSeq(leaves, 1, n)

\* RegistryStore!WithLeaf: a publish commits.
AppendLeaf(c) ==
    /\ \A i \in DOMAIN leaves : leaves[i] # c
    /\ leaves' = Append(leaves, c)
    /\ UNCHANGED <<cache, cosigs, req, poll>>

(***************************************************************************)
(* The head-root cache.                                                    *)
(***************************************************************************)
\* cached_root.
CachedRoot(n) == IF cache # None /\ cache.size = n THEN cache.root ELSE None

\* cache_root: only the newest size is kept.
WithRoot(n, root) ==
    IF cache # None /\ cache.size > n THEN cache ELSE [size |-> n, root |-> root]

(***************************************************************************)
(* A request.  `at' is what it does next; `current' is the tree size it    *)
(* read first, `size' the size of the tree it answers about, `index' the   *)
(* position of the leaf it proves, `root' the root it computed.            *)
(***************************************************************************)
Goto(k, r) == req' = [req EXCEPT ![k] = r]

\* The handler is over with this answer.
Answer(k, a) == Goto(k, [at |-> "done", answer |-> a])

\* log_tree_size is the first query of every handler; consistency and entries
\* check their ranges against it.  A checkpoint whose root is cached needs no
\* hashes.
ReadSize(k, q) ==
    /\ req[k].at = "idle"
    /\ LET n == Len(leaves)
           r == [at |-> "hashes", query |-> q, current |-> n, size |-> n,
                 index |-> None, root |-> None]
       IN  \/ /\ q.op = "checkpoint"
              /\ Goto(k, IF CachedRoot(n) = None THEN r
                         ELSE [r EXCEPT !.at = "serve", !.root = CachedRoot(n)])
           \/ q.op \in {"by_ctx", "by_index"} /\ Goto(k, [r EXCEPT !.at = "record"])
           \/ /\ q.op = "consistency"
              /\ Goto(k, IF 0 < q.first /\ q.first <= q.second /\ q.second <= n
                         THEN [r EXCEPT !.size = q.second]
                         ELSE [at |-> "done", answer |-> "schema_violation"])
           \/ /\ q.op = "entries"
              /\ Goto(k, IF q.start < q.end /\ q.end <= n
                         THEN [r EXCEPT !.at = "entries"]
                         ELSE [at |-> "done", answer |-> "schema_violation"])
    /\ UNCHANGED <<leaves, cache, cosigs, poll>>

\* requester_can_retrieve.
CanRetrieve(c) == c \in Readable

\* log_leaf_by_ctx and log_leaf_by_index, whose leaf_index counts from zero:
\* the positions they find, at most one.
LeafByCtx(c) == {i \in DOMAIN leaves : leaves[i] = c}

\* Mutant: an index is counted from one.
LeafByIndex_OneBased(n) == {n} \cap DOMAIN leaves

LeafByIndex(n) == {n + 1} \cap DOMAIN leaves

\* log_entries of the store: start <= leaf_index < end.
EntriesBetween(start, end) == SubSeq(leaves, start + 1, end)

\* The record a request is about.  A context the requester may not retrieve
\* is as absent as one that is not logged; positions are public.
RecordsOf(q) ==
    IF q.op = "by_index" THEN LeafByIndex(q.index)
    ELSE IF CanRetrieve(q.ctx) THEN LeafByCtx(q.ctx) ELSE {}

\* leaf_index < tree_size <= current.
SizeInRange(i, n, current) == i - 1 < n /\ n <= current

\* log_leaf_by_ctx, log_leaf_by_index and the check of the asked tree_size.
ReadRecord(k) ==
    LET r == req[k]
        q == r.query
    IN  /\ r.at = "record"
        /\ \/ /\ RecordsOf(q) = {}
              /\ Answer(k, IF q.op = "by_ctx" THEN "not_found"
                           ELSE "schema_violation")
           \/ \E i \in RecordsOf(q) :
                 IF q.size = None
                 THEN Goto(k, [r EXCEPT !.at = "hashes", !.index = i])
                 ELSE IF SizeInRange(i, q.size, r.current)
                 THEN Goto(k, [r EXCEPT !.at = "hashes", !.index = i,
                                        !.size = q.size])
                 ELSE Answer(k, "schema_violation")
        /\ UNCHANGED <<leaves, cache, cosigs, poll>>

\* log_leaf_hashes, then inclusion_path: no path to a leaf outside the tree.
ReadHashes(k) ==
    LET r == req[k]
    IN  /\ r.at = "hashes"
        /\ IF r.index # None /\ r.index > r.size
           THEN Answer(k, "internal")
           ELSE Goto(k, [r EXCEPT !.at = "root", !.root = Root(r.size)])
        /\ UNCHANGED <<leaves, cache, cosigs, poll>>

\* Mutant: the root is recorded under the size read first.
CacheAfter_Current(r, root) == WithRoot(r.current, root)

\* root_for caches the root of the tree that was the head when it looked.
CacheAfter(r, root) ==
    IF r.size = r.current THEN WithRoot(r.size, root) ELSE cache

\* root_for: the cached root if there is one, else the one of the hashes.
ComputeRoot(k) ==
    LET r == req[k]
        cached == CachedRoot(r.size)
    IN  /\ r.at = "root"
        /\ IF cached # None
           THEN /\ Goto(k, [r EXCEPT !.at = "serve", !.root = cached])
                /\ UNCHANGED cache
           ELSE /\ Goto(k, [r EXCEPT !.at = "serve"])
                /\ cache' = CacheAfter(r, r.root)
        /\ UNCHANGED <<leaves, cosigs, poll>>

\* witness_cosignatures_for: by the exact tuple served.
CosignaturesFor(n, root) == {x \in cosigs : x.size = n /\ x.root = root}

\* mint_checkpoint and the answer.  Everything but entries carries a signed
\* checkpoint and its cosignatures.
Serve(k) ==
    LET r == req[k]
    IN  /\ r.at = "serve"
        /\ Goto(k, [at |-> "done", answer |-> "ok", query |-> r.query,
                    size |-> r.size, root |-> r.root, index |-> r.index,
                    cosigned |-> CosignaturesFor(r.size, r.root)])
        /\ UNCHANGED <<leaves, cache, cosigs, poll>>

\* log_entries: a page of at most PageCap leaf hashes; `named' are the
\* entries whose leaf is shown too.
ReadEntries(k) ==
    LET r == req[k]
        q == r.query
        last == IF q.end < q.start + PageCap THEN q.end ELSE q.start + PageCap
    IN  /\ r.at = "entries"
        /\ Goto(k, [at |-> "done", answer |-> "page", query |-> q,
                    page |-> EntriesBetween(q.start, last),
                    named |-> {leaves[i] : i \in
                                  {j \in q.start + 1 .. last :
                                      CanRetrieve(leaves[j])}}])
        /\ UNCHANGED <<leaves, cache, cosigs, poll>>

\* The connection is free for the next request.
Finish(k) ==
    /\ req[k].at = "done"
    /\ Goto(k, Idle)
    /\ UNCHANGED <<leaves, cache, cosigs, poll>>

(***************************************************************************)
(* Witness cosignatures.                                                   *)
(***************************************************************************)
\* External: what a witness may claim to have seen at a size: the registry's
\* own tree, or another one.
Claims ==
    {[size |-> n, root |-> Root(n)] : n \in 0 .. Len(leaves)}
    \cup {[size |-> n, root |-> <<None>>] : n \in Size}

\* poll_witness_once fetches a cosignature; reconstruct_checkpoint looks at
\* the tree size first and refuses a size past the head.
Fetch(w, claim) ==
    /\ poll[w] = None
    /\ claim.size <= Len(leaves)
    /\ poll' = [poll EXCEPT ![w] = claim]
    /\ UNCHANGED <<leaves, cache, cosigs, req>>

\* Mutant: the claimed root is not compared.
Vouched_Unchecked(claim) == TRUE

\* The registry's own root at that size is the one the witness signed.
Vouched(claim) == claim.root = Root(claim.size)

\* upsert_witness_cosignature: one row for a witness, a size and a root.
WithCosignature(w, claim) ==
    cosigs \cup {[witness |-> w, size |-> claim.size, root |-> claim.root]}

\* verify_and_store_resolved: upsert when verified, else drop.
VerifyAndStore(w) ==
    /\ poll[w] # None
    /\ cosigs' = IF Vouched(poll[w])
                 THEN WithCosignature(w, poll[w])
                 ELSE cosigs
    /\ poll' = [poll EXCEPT ![w] = None]
    /\ UNCHANGED <<leaves, cache, req>>

Init ==
    /\ leaves = << >>
    /\ cache = None
    /\ cosigs = {}
    /\ req = [k \in Client |-> Idle]
    /\ poll = [w \in Witness |-> None]

\* The queries of a request after the first.
Handler(k) ==
    \/ ReadRecord(k) \/ ReadHashes(k) \/ ComputeRoot(k) \/ Serve(k)
    \/ ReadEntries(k)

Next ==
    \/ \E c \in Ctx : AppendLeaf(c)
    \/ \E k \in Client : (\E q \in Query : ReadSize(k, q)) \/ Handler(k) \/ Finish(k)
    \/ \E w \in Witness : (\E x \in Claims : Fetch(w, x)) \/ VerifyAndStore(w)

Spec == Init /\ [][Next]_vars

(***************************************************************************)
(* Properties.                                                             *)
(***************************************************************************)
Answered(k) == req[k].at = "done" /\ req[k].answer = "ok"

\* No two signed checkpoints are ever inconsistent: whatever handlers race
\* for the cache, each checkpoint is the tree of the log's own first leaves,
\* the cached root is the root of the size it is cached under, and every page
\* of entries is a nonempty piece of the same log, so a caller who continues
\* after it gets to the end.
CheckpointsConsistent ==
    /\ \A k \in Client : Answered(k) =>
          req[k].size <= Len(leaves) /\ req[k].root = Root(req[k].size)
    /\ cache # None => cache.size <= Len(leaves) /\ cache.root = Root(cache.size)
    /\ \A k \in Client : req[k].at = "done" /\ req[k].answer = "page" =>
          /\ req[k].page # << >>
          /\ \A i \in DOMAIN req[k].page :
                leaves[req[k].query.start + i] = req[k].page[i]

\* Every proof is about the checkpoint it comes with: the proved leaf is in
\* the tree, and the first tree of a consistency proof is part of the second.
ProofsVerify ==
    \A k \in Client :
        Answered(k) =>
            LET a == req[k]
                root == a.root
            IN  /\ a.query.op \in {"by_ctx", "by_index"} =>
                      /\ a.index \in DOMAIN root
                      /\ a.query.op = "by_ctx" => root[a.index] = a.query.ctx
                      /\ a.query.op = "by_index" => a.index = a.query.index + 1
                /\ a.query.op = "consistency" =>
                      /\ Len(root) = a.query.second
                      /\ a.query.first \in 1 .. Len(root)

\* Served cosignatures are of the root they are served with, and none is
\* stored for a tree that is not the registry's own.
CosignaturesMatch ==
    /\ \A x \in cosigs : x.size <= Len(leaves) /\ x.root = Root(x.size)
    /\ \A k \in Client :
          Answered(k) => \A x \in req[k].cosigned :
              x.root = req[k].root /\ x.size = req[k].size
=============================================================================
