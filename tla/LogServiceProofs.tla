------------------------- MODULE LogServiceProofs -------------------------
(***************************************************************************)
(* Proofs about LogService: whatever requests, publishes and witness       *)
(* pollers interleave, what is signed and served is the registry's own log.*)
(*                                                                         *)
(* The log only grows, so a root computed of its first n leaves stays the  *)
(* root of its first n leaves (PrefixStays); that is all that makes it     *)
(* safe to go on, after an await, with a size read before it.  The         *)
(* inductive invariant LInv therefore says, of every request in progress,  *)
(* that the sizes it holds are within the log (WorkOK), that the leaf it   *)
(* found is where it found it (Located), and that from "root" on the root  *)
(* it holds is the one of the size it holds.                               *)
(***************************************************************************)
EXTENDS LogService, FiniteSetTheorems, TLAPS

(***************************************************************************)
(* The inductive invariant.                                                *)
(***************************************************************************)
Prefix(ls, n) == SubSeq(ls, 1, n)

AboutLeaf(q) == q.op \in {"by_ctx", "by_index"}

\* The leaf the request found, at position i of the log.
Located(q, i, ls) ==
    AboutLeaf(q) =>
        /\ i \in 1 .. Len(ls)
        /\ q.op = "by_ctx" => ls[i] = q.ctx
        /\ q.op = "by_index" => i = q.index + 1

InRange(q, n) ==
    q.op = "consistency" => n = q.second /\ q.first \in 1 .. q.second

Work ==
    [at : {"record", "hashes", "root", "serve", "entries"}, query : Query,
     current : Nat, size : Nat, index : Nat \cup {None},
     root : Seq(Ctx) \cup {None}]

WorkOK(r, ls) ==
    /\ r.size <= r.current /\ r.current <= Len(ls)
    /\ r.at = "record" => AboutLeaf(r.query) /\ r.size = r.current
    /\ r.at = "entries" =>
          /\ r.query.op = "entries"
          /\ r.query.start < r.query.end /\ r.query.end <= r.current
    /\ r.at \in {"hashes", "root", "serve"} =>
          /\ r.query.op # "entries"
          /\ Located(r.query, r.index, ls) /\ InRange(r.query, r.size)
    /\ r.at \in {"root", "serve"} =>
          /\ r.root = Prefix(ls, r.size)
          /\ AboutLeaf(r.query) => r.index <= r.size

AnswerOK(a, ls) ==
    /\ a.size \in 0 .. Len(ls) /\ a.root = Prefix(ls, a.size)
    /\ a.query \in Query /\ a.query.op # "entries"
    /\ Located(a.query, a.index, ls) /\ InRange(a.query, a.size)
    /\ AboutLeaf(a.query) => a.index <= a.size
    /\ \A x \in a.cosigned : x.root = a.root /\ x.size = a.size

PageOK(a, ls) ==
    /\ a.page # << >>
    /\ \A i \in DOMAIN a.page :
          /\ a.query.start + i \in 1 .. Len(ls)
          /\ ls[a.query.start + i] = a.page[i]

ReqOK(r, ls) ==
    \/ r.at = "idle"
    \/ r \in Work /\ WorkOK(r, ls)
    \/ /\ r.at = "done"
       /\ r.answer = "ok" => AnswerOK(r, ls)
       /\ r.answer = "page" => PageOK(r, ls)

\* A tree of the log: the first n of its leaves.
TreeOK(x, ls) == x.size \in 0 .. Len(ls) /\ x.root = Prefix(ls, x.size)

CacheType == [size : Nat, root : Seq(Ctx)]

ClaimType == [size : Nat, root : Seq(Ctx \cup {None})]

LInv ==
    /\ leaves \in Seq(Ctx)
    /\ cache # None => cache \in CacheType /\ TreeOK(cache, leaves)
    /\ \A x \in cosigs : TreeOK(x, leaves)
    /\ req = [k \in Client |-> req[k]]
    /\ \A k \in Client : ReqOK(req[k], leaves)
    /\ poll \in [Witness -> ClaimType \cup {None}]
    /\ \A w \in Witness : poll[w] # None => poll[w].size <= Len(leaves)

(***************************************************************************)
(* Prefixes of the log.                                                    *)
(***************************************************************************)
\* A prefix of a sequence.
LEMMA PrefixIs ==
    ASSUME NEW ls \in Seq(Ctx), NEW n \in 0 .. Len(ls)
    PROVE  /\ Prefix(ls, n) \in Seq(Ctx) /\ Len(Prefix(ls, n)) = n
           /\ DOMAIN Prefix(ls, n) = 1 .. n
           /\ \A i \in 1 .. n : Prefix(ls, n)[i] = ls[i]
BY DEF Prefix

\* A piece of a sequence.
LEMMA PieceIs ==
    ASSUME NEW ls \in Seq(Ctx), NEW m \in Nat, NEW n \in Nat,
           m < n, n <= Len(ls)
    PROVE  /\ SubSeq(ls, m + 1, n) \in Seq(Ctx)
           /\ Len(SubSeq(ls, m + 1, n)) = n - m
           /\ \A i \in 1 .. n - m : SubSeq(ls, m + 1, n)[i] = ls[m + i]
PROOF
<1> DEFINE f == [i \in 1 .. n - m |-> ls[m + i]]
<1>1. SubSeq(ls, m + 1, n) = [i \in 1 .. (1 + n) - (m + 1) |-> ls[i + (m + 1) - 1]]
  OBVIOUS
<1>2. /\ (1 + n) - (m + 1) = n - m
      /\ \A i \in 1 .. n - m : i + (m + 1) - 1 = m + i
  OBVIOUS
<1>3. SubSeq(ls, m + 1, n) = f
  BY <1>1, <1>2
<1>4. /\ n - m \in Nat
      /\ \A i \in 1 .. n - m : m + i \in 1 .. Len(ls) /\ ls[m + i] \in Ctx
  OBVIOUS
<1>5. f \in Seq(Ctx) /\ Len(f) = n - m
  BY <1>4
<1> QED BY <1>3, <1>5

\* A publish leaves every prefix of the log what it was.
LEMMA PrefixStays ==
    ASSUME NEW ls \in Seq(Ctx), NEW c \in Ctx
    PROVE  /\ Append(ls, c) \in Seq(Ctx) /\ Len(Append(ls, c)) = Len(ls) + 1
           /\ \A i \in 1 .. Len(ls) : Append(ls, c)[i] = ls[i]
           /\ \A n \in 0 .. Len(ls) : Prefix(Append(ls, c), n) = Prefix(ls, n)
BY DEF Prefix

\* The parameters of a query, by what it asks for.
LEMMA QueryTypes ==
    ASSUME NEW q \in Query
    PROVE  /\ q.op \in {"checkpoint", "by_ctx", "by_index", "consistency",
                        "entries"}
           /\ q.op = "by_ctx" => q.ctx \in Ctx
           /\ AboutLeaf(q) => q.size \in Nat \cup {None}
           /\ q.op = "by_index" => q.index \in Nat
           /\ q.op = "consistency" => q.first \in Nat /\ q.second \in Nat
           /\ q.op = "entries" => q.start \in Nat /\ q.end \in Nat
PROOF
<1>1. Size \subseteq Nat
  BY LogServiceAssumption, FS_CardinalityType DEF Size, MaxLeaves
<1>2. CASE q \in [op : Ops \cap {"checkpoint"}]
  BY <1>2 DEF AboutLeaf
<1>3. CASE q \in [op : Ops \cap {"by_ctx"}, ctx : Ctx, size : Size \cup {None}]
  BY <1>1, <1>3 DEF AboutLeaf
<1>4. CASE q \in [op : Ops \cap {"by_index"}, index : Size,
                  size : Size \cup {None}]
  BY <1>1, <1>4 DEF AboutLeaf
<1>5. CASE q \in [op : Ops \cap {"consistency"}, first : Size, second : Size]
  BY <1>1, <1>5 DEF AboutLeaf
<1>6. CASE q \in [op : Ops \cap {"entries"}, start : Size, end : Size]
  BY <1>1, <1>6 DEF AboutLeaf
<1> QED BY <1>2, <1>3, <1>4, <1>5, <1>6 DEF Query

\* A request's invariant outlives a publish.
LEMMA ReqStays ==
    ASSUME NEW ls \in Seq(Ctx), NEW c \in Ctx, NEW r, ReqOK(r, ls)
    PROVE  ReqOK(r, Append(ls, c))
PROOF
<1> DEFINE ms == Append(ls, c)
<1>1. /\ ms \in Seq(Ctx) /\ Len(ms) = Len(ls) + 1 /\ Len(ls) \in Nat
      /\ \A i \in 1 .. Len(ls) : ms[i] = ls[i]
      /\ \A n \in 0 .. Len(ls) : Prefix(ms, n) = Prefix(ls, n)
  BY PrefixStays
<1> HIDE DEF ms
<1>2. \A q, i : Located(q, i, ls) => Located(q, i, ms)
  BY <1>1 DEF Located
<1>3. CASE r.at = "idle"
  BY <1>3 DEF ReqOK
<1>4. CASE r \in Work /\ WorkOK(r, ls)
  <2>1. r.size \in Nat /\ r.current \in Nat
    BY <1>4 DEF Work
  <2>2. r.size \in 0 .. Len(ls) /\ r.current <= Len(ms)
    BY <1>1, <1>4, <2>1 DEF WorkOK
  <2>3. WorkOK(r, ms)
    BY <1>1, <1>2, <1>4, <2>2 DEF WorkOK
  <2> QED BY <1>4, <2>3 DEF ReqOK, ms
<1>5. CASE /\ r.at = "done"
           /\ r.answer = "ok" => AnswerOK(r, ls)
           /\ r.answer = "page" => PageOK(r, ls)
  <2>1. AnswerOK(r, ls) => AnswerOK(r, ms)
    BY <1>1, <1>2 DEF AnswerOK
  <2>2. PageOK(r, ls) => PageOK(r, ms)
    BY <1>1 DEF PageOK
  <2> QED BY <1>5, <2>1, <2>2 DEF ReqOK, ms
<1> QED BY <1>3, <1>4, <1>5 DEF ReqOK

(***************************************************************************)
(* The steps.                                                              *)
(***************************************************************************)
\* A step of one request that leaves the log alone: the invariant is kept
\* when the request's own is.
LEMMA OneRequest ==
    ASSUME LInv, NEW k \in Client, NEW r, Goto(k, r), ReqOK(r, leaves),
           UNCHANGED <<leaves, cache, cosigs, poll>>
    PROVE  LInv'
PROOF
<1>1. /\ req' = [j \in Client |-> req'[j]]
      /\ \A j \in Client : req'[j] = IF j = k THEN r ELSE req[j]
  BY DEF LInv, Goto
<1>2. \A j \in Client : ReqOK(req'[j], leaves')
  BY <1>1 DEF LInv
<1> QED BY <1>1, <1>2 DEF LInv

\* A request that is refused promises nothing.
LEMMA Refusals ==
    ASSUME NEW a, a \notin {"ok", "page"}, NEW ls
    PROVE  ReqOK([at |-> "done", answer |-> a], ls)
BY DEF ReqOK

\* The first query of a request.
LEMMA ReadSizeStep ==
    ASSUME LInv, NEW k \in Client, NEW q \in Query, ReadSize(k, q)
    PROVE  LInv'
PROOF
<1> DEFINE n == Len(leaves)
           r == [at |-> "hashes", query |-> q, current |-> n, size |-> n,
                 index |-> None, root |-> None]
<1>1. leaves \in Seq(Ctx) /\ n \in Nat
  BY DEF LInv
<1>2. /\ UNCHANGED <<leaves, cache, cosigs, poll>>
      /\ \/ /\ q.op = "checkpoint"
            /\ Goto(k, IF CachedRoot(n) = None THEN r
                       ELSE [r EXCEPT !.at = "serve", !.root = CachedRoot(n)])
         \/ q.op \in {"by_ctx", "by_index"} /\ Goto(k, [r EXCEPT !.at = "record"])
         \/ /\ q.op = "consistency"
            /\ Goto(k, IF 0 < q.first /\ q.first <= q.second /\ q.second <= n
                       THEN [r EXCEPT !.size = q.second]
                       ELSE [at |-> "done", answer |-> "schema_violation"])
         \/ /\ q.op = "entries"
            /\ Goto(k, IF q.start < q.end /\ q.end <= n
                       THEN [r EXCEPT !.at = "entries"]
                       ELSE [at |-> "done", answer |-> "schema_violation"])
  BY DEF ReadSize
<1>3. ReqOK([at |-> "done", answer |-> "schema_violation"], leaves)
  BY Refusals
<1>4. CASE q.op = "checkpoint"
  <2>1. ReqOK(r, leaves)
    BY <1>1, <1>4 DEF ReqOK, Work, WorkOK, Located, InRange, AboutLeaf
  <2>2. ASSUME CachedRoot(n) # None
        PROVE  ReqOK([r EXCEPT !.at = "serve", !.root = CachedRoot(n)], leaves)
    <3>1. CachedRoot(n) = Prefix(leaves, n) /\ CachedRoot(n) \in Seq(Ctx)
      BY <2>2 DEF CachedRoot, LInv, TreeOK, CacheType
    <3>2. /\ r \in Work /\ r.query = q /\ r.size = n /\ r.current = n
      BY <1>1 DEF Work
    <3> HIDE DEF r
    <3> DEFINE u == [r EXCEPT !.at = "serve", !.root = CachedRoot(n)]
    <3>3. /\ u \in Work /\ u.at = "serve" /\ u.query = q /\ u.size = n
          /\ u.current = n /\ u.root = Prefix(leaves, n)
      BY <3>1, <3>2 DEF Work
    <3> HIDE DEF u
    <3>4. WorkOK(u, leaves)
      BY <1>1, <1>4, <3>3 DEF WorkOK, Located, InRange, AboutLeaf
    <3> QED BY <3>3, <3>4 DEF ReqOK, u
  <2> HIDE DEF r
  <2> QED BY <1>2, <1>4, <2>1, <2>2, OneRequest
<1>5. CASE q.op \in {"by_ctx", "by_index"}
  <2>1. ReqOK([r EXCEPT !.at = "record"], leaves)
    BY <1>1, <1>5 DEF ReqOK, Work, WorkOK, AboutLeaf
  <2> HIDE DEF r
  <2> QED BY <1>2, <1>5, <2>1, OneRequest
<1>6. CASE q.op = "consistency"
  <2>1. q.first \in Nat /\ q.second \in Nat
    BY <1>6, QueryTypes
  <2>2. ASSUME 0 < q.first, q.first <= q.second, q.second <= n
        PROVE  ReqOK([r EXCEPT !.size = q.second], leaves)
    BY <1>1, <1>6, <2>1, <2>2
       DEF ReqOK, Work, WorkOK, Located, InRange, AboutLeaf
  <2> HIDE DEF r
  <2> QED BY <1>2, <1>3, <1>6, <2>2, OneRequest
<1>7. CASE q.op = "entries"
  <2>1. ASSUME q.start < q.end, q.end <= n
        PROVE  ReqOK([r EXCEPT !.at = "entries"], leaves)
    BY <1>1, <1>7, <2>1 DEF ReqOK, Work, WorkOK
  <2> HIDE DEF r
  <2> QED BY <1>2, <1>3, <1>7, <2>1, OneRequest
<1> QED BY <1>4, <1>5, <1>6, <1>7, QueryTypes

\* A request that is neither idle nor done is at work.
LEMMA AtWork ==
    ASSUME LInv, NEW k \in Client,
           req[k].at \in {"record", "hashes", "root", "serve", "entries"}
    PROVE  req[k] \in Work /\ WorkOK(req[k], leaves)
BY DEF LInv, ReqOK

\* The leaf is looked up, some time after the size was read.
LEMMA ReadRecordStep ==
    ASSUME LInv, NEW k \in Client, ReadRecord(k)
    PROVE  LInv'
PROOF
<1> DEFINE r == req[k]
           q == r.query
<1>1. /\ r \in Work /\ WorkOK(r, leaves) /\ r.at = "record"
      /\ UNCHANGED <<leaves, cache, cosigs, poll>>
  BY AtWork DEF ReadRecord
<1>2. /\ q \in Query /\ AboutLeaf(q) /\ r.size = r.current
      /\ r.current \in Nat /\ r.current <= Len(leaves)
      /\ q.op # "entries" /\ q.op # "consistency"
      /\ q.size \in Nat \cup {None} /\ leaves \in Seq(Ctx)
  BY <1>1, QueryTypes DEF Work, WorkOK, AboutLeaf, LInv
<1>3. \A a : a \in {"not_found", "schema_violation"} =>
         ReqOK([at |-> "done", answer |-> a], leaves)
  BY Refusals
<1>4. CASE RecordsOf(q) = {}
  <2>1. PICK a \in {"not_found", "schema_violation"} : Answer(k, a)
    BY <1>4 DEF ReadRecord
  <2> QED BY <1>1, <1>3, <2>1, OneRequest DEF Answer
<1>5. ASSUME NEW i \in RecordsOf(q),
             IF q.size = None
             THEN Goto(k, [r EXCEPT !.at = "hashes", !.index = i])
             ELSE IF SizeInRange(i, q.size, r.current)
             THEN Goto(k, [r EXCEPT !.at = "hashes", !.index = i,
                                    !.size = q.size])
             ELSE Answer(k, "schema_violation")
      PROVE  LInv'
  <2>1. i \in Nat /\ Located(q, i, leaves)
    BY <1>2, <1>5, QueryTypes
       DEF RecordsOf, LeafByIndex, LeafByCtx, Located, AboutLeaf
  <2>2. ReqOK([r EXCEPT !.at = "hashes", !.index = i], leaves)
    <3> DEFINE u == [r EXCEPT !.at = "hashes", !.index = i]
    <3>1. /\ u \in Work /\ u.at = "hashes" /\ u.query = q /\ u.index = i
          /\ u.size = r.size /\ u.current = r.current
      BY <1>1, <2>1 DEF Work
    <3> HIDE DEF u
    <3>2. WorkOK(u, leaves)
      BY <1>2, <2>1, <3>1 DEF WorkOK, InRange
    <3> QED BY <3>1, <3>2 DEF ReqOK, u
  <2>3. ASSUME q.size # None, SizeInRange(i, q.size, r.current)
        PROVE  ReqOK([r EXCEPT !.at = "hashes", !.index = i,
                               !.size = q.size], leaves)
    <3> DEFINE u == [r EXCEPT !.at = "hashes", !.index = i, !.size = q.size]
    <3>1. /\ u \in Work /\ u.at = "hashes" /\ u.query = q /\ u.index = i
          /\ u.size = q.size /\ u.current = r.current
      BY <1>1, <1>2, <2>1, <2>3 DEF Work
    <3> HIDE DEF u
    <3>2. WorkOK(u, leaves)
      BY <1>2, <2>1, <2>3, <3>1 DEF WorkOK, InRange, SizeInRange
    <3> QED BY <3>1, <3>2 DEF ReqOK, u
  <2>4. PICK u : Goto(k, u) /\ ReqOK(u, leaves)
    BY <1>3, <1>5, <2>2, <2>3 DEF Answer
  <2> QED BY <1>1, <2>4, OneRequest
<1> QED BY <1>4, <1>5 DEF ReadRecord

\* The hashes are read of the size the request goes by, not of the head.
LEMMA ReadHashesStep ==
    ASSUME LInv, NEW k \in Client, ReadHashes(k)
    PROVE  LInv'
PROOF
<1> DEFINE r == req[k]
           u == [r EXCEPT !.at = "root", !.root = Root(r.size)]
<1>1. /\ r \in Work /\ WorkOK(r, leaves) /\ r.at = "hashes"
      /\ UNCHANGED <<leaves, cache, cosigs, poll>>
      /\ IF r.index # None /\ r.index > r.size THEN Answer(k, "internal")
         ELSE Goto(k, u)
  BY AtWork DEF ReadHashes
<1>2. ReqOK([at |-> "done", answer |-> "internal"], leaves)
  BY Refusals
<1>3. ASSUME ~ (r.index # None /\ r.index > r.size)
      PROVE  ReqOK(u, leaves)
  <2>1. /\ r.size \in 0 .. Len(leaves) /\ r.size \in Nat
        /\ r.current \in Nat /\ leaves \in Seq(Ctx)
    BY <1>1 DEF Work, WorkOK, LInv
  <2>2. Root(r.size) = Prefix(leaves, r.size) /\ Root(r.size) \in Seq(Ctx)
    BY <2>1, PrefixIs DEF Root, Prefix
  <2>3. /\ u \in Work /\ u.at = "root" /\ u.query = r.query
        /\ u.index = r.index /\ u.size = r.size /\ u.current = r.current
        /\ u.root = Root(r.size)
    BY <1>1, <2>2 DEF Work
  <2>4. AboutLeaf(r.query) => r.index <= r.size
    <3> SUFFICES ASSUME AboutLeaf(r.query) PROVE r.index <= r.size
      OBVIOUS
    <3>1. r.index \in Nat
      BY <1>1 DEF WorkOK, Located
    <3>2. r.index # None
      BY <3>1, LogServiceAssumption
    <3> QED BY <1>3, <2>1, <3>1, <3>2
  <2> HIDE DEF u
  <2>5. WorkOK(u, leaves)
    BY <1>1, <2>2, <2>3, <2>4 DEF WorkOK
  <2> QED BY <2>3, <2>5 DEF ReqOK
<1> HIDE DEF u
<1> QED BY <1>1, <1>2, <1>3, OneRequest DEF Answer

\* root_for: the cached root and the computed one are the same tree's, and
\* what is put in the cache is the tree of the size it is put under.
LEMMA ComputeRootStep ==
    ASSUME LInv, NEW k \in Client, ComputeRoot(k)
    PROVE  LInv'
PROOF
<1> DEFINE r == req[k]
<1>1. /\ r \in Work /\ WorkOK(r, leaves) /\ r.at = "root"
      /\ UNCHANGED <<leaves, cosigs, poll>>
  BY AtWork DEF ComputeRoot
<1>2. /\ r.size \in Nat /\ r.size \in 0 .. Len(leaves) /\ leaves \in Seq(Ctx)
      /\ r.root = Prefix(leaves, r.size)
      /\ cache # None => cache \in CacheType /\ TreeOK(cache, leaves)
  BY <1>1 DEF Work, WorkOK, LInv
<1>3. r.root \in Seq(Ctx)
  BY <1>2, PrefixIs
<1>4. ASSUME NEW v, v = Prefix(leaves, r.size)
      PROVE  ReqOK([r EXCEPT !.at = "serve", !.root = v], leaves)
  <2> DEFINE u == [r EXCEPT !.at = "serve", !.root = v]
  <2>1. v \in Seq(Ctx)
    BY <1>2, <1>4, PrefixIs
  <2>2. /\ u \in Work /\ u.at = "serve" /\ u.query = r.query
        /\ u.index = r.index /\ u.size = r.size /\ u.current = r.current
        /\ u.root = v
    BY <1>1, <2>1 DEF Work
  <2> HIDE DEF u
  <2>3. WorkOK(u, leaves)
    BY <1>1, <1>4, <2>2 DEF WorkOK
  <2> QED BY <2>2, <2>3 DEF ReqOK, u
<1>5. CASE CachedRoot(r.size) # None
  <2>1. CachedRoot(r.size) = Prefix(leaves, r.size)
    BY <1>2, <1>5 DEF CachedRoot, TreeOK
  <2>2. /\ Goto(k, [r EXCEPT !.at = "serve", !.root = CachedRoot(r.size)])
        /\ UNCHANGED cache
    BY <1>5 DEF ComputeRoot
  <2> QED BY <1>1, <1>4, <2>1, <2>2, OneRequest
<1>6. CASE CachedRoot(r.size) = None
  <2>1. /\ Goto(k, [r EXCEPT !.at = "serve"])
        /\ cache' = CacheAfter(r, r.root)
    BY <1>6 DEF ComputeRoot
  <2>2. [r EXCEPT !.at = "serve"] = [r EXCEPT !.at = "serve", !.root = r.root]
    BY <1>1 DEF Work
  <2>3. ReqOK([r EXCEPT !.at = "serve"], leaves)
    BY <1>2, <1>4, <2>2
  <2>4. cache' # None => cache' \in CacheType /\ TreeOK(cache', leaves)
    <3>1. CASE cache' = cache
      BY <1>2, <3>1
    <3>2. CASE cache' = [size |-> r.size, root |-> r.root]
      BY <1>2, <1>3, <3>2 DEF CacheType, TreeOK
    <3> QED BY <2>1, <3>1, <3>2 DEF CacheAfter, WithRoot
  <2>5. /\ req' = [j \in Client |-> req'[j]]
        /\ \A j \in Client :
              req'[j] = IF j = k THEN [r EXCEPT !.at = "serve"] ELSE req[j]
    BY <2>1 DEF LInv, Goto
  <2>6. \A j \in Client : ReqOK(req'[j], leaves)
    BY <2>3, <2>5 DEF LInv
  <2> QED BY <1>1, <2>4, <2>5, <2>6 DEF LInv
<1> QED BY <1>5, <1>6

\* The answer is minted of what the request holds.
LEMMA ServeStep ==
    ASSUME LInv, NEW k \in Client, Serve(k)
    PROVE  LInv'
PROOF
<1> DEFINE r == req[k]
           a == [at |-> "done", answer |-> "ok", query |-> r.query,
                 size |-> r.size, root |-> r.root, index |-> r.index,
                 cosigned |-> CosignaturesFor(r.size, r.root)]
<1>1. /\ r \in Work /\ WorkOK(r, leaves) /\ r.at = "serve" /\ Goto(k, a)
      /\ UNCHANGED <<leaves, cache, cosigs, poll>>
  BY AtWork DEF Serve
<1>2. /\ a.at = "done" /\ a.answer = "ok" /\ a.query = r.query
      /\ a.size = r.size /\ a.root = r.root /\ a.index = r.index
      /\ \A x \in a.cosigned : x.size = r.size /\ x.root = r.root
  BY DEF CosignaturesFor
<1> HIDE DEF a
<1>3. /\ r.size \in Nat /\ r.current \in Nat /\ r.query \in Query
      /\ leaves \in Seq(Ctx)
  BY <1>1 DEF Work, LInv
<1>4. AnswerOK(a, leaves)
  BY <1>1, <1>2, <1>3 DEF AnswerOK, WorkOK
<1>5. ReqOK(a, leaves)
  BY <1>2, <1>4 DEF ReqOK
<1> QED BY <1>1, <1>5, OneRequest

\* A page of entries is not empty and is read off the log.
LEMMA ReadEntriesStep ==
    ASSUME LInv, NEW k \in Client, ReadEntries(k)
    PROVE  LInv'
PROOF
<1> DEFINE r == req[k]
           q == r.query
           last == IF q.end < q.start + PageCap THEN q.end
                   ELSE q.start + PageCap
           page == EntriesBetween(q.start, last)
           a == [at |-> "done", answer |-> "page", query |-> q, page |-> page,
                 named |-> {leaves[i] : i \in
                               {j \in q.start + 1 .. last :
                                   CanRetrieve(leaves[j])}}]
<1>1. /\ r \in Work /\ WorkOK(r, leaves) /\ r.at = "entries" /\ Goto(k, a)
      /\ UNCHANGED <<leaves, cache, cosigs, poll>>
  BY AtWork DEF ReadEntries
<1>2. a.at = "done" /\ a.answer = "page" /\ a.query = q /\ a.page = page
  OBVIOUS
<1>3. /\ leaves \in Seq(Ctx) /\ r.current \in Nat /\ q \in Query
      /\ q.op = "entries" /\ q.start < q.end /\ q.end <= Len(leaves)
      /\ PageCap \in Nat \ {0}
  BY <1>1, QueryTypes, LogServiceAssumption DEF Work, WorkOK, LInv
<1>4. q.start \in Nat /\ q.end \in Nat
  BY <1>3, QueryTypes
<1>5. last \in Nat /\ q.start < last /\ last <= Len(leaves)
  BY <1>3, <1>4
<1> HIDE DEF last
<1>6. /\ DOMAIN page = 1 .. last - q.start /\ page # << >>
      /\ \A i \in 1 .. last - q.start : page[i] = leaves[q.start + i]
  <2>1. page = SubSeq(leaves, q.start + 1, last)
    BY DEF EntriesBetween
  <2>2. /\ Len(page) = last - q.start
        /\ page \in Seq(Ctx)
        /\ \A i \in 1 .. last - q.start : page[i] = leaves[q.start + i]
    <3> HIDE DEF page
    <3>1. \A m, l \in Nat : m < l /\ l <= Len(leaves) =>
             /\ SubSeq(leaves, m + 1, l) \in Seq(Ctx)
             /\ Len(SubSeq(leaves, m + 1, l)) = l - m
             /\ \A i \in 1 .. l - m : SubSeq(leaves, m + 1, l)[i] = leaves[m + i]
      BY <1>3, PieceIs
    <3> QED BY <1>4, <1>5, <2>1, <3>1
  <2> HIDE DEF page
  <2>3. DOMAIN page = 1 .. last - q.start /\ page # << >>
    BY <1>4, <1>5, <2>2
  <2> QED BY <2>2, <2>3
<1> HIDE DEF page, a
<1>7. PageOK(a, leaves)
  BY <1>2, <1>3, <1>4, <1>5, <1>6 DEF PageOK
<1>8. ReqOK(a, leaves)
  BY <1>2, <1>7 DEF ReqOK
<1> QED BY <1>1, <1>8, OneRequest

\* A publish commits between any two queries.
LEMMA AppendLeafStep ==
    ASSUME LInv, NEW c \in Ctx, AppendLeaf(c)
    PROVE  LInv'
PROOF
<1>1. /\ leaves' = Append(leaves, c) /\ leaves \in Seq(Ctx)
      /\ UNCHANGED <<cache, cosigs, req, poll>>
  BY DEF AppendLeaf, LInv
<1>2. /\ leaves' \in Seq(Ctx) /\ Len(leaves') = Len(leaves) + 1
      /\ Len(leaves) \in Nat
      /\ \A n \in 0 .. Len(leaves) : Prefix(leaves', n) = Prefix(leaves, n)
  BY <1>1, PrefixStays
<1>3. \A x : TreeOK(x, leaves) => TreeOK(x, leaves')
  BY <1>2 DEF TreeOK
<1>4. \A k \in Client : ReqOK(req[k], leaves')
  BY <1>1, ReqStays DEF LInv
<1>5. ASSUME NEW w \in Witness, poll[w] # None
      PROVE  poll[w].size <= Len(leaves')
  <2>1. poll[w] \in ClaimType /\ poll[w].size <= Len(leaves)
    BY <1>5 DEF LInv
  <2>2. poll[w].size \in Nat
    BY <2>1 DEF ClaimType
  <2> QED BY <1>2, <2>1, <2>2
<1> QED BY <1>1, <1>2, <1>3, <1>4, <1>5 DEF LInv

\* A witness's claim is kept only when it is the registry's own tree.
LEMMA WitnessStep ==
    ASSUME LInv, NEW w \in Witness,
           (\E x \in Claims : Fetch(w, x)) \/ VerifyAndStore(w)
    PROVE  LInv'
PROOF
<1>1. leaves \in Seq(Ctx) /\ poll \in [Witness -> ClaimType \cup {None}]
  BY DEF LInv
<1>2. ASSUME NEW x \in Claims, Fetch(w, x) PROVE LInv'
  <2>1. /\ poll' = [poll EXCEPT ![w] = x] /\ x.size <= Len(leaves)
        /\ UNCHANGED <<leaves, cache, cosigs, req>>
    BY <1>2 DEF Fetch
  <2>2. x \in ClaimType
    <3>1. Size \subseteq Nat
      BY LogServiceAssumption, FS_CardinalityType DEF Size, MaxLeaves
    <3>2. \A n \in Nat : n <= Len(leaves) => Root(n) \in Seq(Ctx \cup {None})
      <4> TAKE n \in Nat
      <4> HAVE n <= Len(leaves)
      <4>1. /\ Prefix(leaves, n) \in Seq(Ctx) /\ Len(Prefix(leaves, n)) = n
        BY <1>1, PrefixIs
      <4> QED BY <4>1 DEF Root, Prefix
    <3>3. <<None>> \in Seq(Ctx \cup {None})
      OBVIOUS
    <3>4. PICK n \in Nat : \/ x = [size |-> n, root |-> Root(n)]
                           \/ x = [size |-> n, root |-> <<None>>]
      BY <1>1, <1>2, <3>1 DEF Claims
    <3>5. n \in Nat /\ n = x.size
      BY <3>4
    <3>6. x.root \in Seq(Ctx \cup {None}) /\ x = [size |-> x.size, root |-> x.root]
      <4>1. CASE x = [size |-> n, root |-> Root(n)]
        BY <2>1, <3>2, <3>5, <4>1
      <4>2. CASE x = [size |-> n, root |-> <<None>>]
        BY <3>3, <4>2
      <4> QED BY <3>4, <4>1, <4>2
    <3> QED BY <3>5, <3>6 DEF ClaimType
  <2>3. /\ poll' \in [Witness -> ClaimType \cup {None}]
        /\ \A v \in Witness : poll'[v] # None => poll'[v].size <= Len(leaves)
    BY <1>1, <2>1, <2>2 DEF LInv
  <2> QED BY <2>1, <2>3 DEF LInv
<1>3. CASE VerifyAndStore(w)
  <2> DEFINE claim == poll[w]
  <2>1. /\ claim # None /\ poll' = [poll EXCEPT ![w] = None]
        /\ cosigs' = IF Vouched(claim) THEN WithCosignature(w, claim) ELSE cosigs
        /\ UNCHANGED <<leaves, cache, req>>
    BY <1>3 DEF VerifyAndStore
  <2>2. claim \in ClaimType /\ claim.size \in Nat /\ claim.size <= Len(leaves)
    BY <1>1, <2>1 DEF LInv, ClaimType
  <2>3. \A x \in cosigs' : TreeOK(x, leaves)
    <3>1. \A x \in cosigs : TreeOK(x, leaves)
      BY DEF LInv
    <3> DEFINE new == [witness |-> w, size |-> claim.size, root |-> claim.root]
    <3>2. new.size = claim.size /\ new.root = claim.root
      OBVIOUS
    <3>3. WithCosignature(w, claim) = cosigs \cup {new}
      BY DEF WithCosignature
    <3> HIDE DEF new
    <3>4. Vouched(claim) => TreeOK(new, leaves)
      BY <1>1, <2>2, <3>2 DEF Vouched, TreeOK, Root, Prefix
    <3> QED BY <2>1, <3>1, <3>3, <3>4
  <2>4. /\ poll' \in [Witness -> ClaimType \cup {None}]
        /\ \A v \in Witness : poll'[v] # None => poll'[v].size <= Len(leaves)
    BY <1>1, <2>1 DEF LInv
  <2> QED BY <2>1, <2>3, <2>4 DEF LInv
<1> QED BY <1>2, <1>3

\* Every step preserves the invariant.
LEMMA NextLInv == LInv /\ [Next]_vars => LInv'
PROOF
<1> SUFFICES ASSUME LInv, [Next]_vars PROVE LInv'
  OBVIOUS
<1>1. ASSUME NEW c \in Ctx, AppendLeaf(c) PROVE LInv'
  BY <1>1, AppendLeafStep
<1>2. ASSUME NEW k \in Client, NEW q \in Query, ReadSize(k, q) PROVE LInv'
  BY <1>2, ReadSizeStep
<1>3. ASSUME NEW k \in Client, Handler(k) PROVE LInv'
  BY <1>3, ReadRecordStep, ReadHashesStep, ComputeRootStep, ServeStep,
     ReadEntriesStep DEF Handler
<1>4. ASSUME NEW k \in Client, Finish(k) PROVE LInv'
  <2>1. ReqOK(Idle, leaves)
    BY DEF ReqOK, Idle
  <2> QED BY <1>4, <2>1, OneRequest DEF Finish
<1>5. ASSUME NEW w \in Witness,
             (\E x \in Claims : Fetch(w, x)) \/ VerifyAndStore(w)
      PROVE  LInv'
  BY <1>5, WitnessStep
<1>6. CASE UNCHANGED vars
  BY <1>6 DEF LInv, vars
<1> QED BY <1>1, <1>2, <1>3, <1>4, <1>5, <1>6 DEF Next

(***************************************************************************)
(* The theorems.                                                           *)
(***************************************************************************)
\* The inductive invariant holds of every reachable state.
THEOREM LogInvariance == Spec => []LInv
PROOF
<1>1. Init => LInv
  <2> SUFFICES ASSUME Init PROVE LInv
    OBVIOUS
  <2>1. \A k \in Client : ReqOK(req[k], leaves)
    BY DEF Init, Idle, ReqOK
  <2> QED BY <2>1 DEF Init, LInv
<1>2. LInv /\ [Next]_vars => LInv'
  BY NextLInv
<1> QED BY <1>1, <1>2, PTL DEF Spec

\* What an answered request promises.
LEMMA AnsweredOK ==
    ASSUME LInv, NEW k \in Client, Answered(k)
    PROVE  AnswerOK(req[k], leaves)
BY DEF LInv, ReqOK, Work, Answered

\* Every signed checkpoint, every cached root and every page of entries is of
\* the registry's one log, for any number of requests, publishes and witnesses
\* at once.
THEOREM CheckpointsAreConsistent == Spec => []CheckpointsConsistent
PROOF
<1>1. LInv => CheckpointsConsistent
  <2> SUFFICES ASSUME LInv PROVE CheckpointsConsistent
    OBVIOUS
  <2>1. leaves \in Seq(Ctx) /\ Len(leaves) \in Nat
    BY DEF LInv
  <2>2. \A k \in Client : Answered(k) =>
           req[k].size <= Len(leaves) /\ req[k].root = Root(req[k].size)
    BY <2>1, AnsweredOK DEF AnswerOK, Root, Prefix
  <2>3. cache # None =>
           cache.size <= Len(leaves) /\ cache.root = Root(cache.size)
    BY <2>1 DEF LInv, TreeOK, Root, Prefix
  <2>4. ASSUME NEW k \in Client, req[k].at = "done", req[k].answer = "page"
        PROVE  PageOK(req[k], leaves)
    BY <2>4 DEF LInv, ReqOK, Work
  <2> QED BY <2>2, <2>3, <2>4 DEF CheckpointsConsistent, PageOK
<1> QED BY <1>1, LogInvariance, PTL

\* Every inclusion proof is of the leaf asked for and every consistency proof
\* of the trees asked for, in the tree whose checkpoint comes with it.
THEOREM ProofsAreVerifiable == Spec => []ProofsVerify
PROOF
<1>1. LInv => ProofsVerify
  <2> SUFFICES ASSUME LInv, NEW k \in Client, Answered(k)
               PROVE  LET a == req[k]
                          root == a.root
                      IN  /\ a.query.op \in {"by_ctx", "by_index"} =>
                                /\ a.index \in DOMAIN root
                                /\ a.query.op = "by_ctx" =>
                                      root[a.index] = a.query.ctx
                                /\ a.query.op = "by_index" =>
                                      a.index = a.query.index + 1
                          /\ a.query.op = "consistency" =>
                                /\ Len(root) = a.query.second
                                /\ a.query.first \in 1 .. Len(root)
    BY DEF ProofsVerify
  <2> DEFINE a == req[k]
  <2>1. AnswerOK(a, leaves) /\ leaves \in Seq(Ctx)
    BY AnsweredOK DEF LInv
  <2>a. a.size \in 0 .. Len(leaves) /\ a.root = Prefix(leaves, a.size)
    BY <2>1 DEF AnswerOK
  <2>2. /\ a.size \in 0 .. Len(leaves) /\ Len(a.root) = a.size
        /\ DOMAIN a.root = 1 .. a.size
        /\ \A i \in 1 .. a.size : a.root[i] = leaves[i]
    <3> HIDE DEF a
    <3> QED BY <2>1, <2>a, PrefixIs
  <2>3. ASSUME AboutLeaf(a.query)
        PROVE  /\ a.index \in 1 .. a.size
               /\ a.query.op = "by_ctx" => leaves[a.index] = a.query.ctx
               /\ a.query.op = "by_index" => a.index = a.query.index + 1
    BY <2>1, <2>2, <2>3 DEF AnswerOK, Located
  <2>4. a.query.op = "consistency" =>
           a.size = a.query.second /\ a.query.first \in 1 .. a.query.second
    BY <2>1 DEF AnswerOK, InRange
  <2> HIDE DEF a
  <2>5. a.query.op \in {"by_ctx", "by_index"} =>
           /\ a.index \in DOMAIN a.root
           /\ a.query.op = "by_ctx" => a.root[a.index] = a.query.ctx
           /\ a.query.op = "by_index" => a.index = a.query.index + 1
    BY <2>2, <2>3 DEF AboutLeaf
  <2>6. a.query.op = "consistency" =>
           Len(a.root) = a.query.second /\ a.query.first \in 1 .. Len(a.root)
    BY <2>2, <2>4
  <2> QED BY <2>5, <2>6 DEF a
<1> QED BY <1>1, LogInvariance, PTL

\* No cosignature is stored for a tree that is not the registry's own, and
\* those served are of the checkpoint they are served with.
THEOREM CosignaturesDoMatch == Spec => []CosignaturesMatch
PROOF
<1>1. LInv => CosignaturesMatch
  <2> SUFFICES ASSUME LInv PROVE CosignaturesMatch
    OBVIOUS
  <2>1. \A x \in cosigs : x.size <= Len(leaves) /\ x.root = Root(x.size)
    BY DEF LInv, TreeOK, Root, Prefix
  <2>2. \A k \in Client : Answered(k) => \A x \in req[k].cosigned :
           x.root = req[k].root /\ x.size = req[k].size
    BY AnsweredOK DEF AnswerOK
  <2> QED BY <2>1, <2>2 DEF CosignaturesMatch
<1> QED BY <1>1, LogInvariance, PTL
=============================================================================
