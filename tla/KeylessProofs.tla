--------------------------- MODULE KeylessProofs ---------------------------
(***************************************************************************)
(* Keyless signing, proved for any number of requests, tokens and          *)
(* attestations: what is stored under an attestation is covered by it, and *)
(* the copy of the issuer's keys is neither too old nor fetched too often. *)
(*                                                                         *)
(* The attestations only grow and only their `out' flag ever changes       *)
(* (AttsKept), so what a gate found out about one stays true until the     *)
(* commit; the predecessor a gate looked at stays as it was because no     *)
(* other request gets its row (RowsHeld).  For the cache, QuietOK says     *)
(* that the last fetch of a copy that ran out left a trace, a copy or the  *)
(* time of the failure, which keeps the next one a backoff window away.    *)
(***************************************************************************)
EXTENDS Keyless, TLAPS

(***************************************************************************)
(* The inductive invariant.                                                *)
(***************************************************************************)
Att == [token : DOMAIN Tokens \cup {"earlier"}, id : Identity, org : BOOLEAN,
        from : Int, to : Int, out : BOOLEAN]

Body == [att : Nat, sup : Nat, at : Nat, superseded : BOOLEAN, gone : SUBSET Nat]

MintTask == [pc : {"keys", "force", "fetch", "forcing", "token"},
             req : MintRequest, at : Nat, asof : Nat]

LookTask == [pc : {"listed", "mint"}, req : MintRequest]

IndexTask == [pc : {"index"}, req : MintRequest, window : [from : Int, to : Int]]

SignTask == [pc : {"signer"}, req : PublishRequest]

StoreTask == [pc : {"store"}, req : PublishRequest, at : Nat]

GatedTask == [pc : {"gated"}, req : PublishRequest, at : Nat, gone : SUBSET Nat]

Task == {Idle} \cup MintTask \cup LookTask \cup IndexTask
        \cup SignTask \cup StoreTask \cup GatedTask

SlotType == [copy : [keys : SUBSET Kid, at : Int, ttl : Nat],
             forced : Int, failed : Int, holder : Job \cup {Free}]

Typed ==
    /\ atts \in Seq(Att) /\ bodies \in Seq(Body)
    /\ jobs \in [Job -> Task]
    /\ now \in Nat /\ published \subseteq Kid /\ slot \in SlotType
    /\ seen \in [Kid -> Int]
    /\ fetches \in [BOOLEAN -> [last : Int, close : BOOLEAN]]

AttsOK ==
    /\ OneMintPerToken
    /\ \A i \in DOMAIN atts :
          atts[i].token \in DOMAIN Tokens => atts[i].to <= Tokens[atts[i].token].exp

\* Body b is covered by its attestation and follows its predecessor.
BodyOK(b) ==
    /\ b.att # 0 => b.att \in DOMAIN atts /\ InWindow(atts[b.att], b.at)
    /\ b.att \notin b.gone
    /\ b.sup # 0 => /\ b.att # 0 /\ b.sup \in DOMAIN bodies
                    /\ bodies[b.sup].superseded = TRUE
                    /\ MaySupersede(bodies[b.sup], atts[b.att])

BodiesOK ==
    /\ \A i \in DOMAIN bodies : BodyOK(bodies[i])
    /\ \A i, k \in DOMAIN bodies :
          bodies[i].sup # 0 /\ bodies[k].sup = bodies[i].sup => i = k

\* What the gates found out holds until the commit.
GateOK(t) ==
    /\ t.req.att \in DOMAIN atts /\ InWindow(atts[t.req.att], t.at)
    /\ t.req.att \notin t.gone
    /\ t.req.sup # 0 => /\ t.req.sup \in DOMAIN bodies
                        /\ bodies[t.req.sup].superseded = FALSE
                        /\ MaySupersede(bodies[t.req.sup], atts[t.req.att])

JobOK(t) ==
    /\ t.pc = "index" => t.window.to <= Tokens[t.req.token].exp
    /\ t.pc = "gated" => GateOK(t)

JobsOK == \A j \in Job : JobOK(jobs[j])

RowsHeld ==
    \A j, k \in Job :
        (/\ j # k /\ jobs[j].pc = "gated" /\ jobs[k].pc = "gated"
         /\ jobs[j].req.sup # 0) => jobs[j].req.sup # jobs[k].req.sup

StoreInv == AttsOK /\ BodiesOK /\ JobsOK /\ RowsHeld

\* A key is in the copy only if it was published when the fetch began or later.
CopyOK ==
    /\ \A k \in published : seen[k] = now
    /\ \A k \in Kid : seen[k] <= now
    /\ \A k \in slot.copy.keys : seen[k] >= slot.copy.at
    /\ slot.copy # NoCopy =>
          /\ slot.copy.at >= 0 /\ slot.copy.at <= now
          /\ slot.copy.ttl >= ShortTtl /\ slot.copy.ttl <= Ttl
    /\ slot.copy = NoCopy \/ slot.copy.at >= 0

Fetching(t) == t.pc \in {"fetch", "forcing"}

\* A request that fetches holds the slot, and began a window after the last
\* fetch of its kind.
FetchOK(j, t) ==
    /\ t \in MintTask => t.asof <= now
    /\ Fetching(t) <=> slot.holder = j
    /\ Fetching(t) => \A f \in BOOLEAN : fetches[f].last <= t.asof
    /\ t.pc = "fetch" => t.asof >= fetches[FALSE].last + Backoff
    /\ t.pc = "forcing" =>
          t.asof >= fetches[TRUE].last + Backoff /\ slot.forced = t.asof
    /\ t.pc = "token" =>
          seen[Tokens[t.req.token].kid] > t.asof - (Ttl + MaxStale)

FetchesOK == \A j \in Job : FetchOK(j, jobs[j])

\* The traces that the last fetches left.
QuietOK ==
    /\ \A f \in BOOLEAN : fetches[f].last <= now /\ fetches[f].close = FALSE
    /\ slot.failed <= now
    /\ slot.forced = -1 => fetches[TRUE].last <= -Backoff
    /\ slot.forced # -1 => /\ fetches[TRUE].last <= slot.forced
                           /\ slot.forced <= now
    /\ \/ fetches[FALSE].last <= -Backoff
       \/ slot.failed # -1 /\ fetches[FALSE].last <= slot.failed
       \/ slot.copy # NoCopy /\ fetches[FALSE].last <= slot.copy.at

CacheInv == CopyOK /\ FetchesOK /\ QuietOK

KInv == Typed /\ StoreInv /\ CacheInv

(***************************************************************************)
(* Facts about the constants and the requests.                             *)
(***************************************************************************)
\* The times, as numbers and in their order.
LEMMA Parameters ==
    /\ Ttl \in Nat /\ ShortTtl \in Nat /\ MaxStale \in Nat
    /\ Backoff \in Nat /\ ForceGap \in Nat
    /\ 0 < Backoff /\ Backoff <= ForceGap /\ Backoff <= ShortTtl /\ ShortTtl <= Ttl
PROOF
  BY IssuerKeysAssumption

\* A request is what its op says.
LEMMA RequestKinds ==
    ASSUME NEW r \in Requests
    PROVE  /\ r.op = "mint" => r \in MintRequest
           /\ r.op = "publish" => r \in PublishRequest
PROOF
  BY KeylessAssumption DEF MintRequest, PublishRequest

\* What a token of a request says of itself.
LEMMA TokenFacts ==
    ASSUME NEW r \in MintRequest
    PROVE  /\ r.token \in DOMAIN Tokens
           /\ Tokens[r.token].kid \in Kid /\ Tokens[r.token].id \in Identity
           /\ Tokens[r.token].exp \in Int
PROOF
  BY KeylessAssumption DEF MintRequest

\* A job is what its pc says.
LEMMA TaskKinds ==
    ASSUME NEW t \in Task
    PROVE  /\ t.pc = "idle" => t = Idle
           /\ t.pc \in {"keys", "force", "fetch", "forcing", "token"} => t \in MintTask
           /\ t.pc \in {"listed", "mint"} => t \in LookTask
           /\ t.pc = "index" => t \in IndexTask
           /\ t.pc = "signer" => t \in SignTask
           /\ t.pc = "store" => t \in StoreTask
           /\ t.pc = "gated" => t \in GatedTask
           /\ t.pc \notin {"keys", "force", "fetch", "forcing", "token"}
                 => t \notin MintTask
PROOF
  BY DEF Task, Idle, MintTask, LookTask, IndexTask, SignTask, StoreTask, GatedTask

(***************************************************************************)
(* The initial states.                                                     *)
(***************************************************************************)
\* The initial states satisfy the invariant.
LEMMA InitKInv == Init => KInv
PROOF
<1> SUFFICES ASSUME Init PROVE KInv
  OBVIOUS
<1> USE Parameters
<1>1. atts \in Seq(Att) /\ Len(atts) = 1 /\ DOMAIN atts = {1}
      /\ atts[1].token = "earlier" /\ atts[1].from = 0 /\ atts[1].to = MaxTtl
  <2> DEFINE a == [token |-> "earlier", id |-> FirstIdentity,
                   org |-> FirstIdentity \in OrgWide, from |-> 0, to |-> MaxTtl,
                   out |-> FALSE]
  <2>1. a \in Att
    BY KeylessAssumption DEF Att
  <2>2. atts = <<a>>
    BY DEF Init
  <2> HIDE DEF a
  <2>3. atts \in Seq(Att) /\ Len(atts) = 1 /\ DOMAIN atts = {1} /\ atts[1] = a
    BY <2>1, <2>2
  <2> QED
    BY <2>3 DEF a
<1>2. bodies \in Seq(Body) /\ DOMAIN bodies = {1, 2}
      /\ bodies[1] = FirstBody(0) /\ bodies[2] = FirstBody(1)
  <2>1. FirstBody(0) \in Body /\ FirstBody(1) \in Body
    BY DEF FirstBody, Body
  <2> QED
    BY <2>1 DEF Init
<1>3. slot \in SlotType /\ published \subseteq Kid /\ slot.holder = Free
      /\ slot.forced = -1 /\ slot.failed = -1
      /\ (slot.copy = NoCopy \/ slot.copy = [keys |-> {FirstKid}, at |-> 0, ttl |-> Ttl])
  <2>1. NoCopy \in [keys : SUBSET Kid, at : Int, ttl : Nat]
    BY DEF NoCopy
  <2>2. CASE slot = NewSlot /\ published = {FirstKid}
    BY <2>1, <2>2, KeylessAssumption DEF SlotType, NewSlot
  <2>3. CASE /\ slot = Fetched(NewSlot, {FirstKid}, FALSE, 0)
             /\ published \in {{k} : k \in Kid \ {FirstKid}}
    <3>1. slot = [copy |-> [keys |-> {FirstKid}, at |-> 0, ttl |-> Ttl],
                  forced |-> -1, failed |-> -1, holder |-> Free]
      <4> DEFINE copy == [keys |-> {FirstKid}, at |-> 0,
                          ttl |-> IF FALSE THEN ShortTtl ELSE Ttl]
      <4>1. slot = [NewSlot EXCEPT !.copy = copy, !.failed = -1, !.holder = Free]
        BY <2>3 DEF Fetched
      <4>2. copy = [keys |-> {FirstKid}, at |-> 0, ttl |-> Ttl]
        OBVIOUS
      <4> HIDE DEF copy
      <4>3. slot = [copy |-> copy, forced |-> -1, failed |-> -1, holder |-> Free]
        BY <4>1 DEF NewSlot
      <4> QED
        BY <4>2, <4>3
    <3>2. slot.copy \in [keys : SUBSET Kid, at : Int, ttl : Nat]
      BY <3>1, KeylessAssumption
    <3>3. published \subseteq Kid
      BY <2>3
    <3>4. slot \in SlotType
      BY <3>1, <3>2 DEF SlotType
    <3> QED
      BY <3>1, <3>3, <3>4
  <2> QED
    BY <2>2, <2>3 DEF Init
<1>4. /\ now = 0 /\ jobs = [j \in Job |-> Idle]
      /\ seen = [k \in Kid |-> IF k \in published \cup {FirstKid} THEN 0 ELSE -9]
      /\ fetches = [forced \in BOOLEAN |-> [last |-> -Backoff, close |-> FALSE]]
  BY DEF Init
<1>5. Idle \in Task
  BY DEF Task
<1>6. Typed
  <2>1. jobs \in [Job -> Task]
    BY <1>4, <1>5
  <2>2. seen \in [Kid -> Int]
    BY <1>4
  <2>3. fetches \in [BOOLEAN -> [last : Int, close : BOOLEAN]]
    BY <1>4
  <2> QED
    BY <1>1, <1>2, <1>3, <1>4, <2>1, <2>2, <2>3 DEF Typed
<1>7. AttsOK
  BY <1>1, KeylessAssumption DEF AttsOK, OneMintPerToken
<1>8. BodiesOK
  <2>1. ASSUME NEW i \in DOMAIN bodies PROVE BodyOK(bodies[i]) /\ bodies[i].sup = 0
    BY <1>1, <1>2, KeylessAssumption DEF BodyOK, InWindow, FirstBody
  <2> QED
    BY <2>1 DEF BodiesOK
<1>9. JobsOK /\ RowsHeld
  BY <1>4 DEF JobsOK, JobOK, RowsHeld, Idle
<1>10. CopyOK
  BY <1>3, <1>4, KeylessAssumption DEF CopyOK, NoCopy
<1>11. ASSUME NEW j \in Job PROVE FetchOK(j, jobs[j])
  <2>1. jobs[j] = Idle /\ Idle \notin MintTask /\ Idle.pc = "idle"
    BY <1>4 DEF Idle, MintTask
  <2>2. slot.holder # j
    BY <1>3, KeylessAssumption
  <2> QED
    BY <2>1, <2>2 DEF FetchOK, Fetching
<1>12. QuietOK
  BY <1>3, <1>4 DEF QuietOK
<1> QED
  BY <1>6, <1>7, <1>8, <1>9, <1>10, <1>11, <1>12 DEF KInv, StoreInv, CacheInv, FetchesOK

(***************************************************************************)
(* What steps leave alone.                                                 *)
(***************************************************************************)
\* Attestations stay, but for their `out' flags.
AttsKept ==
    /\ atts' \in Seq(Att)
    /\ \A i \in DOMAIN atts :
          /\ i \in DOMAIN atts'
          /\ atts'[i].id = atts[i].id /\ atts'[i].org = atts[i].org
          /\ atts'[i].from = atts[i].from /\ atts'[i].to = atts[i].to

\* What the bodies and the gates rely on does not notice such a change.
LEMMA KeptCovers ==
    ASSUME Typed, BodiesOK, AttsKept, bodies' = bodies
    PROVE  BodiesOK' /\ \A t \in Task : JobOK(t) => JobOK(t)'
PROOF
<1>1. ASSUME NEW i \in DOMAIN atts, NEW at \in Nat, InWindow(atts[i], at)
      PROVE  i \in DOMAIN atts' /\ InWindow(atts'[i], at)
  BY <1>1 DEF AttsKept, InWindow
<1>2. ASSUME NEW b \in Body, NEW i \in DOMAIN atts,
             b.att # 0 => b.att \in DOMAIN atts, MaySupersede(b, atts[i])
      PROVE  \/ atts'[i].org
             \/ b.att # 0 /\ atts'[b.att].id = atts'[i].id
  BY <1>2 DEF AttsKept, MaySupersede
<1>3. \A i \in DOMAIN bodies : /\ bodies[i] \in Body
                               /\ bodies[i].att # 0 => bodies[i].att \in DOMAIN atts
  BY DEF Typed, BodiesOK, BodyOK
<1>4. \A i \in DOMAIN atts : i \in DOMAIN atts'
  BY DEF AttsKept
<1>5. ASSUME NEW i \in DOMAIN bodies
      PROVE  BodyOK(bodies[i])'
  <2> DEFINE b == bodies[i]
  <2>1. b \in Body /\ BodyOK(b) /\ b' = b
    BY <1>3 DEF BodiesOK
  <2> HIDE DEF b
  <2>2. b.at \in Nat /\ b.att \in Nat /\ b.sup \in Nat
    BY <2>1 DEF Body
  <2>3. b.att # 0 => b.att \in DOMAIN atts' /\ InWindow(atts'[b.att], b.at)
    BY <1>1, <2>1, <2>2 DEF BodyOK
  <2>4. b.att \notin b.gone
    BY <2>1 DEF BodyOK
  <2>5. ASSUME b.sup # 0
        PROVE  /\ b.att # 0 /\ b.sup \in DOMAIN bodies
               /\ bodies[b.sup].superseded = TRUE
               /\ \/ atts'[b.att].org
                  \/ bodies[b.sup].att # 0 /\ atts'[bodies[b.sup].att].id = atts'[b.att].id
    BY <2>1, <2>5, <1>2, <1>3 DEF BodyOK
  <2>6. BodyOK(b)'
    BY <2>1, <2>3, <2>4, <2>5 DEF BodyOK, MaySupersede, InWindow
  <2> QED
    BY <2>6 DEF b
<1>6. BodiesOK'
  BY <1>5 DEF BodiesOK
<1>7. ASSUME NEW t \in Task, JobOK(t)
      PROVE  JobOK(t)'
  <2>1. CASE t.pc = "gated"
    <3>1. t \in GatedTask /\ GateOK(t)
      BY <1>7, <2>1, TaskKinds DEF JobOK
    <3>2. t.at \in Nat /\ t.req.att \in Nat /\ t.req.sup \in Nat
      BY <3>1 DEF GatedTask, PublishRequest
    <3>3. /\ t.req.att \in DOMAIN atts' /\ InWindow(atts'[t.req.att], t.at)
          /\ t.req.att \notin t.gone
      BY <3>1, <3>2, <1>1 DEF GateOK
    <3>4. ASSUME t.req.sup # 0
          PROVE  /\ t.req.sup \in DOMAIN bodies
                 /\ bodies[t.req.sup].superseded = FALSE
                 /\ \/ atts'[t.req.att].org
                    \/ /\ bodies[t.req.sup].att # 0
                       /\ atts'[bodies[t.req.sup].att].id = atts'[t.req.att].id
      BY <3>1, <3>4, <1>2, <1>3 DEF GateOK
    <3>5. GateOK(t)'
      BY <3>3, <3>4 DEF GateOK, MaySupersede, InWindow
    <3> QED
      BY <2>1, <3>5 DEF JobOK
  <2>2. CASE t.pc # "gated"
    BY <1>7, <2>2 DEF JobOK
  <2> QED
    BY <2>1, <2>2
<1> QED
  BY <1>6, <1>7

\* A request moves on, not to its commit.
LEMMA StoreMoves ==
    ASSUME Typed, StoreInv, AttsKept, AttsOK', bodies' = bodies,
           NEW j \in Job, NEW u \in Task, jobs' = [jobs EXCEPT ![j] = u],
           u.pc # "gated", JobOK(u)
    PROVE  StoreInv'
PROOF
<1>1. BodiesOK' /\ \A t \in Task : JobOK(t) => JobOK(t)'
  BY KeptCovers DEF StoreInv
<1>2. \A k \in Job : jobs'[k] \in Task /\ jobs'[k] = IF k = j THEN u ELSE jobs[k]
  BY DEF Typed
<1>3. \A k \in Job : JobOK(jobs[k]) /\ jobs[k] \in Task
  BY DEF StoreInv, JobsOK, Typed
<1>4. JobsOK'
  <2>1. ASSUME NEW k \in Job, NEW t \in Task, t = jobs'[k] PROVE JobOK(t)'
    BY <1>1, <1>2, <1>3, <2>1
  <2> QED
    BY <2>1, <1>2 DEF JobsOK
<1>5. RowsHeld'
  BY <1>2 DEF StoreInv, RowsHeld
<1> QED
  BY <1>1, <1>4, <1>5 DEF StoreInv

\* Nobody moves.
LEMMA StoreStays ==
    ASSUME Typed, StoreInv, AttsKept, AttsOK', bodies' = bodies, jobs' = jobs
    PROVE  StoreInv'
PROOF
<1>1. BodiesOK' /\ \A t \in Task : JobOK(t) => JobOK(t)'
  BY KeptCovers DEF StoreInv
<1>2. JobsOK'
  <2>1. ASSUME NEW k \in Job, NEW t \in Task, t = jobs[k] PROVE JobOK(t)'
    BY <1>1, <2>1 DEF StoreInv, JobsOK
  <2> QED
    BY <2>1 DEF JobsOK, Typed
<1> QED
  BY <1>1, <1>2 DEF StoreInv, RowsHeld

\* Attestations that nobody touched are kept.
LEMMA SameAtts ==
    ASSUME Typed, AttsOK, atts' = atts
    PROVE  AttsKept /\ AttsOK'
PROOF
  BY DEF Typed, AttsOK, AttsKept, OneMintPerToken

\* A request moves on that neither fetches nor begins to.
LEMMA CacheMoves ==
    ASSUME Typed, CacheInv, UNCHANGED <<now, published, slot, seen, fetches>>,
           NEW j \in Job, NEW u \in Task, jobs' = [jobs EXCEPT ![j] = u],
           ~ Fetching(jobs[j]), ~ Fetching(u),
           u \in MintTask => u.asof <= now,
           u.pc = "token" => seen[Tokens[u.req.token].kid] > u.asof - (Ttl + MaxStale)
    PROVE  CacheInv'
PROOF
<1>1. CopyOK' /\ QuietOK'
  BY DEF CacheInv, CopyOK, QuietOK
<1>2. \A k \in Job : jobs'[k] = IF k = j THEN u ELSE jobs[k]
  BY DEF Typed
<1>3. slot.holder # j
  BY DEF CacheInv, FetchesOK, FetchOK
<1>4. u.pc # "fetch" /\ u.pc # "forcing"
  BY DEF Fetching
<1>5. FetchOK(j, u)'
  BY <1>3, <1>4 DEF FetchOK, Fetching
<1>6. ASSUME NEW k \in Job, k # j, NEW t, t = jobs[k]
      PROVE  FetchOK(k, t)'
  <2>1. FetchOK(k, t)
    BY <1>6 DEF CacheInv, FetchesOK
  <2> QED
    BY <2>1 DEF FetchOK, Fetching
<1>7. FetchesOK'
  BY <1>2, <1>5, <1>6 DEF FetchesOK
<1> QED
  BY <1>1, <1>7 DEF CacheInv

\* Nobody moves and the cache is not touched.
LEMMA CacheStays ==
    ASSUME CacheInv, UNCHANGED <<now, published, slot, seen, fetches, jobs>>
    PROVE  CacheInv'
PROOF
<1>1. CopyOK' /\ QuietOK'
  BY DEF CacheInv, CopyOK, QuietOK
<1>2. ASSUME NEW k \in Job, NEW t, t = jobs[k]
      PROVE  FetchOK(k, t)'
  <2>1. FetchOK(k, t)
    BY <1>2 DEF CacheInv, FetchesOK
  <2> QED
    BY <2>1 DEF FetchOK, Fetching
<1>3. FetchesOK'
  BY <1>2 DEF FetchesOK
<1> QED
  BY <1>1, <1>3 DEF CacheInv

(***************************************************************************)
(* Steps of a request that touch neither the cache nor the store.          *)
(***************************************************************************)
\* A task a request can go on with, unless it begins a fetch or a commit.
Harmless(u) ==
    /\ u \in Task /\ ~ Fetching(u) /\ u.pc # "gated"
    /\ u.pc = "index" => u.window.to <= Tokens[u.req.token].exp
    /\ u \in MintTask => u.asof <= now
    /\ u.pc = "token" => seen[Tokens[u.req.token].kid] > u.asof - (Ttl + MaxStale)

\* A request may always be refused.
LEMMA IdleHarmless == Harmless(Idle)
PROOF
  BY DEF Harmless, Idle, Task, Fetching, MintTask

\* A request moves on while the attestations are kept.
LEMMA MovesOn ==
    ASSUME KInv, UNCHANGED <<now, published, slot, seen, fetches, bodies>>,
           AttsKept, AttsOK',
           NEW j \in Job, NEW u, Harmless(u), jobs' = [jobs EXCEPT ![j] = u],
           ~ Fetching(jobs[j])
    PROVE  KInv'
PROOF
<1>1. u \in Task /\ JobOK(u) /\ u.pc # "gated"
  BY DEF Harmless, JobOK
<1>2. Typed'
  <2>1. jobs' \in [Job -> Task]
    BY <1>1 DEF KInv, Typed
  <2>2. atts' \in Seq(Att)
    BY DEF AttsKept
  <2> QED
    BY <2>1, <2>2 DEF KInv, Typed
<1>3. StoreInv'
  BY <1>1, StoreMoves DEF KInv
<1>4. CacheInv'
  BY <1>1, CacheMoves DEF KInv, Harmless
<1> QED
  BY <1>2, <1>3, <1>4 DEF KInv

\* A request moves on and nothing else does.
LEMMA Moves ==
    ASSUME KInv, UNCHANGED <<now, published, slot, seen, fetches, atts, bodies>>,
           NEW j \in Job, NEW u, Harmless(u), jobs' = [jobs EXCEPT ![j] = u],
           ~ Fetching(jobs[j])
    PROVE  KInv'
PROOF
<1>1. AttsKept /\ AttsOK'
  BY SameAtts DEF KInv, StoreInv
<1> QED
  BY <1>1, MovesOn

\* What verify makes of a request, given keys that are young enough.
LEMMA VerifyMoves ==
    ASSUME KInv, NEW j \in Job, NEW keys, NEW asof \in Nat, NEW forced,
           Verify(j, keys, asof, forced), jobs[j] \in MintTask, asof <= now,
           \A k \in keys : k \in Kid => seen[k] > asof - (Ttl + MaxStale)
    PROVE  \E u : Harmless(u) /\ jobs' = [jobs EXCEPT ![j] = u]
PROOF
<1> DEFINE m == jobs[j]
           t == Tokens[m.req.token]
<1>1. m \in MintTask /\ m.asof <= now
  BY DEF KInv, CacheInv, FetchesOK, FetchOK
<1>2. /\ m.req \in MintRequest /\ m.at \in Nat /\ m.asof \in Nat
      /\ m = [pc |-> m.pc, req |-> m.req, at |-> m.at, asof |-> m.asof]
  BY <1>1 DEF MintTask
<1>3. t.kid \in Kid
  BY <1>2, TokenFacts
<1>4. CASE t.kid \notin keys
  <2> DEFINE u == [m EXCEPT !.pc = "force"]
  <2>1. \/ jobs' = [jobs EXCEPT ![j] = Idle]
        \/ jobs' = [jobs EXCEPT ![j] = u]
    BY <1>4 DEF Verify
  <2>2. u = [pc |-> "force", req |-> m.req, at |-> m.at, asof |-> m.asof]
    BY <1>2
  <2>3. Harmless(u)
    <3> HIDE DEF m
    <3> QED
      BY <1>1, <1>2, <2>2 DEF Harmless, Task, MintTask, Fetching
  <2> HIDE DEF u
  <2> QED
    BY <2>1, <2>3, IdleHarmless
<1>5. CASE t.kid \in keys
  <2> DEFINE u == [pc |-> "token", req |-> m.req, at |-> m.at, asof |-> asof]
  <2>1. \/ jobs' = [jobs EXCEPT ![j] = Idle]
        \/ jobs' = [jobs EXCEPT ![j] = u]
    BY <1>5 DEF Verify, Refuse
  <2>2. Harmless(u)
    <3>1. seen[t.kid] > asof - (Ttl + MaxStale)
      BY <1>3, <1>5
    <3> HIDE DEF m
    <3> QED
      BY <1>2, <3>1 DEF Harmless, Task, MintTask, Fetching
  <2> HIDE DEF u
  <2> QED
    BY <2>1, <2>2, IdleHarmless
<1> QED
  BY <1>4, <1>5

\* mint_attestation up to the token.
LEMMA ArriveStep ==
    ASSUME KInv, NEW j \in Job, NEW r \in Requests, Arrive(j, r)
    PROVE  KInv'
PROOF
<1> DEFINE u == [pc |-> "keys", req |-> r, at |-> now, asof |-> now]
<1>1. r \in MintRequest
  BY RequestKinds DEF Arrive
<1>2. Harmless(u)
  BY <1>1 DEF KInv, Typed, Harmless, Task, MintTask, Fetching
<1>3. jobs' = [jobs EXCEPT ![j] = u] \/ jobs' = [jobs EXCEPT ![j] = Idle]
  BY DEF Arrive
<1>4. ~ Fetching(jobs[j])
  BY DEF Arrive, Fetching, Idle
<1>5. UNCHANGED <<now, published, slot, seen, fetches, atts, bodies>>
  BY DEF Arrive, issuer, store
<1> HIDE DEF u
<1> QED
  BY <1>2, <1>3, <1>4, <1>5, IdleHarmless, Moves

\* key_attestation_token_seen and the proof of possession.
LEMMA TokenStep ==
    ASSUME KInv, NEW j \in Job, Token(j)
    PROVE  KInv'
PROOF
<1> DEFINE u == [pc |-> "listed", req |-> jobs[j].req]
<1>1. jobs[j] \in Task /\ jobs[j].pc = "token"
  BY DEF KInv, Typed, Token
<1>2. jobs[j].req \in MintRequest /\ ~ Fetching(jobs[j])
  BY <1>1, TaskKinds DEF MintTask, Fetching
<1>3. Harmless(u)
  BY <1>2 DEF Harmless, Task, MintTask, LookTask, Fetching
<1>4. jobs' = [jobs EXCEPT ![j] = u] \/ jobs' = [jobs EXCEPT ![j] = Idle]
  BY DEF Token, Refuse
<1>5. UNCHANGED <<now, published, slot, seen, fetches, atts, bodies>>
  BY DEF Token, issuer, store
<1> HIDE DEF u
<1> QED
  BY <1>2, <1>3, <1>4, <1>5, IdleHarmless, Moves

\* WebResolver::resolve_until.
LEMMA ListedStep ==
    ASSUME KInv, NEW j \in Job, Listed(j)
    PROVE  KInv'
PROOF
<1> DEFINE u == [jobs[j] EXCEPT !.pc = "mint"]
<1>1. jobs[j] \in Task /\ jobs[j].pc = "listed" /\ jobs \in [Job -> Task]
  BY DEF KInv, Typed, Listed
<1>2. jobs[j] \in LookTask /\ ~ Fetching(jobs[j])
  BY <1>1, TaskKinds DEF Fetching
<1>3. u \in LookTask /\ u.pc = "mint"
  BY <1>2 DEF LookTask
<1>4. jobs' = [jobs EXCEPT ![j] = u] \/ jobs' = [jobs EXCEPT ![j] = Idle]
  <2>1. [jobs EXCEPT ![j].pc = "mint"] = [jobs EXCEPT ![j] = u]
    BY <1>1
  <2> QED
    BY <2>1 DEF Listed, Refuse, GoTo
<1>5. UNCHANGED <<now, published, slot, seen, fetches, atts, bodies>>
  BY DEF Listed, issuer, store
<1> HIDE DEF u
<1>6. Harmless(u)
  BY <1>3 DEF Harmless, Task, MintTask, LookTask, Fetching
<1> QED
  BY <1>2, <1>6, <1>4, <1>5, IdleHarmless, Moves

\* The window of an attestation is inside the one of its token.
LEMMA MintStep ==
    ASSUME KInv, NEW j \in Job, Mint(j)
    PROVE  KInv'
PROOF
<1> DEFINE w == AttestationWindow(jobs[j].req.token)
           u == [pc |-> "index", req |-> jobs[j].req, window |-> w]
<1>1. jobs[j] \in Task /\ jobs[j].pc = "mint"
  BY DEF KInv, Typed, Mint
<1>2. jobs[j].req \in MintRequest /\ ~ Fetching(jobs[j])
  BY <1>1, TaskKinds DEF LookTask, Fetching
<1>3. Tokens[jobs[j].req.token].exp \in Int
  BY <1>2, TokenFacts
<1>4. w \in [from : Int, to : Int] /\ w.to <= Tokens[jobs[j].req.token].exp
  BY <1>3, KeylessAssumption DEF AttestationWindow, KInv, Typed
<1>5. jobs' = [jobs EXCEPT ![j] = u] \/ jobs' = [jobs EXCEPT ![j] = Idle]
  BY DEF Mint, Refuse
<1>6. UNCHANGED <<now, published, slot, seen, fetches, atts, bodies>>
  BY DEF Mint, issuer, store
<1> HIDE DEF w
<1>7. Harmless(u)
  BY <1>2, <1>4 DEF Harmless, Task, MintTask, IndexTask, Fetching
<1> HIDE DEF u
<1> QED
  BY <1>2, <1>5, <1>6, <1>7, IdleHarmless, Moves

\* check_keyless_publish.
LEMMA PublishStep ==
    ASSUME KInv, NEW j \in Job, NEW r \in Requests, Publish(j, r)
    PROVE  KInv'
PROOF
<1> DEFINE u == [pc |-> "signer", req |-> r]
<1>1. r \in PublishRequest
  BY RequestKinds DEF Publish
<1>2. Harmless(u)
  BY <1>1 DEF Harmless, Task, MintTask, SignTask, Fetching
<1>3. jobs' = [jobs EXCEPT ![j] = u] \/ jobs' = jobs
  BY DEF Publish
<1>4. ~ Fetching(jobs[j]) /\ jobs[j] = Idle
  BY DEF Publish, Fetching, Idle
<1>5. UNCHANGED <<now, published, slot, seen, fetches, atts, bodies>>
  BY DEF Publish, issuer, store
<1> HIDE DEF u
<1>6. jobs' = jobs => jobs' = [jobs EXCEPT ![j] = Idle]
  BY <1>4 DEF KInv, Typed
<1> QED
  BY <1>2, <1>3, <1>4, <1>5, <1>6, IdleHarmless, Moves

\* The signer's identity against the document.
LEMMA ProveStep ==
    ASSUME KInv, NEW j \in Job, Prove(j)
    PROVE  KInv'
PROOF
<1> DEFINE u == [pc |-> "store", req |-> jobs[j].req, at |-> now]
<1>1. jobs[j] \in Task /\ jobs[j].pc = "signer"
  BY DEF KInv, Typed, Prove
<1>2. jobs[j].req \in PublishRequest /\ ~ Fetching(jobs[j])
  BY <1>1, TaskKinds DEF SignTask, Fetching
<1>3. Harmless(u)
  BY <1>2 DEF KInv, Typed, Harmless, Task, MintTask, StoreTask, Fetching
<1>4. jobs' = [jobs EXCEPT ![j] = u] \/ jobs' = [jobs EXCEPT ![j] = Idle]
  BY DEF Prove, Refuse
<1>5. UNCHANGED <<now, published, slot, seen, fetches, atts, bodies>>
  BY DEF Prove, issuer, store
<1> HIDE DEF u
<1> QED
  BY <1>2, <1>3, <1>4, <1>5, IdleHarmless, Moves

(***************************************************************************)
(* The cache.                                                              *)
(***************************************************************************)
\* A request takes the slot and begins a fetch.
LEMMA HoldStep ==
    ASSUME KInv, NEW j \in Job, NEW forcing \in BOOLEAN, NEW u \in MintTask,
           slot.holder = Free, slot' = Hold(slot, j, forcing, now),
           jobs' = [jobs EXCEPT ![j] = u], u.asof = now,
           u.pc = IF forcing THEN "forcing" ELSE "fetch",
           now >= fetches[forcing].last + Backoff,
           UNCHANGED <<now, published, seen, fetches, atts, bodies>>
    PROVE  KInv'
PROOF
<1> USE Parameters
<1>1. /\ slot \in SlotType /\ now \in Nat /\ jobs \in [Job -> Task]
      /\ fetches \in [BOOLEAN -> [last : Int, close : BOOLEAN]]
  BY DEF KInv, Typed
<1>2. /\ slot' \in SlotType /\ slot'.copy = slot.copy /\ slot'.failed = slot.failed
      /\ slot'.holder = j /\ slot'.forced = IF forcing THEN now ELSE slot.forced
  <2> DEFINE f == IF forcing THEN now ELSE slot.forced
  <2>1. /\ slot = [copy |-> slot.copy, forced |-> slot.forced,
                   failed |-> slot.failed, holder |-> slot.holder]
        /\ slot.copy \in [keys : SUBSET Kid, at : Int, ttl : Nat]
        /\ slot.failed \in Int /\ f \in Int
    BY <1>1 DEF SlotType
  <2>2. slot' = [slot EXCEPT !.holder = j, !.forced = f]
    BY DEF Hold
  <2> HIDE DEF f
  <2>3. slot' = [copy |-> slot.copy, forced |-> f, failed |-> slot.failed, holder |-> j]
    BY <2>1, <2>2
  <2>4. slot' \in SlotType
    BY <2>1, <2>3 DEF SlotType
  <2> QED
    BY <2>3, <2>4 DEF f
<1>3. u \in Task /\ JobOK(u) /\ u.pc # "gated" /\ u.pc # "token" /\ Fetching(u)
  BY DEF Task, JobOK, Fetching
<1>4. Typed'
  <2>1. jobs' \in [Job -> Task]
    BY <1>1, <1>3
  <2> QED
    BY <2>1, <1>2 DEF KInv, Typed
<1>5. StoreInv'
  BY <1>3, StoreMoves, SameAtts DEF KInv, StoreInv
<1>6. CopyOK'
  BY <1>2 DEF KInv, CacheInv, CopyOK
<1>7. QuietOK'
  <2>1. QuietOK
    BY DEF KInv, CacheInv
  <2>2. \A f \in BOOLEAN : fetches[f].last \in Int /\ fetches[f].last <= now
    BY <1>1, <2>1 DEF QuietOK
  <2>3. slot'.forced = slot.forced \/ slot'.forced = now
    BY <1>2
  <2> DEFINE last == fetches[TRUE].last
  <2>4. /\ slot.forced = -1 => last <= -Backoff
        /\ slot.forced # -1 => last <= slot.forced /\ slot.forced <= now
        /\ last <= now
    BY <2>1, <2>2 DEF QuietOK
  <2>5. /\ slot'.forced = -1 => last <= -Backoff
        /\ slot'.forced # -1 => last <= slot'.forced /\ slot'.forced <= now
    <3> HIDE DEF last
    <3> QED
      BY <1>1, <2>3, <2>4
  <2> QED
    BY <1>2, <2>1, <2>5 DEF QuietOK
<1>8. \A k \in Job : jobs'[k] = IF k = j THEN u ELSE jobs[k]
  BY <1>1
<1>9. FetchOK(j, u)'
  <2>1. \A f \in BOOLEAN : fetches[f].last <= now
    BY DEF KInv, CacheInv, QuietOK
  <2>2. u.pc = "fetch" => now >= fetches[FALSE].last + Backoff
    BY <1>3
  <2>3. u.pc = "forcing" => now >= fetches[TRUE].last + Backoff /\ slot'.forced = now
    BY <1>2
  <2>4. now <= now /\ now' = now /\ fetches' = fetches
    BY <1>1
  <2> HIDE Parameters
  <2> QED
    BY <1>2, <1>3, <2>1, <2>2, <2>3, <2>4, Zenon DEF FetchOK
<1>10. ASSUME NEW k \in Job, k # j, NEW t, t = jobs[k]
       PROVE  FetchOK(k, t)'
  <2>1. FetchOK(k, t)
    BY <1>10 DEF KInv, CacheInv, FetchesOK
  <2>2. ~ Fetching(t)
    BY <2>1, KeylessAssumption DEF FetchOK
  <2> QED
    BY <1>2, <1>10, <2>1, <2>2 DEF FetchOK, Fetching
<1>11. FetchesOK'
  BY <1>8, <1>9, <1>10 DEF FetchesOK
<1> QED
  BY <1>4, <1>5, <1>6, <1>7, <1>11 DEF KInv, CacheInv

\* JwksCache::keys: a copy that is served is young enough, and a fetch is a
\* backoff window after the last one.
LEMMA KeysStep ==
    ASSUME KInv, NEW j \in Job, Keys(j)
    PROVE  KInv'
PROOF
<1> USE Parameters
<1>1. jobs[j] \in Task /\ jobs[j].pc = "keys" /\ slot.holder = Free
  BY DEF KInv, Typed, Keys
<1>2. jobs[j] \in MintTask /\ ~ Fetching(jobs[j])
  BY <1>1, TaskKinds DEF Fetching
<1>3. /\ slot \in SlotType /\ now \in Nat /\ seen \in [Kid -> Int]
      /\ fetches \in [BOOLEAN -> [last : Int, close : BOOLEAN]]
      /\ slot.copy.at \in Int /\ slot.copy.ttl \in Nat /\ slot.failed \in Int
  BY DEF KInv, Typed, SlotType
<1>4. UNCHANGED <<now, published, seen, fetches, atts, bodies>>
  BY DEF Keys, issuer, store
<1>5. CASE Lookup(slot, now) = "copy" /\ Verify(j, slot.copy.keys, now, FALSE)
           /\ UNCHANGED slot
  <2>1. slot.copy # NoCopy /\ now < slot.copy.at + slot.copy.ttl + MaxStale
    BY <1>3, <1>5 DEF Lookup, Fresh, Usable
  <2>2. slot.copy.ttl <= Ttl
    BY <2>1 DEF KInv, CacheInv, CopyOK
  <2>3. ASSUME NEW k \in slot.copy.keys, k \in Kid
        PROVE  seen[k] > now - (Ttl + MaxStale)
    <3>1. seen[k] \in Int /\ seen[k] >= slot.copy.at
      BY <1>3, <2>3 DEF KInv, CacheInv, CopyOK
    <3> DEFINE s == seen[k]
               a == slot.copy.at
               l == slot.copy.ttl
    <3>2. /\ s \in Int /\ s >= a /\ a \in Int /\ l \in Nat /\ now \in Nat
          /\ now < a + l + MaxStale /\ l <= Ttl
      BY <1>3, <2>1, <2>2, <3>1
    <3> HIDE DEF s, a, l
    <3>3. s > now - (Ttl + MaxStale)
      BY <3>2
    <3> QED
      BY <3>3 DEF s
  <2>4. PICK u : Harmless(u) /\ jobs' = [jobs EXCEPT ![j] = u]
    <3>1. now \in Nat /\ now <= now
      BY <1>3
    <3> QED
      BY <1>2, <1>5, <2>3, <3>1, VerifyMoves
  <2> QED
    BY <1>2, <1>4, <1>5, <2>4, Moves
<1>6. CASE Lookup(slot, now) = "unreachable" /\ Refuse(j) /\ UNCHANGED slot
  BY <1>2, <1>4, <1>6, IdleHarmless, Moves DEF Refuse
<1>7. CASE /\ Lookup(slot, now) = "fetch"
           /\ slot' = Hold(slot, j, FALSE, now)
           /\ jobs' = [jobs EXCEPT ![j] =
                          [pc |-> "fetch", req |-> @.req, at |-> @.at, asof |-> now]]
  <2> DEFINE u == [pc |-> "fetch", req |-> jobs[j].req, at |-> jobs[j].at, asof |-> now]
  <2>2. jobs[j].req \in MintRequest /\ jobs[j].at \in Nat
    BY <1>2 DEF MintTask
  <2>3. jobs' = [jobs EXCEPT ![j] = u]
    BY <1>7
  <2>4. u \in MintTask /\ u.pc = "fetch" /\ u.asof = now
    BY <1>3, <2>2 DEF MintTask
  <2> HIDE DEF u
  <2>5. ~ Fresh(slot, now) /\ ~ BackingOff(slot, now)
    BY <1>7 DEF Lookup
  <2>6. now >= fetches[FALSE].last + Backoff
    <3>1. fetches[FALSE].last \in Int
      BY <1>3
    <3>2. slot.copy # NoCopy => slot.copy.ttl >= ShortTtl
      BY DEF KInv, CacheInv, CopyOK
    <3>3. slot.copy # NoCopy => now >= slot.copy.at + slot.copy.ttl
      BY <1>3, <2>5 DEF Fresh
    <3>4. slot.failed # -1 => now >= slot.failed + Backoff
      BY <1>3, <2>5 DEF BackingOff
    <3>5. \/ fetches[FALSE].last <= -Backoff
          \/ slot.failed # -1 /\ fetches[FALSE].last <= slot.failed
          \/ slot.copy # NoCopy /\ fetches[FALSE].last <= slot.copy.at
      BY DEF KInv, CacheInv, QuietOK
    <3> DEFINE last == fetches[FALSE].last
               a == slot.copy.at
               l == slot.copy.ttl
    <3>6. \/ last <= -Backoff
          \/ now >= slot.failed + Backoff /\ last <= slot.failed
          \/ now >= a + l /\ l >= ShortTtl /\ last <= a
      BY <3>2, <3>3, <3>4, <3>5
    <3>7. last \in Int /\ a \in Int /\ l \in Nat /\ slot.failed \in Int /\ now \in Nat
      BY <1>3, <3>1
    <3> HIDE DEF last, a, l
    <3>8. now >= last + Backoff
      BY <3>6, <3>7
    <3> QED
      BY <3>8 DEF last
  <2> QED
    BY <1>1, <1>4, <1>7, <2>3, <2>4, <2>6, HoldStep
<1> QED
  BY <1>5, <1>6, <1>7 DEF Keys

\* refresh_for_unknown_kid: forced fetches are a gap apart.
LEMMA RefreshStep ==
    ASSUME KInv, NEW j \in Job, RefreshForUnknownKid(j)
    PROVE  KInv'
PROOF
<1> USE Parameters
<1>1. jobs[j] \in Task /\ jobs[j].pc = "force" /\ slot.holder = Free
  BY DEF KInv, Typed, RefreshForUnknownKid
<1>2. jobs[j] \in MintTask /\ ~ Fetching(jobs[j])
  BY <1>1, TaskKinds DEF Fetching
<1>3. /\ slot \in SlotType /\ now \in Nat /\ slot.forced \in Int
      /\ fetches \in [BOOLEAN -> [last : Int, close : BOOLEAN]]
  BY DEF KInv, Typed, SlotType
<1>4. UNCHANGED <<now, published, seen, fetches, atts, bodies>>
  BY DEF RefreshForUnknownKid, issuer, store
<1>5. CASE MayForce(slot, now)
  <2> DEFINE u == [pc |-> "forcing", req |-> jobs[j].req, at |-> jobs[j].at, asof |-> now]
  <2>2. jobs[j].req \in MintRequest /\ jobs[j].at \in Nat
    BY <1>2 DEF MintTask
  <2>3. jobs' = [jobs EXCEPT ![j] = u] /\ slot' = Hold(slot, j, TRUE, now)
    BY <1>5 DEF RefreshForUnknownKid
  <2>4. u \in MintTask /\ u.pc = "forcing" /\ u.asof = now
    BY <1>3, <2>2 DEF MintTask
  <2> HIDE DEF u
  <2>5. now >= fetches[TRUE].last + Backoff
    <3>1. fetches[TRUE].last \in Int
      BY <1>3
    <3>2. /\ slot.forced = -1 => fetches[TRUE].last <= -Backoff
          /\ slot.forced # -1 => fetches[TRUE].last <= slot.forced
      BY DEF KInv, CacheInv, QuietOK
    <3> DEFINE last == fetches[TRUE].last
    <3>3. \/ last <= -Backoff
          \/ last <= slot.forced /\ now >= slot.forced + ForceGap
      BY <1>5, <3>2 DEF MayForce
    <3> HIDE DEF last
    <3>4. last \in Int => now >= last + Backoff
      BY <1>3, <3>3
    <3> QED
      BY <3>1, <3>4 DEF last
  <2> QED
    BY <1>1, <1>4, <2>3, <2>4, <2>5, HoldStep
<1>6. CASE ~ MayForce(slot, now)
  <2>1. jobs' = [jobs EXCEPT ![j] = Idle] /\ slot' = slot
    BY <1>6 DEF RefreshForUnknownKid, Refuse
  <2> QED
    BY <1>2, <1>4, <2>1, IdleHarmless, Moves
<1> QED
  BY <1>5, <1>6

\* A request gives the slot back.
LEMMA ReleaseStep ==
    ASSUME KInv, NEW j \in Job, slot.holder = j, NEW u, Harmless(u),
           jobs' = [jobs EXCEPT ![j] = u], slot' \in SlotType, slot'.holder = Free,
           fetches' \in [BOOLEAN -> [last : Int, close : BOOLEAN]],
           UNCHANGED <<now, published, seen, atts, bodies>>, CopyOK', QuietOK'
    PROVE  KInv'
PROOF
<1>1. u \in Task /\ JobOK(u) /\ u.pc # "gated" /\ u.pc # "fetch" /\ u.pc # "forcing"
  BY DEF Harmless, JobOK, Fetching
<1>2. Typed'
  <2>1. jobs' \in [Job -> Task]
    BY <1>1 DEF KInv, Typed
  <2> QED
    BY <2>1 DEF KInv, Typed
<1>3. StoreInv'
  BY <1>1, StoreMoves, SameAtts DEF KInv, StoreInv
<1>4. \A k \in Job : jobs'[k] = IF k = j THEN u ELSE jobs[k]
  BY DEF KInv, Typed
<1>5. \A k \in Job : slot'.holder # k
  BY KeylessAssumption
<1>6. FetchOK(j, u)'
  BY <1>1, <1>5 DEF FetchOK, Harmless, Fetching
<1>7. ASSUME NEW k \in Job, k # j, NEW t, t = jobs[k]
      PROVE  FetchOK(k, t)'
  <2>1. FetchOK(k, t)
    BY <1>7 DEF KInv, CacheInv, FetchesOK
  <2>2. ~ Fetching(t)
    BY <1>7, <2>1 DEF FetchOK
  <2> QED
    BY <1>5, <2>1, <2>2 DEF FetchOK, Fetching
<1>8. FetchesOK'
  BY <1>4, <1>6, <1>7 DEF FetchesOK
<1> QED
  BY <1>2, <1>3, <1>8 DEF KInv, CacheInv

\* What is known of a request that fetches.
LEMMA FetchFacts ==
    ASSUME KInv, NEW j \in Job,
           NEW forced \in BOOLEAN, jobs[j].pc = IF forced THEN "forcing" ELSE "fetch",
           NEW s, s = jobs[j].asof
    PROVE  /\ jobs[j] \in MintTask
           /\ s \in Nat /\ s <= now
           /\ \A f \in BOOLEAN : fetches[f].last <= s
           /\ s >= fetches[forced].last + Backoff
           /\ forced = TRUE => slot.forced = s
PROOF
<1> DEFINE t == jobs[j]
<1>1. t \in MintTask
  BY TaskKinds DEF KInv, Typed
<1>2. FetchOK(j, t)
  BY DEF KInv, CacheInv, FetchesOK
<1>3. s \in Nat /\ s = t.asof
  BY <1>1 DEF MintTask
<1>4. t.pc = IF forced THEN "forcing" ELSE "fetch"
  OBVIOUS
<1> HIDE DEF t
<1>5. Fetching(t)
  BY <1>4 DEF Fetching
<1>6. s <= now /\ \A f \in BOOLEAN : fetches[f].last <= s
  BY <1>1, <1>2, <1>3, <1>5 DEF FetchOK
<1>7. CASE forced = FALSE
  <2>1. t.pc = "fetch"
    BY <1>4, <1>7
  <2>2. s >= fetches[FALSE].last + Backoff
    BY <1>2, <1>3, <2>1, Zenon DEF FetchOK
  <2> QED
    BY <1>1, <1>3, <1>6, <1>7, <2>2, Zenon DEF t
<1>8. CASE forced = TRUE
  <2>1. t.pc = "forcing"
    BY <1>4, <1>8
  <2>2. s >= fetches[TRUE].last + Backoff /\ slot.forced = s
    BY <1>2, <1>3, <2>1, Zenon DEF FetchOK
  <2> QED
    BY <1>1, <1>3, <1>6, <1>8, <2>2, Zenon DEF t
<1> QED
  BY <1>7, <1>8

\* A fetch that began a window after the last one of its kind is recorded.
LEMMA FetchRecorded ==
    ASSUME KInv, NEW forced \in BOOLEAN, NEW s \in Nat, s <= now,
           s >= fetches[forced].last + Backoff,
           fetches' = [fetches EXCEPT ![forced] =
                [last |-> s, close |-> @.close \/ s < @.last + Backoff]]
    PROVE  /\ fetches' \in [BOOLEAN -> [last : Int, close : BOOLEAN]]
           /\ fetches'[forced] = [last |-> s, close |-> FALSE]
           /\ \A f \in BOOLEAN : /\ f # forced => fetches'[f] = fetches[f]
                                 /\ fetches'[f].last <= now
                                 /\ fetches'[f].close = FALSE
PROOF
<1> USE Parameters
<1>1. fetches \in [BOOLEAN -> [last : Int, close : BOOLEAN]]
  BY DEF KInv, Typed
<1>2. \A f \in BOOLEAN : fetches[f].last <= now /\ fetches[f].close = FALSE
  BY DEF KInv, CacheInv, QuietOK
<1> DEFINE last == fetches[forced].last
           close == fetches[forced].close \/ s < last + Backoff
<1>3. fetches' = [fetches EXCEPT ![forced] = [last |-> s, close |-> close]]
  OBVIOUS
<1>4. close = FALSE
  <2>1. last \in Int
    BY <1>1
  <2>2. ~ (s < last + Backoff)
    <3>1. s >= last + Backoff
      OBVIOUS
    <3> HIDE DEF last
    <3> QED
      BY <2>1, <3>1
  <2> QED
    BY <1>2, <2>2, Zenon
<1> HIDE DEF last, close
<1>5. fetches' = [fetches EXCEPT ![forced] = [last |-> s, close |-> FALSE]]
  BY <1>3, <1>4
<1>6. [last |-> s, close |-> FALSE] \in [last : Int, close : BOOLEAN]
  OBVIOUS
<1>7. /\ fetches' \in [BOOLEAN -> [last : Int, close : BOOLEAN]]
      /\ fetches'[forced] = [last |-> s, close |-> FALSE]
      /\ \A f \in BOOLEAN : f # forced => fetches'[f] = fetches[f]
  <2> DEFINE R == [last : Int, close : BOOLEAN]
             x == [last |-> s, close |-> FALSE]
  <2>1. x \in R /\ fetches \in [BOOLEAN -> R] /\ fetches' = [fetches EXCEPT ![forced] = x]
    BY <1>1, <1>5, <1>6
  <2> HIDE DEF R, x
  <2>2. /\ fetches' \in [BOOLEAN -> R] /\ fetches'[forced] = x
        /\ \A f \in BOOLEAN : f # forced => fetches'[f] = fetches[f]
    BY <2>1
  <2> QED
    BY <2>2 DEF R, x
<1>8. ASSUME NEW f \in BOOLEAN
      PROVE  fetches'[f].last <= now /\ fetches'[f].close = FALSE
  <2>1. CASE f = forced
    BY <1>7, <2>1
  <2>2. CASE f # forced
    BY <1>2, <1>7, <2>2, Zenon
  <2> QED
    BY <2>1, <2>2
<1> QED
  BY <1>7, <1>8, Zenon

\* A fetch that ended leaves a trace that keeps the next ones away: the time
\* of a failure, or a copy; a forced one left it when it began.
LEMMA FetchTraced ==
    ASSUME KInv, NEW forced \in BOOLEAN, NEW s \in Nat, s <= now,
           \A f \in BOOLEAN : fetches[f].last <= s,
           forced = TRUE => slot.forced = s,
           fetches' \in [BOOLEAN -> [last : Int, close : BOOLEAN]],
           fetches'[forced] = [last |-> s, close |-> FALSE],
           \A f \in BOOLEAN : /\ f # forced => fetches'[f] = fetches[f]
                             /\ fetches'[f].last <= now
                             /\ fetches'[f].close = FALSE,
           slot' \in SlotType, slot'.forced = slot.forced, now' = now,
           \/ slot'.failed = s
           \/ slot'.failed = -1 /\ slot'.copy.at = s /\ slot'.copy # NoCopy
    PROVE  QuietOK'
PROOF
<1> USE Parameters
<1>1. now \in Nat /\ slot \in SlotType /\ slot.forced \in Int
  BY DEF KInv, Typed, SlotType
<1>2. QuietOK
  BY DEF KInv, CacheInv
<1>3. forced = TRUE => fetches'[TRUE].last = s /\ fetches'[FALSE] = fetches[FALSE]
  <2> SUFFICES ASSUME forced = TRUE
               PROVE  fetches'[TRUE].last = s /\ fetches'[FALSE] = fetches[FALSE]
    OBVIOUS
  <2>1. fetches'[TRUE] = [last |-> s, close |-> FALSE] /\ FALSE # forced
    BY Zenon
  <2>2. fetches'[TRUE].last = s
    BY <2>1
  <2>3. fetches'[FALSE] = fetches[FALSE]
    BY <2>1, Zenon
  <2> QED
    BY <2>2, <2>3
<1>4. forced = FALSE => fetches'[FALSE].last = s /\ fetches'[TRUE] = fetches[TRUE]
  <2> SUFFICES ASSUME forced = FALSE
               PROVE  fetches'[FALSE].last = s /\ fetches'[TRUE] = fetches[TRUE]
    OBVIOUS
  <2>1. fetches'[FALSE] = [last |-> s, close |-> FALSE] /\ TRUE # forced
    BY Zenon
  <2>2. fetches'[FALSE].last = s
    BY <2>1
  <2>3. fetches'[TRUE] = fetches[TRUE]
    BY <2>1, Zenon
  <2> QED
    BY <2>2, <2>3
<1>5. forced = TRUE \/ forced = FALSE
  OBVIOUS
<1>6. \A f \in BOOLEAN : fetches'[f].last <= now' /\ fetches'[f].close = FALSE
  BY Zenon
<1> DEFINE regular == fetches'[FALSE].last
           unknown == fetches'[TRUE].last
           copied == slot'.copy.at
<1>7. regular <= s
  <2>1. s <= s
    OBVIOUS
  <2> QED
    BY <1>3, <1>4, <1>5, <2>1, Zenon
<1>8. /\ slot'.forced = -1 => unknown <= -Backoff
      /\ slot'.forced # -1 => unknown <= slot'.forced /\ slot'.forced <= now'
  <2>1. CASE forced = TRUE
    <3>1. unknown = s /\ slot'.forced = s
      BY <1>3, <2>1, Zenon
    <3> HIDE DEF unknown
    <3> QED
      BY <1>1, <3>1
  <2>2. CASE forced = FALSE
    BY <1>2, <1>4, <2>2, Zenon DEF QuietOK
  <2> QED
    BY <1>5, <2>1, <2>2
<1> HIDE DEF regular, unknown, copied
<1>9. slot'.failed <= now'
  BY <1>1
<1>10. \/ slot'.failed # -1 /\ regular <= slot'.failed
       \/ slot'.copy # NoCopy /\ regular <= copied
  <2>1. CASE slot'.failed = s
    BY <1>7, <2>1
  <2>2. CASE slot'.failed = -1 /\ copied = s /\ slot'.copy # NoCopy
    BY <1>7, <2>2
  <2> QED
    BY <2>1, <2>2 DEF copied
<1> HIDE Parameters
<1> QED
  BY <1>6, <1>8, <1>9, <1>10, Zenon DEF QuietOK, regular, unknown, copied

\* A fetch ends.
LEMMA FetchEndsStep ==
    ASSUME KInv, NEW j \in Job, NEW maxage \in BOOLEAN, FetchEnds(j, maxage)
    PROVE  KInv'
PROOF
<1> USE Parameters
<1> DEFINE m == jobs[j]
           s == m.asof
<1>1. PICK forced \in BOOLEAN : forced = (m.pc = "forcing")
  OBVIOUS
<1>2. m.pc = IF forced THEN "forcing" ELSE "fetch"
  BY <1>1 DEF FetchEnds
<1>3. /\ m \in MintTask /\ s \in Nat /\ s <= now
      /\ \A f \in BOOLEAN : fetches[f].last <= s
      /\ s >= fetches[forced].last + Backoff
      /\ forced = TRUE => slot.forced = s
  BY <1>2, FetchFacts
<1>4. /\ fetches' = [fetches EXCEPT ![forced] =
                [last |-> s, close |-> @.close \/ s < @.last + Backoff]]
      /\ slot.holder = j
      /\ UNCHANGED <<now, published, seen, atts, bodies>>
  BY <1>1 DEF FetchEnds, issuer, store
<1>5. /\ up => /\ slot' = Fetched(slot, published, maxage, s)
               /\ Verify(j, published, s, forced)
      /\ ~ up => /\ slot' = Failed(slot, s)
                 /\ \/ AfterFailure(slot, s) = "copy" /\ Verify(j, slot.copy.keys, s, FALSE)
                    \/ jobs' = [jobs EXCEPT ![j] = Idle]
  BY <1>1 DEF FetchEnds, Refuse
<1> HIDE DEF s
<1>6. /\ fetches' \in [BOOLEAN -> [last : Int, close : BOOLEAN]]
      /\ fetches'[forced] = [last |-> s, close |-> FALSE]
      /\ \A f \in BOOLEAN : /\ f # forced => fetches'[f] = fetches[f]
                            /\ fetches'[f].last <= now
                            /\ fetches'[f].close = FALSE
  BY <1>3, <1>4, FetchRecorded
<1>7. /\ slot \in SlotType /\ now \in Nat /\ seen \in [Kid -> Int]
      /\ published \subseteq Kid
      /\ slot = [copy |-> slot.copy, forced |-> slot.forced,
                 failed |-> slot.failed, holder |-> slot.holder]
      /\ slot.copy \in [keys : SUBSET Kid, at : Int, ttl : Nat] /\ slot.forced \in Int
  BY DEF KInv, Typed, SlotType
<1>8. CopyOK
  BY DEF KInv, CacheInv
<1>9. CASE up
  <2> DEFINE copy == [keys |-> published, at |-> s,
                      ttl |-> IF maxage THEN ShortTtl ELSE Ttl]
  <2>1. slot' = [copy |-> copy, forced |-> slot.forced, failed |-> -1, holder |-> Free]
    <3>1. slot' = [slot EXCEPT !.copy = copy, !.failed = -1, !.holder = Free]
      BY <1>5, <1>9 DEF Fetched
    <3> HIDE DEF copy
    <3> QED
      BY <1>7, <3>1
  <2>2. slot' \in SlotType
    BY <1>3, <1>7, <2>1 DEF SlotType
  <2>3. copy # NoCopy
    BY <1>3 DEF NoCopy
  <2>4. CopyOK'
    <3>1. \A k \in published : k \in Kid /\ seen[k] >= s
      BY <1>3, <1>7, <1>8 DEF CopyOK
    <3>2. slot'.copy = copy
      BY <2>1
    <3> QED
      BY <1>3, <1>4, <1>8, <2>3, <3>1, <3>2 DEF CopyOK
  <2>5. QuietOK'
    BY <1>3, <1>4, <1>6, <2>1, <2>2, <2>3, FetchTraced
  <2>6. \A k \in published : k \in Kid => seen[k] > s - (Ttl + MaxStale)
    BY <1>3, <1>7, <1>8 DEF CopyOK
  <2>7. PICK u : Harmless(u) /\ jobs' = [jobs EXCEPT ![j] = u]
    BY <1>3, <1>5, <1>9, <2>6, VerifyMoves
  <2> QED
    BY <1>4, <1>6, <2>1, <2>2, <2>4, <2>5, <2>7, ReleaseStep
<1>10. CASE ~ up
  <2>1. slot' = [copy |-> slot.copy, forced |-> slot.forced, failed |-> s, holder |-> Free]
    BY <1>5, <1>7, <1>10 DEF Failed
  <2>2. slot' \in SlotType
    BY <1>3, <1>7, <2>1 DEF SlotType
  <2>3. CopyOK'
    BY <1>4, <1>8, <2>1 DEF CopyOK
  <2>4. QuietOK'
    BY <1>3, <1>4, <1>6, <2>1, <2>2, FetchTraced
  <2>5. ASSUME AfterFailure(slot, s) = "copy", NEW k \in slot.copy.keys, k \in Kid
        PROVE  seen[k] > s - (Ttl + MaxStale)
    <3> DEFINE a == slot.copy.at
               l == slot.copy.ttl
               n == seen[k]
    <3>1. slot.copy # NoCopy /\ s < a + l + MaxStale
      BY <2>5 DEF AfterFailure, Usable
    <3>2. n \in Int /\ a \in Int /\ l \in Nat /\ n >= a /\ l <= Ttl
      BY <1>7, <1>8, <2>5, <3>1 DEF CopyOK
    <3> HIDE DEF a, l, n
    <3>3. n > s - (Ttl + MaxStale)
      BY <1>3, <3>1, <3>2
    <3> QED
      BY <3>3 DEF n
  <2>6. PICK u : Harmless(u) /\ jobs' = [jobs EXCEPT ![j] = u]
    BY <1>3, <1>5, <1>10, <2>5, VerifyMoves, IdleHarmless
  <2> QED
    BY <1>4, <1>6, <2>1, <2>2, <2>3, <2>4, <2>6, ReleaseStep
<1> QED
  BY <1>9, <1>10

\* The client leaves: the slot is free, and nothing else has changed.
LEMMA GoneStep ==
    ASSUME KInv, NEW j \in Job, Gone(j)
    PROVE  KInv'
PROOF
<1>1. /\ slot \in SlotType /\ slot.holder = j
      /\ slot' = [slot EXCEPT !.holder = Free]
      /\ jobs' = [jobs EXCEPT ![j] = Idle]
      /\ UNCHANGED <<now, published, seen, atts, bodies, fetches>>
  BY DEF KInv, Typed, Gone, issuer, store, Refuse
<1>2. /\ slot' \in SlotType /\ slot'.holder = Free /\ slot'.copy = slot.copy
      /\ slot'.forced = slot.forced /\ slot'.failed = slot.failed
  BY <1>1 DEF SlotType
<1>3. CopyOK' /\ QuietOK'
  BY <1>1, <1>2 DEF KInv, CacheInv, CopyOK, QuietOK
<1>4. fetches' \in [BOOLEAN -> [last : Int, close : BOOLEAN]]
  BY <1>1 DEF KInv, Typed
<1> QED
  BY <1>1, <1>2, <1>3, <1>4, IdleHarmless, ReleaseStep

(***************************************************************************)
(* The rest of the world.                                                  *)
(***************************************************************************)
\* Time passes or keys are published: a key is as old as before or younger.
LEMMA WorldMoves ==
    ASSUME KInv, UNCHANGED <<slot, fetches, jobs, atts, bodies>>,
           now' \in Nat, now' >= now, published' \subseteq Kid,
           seen' \in [Kid -> Int],
           \A k \in Kid : seen'[k] >= seen[k] /\ seen'[k] <= now',
           \A k \in published' : seen'[k] = now'
    PROVE  KInv'
PROOF
<1> USE Parameters
<1>1. Typed'
  BY DEF KInv, Typed
<1>2. StoreInv'
  BY StoreStays, SameAtts DEF KInv, StoreInv
<1>3. /\ now \in Nat /\ slot \in SlotType /\ slot.copy.keys \subseteq Kid
      /\ slot.copy.at \in Int /\ slot.failed \in Int /\ slot.forced \in Int
      /\ seen \in [Kid -> Int]
  BY DEF KInv, Typed, SlotType
<1>4. CopyOK'
  <2>1. CopyOK
    BY DEF KInv, CacheInv
  <2>2. ASSUME NEW k \in slot.copy.keys PROVE seen'[k] >= slot.copy.at
    <3>1. k \in Kid /\ seen[k] >= slot.copy.at /\ seen[k] \in Int /\ seen'[k] \in Int
      BY <1>3, <2>1 DEF CopyOK
    <3> QED
      BY <1>3, <3>1
  <2>3. slot.copy.at <= now => slot.copy.at <= now'
    BY <1>3
  <2> QED
    BY <2>1, <2>2, <2>3 DEF CopyOK
<1>5. QuietOK'
  <2>1. QuietOK
    BY DEF KInv, CacheInv
  <2>2. ASSUME NEW f \in BOOLEAN
        PROVE  fetches[f].last <= now' /\ fetches[f].close = FALSE
    <3>1. fetches[f].last \in Int /\ fetches[f].last <= now /\ fetches[f].close = FALSE
      BY <2>1 DEF QuietOK, KInv, Typed
    <3> DEFINE last == fetches[f].last
    <3>2. last <= now'
      <4>1. last \in Int /\ last <= now
        BY <3>1
      <4> HIDE DEF last
      <4> QED
        BY <1>3, <4>1
    <3> QED
      BY <3>1, <3>2
  <2>3. slot.failed <= now' /\ (slot.forced <= now => slot.forced <= now')
    BY <1>3, <2>1 DEF QuietOK
  <2> QED
    BY <2>1, <2>2, <2>3 DEF QuietOK
<1>6. ASSUME NEW k \in Job, NEW t \in Task, t = jobs[k]
      PROVE  FetchOK(k, t)'
  <2>1. FetchOK(k, t)
    BY <1>6 DEF KInv, CacheInv, FetchesOK
  <2>2. t \in MintTask => t.asof <= now'
    <3>1. t \in MintTask => t.asof \in Nat /\ t.asof <= now
      BY <2>1 DEF FetchOK, MintTask
    <3> QED
      BY <1>3, <3>1
  <2>3. t.pc = "token" =>
            seen'[Tokens[t.req.token].kid] > t.asof - (Ttl + MaxStale)
    <3> SUFFICES ASSUME t.pc = "token"
                 PROVE  seen'[Tokens[t.req.token].kid] > t.asof - (Ttl + MaxStale)
      OBVIOUS
    <3> DEFINE kid == Tokens[t.req.token].kid
    <3>1. t \in MintTask
      BY TaskKinds
    <3>2. t.asof \in Nat /\ kid \in Kid
      BY <3>1, TokenFacts DEF MintTask
    <3>3. seen[kid] > t.asof - (Ttl + MaxStale)
      BY <2>1 DEF FetchOK
    <3> HIDE DEF kid
    <3>4. seen[kid] \in Int /\ seen'[kid] \in Int /\ seen'[kid] >= seen[kid]
      BY <1>3, <3>2
    <3>5. seen'[kid] > t.asof - (Ttl + MaxStale)
      BY <3>2, <3>3, <3>4
    <3> QED
      BY <3>5 DEF kid
  <2> QED
    BY <2>1, <2>2, <2>3 DEF FetchOK
<1>7. FetchesOK'
  BY <1>6 DEF FetchesOK, KInv, Typed
<1> QED
  BY <1>1, <1>2, <1>4, <1>5, <1>7 DEF KInv, CacheInv

\* Nothing the invariant reads changes.
LEMMA Unnoticed ==
    ASSUME KInv, UNCHANGED <<now, published, slot, seen, fetches, jobs, atts, bodies>>
    PROVE  KInv'
PROOF
<1>1. Typed'
  BY DEF KInv, Typed
<1>2. StoreInv'
  BY StoreStays, SameAtts DEF KInv, StoreInv
<1> QED
  BY <1>1, <1>2, CacheStays DEF KInv

\* A rotation: what is published now was seen now.
LEMMA RotateStep ==
    ASSUME KInv, NEW k \in Kid, Rotate({k})
    PROVE  KInv'
PROOF
<1>1. /\ now \in Nat /\ now' = now /\ published' = {k} /\ seen \in [Kid -> Int]
      /\ seen' = [n \in Kid |-> IF n \in published \cup {k} THEN now ELSE seen[n]]
      /\ UNCHANGED <<slot, fetches, jobs, atts, bodies>>
  BY DEF KInv, Typed, Rotate, store
<1>2. \A n \in Kid : seen[n] <= now /\ seen[n] \in Int
  BY <1>1 DEF KInv, CacheInv, CopyOK
<1>3. \A n \in Kid : seen'[n] >= seen[n] /\ seen'[n] <= now' /\ seen'[n] \in Int
  BY <1>1, <1>2
<1>4. seen' \in [Kid -> Int]
  BY <1>1
<1>5. \A n \in published' : seen'[n] = now'
  BY <1>1
<1> QED
  BY <1>1, <1>3, <1>4, <1>5, WorldMoves

\* Time passes, and what is published is seen again.
LEMMA TickStep ==
    ASSUME KInv, Tick
    PROVE  KInv'
PROOF
<1>1. /\ now \in Nat /\ now' = now + 1 /\ published' = published
      /\ published \subseteq Kid /\ seen \in [Kid -> Int]
      /\ seen' = [n \in Kid |-> IF n \in published THEN now + 1 ELSE seen[n]]
      /\ UNCHANGED <<slot, fetches, jobs, atts, bodies>>
  BY DEF KInv, Typed, Tick, store
<1>2. \A n \in Kid : seen[n] <= now /\ seen[n] \in Int
  BY <1>1 DEF KInv, CacheInv, CopyOK
<1>3. \A n \in Kid : seen'[n] >= seen[n] /\ seen'[n] <= now' /\ seen'[n] \in Int
  BY <1>1, <1>2
<1>4. seen' \in [Kid -> Int]
  BY <1>1
<1>5. \A n \in published' : seen'[n] = now'
  BY <1>1
<1>6. now' \in Nat /\ now' >= now
  BY <1>1
<1> QED
  BY <1>1, <1>3, <1>4, <1>5, <1>6, WorldMoves

\* A withdrawal sets one flag, which no commit relies on any more.
LEMMA WithdrawStep ==
    ASSUME KInv, NEW i \in DOMAIN atts, Withdraw(i)
    PROVE  KInv'
PROOF
<1>1. /\ atts \in Seq(Att) /\ atts' = [atts EXCEPT ![i].out = TRUE]
      /\ UNCHANGED <<now, published, slot, seen, fetches, jobs, bodies>>
  BY DEF KInv, Typed, Withdraw, issuer
<1>2. /\ DOMAIN atts' = DOMAIN atts
      /\ \A n \in DOMAIN atts : n # i => atts'[n] = atts[n]
      /\ atts'[i] = [atts[i] EXCEPT !.out = TRUE] /\ atts[i] \in Att
  BY <1>1
<1>3. atts'[i] \in Att
  BY <1>2 DEF Att
<1>4. atts' \in Seq(Att)
  BY <1>1, <1>2, <1>3
<1>5. \A n \in DOMAIN atts :
         /\ atts'[n].id = atts[n].id /\ atts'[n].org = atts[n].org
         /\ atts'[n].from = atts[n].from /\ atts'[n].to = atts[n].to
         /\ atts'[n].token = atts[n].token
  <2>1. /\ atts'[i].id = atts[i].id /\ atts'[i].org = atts[i].org
        /\ atts'[i].from = atts[i].from /\ atts'[i].to = atts[i].to
        /\ atts'[i].token = atts[i].token
    BY <1>2 DEF Att
  <2> QED
    BY <1>2, <2>1, Zenon
<1>6. AttsKept
  BY <1>2, <1>4, <1>5 DEF AttsKept
<1>7. AttsOK'
  BY <1>2, <1>5 DEF KInv, StoreInv, AttsOK, OneMintPerToken
<1>8. StoreInv'
  BY <1>1, <1>6, <1>7, StoreStays DEF KInv
<1>9. Typed'
  BY <1>1, <1>4 DEF KInv, Typed
<1> QED
  BY <1>1, <1>8, <1>9, CacheStays DEF KInv

(***************************************************************************)
(* What commits.                                                           *)
(***************************************************************************)
\* An attestation is indexed, unless its token already has one.
LEMMA IndexStep ==
    ASSUME KInv, NEW j \in Job, Index(j)
    PROVE  KInv'
PROOF
<1> DEFINE r == jobs[j].req
           id == Tokens[r.token].id
           a == [token |-> r.token, id |-> id, org |-> id \in OrgWide,
                 from |-> jobs[j].window.from, to |-> jobs[j].window.to, out |-> FALSE]
<1>1. jobs[j] \in Task /\ jobs[j].pc = "index" /\ atts \in Seq(Att)
  BY DEF KInv, Typed, Index
<1>2. /\ r \in MintRequest /\ jobs[j].window \in [from : Int, to : Int]
      /\ ~ Fetching(jobs[j])
  BY <1>1, TaskKinds DEF IndexTask, Fetching
<1>3. jobs[j].window.to <= Tokens[r.token].exp
  BY <1>1 DEF KInv, StoreInv, JobsOK, JobOK
<1>4. /\ jobs' = [jobs EXCEPT ![j] = Idle]
      /\ atts' = IF Replayed(r.token) THEN atts ELSE Append(atts, a)
      /\ UNCHANGED <<now, published, slot, seen, fetches, bodies>>
  BY DEF Index, Refuse, issuer
<1>5. CASE Replayed(r.token)
  <2>1. atts' = atts
    BY <1>4, <1>5
  <2> QED
    BY <1>2, <1>4, <2>1, IdleHarmless, Moves
<1>6. CASE ~ Replayed(r.token)
  <2>1. a \in Att /\ a.token = r.token /\ a.to <= Tokens[r.token].exp
    BY <1>2, <1>3, TokenFacts DEF Att
  <2>2. \A i \in DOMAIN atts : atts[i].token # a.token
    BY <1>6, <2>1 DEF Replayed
  <2> HIDE DEF a
  <2>3. atts' = Append(atts, a)
    BY <1>4, <1>6
  <2>4. /\ atts' \in Seq(Att) /\ DOMAIN atts' = DOMAIN atts \cup {Len(atts) + 1}
        /\ \A i \in DOMAIN atts : atts'[i] = atts[i]
        /\ atts'[Len(atts) + 1] = a /\ Len(atts) + 1 \notin DOMAIN atts
    BY <1>1, <2>1, <2>3
  <2>5. AttsKept
    BY <2>4 DEF AttsKept
  <2>6. AttsOK'
    <3>1. AttsOK
      BY DEF KInv, StoreInv
    <3> DEFINE n == Len(atts) + 1
    <3>2. DOMAIN atts' = DOMAIN atts \cup {n} /\ atts'[n] = a
      BY <2>4
    <3> HIDE DEF n
    <3>3. OneMintPerToken'
      BY <2>2, <2>4, <3>1, <3>2 DEF AttsOK, OneMintPerToken
    <3>4. ASSUME NEW i \in DOMAIN atts', atts'[i].token \in DOMAIN Tokens
          PROVE  atts'[i].to <= Tokens[atts'[i].token].exp
      BY <2>1, <2>4, <3>1, <3>2, <3>4 DEF AttsOK
    <3> QED
      BY <3>3, <3>4 DEF AttsOK
  <2> QED
    BY <1>2, <1>4, <2>5, <2>6, IdleHarmless, MovesOn
<1> QED
  BY <1>5, <1>6

\* What an admitted publish may rely on, whichever backend admits it.
LEMMA AnswerOk ==
    ASSUME Typed, NEW r \in PublishRequest, NEW at \in Nat, Answer(r, at) = "ok"
    PROVE  /\ r.att \in DOMAIN atts /\ InWindow(atts[r.att], at)
           /\ r.att \notin Withdrawn
           /\ r.sup # 0 => /\ r.sup \in DOMAIN bodies
                           /\ bodies[r.sup].superseded = FALSE
                           /\ MaySupersede(bodies[r.sup], atts[r.att])
PROOF
<1>1. /\ Superseding(r) = "ok" /\ Admit(r) = "ok" /\ CheckWindow(r, at) = "ok"
      /\ r.sup # 0 => Supersession(r) = "ok"
  <2>1. CASE backend = "memory"
    BY <2>1 DEF Answer, MemoryRefusal
  <2>2. CASE backend # "memory"
    BY <2>2 DEF Answer, Refusal
  <2> QED
    BY <2>1, <2>2
<1>2. r.att \in DOMAIN atts /\ ~ atts[r.att].out
  BY <1>1 DEF Admit
<1>3. InWindow(atts[r.att], at)
  BY <1>1 DEF CheckWindow
<1>4. r.att \notin Withdrawn
  BY <1>2 DEF Withdrawn
<1>5. ASSUME r.sup # 0
      PROVE  /\ r.sup \in DOMAIN bodies /\ bodies[r.sup].superseded = FALSE
             /\ MaySupersede(bodies[r.sup], atts[r.att])
  <2>1. r.sup \in DOMAIN bodies /\ ~ bodies[r.sup].superseded
    BY <1>1, <1>5 DEF Superseding
  <2>2. bodies[r.sup].superseded \in BOOLEAN
    <3>1. bodies[r.sup] \in Body
      BY <2>1 DEF Typed
    <3> QED
      BY <3>1 DEF Body
  <2>3. MaySupersede(bodies[r.sup], atts[r.att])
    BY <1>1, <1>5 DEF Supersession
  <2> QED
    BY <2>1, <2>2, <2>3
<1> QED
  BY <1>2, <1>3, <1>4, <1>5

\* Postgres' gates let a publish through; nobody else has its predecessor.
LEMMA GatedStep ==
    ASSUME KInv, NEW j \in Job, NEW u \in GatedTask, jobs' = [jobs EXCEPT ![j] = u],
           GateOK(u), RowFree(u.req), ~ Fetching(jobs[j]),
           UNCHANGED <<now, published, slot, seen, fetches, atts, bodies>>
    PROVE  KInv'
PROOF
<1>1. /\ u \in Task /\ JobOK(u) /\ ~ Fetching(u) /\ u.pc = "gated" /\ u.pc # "token"
      /\ u \notin MintTask
  BY DEF Task, JobOK, GatedTask, Fetching, MintTask
<1>2. \A k \in Job : jobs[k] \in Task /\ jobs'[k] = IF k = j THEN u ELSE jobs[k]
  BY DEF KInv, Typed
<1>3. Typed'
  <2>1. jobs' \in [Job -> Task]
    BY <1>1 DEF KInv, Typed
  <2> QED
    BY <2>1 DEF KInv, Typed
<1>4. AttsKept /\ AttsOK'
  BY SameAtts DEF KInv, StoreInv
<1>5. BodiesOK' /\ \A t \in Task : JobOK(t) => JobOK(t)'
  BY <1>4, KeptCovers DEF KInv, StoreInv
<1>6. JobsOK'
  <2>1. ASSUME NEW k \in Job, NEW t \in Task, t = jobs'[k] PROVE JobOK(t)'
    BY <1>1, <1>2, <1>5, <2>1 DEF KInv, StoreInv, JobsOK
  <2> QED
    BY <2>1, <1>1, <1>2 DEF JobsOK
<1>7. RowsHeld'
  <2>1. RowsHeld /\ \A k \in Job :
            jobs[k].pc = "gated" => (u.req.sup = 0 \/ jobs[k].req.sup # u.req.sup)
    BY DEF KInv, StoreInv, RowFree
  <2> QED
    BY <1>2, <2>1 DEF RowsHeld
<1>8. CacheInv'
  BY <1>1, CacheMoves DEF KInv
<1> QED
  BY <1>3, <1>4, <1>5, <1>6, <1>7, <1>8 DEF KInv, StoreInv

\* An admitted body is stored, and its predecessor marked.
LEMMA InsertStep ==
    ASSUME KInv, NEW j \in Job, jobs' = [jobs EXCEPT ![j] = Idle],
           ~ Fetching(jobs[j]), NEW g \in GatedTask, GateOK(g),
           \A k \in Job : k # j /\ jobs[k].pc = "gated" =>
               (g.req.sup = 0 \/ jobs[k].req.sup # g.req.sup),
           Insert(g.req, g.at, g.gone),
           UNCHANGED <<now, published, slot, seen, fetches, atts>>
    PROVE  KInv'
PROOF
<1> DEFINE r == g.req
           b == [att |-> r.att, sup |-> r.sup, at |-> g.at, superseded |-> FALSE,
                 gone |-> g.gone]
           marked == IF r.sup = 0 THEN bodies
                     ELSE [bodies EXCEPT ![r.sup].superseded = TRUE]
<1>1. r.att \in Nat /\ r.sup \in Nat /\ g.at \in Nat /\ g.gone \in SUBSET Nat
  BY DEF GatedTask, PublishRequest
<1>2. b \in Body /\ bodies \in Seq(Body)
  BY <1>1 DEF Body, KInv, Typed
<1>3. bodies' = Append(marked, b)
  BY DEF Insert
<1>4. /\ marked \in Seq(Body) /\ Len(marked) = Len(bodies) /\ DOMAIN marked = DOMAIN bodies
      /\ \A i \in DOMAIN bodies :
            marked[i] = IF i = r.sup THEN [bodies[i] EXCEPT !.superseded = TRUE]
                        ELSE bodies[i]
  <2>1. CASE r.sup = 0
    BY <1>2, <2>1
  <2>2. CASE r.sup # 0
    <3>1. r.sup \in DOMAIN bodies /\ bodies[r.sup] \in Body
      BY <1>2, <2>2 DEF GateOK
    <3> DEFINE x == [bodies[r.sup] EXCEPT !.superseded = TRUE]
    <3>2. x \in Body
      BY <3>1 DEF Body
    <3>3. marked = [bodies EXCEPT ![r.sup] = x]
      BY <2>2
    <3> HIDE DEF x, marked
    <3>4. /\ marked \in Seq(Body) /\ Len(marked) = Len(bodies)
          /\ DOMAIN marked = DOMAIN bodies
          /\ \A i \in DOMAIN bodies : marked[i] = IF i = r.sup THEN x ELSE bodies[i]
      BY <1>2, <3>1, <3>2, <3>3
    <3> QED
      BY <3>4 DEF x
  <2> QED
    BY <2>1, <2>2
<1> HIDE DEF b, marked
<1>5. PICK n \in Nat :
        /\ bodies' \in Seq(Body) /\ DOMAIN bodies' = DOMAIN bodies \cup {n}
        /\ bodies'[n] = b /\ n \notin DOMAIN bodies
        /\ \A i \in DOMAIN bodies : bodies'[i] = marked[i]
  <2>1. LET m == Len(bodies) + 1
        IN  /\ m \in Nat
            /\ bodies' \in Seq(Body) /\ DOMAIN bodies' = DOMAIN bodies \cup {m}
            /\ bodies'[m] = b /\ m \notin DOMAIN bodies
            /\ \A i \in DOMAIN bodies : bodies'[i] = marked[i]
    BY <1>2, <1>3, <1>4
  <2> QED
    BY <2>1
<1>6. ASSUME NEW i \in DOMAIN bodies
      PROVE  /\ bodies'[i].att = bodies[i].att /\ bodies'[i].sup = bodies[i].sup
             /\ bodies'[i].at = bodies[i].at /\ bodies'[i].gone = bodies[i].gone
             /\ i = r.sup => bodies'[i].superseded = TRUE
             /\ i # r.sup => bodies'[i].superseded = bodies[i].superseded
  <2>1. bodies[i] \in Body
    BY <1>2
  <2>2. bodies'[i] = IF i = r.sup THEN [bodies[i] EXCEPT !.superseded = TRUE]
                     ELSE bodies[i]
    BY <1>4, <1>5
  <2> QED
    BY <2>1, <2>2 DEF Body
<1>7. b.att = r.att /\ b.sup = r.sup /\ b.at = g.at /\ b.gone = g.gone
  BY DEF b
<1>8. Typed'
  <2>1. jobs' \in [Job -> Task]
    BY DEF KInv, Typed, Task
  <2> QED
    BY <1>5, <2>1 DEF KInv, Typed, AttsKept
<1>9. AttsOK' /\ AttsKept
  BY SameAtts DEF KInv, StoreInv
<1>10. \A i \in DOMAIN bodies : BodyOK(bodies[i])
  BY DEF KInv, StoreInv, BodiesOK
<1>11. ASSUME NEW i \in DOMAIN bodies, NEW c, c = bodies'[i]
       PROVE  BodyOK(c)'
  <2>1. BodyOK(bodies[i])
    BY <1>10
  <2>2. c.att = bodies[i].att /\ c.sup = bodies[i].sup /\ c.at = bodies[i].at
        /\ c.gone = bodies[i].gone
    BY <1>6, <1>11
  <2>3. c.sup # 0 => /\ c.att # 0 /\ c.sup \in DOMAIN bodies
                     /\ bodies[c.sup].superseded = TRUE
                     /\ MaySupersede(bodies[c.sup], atts[c.att])
    BY <2>1, <2>2 DEF BodyOK
  <2>4. c.sup # 0 => /\ c.sup \in DOMAIN bodies' /\ bodies'[c.sup].superseded = TRUE
                     /\ bodies'[c.sup].att = bodies[c.sup].att
    BY <1>5, <1>6, <2>3
  <2>5. c.att # 0 => c.att \in DOMAIN atts /\ InWindow(atts[c.att], c.at)
    BY <2>1, <2>2 DEF BodyOK
  <2>6. c.att \notin c.gone
    BY <2>1, <2>2 DEF BodyOK
  <2> QED
    BY <2>3, <2>4, <2>5, <2>6 DEF BodyOK, InWindow, MaySupersede
<1>12. ASSUME NEW c, c = b
       PROVE  BodyOK(c)'
  <2>1. c.att = r.att /\ c.sup = r.sup /\ c.at = g.at /\ c.gone = g.gone
    BY <1>7, <1>12
  <2>2. /\ r.att \in DOMAIN atts /\ InWindow(atts[r.att], g.at) /\ r.att \notin g.gone
        /\ r.att # 0
    BY DEF GateOK, KInv, Typed
  <2>3. r.sup # 0 => /\ r.sup \in DOMAIN bodies
                     /\ MaySupersede(bodies[r.sup], atts[r.att])
    BY DEF GateOK
  <2>4. r.sup # 0 => /\ r.sup \in DOMAIN bodies' /\ bodies'[r.sup].superseded = TRUE
                     /\ bodies'[r.sup].att = bodies[r.sup].att
    BY <1>5, <1>6, <2>3
  <2> QED
    BY <2>1, <2>2, <2>3, <2>4 DEF BodyOK, InWindow, MaySupersede
<1>13. ASSUME NEW i \in DOMAIN bodies', NEW k \in DOMAIN bodies',
              bodies'[i].sup # 0, bodies'[k].sup = bodies'[i].sup
       PROVE  i = k
  <2>1. r.sup # 0 => bodies[r.sup].superseded = FALSE
    BY DEF GateOK
  <2>2. ASSUME NEW m \in DOMAIN bodies, bodies[m].sup # 0 PROVE bodies[m].sup # r.sup
    BY <1>10, <2>1, <2>2 DEF BodyOK
  <2>3. CASE i \in DOMAIN bodies /\ k \in DOMAIN bodies
    BY <1>6, <1>13, <2>3 DEF KInv, StoreInv, BodiesOK
  <2>4. CASE i = n \/ k = n
    BY <1>5, <1>6, <1>7, <1>13, <2>2, <2>4
  <2> QED
    BY <1>5, <2>3, <2>4
<1>14. BodiesOK'
  <2>1. ASSUME NEW i \in DOMAIN bodies', NEW c, c = bodies'[i] PROVE BodyOK(c)'
    BY <1>5, <1>11, <1>12, <2>1
  <2> QED
    BY <1>13, <2>1 DEF BodiesOK
<1>15. \A k \in Job : jobs[k] \in Task /\ jobs'[k] = IF k = j THEN Idle ELSE jobs[k]
  BY DEF KInv, Typed
<1>16. JobsOK'
  <2>1. ASSUME NEW k \in Job, k # j, NEW t \in Task, t = jobs[k] PROVE JobOK(t)'
    <3>1. JobOK(t)
      BY <2>1 DEF KInv, StoreInv, JobsOK
    <3>2. CASE t.pc = "gated"
      <4>1. GateOK(t) /\ (r.sup = 0 \/ t.req.sup # r.sup)
        BY <2>1, <3>1, <3>2 DEF JobOK
      <4>2. GateOK(t)'
        BY <1>5, <1>6, <4>1 DEF GateOK, InWindow, MaySupersede
      <4> QED
        BY <3>2, <4>2 DEF JobOK
    <3>3. CASE t.pc # "gated"
      BY <3>1, <3>3 DEF JobOK
    <3> QED
      BY <3>2, <3>3
  <2>2. JobOK(Idle)'
    BY DEF JobOK, Idle
  <2> QED
    BY <1>15, <2>1, <2>2 DEF JobsOK
<1>17. RowsHeld'
  BY <1>15 DEF KInv, StoreInv, RowsHeld, Idle
<1>18. CacheInv'
  BY IdleHarmless, CacheMoves DEF KInv, Harmless
<1> QED
  BY <1>8, <1>9, <1>14, <1>16, <1>17, <1>18 DEF KInv, StoreInv

\* commit_publish, or on Postgres its gates.
LEMMA StoreStep ==
    ASSUME KInv, NEW j \in Job, Store(j)
    PROVE  KInv'
PROOF
<1> DEFINE r == jobs[j].req
           at == jobs[j].at
           g == [pc |-> "gated", req |-> r, at |-> at, gone |-> Withdrawn]
<1>1. jobs[j] \in Task /\ jobs[j].pc = "store"
  BY DEF KInv, Typed, Store
<1>2. jobs[j] \in StoreTask /\ ~ Fetching(jobs[j])
  BY <1>1, TaskKinds DEF Fetching
<1>3. r \in PublishRequest /\ at \in Nat
  BY <1>2 DEF StoreTask
<1>4. RowFree(r) /\ UNCHANGED <<now, published, slot, seen, fetches, atts>>
  BY DEF Store, issuer
<1>5. CASE Answer(r, at) # "ok"
  <2>1. jobs' = [jobs EXCEPT ![j] = Idle] /\ UNCHANGED bodies
    BY <1>5 DEF Store, Refuse
  <2> QED
    BY <1>2, <1>4, <2>1, IdleHarmless, Moves
<1>6. CASE Answer(r, at) = "ok"
  <2>1. /\ r.att \in DOMAIN atts /\ InWindow(atts[r.att], at)
        /\ r.att \notin Withdrawn
        /\ r.sup # 0 => /\ r.sup \in DOMAIN bodies
                        /\ bodies[r.sup].superseded = FALSE
                        /\ MaySupersede(bodies[r.sup], atts[r.att])
    BY <1>3, <1>6, AnswerOk DEF KInv
  <2>2. Withdrawn \in SUBSET Nat
    BY DEF Withdrawn, KInv, Typed
  <2>3. g \in GatedTask /\ g.req = r /\ g.at = at /\ g.gone = Withdrawn
    BY <1>3, <2>2 DEF GatedTask
  <2>4. \/ jobs' = [jobs EXCEPT ![j] = g] /\ UNCHANGED bodies
        \/ jobs' = [jobs EXCEPT ![j] = Idle] /\ Insert(r, at, Withdrawn)
    BY <1>6 DEF Store, Refuse
  <2> HIDE DEF g
  <2>5. GateOK(g)
    BY <2>1, <2>3 DEF GateOK
  <2>6. CASE jobs' = [jobs EXCEPT ![j] = g] /\ UNCHANGED bodies
    BY <1>2, <1>4, <2>3, <2>5, <2>6, GatedStep
  <2>7. CASE jobs' = [jobs EXCEPT ![j] = Idle] /\ Insert(r, at, Withdrawn)
    <3>1. \A k \in Job : k # j /\ jobs[k].pc = "gated" =>
              (g.req.sup = 0 \/ jobs[k].req.sup # g.req.sup)
      BY <1>4, <2>3 DEF RowFree
    <3>2. Insert(g.req, g.at, g.gone)
      BY <2>3, <2>7
    <3> QED
      BY <1>2, <1>4, <2>3, <2>5, <2>7, <3>1, <3>2, InsertStep
  <2> QED
    BY <2>4, <2>6, <2>7
<1> QED
  BY <1>5, <1>6

\* Postgres commits what its gates let through.
LEMMA PgCommitStep ==
    ASSUME KInv, NEW j \in Job, PgCommit(j)
    PROVE  KInv'
PROOF
<1>1. jobs[j] \in Task /\ jobs[j].pc = "gated"
  BY DEF KInv, Typed, PgCommit
<1>2. jobs[j] \in GatedTask /\ ~ Fetching(jobs[j])
  BY <1>1, TaskKinds DEF Fetching
<1>3. GateOK(jobs[j])
  BY <1>1 DEF KInv, StoreInv, JobsOK, JobOK
<1>4. PICK g \in GatedTask : g = jobs[j]
  BY <1>2
<1>5. \A k \in Job : k # j /\ jobs[k].pc = "gated" =>
          (g.req.sup = 0 \/ jobs[k].req.sup # g.req.sup)
  BY <1>1, <1>4 DEF KInv, StoreInv, RowsHeld
<1>6. /\ Insert(g.req, g.at, g.gone) /\ jobs' = [jobs EXCEPT ![j] = Idle]
      /\ UNCHANGED <<now, published, slot, seen, fetches, atts>>
  BY <1>4 DEF PgCommit, Refuse, issuer
<1> QED
  BY <1>2, <1>3, <1>4, <1>5, <1>6, InsertStep

(***************************************************************************)
(* The theorems.                                                           *)
(***************************************************************************)
\* Every step preserves the invariant.
LEMMA NextKInv == KInv /\ [Next]_vars => KInv'
PROOF
<1> SUFFICES ASSUME KInv, [Next]_vars PROVE KInv'
  OBVIOUS
<1>1. ASSUME NEW j \in Job, Step(j) PROVE KInv'
  <2>1. CASE \E maxage \in BOOLEAN : FetchEnds(j, maxage)
    BY <2>1, FetchEndsStep
  <2> QED
    BY <1>1, <2>1, KeysStep, RefreshStep, TokenStep, ListedStep, MintStep, IndexStep,
       ProveStep, StoreStep, PgCommitStep DEF Step
<1>2. ASSUME NEW j \in Job, Gone(j) PROVE KInv'
  BY <1>2, GoneStep
<1>3. ASSUME NEW j \in Job, NEW r \in Requests, Arrive(j, r) \/ Publish(j, r)
      PROVE  KInv'
  BY <1>3, ArriveStep, PublishStep
<1>4. ASSUME NEW i \in DOMAIN atts, Withdraw(i) PROVE KInv'
  BY <1>4, WithdrawStep
<1>5. ASSUME NEW k \in Kid, Rotate({k}) PROVE KInv'
  BY <1>5, RotateStep
<1>6. ASSUME NEW ids \in SUBSET Identity, Relist(ids) PROVE KInv'
  BY <1>6, Unnoticed DEF Relist, issuer, store
<1>7. CASE Outage
  BY <1>7, Unnoticed DEF Outage, store
<1>8. CASE DocExpires
  BY <1>8, Unnoticed DEF DocExpires, issuer, store
<1>9. CASE Tick
  BY <1>9, TickStep
<1>10. CASE UNCHANGED vars
  BY <1>10, Unnoticed DEF vars
<1> QED
  BY <1>1, <1>2, <1>3, <1>4, <1>5, <1>6, <1>7, <1>8, <1>9, <1>10 DEF Next

\* The inductive invariant holds throughout.
THEOREM KInvariance == Spec => []KInv
PROOF
  BY InitKInv, NextKInv, PTL DEF Spec

\* Everything stored under an attestation is covered by it: a token has one
\* attestation, which does not outlive it, and every body is dated inside its
\* window, was not committed by a transaction that saw it withdrawn, and
\* supersedes only what its signer may, once.
THEOREM StoredIsAttested == Spec => []BodiesAreAttested
PROOF
<1>1. KInv => BodiesAreAttested
  <2> SUFFICES ASSUME KInv PROVE BodiesAreAttested
    OBVIOUS
  <2>1. AttsOK /\ BodiesOK
    BY DEF KInv, StoreInv
  <2>2. OneMintPerToken
    BY <2>1 DEF AttsOK
  <2>3. InsideWindow
    BY <2>1 DEF AttsOK, BodiesOK, BodyOK, InsideWindow
  <2>4. WithdrawnStaysWithdrawn
    BY <2>1 DEF BodiesOK, BodyOK, WithdrawnStaysWithdrawn
  <2>5. LineageKeepsSigner
    BY <2>1 DEF BodiesOK, BodyOK, LineageKeepsSigner
  <2> QED
    BY <2>2, <2>3, <2>4, <2>5 DEF BodiesAreAttested
<1> QED
  BY <1>1, KInvariance, PTL

\* No token is accepted under a key that the issuer dropped longer ago than
\* the TTL and the stale window, and fetches of either kind that run to their
\* end begin a backoff window apart, whatever fails meanwhile.
THEOREM CacheIsBounded == Spec => []KeyCacheBounded
PROOF
<1>1. KInv => KeyCacheBounded
  <2> SUFFICES ASSUME KInv PROVE KeyCacheBounded
    OBVIOUS
  <2>1. KeysNotTooOld
    BY DEF KInv, CacheInv, FetchesOK, FetchOK, KeysNotTooOld
  <2>2. IssuerNotHammered
    BY Zenon DEF KInv, CacheInv, QuietOK, IssuerNotHammered
  <2> QED
    BY <2>1, <2>2 DEF KeyCacheBounded
<1> QED
  BY <1>1, KInvariance, PTL

\* The memory backend's commit, which asks the wrapped admission and then the
\* wrapped minter, refuses every keyless publish for the reason the SQL
\* backends' one sequence of checks gives, in every state.
THEOREM BackendsRefuseAlike == Spec => []RefusalsAgree
PROOF
<1>1. RefusalsAgree
  <2> SUFFICES ASSUME NEW r \in Requests, r.op = "publish"
               PROVE  MemoryRefusal(r, now) = Refusal(r, now)
    BY DEF RefusalsAgree
  <2>1. r.sup = 0 => Supersession(r) = "ok"
    BY DEF Supersession
  <2> QED
    BY <2>1, Zenon DEF MemoryRefusal, Refusal
<1> QED
  BY <1>1, PTL
=============================================================================
