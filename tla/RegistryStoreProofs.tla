------------------------ MODULE RegistryStoreProofs ------------------------
(***************************************************************************)
(* Proofs about RegistryStore and the reads of it (ContextReads), for      *)
(* every value of their constants.                                         *)
(*                                                                         *)
(* The inductive invariant IInv has four independent parts on top of the   *)
(* type invariant.                                                         *)
(*                                                                         *)
(* Lineages: LineageIsChain is inductive.  A publish extends a lineage only*)
(* at a context that is not superseded, which OnlyNewestActive makes the   *)
(* newest one, so its version is new (NoFork) and FirstVersion finds the   *)
(* lineage's root (Linked).                                                *)
(*                                                                         *)
(* Keys: uniqueness is not inductive.  IdemBacked ties every record to the *)
(* context it answers with, and KeyProtected says that a keyed context is  *)
(* still answered for by a record until some process's clock has passed    *)
(* its expiry, which is what keeps the next publish under the key out.     *)
(*                                                                         *)
(* Events: the retracted flag and the receipts only move with the event    *)
(* sequence of their context; a hole among the receipts stops minting.     *)
(*                                                                         *)
(* Feed: FeedInv relates the retained rows, the history of all rows, the   *)
(* last position and pruned_through.                                       *)
(*                                                                         *)
(* The next part is about what the registry keeps of its past: the         *)
(* transparency log, the change feed as the history of all it ever         *)
(* appended, and the tables that are only appended to.  The feed's         *)
(* promises are not inductive one by one: that a row is new (SaidOnce)     *)
(* follows from what the rows already there are about (SaysTrue), and that *)
(* supersessions are reported in version order (Ordered) from the          *)
(* predecessor having been the newest of its lineage.                      *)
(*                                                                         *)
(* The last part is about ContextReads: what get, lineage, current and the *)
(* audit serve when writers commit between the two queries of a read.  The *)
(* rows a read took are a snapshot of one lineage; RowsAreChain says of    *)
(* the snapshot alone what the audit will look for, so no later commit can *)
(* disturb it.  The events are read at the end, and agree with the         *)
(* retracted flags of that moment by IInv.                                 *)
(***************************************************************************)
EXTENDS ContextReads, FiniteSetTheorems, FunctionTheorems, WellFoundedInduction, TLAPS

(***************************************************************************)
(* Arithmetic and sequences.                                               *)
(***************************************************************************)
\* A nonempty set of naturals has a least element.
LEMMA LeastNat ==
    ASSUME NEW T, T \subseteq Nat, T # {}
    PROVE  \E x \in T : \A y \in T : x <= y
PROOF
<1> DEFINE R == OpToRel(<, Nat)
<1>1. \E x \in T : \A y \in T : ~ (<<y, x>> \in R)
  <2>1. IsWellFoundedOn(R, Nat)
    BY NatLessThanWellFounded
  <2> HIDE DEF R
  <2> QED BY <2>1, WFMin
<1>2. \A x, y \in Nat : <<y, x>> \in R <=> y < x
  BY DEF OpToRel
<1> HIDE DEF R
<1>3. PICK x \in T : \A y \in T : ~ (<<y, x>> \in R)
  BY <1>1
<1>4. \A y \in T : x <= y
  <2> TAKE y \in T
  <2>1. ~ (<<y, x>> \in R)
    BY <1>3
  <2>2. ~ (y < x)
    BY <2>1, <1>2
  <2> QED BY <2>2
<1> QED BY <1>4

\* The clocks a transaction can read are natural numbers, and no process
\* reads one more than Skew ahead of true time.
LEMMA ReadingsType ==
    ASSUME TypeOK
    PROVE  /\ Readings \subseteq Nat /\ FeedReadings \subseteq Nat
           /\ EntryReadings \subseteq Nat /\ Bases \subseteq Nat
           /\ \A t \in Readings \cup EntryReadings : t <= clock + Skew
           /\ \A b \in Bases : b >= lastSeq
BY ParameterAssumption
   DEF TypeOK, Readings, FeedReadings, EntryReadings, Bases

(***************************************************************************)
(* Lineages.                                                               *)
(***************************************************************************)
\* The root of a lineage is what its first-version query returns.
LEMMA FirstVersionIsRoot ==
    ASSUME TypeOK, LineageIsChain, NEW p \in Stored
    PROVE  FirstVersion(contexts[p].lineage) = contexts[p].lineage
PROOF
<1> DEFINE l == contexts[p].lineage
           IsFirst(x) ==
               /\ contexts[x].lineage = l
               /\ \A d \in Stored : contexts[d].lineage = l =>
                     contexts[x].content.version <= contexts[d].content.version
<1>1. /\ l \in Stored /\ Version(l) = 1
      /\ \A d \in Stored : Version(d) \in Nat \ {0}
  BY DEF TypeOK, LineageIsChain, Linked, Version, ContextRow, ContentType
<1>2. contexts[l].lineage = l
  <2>1. CASE Prev(l) = NoCtx
    BY <1>1, <2>1 DEF LineageIsChain, Linked
  <2>2. CASE Prev(l) # NoCtx
    <3>1. Prev(l) \in Stored /\ Version(l) = Version(Prev(l)) + 1
      BY <1>1, <2>2 DEF LineageIsChain, Linked
    <3> QED BY <3>1, <1>1
  <2> QED BY <2>1, <2>2
<1>3. IsFirst(l)
  BY <1>1, <1>2 DEF Version
<1>4. \A x \in Stored : IsFirst(x) => x = l
  <2> SUFFICES ASSUME NEW x \in Stored, IsFirst(x) PROVE x = l
    OBVIOUS
  <2>1. Version(x) <= Version(l)
    BY <1>1, <1>2 DEF Version
  <2>2. Version(x) = Version(l)
    BY <1>1, <2>1
  <2> QED BY <1>1, <1>2, <2>2 DEF LineageIsChain, NoFork
<1>5. FirstVersion(l) = CHOOSE x \in Stored : IsFirst(x)
  BY DEF FirstVersion
<1> HIDE DEF IsFirst, l
<1>6. FirstVersion(l) = l
  BY <1>1, <1>3, <1>4, <1>5
<1> QED BY <1>6 DEF l

\* What a publish of r as c does to the contexts table, and what it checked.
PublishEffect(c, r, minted, now) ==
    LET p == r.content.supersedes
    IN  /\ DOMAIN contexts' = Stored \cup {c}
        /\ contexts'[c] = NewRow(c, r, minted, now)
        /\ \A d \in Stored : contexts'[d] =
              IF d = p THEN [contexts[d] EXCEPT !.status = "superseded"]
              ELSE contexts[d]
        /\ NewRow(c, r, minted, now) \in ContextRow
        /\ p = NoCtx => r.content.version = 1 /\ AssignedLineage(c, r) = c
        /\ p # NoCtx => /\ p \in Stored
                        /\ contexts[p].status = "active"
                        /\ r.content.version = Version(p) + 1
                        /\ AssignedLineage(c, r) = contexts[p].lineage
                        /\ IsOwner(r.agent, p)
                        /\ SameTenant(r.tenant, p)

\* commit_publish has that effect.
LEMMA PublishRow ==
    ASSUME TypeOK, LineageIsChain,
           NEW c \in Ctx \ Stored, NEW r \in Request, NEW minted \in BOOLEAN,
           NEW now \in Nat, NEW base, NEW at,
           Publish(c, r, minted, now, base, at)
    PROVE  PublishEffect(c, r, minted, now)
PROOF
<1> DEFINE p == r.content.supersedes
<1>1. contexts' = WithPublished(c, r, minted, now)
  BY DEF Publish
<1>2. SupersessionOutcome(r) = "ok"
  BY DEF Publish, PublishOutcome
<1>3. r.content \in Content /\ r.content \in ContentType
  BY ContentAssumption DEF Request
<1>4. ASSUME p # NoCtx
      PROVE  /\ p \in Stored /\ contexts[p].status = "active"
             /\ r.content.version = Version(p) + 1
             /\ IsOwner(r.agent, p) /\ SameTenant(r.tenant, p)
  <2>1. p \in Stored /\ IsOwner(r.agent, p) /\ SameTenant(r.tenant, p)
    BY <1>2, <1>4 DEF SupersessionOutcome
  <2>2. r.content.version = contexts[p].content.version + 1
    BY <1>2, <1>4, <2>1 DEF SupersessionOutcome
  <2>3. contexts[p].status # "superseded"
    BY <1>2, <1>4, <2>1, <2>2 DEF SupersessionOutcome
  <2> QED BY <2>1, <2>2, <2>3 DEF TypeOK, ContextRow, Version
<1>5. p = NoCtx => r.content.version = 1 /\ AssignedLineage(c, r) = c
  BY <1>3, ContentAssumption DEF AssignedLineage
<1>6. p # NoCtx => AssignedLineage(c, r) = contexts[p].lineage
  BY <1>4, FirstVersionIsRoot DEF AssignedLineage
<1>7. AssignedLineage(c, r) \in Ctx
  BY <1>4, <1>5, <1>6 DEF TypeOK, ContextRow, Lineage
<1>8. NewRow(c, r, minted, now) \in ContextRow
  BY <1>3, <1>7, NameAssumption
     DEF NewRow, ContextRow, Request, Lineage, TypeOK
<1>9. /\ DOMAIN contexts' = Stored \cup {c}
      /\ contexts'[c] = NewRow(c, r, minted, now)
      /\ \A d \in Stored : contexts'[d] =
            IF d = p THEN [contexts[d] EXCEPT !.status = "superseded"]
            ELSE contexts[d]
  BY <1>1 DEF WithPublished, Stored
<1> QED BY <1>4, <1>5, <1>6, <1>8, <1>9 DEF PublishEffect

\* A publish keeps every lineage a chain.
LEMMA PublishLineage ==
    ASSUME TypeOK, LineageIsChain,
           NEW c \in Ctx \ Stored, NEW r \in Request, NEW minted \in BOOLEAN,
           NEW now \in Nat, NEW base, NEW at,
           Publish(c, r, minted, now, base, at)
    PROVE  LineageIsChain'
PROOF
<1> DEFINE p == r.content.supersedes
           ver(d) == contexts[d].content.version
           lin(d) == contexts[d].lineage
           prv(d) == contexts[d].content.supersedes
<1>0. PublishEffect(c, r, minted, now)
  BY PublishRow
<1>1. /\ Stored' = Stored \cup {c} /\ c \in Ctx /\ c \notin Stored
      /\ Stored \subseteq Ctx
  BY <1>0 DEF PublishEffect, Stored, TypeOK
<1>2. \A d \in Stored :
         /\ ver(d) \in Nat \ {0} /\ lin(d) \in Stored
         /\ prv(d) # NoCtx => prv(d) \in Stored
         /\ contexts[d].status \in {"active", "superseded"}
  BY DEF TypeOK, LineageIsChain, Linked, ContextRow, ContentType, Prev
<1>3. \A d \in Stored :
         /\ Prev(d)' = prv(d) /\ Version(d)' = ver(d)
         /\ contexts'[d].lineage = lin(d)
         /\ contexts'[d].status =
               IF d = p THEN "superseded" ELSE contexts[d].status
  <2> TAKE d \in Stored
  <2>1. contexts[d] \in ContextRow
    BY DEF TypeOK
  <2>2. contexts'[d] = IF d = p THEN [contexts[d] EXCEPT !.status = "superseded"]
                       ELSE contexts[d]
    BY <1>0 DEF PublishEffect
  <2>3. /\ contexts'[d].content = contexts[d].content
        /\ contexts'[d].lineage = contexts[d].lineage
        /\ contexts'[d].status =
              IF d = p THEN "superseded" ELSE contexts[d].status
    BY ONLY <2>1, <2>2 DEF ContextRow
  <2> QED BY <2>3 DEF Prev, Version
<1>4. /\ Prev(c)' = p /\ Version(c)' = r.content.version
      /\ contexts'[c].lineage = AssignedLineage(c, r)
      /\ contexts'[c].status = "active"
  BY <1>0 DEF PublishEffect, Prev, Version, NewRow
<1>5. /\ p = NoCtx => r.content.version = 1 /\ AssignedLineage(c, r) = c
      /\ p # NoCtx => /\ p \in Stored /\ contexts[p].status = "active"
                      /\ r.content.version = ver(p) + 1
                      /\ AssignedLineage(c, r) = lin(p)
  BY <1>0 DEF PublishEffect, Version
<1>6. NoCtx \notin Stored
  BY NameAssumption DEF TypeOK
<1>7. /\ Linked /\ SupersededIffSuccessor /\ NoFork /\ OnlyNewestActive
  BY DEF LineageIsChain
\* The newest version of the extended lineage was its predecessor.
<1>8. \A d \in Stored : lin(d) = AssignedLineage(c, r) =>
         p # NoCtx /\ ver(d) <= ver(p)
  <2> SUFFICES ASSUME NEW d \in Stored, lin(d) = AssignedLineage(c, r)
               PROVE  p # NoCtx /\ ver(d) <= ver(p)
    OBVIOUS
  <2>1. p # NoCtx
    BY <1>1, <1>2, <1>5
  <2> QED BY <2>1, <1>5, <1>7 DEF OnlyNewestActive, Version
<1>9. Linked'
  <2> SUFFICES ASSUME NEW d \in Stored \cup {c}
               PROVE  /\ IF Prev(d)' = NoCtx
                         THEN Version(d)' = 1 /\ contexts'[d].lineage = d
                         ELSE /\ Prev(d)' \in Stored \cup {c}
                              /\ contexts'[d].lineage = contexts'[Prev(d)'].lineage
                              /\ Version(d)' = contexts'[Prev(d)'].content.version + 1
                      /\ contexts'[d].lineage \in Stored \cup {c}
                      /\ contexts'[contexts'[d].lineage].content.version = 1
    BY <1>1 DEF Linked, Version, Prev
  <2>1. \A e \in Stored : contexts'[e].content.version = ver(e)
    BY <1>3 DEF Version
  <2>2. CASE d \in Stored
    <3>1. IF prv(d) = NoCtx THEN ver(d) = 1 /\ lin(d) = d
          ELSE lin(d) = lin(prv(d)) /\ ver(d) = ver(prv(d)) + 1
      BY <2>2, <1>7 DEF Linked, Prev, Version
    <3>2. ver(lin(d)) = 1
      BY <2>2, <1>7 DEF Linked, Version
    <3> QED BY <2>1, <2>2, <3>1, <3>2, <1>2, <1>3
  <2>3. CASE d = c
    <3>1. CASE p = NoCtx
      BY <2>3, <3>1, <1>4, <1>5 DEF Version
    <3>2. CASE p # NoCtx
      <4>1. ver(lin(p)) = 1 /\ lin(p) \in Stored
        BY <3>2, <1>5, <1>7 DEF Linked, Version
      <4> QED BY <2>1, <2>3, <3>2, <4>1, <1>3, <1>4, <1>5
    <3> QED BY <3>1, <3>2
  <2> QED BY <2>2, <2>3
<1>10. SupersededIffSuccessor'
  <2> SUFFICES ASSUME NEW d \in Stored \cup {c}
               PROVE  (contexts'[d].status = "superseded")
                         <=> \E e \in Stored \cup {c} : Prev(e)' = d
    BY <1>1 DEF SupersededIffSuccessor
  <2>1. CASE d = c
    <3>1. contexts'[d].status # "superseded"
      BY <2>1, <1>4
    <3>2. \A e \in Stored : Prev(e)' # c
      BY <1>1, <1>2, <1>3, NameAssumption
    <3>3. Prev(c)' # c
      BY <1>1, <1>4, <1>5, NameAssumption
    <3> QED BY <2>1, <3>1, <3>2, <3>3
  <2>2. CASE d \in Stored
    <3>1. (contexts[d].status = "superseded") <=> \E e \in Stored : prv(e) = d
      BY <2>2, <1>7 DEF SupersededIffSuccessor, Prev
    <3> QED BY <2>2, <3>1, <1>1, <1>3, <1>4
  <2> QED BY <2>1, <2>2
<1>11. NoFork'
  <2> SUFFICES ASSUME NEW d \in Stored \cup {c}, NEW e \in Stored \cup {c},
                      contexts'[d].lineage = contexts'[e].lineage,
                      Version(d)' = Version(e)'
               PROVE  d = e
    BY <1>1 DEF NoFork
  <2>1. CASE d \in Stored /\ e \in Stored
    BY <2>1, <1>3, <1>7 DEF NoFork, Version
  <2>2. ASSUME NEW x \in Stored, contexts'[x].lineage = contexts'[c].lineage
        PROVE  Version(x)' # Version(c)'
    <3>1. lin(x) = AssignedLineage(c, r)
      BY <2>2, <1>3, <1>4
    <3>2. p # NoCtx /\ ver(x) <= ver(p) /\ p \in Stored
      BY <3>1, <1>5, <1>8
    <3> QED BY <3>2, <1>2, <1>3, <1>4, <1>5
  <2> QED BY <2>1, <2>2
<1>12. OnlyNewestActive'
  <2> SUFFICES ASSUME NEW d \in Stored \cup {c}, NEW e \in Stored \cup {c},
                      contexts'[d].status = "active",
                      contexts'[d].lineage = contexts'[e].lineage
               PROVE  Version(e)' <= Version(d)'
    BY <1>1 DEF OnlyNewestActive
  <2>1. CASE d \in Stored /\ e \in Stored
    BY <2>1, <1>3, <1>7 DEF OnlyNewestActive, Version
  <2>2. CASE d = c /\ e \in Stored
    <3>1. p # NoCtx /\ ver(e) <= ver(p) /\ p \in Stored
      BY <2>2, <1>3, <1>4, <1>5, <1>8
    <3> QED BY <2>2, <3>1, <1>2, <1>3, <1>4, <1>5
  <2>3. CASE d \in Stored /\ e = c
    <3>1. p # NoCtx /\ ver(d) <= ver(p) /\ p \in Stored /\ lin(d) = lin(p)
      BY <2>3, <1>3, <1>4, <1>5, <1>8
    <3>2. d # p /\ contexts[d].status = "active"
      BY <2>3, <1>3
    <3>3. ver(p) <= ver(d)
      BY <2>3, <3>1, <3>2, <1>7 DEF OnlyNewestActive, Version
    <3>4. ver(p) = ver(d)
      BY <2>3, <3>1, <3>3, <1>2
    <3> QED BY <2>3, <3>1, <3>2, <3>4, <1>7 DEF NoFork, Version
  <2>4. CASE d = c /\ e = c
    <3>1. Version(c)' \in Nat
      BY <1>2, <1>4, <1>5
    <3> QED BY <2>4, <3>1
  <2> QED BY <2>1, <2>2, <2>3, <2>4
<1> QED BY <1>9, <1>10, <1>11, <1>12 DEF LineageIsChain

\* A step that keeps every context's body, lineage and status keeps the
\* lineages.
LEMMA SameLineage ==
    ASSUME LineageIsChain, DOMAIN contexts' = Stored,
           \A d \in Stored : /\ contexts'[d].content = contexts[d].content
                             /\ contexts'[d].lineage = contexts[d].lineage
                             /\ contexts'[d].status = contexts[d].status
    PROVE  LineageIsChain'
PROOF
<1>1. /\ Stored' = Stored
      /\ \A d \in Stored : Prev(d)' = Prev(d) /\ Version(d)' = Version(d)
  BY DEF Stored, Prev, Version
<1>2. /\ Linked /\ SupersededIffSuccessor /\ NoFork /\ OnlyNewestActive
  BY DEF LineageIsChain
<1>3. Linked'
  <2>1. \A d \in Stored : Prev(d) # NoCtx => Prev(d) \in Stored
    BY <1>2 DEF Linked
  <2> QED BY <1>1, <1>2, <2>1 DEF Linked, Version
<1>4. SupersededIffSuccessor'
  BY <1>1, <1>2 DEF SupersededIffSuccessor
<1>5. NoFork' /\ OnlyNewestActive'
  BY <1>1, <1>2 DEF NoFork, OnlyNewestActive
<1> QED BY <1>3, <1>4, <1>5 DEF LineageIsChain

(***************************************************************************)
(* Event receipts.                                                         *)
(***************************************************************************)
\* A chained history has a latest receipt, or none at all.
LEMMA LatestReceipt ==
    ASSUME NEW s \in Seq(Event), NEW created \in Nat,
           ReceiptsChained(s, created)
    PROVE  \/ \A i \in DOMAIN s : s[i].receipt = NoReceipt
           \/ \E m \in DOMAIN s :
                 /\ s[m].receipt \in Nat
                 /\ \A i \in DOMAIN s : s[i].receipt <= s[m].receipt
PROOF
<1> DEFINE J == {i \in DOMAIN s : s[i].receipt # NoReceipt}
           U == {n \in Nat : \A i \in J : i <= n}
<1>1. /\ DOMAIN s = 1 .. Len(s) /\ Len(s) \in Nat
      /\ \A i \in DOMAIN s : s[i].receipt \in Nat \cup {NoReceipt}
  <2>1. \A i \in DOMAIN s : s[i] \in Event
    OBVIOUS
  <2> QED BY <2>1 DEF Event
<1>2. CASE J = {}
  BY <1>2
<1>3. CASE J # {}
  <2>1. Len(s) \in U
    BY <1>1
  <2>2. PICK m \in U : \A n \in U : m <= n
    <3>1. U \subseteq Nat /\ U # {}
      BY <2>1
    <3> HIDE DEF U
    <3> QED BY <3>1, LeastNat
  <2>3. m \in J
    <3> SUFFICES ASSUME m \notin J PROVE FALSE
      OBVIOUS
    <3>1. PICK k \in J : TRUE
      BY <1>3
    <3>2. m - 1 \in Nat
      BY <1>1, <3>1, <2>2
    <3>3. \A i \in J : i <= m - 1
      BY <1>1, <2>2
    <3>4. m - 1 \in U
      BY <3>2, <3>3
    <3> QED BY <2>2, <3>2, <3>4
  <2>4. m \in DOMAIN s /\ s[m].receipt \in Nat
    BY <1>1, <2>3
  <2>5. \A i \in DOMAIN s : s[i].receipt <= s[m].receipt
    <3> TAKE i \in DOMAIN s
    <3>1. CASE i \in J
      <4>1. i \in 1 .. m
        BY <1>1, <2>2, <3>1
      <4> QED BY <2>3, <4>1 DEF ReceiptsChained
    <3>2. CASE i \notin J
      BY <2>4, <3>2 DEF NoReceipt
    <3> QED BY <3>1, <3>2
  <2> QED BY <2>4, <2>5
<1> QED BY <1>2, <1>3

\* clamp_accepted_at gives a time no earlier than the clock, the context and
\* every receipt of the history.
LEMMA AcceptedAtBound ==
    ASSUME NEW s \in Seq(Event), NEW created \in Nat, NEW now \in Nat,
           ReceiptsChained(s, created)
    PROVE  /\ AcceptedAt(s, created, now) \in Nat
           /\ AcceptedAt(s, created, now) >= created
           /\ \A i \in DOMAIN s : AcceptedAt(s, created, now) >= s[i].receipt
PROOF
<1> DEFINE T == {now, created} \cup {s[i].receipt : i \in DOMAIN s}
           Top(t) == /\ t >= now /\ t >= created
                     /\ \A i \in DOMAIN s : t >= s[i].receipt
<1>1. \A i \in DOMAIN s : s[i].receipt \in Nat \cup {-1}
  <2>1. \A i \in DOMAIN s : s[i] \in Event
    OBVIOUS
  <2> QED BY <2>1 DEF Event, NoReceipt
<1>2. \E t \in T : Top(t)
  <2>1. CASE \A i \in DOMAIN s : s[i].receipt = NoReceipt
    <3>1. \A i \in DOMAIN s : now >= s[i].receipt /\ created >= s[i].receipt
      BY <2>1 DEF NoReceipt
    <3>2. now \in T /\ created \in T
      OBVIOUS
    <3>3. now >= created => Top(now)
      BY <3>1
    <3>4. created >= now => Top(created)
      BY <3>1
    <3>5. now >= created \/ created >= now
      OBVIOUS
    <3> HIDE DEF T, Top
    <3> QED BY <3>2, <3>3, <3>4, <3>5
  <2>2. ASSUME NEW m \in DOMAIN s, s[m].receipt \in Nat,
               \A i \in DOMAIN s : s[i].receipt <= s[m].receipt
        PROVE  \E t \in T : Top(t)
    <3> DEFINE r == s[m].receipt
    <3>1. now \in T /\ created \in T /\ r \in T
      BY <2>2
    <3>2. now >= created /\ now >= r => Top(now)
      BY <1>1, <2>2
    <3>3. created >= now /\ created >= r => Top(created)
      BY <1>1, <2>2
    <3>4. r >= now /\ r >= created => Top(r)
      BY <1>1, <2>2
    <3>5. \/ now >= created /\ now >= r
          \/ created >= now /\ created >= r
          \/ r >= now /\ r >= created
      BY <2>2
    <3> HIDE DEF T, Top, r
    <3> QED BY <3>1, <3>2, <3>3, <3>4, <3>5
  <2> QED BY <2>1, <2>2, LatestReceipt
<1>3. AcceptedAt(s, created, now) = CHOOSE t \in T : Top(t)
  BY DEF AcceptedAt
<1> DEFINE a == AcceptedAt(s, created, now)
<1>4. a \in T /\ Top(a)
  <2> HIDE DEF T, Top
  <2> QED BY <1>2, <1>3
<1>5. a \in Nat
  BY <1>1, <1>4
<1> QED BY <1>4, <1>5

\* t continues the history s by one event of this type and is chained.
Continues(s, t, type, created) ==
    /\ t \in Seq(Event) /\ Len(t) = Len(s) + 1
    /\ \A i \in DOMAIN s : t[i].type = s[i].type /\ t[i].id = s[i].id
    /\ t[Len(t)].type = type
    /\ ReceiptsChained(t, created)

\* Appending an event, with or without a signer, keeps the history chained.
LEMMA WithEventChained ==
    ASSUME NEW s \in Seq(Event), NEW created \in Nat, NEW at \in Nat,
           ReceiptsChained(s, created), at >= created,
           \A i \in DOMAIN s : at >= s[i].receipt,
           NEW id \in EventId, NEW type \in {"retracted", "republished"},
           NEW mints \in BOOLEAN
    PROVE  Continues(s, WithEvent(s, id, type, mints, at), type, created)
PROOF
<1> DEFINE new == [id |-> id, type |-> type,
                   receipt |-> IF mints THEN at ELSE NoReceipt]
           u == IF mints THEN Filled(s, at) ELSE s
           t == Append(u, new)
<1>1. ~ HasHole(s)
  BY DEF HasHole, ReceiptsChained
<1>2. WithEvent(s, id, type, mints, at) = t
  BY <1>1 DEF WithEvent
<1>3. new \in Event
  BY DEF Event
<1>4. /\ DOMAIN s = 1 .. Len(s) /\ Len(s) \in Nat
      /\ \A i \in 1 .. Len(s) : s[i] \in Event
  OBVIOUS
<1>5. u \in Seq(Event) /\ Len(u) = Len(s)
      /\ \A i \in 1 .. Len(s) : /\ u[i].type = s[i].type /\ u[i].id = s[i].id
                                /\ mints => /\ u[i].receipt \in Nat
                                            /\ u[i].receipt <= at
                                /\ s[i].receipt # NoReceipt =>
                                      u[i].receipt = s[i].receipt
                                /\ mints /\ s[i].receipt = NoReceipt =>
                                      u[i].receipt = at
                                /\ ~ mints => u[i].receipt = s[i].receipt
  <2>1. CASE ~ mints
    BY <2>1
  <2>2. CASE mints
    <3>1. u = Filled(s, at)
      BY <2>2
    <3>2. \A i \in 1 .. Len(s) :
             u[i] = IF s[i].receipt = NoReceipt
                    THEN [s[i] EXCEPT !.receipt = at] ELSE s[i]
      BY <1>4, <3>1 DEF Filled
    <3>3. \A i \in 1 .. Len(s) :
             /\ u[i] \in Event /\ u[i].type = s[i].type /\ u[i].id = s[i].id
             /\ u[i].receipt = IF s[i].receipt = NoReceipt THEN at
                               ELSE s[i].receipt
      BY <1>4, <3>2 DEF Event
    <3>4. u \in Seq(Event) /\ Len(u) = Len(s)
      <4>1. u = [i \in 1 .. Len(s) |-> u[i]]
        BY <1>4, <3>1 DEF Filled
      <4> HIDE DEF u
      <4> QED BY <1>4, <3>3, <4>1
    <3>5. \A i \in 1 .. Len(s) : u[i].receipt \in Nat /\ u[i].receipt <= at
      BY <1>4, <3>3 DEF Event
    <3> QED BY <2>2, <3>3, <3>4, <3>5
  <2> QED BY <2>1, <2>2
<1> HIDE DEF u
<1>6. /\ t \in Seq(Event) /\ Len(t) = Len(s) + 1
      /\ DOMAIN t = 1 .. Len(s) + 1
      /\ \A i \in 1 .. Len(s) : t[i] = u[i]
      /\ t[Len(s) + 1] = new
  BY <1>3, <1>4, <1>5
<1> HIDE DEF t
<1>7. ReceiptsChained(t, created)
  <2> SUFFICES ASSUME NEW j \in 1 .. Len(s) + 1, t[j].receipt # NoReceipt
               PROVE  /\ t[j].receipt >= created
                      /\ \A i \in 1 .. j : /\ t[i].receipt # NoReceipt
                                           /\ t[i].receipt <= t[j].receipt
    BY <1>6 DEF ReceiptsChained
  <2>1. CASE ~ mints
    <3>1. j \in 1 .. Len(s) /\ s[j].receipt # NoReceipt
      BY <2>1, <1>4, <1>5, <1>6
    <3>2. \A i \in 1 .. j : t[i].receipt = s[i].receipt
      BY <2>1, <3>1, <1>4, <1>5, <1>6
    <3>3. t[j].receipt = s[j].receipt
      BY <3>1, <3>2, <1>4
    <3> QED BY <3>1, <3>2, <3>3, <1>4 DEF ReceiptsChained
  <2>2. CASE mints
    <3>1. \A i \in 1 .. Len(s) + 1 :
             t[i].receipt \in Nat /\ t[i].receipt <= at
      BY <2>2, <1>4, <1>5, <1>6
    <3>2. CASE j = Len(s) + 1
      BY <2>2, <3>1, <3>2, <1>4, <1>6 DEF NoReceipt
    <3>3. CASE j \in 1 .. Len(s) /\ s[j].receipt = NoReceipt
      <4>1. t[j].receipt = at
        BY <2>2, <3>3, <1>5, <1>6
      <4>2. \A i \in 1 .. j : i \in 1 .. Len(s) + 1
        BY <1>4
      <4>3. \A i \in 1 .. j : t[i].receipt \in Nat /\ t[i].receipt <= at
        BY <3>1, <4>2
      <4> QED BY <4>1, <4>3 DEF NoReceipt
    <3>4. CASE j \in 1 .. Len(s) /\ s[j].receipt # NoReceipt
      <4>1. \A i \in 1 .. j : i \in 1 .. Len(s)
        BY <3>4, <1>4
      <4>2. \A i \in 1 .. j : /\ s[i].receipt # NoReceipt
                              /\ s[i].receipt <= s[j].receipt
        BY <3>4, <1>4 DEF ReceiptsChained
      <4>3. \A i \in 1 .. j : t[i].receipt = s[i].receipt
        BY <4>1, <4>2, <1>5, <1>6
      <4>4. s[j].receipt >= created
        BY <3>4, <1>4 DEF ReceiptsChained
      <4>5. t[j].receipt = s[j].receipt
        BY <3>4, <4>3, <1>4
      <4> QED BY <4>2, <4>3, <4>4, <4>5
    <3> QED BY <3>2, <3>3, <3>4, <1>4
  <2> QED BY <2>1, <2>2
<1>8. /\ \A i \in DOMAIN s : t[i].type = s[i].type /\ t[i].id = s[i].id
      /\ t[Len(t)].type = type
  BY <1>4, <1>5, <1>6
<1> QED BY <1>2, <1>6, <1>7, <1>8 DEF Continues

\* Filling the NULL receipts keeps the history and its chain.
LEMMA FilledChained ==
    ASSUME NEW s \in Seq(Event), NEW created \in Nat, NEW at \in Nat,
           ReceiptsChained(s, created), at >= created,
           \A i \in DOMAIN s : at >= s[i].receipt
    PROVE  /\ Filled(s, at) \in Seq(Event) /\ Len(Filled(s, at)) = Len(s)
           /\ \A i \in DOMAIN s : /\ Filled(s, at)[i].type = s[i].type
                                  /\ Filled(s, at)[i].id = s[i].id
           /\ ReceiptsChained(Filled(s, at), created)
PROOF
<1> DEFINE u == Filled(s, at)
<1>1. /\ DOMAIN s = 1 .. Len(s) /\ Len(s) \in Nat
      /\ \A i \in 1 .. Len(s) : s[i] \in Event
  OBVIOUS
<1>2. /\ u = [i \in 1 .. Len(s) |-> u[i]]
      /\ \A i \in 1 .. Len(s) :
            u[i] = IF s[i].receipt = NoReceipt
                   THEN [s[i] EXCEPT !.receipt = at] ELSE s[i]
  BY <1>1 DEF Filled
<1> HIDE DEF u
<1>3. \A i \in 1 .. Len(s) :
         /\ u[i] \in Event /\ u[i].type = s[i].type /\ u[i].id = s[i].id
         /\ u[i].receipt = IF s[i].receipt = NoReceipt THEN at
                           ELSE s[i].receipt
         /\ s[i].receipt # NoReceipt => s[i].receipt \in Nat
  BY <1>1, <1>2 DEF Event
<1>4. u \in Seq(Event) /\ Len(u) = Len(s) /\ DOMAIN u = 1 .. Len(s)
  BY <1>1, <1>2, <1>3
<1>5. \A i \in 1 .. Len(s) : u[i].receipt \in Nat /\ u[i].receipt <= at
  BY <1>1, <1>3
<1>6. ReceiptsChained(u, created)
  <2> SUFFICES ASSUME NEW j \in 1 .. Len(s)
               PROVE  /\ u[j].receipt >= created
                      /\ \A i \in 1 .. j : /\ u[i].receipt # NoReceipt
                                           /\ u[i].receipt <= u[j].receipt
    BY <1>4 DEF ReceiptsChained
  <2>1. \A i \in 1 .. j : i \in 1 .. Len(s) /\ u[i].receipt # NoReceipt
    BY <1>1, <1>5 DEF NoReceipt
  <2>2. CASE s[j].receipt = NoReceipt
    <3>1. u[j].receipt = at
      BY <2>2, <1>3
    <3> QED BY <3>1, <2>1, <1>5
  <2>3. CASE s[j].receipt # NoReceipt
    <3>1. /\ s[j].receipt >= created
          /\ \A i \in 1 .. j : /\ s[i].receipt # NoReceipt
                               /\ s[i].receipt <= s[j].receipt
      BY <2>3, <1>1 DEF ReceiptsChained
    <3>2. \A i \in 1 .. j : u[i].receipt = s[i].receipt
      BY <3>1, <2>1, <1>3
    <3>3. u[j].receipt = s[j].receipt
      BY <2>3, <1>3
    <3> QED BY <3>1, <3>2, <3>3, <2>1
  <2> QED BY <2>2, <2>3
<1> QED BY <1>1, <1>3, <1>4, <1>6 DEF u

(***************************************************************************)
(* The inductive invariant.                                                *)
(***************************************************************************)
\* A record belongs to the stored context that the publish it answers for
\* inserted, and expires a TTL after that context was created.
IdemBacked ==
    \A k \in DOMAIN idem :
        LET row == contexts[idem[k].ctx]
        IN  /\ idem[k].ctx \in Stored
            /\ row.agent = k[1] /\ row.key = k[2]
            /\ row.content = idem[k].content
            /\ idem[k].expires = row.created + TTL

\* A keyed context has its record until some clock can have passed its TTL.
KeyProtected ==
    \A c \in Stored :
        LET k == <<contexts[c].agent, contexts[c].key>>
        IN  contexts[c].key # NoKey =>
                \/ k \in DOMAIN idem /\ idem[k].ctx = c
                \/ contexts[c].created + TTL <= clock + Skew

KeyInv == IdemBacked /\ KeyProtected /\ KeyUniqueWithinTtl

FeedInv ==
    /\ FeedIsSuffix
    /\ prunedThrough <= lastSeq
    /\ \A x \in appended : x.seq <= lastSeq

EventInv == RetractionConsistent /\ ReceiptChain

IInv ==
    /\ TypeOK /\ LineageIsChain /\ ProducerContinuity
    /\ EventInv /\ KeyInv /\ FeedInv

\* The empty registry satisfies it.
LEMMA InitIInv == Init => IInv
PROOF
<1> SUFFICES ASSUME Init PROVE IInv
  OBVIOUS
<1>1. /\ Stored = {} /\ DOMAIN contexts = {} /\ DOMAIN idem = {}
      /\ contexts \in [Stored -> ContextRow]
      /\ idem \in [DOMAIN idem -> IdemRow]
  BY DEF Init, Stored
<1>2. events \in [Ctx -> Seq(Event)] /\ leaves \in Seq(Ctx)
  BY DEF Init
<1>3. TypeOK
  BY <1>1, <1>2 DEF Init, TypeOK
<1>4. LineageIsChain /\ ProducerContinuity
  BY <1>1 DEF LineageIsChain, Linked, SupersededIffSuccessor, NoFork,
              OnlyNewestActive, ProducerContinuity
<1>5. EventInv
  BY <1>1 DEF EventInv, RetractionConsistent, ReceiptChain, Init
<1>6. KeyInv
  BY <1>1 DEF KeyInv, IdemBacked, KeyProtected, KeyUniqueWithinTtl
<1>7. FeedInv
  BY DEF FeedInv, FeedIsSuffix, Init
<1> QED BY <1>3, <1>4, <1>5, <1>6, <1>7 DEF IInv

\* Rows appended past the head leave the retained rows a suffix.
LEMMA AppendFeed ==
    ASSUME TypeOK, FeedInv, NEW rows, NEW n \in Nat, NEW base \in Nat,
           base >= lastSeq, AppendRows(rows, n, base),
           rows \subseteq FeedRow, prunedThrough' = prunedThrough,
           \A x \in rows : x.seq > base /\ x.seq <= base + n,
           n = 0 => rows = {}
    PROVE  /\ FeedInv'
           /\ changes' \subseteq appended' /\ appended' \subseteq FeedRow
           /\ lastSeq' \in Nat /\ lastSeq' >= lastSeq
           /\ \A x \in changes' \ changes : x.seq > lastSeq
PROOF
<1>1. /\ changes' = changes \cup rows /\ appended' = appended \cup rows
      /\ lastSeq' = IF n = 0 THEN lastSeq ELSE base + n
  BY DEF AppendRows
<1>2. lastSeq \in Nat /\ prunedThrough \in Nat
      /\ changes \subseteq appended /\ appended \subseteq FeedRow
  BY DEF TypeOK
<1>3. \A x \in appended \cup rows : x.seq \in Nat
  BY <1>2 DEF FeedRow
<1>4. lastSeq' \in Nat /\ lastSeq' >= lastSeq
  BY <1>1, <1>2
<1>5. \A x \in rows : x.seq > lastSeq /\ x.seq <= lastSeq'
  BY <1>1, <1>2, <1>3
<1>6. FeedIsSuffix'
  BY <1>1, <1>2, <1>3, <1>5 DEF FeedInv, FeedIsSuffix
<1>7. FeedInv'
  BY <1>1, <1>2, <1>3, <1>4, <1>5, <1>6 DEF FeedInv
<1> QED BY <1>1, <1>2, <1>4, <1>5, <1>7

\* What a publish appends to the feed.
LEMMA PublishFeed ==
    ASSUME TypeOK, FeedInv, NEW c \in Ctx, NEW r \in Request,
           NEW minted \in BOOLEAN, NEW now \in Nat, NEW base \in Nat,
           base >= lastSeq, NEW at \in Nat,
           Publish(c, r, minted, now, base, at)
    PROVE  /\ FeedInv'
           /\ changes' \subseteq appended' /\ appended' \subseteq FeedRow
           /\ lastSeq' \in Nat /\ lastSeq' >= lastSeq
           /\ \A x \in changes' \ changes : x.seq > lastSeq
PROOF
<1>1. prunedThrough' = prunedThrough
  BY DEF Publish
<1>2. r.content.supersedes \in Ctx \cup {NoCtx} /\ r.content.revokes \in BOOLEAN
  BY ContentAssumption DEF Request, ContentType
<1>3. CASE minted
  <2> DEFINE rows == PublishRows(c, r, base, at)
             n == PublishRowCount(r)
  <2>1. AppendRows(rows, n, base)
    BY <1>3 DEF Publish
  <2>2. n \in Nat /\ (n = 0 => rows = {})
    BY <1>2 DEF PublishRowCount, PublishRows, SupersededRows, RevocationRows
  <2>3. \A x \in rows : x \in FeedRow /\ x.seq > base /\ x.seq <= base + n
    <3>1. \A x \in SupersededRows(c, r, base, at) :
             x \in FeedRow /\ x.seq > base /\ x.seq <= base + n
      BY <1>2 DEF SupersededRows, PublishRowCount, FeedRow
    <3>2. \A x \in RevocationRows(c, r, base, at) :
             x \in FeedRow /\ x.seq > base /\ x.seq <= base + n
      BY <1>2 DEF RevocationRows, PublishRowCount, FeedRow
    <3> QED BY <3>1, <3>2 DEF PublishRows
  <2> HIDE DEF rows, n
  <2> QED BY <1>1, <2>1, <2>2, <2>3, AppendFeed
<1>4. CASE ~ minted
  <2>1. AppendRows({}, 0, base)
    BY <1>4 DEF Publish
  <2> QED BY <1>1, <2>1, AppendFeed
<1> QED BY <1>3, <1>4

\* commit_publish preserves the invariant.
LEMMA PublishStep ==
    ASSUME IInv, NEW c \in Ctx \ Stored, NEW r \in Request,
           NEW minted \in BOOLEAN, NEW now \in Nat, now <= clock + Skew,
           NEW base \in Nat, base >= lastSeq, NEW at \in Nat,
           Publish(c, r, minted, now, base, at)
    PROVE  IInv'
PROOF
<1>0. /\ TypeOK /\ LineageIsChain /\ ProducerContinuity
      /\ EventInv /\ KeyInv /\ FeedInv
  BY DEF IInv
<1> DEFINE p == r.content.supersedes
           new == NewRow(c, r, minted, now)
           kk == <<r.agent, r.key>>
<1>1. PublishEffect(c, r, minted, now)
  BY <1>0, PublishRow
<1>2. /\ Stored' = Stored \cup {c} /\ c \in Ctx /\ c \notin Stored
      /\ DOMAIN contexts' = Stored \cup {c}
      /\ contexts'[c] = new /\ new \in ContextRow
  BY <1>1 DEF PublishEffect, Stored
<1>3. /\ r.agent \in Agent /\ r.key \in Key \cup {NoKey}
      /\ r.content \in ContentType
  BY ContentAssumption DEF Request
<1>4. /\ new.agent = r.agent /\ new.key = r.key /\ new.content = r.content
      /\ new.created = now /\ new.committed = clock /\ new.retracted = FALSE
      /\ new.tenant = IF r.tenant = NoTenant THEN DefaultTenant ELSE r.tenant
  BY DEF NewRow
<1>5. \A d \in Stored :
         /\ contexts'[d] \in ContextRow
         /\ contexts'[d].agent = contexts[d].agent
         /\ contexts'[d].tenant = contexts[d].tenant
         /\ contexts'[d].key = contexts[d].key
         /\ contexts'[d].content = contexts[d].content
         /\ contexts'[d].created = contexts[d].created
         /\ contexts'[d].committed = contexts[d].committed
         /\ contexts'[d].retracted = contexts[d].retracted
  <2> TAKE d \in Stored
  <2>1. contexts[d] \in ContextRow
    BY <1>0 DEF TypeOK
  <2>2. \/ contexts'[d] = contexts[d]
        \/ contexts'[d] = [contexts[d] EXCEPT !.status = "superseded"]
    BY <1>1 DEF PublishEffect
  <2>3. CASE contexts'[d] = contexts[d]
    BY <2>1, <2>3
  <2>4. CASE contexts'[d] = [contexts[d] EXCEPT !.status = "superseded"]
    BY <2>1, <2>4 DEF ContextRow
  <2> QED BY <2>2, <2>3, <2>4
<1>6. /\ events' = events /\ prunedThrough' = prunedThrough /\ clock' = clock
      /\ leaves' = WithLeaf(c)
      /\ idem' = IF r.key = NoKey THEN idem ELSE WithIdem(c, r, now)
      /\ PublishOutcome(r, now) = "ok"
      /\ contexts' = WithPublished(c, r, minted, now)
  BY DEF Publish
<1>7. LineageIsChain'
  BY <1>0, PublishLineage
<1>8. /\ FeedInv' /\ changes' \subseteq appended' /\ appended' \subseteq FeedRow
      /\ lastSeq' \in Nat
  BY <1>0, PublishFeed
<1> USE ParameterAssumption
<1>9. TypeOK'
  <2>1. Stored' \subseteq Ctx /\ contexts' \in [Stored' -> ContextRow]
    <3>1. contexts' = [d \in Stored \cup {c} |-> contexts'[d]]
      BY <1>6 DEF WithPublished
    <3> QED BY <1>0, <1>2, <1>5, <3>1 DEF TypeOK
  <2>2. DOMAIN idem' \subseteq Agent \X Key /\ idem' \in [DOMAIN idem' -> IdemRow]
    <3>1. CASE r.key = NoKey
      BY <1>0, <1>6, <3>1 DEF TypeOK
    <3>2. CASE r.key # NoKey
      <4>1. kk \in Agent \X Key /\ now + TTL \in Nat
        BY <3>2, <1>3
      <4>2. [content |-> r.content, ctx |-> c, expires |-> now + TTL] \in IdemRow
        BY <4>1, <1>2, <1>3 DEF IdemRow
      <4>3. idem' = WithIdem(c, r, now)
        BY <3>2, <1>6
      <4>4. DOMAIN idem' = DOMAIN idem \cup {kk}
        BY <4>3 DEF WithIdem
      <4>5. \A k \in DOMAIN idem \cup {kk} : idem'[k] \in IdemRow
        BY <4>2, <4>3, <1>0 DEF WithIdem, TypeOK
      <4>6. idem' = [k \in DOMAIN idem \cup {kk} |-> idem'[k]]
        BY <4>3 DEF WithIdem
      <4> QED BY <4>1, <4>4, <4>5, <4>6, <1>0 DEF TypeOK
    <3> QED BY <3>1, <3>2
  <2>3. leaves' \in Seq(Ctx)
    BY <1>0, <1>2, <1>6 DEF WithLeaf, TypeOK
  <2> QED BY <2>1, <2>2, <2>3, <1>0, <1>6, <1>8 DEF TypeOK
<1>10. ProducerContinuity'
  <2> SUFFICES ASSUME NEW d \in Stored \cup {c}, Prev(d)' # NoCtx
               PROVE  /\ Prev(d)' \in Stored \cup {c}
                      /\ \/ contexts'[d].agent = contexts'[Prev(d)'].agent
                         \/ contexts'[d].agent
                               \in contexts'[Prev(d)'].content.contributors
                      /\ contexts'[d].tenant
                            \in {contexts'[Prev(d)'].tenant, DefaultTenant}
    BY <1>2 DEF ProducerContinuity, IsOwner, Prev
  <2>1. CASE d \in Stored
    <3>1. Prev(d)' = Prev(d)
      BY <2>1, <1>5 DEF Prev
    <3>2. /\ Prev(d) \in Stored /\ IsOwner(contexts[d].agent, Prev(d))
          /\ contexts[d].tenant \in {contexts[Prev(d)].tenant, DefaultTenant}
      BY <2>1, <3>1, <1>0 DEF ProducerContinuity
    <3> QED BY <2>1, <3>1, <3>2, <1>5 DEF IsOwner
  <2>2. CASE d = c
    <3>1. Prev(d)' = p
      BY <2>2, <1>2, <1>4 DEF Prev
    <3>2. p \in Stored /\ IsOwner(r.agent, p) /\ SameTenant(r.tenant, p)
      BY <3>1, <1>1 DEF PublishEffect
    <3> QED BY <2>2, <3>1, <3>2, <1>2, <1>4, <1>5 DEF IsOwner, SameTenant
  <2> QED BY <2>1, <2>2
<1>11. EventInv'
  <2>1. events[c] = << >>
    BY <1>0, <1>2 DEF EventInv, RetractionConsistent
  <2>2. RetractionConsistent'
    <3>1. \A d \in Ctx \ (Stored \cup {c}) : events'[d] = << >>
      BY <1>0, <1>6 DEF EventInv, RetractionConsistent
    <3>2. ASSUME NEW d \in Stored \cup {c}
          PROVE
             /\ contexts'[d].retracted = RetractionState(events'[d])
             /\ \A i \in DOMAIN events'[d] :
                   (events'[d][i].type = "retracted") <=> (i % 2 = 1)
      <4>1. CASE d = c
        <5>1. events'[d] = << >> /\ RetractionState(<< >>) = FALSE
          BY <4>1, <2>1, <1>6 DEF RetractionState
        <5>2. contexts'[d].retracted = FALSE
          BY <4>1, <1>2, <1>4
        <5>3. DOMAIN events'[d] = {}
          BY <5>1
        <5>4. RetractionState(events'[d]) = FALSE
          BY <5>1
        <5> QED BY <5>2, <5>3, <5>4
      <4>2. CASE d \in Stored
        BY <4>2, <1>0, <1>5, <1>6 DEF EventInv, RetractionConsistent
      <4> QED BY <4>1, <4>2
    <3> QED BY <3>1, <3>2, <1>2 DEF RetractionConsistent, RetractionState
  <2>3. ReceiptChain'
    <3> SUFFICES ASSUME NEW d \in Stored \cup {c}
                 PROVE  ReceiptsChained(events[d], contexts'[d].created)
      BY <1>2, <1>6 DEF ReceiptChain, ReceiptsChained
    <3>1. CASE d = c
      BY <3>1, <2>1 DEF ReceiptsChained
    <3>2. CASE d \in Stored
      BY <3>2, <1>0, <1>5 DEF EventInv, ReceiptChain
    <3> QED BY <3>1, <3>2
  <2> QED BY <2>2, <2>3 DEF EventInv
\* The record this publish's key may still have is expired by its clock.
<1>12. ASSUME r.key # NoKey, NEW d \in Stored,
              contexts[d].agent = r.agent, contexts[d].key = r.key
       PROVE  contexts[d].created + TTL <= clock + Skew
  <2>1. ~ IdemLive(r.agent, r.key, now)
    BY <1>6, <1>12 DEF PublishOutcome
  <2>2. \/ kk \in DOMAIN idem /\ idem[kk].ctx = d
        \/ contexts[d].created + TTL <= clock + Skew
    BY <1>0, <1>12 DEF KeyInv, KeyProtected
  <2>3. CASE kk \in DOMAIN idem /\ idem[kk].ctx = d
    <3>1. idem[kk].expires = contexts[d].created + TTL /\ idem[kk].expires \in Nat
      BY <2>3, <1>0 DEF KeyInv, IdemBacked, TypeOK, IdemRow
    <3>2. ~ (idem[kk].expires > now)
      BY <2>1, <2>3 DEF IdemLive
    <3>3. clock \in Nat
      BY <1>0 DEF TypeOK
    <3> QED BY <3>1, <3>2, <3>3
  <2> QED BY <2>2, <2>3
<1>13. r.key # NoKey =>
          /\ DOMAIN idem' = DOMAIN idem \cup {kk}
          /\ idem'[kk] = [content |-> r.content, ctx |-> c, expires |-> now + TTL]
          /\ \A k \in DOMAIN idem : k # kk => idem'[k] = idem[k]
  BY <1>6 DEF WithIdem
<1>14. IdemBacked'
  <2> SUFFICES ASSUME NEW k \in DOMAIN idem'
               PROVE  /\ idem'[k].ctx \in Stored \cup {c}
                      /\ contexts'[idem'[k].ctx].agent = k[1]
                      /\ contexts'[idem'[k].ctx].key = k[2]
                      /\ contexts'[idem'[k].ctx].content = idem'[k].content
                      /\ idem'[k].expires = contexts'[idem'[k].ctx].created + TTL
    BY <1>2 DEF IdemBacked
  <2>1. CASE r.key # NoKey /\ k = kk
    BY <2>1, <1>2, <1>4, <1>13
  <2>2. CASE k \in DOMAIN idem /\ idem'[k] = idem[k]
    <3>1. /\ idem[k].ctx \in Stored
          /\ contexts[idem[k].ctx].agent = k[1]
          /\ contexts[idem[k].ctx].key = k[2]
          /\ contexts[idem[k].ctx].content = idem[k].content
          /\ idem[k].expires = contexts[idem[k].ctx].created + TTL
      BY <2>2, <1>0 DEF KeyInv, IdemBacked
    <3> QED BY <2>2, <3>1, <1>5
  <2> QED BY <2>1, <2>2, <1>6, <1>13
<1>15. KeyProtected'
  <2> SUFFICES ASSUME NEW d \in Stored \cup {c}, contexts'[d].key # NoKey
               PROVE  LET k == <<contexts'[d].agent, contexts'[d].key>>
                      IN  \/ k \in DOMAIN idem' /\ idem'[k].ctx = d
                          \/ contexts'[d].created + TTL <= clock + Skew
    BY <1>2, <1>6 DEF KeyProtected
  <2> DEFINE k == <<contexts'[d].agent, contexts'[d].key>>
  <2>1. CASE d = c
    BY <2>1, <1>2, <1>4, <1>13
  <2>2. CASE d \in Stored /\ r.key # NoKey /\ k = kk
    BY <2>2, <1>5, <1>12
  <2>3. CASE d \in Stored /\ (r.key = NoKey \/ k # kk)
    <3>1. \/ k \in DOMAIN idem /\ idem[k].ctx = d
          \/ contexts[d].created + TTL <= clock + Skew
      BY <2>3, <1>0, <1>5 DEF KeyInv, KeyProtected
    <3>2. k \in DOMAIN idem => k \in DOMAIN idem' /\ idem'[k] = idem[k]
      BY <2>3, <1>6, <1>13
    <3> QED BY <2>3, <3>1, <3>2, <1>5
  <2> QED BY <2>1, <2>2, <2>3
<1>16. KeyUniqueWithinTtl'
  <2> SUFFICES ASSUME NEW d \in Stored \cup {c}, NEW e \in Stored \cup {c},
                      d # e, contexts'[d].agent = contexts'[e].agent,
                      contexts'[d].key = contexts'[e].key,
                      contexts'[d].key # NoKey
               PROVE  \/ contexts'[d].created + TTL <= contexts'[e].committed + Skew
                      \/ contexts'[e].created + TTL <= contexts'[d].committed + Skew
    BY <1>2 DEF KeyUniqueWithinTtl
  <2>1. CASE d \in Stored /\ e \in Stored
    BY <2>1, <1>0, <1>5 DEF KeyInv, KeyUniqueWithinTtl
  <2>2. CASE d \in Stored /\ e = c
    BY <2>2, <1>2, <1>4, <1>5, <1>12
  <2>3. CASE d = c /\ e \in Stored
    BY <2>3, <1>2, <1>4, <1>5, <1>12
  <2> QED BY <2>1, <2>2, <2>3
<1> QED BY <1>7, <1>8, <1>9, <1>10, <1>11, <1>14, <1>15, <1>16
        DEF IInv, KeyInv

\* Steps that leave the contexts, the records and the clock alone keep what
\* the keys are protected by.
LEMMA SameKeys ==
    ASSUME KeyInv, DOMAIN contexts' = Stored, idem' = idem, clock' = clock,
           \A d \in Stored : /\ contexts'[d].agent = contexts[d].agent
                             /\ contexts'[d].key = contexts[d].key
                             /\ contexts'[d].content = contexts[d].content
                             /\ contexts'[d].created = contexts[d].created
                             /\ contexts'[d].committed = contexts[d].committed
    PROVE  KeyInv'
PROOF
<1>1. Stored' = Stored /\ IdemBacked /\ KeyProtected /\ KeyUniqueWithinTtl
  BY DEF Stored, KeyInv
<1>2. IdemBacked'
  BY <1>1 DEF IdemBacked
<1>3. KeyProtected'
  BY <1>1 DEF KeyProtected
<1>4. KeyUniqueWithinTtl'
  BY <1>1 DEF KeyUniqueWithinTtl
<1> QED BY <1>2, <1>3, <1>4 DEF KeyInv

\* A step that keeps owners, tenants and bodies keeps producer continuity.
LEMMA SameProducers ==
    ASSUME ProducerContinuity, DOMAIN contexts' = Stored,
           \A d \in Stored : /\ contexts'[d].agent = contexts[d].agent
                             /\ contexts'[d].tenant = contexts[d].tenant
                             /\ contexts'[d].content = contexts[d].content
    PROVE  ProducerContinuity'
PROOF
<1>1. Stored' = Stored /\ \A d \in Stored : Prev(d)' = Prev(d)
  BY DEF Stored, Prev
<1> SUFFICES ASSUME NEW d \in Stored, Prev(d) # NoCtx
             PROVE  /\ Prev(d) \in Stored
                    /\ \/ contexts'[d].agent = contexts'[Prev(d)].agent
                       \/ contexts'[d].agent
                             \in contexts'[Prev(d)].content.contributors
                    /\ contexts'[d].tenant
                          \in {contexts'[Prev(d)].tenant, DefaultTenant}
  BY <1>1 DEF ProducerContinuity, IsOwner
<1>2. /\ Prev(d) \in Stored /\ IsOwner(contexts[d].agent, Prev(d))
      /\ contexts[d].tenant \in {contexts[Prev(d)].tenant, DefaultTenant}
  BY DEF ProducerContinuity
<1> QED BY <1>2 DEF IsOwner

\* What a lifecycle event appends to the feed.
LEMMA LifecycleFeed ==
    ASSUME TypeOK, FeedInv, NEW c \in Ctx, NEW id \in EventId, NEW type,
           NEW mints \in BOOLEAN, NEW now \in Nat, NEW base \in Nat,
           base >= lastSeq, NEW at \in Nat,
           CommitLifecycle(c, id, type, mints, now, base, at)
    PROVE  /\ FeedInv'
           /\ changes' \subseteq appended' /\ appended' \subseteq FeedRow
           /\ lastSeq' \in Nat /\ lastSeq' >= lastSeq
           /\ \A x \in changes' \ changes : x.seq > lastSeq
PROOF
<1>1. prunedThrough' = prunedThrough
  BY DEF CommitLifecycle
<1>2. CASE mints
  <2> DEFINE rows == LifecycleRows(c, id, base, at)
  <2>1. AppendRows(rows, 1, base)
    BY <1>2 DEF CommitLifecycle
  <2>2. /\ rows \subseteq FeedRow
        /\ \A x \in rows : x.seq > base /\ x.seq <= base + 1
    BY DEF LifecycleRows, FeedRow
  <2> HIDE DEF rows
  <2> QED BY <1>1, <2>1, <2>2, AppendFeed
<1>3. CASE ~ mints
  <2>1. AppendRows({}, 0, base)
    BY <1>3 DEF CommitLifecycle
  <2> QED BY <1>1, <2>1, AppendFeed
<1> QED BY <1>2, <1>3

\* commit_lifecycle_event preserves the invariant.
LEMMA LifecycleStep ==
    ASSUME IInv, NEW c \in Stored, NEW id \in EventId,
           NEW type \in {"retracted", "republished"}, NEW mints \in BOOLEAN,
           NEW now \in Nat, NEW base \in Nat, base >= lastSeq, NEW at \in Nat,
           CommitLifecycle(c, id, type, mints, now, base, at)
    PROVE  IInv'
PROOF
<1>0. /\ TypeOK /\ LineageIsChain /\ ProducerContinuity
      /\ EventInv /\ KeyInv /\ FeedInv
  BY DEF IInv
<1> DEFINE s == events[c]
           acc == AcceptedAt(s, contexts[c].created, now)
           t == WithEvent(s, id, type, mints, acc)
<1>1. /\ c \in Ctx /\ s \in Seq(Event) /\ contexts[c].created \in Nat
      /\ \A d \in Stored : contexts[d] \in ContextRow
  BY <1>0 DEF TypeOK, ContextRow
<1>2. /\ idem' = idem /\ leaves' = leaves /\ prunedThrough' = prunedThrough
      /\ clock' = clock /\ events' = [events EXCEPT ![c] = t]
      /\ contexts' = [contexts EXCEPT ![c].retracted = (type = "retracted")]
      /\ LifecycleOutcome(c, id, type) = "ok"
  BY DEF CommitLifecycle
<1>3. ReceiptsChained(s, contexts[c].created)
  BY <1>0 DEF EventInv, ReceiptChain
<1>4. /\ acc \in Nat /\ acc >= contexts[c].created
      /\ \A i \in DOMAIN s : acc >= s[i].receipt
  BY <1>1, <1>3, AcceptedAtBound
<1> HIDE DEF acc
<1>5. /\ t \in Seq(Event) /\ Len(t) = Len(s) + 1
      /\ \A i \in DOMAIN s : t[i].type = s[i].type /\ t[i].id = s[i].id
      /\ t[Len(t)].type = type
      /\ ReceiptsChained(t, contexts[c].created)
  <2>1. Continues(s, t, type, contexts[c].created)
    BY <1>1, <1>3, <1>4, WithEventChained
  <2> HIDE DEF t
  <2> QED BY <2>1 DEF Continues
<1> HIDE DEF t
<1>6. /\ DOMAIN contexts' = Stored /\ Stored' = Stored
      /\ contexts'[c] = [contexts[c] EXCEPT !.retracted = (type = "retracted")]
      /\ \A d \in Stored : d # c => contexts'[d] = contexts[d]
      /\ contexts' = [d \in Stored |-> contexts'[d]]
  BY <1>0, <1>2 DEF Stored, TypeOK
<1>7. \A d \in Stored :
         /\ contexts'[d] \in ContextRow
         /\ contexts'[d].agent = contexts[d].agent
         /\ contexts'[d].tenant = contexts[d].tenant
         /\ contexts'[d].key = contexts[d].key
         /\ contexts'[d].content = contexts[d].content
         /\ contexts'[d].created = contexts[d].created
         /\ contexts'[d].committed = contexts[d].committed
         /\ contexts'[d].lineage = contexts[d].lineage
         /\ contexts'[d].status = contexts[d].status
  <2> TAKE d \in Stored
  <2>1. CASE d = c
    <3>1. contexts[c] \in ContextRow
      BY <2>1, <1>1
    <3>2. contexts'[d] = [contexts[c] EXCEPT !.retracted = (type = "retracted")]
      BY <2>1, <1>6
    <3> QED BY ONLY <2>1, <3>1, <3>2 DEF ContextRow
  <2>2. CASE d # c
    BY <2>2, <1>1, <1>6
  <2> QED BY <2>1, <2>2
<1>8. /\ contexts'[c].retracted = (type = "retracted")
      /\ \A d \in Stored : d # c => contexts'[d].retracted = contexts[d].retracted
  BY <1>1, <1>6 DEF ContextRow
<1>9. /\ events'[c] = t
      /\ \A d \in Ctx : d # c => events'[d] = events[d]
      /\ events' \in [Ctx -> Seq(Event)]
  BY <1>0, <1>1, <1>2, <1>5 DEF TypeOK
<1>10. LineageIsChain' /\ ProducerContinuity' /\ KeyInv'
  BY <1>0, <1>2, <1>6, <1>7, SameLineage, SameProducers, SameKeys
<1>11. /\ FeedInv' /\ changes' \subseteq appended' /\ appended' \subseteq FeedRow
       /\ lastSeq' \in Nat
  BY <1>0, <1>1, LifecycleFeed
<1>12. TypeOK'
  <2>1. contexts' \in [Stored -> ContextRow]
    BY <1>6, <1>7
  <2> QED BY <2>1, <1>0, <1>2, <1>6, <1>9, <1>11 DEF TypeOK
<1>13. EventInv'
  <2>1. /\ contexts[c].retracted = RetractionState(s)
        /\ \A i \in DOMAIN s : (s[i].type = "retracted") <=> (i % 2 = 1)
        /\ \A d \in Ctx \ Stored : events[d] = << >>
    BY <1>0 DEF EventInv, RetractionConsistent
  <2>2. /\ DOMAIN s = 1 .. Len(s) /\ Len(s) \in Nat
        /\ DOMAIN t = 1 .. Len(s) + 1 /\ t # << >>
    BY <1>1, <1>5
  \* The checked transition is the alternation.
  <2>3. (type = "retracted") <=> ((Len(s) + 1) % 2 = 1)
    <3>1. (type = "retracted") # RetractionState(s)
      BY <1>2 DEF LifecycleOutcome
    <3>2. CASE s = << >>
      <4>1. RetractionState(s) = FALSE
        BY <3>2 DEF RetractionState
      <4>2. (Len(s) + 1) % 2 = 1
        <5>1. Len(s) = 0 /\ (0 + 1) % 2 = 1
          BY <3>2
        <5> QED BY <5>1
      <4> QED BY <3>1, <4>1, <4>2
    <3>3. CASE s # << >>
      <4>1. Len(s) \in DOMAIN s
        BY <3>3, <1>1
      <4>2. RetractionState(s) = (s[Len(s)].type = "retracted")
        BY <3>3 DEF RetractionState
      <4>3. (s[Len(s)].type = "retracted") <=> (Len(s) % 2 = 1)
        BY <4>1, <2>1
      <4>4. (type = "retracted") <=> ~ (Len(s) % 2 = 1)
        BY <3>1, <4>2, <4>3
      <4>5. \A n \in Nat : ((n + 1) % 2 = 1) <=> ~ (n % 2 = 1)
        OBVIOUS
      <4> QED BY <4>4, <4>5, <2>2
    <3> QED BY <3>2, <3>3
  <2>4. \A i \in DOMAIN t : (t[i].type = "retracted") <=> (i % 2 = 1)
    <3> TAKE i \in DOMAIN t
    <3>1. CASE i \in 1 .. Len(s)
      BY <3>1, <2>1, <2>2, <1>5
    <3>2. CASE i = Len(s) + 1
      BY <3>2, <2>3, <1>5
    <3> QED BY <3>1, <3>2, <2>2
  <2>5. RetractionState(t) = (type = "retracted")
    BY <2>2, <1>5 DEF RetractionState
  <2>6. RetractionConsistent'
    <3>1. \A d \in Ctx \ Stored : events'[d] = << >>
      BY <2>1, <1>9
    <3>2. ASSUME NEW d \in Stored
          PROVE  /\ contexts'[d].retracted = RetractionState(events'[d])
                 /\ \A i \in DOMAIN events'[d] :
                       (events'[d][i].type = "retracted") <=> (i % 2 = 1)
      <4>1. CASE d = c
        <5>1. contexts'[d].retracted = RetractionState(events'[d])
          BY <4>1, <2>5, <1>8, <1>9
        <5> QED BY <4>1, <5>1, <2>4, <1>9
      <4>2. CASE d # c
        <5>1. /\ events'[d] = events[d]
              /\ contexts'[d].retracted = contexts[d].retracted
          BY <4>2, <1>0, <1>8, <1>9 DEF TypeOK
        <5> QED BY <5>1, <1>0 DEF EventInv, RetractionConsistent
      <4> QED BY <4>1, <4>2
    <3> QED BY <3>1, <3>2, <1>6 DEF RetractionConsistent, RetractionState
  <2>7. ReceiptChain'
    <3> SUFFICES ASSUME NEW d \in Stored
                 PROVE  ReceiptsChained(events'[d], contexts'[d].created)
      BY <1>6 DEF ReceiptChain, ReceiptsChained
    <3>1. CASE d = c
      BY <3>1, <1>5, <1>7, <1>9
    <3>2. CASE d # c
      <4>1. /\ events'[d] = events[d]
            /\ contexts'[d].created = contexts[d].created
        BY <3>2, <1>0, <1>7, <1>9 DEF TypeOK
      <4> QED BY <4>1, <1>0 DEF EventInv, ReceiptChain
    <3> QED BY <3>1, <3>2
  <2> QED BY <2>6, <2>7 DEF EventInv
<1> QED BY <1>10, <1>11, <1>12, <1>13 DEF IInv

\* The receipt sweep preserves the invariant: only receipts change, and the
\* NULLs it fills are a suffix.
LEMMA BackfillStep ==
    ASSUME IInv, NEW c \in Stored, NEW now \in Nat, Backfill(c, now)
    PROVE  IInv'
PROOF
<1>0. /\ TypeOK /\ LineageIsChain /\ ProducerContinuity
      /\ EventInv /\ KeyInv /\ FeedInv
  BY DEF IInv
<1> DEFINE s == events[c]
           acc == AcceptedAt(s, contexts[c].created, now)
           u == Filled(s, acc)
<1>1. c \in Ctx /\ s \in Seq(Event) /\ contexts[c].created \in Nat
  BY <1>0 DEF TypeOK, ContextRow
<1>2. /\ events' = [events EXCEPT ![c] = u]
      /\ UNCHANGED <<contexts, idem, leaves, changes, lastSeq, prunedThrough,
                     clock, appended>>
  BY DEF Backfill
<1>3. ReceiptsChained(s, contexts[c].created)
  BY <1>0 DEF EventInv, ReceiptChain
<1>4. /\ acc \in Nat /\ acc >= contexts[c].created
      /\ \A i \in DOMAIN s : acc >= s[i].receipt
  BY <1>1, <1>3, AcceptedAtBound
<1> HIDE DEF acc
<1>5. /\ u \in Seq(Event) /\ Len(u) = Len(s)
      /\ \A i \in DOMAIN s : u[i].type = s[i].type
      /\ ReceiptsChained(u, contexts[c].created)
  BY <1>1, <1>3, <1>4, FilledChained
<1> HIDE DEF u
<1>6. /\ events'[c] = u /\ \A d \in Ctx : d # c => events'[d] = events[d]
      /\ events' \in [Ctx -> Seq(Event)]
  BY <1>0, <1>1, <1>2, <1>5 DEF TypeOK
<1>7. Stored' = Stored /\ DOMAIN contexts' = Stored /\ Stored \subseteq Ctx
  BY <1>0, <1>2 DEF Stored, TypeOK
<1>8. TypeOK'
  BY <1>0, <1>2, <1>6, <1>7 DEF TypeOK
<1>9. LineageIsChain' /\ ProducerContinuity' /\ KeyInv'
  BY <1>0, <1>2, <1>7, SameLineage, SameProducers, SameKeys
<1>10. FeedInv'
  BY <1>0, <1>2 DEF FeedInv, FeedIsSuffix
<1>11. RetractionConsistent'
  <2>1. /\ DOMAIN s = 1 .. Len(s) /\ DOMAIN u = 1 .. Len(s) /\ Len(s) \in Nat
        /\ s = << >> <=> Len(s) = 0
        /\ u = << >> <=> Len(u) = 0
    BY <1>1, <1>5
  <2>2. RetractionState(u) = RetractionState(s)
    <3>1. CASE Len(s) = 0
      <4>1. s = << >> /\ u = << >>
        BY <3>1, <2>1, <1>5
      <4> QED BY <4>1
    <3>2. CASE Len(s) # 0
      <4>1. Len(s) \in DOMAIN s
        BY <3>2, <2>1
      <4>2. u[Len(u)].type = s[Len(s)].type
        BY <4>1, <1>5
      <4> QED BY <3>2, <4>2, <2>1, <1>5 DEF RetractionState
    <3> QED BY <3>1, <3>2
  <2>3. \A d \in Ctx \ Stored : events'[d] = << >>
    BY <1>0, <1>6 DEF EventInv, RetractionConsistent
  <2>4. ASSUME NEW d \in Stored
        PROVE  /\ contexts[d].retracted = RetractionState(events'[d])
               /\ \A i \in DOMAIN events'[d] :
                     (events'[d][i].type = "retracted") <=> (i % 2 = 1)
    <3>1. CASE d = c
      <4>1. /\ contexts[c].retracted = RetractionState(s)
            /\ \A i \in DOMAIN s : (s[i].type = "retracted") <=> (i % 2 = 1)
        BY <1>0 DEF EventInv, RetractionConsistent
      <4>2. contexts[c].retracted = RetractionState(u)
        BY <4>1, <2>2
      <4>3. \A i \in DOMAIN u : (u[i].type = "retracted") <=> (i % 2 = 1)
        BY <4>1, <2>1, <1>5
      <4> QED BY <3>1, <4>2, <4>3, <1>6
    <3>2. CASE d # c
      <4>1. events'[d] = events[d]
        BY <3>2, <1>6, <1>7
      <4> QED BY <4>1, <1>0 DEF EventInv, RetractionConsistent
    <3> QED BY <3>1, <3>2
  <2> QED BY <2>3, <2>4, <1>2, <1>7 DEF RetractionConsistent, RetractionState
<1>12. ReceiptChain'
  <2> SUFFICES ASSUME NEW d \in Stored
               PROVE  ReceiptsChained(events'[d], contexts[d].created)
    BY <1>2, <1>7 DEF ReceiptChain, ReceiptsChained
  <2>1. CASE d = c
    BY <2>1, <1>5, <1>6
  <2>2. CASE d # c
    BY <2>2, <1>0, <1>6, <1>7 DEF EventInv, ReceiptChain
  <2> QED BY <2>1, <2>2
<1> QED BY <1>8, <1>9, <1>10, <1>11, <1>12 DEF IInv, EventInv

\* A step that changes neither contexts nor events keeps what is said of them.
LEMMA SameContexts ==
    ASSUME IInv, contexts' = contexts, events' = events
    PROVE  LineageIsChain' /\ ProducerContinuity' /\ EventInv'
PROOF
<1>1. LineageIsChain /\ ProducerContinuity /\ EventInv
  BY DEF IInv
<1>2. Stored' = Stored /\ DOMAIN contexts' = Stored
  BY DEF Stored
<1>3. LineageIsChain' /\ ProducerContinuity'
  BY <1>1, <1>2, SameLineage, SameProducers
<1>4. EventInv'
  BY <1>1, <1>2 DEF EventInv, RetractionConsistent, RetractionState,
                    ReceiptChain, ReceiptsChained
<1> QED BY <1>3, <1>4

\* The evictor preserves it: it deletes records its clock says have expired,
\* and no clock is ahead of true time by more than Skew.
LEMMA EvictStep ==
    ASSUME IInv, NEW now \in Nat, now <= clock + Skew, Evict(now)
    PROVE  IInv'
PROOF
<1>0. /\ TypeOK /\ KeyInv /\ FeedInv
  BY DEF IInv
<1> DEFINE kept == {j \in DOMAIN idem : idem[j].expires > now}
<1>1. /\ idem' = [k \in kept |-> idem[k]]
      /\ UNCHANGED <<contexts, events, leaves, changes, lastSeq, prunedThrough,
                     clock, appended>>
  BY DEF Evict
<1>2. DOMAIN idem' = kept /\ \A k \in kept : idem'[k] = idem[k]
  BY <1>1
<1>3. Stored' = Stored
  BY <1>1 DEF Stored
<1>4. LineageIsChain' /\ ProducerContinuity' /\ EventInv'
  BY <1>1, SameContexts
<1>5. FeedInv'
  BY <1>0, <1>1 DEF FeedInv, FeedIsSuffix
<1>6. TypeOK'
  <2>1. idem' \in [DOMAIN idem' -> IdemRow] /\ DOMAIN idem' \subseteq Agent \X Key
    BY <1>0, <1>1, <1>2 DEF TypeOK
  <2> QED BY <2>1, <1>0, <1>1, <1>3 DEF TypeOK
<1>7. IdemBacked'
  BY <1>0, <1>1, <1>2, <1>3 DEF KeyInv, IdemBacked
<1>8. KeyProtected'
  <2> SUFFICES ASSUME NEW c \in Stored, contexts[c].key # NoKey
               PROVE  LET k == <<contexts[c].agent, contexts[c].key>>
                      IN  \/ k \in DOMAIN idem' /\ idem'[k].ctx = c
                          \/ contexts[c].created + TTL <= clock + Skew
    BY <1>1, <1>3 DEF KeyProtected
  <2> DEFINE k == <<contexts[c].agent, contexts[c].key>>
  <2>1. \/ k \in DOMAIN idem /\ idem[k].ctx = c
        \/ contexts[c].created + TTL <= clock + Skew
    BY <1>0 DEF KeyInv, KeyProtected
  <2>2. CASE k \in DOMAIN idem /\ idem[k].ctx = c /\ k \notin kept
    <3>1. ~ (idem[k].expires > now)
      BY <2>2
    <3>2. idem[k].expires = contexts[c].created + TTL
      BY <2>2, <1>0 DEF KeyInv, IdemBacked
    <3>3. idem[k].expires \in Nat /\ clock \in Nat
      BY <2>2, <1>0 DEF TypeOK, IdemRow
    <3> QED BY <3>1, <3>2, <3>3, ParameterAssumption
  <2> QED BY <2>1, <2>2, <1>2
<1>9. KeyUniqueWithinTtl'
  BY <1>0, <1>1, <1>3 DEF KeyInv, KeyUniqueWithinTtl
<1> QED BY <1>4, <1>5, <1>6, <1>7, <1>8, <1>9 DEF IInv, KeyInv

\* Pruning preserves it: the positions removed are those up to one of them.
LEMMA PruneStep ==
    ASSUME IInv, NEW now, Prune(now)
    PROVE  IInv' /\ prunedThrough' >= prunedThrough /\ changes' \subseteq changes
PROOF
<1>0. TypeOK /\ KeyInv /\ FeedInv
  BY DEF IInv
<1>1. PICK last \in changes : PruneThrough(last.seq)
  BY DEF Prune, Prunable
<1>2. /\ changes' = {x \in changes : x.seq > last.seq}
      /\ prunedThrough' =
            IF last.seq > prunedThrough THEN last.seq ELSE prunedThrough
      /\ UNCHANGED <<contexts, idem, events, leaves, lastSeq, clock, appended>>
  BY <1>1 DEF PruneThrough
<1>3. /\ last \in appended /\ last.seq \in Nat
      /\ prunedThrough \in Nat /\ lastSeq \in Nat
      /\ \A x \in appended : x.seq \in Nat
  BY <1>0, <1>1 DEF TypeOK, FeedRow
<1>4. LineageIsChain' /\ ProducerContinuity' /\ EventInv'
  BY <1>2, SameContexts
<1>5. Stored' = Stored /\ DOMAIN contexts' = Stored
  BY <1>2 DEF Stored
<1>6. KeyInv'
  BY <1>0, <1>2, <1>5, SameKeys
<1>7. TypeOK'
  BY <1>0, <1>2, <1>3, <1>5 DEF TypeOK
<1>8. FeedInv'
  BY <1>0, <1>2, <1>3 DEF FeedInv, FeedIsSuffix
<1> QED BY <1>2, <1>3, <1>4, <1>6, <1>7, <1>8 DEF IInv

\* Time passing preserves it.
LEMMA TickStep ==
    ASSUME IInv, Tick
    PROVE  IInv'
PROOF
<1>0. TypeOK /\ KeyInv /\ FeedInv
  BY DEF IInv
<1>1. /\ clock' = clock + 1 /\ clock \in Nat
      /\ UNCHANGED <<contexts, idem, events, leaves, changes, lastSeq,
                     prunedThrough, appended>>
  BY <1>0 DEF Tick, TypeOK
<1>2. LineageIsChain' /\ ProducerContinuity' /\ EventInv'
  BY <1>1, SameContexts
<1>3. Stored' = Stored
  BY <1>1 DEF Stored
<1>4. FeedInv' /\ TypeOK'
  BY <1>0, <1>1, <1>3 DEF FeedInv, FeedIsSuffix, TypeOK
<1>5. IdemBacked' /\ KeyUniqueWithinTtl'
  BY <1>0, <1>1, <1>3 DEF KeyInv, IdemBacked, KeyUniqueWithinTtl
<1>6. KeyProtected'
  <2>1. \A c \in Stored : contexts[c].created \in Nat
    BY <1>0 DEF TypeOK, ContextRow
  <2> QED BY <2>1, <1>0, <1>1, <1>3, ParameterAssumption DEF KeyInv, KeyProtected
<1> QED BY <1>2, <1>4, <1>5, <1>6 DEF IInv, KeyInv

\* Every step of the store preserves the invariant.
LEMMA NextIInv == IInv /\ [Next]_vars => IInv'
PROOF
<1> SUFFICES ASSUME IInv, [Next]_vars PROVE IInv'
  OBVIOUS
<1>0. TypeOK
  BY DEF IInv
<1>1. ASSUME NEW c \in Ctx \ Stored, NEW r \in Request, NEW minted \in Minting,
             NEW now \in EntryReadings, NEW base \in Bases,
             NEW at \in FeedReadings, Publish(c, r, minted, now, base, at)
      PROVE  IInv'
  <2>1. /\ minted \in BOOLEAN /\ now \in Nat /\ now <= clock + Skew
        /\ base \in Nat /\ base >= lastSeq /\ at \in Nat
    BY <1>0, ReadingsType, ParameterAssumption
  <2> QED BY <1>1, <2>1, PublishStep
<1>2. ASSUME NEW c \in Stored, NEW id \in EventId, NEW mints \in Minting,
             NEW type \in {"retracted", "republished"},
             NEW now \in Readings, NEW base \in Bases, NEW at \in FeedReadings,
             CommitLifecycle(c, id, type, mints, now, base, at)
      PROVE  IInv'
  <2>1. /\ mints \in BOOLEAN /\ now \in Nat
        /\ base \in Nat /\ base >= lastSeq /\ at \in Nat
    BY <1>0, ReadingsType, ParameterAssumption
  <2> QED BY <1>2, <2>1, LifecycleStep
<1>3. ASSUME NEW c \in Stored, NEW now \in Readings, Backfill(c, now)
      PROVE  IInv'
  BY <1>0, <1>3, ReadingsType, BackfillStep
<1>4. ASSUME NEW now \in Readings, Evict(now) PROVE IInv'
  BY <1>0, <1>4, ReadingsType, EvictStep
<1>5. ASSUME NEW now \in Readings, Prune(now) PROVE IInv'
  BY <1>5, PruneStep
<1>6. CASE Tick
  BY <1>6, TickStep
<1>7. CASE UNCHANGED vars
  <2>1. UNCHANGED <<contexts, idem, events, leaves, changes, lastSeq,
                    prunedThrough, clock, appended>>
    BY <1>7 DEF vars
  <2>2. Stored' = Stored /\ DOMAIN contexts' = Stored
    BY <2>1 DEF Stored
  <2>3. LineageIsChain' /\ ProducerContinuity' /\ EventInv'
    BY <2>1, SameContexts
  <2>4. KeyInv'
    BY <2>1, <2>2, SameKeys DEF IInv
  <2>5. TypeOK' /\ FeedInv'
    BY <2>1, <2>2 DEF IInv, TypeOK, FeedInv, FeedIsSuffix
  <2> QED BY <2>3, <2>4, <2>5 DEF IInv
<1> QED BY <1>1, <1>2, <1>3, <1>4, <1>5, <1>6, <1>7 DEF Next

(***************************************************************************)
(* The theorems.                                                           *)
(***************************************************************************)
\* The inductive invariant holds of every reachable state.
THEOREM Invariance == Spec => []IInv
PROOF
<1>1. Init => IInv
  BY InitIInv
<1>2. IInv /\ [Next]_vars => IInv'
  BY NextIInv
<1> QED BY <1>1, <1>2, PTL DEF Spec

\* Every table always holds rows of its type.
THEOREM TypeCorrect == Spec => []TypeOK
PROOF
<1>1. IInv => TypeOK
  BY DEF IInv
<1> QED BY <1>1, Invariance, PTL

\* Whatever publishes race for a predecessor, every lineage stays one chain
\* of versions.
THEOREM LineagesAreChains == Spec => []LineageIsChain
PROOF
<1>1. IInv => LineageIsChain
  BY DEF IInv
<1> QED BY <1>1, Invariance, PTL

\* Lineages are only extended by their producers, within their tenant.
THEOREM ProducersContinue == Spec => []ProducerContinuity
PROOF
<1>1. IInv => ProducerContinuity
  BY DEF IInv
<1> QED BY <1>1, Invariance, PTL

\* The served flag and the event history never disagree at rest.
THEOREM RetractionsAgree == Spec => []RetractionConsistent
PROOF
<1>1. IInv => RetractionConsistent
  BY DEF IInv, EventInv
<1> QED BY <1>1, Invariance, PTL

\* Event receipts are a time-ordered prefix of every history.
THEOREM ReceiptsAreChained == Spec => []ReceiptChain
PROOF
<1>1. IInv => ReceiptChain
  BY DEF IInv, EventInv
<1> QED BY <1>1, Invariance, PTL

\* One Idempotency-Key makes two contexts only a TTL apart.
THEOREM KeysAreUnique == Spec => []KeyUniqueWithinTtl
PROOF
<1>1. IInv => KeyUniqueWithinTtl
  BY DEF IInv, KeyInv
<1> QED BY <1>1, Invariance, PTL

\* A retry within the TTL is answered with the first publish's context.
THEOREM RetriesReplay == Spec => []RetryReplays
PROOF
<1>1. IInv => RetryReplays
  <2> SUFFICES ASSUME IInv, NEW c \in Stored, contexts[c].key # NoKey,
                      clock + Skew < contexts[c].created + TTL
               PROVE  LET row == contexts[c]
                          k == <<row.agent, row.key>>
                      IN  /\ k \in DOMAIN idem /\ idem[k].ctx = c
                          /\ \A now \in EntryReadings,
                                t \in Tenant \cup {NoTenant} :
                                PublishOutcome(
                                    [agent |-> row.agent, key |-> row.key,
                                     tenant |-> t, content |-> row.content],
                                    now) = "replayed"
    BY DEF RetryReplays
  <2> DEFINE k == <<contexts[c].agent, contexts[c].key>>
  <2>1. TypeOK /\ KeyProtected /\ IdemBacked
    BY DEF IInv, KeyInv
  <2>2. /\ clock \in Nat /\ contexts[c].created \in Nat
        /\ \A now \in EntryReadings : now \in Nat /\ now <= clock + Skew
    BY <2>1, ReadingsType DEF TypeOK, ContextRow
  <2>3. k \in DOMAIN idem /\ idem[k].ctx = c
    <3>1. ~ (contexts[c].created + TTL <= clock + Skew)
      BY <2>2, ParameterAssumption
    <3> QED BY <3>1, <2>1 DEF KeyProtected
  <2>4. /\ idem[k].content = contexts[c].content
        /\ idem[k].expires = contexts[c].created + TTL
    BY <2>1, <2>3 DEF IdemBacked
  <2>5. \A now \in EntryReadings : idem[k].expires > now
    BY <2>2, <2>4, ParameterAssumption
  <2> QED BY <2>3, <2>4, <2>5 DEF PublishOutcome, IdemLive
<1> QED BY <1>1, Invariance, PTL

\* Pruning only ever removes a prefix of the feed.
THEOREM FeedStaysSuffix == Spec => []FeedIsSuffix
PROOF
<1>1. IInv => FeedIsSuffix
  BY DEF IInv, FeedInv
<1> QED BY <1>1, Invariance, PTL

\* No change ever appears at or below a head a reader can have seen.
THEOREM FeedGrowsAtHead == Spec => FeedAppendsAboveHead
PROOF
<1> DEFINE A == /\ \A x \in changes' \ changes : x.seq > lastSeq
                /\ lastSeq' >= lastSeq /\ prunedThrough' >= prunedThrough
<1>1. IInv /\ [Next]_vars => [A]_vars
  <2> SUFFICES ASSUME IInv, Next PROVE A
    OBVIOUS
  <2>0. TypeOK /\ FeedInv /\ lastSeq \in Nat /\ prunedThrough \in Nat
        /\ Stored \subseteq Ctx
    BY DEF IInv, TypeOK
  <2>1. ASSUME NEW c \in Ctx \ Stored, NEW r \in Request,
               NEW minted \in Minting, NEW now \in EntryReadings,
               NEW base \in Bases, NEW at \in FeedReadings,
               Publish(c, r, minted, now, base, at)
        PROVE  A
    <3>1. /\ minted \in BOOLEAN /\ now \in Nat
          /\ base \in Nat /\ base >= lastSeq /\ at \in Nat
      BY <2>0, ReadingsType, ParameterAssumption
    <3>2. /\ lastSeq' >= lastSeq
          /\ \A x \in changes' \ changes : x.seq > lastSeq
      BY <2>0, <2>1, <3>1, PublishFeed
    <3>3. prunedThrough' = prunedThrough
      BY <2>1 DEF Publish
    <3> QED BY <2>0, <3>2, <3>3
  <2>2. ASSUME NEW c \in Stored, NEW id \in EventId, NEW mints \in Minting,
               NEW type \in {"retracted", "republished"},
               NEW now \in Readings, NEW base \in Bases,
               NEW at \in FeedReadings,
               CommitLifecycle(c, id, type, mints, now, base, at)
        PROVE  A
    <3>1. /\ mints \in BOOLEAN /\ now \in Nat /\ c \in Ctx
          /\ base \in Nat /\ base >= lastSeq /\ at \in Nat
      BY <2>0, ReadingsType, ParameterAssumption
    <3>2. /\ lastSeq' >= lastSeq
          /\ \A x \in changes' \ changes : x.seq > lastSeq
      BY <2>0, <2>2, <3>1, LifecycleFeed
    <3>3. prunedThrough' = prunedThrough
      BY <2>2 DEF CommitLifecycle
    <3> QED BY <2>0, <3>2, <3>3
  <2>3. ASSUME NEW now, Prune(now) PROVE A
    <3>1. prunedThrough' >= prunedThrough /\ changes' \subseteq changes
      BY <2>3, PruneStep
    <3>2. lastSeq' = lastSeq
      BY <2>3 DEF Prune, PruneThrough
    <3> QED BY <2>0, <3>1, <3>2
  <2>4. ASSUME UNCHANGED <<changes, lastSeq, prunedThrough>> PROVE A
    BY <2>0, <2>4
  <2>5. ASSUME NEW c, NEW now, Backfill(c, now) PROVE A
    BY <2>4, <2>5 DEF Backfill
  <2>6. ASSUME NEW now, Evict(now) PROVE A
    BY <2>4, <2>6 DEF Evict
  <2>7. CASE Tick
    BY <2>4, <2>7 DEF Tick
  <2> HIDE DEF A
  <2> QED BY <2>1, <2>2, <2>3, <2>5, <2>6, <2>7 DEF Next
<1>2. [][A]_vars => FeedAppendsAboveHead
  BY DEF FeedAppendsAboveHead
<1> HIDE DEF A
<1> QED BY <1>1, <1>2, Invariance, PTL DEF Spec

\* No row leaves the feed within its advertised retention.
THEOREM PruningRespectsRetention == Spec => NotPrunedEarly
PROOF
<1> DEFINE A == Margin >= Skew + FeedSkew =>
                    \A x \in changes \ changes' :
                        x.at + FeedSkew + Retention < clock
<1>1. IInv /\ [Next]_vars => [A]_vars
  <2> SUFFICES ASSUME IInv, Next, Margin >= Skew + FeedSkew,
                      NEW x \in changes \ changes'
               PROVE  x.at + FeedSkew + Retention < clock
    OBVIOUS
  <2>1. TypeOK
    BY DEF IInv
  <2>2. PICK now \in Readings : Prune(now)
    <3>1. ~ changes \subseteq changes'
      OBVIOUS
    <3>2. \A rows, n, base : ~ AppendRows(rows, n, base)
      BY <3>1 DEF AppendRows
    <3>3. \A c, r, minted, n, base, at : ~ Publish(c, r, minted, n, base, at)
      BY <3>2 DEF Publish
    <3>4. \A c, id, type, mints, n, base, at :
             ~ CommitLifecycle(c, id, type, mints, n, base, at)
      BY <3>2 DEF CommitLifecycle
    <3>5. /\ \A c, n : ~ Backfill(c, n)
          /\ \A n : ~ Evict(n)
          /\ ~ Tick
      BY <3>1 DEF Backfill, Evict, Tick
    <3> QED BY <3>3, <3>4, <3>5 DEF Next
  <2>3. PICK last \in Prunable(now) : PruneThrough(last.seq)
    BY <2>2 DEF Prune
  <2>4. /\ last \in changes
        /\ \A y \in changes : y.seq <= last.seq => y.at < now - Retention - Margin
    BY <2>3 DEF Prunable
  <2>5. /\ x.seq \in Nat /\ last.seq \in Nat /\ x.at \in Nat /\ clock \in Nat
        /\ now \in Nat /\ now <= clock + Skew
    BY <2>1, <2>4, ReadingsType DEF TypeOK, FeedRow
  <2>6. x.seq <= last.seq
    BY <2>3, <2>5 DEF PruneThrough
  <2>7. x.at < now - Retention - Margin
    BY <2>4, <2>6
  <2> QED BY <2>5, <2>7, ParameterAssumption
<1>2. [][A]_vars => NotPrunedEarly
  BY DEF NotPrunedEarly
<1> HIDE DEF A
<1> QED BY <1>1, <1>2, Invariance, PTL DEF Spec

\* Every lineage is one line of versions, each by an owner of the one before:
\* the supersession checks of commit_publish are enough, whatever races.
THEOREM LineagesSound == Spec => []LineageSound
PROOF
<1>1. LineageIsChain /\ ProducerContinuity => LineageSound
  BY DEF LineageSound
<1> QED BY <1>1, LineagesAreChains, ProducersContinue, PTL

\* Within its TTL an idempotency key stands for one context and a retry is
\* answered with it, for every clock skew and every wait for the write lock.
THEOREM KeysAreSound == Spec => []KeysSound
PROOF
<1>1. KeyUniqueWithinTtl /\ RetryReplays => KeysSound
  BY DEF KeysSound
<1> QED BY <1>1, KeysAreUnique, RetriesReplay, PTL

\* The retracted flag, the events and their receipts tell one story, for any
\* mix of processes with and without a receipt signer.
THEOREM EventsAreSound == Spec => []EventsSound
PROOF
<1>1. RetractionConsistent /\ ReceiptChain => EventsSound
  BY DEF EventsSound
<1> QED BY <1>1, RetractionsAgree, ReceiptsAreChained, PTL


(***************************************************************************)
(* History: the inductive invariant.                                       *)
(***************************************************************************)
Reported(kind, c, about) ==
    \E x \in appended : x.kind = kind /\ x.ctx = c /\ x.about = about

SaidOnce ==
    \A x, y \in appended :
        x.kind = y.kind /\ x.ctx = y.ctx /\ x.about = y.about => x = y

SaysAll ==
    \A c \in Stored :
        /\ Prev(c) # NoCtx =>
              (Reported("superseded", Prev(c), c) <=> contexts[c].receipt)
        /\ Reported("key_revocation", c, NoCtx)
              <=> (contexts[c].receipt /\ contexts[c].content.revokes)
        /\ Minting = {TRUE} => \A i \in DOMAIN events[c] :
              Reported("lifecycle", c, events[c][i].id)

\* A context has an event with this id, and the event has a receipt.
Receipted(c, id) ==
    \E i \in DOMAIN events[c] :
        events[c][i].id = id /\ events[c][i].receipt # NoReceipt

SaysTrue ==
    \A x \in appended :
        /\ x.kind = "superseded" => x.about \in Stored /\ Prev(x.about) = x.ctx
        /\ x.kind = "key_revocation" => x.ctx \in Stored
        /\ x.kind = "lifecycle" => Receipted(x.ctx, x.about)

SupersessionsOrdered ==
    \A x, y \in appended :
        (/\ x.kind = "superseded" /\ y.kind = "superseded"
         /\ contexts[x.ctx].lineage = contexts[y.ctx].lineage)
            => (x.seq < y.seq <=> Version(x.ctx) < Version(y.ctx))

\* The event `a' of context c comes before its event `b'.
Precedes(c, a, b) ==
    \E i, j \in DOMAIN events[c] :
        i < j /\ events[c][i].id = a /\ events[c][j].id = b

EventsOrdered ==
    \A x, y \in appended :
        (/\ x.kind = "lifecycle" /\ y.kind = "lifecycle"
         /\ x.ctx = y.ctx /\ x.seq < y.seq) => Precedes(x.ctx, x.about, y.about)

PositionsUnique == \A x, y \in appended : x.seq = y.seq => x = y

HInv ==
    /\ LogMirrorsContexts
    /\ SaidOnce /\ SaysAll /\ SaysTrue
    /\ SupersessionsOrdered /\ EventsOrdered /\ PositionsUnique

\* The empty registry satisfies it.
LEMMA InitHInv == Init => HInv
PROOF
<1> SUFFICES ASSUME Init PROVE HInv
  OBVIOUS
<1>1. Stored = {} /\ appended = {} /\ leaves = << >> /\ DOMAIN leaves = {}
  BY DEF Init, Stored
<1>2. LogMirrorsContexts
  BY <1>1 DEF LogMirrorsContexts
<1> QED BY <1>1, <1>2
        DEF HInv, SaidOnce, SaysAll, SaysTrue, SupersessionsOrdered,
            EventsOrdered, PositionsUnique

(***************************************************************************)
(* Publishes.                                                              *)
(***************************************************************************)
\* What a publish appends to the feed, row by row.
PublishedRows(c, r, minted, base, new) ==
    LET p == r.content.supersedes
    IN  /\ appended' = appended \cup new
        /\ \A x \in new :
              /\ minted /\ x \in FeedRow /\ x.seq > base
              /\ \/ x.kind = "superseded" /\ p # NoCtx /\ x.ctx = p /\ x.about = c
                 \/ /\ x.kind = "key_revocation" /\ r.content.revokes
                    /\ x.ctx = c /\ x.about = NoCtx
        /\ \A x, y \in new : x.kind = y.kind \/ x.seq = y.seq => x = y
        /\ minted /\ p # NoCtx => \E x \in new : x.kind = "superseded"
        /\ minted /\ r.content.revokes =>
              \E x \in new : x.kind = "key_revocation"

\* commit_publish appends those rows, through feed_appends_for_publish.
LEMMA PublishAppends ==
    ASSUME NEW c \in Ctx, NEW r \in Request, NEW minted \in BOOLEAN,
           NEW now \in Nat, NEW base \in Nat, NEW at \in Nat,
           Publish(c, r, minted, now, base, at)
    PROVE  \E new : PublishedRows(c, r, minted, base, new)
PROOF
<1> DEFINE p == r.content.supersedes
<1>1. p \in Ctx \cup {NoCtx} /\ r.content.revokes \in BOOLEAN
  BY ContentAssumption DEF Request, ContentType
<1>2. CASE ~ minted
  <2>1. appended' = appended \cup {}
    BY <1>2 DEF Publish, AppendRows
  <2>2. PublishedRows(c, r, minted, base, {})
    BY <1>2, <2>1 DEF PublishedRows
  <2> QED BY <2>2
<1>3. CASE minted
  <2> DEFINE sup == SupersededRows(c, r, base, at)
             rev == RevocationRows(c, r, base, at)
  <2>1. appended' = appended \cup (sup \cup rev)
    BY <1>3 DEF Publish, AppendRows, PublishRows
  <2>2. /\ p = NoCtx => sup = {}
        /\ p # NoCtx => sup # {}
        /\ \A x \in sup : /\ x \in FeedRow /\ x.seq = base + 1 /\ p # NoCtx
                          /\ x.kind = "superseded" /\ x.ctx = p /\ x.about = c
        /\ \A x, y \in sup : x = y
    <3> DEFINE row == [seq |-> base + 1, kind |-> "superseded", ctx |-> p,
                       about |-> c, at |-> at]
    <3>1. sup = IF p = NoCtx THEN {} ELSE {row}
      BY DEF SupersededRows
    <3>2. /\ p # NoCtx => row \in FeedRow
          /\ row.seq = base + 1 /\ row.kind = "superseded" /\ row.ctx = p
          /\ row.about = c
      BY <1>1 DEF FeedRow
    <3> HIDE DEF row, sup, p
    <3> QED BY <3>1, <3>2
  <2>3. /\ ~ r.content.revokes => rev = {}
        /\ r.content.revokes => rev # {}
        /\ \A x \in rev :
              /\ x \in FeedRow /\ r.content.revokes
              /\ x.seq = IF p = NoCtx THEN base + 1 ELSE base + 2
              /\ x.kind = "key_revocation" /\ x.ctx = c /\ x.about = NoCtx
        /\ \A x, y \in rev : x = y
    <3> DEFINE row == [seq |-> IF p = NoCtx THEN base + 1 ELSE base + 2,
                       kind |-> "key_revocation", ctx |-> c,
                       about |-> NoCtx, at |-> at]
    <3>1. rev = IF ~ r.content.revokes THEN {} ELSE {row}
      BY DEF RevocationRows
    <3>2. /\ row \in FeedRow
          /\ row.seq = IF p = NoCtx THEN base + 1 ELSE base + 2
          /\ row.kind = "key_revocation" /\ row.ctx = c /\ row.about = NoCtx
      BY DEF FeedRow
    <3> HIDE DEF row, rev
    <3> QED BY <3>1, <3>2
  <2> HIDE DEF sup, rev
  <2>4. \A x, y \in sup \cup rev : x.kind = y.kind \/ x.seq = y.seq => x = y
    <3>1. \A x \in sup, y \in rev : x.kind # y.kind /\ x.seq # y.seq
      BY <2>2, <2>3
    <3> QED BY <2>2, <2>3, <3>1
  <2>5. \A x \in sup \cup rev : x \in FeedRow /\ x.seq > base
    BY <2>2, <2>3
  <2>6. PublishedRows(c, r, minted, base, sup \cup rev)
    BY <1>3, <2>1, <2>2, <2>3, <2>4, <2>5 DEF PublishedRows
  <2> QED BY <2>6
<1> QED BY <1>2, <1>3

\* A publish changes nothing of the contexts already there but the status of
\* the predecessor.
LEMMA PublishKeeps ==
    ASSUME TypeOK, LineageIsChain,
           NEW c \in Ctx \ Stored, NEW r \in Request, NEW minted \in BOOLEAN,
           NEW now \in Nat, NEW base, NEW at,
           Publish(c, r, minted, now, base, at)
    PROVE  /\ Stored' = Stored \cup {c} /\ c \notin Stored
           /\ contexts'[c].content = r.content /\ contexts'[c].receipt = minted
           /\ \A d \in Stored :
                 /\ contexts'[d].content = contexts[d].content
                 /\ contexts'[d].lineage = contexts[d].lineage
                 /\ contexts'[d].agent = contexts[d].agent
                 /\ contexts'[d].tenant = contexts[d].tenant
                 /\ contexts'[d].created = contexts[d].created
                 /\ contexts'[d].receipt = contexts[d].receipt
                 /\ contexts[d].status = "superseded" =>
                       contexts'[d].status = "superseded"
PROOF
<1>1. PublishEffect(c, r, minted, now)
  BY PublishRow
<1>2. /\ Stored' = Stored \cup {c} /\ c \notin Stored
      /\ contexts'[c] = NewRow(c, r, minted, now)
  BY <1>1 DEF PublishEffect, Stored
<1>3. contexts'[c].content = r.content /\ contexts'[c].receipt = minted
  BY <1>2 DEF NewRow
<1>4. ASSUME NEW d \in Stored
      PROVE  /\ contexts'[d].content = contexts[d].content
             /\ contexts'[d].lineage = contexts[d].lineage
             /\ contexts'[d].agent = contexts[d].agent
             /\ contexts'[d].tenant = contexts[d].tenant
             /\ contexts'[d].created = contexts[d].created
             /\ contexts'[d].receipt = contexts[d].receipt
             /\ contexts[d].status = "superseded" =>
                   contexts'[d].status = "superseded"
  <2>1. contexts[d] \in ContextRow
    BY DEF TypeOK
  <2>2. \/ contexts'[d] = contexts[d]
        \/ contexts'[d] = [contexts[d] EXCEPT !.status = "superseded"]
    BY <1>1 DEF PublishEffect
  <2>3. CASE contexts'[d] = contexts[d]
    BY <2>3
  <2>4. CASE contexts'[d] = [contexts[d] EXCEPT !.status = "superseded"]
    BY <2>1, <2>4 DEF ContextRow
  <2> QED BY <2>2, <2>3, <2>4
<1> QED BY <1>2, <1>3, <1>4

\* A publish appends one leaf, past its predecessor's.
LEMMA PublishLog ==
    ASSUME IInv, HInv, NEW c \in Ctx \ Stored, NEW r \in Request,
           NEW minted \in BOOLEAN, NEW now \in Nat, NEW base, NEW at,
           Publish(c, r, minted, now, base, at)
    PROVE  LogMirrorsContexts'
PROOF
<1>0. TypeOK /\ LineageIsChain /\ LogMirrorsContexts
  BY DEF IInv, HInv
<1>1. PublishEffect(c, r, minted, now)
  BY <1>0, PublishRow
<1>2. /\ Stored' = Stored \cup {c} /\ c \notin Stored
      /\ Prev(c)' = r.content.supersedes
      /\ \A d \in Stored : Prev(d)' = Prev(d)
  BY <1>0, PublishKeeps DEF Prev
<1>3. /\ Prev(c)' \in Stored \cup {NoCtx}
      /\ \A d \in Stored : Prev(d) \in Stored \cup {NoCtx}
  BY <1>0, <1>1, <1>2 DEF PublishEffect, LineageIsChain, Linked
<1>4. c # NoCtx
  BY NameAssumption
<1>5. leaves' = WithLeaf(c) /\ LogEnabled \in BOOLEAN
  BY ParameterAssumption DEF Publish
<1>6. CASE ~ LogEnabled
  BY <1>0, <1>5, <1>6 DEF LogMirrorsContexts, WithLeaf
<1>7. CASE LogEnabled
  <2>1. leaves \in Seq(Ctx) /\ leaves' = Append(leaves, c)
    BY <1>0, <1>5, <1>7 DEF TypeOK, WithLeaf
  <2>2. /\ Len(leaves) \in Nat /\ DOMAIN leaves = 1 .. Len(leaves)
        /\ DOMAIN leaves' = 1 .. Len(leaves) + 1
        /\ leaves'[Len(leaves) + 1] = c
        /\ \A i \in 1 .. Len(leaves) : leaves'[i] = leaves[i]
    BY <2>1
  <2>3. /\ \A i \in 1 .. Len(leaves) : leaves[i] \in Stored
        /\ \A d \in Stored : \E i \in 1 .. Len(leaves) : leaves[i] = d
    BY <1>0, <1>7, <2>2 DEF LogMirrorsContexts
  <2>4. {leaves'[i] : i \in DOMAIN leaves'} = Stored'
    <3>1. \A i \in DOMAIN leaves' : leaves'[i] \in Stored'
      BY <1>2, <2>2, <2>3
    <3>2. \A d \in Stored' : \E i \in DOMAIN leaves' : leaves'[i] = d
      BY <1>2, <2>2, <2>3
    <3> QED BY <3>1, <3>2
  <2>5. ASSUME NEW i \in DOMAIN leaves', NEW j \in DOMAIN leaves'
        PROVE  /\ leaves'[i] = leaves'[j] => i = j
               /\ Prev(leaves[j])' = leaves'[i] => i < j
    <3>1. CASE i \in 1 .. Len(leaves) /\ j \in 1 .. Len(leaves)
      <4>1. /\ leaves[i] = leaves[j] => i = j
            /\ Prev(leaves[j]) = leaves[i] => i < j
        BY <1>0, <1>7, <2>2, <3>1 DEF LogMirrorsContexts
      <4>2. Prev(leaves[j])' = Prev(leaves[j])
        BY <1>2, <2>2, <2>3, <3>1 DEF Prev
      <4> QED BY <2>2, <3>1, <4>1, <4>2
    <3>2. CASE i \in 1 .. Len(leaves) /\ j = Len(leaves) + 1
      BY <1>2, <2>2, <2>3, <3>2
    <3>3. CASE i = Len(leaves) + 1 /\ j \in 1 .. Len(leaves)
      <4>1. Prev(leaves[j])' = Prev(leaves[j])
        BY <1>2, <2>2, <2>3, <3>3 DEF Prev
      <4>2. leaves'[i] = c /\ leaves'[j] = leaves[j] /\ leaves[j] \in Stored
        BY <2>2, <2>3, <3>3
      <4> QED BY <1>2, <1>3, <1>4, <4>1, <4>2
    <3>4. CASE i = Len(leaves) + 1 /\ j = Len(leaves) + 1
      <4>1. leaves'[j] = c /\ leaves'[i] = c
        BY <2>2, <3>4
      <4>2. Prev(leaves[j])' # c
        BY <1>2, <1>3, <1>4, <4>1 DEF Prev
      <4> QED BY <3>4, <4>1, <4>2
    <3> QED BY <2>2, <3>1, <3>2, <3>3, <3>4
  <2> QED BY <1>7, <2>4, <2>5 DEF LogMirrorsContexts
<1> QED BY <1>5, <1>6, <1>7

\* A publish preserves what is said of the feed's history.
LEMMA PublishHistory ==
    ASSUME IInv, HInv, NEW c \in Ctx \ Stored, NEW r \in Request,
           NEW minted \in BOOLEAN, NEW now \in Nat,
           NEW base \in Nat, base >= lastSeq, NEW at \in Nat,
           Publish(c, r, minted, now, base, at)
    PROVE  HInv'
PROOF
<1> DEFINE p == r.content.supersedes
<1>0. /\ TypeOK /\ LineageIsChain /\ EventInv /\ FeedInv
      /\ SaidOnce /\ SaysAll /\ SaysTrue
      /\ SupersessionsOrdered /\ EventsOrdered /\ PositionsUnique
  BY DEF IInv, HInv
<1>1. PICK new : PublishedRows(c, r, minted, base, new)
  BY PublishAppends
<1>2. /\ appended' = appended \cup new
      /\ \A x \in new :
            /\ minted /\ x \in FeedRow /\ x.seq > base
            /\ \/ x.kind = "superseded" /\ p # NoCtx /\ x.ctx = p /\ x.about = c
               \/ /\ x.kind = "key_revocation" /\ r.content.revokes
                  /\ x.ctx = c /\ x.about = NoCtx
      /\ \A x, y \in new : x.kind = y.kind \/ x.seq = y.seq => x = y
      /\ minted /\ p # NoCtx => \E x \in new : x.kind = "superseded"
      /\ minted /\ r.content.revokes =>
            \E x \in new : x.kind = "key_revocation"
  BY <1>1 DEF PublishedRows
<1>3. /\ Stored' = Stored \cup {c} /\ c \notin Stored /\ c \in Ctx
      /\ Prev(c)' = p /\ contexts'[c].content = r.content
      /\ contexts'[c].receipt = minted
      /\ \A d \in Stored :
            /\ Prev(d)' = Prev(d) /\ Version(d)' = Version(d)
            /\ contexts'[d].content = contexts[d].content
            /\ contexts'[d].lineage = contexts[d].lineage
            /\ contexts'[d].receipt = contexts[d].receipt
  BY <1>0, PublishKeeps DEF Prev, Version
<1>4. /\ events' = events /\ events[c] = << >>
      /\ Stored \subseteq Ctx /\ c # NoCtx
  BY <1>0, NameAssumption
     DEF Publish, EventInv, RetractionConsistent, TypeOK
<1>5. /\ p # NoCtx => p \in Stored /\ contexts[p].status = "active"
      /\ \A d \in Stored : /\ Prev(d) # NoCtx => Prev(d) \in Stored
                           /\ Version(d) \in Nat
  <2>1. PublishEffect(c, r, minted, now)
    BY <1>0, PublishRow
  <2> QED BY <1>0, <2>1 DEF PublishEffect, LineageIsChain, Linked, TypeOK,
                            Version, ContextRow, ContentType
<1>6. /\ \A x \in appended : x.seq \in Nat /\ x.seq <= lastSeq /\ x.ctx \in Ctx
      /\ \A x \in new : x.seq \in Nat
      /\ lastSeq \in Nat
      /\ \A x \in appended, y \in new : x.seq < y.seq
  <2>1. lastSeq \in Nat /\ \A x \in appended \cup new : x \in FeedRow
    BY <1>0, <1>2 DEF TypeOK
  <2>2. \A x \in appended \cup new : x.seq \in Nat /\ x.ctx \in Ctx
    BY <2>1 DEF FeedRow
  <2>3. \A x \in appended : x.seq <= lastSeq
    BY <1>0 DEF FeedInv
  <2>4. \A y \in new : y.seq > lastSeq
    BY <1>2, <2>1, <2>2
  <2> QED BY <2>1, <2>2, <2>3, <2>4
\* What the rows already there are about was stored before.
<1>7. ASSUME NEW x \in appended
      PROVE  /\ x.kind = "superseded" =>
                   /\ x.about \in Stored /\ Prev(x.about) = x.ctx
                   /\ x.ctx \in Stored /\ contexts[x.ctx].status = "superseded"
             /\ x.kind = "key_revocation" => x.ctx \in Stored
             /\ x.kind = "lifecycle" => Receipted(x.ctx, x.about)
  <2>1. /\ x.kind = "superseded" => x.about \in Stored /\ Prev(x.about) = x.ctx
        /\ x.kind = "key_revocation" => x.ctx \in Stored
        /\ x.kind = "lifecycle" => Receipted(x.ctx, x.about)
    BY <1>0 DEF SaysTrue
  <2>2. x.ctx # NoCtx
    BY <1>6, NameAssumption
  <2>3. x.kind = "superseded" => x.ctx \in Stored
    BY <1>5, <2>1, <2>2
  <2>4. x.kind = "superseded" => contexts[x.ctx].status = "superseded"
    BY <1>0, <2>1, <2>3 DEF LineageIsChain, SupersededIffSuccessor
  <2> QED BY <2>1, <2>3, <2>4
<1>8. LogMirrorsContexts'
  BY PublishLog
<1>9. SaidOnce'
  <2> SUFFICES ASSUME NEW x \in appended \cup new, NEW y \in appended \cup new,
                      x.kind = y.kind, x.ctx = y.ctx, x.about = y.about
               PROVE  x = y
    BY <1>2 DEF SaidOnce
  <2>1. CASE x \in appended /\ y \in appended
    BY <2>1, <1>0 DEF SaidOnce
  <2>2. CASE x \in new /\ y \in new
    BY <2>2, <1>2
  <2>3. \A u \in appended, v \in new :
           ~ (u.kind = v.kind /\ u.ctx = v.ctx /\ u.about = v.about)
    BY <1>2, <1>3, <1>7
  <2> QED BY <2>1, <2>2, <2>3
<1>10. SaysTrue'
  <2> SUFFICES ASSUME NEW x \in appended \cup new
               PROVE  /\ x.kind = "superseded" =>
                            x.about \in Stored' /\ Prev(x.about)' = x.ctx
                      /\ x.kind = "key_revocation" => x.ctx \in Stored'
                      /\ x.kind = "lifecycle" => Receipted(x.ctx, x.about)'
    BY <1>2 DEF SaysTrue
  <2>1. Receipted(x.ctx, x.about)' <=> Receipted(x.ctx, x.about)
    BY <1>4 DEF Receipted
  <2>2. CASE x \in appended
    BY <2>1, <2>2, <1>3, <1>7
  <2>3. CASE x \in new
    BY <2>3, <1>2, <1>3
  <2> QED BY <2>2, <2>3
<1>11. SaysAll'
  <2>1. \A kind, d, about :
           Reported(kind, d, about)' <=>
              \/ Reported(kind, d, about)
              \/ \E x \in new : x.kind = kind /\ x.ctx = d /\ x.about = about
    BY <1>2 DEF Reported
  <2> SUFFICES ASSUME NEW d \in Stored \cup {c}
               PROVE  /\ Prev(d)' # NoCtx =>
                            (Reported("superseded", Prev(d), d)'
                                <=> contexts'[d].receipt)
                      /\ Reported("key_revocation", d, NoCtx)'
                            <=> (contexts'[d].receipt
                                    /\ contexts'[d].content.revokes)
                      /\ Minting = {TRUE} => \A i \in DOMAIN events[d] :
                            Reported("lifecycle", d, events[d][i].id)'
    BY <1>3, <1>4 DEF SaysAll, Reported, Prev
  <2>2. \A q : Reported("superseded", q, d)' <=>
           \/ Reported("superseded", q, d)
           \/ \E x \in new : x.kind = "superseded" /\ x.ctx = q /\ x.about = d
    BY <2>1
  <2>3. CASE d \in Stored
    <3>1. d # c /\ d # NoCtx
      BY <2>3, <1>3, <1>4, NameAssumption
    <3>2. \A x \in new : /\ ~ (x.kind = "superseded" /\ x.about = d)
                         /\ ~ (x.kind = "key_revocation" /\ x.ctx = d)
                         /\ x.kind # "lifecycle"
      BY <3>1, <1>2
    <3>3. /\ Prev(d) # NoCtx =>
                (Reported("superseded", Prev(d), d) <=> contexts[d].receipt)
          /\ Reported("key_revocation", d, NoCtx)
                <=> (contexts[d].receipt /\ contexts[d].content.revokes)
          /\ Minting = {TRUE} => \A i \in DOMAIN events[d] :
                Reported("lifecycle", d, events[d][i].id)
      BY <2>3, <1>0 DEF SaysAll
    <3>4. Prev(d)' # NoCtx =>
             (Reported("superseded", Prev(d), d)' <=> contexts'[d].receipt)
      BY <2>3, <3>2, <3>3, <1>2, <1>3 DEF Reported
    <3>5. Reported("key_revocation", d, NoCtx)'
             <=> (contexts'[d].receipt /\ contexts'[d].content.revokes)
      BY <2>1, <2>3, <3>2, <3>3, <1>3
    <3>6. Minting = {TRUE} => \A i \in DOMAIN events[d] :
             Reported("lifecycle", d, events[d][i].id)'
      BY <3>3, <1>2, <1>4 DEF Reported
    <3> QED BY <3>4, <3>5, <3>6
  <2>4. CASE d = c
    <3>1. \A x \in appended : /\ ~ (x.kind = "superseded" /\ x.about = c)
                              /\ ~ (x.kind = "key_revocation" /\ x.ctx = c)
      BY <1>3, <1>7
    <3>2. p # NoCtx => (Reported("superseded", Prev(d), d)' <=> minted)
      <4>1. p # NoCtx /\ minted => \E x \in appended' :
               x.kind = "superseded" /\ x.ctx = p /\ x.about = c
        BY <1>2
      <4>2. \A x \in appended' : x.kind = "superseded" /\ x.about = c => minted
        BY <3>1, <1>2
      <4> QED BY <2>4, <4>1, <4>2, <1>3 DEF Reported
    <3>3. Reported("key_revocation", d, NoCtx)' <=> minted /\ r.content.revokes
      <4>1. minted /\ r.content.revokes => \E x \in appended' :
               x.kind = "key_revocation" /\ x.ctx = c /\ x.about = NoCtx
        BY <1>2
      <4>2. \A x \in appended' : x.kind = "key_revocation" /\ x.ctx = c =>
               minted /\ r.content.revokes
        BY <3>1, <1>2
      <4> QED BY <2>4, <4>1, <4>2 DEF Reported
    <3>4. DOMAIN events[d] = {}
      BY <2>4, <1>4
    <3> QED BY <2>4, <3>2, <3>3, <3>4, <1>3
  <2> QED BY <2>3, <2>4
<1>12. SupersessionsOrdered'
  <2> SUFFICES ASSUME NEW x \in appended \cup new, NEW y \in appended \cup new,
                      x.kind = "superseded", y.kind = "superseded",
                      contexts'[x.ctx].lineage = contexts'[y.ctx].lineage
               PROVE  x.seq < y.seq <=> Version(x.ctx)' < Version(y.ctx)'
    BY <1>2 DEF SupersessionsOrdered, Version
  <2>1. CASE x \in appended /\ y \in appended
    <3>1. x.ctx \in Stored /\ y.ctx \in Stored
      BY <2>1, <1>7
    <3>2. x.seq < y.seq <=> Version(x.ctx) < Version(y.ctx)
      BY <2>1, <3>1, <1>0, <1>3 DEF SupersessionsOrdered
    <3> QED BY <3>1, <3>2, <1>3
  <2>2. CASE x \in new /\ y \in new
    <3>1. x = y
      BY <2>2, <1>2
    <3>2. Version(x.ctx)' \in Nat /\ x.seq \in Nat
      BY <2>2, <1>2, <1>3, <1>5, <1>6
    <3> QED BY <3>1, <3>2
  \* The predecessor was the newest version, and nobody had superseded it.
  <2>3. ASSUME NEW u \in appended, NEW v \in new,
               u.kind = "superseded", v.kind = "superseded",
               contexts'[u.ctx].lineage = contexts'[v.ctx].lineage
        PROVE  /\ u.seq < v.seq /\ u.seq \in Nat /\ v.seq \in Nat
               /\ Version(u.ctx)' < Version(v.ctx)'
               /\ Version(u.ctx)' \in Nat /\ Version(v.ctx)' \in Nat
    <3>1. /\ u.ctx \in Stored /\ contexts[u.ctx].status = "superseded"
          /\ v.ctx = p /\ p \in Stored /\ contexts[p].status = "active"
      BY <2>3, <1>2, <1>5, <1>7
    <3>2. contexts[u.ctx].lineage = contexts[p].lineage
      BY <2>3, <3>1, <1>3
    <3>3. Version(u.ctx) <= Version(p)
      BY <3>1, <3>2, <1>0 DEF LineageIsChain, OnlyNewestActive
    <3>4. Version(u.ctx) # Version(p)
      BY <3>1, <3>2, <1>0 DEF LineageIsChain, NoFork
    <3>5. Version(u.ctx) < Version(p)
      BY <3>1, <3>3, <3>4, <1>5
    <3> QED BY <3>1, <3>5, <1>3, <1>5, <1>6
  <2> QED BY <2>1, <2>2, <2>3
<1>13. EventsOrdered'
  <2> SUFFICES ASSUME NEW x \in appended \cup new, NEW y \in appended \cup new,
                      x.kind = "lifecycle", y.kind = "lifecycle",
                      x.ctx = y.ctx, x.seq < y.seq
               PROVE  Precedes(x.ctx, x.about, y.about)'
    BY <1>2 DEF EventsOrdered, Precedes
  <2>1. x \in appended /\ y \in appended
    BY <1>2
  <2>2. Precedes(x.ctx, x.about, y.about)
    BY <2>1, <1>0 DEF EventsOrdered
  <2> QED BY <2>2, <1>4 DEF Precedes
<1>14. PositionsUnique'
  <2> SUFFICES ASSUME NEW x \in appended \cup new, NEW y \in appended \cup new,
                      x.seq = y.seq
               PROVE  x = y
    BY <1>2 DEF PositionsUnique
  <2> QED BY <1>0, <1>2, <1>6 DEF PositionsUnique
<1> QED BY <1>8, <1>9, <1>10, <1>11, <1>12, <1>13, <1>14 DEF HInv

(***************************************************************************)
(* Lifecycle events and their receipts.                                    *)
(***************************************************************************)
\* Every event of s is still there in t, with its receipt if it has one.
Extends(s, t) ==
    /\ s \in Seq(Event) /\ t \in Seq(Event) /\ Len(s) <= Len(t)
    /\ \A i \in DOMAIN s :
          /\ t[i].id = s[i].id
          /\ s[i].receipt # NoReceipt => t[i] = s[i]

\* Filling the NULL receipts takes nothing back.
LEMMA FilledExtends ==
    ASSUME NEW s \in Seq(Event), NEW at \in Nat
    PROVE  Extends(s, Filled(s, at)) /\ Len(Filled(s, at)) = Len(s)
PROOF
<1> DEFINE u == Filled(s, at)
<1>1. /\ DOMAIN s = 1 .. Len(s) /\ Len(s) \in Nat
      /\ \A i \in 1 .. Len(s) : s[i] \in Event
  OBVIOUS
<1>2. /\ u = [i \in 1 .. Len(s) |-> u[i]]
      /\ \A i \in 1 .. Len(s) :
            u[i] = IF s[i].receipt = NoReceipt
                   THEN [s[i] EXCEPT !.receipt = at] ELSE s[i]
  BY <1>1 DEF Filled
<1> HIDE DEF u
<1>3. \A i \in 1 .. Len(s) :
         /\ u[i] \in Event /\ u[i].id = s[i].id
         /\ s[i].receipt # NoReceipt => u[i] = s[i]
  BY <1>1, <1>2 DEF Event
<1>4. u \in Seq(Event) /\ Len(u) = Len(s)
  BY <1>1, <1>2, <1>3
<1> QED BY <1>1, <1>3, <1>4 DEF Extends, u

\* Appending an event takes nothing back either; the new one is last.
LEMMA WithEventExtends ==
    ASSUME NEW s \in Seq(Event), NEW at \in Nat, NEW id \in EventId,
           NEW type \in {"retracted", "republished"}, NEW mints \in BOOLEAN
    PROVE  LET t == WithEvent(s, id, type, mints, at)
           IN  /\ Extends(s, t) /\ Len(t) = Len(s) + 1
               /\ t[Len(s) + 1].id = id
               /\ mints => t[Len(s) + 1].receipt # NoReceipt
PROOF
<1> DEFINE u == IF mints /\ ~ HasHole(s) THEN Filled(s, at) ELSE s
           new == [id |-> id, type |-> type,
                   receipt |-> IF mints THEN at ELSE NoReceipt]
           t == Append(u, new)
<1>1. WithEvent(s, id, type, mints, at) = t
  BY DEF WithEvent
<1>2. Extends(s, u) /\ Len(u) = Len(s)
  <2>1. Extends(s, s)
    BY DEF Extends
  <2> QED BY <2>1, FilledExtends
<1> HIDE DEF u
<1>3. new \in Event /\ new.id = id /\ (mints => new.receipt # NoReceipt)
  BY DEF Event, NoReceipt
<1> HIDE DEF new
<1>4. /\ s \in Seq(Event) /\ u \in Seq(Event)
      /\ Len(s) \in Nat /\ DOMAIN s = 1 .. Len(s) /\ DOMAIN u = 1 .. Len(s)
      /\ \A i \in DOMAIN s : /\ u[i].id = s[i].id
                             /\ s[i].receipt # NoReceipt => u[i] = s[i]
  BY <1>2 DEF Extends
<1>5. /\ t \in Seq(Event) /\ Len(t) = Len(s) + 1 /\ t[Len(s) + 1] = new
      /\ \A i \in 1 .. Len(s) : t[i] = u[i]
  BY <1>2, <1>3, <1>4
<1> HIDE DEF t
<1>6. Extends(s, t)
  BY <1>4, <1>5 DEF Extends
<1> QED BY <1>1, <1>3, <1>5, <1>6

\* An extended history still has its receipted events, in their order.
LEMMA ExtendsKeeps ==
    ASSUME NEW c, Extends(events[c], events'[c])
    PROVE  /\ \A id : Receipted(c, id) => Receipted(c, id)'
           /\ \A a, b : Precedes(c, a, b) => Precedes(c, a, b)'
PROOF
<1>1. /\ DOMAIN events[c] \subseteq DOMAIN events'[c]
      /\ \A i \in DOMAIN events[c] :
            /\ events'[c][i].id = events[c][i].id
            /\ events[c][i].receipt # NoReceipt => events'[c][i] = events[c][i]
  BY DEF Extends
<1>2. ASSUME NEW id, Receipted(c, id) PROVE Receipted(c, id)'
  BY <1>1, <1>2 DEF Receipted
<1>3. ASSUME NEW a, NEW b, Precedes(c, a, b) PROVE Precedes(c, a, b)'
  BY <1>1, <1>3 DEF Precedes
<1> QED BY <1>2, <1>3

\* A step that leaves contexts' bodies and the log alone keeps the log a
\* mirror of the contexts.
LEMMA SameLog ==
    ASSUME LogMirrorsContexts, leaves' = leaves, DOMAIN contexts' = Stored,
           \A d \in Stored : contexts'[d].content = contexts[d].content
    PROVE  LogMirrorsContexts'
PROOF
<1>1. Stored' = Stored /\ \A d \in Stored : Prev(d)' = Prev(d)
  BY DEF Stored, Prev
<1>2. CASE ~ LogEnabled
  BY <1>2 DEF LogMirrorsContexts
<1>3. CASE LogEnabled
  <2>1. /\ {leaves[i] : i \in DOMAIN leaves} = Stored
        /\ \A i, j \in DOMAIN leaves :
              /\ leaves[i] = leaves[j] => i = j
              /\ Prev(leaves[j]) = leaves[i] => i < j
    BY <1>3 DEF LogMirrorsContexts
  <2>2. \A j \in DOMAIN leaves : leaves[j] \in Stored
    BY <2>1
  <2>3. \A j \in DOMAIN leaves : Prev(leaves[j])' = Prev(leaves[j])
    BY <1>1, <2>2 DEF Prev
  <2> QED BY <1>1, <1>3, <2>1, <2>3 DEF LogMirrorsContexts
<1> QED BY <1>2, <1>3

\* commit_lifecycle_event preserves what is said of the feed's history.
LEMMA LifecycleHistory ==
    ASSUME IInv, HInv, NEW c \in Stored, NEW id \in EventId,
           NEW type \in {"retracted", "republished"}, NEW mints \in Minting,
           NEW now \in Nat, NEW base \in Nat, base >= lastSeq, NEW at \in Nat,
           CommitLifecycle(c, id, type, mints, now, base, at)
    PROVE  HInv' /\ \A d \in Ctx : Extends(events[d], events'[d])
PROOF
<1>0. /\ TypeOK /\ LineageIsChain /\ EventInv /\ FeedInv
      /\ SaidOnce /\ SaysAll /\ SaysTrue /\ LogMirrorsContexts
      /\ SupersessionsOrdered /\ EventsOrdered /\ PositionsUnique
  BY DEF IInv, HInv
<1> DEFINE s == events[c]
           acc == AcceptedAt(s, contexts[c].created, now)
           t == WithEvent(s, id, type, mints, acc)
           row == [seq |-> base + 1, kind |-> "lifecycle", ctx |-> c,
                   about |-> id, at |-> at]
           new == IF mints THEN {row} ELSE {}
<1>1. /\ c \in Ctx /\ s \in Seq(Event) /\ contexts[c].created \in Nat
      /\ mints \in BOOLEAN /\ Stored \subseteq Ctx
      /\ \A d \in Stored : contexts[d] \in ContextRow
  BY <1>0, ParameterAssumption DEF TypeOK, ContextRow
<1>2. /\ leaves' = leaves /\ events' = [events EXCEPT ![c] = t]
      /\ contexts' = [contexts EXCEPT ![c].retracted = (type = "retracted")]
      /\ LifecycleOutcome(c, id, type) = "ok"
  BY DEF CommitLifecycle
<1>3. appended' = appended \cup new
  BY <1>1 DEF CommitLifecycle, AppendRows, LifecycleRows
<1>4. acc \in Nat
  <2>1. ReceiptsChained(s, contexts[c].created)
    BY <1>0 DEF EventInv, ReceiptChain
  <2> QED BY <1>1, <2>1, AcceptedAtBound
<1> HIDE DEF acc
<1>5. /\ Extends(s, t) /\ Len(t) = Len(s) + 1 /\ t[Len(s) + 1].id = id
      /\ mints => t[Len(s) + 1].receipt # NoReceipt
  BY <1>1, <1>4, WithEventExtends
<1> HIDE DEF t
<1>6. /\ events'[c] = t /\ \A d \in Ctx : d # c => events'[d] = events[d]
  BY <1>0, <1>1, <1>2 DEF TypeOK
<1>7. /\ Stored' = Stored /\ DOMAIN contexts' = Stored
      /\ \A d \in Stored :
            /\ contexts'[d].content = contexts[d].content
            /\ contexts'[d].lineage = contexts[d].lineage
            /\ contexts'[d].receipt = contexts[d].receipt
  <2>1. /\ DOMAIN contexts' = Stored
        /\ contexts'[c] = [contexts[c] EXCEPT !.retracted = (type = "retracted")]
        /\ \A d \in Stored : d # c => contexts'[d] = contexts[d]
    BY <1>0, <1>2 DEF Stored, TypeOK
  <2>2. /\ contexts'[c].content = contexts[c].content
        /\ contexts'[c].lineage = contexts[c].lineage
        /\ contexts'[c].receipt = contexts[c].receipt
    BY <1>1, <2>1 DEF ContextRow
  <2> QED BY <2>1, <2>2 DEF Stored
<1>8. \A d \in Stored : Prev(d)' = Prev(d) /\ Version(d)' = Version(d)
  BY <1>7 DEF Prev, Version
<1>9. \A d \in Ctx : Extends(events[d], events'[d])
  <2> TAKE d \in Ctx
  <2>1. CASE d = c
    BY <1>5, <1>6, <2>1
  <2>2. CASE d # c
    BY <1>0, <1>6, <2>2 DEF Extends, TypeOK
  <2> QED BY <2>1, <2>2
<1>10. \A d \in Ctx :
          /\ \A a : Receipted(d, a) => Receipted(d, a)'
          /\ \A a, b : Precedes(d, a, b) => Precedes(d, a, b)'
  BY <1>9, ExtendsKeeps
<1>11. /\ DOMAIN s = 1 .. Len(s) /\ DOMAIN t = 1 .. Len(s) + 1 /\ Len(s) \in Nat
       /\ \A i \in 1 .. Len(s) : t[i].id = s[i].id
  BY <1>5 DEF Extends
\* The event id is new for this context.
<1>12. \A i \in DOMAIN s : s[i].id # id
  BY <1>2 DEF LifecycleOutcome
<1>13. ASSUME NEW x \in appended
       PROVE  /\ x.seq \in Nat /\ x.seq < base + 1 /\ x.ctx \in Ctx
              /\ x.kind = "superseded" =>
                    /\ x.about \in Stored /\ Prev(x.about) = x.ctx
                    /\ x.ctx \in Stored
              /\ x.kind = "key_revocation" => x.ctx \in Stored
              /\ x.kind = "lifecycle" => Receipted(x.ctx, x.about)
  <2>1. x \in FeedRow /\ lastSeq \in Nat /\ x.seq <= lastSeq
    BY <1>0 DEF TypeOK, FeedInv
  <2>2. x.seq \in Nat /\ x.ctx \in Ctx /\ x.ctx # NoCtx
    BY <2>1, NameAssumption DEF FeedRow
  <2>3. x.seq < base + 1
    BY <2>1, <2>2
  <2>4. /\ x.kind = "superseded" => x.about \in Stored /\ Prev(x.about) = x.ctx
        /\ x.kind = "key_revocation" => x.ctx \in Stored
        /\ x.kind = "lifecycle" => Receipted(x.ctx, x.about)
    BY <1>0 DEF SaysTrue
  <2>5. x.kind = "superseded" => x.ctx \in Stored
    BY <1>0, <2>2, <2>4 DEF LineageIsChain, Linked
  <2> QED BY <2>2, <2>3, <2>4, <2>5
<1>14. /\ row.seq = base + 1 /\ row.kind = "lifecycle" /\ row.ctx = c
       /\ row.about = id
  OBVIOUS
<1> HIDE DEF row
<1>15. \A x \in appended' : x \in appended \/ (x = row /\ mints)
  BY <1>3
<1>16. LogMirrorsContexts'
  BY <1>0, <1>2, <1>7, SameLog
<1>17. SaidOnce'
  <2> SUFFICES ASSUME NEW x \in appended', NEW y \in appended',
                      x.kind = y.kind, x.ctx = y.ctx, x.about = y.about
               PROVE  x = y
    BY DEF SaidOnce
  <2>1. \A u \in appended : ~ (u.kind = "lifecycle" /\ u.ctx = c /\ u.about = id)
    BY <1>12, <1>13 DEF Receipted
  <2> QED BY <1>0, <1>14, <1>15, <2>1 DEF SaidOnce
<1>18. SaysTrue'
  <2> SUFFICES ASSUME NEW x \in appended'
               PROVE  /\ x.kind = "superseded" =>
                            x.about \in Stored /\ Prev(x.about)' = x.ctx
                      /\ x.kind = "key_revocation" => x.ctx \in Stored
                      /\ x.kind = "lifecycle" => Receipted(x.ctx, x.about)'
    BY <1>7 DEF SaysTrue
  <2>1. CASE x \in appended
    BY <2>1, <1>8, <1>10, <1>13
  <2>2. CASE x = row /\ mints
    <3>1. /\ Len(s) + 1 \in DOMAIN events'[c]
          /\ events'[c][Len(s) + 1].id = id
          /\ events'[c][Len(s) + 1].receipt # NoReceipt
      BY <2>2, <1>5, <1>6, <1>11
    <3>2. Receipted(c, id)'
      BY <3>1 DEF Receipted
    <3> QED BY <2>2, <3>2, <1>14
  <2> QED BY <2>1, <2>2, <1>15
<1>19. SaysAll'
  <2> SUFFICES ASSUME NEW d \in Stored
               PROVE  /\ Prev(d)' # NoCtx =>
                            (Reported("superseded", Prev(d), d)'
                                <=> contexts'[d].receipt)
                      /\ Reported("key_revocation", d, NoCtx)'
                            <=> (contexts'[d].receipt
                                    /\ contexts'[d].content.revokes)
                      /\ Minting = {TRUE} => \A i \in DOMAIN events'[d] :
                            Reported("lifecycle", d, events[d][i].id)'
    BY <1>7 DEF SaysAll, Reported, Prev
  <2>1. /\ Prev(d) # NoCtx =>
              (Reported("superseded", Prev(d), d) <=> contexts[d].receipt)
        /\ Reported("key_revocation", d, NoCtx)
              <=> (contexts[d].receipt /\ contexts[d].content.revokes)
        /\ Minting = {TRUE} => \A i \in DOMAIN events[d] :
              Reported("lifecycle", d, events[d][i].id)
    BY <1>0 DEF SaysAll
  <2>2. \A x \in appended' : x.kind # "lifecycle" => x \in appended
    BY <1>14, <1>15
  <2>3. appended \subseteq appended'
    BY <1>3
  <2>4. Prev(d)' # NoCtx =>
           (Reported("superseded", Prev(d), d)' <=> contexts'[d].receipt)
    BY <2>1, <2>2, <2>3, <1>7, <1>8 DEF Reported
  <2>5. Reported("key_revocation", d, NoCtx)'
           <=> (contexts'[d].receipt /\ contexts'[d].content.revokes)
    BY <2>1, <2>2, <2>3, <1>7 DEF Reported
  <2>6. ASSUME Minting = {TRUE}, NEW i \in DOMAIN events'[d]
        PROVE  \E x \in appended' : /\ x.kind = "lifecycle" /\ x.ctx = d
                                    /\ x.about = events'[d][i].id
    <3>1. \A j \in DOMAIN events[d] : \E x \in appended :
             x.kind = "lifecycle" /\ x.ctx = d /\ x.about = events[d][j].id
      BY <2>1, <2>6 DEF Reported
    <3>2. CASE d # c
      BY <3>1, <3>2, <2>3, <1>1, <1>6
    <3>3. CASE d = c /\ i \in 1 .. Len(s)
      BY <3>1, <3>3, <2>3, <1>6, <1>11
    <3>4. CASE d = c /\ i = Len(s) + 1
      <4>1. row \in appended'
        BY <2>6, <1>3
      <4> QED BY <3>4, <4>1, <1>5, <1>6, <1>14
    <3> QED BY <3>2, <3>3, <3>4, <1>6, <1>11
  <2> QED BY <2>4, <2>5, <2>6 DEF Reported
<1>20. SupersessionsOrdered'
  <2> SUFFICES ASSUME NEW x \in appended', NEW y \in appended',
                      x.kind = "superseded", y.kind = "superseded",
                      contexts'[x.ctx].lineage = contexts'[y.ctx].lineage
               PROVE  x.seq < y.seq <=> Version(x.ctx)' < Version(y.ctx)'
    BY DEF SupersessionsOrdered, Version
  <2>1. /\ x \in appended /\ y \in appended
        /\ x.ctx \in Stored /\ y.ctx \in Stored
    BY <1>13, <1>14, <1>15
  <2>2. x.seq < y.seq <=> Version(x.ctx) < Version(y.ctx)
    BY <2>1, <1>0, <1>7 DEF SupersessionsOrdered
  <2> QED BY <2>1, <2>2, <1>8
<1>21. EventsOrdered'
  <2> SUFFICES ASSUME NEW x \in appended', NEW y \in appended',
                      x.kind = "lifecycle", y.kind = "lifecycle",
                      x.ctx = y.ctx, x.seq < y.seq
               PROVE  Precedes(x.ctx, x.about, y.about)'
    BY DEF EventsOrdered, Precedes
  <2>1. CASE x \in appended /\ y \in appended
    <3>1. Precedes(x.ctx, x.about, y.about) /\ x.ctx \in Ctx
      BY <2>1, <1>0, <1>13 DEF EventsOrdered
    <3> QED BY <3>1, <1>10
  <2>2. CASE x \in appended /\ y = row
    <3>1. x.ctx = c /\ Receipted(c, x.about)
      BY <2>2, <1>13, <1>14
    <3>2. PICK i \in DOMAIN s : s[i].id = x.about
      BY <3>1 DEF Receipted
    <3>3. /\ i \in DOMAIN events'[c] /\ events'[c][i].id = x.about
          /\ Len(s) + 1 \in DOMAIN events'[c]
          /\ events'[c][Len(s) + 1].id = id /\ i < Len(s) + 1
      BY <3>2, <1>5, <1>6, <1>11
    <3>4. Precedes(c, x.about, id)'
      BY <3>3 DEF Precedes
    <3> QED BY <2>2, <3>1, <3>4, <1>14
  <2>3. x # row
    BY <1>13, <1>14, <1>15
  <2> QED BY <2>1, <2>2, <2>3, <1>15
<1>22. PositionsUnique'
  <2> SUFFICES ASSUME NEW x \in appended', NEW y \in appended', x.seq = y.seq
               PROVE  x = y
    BY DEF PositionsUnique
  <2> QED BY <1>0, <1>13, <1>14, <1>15 DEF PositionsUnique
<1> QED BY <1>9, <1>16, <1>17, <1>18, <1>19, <1>20, <1>21, <1>22 DEF HInv

\* A step that changes nothing but receipts not yet minted, or that changes
\* neither contexts, log, history nor events, preserves it.
LEMMA QuietHistory ==
    ASSUME IInv, HInv, contexts' = contexts, leaves' = leaves,
           appended' = appended,
           \A d \in Ctx : /\ Extends(events[d], events'[d])
                          /\ Len(events'[d]) = Len(events[d])
    PROVE  HInv'
PROOF
<1>0. /\ TypeOK
      /\ SaidOnce /\ SaysAll /\ SaysTrue /\ LogMirrorsContexts
      /\ SupersessionsOrdered /\ EventsOrdered /\ PositionsUnique
  BY DEF IInv, HInv
<1>1. /\ Stored' = Stored /\ DOMAIN contexts' = Stored /\ Stored \subseteq Ctx
      /\ \A d : Prev(d)' = Prev(d) /\ Version(d)' = Version(d)
      /\ \A kind, d, about : Reported(kind, d, about)' <=> Reported(kind, d, about)
  BY <1>0 DEF TypeOK, Stored, Prev, Version, Reported
<1>2. \A d \in Ctx : /\ \A a : Receipted(d, a) => Receipted(d, a)'
                     /\ \A a, b : Precedes(d, a, b) => Precedes(d, a, b)'
  BY ExtendsKeeps
<1>3. \A x \in appended : x.ctx \in Ctx
  BY <1>0 DEF TypeOK, FeedRow
<1>4. LogMirrorsContexts'
  BY <1>0, <1>1, SameLog
<1>5. SaidOnce' /\ PositionsUnique' /\ SupersessionsOrdered'
  BY <1>0, <1>1 DEF SaidOnce, PositionsUnique, SupersessionsOrdered
<1>6. SaysTrue'
  BY <1>0, <1>1, <1>2, <1>3 DEF SaysTrue
<1>7. EventsOrdered'
  BY <1>0, <1>2, <1>3 DEF EventsOrdered
<1>8. SaysAll'
  <2>1. \A d \in Stored : \A i \in DOMAIN events'[d] :
           i \in DOMAIN events[d] /\ events'[d][i].id = events[d][i].id
    BY <1>1 DEF Extends
  <2>2. ASSUME NEW d \in Stored
        PROVE  /\ Prev(d)' # NoCtx =>
                    (Reported("superseded", Prev(d), d)' <=> contexts'[d].receipt)
               /\ Reported("key_revocation", d, NoCtx)'
                    <=> (contexts'[d].receipt /\ contexts'[d].content.revokes)
    <3>1. /\ Prev(d) # NoCtx =>
                (Reported("superseded", Prev(d), d) <=> contexts[d].receipt)
          /\ Reported("key_revocation", d, NoCtx)
                <=> (contexts[d].receipt /\ contexts[d].content.revokes)
      BY <1>0 DEF SaysAll
    <3> QED BY <3>1 DEF Reported, Prev
  <2>3. ASSUME NEW d \in Stored, Minting = {TRUE}, NEW i \in DOMAIN events'[d]
        PROVE  Reported("lifecycle", d, events[d][i].id)'
    <3>1. Reported("lifecycle", d, events[d][i].id)
      BY <2>1, <2>3, <1>0 DEF SaysAll
    <3> QED BY <2>1, <2>3, <3>1 DEF Reported
  <2> QED BY <1>1, <2>2, <2>3 DEF SaysAll
<1> QED BY <1>4, <1>5, <1>6, <1>7, <1>8 DEF HInv

\* The receipt sweep takes no event and no receipt back.
LEMMA BackfillExtends ==
    ASSUME IInv, NEW c \in Stored, NEW now \in Nat, Backfill(c, now)
    PROVE  \A d \in Ctx : /\ Extends(events[d], events'[d])
                          /\ Len(events'[d]) = Len(events[d])
PROOF
<1>0. TypeOK /\ EventInv
  BY DEF IInv
<1> DEFINE acc == AcceptedAt(events[c], contexts[c].created, now)
<1>1. c \in Ctx /\ events[c] \in Seq(Event) /\ contexts[c].created \in Nat
  BY <1>0 DEF TypeOK, ContextRow
<1>2. acc \in Nat
  <2>1. ReceiptsChained(events[c], contexts[c].created)
    BY <1>0 DEF EventInv, ReceiptChain
  <2> QED BY <1>1, <2>1, AcceptedAtBound
<1>3. events' = [events EXCEPT ![c] = Filled(events[c], acc)]
  BY DEF Backfill
<1> HIDE DEF acc
<1> TAKE d \in Ctx
<1>4. CASE d = c
  BY <1>0, <1>1, <1>2, <1>3, <1>4, FilledExtends DEF TypeOK
<1>5. CASE d # c
  BY <1>0, <1>3, <1>5 DEF Extends, TypeOK
<1> QED BY <1>4, <1>5

\* Every step of the store preserves HInv.
LEMMA NextHInv == IInv /\ HInv /\ [Next]_vars => HInv'
PROOF
<1> SUFFICES ASSUME IInv, HInv, [Next]_vars PROVE HInv'
  OBVIOUS
<1>0. TypeOK
  BY DEF IInv
<1>1. ASSUME NEW c \in Ctx \ Stored, NEW r \in Request, NEW minted \in Minting,
             NEW now \in EntryReadings, NEW base \in Bases,
             NEW at \in FeedReadings, Publish(c, r, minted, now, base, at)
      PROVE  HInv'
  <2>1. /\ minted \in BOOLEAN /\ now \in Nat /\ base \in Nat
        /\ base >= lastSeq /\ at \in Nat
    BY <1>0, ReadingsType, ParameterAssumption
  <2> QED BY <1>1, <2>1, PublishHistory
<1>2. ASSUME NEW c \in Stored, NEW id \in EventId, NEW mints \in Minting,
             NEW type \in {"retracted", "republished"},
             NEW now \in Readings, NEW base \in Bases, NEW at \in FeedReadings,
             CommitLifecycle(c, id, type, mints, now, base, at)
      PROVE  HInv'
  <2>1. now \in Nat /\ base \in Nat /\ base >= lastSeq /\ at \in Nat
    BY <1>0, ReadingsType
  <2> QED BY <1>2, <2>1, LifecycleHistory
<1>3. ASSUME NEW c \in Stored, NEW now \in Readings, Backfill(c, now)
      PROVE  HInv'
  <2>1. \A d \in Ctx : /\ Extends(events[d], events'[d])
                       /\ Len(events'[d]) = Len(events[d])
    BY <1>0, <1>3, ReadingsType, BackfillExtends
  <2> QED BY <1>3, <2>1, QuietHistory DEF Backfill
<1>4. ASSUME UNCHANGED <<contexts, leaves, appended, events>> PROVE HInv'
  <2>1. \A d \in Ctx : /\ Extends(events[d], events'[d])
                       /\ Len(events'[d]) = Len(events[d])
    BY <1>0, <1>4 DEF Extends, TypeOK
  <2> QED BY <1>4, <2>1, QuietHistory
<1>5. ASSUME NEW now \in Readings, Evict(now) PROVE HInv'
  BY <1>4, <1>5 DEF Evict
<1>6. ASSUME NEW now \in Readings, Prune(now) PROVE HInv'
  BY <1>4, <1>6 DEF Prune, PruneThrough
<1>7. CASE Tick
  BY <1>4, <1>7 DEF Tick
<1>8. CASE UNCHANGED vars
  BY <1>4, <1>8 DEF vars
<1> QED BY <1>1, <1>2, <1>3, <1>5, <1>6, <1>7, <1>8 DEF Next

(***************************************************************************)
(* The theorems.                                                           *)
(***************************************************************************)
\* HInv holds of every reachable state.
THEOREM HistoryInvariance == Spec => []HInv
PROOF
<1>1. Init => HInv
  BY InitHInv
<1>2. IInv /\ HInv /\ [Next]_vars => HInv'
  BY NextHInv
<1> QED BY <1>1, <1>2, Invariance, PTL DEF Spec

\* The leaves of the log are exactly the stored contexts, each once, every
\* predecessor before its successors: a publish and its leaf are one.
THEOREM LogIsMirror == Spec => []LogMirrorsContexts
PROOF
<1>1. HInv => LogMirrorsContexts
  BY DEF HInv
<1> QED BY <1>1, HistoryInvariance, PTL

\* The invariants of the tables and of their history make the feed sound.
LEMMA FeedFromInv == IInv /\ HInv => FeedSound
PROOF
<1> SUFFICES ASSUME IInv, HInv PROVE FeedSound
  OBVIOUS
<1>1. /\ TypeOK /\ FeedInv /\ SaidOnce /\ SaysAll /\ SaysTrue
      /\ SupersessionsOrdered /\ EventsOrdered /\ PositionsUnique
  BY DEF IInv, HInv
<1>2. \A c \in Stored : /\ contexts[c].receipt \in BOOLEAN
                        /\ contexts[c].content.revokes \in BOOLEAN
  BY <1>1 DEF TypeOK, ContextRow, ContentType
<1>3. \A x \in appended :
         x.kind \in {"superseded", "lifecycle", "key_revocation"}
  BY <1>1 DEF TypeOK, FeedRow
<1>4. FeedComplete
  <2> DEFINE Rows(kind, c, about) ==
          {x \in appended : x.kind = kind /\ x.ctx = c /\ x.about = about}
  <2>1. \A kind, c, about : (Rows(kind, c, about) # {}) = Reported(kind, c, about)
    BY DEF Reported
  <2>2. ASSUME NEW c \in Stored
        PROVE  /\ Prev(c) # NoCtx =>
                     (Rows("superseded", Prev(c), c) # {}) = contexts[c].receipt
               /\ (Rows("key_revocation", c, NoCtx) # {})
                     = (contexts[c].receipt /\ contexts[c].content.revokes)
               /\ Minting = {TRUE} => \A i \in DOMAIN events[c] :
                     Rows("lifecycle", c, events[c][i].id) # {}
    <3> HIDE DEF Rows
    <3> QED BY <1>1, <1>2, <2>1 DEF SaysAll
  <2>3. \A x \in appended :
           CASE x.kind = "superseded" ->
                   x.about \in Stored /\ Prev(x.about) = x.ctx
             [] x.kind = "key_revocation" -> x.ctx \in Stored
             [] x.kind = "lifecycle" ->
                   \E i \in DOMAIN events[x.ctx] :
                       /\ events[x.ctx][i].id = x.about
                       /\ events[x.ctx][i].receipt # NoReceipt
    BY <1>1, <1>3 DEF SaysTrue, Receipted
  <2> QED BY <1>1, <2>2, <2>3 DEF FeedComplete, SaidOnce
<1>5. FeedOrder
  BY <1>1 DEF FeedOrder, FeedInv, PositionsUnique, SupersessionsOrdered,
              EventsOrdered, Precedes
<1> QED BY <1>1, <1>4, <1>5 DEF FeedSound, FeedInv

\* The feed says everything once and in order, and what is retained of it is
\* what lies past pruned_through: for any mix of minting and non-minting
\* processes, any gaps that rolled-back writers leave, any clocks.
THEOREM FeedIsSound == Spec => []FeedSound
PROOF
<1>1. IInv /\ HInv => FeedSound
  BY FeedFromInv
<1> QED BY <1>1, Invariance, HistoryInvariance, PTL

(***************************************************************************)
(* Append-only tables.                                                     *)
(***************************************************************************)
\* What one step may do to the tables; AppendOnly is this of every step.
Appends ==
    /\ Stored \subseteq DOMAIN contexts'
    /\ \A c \in Stored :
          /\ \A f \in {"content", "lineage", "agent", "tenant", "created"} :
                contexts'[c][f] = contexts[c][f]
          /\ contexts[c].status = "superseded" =>
                contexts'[c].status = "superseded"
          /\ Len(events[c]) <= Len(events'[c])
          /\ \A i \in DOMAIN events[c] :
                /\ events'[c][i].id = events[c][i].id
                /\ events[c][i].receipt # NoReceipt =>
                      events'[c][i] = events[c][i]
    /\ Len(leaves) <= Len(leaves')
    /\ leaves = SubSeq(leaves', 1, Len(leaves))

\* A context keeps what it was published with, and stays superseded.
RowKept(c) ==
    /\ \A f \in {"content", "lineage", "agent", "tenant", "created"} :
          contexts'[c][f] = contexts[c][f]
    /\ contexts[c].status = "superseded" => contexts'[c].status = "superseded"

\* Rows, histories and leaves kept make a step an append.
LEMMA AppendsParts ==
    ASSUME TypeOK, Stored \subseteq DOMAIN contexts',
           \A c \in Stored : RowKept(c),
           \A d \in Ctx : Extends(events[d], events'[d]),
           leaves' = leaves \/ \E c \in Ctx : leaves' = Append(leaves, c)
    PROVE  Appends
PROOF
<1>1. Len(leaves) <= Len(leaves') /\ leaves = SubSeq(leaves', 1, Len(leaves))
  <2>1. leaves \in Seq(Ctx) /\ Len(leaves) \in Nat
    BY DEF TypeOK
  <2>2. CASE leaves' = leaves
    BY <2>1, <2>2
  <2>3. ASSUME NEW c \in Ctx, leaves' = Append(leaves, c)
        PROVE  Len(leaves) <= Len(leaves') /\ leaves = SubSeq(leaves', 1, Len(leaves))
    BY <2>1, <2>3
  <2> QED BY <2>2, <2>3
<1>2. \A c \in Stored :
         /\ Len(events[c]) <= Len(events'[c])
         /\ \A i \in DOMAIN events[c] :
               /\ events'[c][i].id = events[c][i].id
               /\ events[c][i].receipt # NoReceipt =>
                     events'[c][i] = events[c][i]
  BY DEF TypeOK, Extends
<1> QED BY <1>1, <1>2 DEF Appends, RowKept

\* Every step of the store is an append.
LEMMA NextAppends == IInv /\ HInv /\ Next => Appends
PROOF
<1> SUFFICES ASSUME IInv, HInv, Next PROVE Appends
  OBVIOUS
<1>0. TypeOK /\ LineageIsChain
  BY DEF IInv
<1>1. \A s \in Seq(Event) : Extends(s, s)
  BY DEF Extends
<1>2. \A d \in Ctx : events[d] \in Seq(Event)
  BY <1>0 DEF TypeOK
<1>3. ASSUME NEW c \in Ctx \ Stored, NEW r \in Request, NEW minted \in Minting,
             NEW now \in EntryReadings, NEW base \in Bases,
             NEW at \in FeedReadings, Publish(c, r, minted, now, base, at)
      PROVE  Appends
  <2>1. minted \in BOOLEAN /\ now \in Nat
    BY <1>0, ReadingsType, ParameterAssumption
  <2>2. PublishEffect(c, r, minted, now)
    BY <1>0, <1>3, <2>1, PublishRow
  <2>3. Stored \subseteq DOMAIN contexts'
    BY <2>2 DEF PublishEffect
  <2>4. ASSUME NEW d \in Stored PROVE RowKept(d)
    <3>1. \/ contexts'[d] = contexts[d]
          \/ contexts'[d] = [contexts[d] EXCEPT !.status = "superseded"]
      BY <2>2 DEF PublishEffect
    <3>2. contexts[d] \in ContextRow
      BY <1>0 DEF TypeOK
    <3>3. CASE contexts'[d] = contexts[d]
      BY <3>3 DEF RowKept
    <3>4. CASE contexts'[d] = [contexts[d] EXCEPT !.status = "superseded"]
      BY <3>2, <3>4 DEF RowKept, ContextRow
    <3> QED BY <3>1, <3>3, <3>4
  <2>5. \A d \in Ctx : Extends(events[d], events'[d])
    BY <1>1, <1>2, <1>3 DEF Publish
  <2>6. leaves' = leaves \/ leaves' = Append(leaves, c)
    BY <1>3 DEF Publish, WithLeaf
  <2> QED BY <1>0, <2>3, <2>4, <2>5, <2>6, AppendsParts
<1>4. ASSUME NEW c \in Stored, NEW id \in EventId, NEW mints \in Minting,
             NEW type \in {"retracted", "republished"},
             NEW now \in Readings, NEW base \in Bases, NEW at \in FeedReadings,
             CommitLifecycle(c, id, type, mints, now, base, at)
      PROVE  Appends
  <2>1. now \in Nat /\ base \in Nat /\ base >= lastSeq /\ at \in Nat
    BY <1>0, ReadingsType
  <2>2. \A d \in Ctx : Extends(events[d], events'[d])
    BY <1>4, <2>1, LifecycleHistory
  <2>3. contexts' = [contexts EXCEPT ![c].retracted = (type = "retracted")]
        /\ leaves' = leaves
    BY <1>4 DEF CommitLifecycle
  <2>4. /\ DOMAIN contexts' = Stored
        /\ contexts'[c] = [contexts[c] EXCEPT !.retracted = (type = "retracted")]
        /\ \A d \in Stored : d # c => contexts'[d] = contexts[d]
    BY <1>0, <2>3 DEF Stored, TypeOK
  <2>5. ASSUME NEW d \in Stored PROVE RowKept(d)
    <3>1. contexts[d] \in ContextRow
      BY <1>0 DEF TypeOK
    <3>2. CASE d = c
      BY <2>4, <3>1, <3>2 DEF RowKept, ContextRow
    <3>3. CASE d # c
      BY <2>4, <3>3 DEF RowKept
    <3> QED BY <3>2, <3>3
  <2> QED BY <1>0, <2>2, <2>3, <2>4, <2>5, AppendsParts
<1>5. ASSUME UNCHANGED <<contexts, leaves>>,
             \A d \in Ctx : Extends(events[d], events'[d])
      PROVE  Appends
  <2>1. Stored \subseteq DOMAIN contexts' /\ \A d \in Stored : RowKept(d)
    BY <1>5 DEF Stored, RowKept
  <2> QED BY <1>0, <1>5, <2>1, AppendsParts
<1>6. ASSUME NEW c \in Stored, NEW now \in Readings, Backfill(c, now)
      PROVE  Appends
  <2>1. \A d \in Ctx : Extends(events[d], events'[d])
    BY <1>0, <1>6, ReadingsType, BackfillExtends
  <2> QED BY <1>5, <1>6, <2>1 DEF Backfill
<1>7. ASSUME UNCHANGED <<contexts, leaves, events>> PROVE Appends
  BY <1>1, <1>2, <1>5, <1>7
<1>8. ASSUME NEW now \in Readings, Evict(now) PROVE Appends
  BY <1>7, <1>8 DEF Evict
<1>9. ASSUME NEW now \in Readings, Prune(now) PROVE Appends
  BY <1>7, <1>9 DEF Prune, PruneThrough
<1>10. CASE Tick
  BY <1>7, <1>10 DEF Tick
<1> QED BY <1>3, <1>4, <1>6, <1>8, <1>9, <1>10 DEF Next

\* Bodies, lineages, events, minted receipts and leaves are never changed or
\* taken back, and a superseded context stays superseded.
THEOREM TablesAppendOnly == Spec => AppendOnly
PROOF
<1>1. IInv /\ HInv /\ [Next]_vars => [Appends]_vars
  BY NextAppends
<1>2. [][Appends]_vars => AppendOnly
  BY DEF Appends, AppendOnly
<1> QED BY <1>1, <1>2, Invariance, HistoryInvariance, PTL DEF Spec

\* Nothing written is changed or taken back, changes appear at the head of
\* the feed only, and leave it after their retention only.
THEOREM HistoryIsKept == Spec => HistoryKept
PROOF
<1>1. AppendOnly /\ FeedAppendsAboveHead /\ NotPrunedEarly => HistoryKept
  BY DEF HistoryKept
<1> QED BY <1>1, TablesAppendOnly, FeedGrowsAtHead, PruningRespectsRetention

(***************************************************************************)
(* Reads.                                                                  *)
(***************************************************************************)
V(rows, c) == rows[c].content.version

\* The rows are the versions of one lineage, from the first one on.
RowsAreChain(rows, l) ==
    /\ \A c \in DOMAIN rows : rows[c].lineage = l
    /\ \A c \in DOMAIN rows : V(rows, c) = 1 => c = l
    /\ \A c, d \in DOMAIN rows : V(rows, c) = V(rows, d) => c = d
    /\ \A c \in DOMAIN rows :
          IF rows[c].content.supersedes = NoCtx THEN V(rows, c) = 1
          ELSE LET p == rows[c].content.supersedes
               IN  /\ p \in DOMAIN rows /\ V(rows, c) = V(rows, p) + 1
                   /\ \/ rows[c].agent = rows[p].agent
                      \/ rows[c].agent \in rows[p].content.contributors
    /\ \A c, d \in DOMAIN rows :
          rows[c].status = "active" => V(rows, d) <= V(rows, c)
    /\ \A c \in DOMAIN rows :
          rows[c].status = "superseded" =>
              \E d \in DOMAIN rows : rows[d].content.supersedes = c

RowsOK ==
    read # NoRead =>
        /\ DOMAIN read.rows \subseteq Stored
        /\ \A c \in DOMAIN read.rows : read.rows[c] \in ContextRow
        /\ read.query.op # "get" => RowsAreChain(read.rows, read.query.id)

RInv == IInv /\ IsFiniteSet(Stored) /\ RowsOK

(***************************************************************************)
(* The invariant.                                                          *)
(***************************************************************************)
\* A step of the store stores at most one context more.
LEMMA StoredGrows ==
    ASSUME [Next]_vars
    PROVE  Stored' = Stored \/ \E c \in Ctx : Stored' = Stored \cup {c}
PROOF
<1> DEFINE Grows == Stored' = Stored \/ \E c \in Ctx : Stored' = Stored \cup {c}
<1>1. ASSUME NEW c \in Ctx \ Stored, NEW r \in Request, NEW minted \in Minting,
             NEW now \in EntryReadings, NEW base \in Bases,
             NEW at \in FeedReadings, Publish(c, r, minted, now, base, at)
      PROVE  Grows
  <2>1. Stored' = Stored \cup {c}
    BY <1>1 DEF Publish, WithPublished, Stored
  <2> QED BY <2>1
<1>2. ASSUME NEW c \in Stored, NEW id \in EventId, NEW mints \in Minting,
             NEW type \in {"retracted", "republished"},
             NEW now \in Readings, NEW base \in Bases, NEW at \in FeedReadings,
             CommitLifecycle(c, id, type, mints, now, base, at)
      PROVE  Grows
  BY <1>2 DEF CommitLifecycle, Stored
<1>3. ASSUME contexts' = contexts PROVE Grows
  BY <1>3 DEF Stored
<1>4. ASSUME \/ \E c \in Stored, now \in Readings : Backfill(c, now)
             \/ \E now \in Readings : Evict(now) \/ Prune(now)
             \/ Tick \/ UNCHANGED vars
      PROVE  Grows
  <2>1. contexts' = contexts
    BY <1>4 DEF Backfill, Evict, Prune, PruneThrough, Tick, vars
  <2> QED BY <1>3, <2>1
<1> HIDE DEF Grows
<1>5. Grows
  BY <1>1, <1>2, <1>4, Zenon DEF Next
<1> QED BY <1>5 DEF Grows

\* The rows of a lineage, read in one query, are a chain.
LEMMA SnapshotIsChain ==
    ASSUME IInv, NEW l \in Ctx
    PROVE  LET S == {c \in Stored : contexts[c].lineage = l}
           IN  RowsAreChain([c \in S |-> contexts[c]], l)
PROOF
<1> DEFINE S == {c \in Stored : contexts[c].lineage = l}
           rows == [c \in S |-> contexts[c]]
<1>1. /\ DOMAIN rows = S /\ S \subseteq Stored
      /\ \A c \in S : rows[c] = contexts[c] /\ contexts[c].lineage = l
      /\ \A c \in Stored : contexts[c].lineage = l => c \in S
  OBVIOUS
<1> HIDE DEF rows, S
<1>2. /\ TypeOK /\ Linked /\ SupersededIffSuccessor /\ NoFork
      /\ OnlyNewestActive /\ ProducerContinuity
  BY DEF IInv, LineageIsChain
<1>3. \A c \in Stored : Version(c) \in Nat \ {0}
  BY <1>2 DEF TypeOK, Version, ContextRow, ContentType
<1>4. \A c \in S : V(rows, c) = Version(c) /\ rows[c].content.supersedes = Prev(c)
  BY <1>1 DEF V, Version, Prev
<1>5. \A c \in S : V(rows, c) = 1 => c = l
  BY <1>1, <1>2, <1>3, <1>4 DEF Linked
<1>6. \A c, d \in S : V(rows, c) = V(rows, d) => c = d
  BY <1>1, <1>2, <1>4 DEF NoFork
<1>7. \A c \in S :
          IF rows[c].content.supersedes = NoCtx THEN V(rows, c) = 1
          ELSE LET p == rows[c].content.supersedes
               IN  /\ p \in S /\ V(rows, c) = V(rows, p) + 1
                   /\ \/ rows[c].agent = rows[p].agent
                      \/ rows[c].agent \in rows[p].content.contributors
  <2> TAKE c \in S
  <2>1. CASE Prev(c) = NoCtx
    BY <1>1, <1>2, <1>4, <2>1 DEF Linked
  <2>2. CASE Prev(c) # NoCtx
    <3>1. /\ Prev(c) \in Stored /\ contexts[Prev(c)].lineage = l
          /\ Version(c) = Version(Prev(c)) + 1
      BY <1>1, <1>2, <2>2 DEF Linked
    <3>2. Prev(c) \in S
      BY <1>1, <3>1
    <3>3. IsOwner(contexts[c].agent, Prev(c))
      BY <1>1, <1>2, <2>2 DEF ProducerContinuity
    <3> QED BY <1>1, <1>4, <2>2, <3>1, <3>2, <3>3 DEF IsOwner
  <2> QED BY <2>1, <2>2
<1>8. \A c, d \in S : rows[c].status = "active" => V(rows, d) <= V(rows, c)
  BY <1>1, <1>2, <1>4 DEF OnlyNewestActive
<1>9. \A c \in S : rows[c].status = "superseded" =>
          \E d \in S : rows[d].content.supersedes = c
  <2> SUFFICES ASSUME NEW c \in S, rows[c].status = "superseded"
               PROVE  \E d \in S : rows[d].content.supersedes = c
    OBVIOUS
  <2>1. PICK d \in Stored : Prev(d) = c
    BY <1>1, <1>2 DEF SupersededIffSuccessor
  <2>2. c \in Ctx /\ c # NoCtx
    BY <1>1, <1>2, NameAssumption DEF TypeOK
  <2>3. contexts[d].lineage = l
    BY <1>1, <1>2, <2>1, <2>2 DEF Linked
  <2>4. d \in S
    BY <1>1, <2>3
  <2> QED BY <1>4, <2>1, <2>4
<1>10. RowsAreChain(rows, l)
  BY <1>1, <1>5, <1>6, <1>7, <1>8, <1>9 DEF RowsAreChain
<1> QED BY <1>10 DEF rows, S

LEMMA InitRInv == ReadInit => RInv
PROOF
<1> SUFFICES ASSUME ReadInit PROVE RInv
  OBVIOUS
<1>1. IInv /\ Stored = {}
  BY InitIInv DEF ReadInit, Init, Stored
<1>2. IsFiniteSet(Stored)
  BY <1>1, FS_EmptySet
<1> QED BY <1>1, <1>2 DEF ReadInit, RInv, RowsOK

LEMMA NextRInv == RInv /\ [ReadNext]_<<vars, readVars>> => RInv'
PROOF
<1> SUFFICES ASSUME RInv, [ReadNext]_<<vars, readVars>> PROVE RInv'
  OBVIOUS
<1>1. [Next]_vars
  BY DEF ReadNext, ReadRows, ReadEvents
<1>2. IInv'
  BY <1>1, NextIInv DEF RInv
<1>3. IsFiniteSet(Stored)' /\ Stored \subseteq Stored'
  BY <1>1, StoredGrows, FS_AddElement DEF RInv
<1>4. ASSUME read' = read PROVE RowsOK'
  BY <1>3, <1>4 DEF RInv, RowsOK
<1>5. ASSUME NEW q \in Query, ReadRows(q) PROVE RowsOK'
  <2> DEFINE rows == [c \in Matching(q) |-> contexts[c]]
             r == [query |-> q, rows |-> rows]
  <2>1. UNCHANGED vars /\ (read' = read \/ read' = r)
    BY <1>5 DEF ReadRows
  <2>2. CASE read' = r
    <3>1. r.query = q /\ r.rows = rows /\ DOMAIN rows = Matching(q)
      OBVIOUS
    <3>2. Matching(q) \subseteq Stored
      BY DEF Matching
    <3>3. \A c \in Matching(q) : rows[c] \in ContextRow
      BY <3>2 DEF RInv, IInv, TypeOK
    <3>4. q.op # "get" => RowsAreChain(rows, q.id)
      <4> SUFFICES ASSUME q.op # "get" PROVE RowsAreChain(rows, q.id)
        OBVIOUS
      <4>1. q.id \in Ctx
        BY DEF Query, Lineage
      <4>2. Matching(q) = {c \in Stored : contexts[c].lineage = q.id}
        BY DEF Matching
      <4> QED BY <4>1, <4>2, SnapshotIsChain DEF RInv
    <3> HIDE DEF rows, r
    <3> QED BY <1>3, <2>2, <3>1, <3>2, <3>3, <3>4 DEF RowsOK
  <2> QED BY <1>4, <2>1, <2>2
<1>6. ASSUME NEW now \in Readings, ReadEvents(now) PROVE RowsOK'
  BY <1>6 DEF ReadEvents, RowsOK
<1>7. RowsOK'
  BY <1>4, <1>5, <1>6 DEF ReadNext, readVars
<1> QED BY <1>2, <1>3, <1>7 DEF RInv

\* The invariant holds of every behaviour of writers and readers.
THEOREM ReadInvariance == ReadSpec => []RInv
PROOF
<1> QED BY InitRInv, NextRInv, PTL DEF ReadSpec

(***************************************************************************)
(* What a read answers.                                                    *)
(***************************************************************************)
\* Only the second query ends a read.
LEMMA ReadEnds ==
    ASSUME [ReadNext]_<<vars, readVars>>, read # NoRead, read' = NoRead
    PROVE  \E now \in Readings : ReadEvents(now)
PROOF
  BY DEF ReadNext, ReadRows, readVars

\* The status served for a row, with the events as they are at the end.
LEMMA ServedStatus ==
    ASSUME RInv, read # NoRead, NEW now, NEW c \in DOMAIN read.rows
    PROVE  LET s == Served(read.rows, now)[c]
               row == read.rows[c]
           IN  /\ s = "retracted" <=> contexts[c].retracted \/ row.retracted
               /\ s # "retracted" /\ row.status = "superseded" => s = "superseded"
               /\ row.status = "active" => s # "superseded"
               /\ row.status \in {"active", "superseded"}
PROOF
<1> DEFINE row == read.rows[c]
           s == Served(read.rows, now)[c]
<1>1. c \in Stored /\ row \in ContextRow
  BY DEF RInv, RowsOK
<1>2. contexts[c].retracted = RetractionState(events[c])
  BY <1>1 DEF RInv, IInv, EventInv, RetractionConsistent
<1>3. row.status \in {"active", "superseded"} /\ row.retracted \in BOOLEAN
  BY <1>1 DEF ContextRow
<1>4. s = Projected(Reconciled(RowStatus(row), events[c]), row.content, now)
  BY DEF Served
<1> HIDE DEF row, s
<1>5. s = "retracted" <=> contexts[c].retracted \/ row.retracted
  BY <1>2, <1>3, <1>4 DEF Projected, Reconciled, RowStatus
<1>6. /\ s # "retracted" /\ row.status = "superseded" => s = "superseded"
      /\ row.status = "active" => s # "superseded"
  BY <1>3, <1>4 DEF Projected, Reconciled, RowStatus
<1> QED BY <1>3, <1>5, <1>6 DEF row, s

\* What the second query replies with.
LEMMA ReplyIs ==
    ASSUME NEW now, ReadEvents(now)
    PROVE  LET served == Served(read.rows, now)
               kept == IF read.query.op # "current" THEN DOMAIN read.rows
                       ELSE {c \in DOMAIN read.rows : IsHead(read.rows, served, c)}
           IN  /\ DOMAIN reply'.status = kept
               /\ DOMAIN reply'.status \subseteq DOMAIN read.rows
               /\ \A c \in DOMAIN reply'.status : reply'.status[c] = served[c]
               /\ reply'.issues = IF read.query.op # "audit" \/ kept = {} THEN {}
                                  ELSE AuditIssues(read.rows, served, read.query.id)
               /\ UNCHANGED vars
PROOF
<1> DEFINE served == Served(read.rows, now)
           kept == IF read.query.op # "current" THEN DOMAIN read.rows
                   ELSE {c \in DOMAIN read.rows : IsHead(read.rows, served, c)}
           issues == IF read.query.op # "audit" \/ kept = {} THEN {}
                     ELSE AuditIssues(read.rows, served, read.query.id)
<1>1. /\ reply' = [status |-> [c \in kept |-> served[c]],
                   events |-> [c \in kept |-> events[c]],
                   issues |-> issues]
      /\ UNCHANGED vars
  BY DEF ReadEvents
<1>2. kept \subseteq DOMAIN read.rows
  OBVIOUS
<1> HIDE DEF served, kept, issues
<1>3. /\ DOMAIN reply'.status = kept /\ reply'.issues = issues
      /\ \A c \in kept : reply'.status[c] = served[c]
  BY <1>1
<1> QED BY <1>1, <1>2, <1>3 DEF served, kept, issues

\* reconcile_retraction and project_status_inline: whatever commits between
\* the two queries, a withdrawn context is served as retracted and a
\* superseded one never as live.
THEOREM StatusesNeverMilder == ReadSpec => StatusNeverMilder
PROOF
<1>1. RInv /\ [ReadNext]_<<vars, readVars>> =>
        [/\ (read # NoRead /\ read' = NoRead) =>
              \A c \in DOMAIN reply'.status :
                  contexts[c].retracted \/ read.rows[c].retracted
                      => reply'.status[c] = "retracted"
         /\ (read # NoRead /\ read' = NoRead) =>
              \A c \in DOMAIN reply'.status :
                  read.rows[c].status = "superseded" =>
                      reply'.status[c] \in {"superseded", "retracted"}
        ]_<<vars, readVars>>
  <2> SUFFICES ASSUME RInv, [ReadNext]_<<vars, readVars>>, read # NoRead,
                      read' = NoRead, NEW c \in DOMAIN reply'.status
               PROVE  /\ contexts[c].retracted \/ read.rows[c].retracted
                            => reply'.status[c] = "retracted"
                      /\ read.rows[c].status = "superseded" =>
                            reply'.status[c] \in {"superseded", "retracted"}
    OBVIOUS
  <2>1. PICK now \in Readings : ReadEvents(now)
    BY ReadEnds
  <2>2. /\ c \in DOMAIN read.rows
        /\ reply'.status[c] = Served(read.rows, now)[c]
    <3>1. /\ DOMAIN reply'.status \subseteq DOMAIN read.rows
          /\ \A x \in DOMAIN reply'.status :
                reply'.status[x] = Served(read.rows, now)[x]
      BY <2>1, ReplyIs, Zenon
    <3> QED BY <3>1
  <2>3. LET s == Served(read.rows, now)[c]
            row == read.rows[c]
        IN  /\ s = "retracted" <=> contexts[c].retracted \/ row.retracted
            /\ s # "retracted" /\ row.status = "superseded" => s = "superseded"
    BY <2>2, ServedStatus
  <2> QED BY <2>2, <2>3
<1> QED BY <1>1, ReadInvariance, PTL
         DEF ReadSpec, StatusNeverMilder, RetractionNeverHidden, SupersededNeverLive

\* current: it serves the newest version the read saw or nothing, and
\* nothing only when that version was withdrawn.
THEOREM HeadsAreNewest == ReadSpec => HeadIsNewest
PROOF
<1> DEFINE Newest == {c \in DOMAIN read.rows : \A d \in DOMAIN read.rows :
                         read.rows[d].content.version
                             <= read.rows[c].content.version}
           TellsHead == (/\ read # NoRead /\ read' = NoRead
                         /\ read.query.op = "current") =>
                      /\ DOMAIN reply'.status \subseteq Newest
                      /\ DOMAIN reply'.status = {} => \A c \in Newest :
                            contexts[c].retracted \/ read.rows[c].retracted
<1>1. RInv /\ [ReadNext]_<<vars, readVars>> => [TellsHead]_<<vars, readVars>>
  <2> SUFFICES ASSUME RInv, [ReadNext]_<<vars, readVars>>, read # NoRead,
                      read' = NoRead, read.query.op = "current"
               PROVE  /\ DOMAIN reply'.status \subseteq Newest
                      /\ DOMAIN reply'.status = {} => \A c \in Newest :
                            contexts[c].retracted \/ read.rows[c].retracted
    OBVIOUS
  <2>1. PICK now \in Readings : ReadEvents(now)
    BY ReadEnds
  <2> DEFINE rows == read.rows
             served == Served(rows, now)
  <2>2. DOMAIN reply'.status = {c \in DOMAIN rows : IsHead(rows, served, c)}
    BY <2>1, ReplyIs
  <2>3. RowsAreChain(rows, read.query.id) /\ \A c \in DOMAIN rows : rows[c] \in ContextRow
    BY DEF RInv, RowsOK
  <2>4. \A c \in DOMAIN rows :
          /\ served[c] = "retracted" <=> contexts[c].retracted \/ rows[c].retracted
          /\ served[c] # "retracted" /\ rows[c].status = "superseded"
                => served[c] = "superseded"
          /\ rows[c].status = "active" => served[c] # "superseded"
          /\ rows[c].status \in {"active", "superseded"}
    BY ServedStatus
  <2>5. \A c \in DOMAIN rows : V(rows, c) \in Nat
    BY <2>3 DEF V, ContextRow, ContentType
  <2> HIDE DEF served
  <2>6. DOMAIN reply'.status \subseteq Newest
    BY <2>2, <2>3, <2>4 DEF IsHead, RowsAreChain, V
  <2>7. ASSUME NEW c \in Newest, ~ (contexts[c].retracted \/ rows[c].retracted)
        PROVE  IsHead(rows, served, c)
    <3>1. c \in DOMAIN rows /\ served[c] # "retracted"
          /\ \A d \in DOMAIN rows : V(rows, d) <= V(rows, c)
      BY <2>4, <2>7 DEF V
    <3>2. rows[c].status # "superseded"
      <4> SUFFICES ASSUME rows[c].status = "superseded" PROVE FALSE
        OBVIOUS
      <4>1. PICK d \in DOMAIN rows : rows[d].content.supersedes = c
        BY <2>3, <3>1 DEF RowsAreChain
      <4>2. c # NoCtx
        BY <3>1, NameAssumption DEF RInv, RowsOK, IInv, TypeOK
      <4>3. V(rows, d) = V(rows, c) + 1
        BY <2>3, <4>1, <4>2 DEF RowsAreChain
      <4> QED BY <2>5, <3>1, <4>3
    <3> QED BY <2>4, <3>1, <3>2 DEF IsHead, V
  <2> QED BY <2>2, <2>6, <2>7
<1> QED BY <1>1, ReadInvariance, PTL DEF ReadSpec, HeadIsNewest

(***************************************************************************)
(* The audit.                                                              *)
(***************************************************************************)
\* In a chain every version from 1 to that of a row is there.
LEMMA NoVersionMissing ==
    ASSUME NEW rows, NEW l, RowsAreChain(rows, l),
           \A c \in DOMAIN rows : V(rows, c) \in Nat \ {0},
           NEW c \in DOMAIN rows, NEW v \in 1 .. V(rows, c)
    PROVE  \E d \in DOMAIN rows : V(rows, d) = v
PROOF
<1> DEFINE T == {n \in Nat : \E d \in DOMAIN rows : V(rows, d) >= v /\ n = V(rows, d) - v}
<1>1. V(rows, c) - v \in T
  OBVIOUS
<1>2. PICK n \in T : \A m \in T : n <= m
  BY <1>1, LeastNat
<1>3. PICK d \in DOMAIN rows : V(rows, d) >= v /\ n = V(rows, d) - v
  BY <1>2
<1>4. CASE n = 0
  BY <1>3, <1>4
<1>5. CASE n # 0
  <2> DEFINE p == rows[d].content.supersedes
  <2>1. V(rows, d) # 1 /\ V(rows, d) > v
    BY <1>2, <1>3, <1>5
  <2>2. p \in DOMAIN rows /\ V(rows, d) = V(rows, p) + 1
    BY <2>1 DEF RowsAreChain
  <2>3. V(rows, p) - v \in T
    BY <2>1, <2>2
  <2>4. V(rows, p) - v < n
    BY <1>3, <2>2
  <2> QED BY <1>2, <2>2, <2>3, <2>4
<1> QED BY <1>4, <1>5

\* So the place of a row is its version.
LEMMA PlaceIsVersion ==
    ASSUME NEW rows, NEW l, RowsAreChain(rows, l), IsFiniteSet(DOMAIN rows),
           \A d \in DOMAIN rows : V(rows, d) \in Nat \ {0},
           NEW c \in DOMAIN rows
    PROVE  Place(rows, c) = V(rows, c)
PROOF
<1> DEFINE T == {d \in DOMAIN rows : V(rows, d) <= V(rows, c)}
           U == 1 .. V(rows, c)
           f == [d \in T |-> V(rows, d)]
<1>1. IsFiniteSet(T)
  BY FS_Subset
<1>2. f \in [T -> U]
  OBVIOUS
<1>3. \A d, e \in T : f[d] = f[e] => d = e
  BY DEF RowsAreChain
<1>4. \A v \in U : \E d \in T : f[d] = v
  <2> TAKE v \in U
  <2>1. PICK d \in DOMAIN rows : V(rows, d) = v
    BY NoVersionMissing
  <2>2. d \in T
    BY <2>1
  <2> QED BY <2>1, <2>2
<1> HIDE DEF f, T, U
<1>5. f \in Bijection(T, U)
  BY <1>2, <1>3, <1>4, Fun_IsBij
<1>6. Cardinality(U) = Cardinality(T)
  BY <1>1, <1>5, FS_Bijection DEF ExistsBijection
<1>7. Cardinality(U) = V(rows, c)
  BY FS_Interval DEF U
<1> QED BY <1>6, <1>7 DEF T, Place, V

\* The newest row of a lineage is active.
LEMMA NewestIsActive ==
    ASSUME NEW rows, NEW l, RowsAreChain(rows, l), DOMAIN rows \subseteq Ctx,
           \A d \in DOMAIN rows : rows[d].status \in {"active", "superseded"},
           \A d \in DOMAIN rows : V(rows, d) \in Nat \ {0},
           NEW c \in DOMAIN rows,
           \A d \in DOMAIN rows : V(rows, d) <= V(rows, c)
    PROVE  rows[c].status = "active"
PROOF
<1> SUFFICES ASSUME rows[c].status = "superseded" PROVE FALSE
  OBVIOUS
<1>1. PICK d \in DOMAIN rows : rows[d].content.supersedes = c
  BY DEF RowsAreChain
<1>2. c # NoCtx
  BY NameAssumption
<1>3. V(rows, d) = V(rows, c) + 1
  BY <1>1, <1>2 DEF RowsAreChain
<1> QED BY <1>3

\* A lineage that was found has a newest version.
LEMMA NewestExists ==
    ASSUME NEW rows, NEW l, RowsAreChain(rows, l), IsFiniteSet(DOMAIN rows),
           \A d \in DOMAIN rows : V(rows, d) \in Nat \ {0},
           DOMAIN rows # {}
    PROVE  \E c \in DOMAIN rows :
               /\ \A d \in DOMAIN rows : V(rows, d) <= V(rows, c)
               /\ V(rows, c) = Cardinality(DOMAIN rows)
PROOF
<1> DEFINE n == Cardinality(DOMAIN rows)
           T == {m \in Nat : \E d \in DOMAIN rows : m = n - V(rows, d)}
<1>1. n \in Nat
  BY FS_CardinalityType
<1> HIDE DEF n
<1>2. \A d \in DOMAIN rows : V(rows, d) <= n
  <2> TAKE d \in DOMAIN rows
  <2>1. Place(rows, d) = V(rows, d)
    BY PlaceIsVersion
  <2>2. Place(rows, d) <= n
    BY FS_Subset DEF Place, n
  <2> QED BY <2>1, <2>2
<1>3. T # {}
  BY <1>1, <1>2
<1>4. PICK m \in T : \A k \in T : m <= k
  BY <1>3, LeastNat
<1>5. PICK c \in DOMAIN rows : m = n - V(rows, c)
  BY <1>4
<1>6. \A d \in DOMAIN rows : V(rows, d) <= V(rows, c)
  BY <1>1, <1>2, <1>4, <1>5
<1>7. {d \in DOMAIN rows : rows[d].content.version <= rows[c].content.version}
        = DOMAIN rows
  BY <1>6 DEF V
<1>8. V(rows, c) = n
  BY <1>7, PlaceIsVersion DEF Place, n
<1> QED BY <1>6, <1>8 DEF n

\* audit_lineage: on what the registry wrote it finds the links sound, and
\* more than one tip exactly when a superseded version was withdrawn.
THEOREM AuditsBlameOnlyRetraction == ReadSpec => AuditBlamesOnlyRetraction
PROOF
<1> DEFINE Withdrawn == \E c \in DOMAIN reply'.status :
                            /\ read.rows[c].status = "superseded"
                            /\ reply'.status[c] = "retracted"
           Audit == (read # NoRead /\ read' = NoRead /\ read.query.op = "audit") =>
                        /\ reply'.issues \subseteq {"tips"}
                        /\ "tips" \in reply'.issues <=> Withdrawn
<1>1. RInv /\ [ReadNext]_<<vars, readVars>> => [Audit]_<<vars, readVars>>
  <2> SUFFICES ASSUME RInv, [ReadNext]_<<vars, readVars>>, read # NoRead,
                      read' = NoRead, read.query.op = "audit"
               PROVE  /\ reply'.issues \subseteq {"tips"}
                      /\ "tips" \in reply'.issues <=> Withdrawn
    OBVIOUS
  <2>1. PICK now \in Readings : ReadEvents(now)
    BY ReadEnds
  <2> DEFINE rows == read.rows
             served == Served(rows, now)
             D == DOMAIN rows
             l == read.query.id
  <2>2. /\ DOMAIN reply'.status = D
        /\ \A c \in D : reply'.status[c] = served[c]
        /\ reply'.issues = IF D = {} THEN {} ELSE AuditIssues(rows, served, l)
    BY <2>1, ReplyIs
  <2>3. /\ RowsAreChain(rows, l) /\ D \subseteq Stored
        /\ \A c \in D : rows[c] \in ContextRow
    BY DEF RInv, RowsOK
  <2>4. IsFiniteSet(D) /\ D \subseteq Ctx
    BY <2>3, FS_Subset DEF RInv, IInv, TypeOK
  <2>5. \A c \in D :
          /\ served[c] = "retracted" <=> contexts[c].retracted \/ rows[c].retracted
          /\ served[c] # "retracted" /\ rows[c].status = "superseded"
                => served[c] = "superseded"
          /\ rows[c].status = "active" => served[c] # "superseded"
          /\ rows[c].status \in {"active", "superseded"}
    BY ServedStatus
  <2>6. \A c \in D : V(rows, c) \in Nat \ {0}
    BY <2>3 DEF V, ContextRow, ContentType
  <2> HIDE DEF rows, served, l
  <2>7. CASE D = {}
    BY <2>2, <2>7 DEF rows
  <2>8. CASE D # {}
    <3>1. \A c \in D : Place(rows, c) = V(rows, c)
      BY <2>3, <2>4, <2>6, PlaceIsVersion
    <3>2. ~ VersionGap(rows)
      BY <3>1 DEF VersionGap, V
    <3>3. ~ WrongLineage(rows, l)
      BY <2>3, <3>1 DEF WrongLineage, RowsAreChain
    <3>4. ~ BrokenLink(rows)
      <4> SUFFICES ASSUME NEW d \in D,
                          IF Place(rows, d) = 1
                          THEN rows[d].content.supersedes # NoCtx
                          ELSE \E c \in D :
                                  /\ Place(rows, d) = Place(rows, c) + 1
                                  /\ \/ rows[d].content.supersedes # c
                                     \/ rows[d].agent \notin
                                          {rows[c].agent} \cup rows[c].content.contributors
                   PROVE  FALSE
        BY DEF BrokenLink
      <4> DEFINE p == rows[d].content.supersedes
      <4>1. CASE p = NoCtx
        BY <2>3, <3>1, <4>1 DEF RowsAreChain
      <4>2. CASE p # NoCtx
        <5>1. /\ p \in D /\ V(rows, d) = V(rows, p) + 1
              /\ \/ rows[d].agent = rows[p].agent
                 \/ rows[d].agent \in rows[p].content.contributors
          BY <2>3, <4>2 DEF RowsAreChain
        <5>2. V(rows, d) # 1 /\ V(rows, p) \in Nat
          BY <2>6, <5>1
        <5>3. \A c \in D : V(rows, d) = V(rows, c) + 1 => c = p
          <6> SUFFICES ASSUME NEW c \in D, V(rows, d) = V(rows, c) + 1 PROVE c = p
            OBVIOUS
          <6>1. V(rows, c) = V(rows, p)
            BY <2>6, <5>1
          <6> QED BY <2>3, <5>1, <6>1 DEF RowsAreChain
        <5> QED BY <3>1, <5>1, <5>2, <5>3
      <4> QED BY <4>1, <4>2
    <3>5. PICK top \in D : /\ \A d \in D : V(rows, d) <= V(rows, top)
                           /\ V(rows, top) = Cardinality(D)
      BY <2>3, <2>4, <2>6, <2>8, NewestExists
    <3>6. rows[top].status = "active"
      BY <2>3, <2>4, <2>5, <2>6, <3>5, NewestIsActive
    <3>7. \A c \in D : rows[c].status = "active" => c = top
      <4> SUFFICES ASSUME NEW c \in D, rows[c].status = "active" PROVE c = top
        OBVIOUS
      <4>1. V(rows, top) <= V(rows, c) /\ V(rows, c) <= V(rows, top)
        BY <2>3, <3>5 DEF RowsAreChain
      <4>2. V(rows, c) = V(rows, top)
        BY <2>6, <4>1
      <4> QED BY <2>3, <4>2 DEF RowsAreChain
    <3>8. top \in Tips(rows, served)
      BY <2>5, <3>6 DEF Tips
    <3>9. Withdrawn <=> \E c \in Tips(rows, served) : c # top
      <4>1. \A c \in D : (rows[c].status = "superseded" /\ served[c] = "retracted")
                            <=> (c \in Tips(rows, served) /\ c # top)
        BY <2>5, <3>6, <3>7 DEF Tips
      <4>2. Tips(rows, served) \subseteq D
        BY DEF Tips
      <4> QED BY <2>2, <4>1, <4>2 DEF rows
    <3>10. Cardinality(Tips(rows, served)) # 1 <=> Withdrawn
      <4>1. IsFiniteSet(Tips(rows, served))
        BY <2>4, FS_Subset DEF Tips
      <4>2. Cardinality(Tips(rows, served)) = 1 <=> \E x : Tips(rows, served) = {x}
        BY <4>1, FS_Singleton
      <4> QED BY <3>8, <3>9, <4>2
    <3>11. ~ \E c \in D : served[c] = "superseded" /\ Place(rows, c) = Cardinality(D)
      <4> SUFFICES ASSUME NEW c \in D, served[c] = "superseded",
                          Place(rows, c) = Cardinality(D)
                   PROVE  FALSE
        OBVIOUS
      <4>1. V(rows, c) = V(rows, top)
        BY <3>1, <3>5
      <4>2. c = top
        BY <2>3, <3>5, <4>1 DEF RowsAreChain
      <4> QED BY <2>5, <3>6, <4>2
    <3> HIDE DEF Withdrawn
    <3>12. AuditIssues(rows, served, l) = IF Withdrawn THEN {"tips"} ELSE {}
      BY <3>2, <3>3, <3>4, <3>10, <3>11 DEF AuditIssues
    <3> QED BY <2>2, <2>8, <3>12 DEF rows
  <2> QED BY <2>7, <2>8
<1> QED BY <1>1, ReadInvariance, PTL DEF ReadSpec, AuditBlamesOnlyRetraction

=============================================================================
