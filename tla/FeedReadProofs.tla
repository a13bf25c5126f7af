--------------------------- MODULE FeedReadProofs ---------------------------
(***************************************************************************)
(* The readers of the change feed, proved for feeds, limits, watches,      *)
(* subscriptions and workers of any number and size: the cursors of        *)
(* module Polling and the hints of module Hints, which share the           *)
(* evaluation of module FeedRead.                                          *)
(*                                                                         *)
(* The evaluation: a page has every matching row up to where it was        *)
(* scanned (PageFacts), so a turn of the loop takes along every row its    *)
(* reader wants between the old and the new position (ScannedFacts).       *)
(*                                                                         *)
(* Hints: HintInv says of every attempt what it knows at its stage         *)
(* (AttemptSound), and that whoever holds a lease started from the         *)
(* recorded position (Leased); that is what lets Finish write without      *)
(* looking at the position it replaces.                                    *)
(*                                                                         *)
(* Polling: PollInv says that a cursor's anchor names a row of the feed as *)
(* it is, and then its holder has everything up to its position            *)
(* (CursorSound), or a row of an earlier era that is gone for good         *)
(* (CursorDead), and then no check of the anchor passes it                 *)
(* (DeadIsRefused).  A restore turns the one into the other.               *)
(***************************************************************************)
EXTENDS Polling, Hints, FiniteSetTheorems, WellFoundedInduction, TLAPS

(***************************************************************************)
(* Numbers and finite sets.                                                *)
(***************************************************************************)
\* A set of natural numbers has a least element.
LEMMA LeastNat ==
    ASSUME NEW T, T \subseteq Nat, T # {}
    PROVE  \E x \in T : \A y \in T : x <= y
<1> DEFINE R == OpToRel(<, Nat)
<1>1. \E x \in T : \A y \in T : ~ (<<y, x>> \in R)
  <2>1. IsWellFoundedOn(R, Nat)
    BY NatLessThanWellFounded
  <2> HIDE DEF R
  <2> QED BY <2>1, WFMin
<1>2. \A x, y \in Nat : <<y, x>> \in R <=> y < x
  BY DEF OpToRel
<1> HIDE DEF R
<1>3. PICK x \in T : \A y \in T : ~ (<<y, x>> \in R)
  BY <1>1
<1>4. \A y \in T : x <= y
  <2> TAKE y \in T
  <2>1. ~ (<<y, x>> \in R)
    BY <1>3
  <2>2. ~ (y < x)
    BY <2>1, <1>2
  <2> QED BY <2>2
<1> QED BY <1>4

\* A bounded one has a greatest, and Max is it.
LEMMA MaxOfBounded ==
    ASSUME NEW T, T \subseteq Nat, T # {}, NEW b \in Nat, \A x \in T : x <= b
    PROVE  Max(T) \in T /\ \A x \in T : x <= Max(T)
<1> DEFINE U == {u \in Nat : \A x \in T : x <= u}
<1>1. U # {} /\ U \subseteq Nat
  OBVIOUS
<1>2. PICK m \in U : \A u \in U : m <= u
  BY <1>1, LeastNat
<1>3. m \in T
  <2> SUFFICES ASSUME m \notin T PROVE FALSE
    OBVIOUS
  <2>1. PICK x \in T : TRUE
    OBVIOUS
  <2>2. x \in Nat /\ x < m /\ m - 1 \in Nat
    BY <2>1
  <2>3. \A y \in T : y <= m - 1
    OBVIOUS
  <2>4. m - 1 \in U
    BY <2>2, <2>3
  <2> QED BY <1>2, <2>4, <2>2
<1>4. \E x \in T : \A y \in T : x >= y
  BY <1>3
<1> DEFINE c == CHOOSE x \in T : \A y \in T : x >= y
<1>5. c \in T /\ \A y \in T : c >= y
  BY <1>4
<1> HIDE DEF c
<1>6. c \in T /\ \A y \in T : y <= c
  BY <1>5
<1> QED BY <1>6 DEF Max, c

\* The larger of two numbers.
LEMMA MaxOfTwo ==
    ASSUME NEW m \in Nat, NEW n \in Nat
    PROVE  Max({m, n}) \in {m, n} /\ Max({m, n}) >= m /\ Max({m, n}) >= n
<1> DEFINE T == {m, n}
<1>1. T \subseteq Nat /\ T # {} /\ \A x \in T : x <= m + n
  OBVIOUS
<1>2. m + n \in Nat
  OBVIOUS
<1> HIDE DEF T
<1>3. Max(T) \in T /\ \A x \in T : x <= Max(T)
  BY <1>1, <1>2, MaxOfBounded
<1>4. Max(T) \in {m, n} /\ m <= Max(T) /\ n <= Max(T)
  BY <1>3 DEF T
<1> DEFINE k == Max(T)
<1>5. k \in {m, n} /\ m <= k /\ n <= k
  BY <1>4
<1> HIDE DEF k
<1>6. k >= m /\ k >= n
  BY <1>5
<1> QED BY <1>5, <1>6 DEF k, T

(***************************************************************************)
(* The feed.                                                               *)
(***************************************************************************)
\* Rows f, of all rows A ever appended, are what the pruner has left.
FeedSound(f, p, A) ==
    /\ IsFiniteSet(A)
    /\ \A x \in A : x.seq \in 1 .. MaxSeq
    /\ \A x, y \in A : x.seq = y.seq => x = y
    /\ p.through \in Nat
    /\ f = {x \in A : x.seq > p.through}

\* The head is the newest position appended, or the pruner's.
LEMMA HeadFacts ==
    ASSUME NEW f, NEW p, NEW A, FeedSound(f, p, A)
    PROVE  LET h == FromSnapshot(f, p)
           IN  /\ h.head \in Nat /\ p.through <= h.head
               /\ \A x \in A : x.seq <= h.head
               /\ f = {} => /\ h.head = p.through
                            /\ h.fp = IF p.through = 0 THEN OriginFp ELSE p.fp
               /\ f # {} => \E x \in f : x.seq = h.head /\ h.fp = Fingerprint(x)
<1> DEFINE top == {x \in TopRow(f) : x.seq > p.through}
<1> DEFINE t == CHOOSE x \in top : TRUE
<1>1. \A x \in A : x.seq \in Nat /\ x.seq <= MaxSeq
  BY FeedReadAssumption DEF FeedSound
<1>2. f \subseteq A /\ p.through \in Nat /\ \A x \in A \ f : x.seq <= p.through
  BY <1>1 DEF FeedSound
<1>3. ASSUME f # {} PROVE top # {}
  <2> DEFINE S == {x.seq : x \in f}
  <2>1. S \subseteq Nat /\ S # {} /\ (\A n \in S : n <= MaxSeq) /\ MaxSeq \in Nat
    BY <1>1, <1>2, <1>3, FeedReadAssumption
  <2> DEFINE m == Max(S)
  <2>2. m \in S /\ \A n \in S : n <= m
    <3> HIDE DEF S
    <3> QED BY <2>1, MaxOfBounded
  <2> HIDE DEF m
  <2>3. PICK x \in f : x.seq = m
    BY <2>2
  <2>4. \A y \in f : y.seq <= x.seq
    BY <2>2, <2>3
  <2>5. x.seq > p.through
    BY DEF FeedSound
  <2> QED BY <2>4, <2>5 DEF TopRow
<1>4. f = {} => top = {}
  BY DEF TopRow
<1>5. top # {} => t \in top
  OBVIOUS
<1>6. t \in top => t \in f /\ t.seq \in Nat /\ t.seq > p.through /\ \A y \in f : y.seq <= t.seq
  BY <1>1, <1>2 DEF TopRow
<1> DEFINE h == FromSnapshot(f, p)
<1>7. /\ h.head = IF top # {} THEN t.seq ELSE p.through
      /\ h.fp = IF top # {} THEN Fingerprint(t)
                ELSE IF p.through = 0 THEN OriginFp ELSE p.fp
  BY DEF FromSnapshot
<1> HIDE DEF top, t, h
<1>8. CASE f = {}
  <2>1. h.head = p.through /\ h.fp = IF p.through = 0 THEN OriginFp ELSE p.fp
    BY <1>8, <1>4, <1>7
  <2>2. \A x \in A : x.seq <= p.through
    BY <1>8, <1>2
  <2> QED BY <1>8, <2>1, <2>2, <1>2 DEF h
<1>9. CASE f # {}
  <2>1. t \in top /\ h.head = t.seq /\ h.fp = Fingerprint(t)
    BY <1>9, <1>3, <1>5, <1>7
  <2>2. t \in f /\ t.seq \in Nat /\ t.seq > p.through /\ \A y \in f : y.seq <= t.seq
    BY <2>1, <1>6
  <2>3. \A x \in A : x.seq <= t.seq
    BY <2>2, <1>1, <1>2
  <2> QED BY <1>9, <2>1, <2>2, <2>3, <1>2 DEF h
<1> QED BY <1>8, <1>9

\* What the feed may do to a reader: rows appear past the head, which, like
\* the pruner's mark, never goes back.
FeedGrows ==
    /\ appended \subseteq appended'
    /\ \A x \in appended' \ appended : x.seq > FeedHead.head
    /\ FeedHead.head <= (FeedHead.head)'
    /\ pruned.through <= pruned'.through

\* An append lets the feed grow.
LEMMA AppendGrows ==
    ASSUME FeedSound(feed, pruned, appended), NEW e \in Entry,
           NEW seq \in 1 .. MaxSeq, AppendEntry(e, seq)
    PROVE  FeedSound(feed', pruned', appended') /\ FeedGrows
<1> DEFINE x == [seq |-> seq, era |-> era, entry |-> e]
<1> DEFINE h == FeedHead.head
<1> DEFINE h2 == (FeedHead.head)'
<1>1. /\ feed' = feed \cup {x} /\ appended' = appended \cup {x} /\ pruned' = pruned
      /\ x.seq = seq /\ seq > h /\ seq \in Nat
  BY FeedReadAssumption DEF AppendEntry
<1>2. /\ h \in Nat /\ pruned.through <= h /\ pruned.through \in Nat
      /\ \A y \in appended : y.seq <= h
      /\ feed = {} => h = pruned.through
      /\ feed # {} => \E y \in feed : y.seq = h
  BY HeadFacts DEF FeedHead, FeedSound
<1> HIDE DEF x, h
<1>3. FeedSound(feed', pruned', appended')
  <2>1. IsFiniteSet(appended')
    BY <1>1, FS_AddElement DEF FeedSound
  <2>2. \A y \in appended' : y.seq \in 1 .. MaxSeq
    BY <1>1 DEF FeedSound
  <2>3. \A y \in appended : y.seq \in Nat /\ y.seq # x.seq
    BY <1>1, <1>2, FeedReadAssumption DEF FeedSound
  <2>4. \A y, z \in appended' : y.seq = z.seq => y = z
    BY <1>1, <2>3 DEF FeedSound
  <2>5. feed' = {y \in appended' : y.seq > pruned'.through}
    BY <1>1, <1>2 DEF FeedSound
  <2> QED BY <2>1, <2>2, <2>4, <2>5, <1>1, <1>2 DEF FeedSound
<1>4. /\ h2 \in Nat /\ \A y \in appended' : y.seq <= h2
  BY <1>3, HeadFacts DEF FeedHead
<1> HIDE DEF h2
<1>5. h <= h2
  BY <1>1, <1>2, <1>4
<1>6. \A y \in appended' \ appended : y.seq > h
  BY <1>1
<1> QED BY <1>1, <1>2, <1>3, <1>5, <1>6 DEF FeedGrows, h, h2

\* So does the pruner.
LEMMA PruneGrows ==
    ASSUME FeedSound(feed, pruned, appended), NEW x \in feed, PruneFeed(x)
    PROVE  FeedSound(feed', pruned', appended') /\ FeedGrows
<1> DEFINE h == FeedHead.head
<1> DEFINE h2 == (FeedHead.head)'
<1>1. /\ feed' = {y \in feed : y.seq > x.seq} /\ appended' = appended
      /\ pruned'.through = x.seq
  BY DEF PruneFeed
<1>2. /\ h \in Nat /\ pruned.through <= h /\ pruned.through \in Nat
      /\ \A y \in appended : y.seq <= h
      /\ \E y \in feed : y.seq = h
  BY HeadFacts DEF FeedHead, FeedSound
<1> HIDE DEF h
<1>3. x \in appended /\ x.seq \in Nat /\ x.seq > pruned.through
      /\ \A y \in appended : y.seq \in Nat
  BY FeedReadAssumption DEF FeedSound
<1>4. feed' = {y \in appended' : y.seq > pruned'.through}
  BY <1>1, <1>2, <1>3 DEF FeedSound
<1>5. FeedSound(feed', pruned', appended')
  BY <1>1, <1>3, <1>4 DEF FeedSound
<1>6. /\ h2 \in Nat /\ pruned'.through <= h2 /\ \A y \in appended' : y.seq <= h2
  BY <1>5, HeadFacts DEF FeedHead
<1> HIDE DEF h2
<1>7. PICK y \in feed : y.seq = h
  BY <1>2
<1>8. y \in appended'
  BY <1>1, <1>7 DEF FeedSound
<1>9. h <= h2
  BY <1>6, <1>7, <1>8
<1> QED BY <1>1, <1>2, <1>3, <1>5, <1>9 DEF FeedGrows, h, h2

(***************************************************************************)
(* One page.                                                               *)
(***************************************************************************)
\* The first n rows of a set: with a row every earlier one, and all of them
\* when they are fewer than n.
LEMMA FirstRowsFacts ==
    ASSUME NEW S, IsFiniteSet(S), \A x \in S : x.seq \in Nat,
           \A x, y \in S : x.seq = y.seq => x = y, NEW n \in Nat
    PROVE  /\ FirstRows(S, n) \subseteq S
           /\ \A x \in FirstRows(S, n), y \in S : y.seq <= x.seq => y \in FirstRows(S, n)
           /\ Cardinality(FirstRows(S, n)) < n => FirstRows(S, n) = S
<1> DEFINE upto(x) == {y \in S : y.seq <= x.seq}
<1> DEFINE F == FirstRows(S, n)
<1>1. F = {x \in S : Cardinality(upto(x)) <= n}
  BY DEF FirstRows
<1>2. \A x \in S : IsFiniteSet(upto(x)) /\ Cardinality(upto(x)) \in Nat
  <2> TAKE x \in S
  <2>1. upto(x) \subseteq S
    OBVIOUS
  <2> HIDE DEF upto
  <2>2. IsFiniteSet(upto(x))
    BY <2>1, FS_Subset
  <2> QED BY <2>2, FS_CardinalityType
<1>3. ASSUME NEW x \in F, NEW y \in S, y.seq <= x.seq PROVE y \in F
  <2>1. x \in S /\ Cardinality(upto(x)) <= n
    BY <1>1, <1>3
  <2>2. upto(y) \subseteq upto(x)
    <3>1. x.seq \in Nat /\ y.seq \in Nat /\ y.seq <= x.seq
      BY <2>1, <1>3
    <3>2. \A z \in S : z.seq \in Nat /\ (z.seq <= y.seq => z.seq <= x.seq)
      BY <3>1
    <3> QED BY <3>2
  <2> DEFINE cx == Cardinality(upto(x))
  <2> DEFINE cy == Cardinality(upto(y))
  <2>3. cx \in Nat /\ cy \in Nat /\ cy <= cx
    <3> HIDE DEF upto
    <3> QED BY <2>1, <2>2, <1>2, <1>3, FS_Subset
  <2> HIDE DEF cx, cy
  <2>4. cy <= n
    BY <2>3, <2>1 DEF cx
  <2> QED BY <2>4, <1>1 DEF cy
<1>4. ASSUME Cardinality(F) < n PROVE F = S
  <2> SUFFICES ASSUME F # S PROVE FALSE
    OBVIOUS
  <2> DEFINE D == {x.seq : x \in S \ F}
  <2>1. D \subseteq Nat /\ D # {}
    <3>1. F \subseteq S
      BY <1>1
    <3>2. S \ F # {}
      BY <3>1
    <3> QED BY <3>2
  <2>2. PICK m \in D : \A k \in D : m <= k
    BY <2>1, LeastNat
  <2>3. PICK x \in S \ F : x.seq = m
    BY <2>2
  <2> DEFINE below == {y \in S : y.seq < x.seq}
  <2>4. below \subseteq F
    <3> SUFFICES ASSUME NEW y \in below, y \notin F PROVE FALSE
      OBVIOUS
    <3>1. y.seq \in D
      OBVIOUS
    <3>2. y.seq \in Nat /\ x.seq \in Nat /\ y.seq < x.seq /\ x.seq <= y.seq
      BY <3>1, <2>2, <2>3
    <3> QED BY <3>2
  <2>5. upto(x) = below \cup {x} /\ x \notin below
    BY <2>3
  <2>6. IsFiniteSet(F)
    BY <1>1, FS_Subset
  <2>7. IsFiniteSet(below)
    BY <2>4, <2>6, FS_Subset
  <2> DEFINE cF == Cardinality(F)
  <2> DEFINE cb == Cardinality(below)
  <2> DEFINE cu == Cardinality(upto(x))
  <2>8. cF \in Nat /\ cb \in Nat /\ cb <= cF
    <3> HIDE DEF F, below
    <3> QED BY <2>4, <2>6, <2>7, FS_Subset, FS_CardinalityType
  <2>9. cu = cb + 1
    <3> HIDE DEF upto, below
    <3> QED BY <2>5, <2>7, FS_AddElement
  <2>10. cu > n
    <3>1. cu \in Nat /\ ~ (cu <= n)
      BY <2>3, <1>1, <1>2
    <3> HIDE DEF cu
    <3> QED BY <3>1
  <2>11. cF < n
    BY <1>4
  <2> HIDE DEF cF, cb, cu
  <2> QED BY <2>8, <2>9, <2>10, <2>11
<1> QED BY <1>1, <1>3, <1>4

\* The least of a set of numbers is one of them.
LEMMA MinOfNats ==
    ASSUME NEW T, T \subseteq Nat, T # {}
    PROVE  Min(T) \in T /\ \A x \in T : Min(T) <= x
<1>1. \E x \in T : \A y \in T : x =< y
  BY LeastNat
<1> DEFINE c == CHOOSE x \in T : \A y \in T : x =< y
<1>2. c \in T /\ \A y \in T : c <= y
  BY <1>1
<1> HIDE DEF c
<1> QED BY <1>2 DEF Min, c

\* An evaluation somewhere in the feed.
IsEvaluation(ev) ==
    /\ ev.pos \in Nat /\ ev.pos <= FeedHead.head
    /\ ev.limit \in Nat \ {0}

\* A page has, past the evaluation's position, every matching row up to
\* where it was scanned and, with a row, every earlier one.
LEMMA PageFacts ==
    ASSUME FeedSound(feed, pruned, appended), NEW r, NEW ev, IsEvaluation(ev),
           NEW page, page = Page(r, ev)
    PROVE  /\ \A x \in page.rows : x \in feed /\ x.seq > ev.pos /\ Matches(r, x.entry)
           /\ page.lastScanned \in Nat /\ ev.pos <= page.lastScanned
           /\ page.lastScanned <= FeedHead.head
           /\ \A x \in feed :
                 /\ x.seq > ev.pos /\ Matches(r, x.entry)
                 /\ x.seq <= page.lastScanned \/ \E y \in page.rows : x.seq <= y.seq
                 => x \in page.rows
           /\ page.head = FeedHead.head /\ page.fp = FeedHead.fp
<1> DEFINE S == {x \in feed : x.seq > ev.pos /\ Matches(r, x.entry)}
<1> DEFINE n == ScanLimit(ev.limit)
<1> DEFINE h == FeedHead.head
<1> DEFINE rows == FirstRows(S, n)
<1> DEFINE whole == Cardinality(rows) < n
<1> DEFINE last == IF whole THEN Max({h, ev.pos}) ELSE Max({x.seq : x \in rows})
<1>1. /\ page.rows = rows /\ page.lastScanned = last
      /\ page.head = FeedHead.head /\ page.fp = FeedHead.fp
  BY DEF Page
<1>2. n \in Nat /\ n >= 1
  <2>1. Max({ev.limit, MinScanRows}) \in Nat /\ Max({ev.limit, MinScanRows}) >= ev.limit
    BY MaxOfTwo, FeedReadAssumption DEF IsEvaluation
  <2> QED BY <2>1 DEF ScanLimit, IsEvaluation
<1>3. h \in Nat /\ ev.pos \in Nat /\ ev.pos <= h /\ \A x \in feed : x.seq \in Nat /\ x.seq <= h
  BY HeadFacts, FeedReadAssumption DEF FeedHead, FeedSound, IsEvaluation
<1>4. /\ IsFiniteSet(S) /\ \A x \in S : x.seq \in Nat
      /\ \A x, y \in S : x.seq = y.seq => x = y
  <2>1. S \subseteq appended
    BY DEF FeedSound
  <2>2. IsFiniteSet(S)
    BY <2>1, FS_Subset DEF FeedSound
  <2> QED BY <2>1, <2>2, <1>3 DEF FeedSound
<1> HIDE DEF n, h
<1>5. /\ rows \subseteq S
      /\ \A x \in rows, y \in S : y.seq <= x.seq => y \in rows
      /\ whole => rows = S
  <2> HIDE DEF S
  <2> QED BY <1>2, <1>4, FirstRowsFacts
<1>6. \A x \in S : x \in feed /\ x.seq > ev.pos /\ Matches(r, x.entry)
  OBVIOUS
<1>7. \A x \in feed : x.seq > ev.pos /\ Matches(r, x.entry) => x \in S
  OBVIOUS
<1>8. ~ whole => rows # {}
  <2> SUFFICES ASSUME rows = {} PROVE Cardinality(rows) < n
    OBVIOUS
  <2>1. Cardinality(rows) = 0
    BY FS_EmptySet
  <2> HIDE DEF rows
  <2> QED BY <2>1, <1>2
<1> HIDE DEF S, rows, whole
<1>9. last \in Nat /\ ev.pos <= last /\ last <= h
      /\ \A x \in S : x.seq <= last => x \in rows
  <2>1. CASE whole
    <3> DEFINE m == Max({h, ev.pos})
    <3>1. m \in {h, ev.pos} /\ m >= h /\ m >= ev.pos
      BY <1>3, MaxOfTwo
    <3> HIDE DEF m
    <3>2. m \in Nat /\ ev.pos <= m /\ m <= h
      BY <3>1, <1>3
    <3> QED BY <2>1, <3>2, <1>5 DEF m
  <2>2. CASE ~ whole
    <3> DEFINE T == {x.seq : x \in rows}
    <3> DEFINE m == Max(T)
    <3>1. T \subseteq Nat /\ T # {} /\ \A k \in T : k <= h
      BY <2>2, <1>3, <1>5, <1>6, <1>8
    <3>2. m \in T /\ \A k \in T : k <= m
      <4> HIDE DEF T
      <4> QED BY <3>1, <1>3, MaxOfBounded
    <3> HIDE DEF m
    <3>3. PICK x \in rows : x.seq = m
      BY <3>2
    <3>4. m \in Nat /\ ev.pos <= m /\ m <= h
      BY <3>3, <1>3, <1>5, <1>6
    <3>5. \A y \in S : y.seq <= m => y \in rows
      BY <3>3, <1>5
    <3> QED BY <2>2, <3>4, <3>5 DEF m
  <2> QED BY <2>1, <2>2
<1> HIDE DEF last
<1>10. \A x \in rows : x \in feed /\ x.seq > ev.pos /\ Matches(r, x.entry)
  BY <1>5, <1>6
<1>11. \A x \in feed :
          /\ x.seq > ev.pos /\ Matches(r, x.entry)
          /\ x.seq <= last \/ \E y \in rows : x.seq <= y.seq
          => x \in rows
  BY <1>5, <1>7, <1>9
<1> QED BY <1>1, <1>9, <1>10, <1>11 DEF h

\* Where the loop breaks off is a position.
LEMMA StopIsNat ==
    ASSUME FeedSound(feed, pruned, appended), NEW r, NEW ev, IsEvaluation(ev),
           NEW page, page = Page(r, ev), NEW cut \in Cuts(r, ev, page) \cup {{}}
    PROVE  StopAt(r, ev, page, cut) \in Nat
<1> DEFINE T == {Unbroken} \cup cut
        \cup {x.seq : x \in {y \in page.rows :
                  Cardinality(ev.out)
                    + Cardinality({z \in Seen(r, page) : z.seq < y.seq})
                      >= ev.limit}}
<1>1. \A x \in page.rows : x.seq \in Nat
  BY PageFacts, FeedReadAssumption DEF FeedSound
<1>2. cut \subseteq Nat
  BY <1>1 DEF Cuts, Seen
<1>3. Unbroken \in Nat
  BY FeedReadAssumption DEF Unbroken
<1>4. T \subseteq Nat /\ T # {}
  BY <1>1, <1>2, <1>3
<1>5. StopAt(r, ev, page, cut) = Min(T)
  BY DEF StopAt
<1> HIDE DEF T
<1>6. Min(T) \in T
  BY <1>4, MinOfNats
<1> QED BY <1>4, <1>5, <1>6

\* A turn of the scan loop takes along every row its reader wants between
\* the old and the new position.
LEMMA ScannedFacts ==
    ASSUME FeedSound(feed, pruned, appended), NEW r, NEW ev, IsEvaluation(ev),
           NEW page, page = Page(r, ev), NEW stop \in Nat,
           NEW new, new = Scanned(r, ev, page, stop)
    PROVE  /\ IsEvaluation(new) /\ ev.pos <= new.pos
           /\ new.limit = ev.limit /\ new.check = ev.check
           /\ ev.out \subseteq new.out
           /\ \A x \in new.out \ ev.out :
                 x \in feed /\ Wants(r, x) /\ x.seq > ev.pos
           /\ \A x \in feed : /\ Wants(r, x) /\ x.seq > ev.pos /\ x.seq <= new.pos
                              => x \in new.out
           /\ new.head = IF FeedHead.head >= ev.head THEN FeedHead.head ELSE ev.head
           /\ new.fp = IF FeedHead.head >= ev.head THEN FeedHead.fp ELSE ev.fp
<1> DEFINE h == FeedHead.head
<1> DEFINE before == {x.seq : x \in {y \in page.rows : y.seq < stop}}
<1> DEFINE P == {ev.pos} \cup before \cup (IF stop = Unbroken THEN {page.lastScanned} ELSE {})
<1> DEFINE pos == Max(P)
<1>1. /\ new.pos = pos /\ new.limit = ev.limit /\ new.check = ev.check
      /\ new.out = ev.out \cup {x \in Seen(r, page) : x.seq < stop}
      /\ new.head = (IF FeedHead.head >= ev.head THEN FeedHead.head ELSE ev.head)
      /\ new.fp = (IF FeedHead.head >= ev.head THEN FeedHead.fp ELSE ev.fp)
  BY PageFacts DEF Scanned, PosAfter
<1>2. h \in Nat /\ ev.pos \in Nat /\ ev.pos <= h
      /\ \A x \in feed : x.seq \in Nat /\ x.seq <= h /\ x.seq <= MaxSeq
  BY HeadFacts, FeedReadAssumption DEF FeedHead, FeedSound, IsEvaluation
<1>3. /\ \A x \in page.rows : x \in feed /\ x.seq > ev.pos /\ Matches(r, x.entry)
      /\ page.lastScanned \in Nat /\ page.lastScanned <= h
  BY PageFacts
<1>4. \A x \in feed :
         /\ x.seq > ev.pos /\ Matches(r, x.entry)
         /\ x.seq <= page.lastScanned \/ \E y \in page.rows : x.seq <= y.seq
         => x \in page.rows
  BY PageFacts
<1> HIDE DEF h
<1>5. P \subseteq Nat /\ P # {} /\ \A k \in P : k <= h
  BY <1>2, <1>3
<1>6. pos \in P /\ \A k \in P : k <= pos
  <2> HIDE DEF P
  <2> QED BY <1>2, <1>5, MaxOfBounded
<1> HIDE DEF pos
<1>7. pos \in Nat /\ pos <= h /\ ev.pos <= pos
  BY <1>5, <1>6
<1>8. IsEvaluation(new)
  BY <1>1, <1>7 DEF IsEvaluation, h
<1>9. \A x \in new.out \ ev.out : x \in feed /\ Wants(r, x) /\ x.seq > ev.pos
  BY <1>1, <1>3 DEF Seen, Wants
<1>10. ASSUME NEW x \in feed, Wants(r, x), x.seq > ev.pos, x.seq <= pos
       PROVE  x \in new.out
  <2>1. Matches(r, x.entry) /\ VisibleEntry(r, x.entry) /\ x.seq \in Nat
    BY <1>10, <1>2 DEF Wants
  <2>2. x \in page.rows /\ x.seq < stop
    <3>1. CASE pos = ev.pos
      BY <3>1, <1>10, <1>2
    <3>2. CASE pos \in before
      <4>1. PICK y \in page.rows : y.seq = pos /\ y.seq < stop
        BY <3>2
      <4> QED BY <4>1, <1>4, <1>10, <1>7, <2>1
    <3>3. CASE stop = Unbroken /\ pos = page.lastScanned
      <4>1. x \in page.rows
        BY <3>3, <1>4, <1>10, <2>1
      <4>2. x.seq < stop
        BY <3>3, <1>2, <2>1, FeedReadAssumption DEF Unbroken
      <4> QED BY <4>1, <4>2
    <3> QED BY <3>1, <3>2, <3>3, <1>6
  <2> QED BY <1>1, <2>1, <2>2 DEF Seen
<1> QED BY <1>1, <1>7, <1>8, <1>9, <1>10

(***************************************************************************)
(* Hints: what an attempt knows.                                           *)
(***************************************************************************)
\* The rows the owner may see past the position attempt a started from.
Wanted(a, A) == {x \in A : Wants(OwnerOf[a.sub], x) /\ x.seq > a.rec.last}

\* The scan has every one of them up to its position that the pruner left.
EvaluationSound(a, A, h, t) ==
    /\ a.ev.pos \in Nat /\ a.rec.last <= a.ev.pos /\ a.ev.pos <= h
    /\ a.ev.limit \in Nat \ {0}
    /\ a.ev.out \subseteq Wanted(a, A)
    /\ \A x \in Wanted(a, A) : x.seq <= a.ev.pos => x \in a.ev.out \/ x.seq <= t

\* The position about to be recorded leaves nothing behind that the receiver
\* was not told of, up to n.
ProgressSound(a, A, h, t, n) ==
    LET p == a.progress
    IN  /\ p = [last |-> p.last, status |-> p.status, due |-> p.due,
                failing |-> p.failing, attempts |-> p.attempts]
        /\ p.status \in {"active", "disabled"}
        /\ p.last \in Nat /\ a.rec.last <= p.last /\ p.last <= h
        /\ \A x \in Wanted(a, A) : x.seq <= p.last => x.seq <= n \/ x.seq <= t

\* An attempt over rows A, head h and mark t, whose receiver was told of n.
AttemptSound(a, A, h, t, n) ==
    /\ a = [at |-> a.at, sub |-> a.sub, age |-> a.age, rec |-> a.rec,
            head |-> a.head, ev |-> a.ev, progress |-> a.progress]
    /\ a.rec = [last |-> a.rec.last, failing |-> a.rec.failing,
                attempts |-> a.rec.attempts]
    /\ a.at \in {"begin", "position", "oldest", "scan", "deliver", "finish"}
    /\ a.sub \in SubId
    /\ a.rec.last \in Nat /\ a.rec.last <= h
    /\ a.at \in {"position", "oldest", "scan", "deliver"} =>
          a.head \in Nat /\ a.rec.last <= a.head /\ a.head <= h
    /\ a.at = "oldest" => a.rec.last <= t
    /\ a.at = "scan" => EvaluationSound(a, A, h, t)
    /\ a.at = "deliver" => Wanted(a, A) # {}
    /\ a.at = "finish" => ProgressSound(a, A, h, t, n)

\* A row of the subscriptions table, or what stands for its absence.
SubSound(b, h) ==
    \/ b = Unborn \/ b = Gone
    \/ b = Creating(b.head) /\ b.head \in Nat /\ b.head <= h
    \/ /\ b = [status |-> b.status, last |-> b.last, due |-> b.due,
               lease |-> b.lease, failing |-> b.failing, attempts |-> b.attempts]
       /\ b.status \in {"active", "disabled"}
       /\ b.last \in Nat /\ b.last <= h

\* What the receiver of subscription b, born at position m, was told of.
Told(s, b, A, t, n, m) ==
    b.status \in {"active", "disabled"} =>
        \A x \in A : Wants(OwnerOf[s], x) /\ x.seq > m /\ x.seq <= b.last
                        => x.seq <= n \/ x.seq <= t

\* Whoever holds the lease started from the recorded position.
Leased(w, a, b) ==
    b.status \in {"active", "disabled"} /\ b.lease.by = w => b.last = a.rec.last

\* The feed, the subscriptions and the attempts in progress.
HintInv ==
    /\ FeedSound(feed, pruned, appended)
    /\ subs = [s \in SubId |-> subs[s]] /\ att = [w \in Worker |-> att[w]]
    /\ hintedTo \in [SubId -> Nat] /\ born \in [SubId -> Nat]
    /\ \A s \in SubId :
          /\ SubSound(subs[s], FeedHead.head)
          /\ Told(s, subs[s], appended, pruned.through, hintedTo[s], born[s])
    /\ \A w \in Worker : att[w] # Resting =>
          /\ AttemptSound(att[w], appended, FeedHead.head, pruned.through,
                          hintedTo[att[w].sub])
          /\ Leased(w, att[w], subs[att[w].sub])

\* What an attempt knows stays true while the feed grows and the receiver is
\* told more.
LEMMA AttemptStays ==
    ASSUME NEW a, NEW A, NEW A2, NEW h \in Nat, NEW h2 \in Nat, NEW t \in Nat,
           NEW t2 \in Nat, NEW n \in Nat, NEW n2 \in Nat,
           A \subseteq A2, \A x \in A2 \ A : x.seq > h,
           \A x \in A2 : x.seq \in Nat, h <= h2, t <= t2, n <= n2,
           AttemptSound(a, A, h, t, n)
    PROVE  AttemptSound(a, A2, h2, t2, n2)
<1>1. Wanted(a, A) \subseteq Wanted(a, A2)
  BY DEF Wanted
<1>2. \A x \in Wanted(a, A2) : x.seq \in Nat /\ (x.seq <= h => x \in Wanted(a, A))
  BY DEF Wanted
<1>3. ASSUME EvaluationSound(a, A, h, t) PROVE EvaluationSound(a, A2, h2, t2)
  <2>1. a.rec.last \in Nat
    BY DEF AttemptSound
  <2> QED BY <2>1, <1>1, <1>2, <1>3 DEF EvaluationSound
<1>4. ASSUME ProgressSound(a, A, h, t, n) PROVE ProgressSound(a, A2, h2, t2, n2)
  <2> DEFINE p == a.progress
  <2>1. a.rec.last \in Nat
    BY DEF AttemptSound
  <2>2. p.last \in Nat /\ a.rec.last <= p.last /\ p.last <= h
        /\ \A x \in Wanted(a, A) : x.seq <= p.last => x.seq <= n \/ x.seq <= t
    BY <1>4 DEF ProgressSound
  <2>3. \A x \in Wanted(a, A2) : x.seq <= p.last => x.seq <= n2 \/ x.seq <= t2
    BY <2>1, <2>2, <1>2
  <2>4. p.last <= h2
    BY <2>2
  <2> QED BY <2>2, <2>3, <2>4, <1>4 DEF ProgressSound
<1>5. Wanted(a, A) # {} => Wanted(a, A2) # {}
  BY <1>1
<1>6. a.rec.last <= h2 /\ (a.at = "oldest" => a.rec.last <= t2)
  BY DEF AttemptSound
<1>7. a.at \in {"position", "oldest", "scan", "deliver"} =>
         a.head \in Nat /\ a.rec.last <= a.head /\ a.head <= h2
  BY DEF AttemptSound
<1> QED BY <1>3, <1>4, <1>5, <1>6, <1>7 DEF AttemptSound

\* The table's rows stay sound in the same way.
LEMMA SubStays ==
    ASSUME NEW s \in SubId, NEW b, NEW A, NEW A2, NEW h \in Nat, NEW h2 \in Nat,
           NEW t \in Nat, NEW t2 \in Nat, NEW n \in Nat, NEW n2 \in Nat, NEW m,
           A \subseteq A2, \A x \in A2 \ A : x.seq > h,
           \A x \in A2 : x.seq \in Nat, h <= h2, t <= t2, n <= n2,
           SubSound(b, h), Told(s, b, A, t, n, m)
    PROVE  SubSound(b, h2) /\ Told(s, b, A2, t2, n2, m)
<1>1. SubSound(b, h2)
  BY DEF SubSound
<1>2. b.status \in {"active", "disabled"} => b.last \in Nat /\ b.last <= h
  BY DEF SubSound, Unborn, Gone, Creating
<1>3. Told(s, b, A2, t2, n2, m)
  <2> SUFFICES ASSUME b.status \in {"active", "disabled"}, NEW x \in A2,
                      Wants(OwnerOf[s], x), x.seq > m, x.seq <= b.last
               PROVE  x.seq <= n2 \/ x.seq <= t2
    BY DEF Told
  <2>1. x \in A /\ x.seq \in Nat
    BY <1>2
  <2>2. x.seq <= n \/ x.seq <= t
    BY <2>1 DEF Told
  <2> QED BY <2>1, <2>2
<1> QED BY <1>1, <1>3

\* The head, the mark and the positions of the rows are numbers.
LEMMA FeedNumbers ==
    ASSUME FeedSound(feed, pruned, appended)
    PROVE  /\ FeedHead.head \in Nat /\ pruned.through \in Nat
           /\ pruned.through <= FeedHead.head
           /\ \A x \in appended : x.seq \in Nat /\ x.seq <= FeedHead.head
  BY HeadFacts, FeedReadAssumption DEF FeedHead, FeedSound

\* Appends and prunes keep the invariant.
LEMMA FeedStep ==
    ASSUME HintInv, FeedSound(feed', pruned', appended'), FeedGrows,
           UNCHANGED hintVars
    PROVE  HintInv'
<1> DEFINE h == FeedHead.head
<1> DEFINE h2 == (FeedHead.head)'
<1>1. h \in Nat /\ pruned.through \in Nat
  BY FeedNumbers DEF HintInv
<1>2. /\ h2 \in Nat /\ pruned'.through \in Nat
      /\ \A x \in appended' : x.seq \in Nat
  BY HeadFacts, FeedReadAssumption DEF FeedHead, FeedSound
<1>3. /\ appended \subseteq appended' /\ \A x \in appended' \ appended : x.seq > h
      /\ h <= h2 /\ pruned.through <= pruned'.through
  BY DEF FeedGrows
<1>4. subs' = subs /\ att' = att /\ hintedTo' = hintedTo /\ born' = born
  BY DEF hintVars
<1> HIDE DEF h, h2
<1>5. ASSUME NEW s \in SubId
      PROVE  /\ SubSound(subs'[s], h2)
             /\ Told(s, subs'[s], appended', pruned'.through, hintedTo'[s], born'[s])
  <2>1. hintedTo[s] \in Nat /\ SubSound(subs[s], h)
        /\ Told(s, subs[s], appended, pruned.through, hintedTo[s], born[s])
    BY DEF HintInv, h
  <2>2. hintedTo[s] <= hintedTo[s]
    BY <2>1
  <2>3. SubSound(subs[s], h2)
        /\ Told(s, subs[s], appended', pruned'.through, hintedTo[s], born[s])
    BY <1>1, <1>2, <1>3, <2>1, <2>2, SubStays
  <2> QED BY <2>3, <1>4
<1>6. ASSUME NEW w \in Worker, att'[w] # Resting
      PROVE  /\ AttemptSound(att'[w], appended', h2, pruned'.through,
                             hintedTo'[att'[w].sub])
             /\ Leased(w, att'[w], subs'[att'[w].sub])
  <2> DEFINE a == att[w]
  <2> DEFINE n == hintedTo[a.sub]
  <2>1. AttemptSound(a, appended, h, pruned.through, n) /\ Leased(w, a, subs[a.sub])
    BY <1>4, <1>6 DEF HintInv, h
  <2>2. a.sub \in SubId
    BY <2>1 DEF AttemptSound
  <2>3. n \in Nat /\ n <= n
    BY <2>2 DEF HintInv
  <2> HIDE DEF a, n
  <2>4. AttemptSound(a, appended', h2, pruned'.through, n)
    BY <1>1, <1>2, <1>3, <2>1, <2>3, AttemptStays
  <2> QED BY <2>1, <2>4, <1>4 DEF a, n
<1>7. subs' = [s \in SubId |-> subs'[s]] /\ att' = [w \in Worker |-> att'[w]]
      /\ hintedTo' \in [SubId -> Nat] /\ born' \in [SubId -> Nat]
  BY <1>4 DEF HintInv
<1> QED BY <1>5, <1>6, <1>7 DEF HintInv, h2

(***************************************************************************)
(* Hints: the steps.                                                       *)
(***************************************************************************)
\* While the feed stays as it is.
LEMMA HintFrame ==
    ASSUME HintInv, UNCHANGED feedVars,
           subs' = [s \in SubId |-> subs'[s]], att' = [w \in Worker |-> att'[w]],
           hintedTo' \in [SubId -> Nat], born' \in [SubId -> Nat],
           \A s \in SubId :
              /\ SubSound(subs'[s], FeedHead.head)
              /\ Told(s, subs'[s], appended, pruned.through, hintedTo'[s], born'[s]),
           \A w \in Worker : att'[w] # Resting =>
              /\ AttemptSound(att'[w], appended, FeedHead.head, pruned.through,
                              hintedTo'[att'[w].sub])
              /\ Leased(w, att'[w], subs'[att'[w].sub])
    PROVE  HintInv'
<1>1. feed' = feed /\ pruned' = pruned /\ appended' = appended
  BY DEF feedVars
<1>2. (FeedHead.head)' = FeedHead.head
  BY <1>1 DEF FeedHead
<1> QED BY <1>1, <1>2 DEF HintInv

\* What the invariant says about one attempt.
LEMMA AttemptFacts ==
    ASSUME HintInv, NEW w \in Worker, att[w] # Resting
    PROVE  /\ AttemptSound(att[w], appended, FeedHead.head, pruned.through,
                           hintedTo[att[w].sub])
           /\ Leased(w, att[w], subs[att[w].sub])
           /\ att[w].sub \in SubId /\ hintedTo[att[w].sub] \in Nat
  BY DEF HintInv, AttemptSound

\* One attempt goes on, or ends; its receiver may have been told.
LEMMA AttemptMoves ==
    ASSUME HintInv, UNCHANGED feedVars, NEW w \in Worker, NEW a2,
           att' = [att EXCEPT ![w] = a2], UNCHANGED <<subs, born>>,
           hintedTo' \in [SubId -> Nat], \A s \in SubId : hintedTo[s] <= hintedTo'[s],
           a2 # Resting =>
              /\ AttemptSound(a2, appended, FeedHead.head, pruned.through,
                              hintedTo'[a2.sub])
              /\ att[w] # Resting /\ a2.sub = att[w].sub /\ a2.rec = att[w].rec
    PROVE  HintInv'
<1> DEFINE h == FeedHead.head
<1> DEFINE t == pruned.through
<1>1. h \in Nat /\ t \in Nat /\ \A x \in appended : x.seq \in Nat
  BY FeedNumbers DEF HintInv
<1>2. h <= h /\ t <= t /\ appended \subseteq appended
      /\ \A x \in appended \ appended : x.seq > h
  BY <1>1
<1>3. att' = [v \in Worker |-> att'[v]] /\ att'[w] = a2
      /\ \A v \in Worker \ {w} : att'[v] = att[v]
  BY DEF HintInv
<1>4. subs' = [s \in SubId |-> subs'[s]] /\ born' \in [SubId -> Nat]
  BY DEF HintInv
<1> HIDE DEF h, t
<1>5. ASSUME NEW s \in SubId
      PROVE  /\ SubSound(subs'[s], h)
             /\ Told(s, subs'[s], appended, t, hintedTo'[s], born'[s])
  <2>1. SubSound(subs[s], h) /\ Told(s, subs[s], appended, t, hintedTo[s], born[s])
        /\ hintedTo[s] \in Nat /\ hintedTo'[s] \in Nat /\ hintedTo[s] <= hintedTo'[s]
    BY DEF HintInv, h, t
  <2>2. SubSound(subs[s], h) /\ Told(s, subs[s], appended, t, hintedTo'[s], born[s])
    BY <1>1, <1>2, <2>1, SubStays
  <2> QED BY <2>2
<1>6. ASSUME NEW v \in Worker, att'[v] # Resting
      PROVE  /\ AttemptSound(att'[v], appended, h, t, hintedTo'[att'[v].sub])
             /\ Leased(v, att'[v], subs'[att'[v].sub])
  <2>1. CASE v = w
    <3>1. Leased(w, att[w], subs[att[w].sub])
      BY <2>1, <1>3, <1>6, AttemptFacts
    <3>2. Leased(w, a2, subs[a2.sub])
      BY <3>1, <2>1, <1>3, <1>6 DEF Leased
    <3> QED BY <2>1, <3>2, <1>3, <1>6 DEF h, t
  <2>2. CASE v # w
    <3> DEFINE a == att[v]
    <3> DEFINE n == hintedTo[a.sub]
    <3> DEFINE n2 == hintedTo'[a.sub]
    <3>1. att'[v] = a
      BY <2>2, <1>3
    <3>2. /\ AttemptSound(a, appended, h, t, n) /\ Leased(v, a, subs[a.sub])
          /\ a.sub \in SubId /\ n \in Nat
      BY <3>1, <1>6, AttemptFacts DEF h, t
    <3>3. n2 \in Nat /\ n <= n2
      BY <3>2
    <3> HIDE DEF a, n, n2
    <3>4. AttemptSound(a, appended, h, t, n2)
      BY <1>1, <1>2, <3>2, <3>3, AttemptStays
    <3> QED BY <3>1, <3>2, <3>4 DEF n2
  <2> QED BY <2>1, <2>2
<1> QED BY <1>3, <1>4, <1>5, <1>6, HintFrame DEF h, t

\* One row of the table changes, and no attempt loses what it knows by it.
LEMMA SubMoves ==
    ASSUME HintInv, UNCHANGED feedVars, NEW s \in SubId, NEW b, NEW m \in Nat,
           subs' = [subs EXCEPT ![s] = b], UNCHANGED <<att, hintedTo>>,
           born' = [born EXCEPT ![s] = m], SubSound(b, FeedHead.head),
           Told(s, b, appended, pruned.through, hintedTo[s], m),
           \A w \in Worker : att[w] # Resting /\ att[w].sub = s => Leased(w, att[w], b)
    PROVE  HintInv'
<1>1. /\ subs' = [r \in SubId |-> subs'[r]] /\ subs'[s] = b
      /\ \A r \in SubId \ {s} : subs'[r] = subs[r]
  BY DEF HintInv
<1>2. /\ born' \in [SubId -> Nat] /\ born'[s] = m
      /\ \A r \in SubId \ {s} : born'[r] = born[r]
  BY DEF HintInv
<1>3. ASSUME NEW r \in SubId
      PROVE  /\ SubSound(subs'[r], FeedHead.head)
             /\ Told(r, subs'[r], appended, pruned.through, hintedTo'[r], born'[r])
  <2>1. CASE r = s
    BY <2>1, <1>1, <1>2
  <2>2. CASE r # s
    <3>1. subs'[r] = subs[r] /\ born'[r] = born[r]
      BY <2>2, <1>1, <1>2
    <3> QED BY <3>1 DEF HintInv
  <2> QED BY <2>1, <2>2
<1>4. ASSUME NEW w \in Worker, att'[w] # Resting
      PROVE  /\ AttemptSound(att'[w], appended, FeedHead.head, pruned.through,
                             hintedTo'[att'[w].sub])
             /\ Leased(w, att'[w], subs'[att'[w].sub])
  <2>1. /\ AttemptSound(att[w], appended, FeedHead.head, pruned.through,
                        hintedTo[att[w].sub])
        /\ Leased(w, att[w], subs[att[w].sub]) /\ att[w].sub \in SubId
    BY <1>4, AttemptFacts
  <2>2. Leased(w, att[w], subs'[att[w].sub])
    BY <2>1, <1>1, <1>4
  <2> QED BY <2>1, <2>2
<1> QED BY <1>1, <1>2, <1>3, <1>4, HintFrame DEF HintInv

\* The endpoints.
LEMMA EndpointStep ==
    ASSUME HintInv, UNCHANGED feedVars, NEW s \in SubId,
           CreateHead(s) \/ CreateRow(s) \/ Delete(s)
    PROVE  HintInv'
<1> DEFINE h == FeedHead.head
<1>1. h \in Nat
  BY FeedNumbers DEF HintInv
<1>2. born[s] \in Nat /\ born = [born EXCEPT ![s] = born[s]]
  BY DEF HintInv
<1>3. CASE CreateHead(s)
  <2> DEFINE b == Creating(h)
  <2>1. subs' = [subs EXCEPT ![s] = b] /\ UNCHANGED <<att, hintedTo>>
        /\ born' = [born EXCEPT ![s] = born[s]]
    BY <1>3, <1>2 DEF CreateHead
  <2>2. b.status = "creating" /\ b.head = h /\ b = Creating(b.head)
    BY DEF Creating
  <2> HIDE DEF b
  <2>3. SubSound(b, FeedHead.head)
    BY <2>2, <1>1 DEF SubSound
  <2>4. Told(s, b, appended, pruned.through, hintedTo[s], born[s])
        /\ \A w \in Worker : Leased(w, att[w], b)
    BY <2>2 DEF Told, Leased
  <2> QED BY <1>2, <2>1, <2>3, <2>4, SubMoves
<1>4. ASSUME subs' = [subs EXCEPT ![s] = Gone], UNCHANGED <<att, hintedTo, born>>
      PROVE  HintInv'
  <2>1. born' = [born EXCEPT ![s] = born[s]]
    BY <1>4, <1>2
  <2>2. SubSound(Gone, FeedHead.head)
        /\ Told(s, Gone, appended, pruned.through, hintedTo[s], born[s])
        /\ \A w \in Worker : Leased(w, att[w], Gone)
    BY DEF SubSound, Told, Leased, Gone
  <2> QED BY <1>2, <1>4, <2>1, <2>2, SubMoves
<1>5. CASE CreateRow(s) /\ Cardinality(Held(OwnerOf[s])) >= MaxSubs
  BY <1>4, <1>5 DEF CreateRow
<1>6. CASE CreateRow(s) /\ ~ (Cardinality(Held(OwnerOf[s])) >= MaxSubs)
  <2> DEFINE m == subs[s].head
  <2> DEFINE b == NewSub(m)
  <2>1. subs[s].status = "creating" /\ SubSound(subs[s], h)
    BY <1>6 DEF CreateRow, HintInv
  <2>2. m \in Nat /\ m <= h
    BY <2>1 DEF SubSound, Unborn, Gone
  <2>3. subs' = [subs EXCEPT ![s] = b] /\ born' = [born EXCEPT ![s] = m]
        /\ UNCHANGED <<att, hintedTo>>
    BY <1>6 DEF CreateRow
  <2> HIDE DEF m
  <2>4. b.status = "active" /\ b.last = m /\ b.lease.by = "nobody"
        /\ b = [status |-> b.status, last |-> b.last, due |-> b.due,
                lease |-> b.lease, failing |-> b.failing, attempts |-> b.attempts]
    BY DEF NewSub, NoLease
  <2> HIDE DEF b
  <2>5. SubSound(b, FeedHead.head)
    BY <2>2, <2>4 DEF SubSound
  <2>6. Told(s, b, appended, pruned.through, hintedTo[s], m)
    <3>1. \A x \in appended : x.seq \in Nat
      BY FeedNumbers DEF HintInv
    <3> QED BY <2>2, <2>4, <3>1 DEF Told
  <2>7. \A w \in Worker : Leased(w, att[w], b)
    BY <2>4, HintsAssumption DEF Leased
  <2> QED BY <2>2, <2>3, <2>5, <2>6, <2>7, SubMoves
<1>7. CASE Delete(s)
  BY <1>4, <1>7 DEF Delete
<1> QED BY <1>3, <1>5, <1>6, <1>7

\* A worker starts an attempt.
LEMMA ClaimStep ==
    ASSUME HintInv, UNCHANGED feedVars, NEW w \in Worker, Claim(w),
           UNCHANGED <<faults, hintedTo, born>>
    PROVE  HintInv'
<1>1. PICK s \in SubId : Claimable(s, FeedHead.head)
         /\ subs' = [subs EXCEPT ![s] = [@ EXCEPT !.lease = [by |-> w, left |-> Lease]]]
         /\ att' = [att EXCEPT ![w] =
                [at |-> "begin", sub |-> s, age |-> 0,
                 rec |-> [last |-> subs[s].last, failing |-> subs[s].failing,
                          attempts |-> subs[s].attempts],
                 head |-> 0, ev |-> NoEvaluation, progress |-> NoProgress]]
  BY DEF Claim
<1> DEFINE c == subs[s]
<1> DEFINE b == [c EXCEPT !.lease = [by |-> w, left |-> Lease]]
<1> DEFINE rec == [last |-> c.last, failing |-> c.failing, attempts |-> c.attempts]
<1> DEFINE a == [at |-> "begin", sub |-> s, age |-> 0, rec |-> rec, head |-> 0,
                 ev |-> NoEvaluation, progress |-> NoProgress]
<1>2. c.status = "active" /\ SubSound(c, FeedHead.head)
      /\ Told(s, c, appended, pruned.through, hintedTo[s], born[s])
  BY <1>1 DEF Claimable, HintInv
<1>3. /\ c = [status |-> c.status, last |-> c.last, due |-> c.due,
              lease |-> c.lease, failing |-> c.failing, attempts |-> c.attempts]
      /\ c.last \in Nat /\ c.last <= FeedHead.head
  BY <1>2 DEF SubSound, Unborn, Gone, Creating
<1>4. /\ b = [status |-> b.status, last |-> b.last, due |-> b.due,
              lease |-> b.lease, failing |-> b.failing, attempts |-> b.attempts]
      /\ b.status = "active" /\ b.last = c.last /\ b.lease.by = w
  BY <1>2, <1>3
<1>5. /\ subs' = [r \in SubId |-> subs'[r]] /\ subs'[s] = b
      /\ \A r \in SubId \ {s} : subs'[r] = subs[r]
  BY <1>1 DEF HintInv
<1>6. /\ att' = [v \in Worker |-> att'[v]] /\ att'[w] = a
      /\ \A v \in Worker \ {w} : att'[v] = att[v]
  BY <1>1 DEF HintInv
<1>7. /\ a = [at |-> a.at, sub |-> a.sub, age |-> a.age, rec |-> a.rec,
              head |-> a.head, ev |-> a.ev, progress |-> a.progress]
      /\ a.rec = [last |-> a.rec.last, failing |-> a.rec.failing,
                  attempts |-> a.rec.attempts]
      /\ a.rec.last = c.last /\ a.at = "begin" /\ a.sub = s
  OBVIOUS
<1> HIDE DEF a, b, c
<1>8. AttemptSound(a, appended, FeedHead.head, pruned.through, hintedTo[a.sub])
  BY <1>3, <1>7 DEF AttemptSound
<1>9. ASSUME NEW r \in SubId
      PROVE  /\ SubSound(subs'[r], FeedHead.head)
             /\ Told(r, subs'[r], appended, pruned.through, hintedTo'[r], born'[r])
  <2>1. CASE r = s
    <3>1. SubSound(b, FeedHead.head)
      BY <1>3, <1>4 DEF SubSound
    <3>2. Told(s, b, appended, pruned.through, hintedTo[s], born[s])
      BY <1>2, <1>4 DEF Told
    <3> QED BY <2>1, <3>1, <3>2, <1>5
  <2>2. CASE r # s
    <3>1. subs'[r] = subs[r]
      BY <2>2, <1>5
    <3> QED BY <3>1 DEF HintInv
  <2> QED BY <2>1, <2>2
<1>10. ASSUME NEW v \in Worker, att'[v] # Resting
       PROVE  /\ AttemptSound(att'[v], appended, FeedHead.head, pruned.through,
                              hintedTo'[att'[v].sub])
              /\ Leased(v, att'[v], subs'[att'[v].sub])
  <2>1. CASE v = w
    <3>1. Leased(w, a, b)
      BY <1>4, <1>7 DEF Leased
    <3> QED BY <2>1, <3>1, <1>5, <1>6, <1>7, <1>8
  <2>2. CASE v # w
    <3>1. att'[v] = att[v]
      BY <2>2, <1>6
    <3>2. /\ AttemptSound(att[v], appended, FeedHead.head, pruned.through,
                          hintedTo[att[v].sub])
          /\ Leased(v, att[v], subs[att[v].sub]) /\ att[v].sub \in SubId
      BY <3>1, <1>10, AttemptFacts
    <3>3. Leased(v, att[v], b)
      BY <2>2, <1>4 DEF Leased
    <3>4. Leased(v, att[v], subs'[att[v].sub])
      BY <3>2, <3>3, <1>5
    <3> QED BY <3>1, <3>2, <3>4
  <2> QED BY <2>1, <2>2
<1> QED BY <1>5, <1>6, <1>9, <1>10, HintFrame DEF HintInv

\* The outcome of an attempt.
IsProgress(p) ==
    /\ p = [last |-> p.last, status |-> p.status, due |-> p.due,
            failing |-> p.failing, attempts |-> p.attempts]
    /\ p.status \in {"active", "disabled"}

\* The three outcomes.
LEMMA ProgressFacts ==
    ASSUME NEW rec, NEW seq, NEW due
    PROVE  /\ IsProgress(ProgressHealthy(seq, due)) /\ ProgressHealthy(seq, due).last = seq
           /\ IsProgress(ProgressDisabled(rec)) /\ ProgressDisabled(rec).last = rec.last
           /\ IsProgress(RetryOrDisable(rec)) /\ RetryOrDisable(rec).last = rec.last
<1>1. IsProgress(ProgressHealthy(seq, due)) /\ ProgressHealthy(seq, due).last = seq
  BY DEF ProgressHealthy, IsProgress
<1>2. IsProgress(ProgressDisabled(rec)) /\ ProgressDisabled(rec).last = rec.last
  BY DEF ProgressDisabled, IsProgress
<1>3. CASE rec.failing # Healthy /\ rec.failing >= DisableAfter
  BY <1>1, <1>2, <1>3 DEF RetryOrDisable
<1>4. CASE ~ (rec.failing # Healthy /\ rec.failing >= DisableAfter)
  <2> DEFINE p == [last |-> rec.last, status |-> "active",
                   due |-> RetryDelay(rec.attempts + 1),
                   failing |-> IF rec.failing = Healthy THEN 0 ELSE rec.failing,
                   attempts |-> Min({rec.attempts + 1, RetryCap})]
  <2>1. RetryOrDisable(rec) = p
    BY <1>4 DEF RetryOrDisable
  <2>2. IsProgress(p) /\ p.last = rec.last
    BY DEF IsProgress
  <2> HIDE DEF p
  <2> QED BY <1>1, <1>2, <2>1, <2>2
<1> QED BY <1>3, <1>4

\* The attempt of w goes on with its receiver told no more.
LEMMA StepKeeps ==
    ASSUME HintInv, UNCHANGED feedVars, NEW w \in Worker, att[w] # Resting,
           UNCHANGED <<hintedTo, born>>, NEW at, NEW head, NEW ev,
           Step(w, at, head, ev),
           at \in {"position", "oldest", "scan", "deliver"},
           head \in Nat /\ att[w].rec.last <= head /\ head <= FeedHead.head,
           at = "oldest" => att[w].rec.last <= pruned.through,
           at = "scan" =>
              /\ ev.pos \in Nat /\ att[w].rec.last <= ev.pos /\ ev.pos <= FeedHead.head
              /\ ev.limit \in Nat \ {0}
              /\ ev.out \subseteq Wanted(att[w], appended)
              /\ \A x \in Wanted(att[w], appended) :
                    x.seq <= ev.pos => x \in ev.out \/ x.seq <= pruned.through,
           at = "deliver" => Wanted(att[w], appended) # {}
    PROVE  HintInv'
<1> DEFINE a == att[w]
<1> DEFINE a2 == [a EXCEPT !.at = at, !.head = head, !.ev = ev]
<1>1. att' = [att EXCEPT ![w] = a2] /\ subs' = subs
  BY DEF Step, HintInv
<1>2. AttemptSound(a, appended, FeedHead.head, pruned.through, hintedTo[a.sub])
  BY AttemptFacts
<1>3. /\ a2 = [at |-> a2.at, sub |-> a2.sub, age |-> a2.age, rec |-> a2.rec,
               head |-> a2.head, ev |-> a2.ev, progress |-> a2.progress]
      /\ a2.at = at /\ a2.head = head /\ a2.ev = ev
      /\ a2.sub = a.sub /\ a2.rec = a.rec
      /\ Wanted(a2, appended) = Wanted(a, appended)
  <2> DEFINE n == hintedTo[a.sub]
  <2> DEFINE h == FeedHead.head
  <2> DEFINE t == pruned.through
  <2>1. a2 = [a EXCEPT !.at = at, !.head = head, !.ev = ev]
        /\ AttemptSound(a, appended, h, t, n)
    BY <1>2
  <2> HIDE DEF a, a2, h, t, n
  <2>2. /\ a2 = [at |-> a2.at, sub |-> a2.sub, age |-> a2.age, rec |-> a2.rec,
                 head |-> a2.head, ev |-> a2.ev, progress |-> a2.progress]
        /\ a2.at = at /\ a2.head = head /\ a2.ev = ev
        /\ a2.sub = a.sub /\ a2.rec = a.rec
    BY <2>1 DEF AttemptSound
  <2> QED BY <2>2 DEF Wanted
<1> HIDE DEF a2
<1>4. at = "scan" => EvaluationSound(a2, appended, FeedHead.head, pruned.through)
  BY <1>3 DEF EvaluationSound
<1>5. at = "deliver" => Wanted(a2, appended) # {}
  BY <1>3
<1>6. AttemptSound(a2, appended, FeedHead.head, pruned.through, hintedTo[a2.sub])
  BY <1>2, <1>3, <1>4, <1>5 DEF AttemptSound
<1>7. hintedTo' \in [SubId -> Nat] /\ \A s \in SubId : hintedTo[s] <= hintedTo'[s]
  BY DEF HintInv
<1> QED BY <1>1, <1>3, <1>6, <1>7, AttemptMoves

\* The attempt of w concludes with a position it has covered.
LEMMA ConcludeKeeps ==
    ASSUME HintInv, UNCHANGED feedVars, NEW w \in Worker, att[w] # Resting,
           born' = born, hintedTo' \in [SubId -> Nat],
           \A s \in SubId : hintedTo[s] <= hintedTo'[s],
           NEW p, Conclude(w, p), IsProgress(p),
           p.last \in Nat /\ att[w].rec.last <= p.last /\ p.last <= FeedHead.head,
           \A x \in Wanted(att[w], appended) :
              x.seq <= p.last => x.seq <= hintedTo'[att[w].sub] \/ x.seq <= pruned.through
    PROVE  HintInv'
<1> DEFINE a == att[w]
<1> DEFINE a2 == [a EXCEPT !.at = "finish", !.ev = NoEvaluation, !.progress = p]
<1>1. att' = [att EXCEPT ![w] = a2] /\ subs' = subs
  BY DEF Conclude, HintInv
<1>2. AttemptSound(a, appended, FeedHead.head, pruned.through, hintedTo[a.sub])
  BY AttemptFacts
<1>3. /\ a2 = [at |-> a2.at, sub |-> a2.sub, age |-> a2.age, rec |-> a2.rec,
               head |-> a2.head, ev |-> a2.ev, progress |-> a2.progress]
      /\ a2.at = "finish" /\ a2.progress = p
      /\ a2.sub = a.sub /\ a2.rec = a.rec
      /\ Wanted(a2, appended) = Wanted(a, appended)
  <2> DEFINE n == hintedTo[a.sub]
  <2> DEFINE h == FeedHead.head
  <2> DEFINE t == pruned.through
  <2>1. a2 = [a EXCEPT !.at = "finish", !.ev = NoEvaluation, !.progress = p]
        /\ AttemptSound(a, appended, h, t, n)
    BY <1>2
  <2> HIDE DEF a, a2, h, t, n
  <2>2. /\ a2 = [at |-> a2.at, sub |-> a2.sub, age |-> a2.age, rec |-> a2.rec,
                 head |-> a2.head, ev |-> a2.ev, progress |-> a2.progress]
        /\ a2.at = "finish" /\ a2.progress = p
        /\ a2.sub = a.sub /\ a2.rec = a.rec
    BY <2>1 DEF AttemptSound
  <2> QED BY <2>2 DEF Wanted
<1> HIDE DEF a2
<1>4. ProgressSound(a2, appended, FeedHead.head, pruned.through, hintedTo'[a2.sub])
  BY <1>3 DEF ProgressSound, IsProgress
<1>5. AttemptSound(a2, appended, FeedHead.head, pruned.through, hintedTo'[a2.sub])
  BY <1>2, <1>3, <1>4 DEF AttemptSound
<1> QED BY <1>1, <1>3, <1>5, AttemptMoves

\* An outcome that leaves the position where it was.
LEMMA StayKeeps ==
    ASSUME HintInv, UNCHANGED feedVars, NEW w \in Worker, att[w] # Resting,
           born' = born, hintedTo' \in [SubId -> Nat],
           \A s \in SubId : hintedTo[s] <= hintedTo'[s],
           NEW p, Conclude(w, p), IsProgress(p), p.last = att[w].rec.last
    PROVE  HintInv'
<1>1. att[w].rec.last \in Nat /\ att[w].rec.last <= FeedHead.head
  BY AttemptFacts DEF AttemptSound
<1>2. \A x \in Wanted(att[w], appended) : x.seq \in Nat /\ ~ (x.seq <= att[w].rec.last)
  BY <1>1, FeedNumbers DEF HintInv, Wanted
<1> QED BY <1>1, <1>2, ConcludeKeeps

\* hint_one up to the evaluation.
LEMMA BeforeScanStep ==
    ASSUME HintInv, UNCHANGED feedVars, NEW w \in Worker,
           UNCHANGED <<faults, hintedTo, born>>,
           ReadHead(w) \/ Evaluate(w) \/ EvaluateOldest(w)
    PROVE  HintInv'
<1> DEFINE a == att[w]
<1>1. att[w] # Resting
  <2>1. att[w].at \in {"begin", "position", "oldest"}
    BY DEF ReadHead, Evaluate, EvaluateOldest
  <2> QED BY <2>1 DEF Resting
<1>2. AttemptSound(a, appended, FeedHead.head, pruned.through, hintedTo[a.sub])
  BY <1>1, AttemptFacts
<1>3. /\ FeedHead.head \in Nat /\ pruned.through \in Nat
      /\ pruned.through <= FeedHead.head
      /\ \A x \in appended : x.seq \in Nat /\ x.seq <= FeedHead.head
  BY FeedNumbers DEF HintInv
<1>4. a.rec.last \in Nat /\ a.rec.last <= FeedHead.head
  BY <1>2 DEF AttemptSound
<1>5. hintedTo' \in [SubId -> Nat] /\ born' = born
      /\ \A s \in SubId : hintedTo[s] <= hintedTo'[s]
  BY DEF HintInv
<1>6. CASE ReadHead(w) /\ a.sub \in Unservable
  <2>1. Conclude(w, ProgressDisabled(a.rec))
    BY <1>6 DEF ReadHead
  <2>2. IsProgress(ProgressDisabled(a.rec)) /\ ProgressDisabled(a.rec).last = a.rec.last
    BY ProgressFacts
  <2> QED BY <1>1, <1>5, <2>1, <2>2, StayKeeps
<1>7. CASE ReadHead(w) /\ a.sub \notin Unservable
  <2>1. Step(w, "position", FeedHead.head, NoEvaluation)
    BY <1>7 DEF ReadHead
  <2>2. FeedHead.head <= FeedHead.head
    BY <1>3
  <2> QED BY <1>1, <1>3, <1>4, <1>5, <2>1, <2>2, StepKeeps
<1>8. CASE Evaluate(w)
  <2>1. a.at = "position"
    BY <1>8 DEF Evaluate
  <2>2. a.head \in Nat /\ a.rec.last <= a.head /\ a.head <= FeedHead.head
    BY <2>1, <1>2 DEF AttemptSound
  <2>3. CASE Placed(a.rec.last)
    <3> DEFINE ev == NewEvaluation(a.rec.last, TRUE, 1)
    <3>1. Step(w, "scan", a.head, ev)
      BY <1>8, <2>3 DEF Evaluate
    <3>2. ev.pos = a.rec.last /\ ev.limit = 1 /\ ev.out = {}
      BY DEF NewEvaluation
    <3> HIDE DEF ev
    <3>3. \A x \in Wanted(a, appended) : x.seq \in Nat /\ ~ (x.seq <= a.rec.last)
      BY <1>3, <1>4 DEF Wanted
    <3>4. a.rec.last <= a.rec.last /\ 1 \in Nat \ {0}
      BY <1>4
    <3> QED BY <1>1, <1>4, <2>2, <3>1, <3>2, <3>3, <3>4, StepKeeps
  <2>4. CASE ~ Placed(a.rec.last)
    <3>1. Step(w, "oldest", a.head, NoEvaluation)
      BY <1>8, <2>4 DEF Evaluate
    <3>2. a.rec.last <= pruned.through
      BY <2>4, <1>3, <1>4 DEF Placed
    <3> QED BY <1>1, <2>2, <3>1, <3>2, StepKeeps
  <2> QED BY <2>3, <2>4
<1>9. CASE EvaluateOldest(w)
  <2> DEFINE ev == NewEvaluation(pruned.through, FALSE, 1)
  <2>1. a.at = "oldest" /\ Step(w, "scan", a.head, ev)
    BY <1>9 DEF EvaluateOldest
  <2>2. a.head \in Nat /\ a.rec.last <= a.head /\ a.head <= FeedHead.head
        /\ a.rec.last <= pruned.through
    BY <2>1, <1>2 DEF AttemptSound
  <2>3. ev.pos = pruned.through /\ ev.limit = 1 /\ ev.out = {}
    BY DEF NewEvaluation
  <2> HIDE DEF ev
  <2>4. 1 \in Nat \ {0}
    OBVIOUS
  <2> QED BY <1>1, <1>3, <2>1, <2>2, <2>3, <2>4, StepKeeps
<1> QED BY <1>6, <1>7, <1>8, <1>9

\* A turn of the hint's scan.
LEMMA HintScanStep ==
    ASSUME HintInv, UNCHANGED feedVars, NEW w \in Worker,
           UNCHANGED <<faults, hintedTo, born>>, HintScan(w)
    PROVE  HintInv'
<1> DEFINE a == att[w]
<1> DEFINE o == Owner(w)
<1>1. a.at = "scan" /\ att[w] # Resting
  BY DEF HintScan, Resting
<1>2. AttemptSound(a, appended, FeedHead.head, pruned.through, hintedTo[a.sub])
  BY <1>1, AttemptFacts
<1>3. /\ FeedHead.head \in Nat /\ pruned.through \in Nat
      /\ \A x \in appended : x.seq \in Nat /\ x.seq <= FeedHead.head
  BY FeedNumbers DEF HintInv
<1>4. /\ a.rec.last \in Nat
      /\ a.head \in Nat /\ a.rec.last <= a.head /\ a.head <= FeedHead.head
      /\ EvaluationSound(a, appended, FeedHead.head, pruned.through)
  BY <1>1, <1>2 DEF AttemptSound
<1>5. hintedTo' \in [SubId -> Nat] /\ born' = born
      /\ \A s \in SubId : hintedTo[s] <= hintedTo'[s]
  BY DEF HintInv
<1>6. CASE Overtaken(a.ev)
  <2>1. Step(w, "oldest", a.head, NoEvaluation)
    BY <1>6 DEF HintScan
  <2>2. a.rec.last <= pruned.through
    BY <1>3, <1>4, <1>6 DEF Overtaken, EvaluationSound
  <2> QED BY <1>1, <1>4, <2>1, <2>2, StepKeeps
<1>7. CASE ~ Overtaken(a.ev)
  <2> DEFINE page == Page(o, a.ev)
  <2> DEFINE stop == StopAt(o, a.ev, page, {})
  <2> DEFINE ev == Scanned(o, a.ev, page, stop)
  <2>1. IF ~ ScanEnds(o, ev, page, stop)
        THEN Step(w, "scan", a.head, ev)
        ELSE IF ev.out = {}
             THEN Conclude(w, NothingVisible(a.rec, ev.pos))
             ELSE Step(w, "deliver", a.head, NoEvaluation)
    BY <1>7 DEF HintScan
  <2>2. IsEvaluation(a.ev) /\ FeedSound(feed, pruned, appended)
    BY <1>4 DEF EvaluationSound, IsEvaluation, HintInv
  <2>3. stop \in Nat
    BY <2>2, StopIsNat
  <2> HIDE DEF stop
  <2>4. /\ IsEvaluation(ev) /\ a.ev.pos <= ev.pos
        /\ ev.limit = a.ev.limit
        /\ a.ev.out \subseteq ev.out
        /\ \A x \in ev.out \ a.ev.out : x \in feed /\ Wants(o, x) /\ x.seq > a.ev.pos
        /\ \A x \in feed : /\ Wants(o, x) /\ x.seq > a.ev.pos /\ x.seq <= ev.pos
                           => x \in ev.out
    <3> HIDE DEF page, ev, a, o
    <3> QED BY <2>2, <2>3, ScannedFacts DEF page, ev
  <2> HIDE DEF page, ev
  <2>5. /\ ev.pos \in Nat /\ a.rec.last <= ev.pos /\ ev.pos <= FeedHead.head
        /\ a.ev.pos \in Nat /\ a.rec.last <= a.ev.pos
        /\ ev.limit \in Nat \ {0}
    BY <1>3, <1>4, <2>4 DEF EvaluationSound, IsEvaluation
  <2>6. feed = {x \in appended : x.seq > pruned.through}
    BY DEF HintInv, FeedSound
  <2>7. o = OwnerOf[a.sub]
    BY DEF Owner
  <2> HIDE DEF o
  <2>8. ev.out \subseteq Wanted(a, appended)
    <3> SUFFICES ASSUME NEW x \in ev.out, x \notin a.ev.out PROVE x \in Wanted(a, appended)
      BY <1>4 DEF EvaluationSound
    <3>1. x \in appended /\ Wants(o, x) /\ x.seq > a.ev.pos /\ x.seq \in Nat
      BY <2>4, <2>6, <1>3
    <3>2. x.seq > a.rec.last
      BY <3>1, <2>5, <1>4
    <3> QED BY <3>1, <3>2, <2>7 DEF Wanted
  <2>9. \A x \in Wanted(a, appended) :
           x.seq <= ev.pos => x \in ev.out \/ x.seq <= pruned.through
    <3> SUFFICES ASSUME NEW x \in Wanted(a, appended), x.seq <= ev.pos,
                        ~ (x.seq <= pruned.through)
                 PROVE  x \in ev.out
      OBVIOUS
    <3>1. x \in appended /\ Wants(o, x) /\ x.seq \in Nat
      BY <2>7, <1>3 DEF Wanted
    <3>2. x \in feed
      BY <3>1, <2>6, <1>3
    <3>3. CASE x.seq <= a.ev.pos
      BY <3>3, <1>4, <2>4 DEF EvaluationSound
    <3>4. CASE ~ (x.seq <= a.ev.pos)
      <4>1. x.seq > a.ev.pos
        BY <3>4, <3>1, <2>5
      <4> QED BY <3>1, <3>2, <4>1, <2>4
    <3> QED BY <3>3, <3>4
  <2>10. CASE Step(w, "scan", a.head, ev)
    BY <1>1, <1>4, <1>5, <2>5, <2>8, <2>9, <2>10, StepKeeps
  <2>11. CASE ev.out = {} /\ Conclude(w, NothingVisible(a.rec, ev.pos))
    <3> DEFINE p == ProgressHealthy(ev.pos, 0)
    <3>1. Conclude(w, p)
      BY <2>11 DEF NothingVisible
    <3>2. IsProgress(p) /\ p.last = ev.pos
      BY ProgressFacts
    <3> HIDE DEF p
    <3>3. \A x \in Wanted(a, appended) :
             x.seq <= p.last => x.seq <= hintedTo'[a.sub] \/ x.seq <= pruned.through
      BY <2>9, <2>11, <3>2
    <3> QED BY <1>1, <1>5, <2>5, <3>1, <3>2, <3>3, ConcludeKeeps
  <2>12. CASE ev.out # {} /\ Step(w, "deliver", a.head, NoEvaluation)
    <3>1. Wanted(a, appended) # {}
      BY <2>8, <2>12
    <3> QED BY <1>1, <1>4, <1>5, <2>12, <3>1, StepKeeps
  <2> QED BY <2>1, <2>10, <2>11, <2>12
<1> QED BY <1>6, <1>7

\* The end of a scan: the secret, and the receiver.
LEMMA DeliverStep ==
    ASSUME HintInv, UNCHANGED feedVars, NEW w \in Worker,
           (NoSecret(w) /\ UNCHANGED <<faults, hintedTo, born>>) \/ Deliver(w)
    PROVE  /\ HintInv'
           /\ \A s \in SubId : hintedTo'[s] # hintedTo[s] =>
                 att[w].at = "deliver" /\ att[w].sub = s /\ Wanted(att[w], appended) # {}
<1> DEFINE a == att[w]
<1>1. a.at = "deliver" /\ att[w] # Resting
  BY DEF NoSecret, Deliver, Resting
<1>2. AttemptSound(a, appended, FeedHead.head, pruned.through, hintedTo[a.sub])
      /\ a.sub \in SubId /\ hintedTo[a.sub] \in Nat
  BY <1>1, AttemptFacts
<1>3. /\ a.rec.last \in Nat /\ Wanted(a, appended) # {}
      /\ a.head \in Nat /\ a.rec.last <= a.head /\ a.head <= FeedHead.head
  BY <1>1, <1>2 DEF AttemptSound
<1>4. FeedHead.head \in Nat
  BY FeedNumbers DEF HintInv
<1>5. ASSUME NEW p, Conclude(w, p), born' = born, hintedTo' \in [SubId -> Nat],
             \A s \in SubId : hintedTo[s] <= hintedTo'[s],
             p \in {RetryOrDisable(a.rec), ProgressDisabled(a.rec)}
      PROVE  HintInv'
  <2>1. IsProgress(p) /\ p.last = a.rec.last
    BY <1>5, ProgressFacts
  <2> QED BY <1>1, <1>5, <2>1, StayKeeps
<1>6. CASE NoSecret(w) /\ UNCHANGED <<faults, hintedTo, born>>
  <2>1. PICK e \in SealError :
           Conclude(w, IF e = "unknown_key" THEN RetryOrDisable(a.rec)
                       ELSE ProgressDisabled(a.rec))
    BY <1>6 DEF NoSecret
  <2>2. hintedTo' \in [SubId -> Nat] /\ born' = born
        /\ \A s \in SubId : hintedTo[s] <= hintedTo'[s]
    BY <1>6 DEF HintInv
  <2>3. HintInv'
    BY <1>5, <2>1, <2>2
  <2> QED BY <1>6, <2>3
<1>7. CASE Deliver(w)
  <2> DEFINE n == hintedTo[a.sub]
  <2> DEFINE n2 == Max({n, a.head})
  <2>1. PICK received \in BOOLEAN, acked \in BOOLEAN :
           /\ acked => received
           /\ hintedTo' = IF received THEN [hintedTo EXCEPT ![a.sub] = n2] ELSE hintedTo
           /\ Conclude(w, IF acked THEN Delivered(w) ELSE RetryOrDisable(a.rec))
    BY <1>7 DEF Deliver
  <2>2. born' = born
    BY <1>7 DEF Deliver
  <2>3. n2 \in Nat /\ n <= n2 /\ a.head <= n2
    <3>1. n2 \in {n, a.head} /\ n2 >= n /\ n2 >= a.head
      BY <1>2, <1>3, MaxOfTwo
    <3> HIDE DEF n2
    <3> QED BY <3>1, <1>2, <1>3
  <2> HIDE DEF n2
  <2>4. hintedTo \in [SubId -> Nat]
    BY DEF HintInv
  <2>5. /\ hintedTo' \in [SubId -> Nat]
        /\ \A s \in SubId : hintedTo[s] <= hintedTo'[s]
        /\ received => hintedTo'[a.sub] = n2
        /\ \A s \in SubId : hintedTo'[s] # hintedTo[s] => s = a.sub
    BY <2>1, <2>3, <2>4, <1>2
  <2>6. HintInv'
    <3>1. CASE ~ acked
      <4>1. Conclude(w, RetryOrDisable(a.rec))
        BY <2>1, <3>1
      <4> QED BY <4>1, <1>5, <2>2, <2>5
    <3>2. CASE acked
      <4> DEFINE p == ProgressHealthy(a.head, MinInterval)
      <4>1. Conclude(w, p)
        BY <2>1, <3>2 DEF Delivered
      <4>2. IsProgress(p) /\ p.last = a.head
        BY ProgressFacts
      <4> HIDE DEF p
      <4>3. \A x \in Wanted(a, appended) : x.seq \in Nat
        BY FeedNumbers DEF HintInv, Wanted
      <4>4. \A x \in Wanted(a, appended) :
               x.seq <= p.last => x.seq <= hintedTo'[a.sub] \/ x.seq <= pruned.through
        BY <2>1, <2>3, <2>5, <3>2, <4>2, <4>3, <1>3
      <4> QED BY <1>1, <1>3, <2>2, <2>5, <4>1, <4>2, <4>4, ConcludeKeeps
    <3> QED BY <3>1, <3>2
  <2> QED BY <2>5, <2>6, <1>1, <1>3
<1> QED BY <1>6, <1>7

\* A worker that crashes or gives up.
LEMMA FailStep ==
    ASSUME HintInv, UNCHANGED feedVars, NEW w \in Worker, Fail(w)
    PROVE  HintInv'
<1>1. att' = [att EXCEPT ![w] = Resting] /\ UNCHANGED <<subs, born>> /\ hintedTo' = hintedTo
  BY DEF Fail
<1>2. hintedTo' \in [SubId -> Nat] /\ \A s \in SubId : hintedTo[s] <= hintedTo'[s]
  BY <1>1 DEF HintInv
<1> QED BY <1>1, <1>2, AttemptMoves

\* What Finish writes.
LEMMA FinishStep ==
    ASSUME HintInv, UNCHANGED feedVars, NEW w \in Worker,
           UNCHANGED <<faults, hintedTo, born>>, Finish(w)
    PROVE  /\ HintInv'
           /\ \A s \in SubId :
                 Stored(s) /\ subs'[s].status \in {"active", "disabled"} =>
                     subs'[s].last >= subs[s].last
<1> DEFINE a == att[w]
<1> DEFINE s == a.sub
<1> DEFINE p == a.progress
<1> DEFINE b == [status |-> p.status, last |-> p.last, due |-> p.due,
                 lease |-> NoLease, failing |-> p.failing, attempts |-> p.attempts]
<1>1. a.at = "finish" /\ a # Resting
  BY DEF Finish, Resting
<1>2. /\ AttemptSound(a, appended, FeedHead.head, pruned.through, hintedTo[s])
      /\ Leased(w, a, subs[s]) /\ s \in SubId /\ hintedTo[s] \in Nat
  BY <1>1, AttemptFacts
<1>3. /\ a.rec.last \in Nat
      /\ ProgressSound(a, appended, FeedHead.head, pruned.through, hintedTo[s])
  BY <1>1, <1>2 DEF AttemptSound
<1>4. /\ p.status \in {"active", "disabled"}
      /\ p.last \in Nat /\ a.rec.last <= p.last /\ p.last <= FeedHead.head
      /\ \A x \in Wanted(a, appended) :
            x.seq <= p.last => x.seq <= hintedTo[s] \/ x.seq <= pruned.through
  BY <1>3 DEF ProgressSound
<1>5. /\ att' = [v \in Worker |-> att'[v]] /\ att'[w] = Resting
      /\ \A v \in Worker \ {w} : att'[v] = att[v]
  BY DEF HintInv, Finish
<1>6. \A x \in appended : x.seq \in Nat
  BY FeedNumbers DEF HintInv
<1>7. CASE ~ HoldsLease(w)
  <2>1. subs' = subs /\ att' = [att EXCEPT ![w] = Resting]
    BY <1>7 DEF Finish
  <2>2. hintedTo' \in [SubId -> Nat] /\ \A r \in SubId : hintedTo[r] <= hintedTo'[r]
    BY DEF HintInv
  <2>3. HintInv'
    BY <2>1, <2>2, AttemptMoves
  <2>4. ASSUME NEW r \in SubId, Stored(r) PROVE subs'[r].last >= subs[r].last
    <3>1. subs[r].last \in Nat
      BY <2>4 DEF HintInv, SubSound, Stored, Unborn, Gone, Creating
    <3> QED BY <3>1, <2>1
  <2> QED BY <2>3, <2>4
<1>8. CASE HoldsLease(w)
  <2>1. subs[s].status \in {"active", "disabled"} /\ subs[s].lease.by = w
    BY <1>8 DEF HoldsLease, Stored
  <2>2. subs[s].last = a.rec.last
    BY <2>1, <1>2 DEF Leased
  <2>3. subs' = [subs EXCEPT ![s] = b]
    BY <1>8 DEF Finish
  <2>4. /\ subs' = [r \in SubId |-> subs'[r]] /\ subs'[s] = b
        /\ \A r \in SubId \ {s} : subs'[r] = subs[r]
    BY <2>3, <1>2 DEF HintInv
  <2>5. /\ b.status = p.status /\ b.last = p.last /\ b.lease.by = "nobody"
        /\ b = [status |-> b.status, last |-> b.last, due |-> b.due,
                lease |-> b.lease, failing |-> b.failing, attempts |-> b.attempts]
    BY DEF NoLease
  <2> HIDE DEF b
  <2>6. SubSound(b, FeedHead.head)
    BY <2>5, <1>4 DEF SubSound
  <2>7. Told(s, b, appended, pruned.through, hintedTo[s], born[s])
    <3> SUFFICES ASSUME NEW x \in appended, Wants(OwnerOf[s], x),
                        x.seq > born[s], x.seq <= p.last
                 PROVE  x.seq <= hintedTo[s] \/ x.seq <= pruned.through
      BY <2>5 DEF Told
    <3>1. CASE x.seq <= a.rec.last
      <4>1. Told(s, subs[s], appended, pruned.through, hintedTo[s], born[s])
        BY <1>2 DEF HintInv
      <4> QED BY <3>1, <4>1, <2>1, <2>2 DEF Told
    <3>2. CASE ~ (x.seq <= a.rec.last)
      <4>1. x.seq > a.rec.last
        BY <3>2, <1>3, <1>6
      <4>2. x \in Wanted(a, appended)
        BY <4>1 DEF Wanted
      <4> QED BY <4>2, <1>4
    <3> QED BY <3>1, <3>2
  <2>8. ASSUME NEW r \in SubId
        PROVE  /\ SubSound(subs'[r], FeedHead.head)
               /\ Told(r, subs'[r], appended, pruned.through, hintedTo'[r], born'[r])
    <3>1. CASE r = s
      BY <3>1, <2>4, <2>6, <2>7
    <3>2. CASE r # s
      <4>1. subs'[r] = subs[r]
        BY <3>2, <2>4
      <4> QED BY <4>1 DEF HintInv
    <3> QED BY <3>1, <3>2
  <2>9. ASSUME NEW v \in Worker, att'[v] # Resting
        PROVE  /\ AttemptSound(att'[v], appended, FeedHead.head, pruned.through,
                               hintedTo'[att'[v].sub])
               /\ Leased(v, att'[v], subs'[att'[v].sub])
    <3>1. v # w /\ att'[v] = att[v]
      BY <2>9, <1>5
    <3>2. /\ AttemptSound(att[v], appended, FeedHead.head, pruned.through,
                          hintedTo[att[v].sub])
          /\ Leased(v, att[v], subs[att[v].sub]) /\ att[v].sub \in SubId
      BY <3>1, <2>9, AttemptFacts
    <3>3. Leased(v, att[v], b)
      BY <2>5, HintsAssumption DEF Leased
    <3>4. Leased(v, att[v], subs'[att[v].sub])
      BY <3>2, <3>3, <2>4
    <3> QED BY <3>1, <3>2, <3>4
  <2>10. HintInv'
    BY <1>5, <2>4, <2>8, <2>9, HintFrame DEF HintInv
  <2>11. ASSUME NEW r \in SubId, Stored(r) PROVE subs'[r].last >= subs[r].last
    <3>1. subs[r].last \in Nat
      BY <2>11 DEF HintInv, SubSound, Stored, Unborn, Gone, Creating
    <3>2. CASE r = s
      BY <3>1, <3>2, <2>2, <2>4, <2>5, <1>4
    <3>3. CASE r # s
      BY <3>1, <3>3, <2>4
    <3> QED BY <3>2, <3>3
  <2> QED BY <2>10, <2>11
<1> QED BY <1>7, <1>8

\* Time changes no position and no holder.
LEMMA LaterFacts ==
    ASSUME HintInv, NEW s \in SubId, Stored(s)
    PROVE  LET b == subs[s]
               c == LaterSub(b)
           IN  /\ c = [status |-> c.status, last |-> c.last, due |-> c.due,
                       lease |-> c.lease, failing |-> c.failing, attempts |-> c.attempts]
               /\ c.status = b.status /\ c.last = b.last /\ c.lease.by = b.lease.by
               /\ b.last \in Nat
<1> DEFINE b == subs[s]
<1>1. /\ b = [status |-> b.status, last |-> b.last, due |-> b.due,
              lease |-> b.lease, failing |-> b.failing, attempts |-> b.attempts]
      /\ b.last \in Nat
  BY DEF HintInv, SubSound, Stored, Unborn, Gone, Creating
<1> HIDE DEF b
<1> DEFINE c == LaterSub(b)
<1> DEFINE l == Waned(b.lease)
<1>2. l.by = b.lease.by
  BY DEF Waned
<1> HIDE DEF l
<1>3. /\ c = [status |-> c.status, last |-> c.last, due |-> c.due,
              lease |-> c.lease, failing |-> c.failing, attempts |-> c.attempts]
      /\ c.status = b.status /\ c.last = b.last /\ c.lease = l
  BY DEF LaterSub, l
<1> HIDE DEF c
<1> QED BY <1>1, <1>2, <1>3 DEF b, c

\* It changes nothing an attempt relies on.
LEMMA LaterAttemptSound ==
    ASSUME NEW a, NEW A, NEW h, NEW t, NEW n, AttemptSound(a, A, h, t, n)
    PROVE  LET c == LaterAttempt(a)
           IN  AttemptSound(c, A, h, t, n) /\ c.sub = a.sub /\ c.rec.last = a.rec.last
<1> DEFINE c == LaterAttempt(a)
<1> DEFINE rec == LaterRecord(a.rec)
<1> DEFINE p == LaterProgress(a.progress)
<1>1. /\ c = [at |-> c.at, sub |-> c.sub, age |-> c.age, rec |-> c.rec,
              head |-> c.head, ev |-> c.ev, progress |-> c.progress]
      /\ c.at = a.at /\ c.sub = a.sub /\ c.head = a.head /\ c.ev = a.ev
      /\ c.rec = rec /\ c.progress = p
  BY DEF LaterAttempt
<1>2. /\ rec = [last |-> rec.last, failing |-> rec.failing, attempts |-> rec.attempts]
      /\ rec.last = a.rec.last
  BY DEF AttemptSound, LaterRecord
<1> HIDE DEF c, rec
<1>3. Wanted(c, A) = Wanted(a, A)
  BY <1>1, <1>2 DEF Wanted
<1>4. ASSUME a.at = "finish" PROVE ProgressSound(c, A, h, t, n)
  <2> DEFINE q == a.progress
  <2>1. /\ q = [last |-> q.last, status |-> q.status, due |-> q.due,
                failing |-> q.failing, attempts |-> q.attempts]
        /\ q.status \in {"active", "disabled"}
        /\ q.last \in Nat /\ a.rec.last <= q.last /\ q.last <= h
        /\ \A x \in Wanted(a, A) : x.seq <= q.last => x.seq <= n \/ x.seq <= t
    BY <1>4 DEF AttemptSound, ProgressSound
  <2>2. q # NoProgress
    BY <2>1 DEF NoProgress
  <2>3. /\ p = [last |-> p.last, status |-> p.status, due |-> p.due,
                failing |-> p.failing, attempts |-> p.attempts]
        /\ p.status = q.status /\ p.last = q.last
    <3> HIDE DEF q
    <3> QED BY <2>1, <2>2 DEF LaterProgress, q
  <2> HIDE DEF p
  <2> QED BY <2>1, <2>3, <1>1, <1>2, <1>3 DEF ProgressSound
<1> HIDE DEF p
<1>5. a.at = "scan" => EvaluationSound(c, A, h, t)
  BY <1>1, <1>2, <1>3 DEF AttemptSound, EvaluationSound
<1>6. AttemptSound(c, A, h, t, n)
  BY <1>1, <1>2, <1>3, <1>4, <1>5 DEF AttemptSound
<1> QED BY <1>1, <1>2, <1>6 DEF c

\* Time passes.
LEMMA TickStep ==
    ASSUME HintInv, UNCHANGED feedVars, Tick
    PROVE  /\ HintInv'
           /\ \A s \in SubId : Stored(s) => subs'[s].last >= subs[s].last
<1>1. /\ subs' = [s \in SubId |-> IF Stored(s) THEN LaterSub(subs[s]) ELSE subs[s]]
      /\ att' = [w \in Worker |->
                    IF att[w] = Resting THEN Resting ELSE LaterAttempt(att[w])]
      /\ hintedTo' = hintedTo /\ born' = born
  BY DEF Tick
<1>2. ASSUME NEW s \in SubId
      PROVE  /\ SubSound(subs'[s], FeedHead.head)
             /\ Told(s, subs'[s], appended, pruned.through, hintedTo'[s], born'[s])
             /\ subs'[s].status = subs[s].status
             /\ Stored(s) => /\ subs'[s].last = subs[s].last /\ subs[s].last \in Nat
                             /\ subs'[s].lease.by = subs[s].lease.by
  <2> DEFINE b == subs[s]
  <2> DEFINE c == LaterSub(b)
  <2>1. SubSound(b, FeedHead.head)
        /\ Told(s, b, appended, pruned.through, hintedTo[s], born[s])
    BY DEF HintInv
  <2>2. CASE ~ Stored(s)
    BY <1>1, <2>1, <2>2
  <2>3. CASE Stored(s)
    <3>1. /\ c = [status |-> c.status, last |-> c.last, due |-> c.due,
                  lease |-> c.lease, failing |-> c.failing, attempts |-> c.attempts]
          /\ c.status = b.status /\ c.last = b.last /\ c.lease.by = b.lease.by
          /\ b.last \in Nat
      BY <2>3, LaterFacts
    <3>2. subs'[s] = c
      BY <1>1, <2>3
    <3>3. b.status \in {"active", "disabled"}
      BY <2>3 DEF Stored
    <3>4. b.last <= FeedHead.head
      BY <2>1, <3>3 DEF SubSound, Unborn, Gone, Creating
    <3> HIDE DEF c
    <3>5. SubSound(c, FeedHead.head)
      BY <3>1, <3>3, <3>4 DEF SubSound
    <3>6. Told(s, c, appended, pruned.through, hintedTo[s], born[s])
      BY <3>1, <2>1 DEF Told
    <3> QED BY <3>1, <3>2, <3>5, <3>6, <1>1
  <2> QED BY <2>2, <2>3
<1>3. ASSUME NEW w \in Worker, att'[w] # Resting
      PROVE  /\ AttemptSound(att'[w], appended, FeedHead.head, pruned.through,
                             hintedTo'[att'[w].sub])
             /\ Leased(w, att'[w], subs'[att'[w].sub])
  <2> DEFINE a == att[w]
  <2> DEFINE c == LaterAttempt(a)
  <2>1. a # Resting /\ att'[w] = c
    BY <1>1, <1>3
  <2>2. /\ AttemptSound(a, appended, FeedHead.head, pruned.through, hintedTo[a.sub])
        /\ Leased(w, a, subs[a.sub]) /\ a.sub \in SubId
    BY <2>1, AttemptFacts
  <2> DEFINE n == hintedTo[a.sub]
  <2> DEFINE h == FeedHead.head
  <2> DEFINE t == pruned.through
  <2>3. AttemptSound(c, appended, h, t, n) /\ c.sub = a.sub /\ c.rec.last = a.rec.last
    <3>1. AttemptSound(a, appended, h, t, n)
      BY <2>2
    <3> HIDE DEF a, h, t, n
    <3> QED BY <3>1, LaterAttemptSound
  <2> HIDE DEF c
  <2>4. Leased(w, c, subs'[c.sub])
    <3>1. subs[a.sub].status \in {"active", "disabled"} => Stored(a.sub)
      BY DEF Stored
    <3> QED BY <2>2, <2>3, <3>1, <1>2 DEF Leased
  <2> QED BY <2>1, <2>3, <2>4, <1>1
<1>4. HintInv'
  <2>1. subs' = [s \in SubId |-> subs'[s]] /\ att' = [w \in Worker |-> att'[w]]
    BY <1>1
  <2>2. hintedTo' \in [SubId -> Nat] /\ born' \in [SubId -> Nat]
    BY <1>1 DEF HintInv
  <2> QED BY <1>2, <1>3, <2>1, <2>2, HintFrame
<1>5. ASSUME NEW s \in SubId, Stored(s) PROVE subs'[s].last >= subs[s].last
  BY <1>2, <1>5
<1> QED BY <1>4, <1>5
(***************************************************************************)
(* Hints: the theorems.                                                    *)
(***************************************************************************)
\* Before anything happened.
LEMMA HintInitInv == HintInit => HintInv
<1> SUFFICES ASSUME HintInit PROVE HintInv
  OBVIOUS
<1>1. /\ feed = {} /\ appended = {}
      /\ pruned \in {[through |-> 1, fp |-> NoFp], [through |-> 0, fp |-> NoFp]}
      /\ subs = [s \in SubId |-> Unborn] /\ att = [w \in Worker |-> Resting]
      /\ hintedTo = [s \in SubId |-> 0] /\ born = [s \in SubId |-> 0]
  BY DEF HintInit, FeedInit
<1>2. pruned.through \in Nat
  BY <1>1
<1>3. IsFiniteSet(appended)
  BY <1>1, FS_EmptySet
<1>4. FeedSound(feed, pruned, appended)
  BY <1>1, <1>2, <1>3 DEF FeedSound
<1>5. \A s \in SubId : subs[s] = Unborn /\ SubSound(subs[s], FeedHead.head)
  BY <1>1 DEF SubSound
<1>6. \A s \in SubId :
         Told(s, subs[s], appended, pruned.through, hintedTo[s], born[s])
  BY <1>1 DEF Told
<1>7. \A w \in Worker : att[w] = Resting
  BY <1>1
<1>8. subs = [s \in SubId |-> subs[s]] /\ att = [w \in Worker |-> att[w]]
      /\ hintedTo \in [SubId -> Nat] /\ born \in [SubId -> Nat]
  BY <1>1
<1> QED BY <1>4, <1>5, <1>6, <1>7, <1>8 DEF HintInv

\* The body of PositionNeverMovesBack.
PositionsStay ==
    \A s \in SubId :
        Stored(s) /\ subs'[s].status \in {"active", "disabled"} =>
            subs'[s].last >= subs[s].last

\* The body of HintsOnlyVisibleChanges.
HintsAreVisible ==
    \A s \in SubId :
        hintedTo'[s] # hintedTo[s] =>
            \E w \in Worker, x \in appended :
                /\ att[w].at = "deliver" /\ att[w].sub = s
                /\ Wants(OwnerOf[s], x) /\ x.seq > att[w].rec.last

\* A step that leaves a subscription alone leaves its position alone.
LEMMA SamePosition ==
    ASSUME HintInv, NEW s \in SubId, Stored(s), subs'[s].last = subs[s].last
    PROVE  subs'[s].last >= subs[s].last
<1>1. subs[s].last \in Nat
  BY DEF HintInv, SubSound, Stored, Unborn, Gone, Creating
<1> QED BY <1>1

\* The endpoints write positions of new subscriptions only.
LEMMA EndpointPositions ==
    ASSUME HintInv, NEW s \in SubId, CreateHead(s) \/ CreateRow(s) \/ Delete(s)
    PROVE  PositionsStay /\ hintedTo' = hintedTo
<1>1. hintedTo' = hintedTo
  BY DEF CreateHead, CreateRow, Delete
<1>2. ~ Stored(s) \/ subs'[s].status = "gone"
  <2>1. CASE CreateHead(s) \/ CreateRow(s)
    BY <2>1 DEF CreateHead, CreateRow, Stored, Unborn
  <2>2. CASE Delete(s)
    BY <2>2 DEF Delete, Gone, HintInv
  <2> QED BY <2>1, <2>2
<1>3. \A r \in SubId : r # s => subs'[r] = subs[r]
  BY DEF CreateHead, CreateRow, Delete, HintInv
<1> QED BY <1>1, <1>2, <1>3, SamePosition DEF PositionsStay

\* So does a claim: it changes the lease alone.
LEMMA ClaimPositions ==
    ASSUME HintInv, NEW w \in Worker, Claim(w)
    PROVE  PositionsStay
<1>1. PICK s \in SubId :
         /\ Claimable(s, FeedHead.head)
         /\ subs' = [subs EXCEPT ![s] = [@ EXCEPT !.lease = [by |-> w, left |-> Lease]]]
  BY DEF Claim
<1>2. \A r \in SubId : r # s => subs'[r] = subs[r]
  BY <1>1 DEF HintInv
<1> DEFINE b == subs[s]
<1>3. b = [status |-> b.status, last |-> b.last, due |-> b.due,
           lease |-> b.lease, failing |-> b.failing, attempts |-> b.attempts]
  BY <1>1 DEF Claimable, HintInv, SubSound, Unborn, Gone, Creating
<1>4. subs'[s] = [b EXCEPT !.lease = [by |-> w, left |-> Lease]]
  BY <1>1 DEF HintInv
<1> DEFINE l == [by |-> w, left |-> Lease]
<1> HIDE DEF l
<1>5. [b EXCEPT !.lease = l].last = b.last
  BY <1>3
<1>6. subs'[s].last = subs[s].last
  BY <1>4, <1>5 DEF l
<1> QED BY <1>2, <1>6, SamePosition DEF PositionsStay

\* What a worker does.
LEMMA WorkStep ==
    ASSUME HintInv, NEW w \in Worker, Work(w)
    PROVE  HintInv' /\ PositionsStay /\ HintsAreVisible
<1>1. UNCHANGED feedVars
  BY DEF Work
<1>2. ASSUME subs' = subs PROVE PositionsStay
  BY <1>2, SamePosition DEF PositionsStay
<1>3. ASSUME hintedTo' = hintedTo PROVE HintsAreVisible
  BY <1>3 DEF HintsAreVisible
<1>4. CASE Claim(w) /\ UNCHANGED <<faults, hintedTo, born>>
  BY <1>1, <1>3, <1>4, ClaimStep, ClaimPositions
<1>5. CASE (ReadHead(w) \/ Evaluate(w) \/ EvaluateOldest(w))
           /\ UNCHANGED <<faults, hintedTo, born>>
  <2>1. HintInv' /\ HintsAreVisible
    BY <1>1, <1>3, <1>5, BeforeScanStep
  <2>2. subs' = subs
    BY <1>5 DEF ReadHead, Evaluate, EvaluateOldest, Step, Conclude
  <2> QED BY <2>1, <2>2, <1>2
<1>6. CASE HintScan(w) /\ UNCHANGED <<faults, hintedTo, born>>
  <2>1. HintInv' /\ HintsAreVisible
    BY <1>1, <1>3, <1>6, HintScanStep
  <2>2. subs' = subs
    BY <1>6 DEF HintScan, Step, Conclude
  <2> QED BY <2>1, <2>2, <1>2
<1>7. CASE (NoSecret(w) /\ UNCHANGED <<faults, hintedTo, born>>) \/ Deliver(w)
  <2>1. /\ HintInv'
        /\ \A s \in SubId : hintedTo'[s] # hintedTo[s] =>
              att[w].at = "deliver" /\ att[w].sub = s /\ Wanted(att[w], appended) # {}
    BY <1>1, <1>7, DeliverStep
  <2>2. subs' = subs
    BY <1>7 DEF NoSecret, Deliver, Conclude
  <2>3. HintsAreVisible
    <3> SUFFICES ASSUME NEW s \in SubId, hintedTo'[s] # hintedTo[s]
                 PROVE  \E v \in Worker, x \in appended :
                           /\ att[v].at = "deliver" /\ att[v].sub = s
                           /\ Wants(OwnerOf[s], x) /\ x.seq > att[v].rec.last
      BY DEF HintsAreVisible
    <3>1. att[w].at = "deliver" /\ att[w].sub = s
          /\ \E x \in appended : Wants(OwnerOf[s], x) /\ x.seq > att[w].rec.last
      BY <2>1 DEF Wanted
    <3> QED BY <3>1
  <2> QED BY <2>1, <2>2, <2>3, <1>2
<1>8. CASE Finish(w) /\ UNCHANGED <<faults, hintedTo, born>>
  <2>1. HintInv' /\ PositionsStay
    BY <1>1, <1>8, FinishStep DEF PositionsStay
  <2> QED BY <2>1, <1>3, <1>8
<1> QED BY <1>4, <1>5, <1>6, <1>7, <1>8 DEF Work

\* Every step keeps the invariant and the two promises about steps.
LEMMA HintNextInv ==
    ASSUME HintInv, [HintNext]_hintingVars
    PROVE  HintInv' /\ PositionsStay /\ HintsAreVisible
<1>1. ASSUME subs' = subs PROVE PositionsStay
  BY <1>1, SamePosition DEF PositionsStay
<1>2. ASSUME hintedTo' = hintedTo PROVE HintsAreVisible
  BY <1>2 DEF HintsAreVisible
<1>3. FeedSound(feed, pruned, appended)
  BY DEF HintInv
<1>4. ASSUME NEW e \in Entry, NEW seq \in 1 .. MaxSeq,
             AppendEntry(e, seq), UNCHANGED hintVars
      PROVE  HintInv' /\ PositionsStay /\ HintsAreVisible
  <2>1. HintInv'
    BY <1>3, <1>4, AppendGrows, FeedStep
  <2> QED BY <2>1, <1>1, <1>2, <1>4 DEF hintVars
<1>5. ASSUME NEW x \in feed, PruneFeed(x), UNCHANGED hintVars
      PROVE  HintInv' /\ PositionsStay /\ HintsAreVisible
  <2>1. HintInv'
    BY <1>3, <1>5, PruneGrows, FeedStep
  <2> QED BY <2>1, <1>1, <1>2, <1>5 DEF hintVars
<1>6. ASSUME NEW s \in SubId, CreateHead(s) \/ CreateRow(s) \/ Delete(s),
             UNCHANGED feedVars
      PROVE  HintInv' /\ PositionsStay /\ HintsAreVisible
  BY <1>2, <1>6, EndpointStep, EndpointPositions
<1>7. ASSUME NEW w \in Worker, Work(w)
      PROVE  HintInv' /\ PositionsStay /\ HintsAreVisible
  BY <1>7, WorkStep
<1>8. ASSUME NEW w \in Worker, Fail(w), UNCHANGED feedVars
      PROVE  HintInv' /\ PositionsStay /\ HintsAreVisible
  <2>1. HintInv' /\ subs' = subs /\ hintedTo' = hintedTo
    BY <1>8, FailStep DEF Fail
  <2> QED BY <2>1, <1>1, <1>2
<1>9. ASSUME Tick, UNCHANGED feedVars
      PROVE  HintInv' /\ PositionsStay /\ HintsAreVisible
  <2>1. HintInv' /\ PositionsStay /\ hintedTo' = hintedTo
    BY <1>9, TickStep DEF Tick, PositionsStay
  <2> QED BY <2>1, <1>2
<1>10. ASSUME UNCHANGED hintingVars
       PROVE  HintInv' /\ PositionsStay /\ HintsAreVisible
  <2>1. /\ feed' = feed /\ pruned' = pruned /\ appended' = appended
        /\ subs' = subs /\ att' = att /\ hintedTo' = hintedTo /\ born' = born
    BY <1>10 DEF hintingVars, feedVars, hintVars
  <2>2. (FeedHead.head)' = FeedHead.head
    BY <2>1 DEF FeedHead
  <2>3. HintInv'
    BY <2>1, <2>2 DEF HintInv
  <2> QED BY <2>1, <2>3, <1>1, <1>2
<1> QED BY <1>4, <1>5, <1>6, <1>7, <1>8, <1>9, <1>10 DEF HintNext

\* Every attempt of every worker keeps what it knows about the feed, and
\* whoever holds a lease started from the recorded position.
THEOREM HintInvariant == HintSpec => []HintInv
<1>1. HintInv /\ [HintNext]_hintingVars => HintInv'
  BY HintNextInv
<1> QED BY <1>1, HintInitInv, PTL DEF HintSpec

\* The recorded position of a subscription leaves nothing behind: every
\* change at or below it that its owner may see was told to the receiver, or
\* has been pruned (HintedUpToPosition; hint_one and
\* finish_subscription_attempt, through crashes, lost leases and lost
\* answers).
THEOREM HintsCoverPosition == HintSpec => []HintedUpToPosition
<1>1. HintInv => HintedUpToPosition
  <2> SUFFICES ASSUME HintInv, NEW s \in SubId, Stored(s), NEW x \in appended,
                      Wants(OwnerOf[s], x), x.seq > born[s], x.seq <= subs[s].last
               PROVE  x.seq <= hintedTo[s] \/ x.seq <= pruned.through
    BY DEF HintedUpToPosition
  <2>1. Told(s, subs[s], appended, pruned.through, hintedTo[s], born[s])
    BY DEF HintInv
  <2> QED BY <2>1 DEF Told, Stored
<1> QED BY <1>1, HintInvariant, PTL

\* A hint only ever follows a change its owner may see, and a recorded
\* position never moves back, whichever of two workers finishes last
\* (HintSteps; deliver and finish_subscription_attempt's lease check).
THEOREM HintStepsAreSafe == HintSpec => HintSteps
<1>1. HintInv /\ [HintNext]_hintingVars => [PositionsStay]_hintingVars
  BY HintNextInv
<1>2. HintInv /\ [HintNext]_hintingVars => [HintsAreVisible]_hintingVars
  BY HintNextInv
<1>3. HintSpec => [][PositionsStay]_hintingVars
  BY <1>1, HintInvariant, PTL DEF HintSpec
<1>4. HintSpec => [][HintsAreVisible]_hintingVars
  BY <1>2, HintInvariant, PTL DEF HintSpec
<1>5. HintSpec => PositionNeverMovesBack
  BY <1>3 DEF PositionNeverMovesBack, PositionsStay
<1>6. HintSpec => HintsOnlyVisibleChanges
  BY <1>4 DEF HintsOnlyVisibleChanges, HintsAreVisible
<1> QED BY <1>5, <1>6 DEF HintSteps
(***************************************************************************)
(* Polling: what a cursor and a request know.                              *)
(***************************************************************************)
\* Nothing was ever appended at or below this position.
Floor == IF legacy THEN 1 ELSE 0

\* The marker is as the feed was made, or names the last row pruned.
MarkerSound(p, A, fl) ==
    /\ \A x \in A : x.seq > fl
    /\ \/ p.fp = NoFp /\ p.through = fl
       \/ \E y \in A : y.seq = p.through /\ p.fp = Fingerprint(y)

\* Fingerprint fp stands for the row at position n, or for the floor.
Anchored(n, fp, A, fl) ==
    \/ fp \in {OriginFp, NoFp} /\ n <= fl
    \/ \E y \in A : y.seq = n /\ fp = Fingerprint(y)

\* Rows G are all that r wants between positions b and n.
Has(r, A, b, n, G) ==
    \A x \in A : Wants(r, x) /\ x.seq > b /\ x.seq <= n => x \in G

\* A cursor of the feed as it is: the row its anchor names is there, and its
\* holder has everything up to its position.
CursorSound(r, c, A, fl, b, G) ==
    /\ c.pos \in Nat
    /\ \/ c.anchor.fp = OriginFp /\ c.pos <= fl
       \/ /\ \E y \in A : c.anchor.fp = Fingerprint(y) /\ c.pos <= y.seq
          /\ Has(r, A, b, c.pos, G)

\* A cursor of a feed that a restore took back: the row its anchor names is
\* of an earlier era, and is gone for good.
CursorDead(c, A, e) ==
    /\ c.pos \in Nat
    /\ \E d \in Row : d.era < e /\ c.anchor.fp = Fingerprint(d)
    /\ \A y \in A : Fingerprint(y) # c.anchor.fp

\* An evaluation for r in request p, over rows A with head h.
RequestSound(r, p, A, fl, h, G) ==
    /\ p.ev.pos \in Nat /\ p.ev.head \in Nat /\ p.base \in Nat
    /\ p.ev.pos <= p.ev.head /\ p.ev.head <= h
    /\ p.ev.limit \in Nat \ {0}
    /\ Anchored(p.ev.head, p.ev.fp, A, fl)
    /\ \A x \in p.ev.out : Wants(r, x)
    /\ p.at = "scan" => Has(r, A, p.base, p.ev.pos, G \cup p.ev.out)

\* Where request p of the holder of cursor c stands.
RequestKnows(r, p, c, A, fl, h, b, G) ==
    /\ p.at \in {"scan", "anchor"} =>
          RequestSound(r, p, A, fl, h, G) /\ (p.ev.check => p.base = b)
    /\ p.at = "anchor" => /\ c # NoCursor /\ p.ev.check
                          /\ p.ev.pos = c.pos /\ p.ev.out = {}
    /\ p.at = "answered" /\ p.code = "ok" =>
          /\ p.base \in Nat
          /\ \A x \in p.out : Wants(r, x)
          /\ CursorSound(r, p.next, A, fl, p.base, G \cup p.out)

\* The feed, what a restore would make of it, and each consumer.
PollInv ==
    /\ FeedSound(feed, pruned, appended) /\ MarkerSound(pruned, appended, Floor)
    /\ FeedSound(backup.feed, backup.pruned, backup.appended)
    /\ MarkerSound(backup.pruned, backup.appended, Floor)
    /\ backup.appended \subseteq appended
    /\ era \in 0 .. MaxEras /\ appended \subseteq Row
    /\ \A x \in appended : x.era <= era
    /\ poll = [r \in Poller |-> poll[r]] /\ cursor = [r \in Poller |-> cursor[r]]
    /\ got = [r \in Poller |-> got[r]] /\ base \in [Poller -> Nat]
    /\ \A r \in Poller :
          /\ \A x \in got[r] : Wants(r, x)
          /\ \/ cursor[r] = NoCursor
             \/ CursorSound(r, cursor[r], appended, Floor, base[r], got[r])
             \/ CursorDead(cursor[r], appended, era)
          /\ RequestKnows(r, poll[r], cursor[r], appended, Floor, FeedHead.head,
                          base[r], got[r])
\* A fingerprint tells the position and the era of its row, and is neither of
\* the two that stand for no row.
LEMMA FingerprintFacts ==
    /\ \A x, y : Fingerprint(x) = Fingerprint(y) => x.seq = y.seq /\ x.era = y.era
    /\ \A x : Fingerprint(x) # NoFp /\ Fingerprint(x) # OriginFp
<1>1. \A x, y : Fingerprint(x) = Fingerprint(y) => x.seq = y.seq /\ x.era = y.era
  BY DEF Fingerprint
<1>2. ASSUME NEW x PROVE Fingerprint(x) # NoFp /\ Fingerprint(x) # OriginFp
  <2>1. Len(Fingerprint(x)) = 4 /\ Len(NoFp) = 1 /\ Len(OriginFp) = 1
    BY DEF Fingerprint, NoFp, OriginFp
  <2> QED BY <2>1
<1> QED BY <1>1, <1>2

\* The head of a sound feed is anchored.
LEMMA HeadAnchored ==
    ASSUME NEW f, NEW p, NEW A, NEW fl \in Nat, FeedSound(f, p, A), MarkerSound(p, A, fl)
    PROVE  LET h == FromSnapshot(f, p)
           IN  Anchored(h.head, h.fp, A, fl) /\ fl <= h.head
<1> DEFINE h == FromSnapshot(f, p)
<1>1. /\ h.head \in Nat /\ p.through <= h.head /\ p.through \in Nat /\ f \subseteq A
      /\ f = {} => /\ h.head = p.through
                   /\ h.fp = IF p.through = 0 THEN OriginFp ELSE p.fp
      /\ f # {} => \E x \in f : x.seq = h.head /\ h.fp = Fingerprint(x)
  BY HeadFacts DEF FeedSound
<1> HIDE DEF h
<1>2. fl <= p.through
  BY <1>1 DEF MarkerSound
<1>3. fl <= h.head
  BY <1>1, <1>2
<1>4. Anchored(h.head, h.fp, A, fl)
  <2>1. CASE f # {}
    BY <1>1, <2>1 DEF Anchored
  <2>2. CASE f = {} /\ p.through = 0
    BY <1>1, <2>2 DEF Anchored
  <2>3. CASE f = {} /\ p.through # 0
    BY <1>1, <2>3 DEF Anchored, MarkerSound
  <2> QED BY <2>1, <2>2, <2>3
<1> QED BY <1>3, <1>4 DEF h

\* The floor is a number.
LEMMA FloorIsNat == Floor \in Nat
  BY DEF Floor

\* What a consumer has stays complete up to a position while rows appear
\* past it.
LEMMA HasStays ==
    ASSUME NEW r, NEW A, NEW A2, NEW b, NEW n \in Nat, NEW h \in Nat, NEW G,
           Has(r, A, b, n, G), n <= h,
           \A x \in A2 \ A : x.seq \in Nat /\ x.seq > h
    PROVE  Has(r, A2, b, n, G)
<1> SUFFICES ASSUME NEW x \in A2, Wants(r, x), x.seq > b, x.seq <= n
             PROVE  x \in G
  BY DEF Has
<1>1. x \in A
  OBVIOUS
<1> QED BY <1>1 DEF Has

\* So does a cursor.
LEMMA CursorStays ==
    ASSUME NEW r, NEW c, NEW A, NEW A2, NEW fl \in Nat, NEW b, NEW G, NEW h \in Nat,
           CursorSound(r, c, A, fl, b, G), A \subseteq A2,
           \A x \in A : x.seq \in Nat /\ x.seq <= h,
           \A x \in A2 \ A : x.seq \in Nat /\ x.seq > h
    PROVE  CursorSound(r, c, A2, fl, b, G)
<1>1. c.pos \in Nat
  BY DEF CursorSound
<1>2. CASE c.anchor.fp = OriginFp /\ c.pos <= fl
  BY <1>1, <1>2 DEF CursorSound
<1>3. CASE ~ (c.anchor.fp = OriginFp /\ c.pos <= fl)
  <2>1. PICK y \in A : c.anchor.fp = Fingerprint(y) /\ c.pos <= y.seq
    BY <1>3 DEF CursorSound
  <2>2. Has(r, A, b, c.pos, G)
    BY <1>3 DEF CursorSound
  <2>3. c.pos <= h
    BY <1>1, <2>1
  <2>4. Has(r, A2, b, c.pos, G)
    BY <1>1, <2>2, <2>3, HasStays
  <2> QED BY <1>1, <2>1, <2>4 DEF CursorSound
<1> QED BY <1>2, <1>3

\* And a request.
LEMMA RequestStays ==
    ASSUME NEW r, NEW p, NEW c, NEW A, NEW A2, NEW fl \in Nat, NEW h \in Nat,
           NEW h2 \in Nat, NEW b, NEW G,
           RequestKnows(r, p, c, A, fl, h, b, G), A \subseteq A2, h <= h2,
           \A x \in A : x.seq \in Nat /\ x.seq <= h,
           \A x \in A2 \ A : x.seq \in Nat /\ x.seq > h
    PROVE  RequestKnows(r, p, c, A2, fl, h2, b, G)
<1>1. ASSUME RequestSound(r, p, A, fl, h, G) PROVE RequestSound(r, p, A2, fl, h2, G)
  <2>1. /\ p.ev.pos \in Nat /\ p.ev.head \in Nat
        /\ p.ev.pos <= p.ev.head /\ p.ev.head <= h
    BY <1>1 DEF RequestSound
  <2>2. p.ev.pos <= h /\ p.ev.head <= h2
    BY <2>1
  <2>3. ASSUME p.at = "scan" PROVE Has(r, A2, p.base, p.ev.pos, G \cup p.ev.out)
    <3>1. Has(r, A, p.base, p.ev.pos, G \cup p.ev.out)
      BY <1>1, <2>3 DEF RequestSound
    <3> QED BY <3>1, <2>1, <2>2, HasStays
  <2>4. Anchored(p.ev.head, p.ev.fp, A2, fl)
    BY <1>1 DEF RequestSound, Anchored
  <2> QED BY <1>1, <2>2, <2>3, <2>4 DEF RequestSound
<1>2. ASSUME CursorSound(r, p.next, A, fl, p.base, G \cup p.out)
      PROVE  CursorSound(r, p.next, A2, fl, p.base, G \cup p.out)
  BY <1>2, CursorStays
<1> QED BY <1>1, <1>2 DEF RequestKnows

\* Appends and prunes keep the invariant.
LEMMA FeedPollStep ==
    ASSUME PollInv, UNCHANGED <<era, backup, legacy>>, UNCHANGED pollVars,
           FeedSound(feed', pruned', appended'), MarkerSound(pruned', appended', Floor),
           FeedGrows, appended' \subseteq Row,
           \A x \in appended' \ appended : x.era = era
    PROVE  PollInv'
<1> DEFINE h == FeedHead.head
<1> DEFINE h2 == (FeedHead.head)'
<1>1. /\ h \in Nat /\ \A x \in appended : x.seq \in Nat /\ x.seq <= h
  BY FeedNumbers DEF PollInv
<1>2. /\ h2 \in Nat /\ \A x \in appended' : x.seq \in Nat
  BY HeadFacts, FeedReadAssumption DEF FeedHead, FeedSound
<1>3. /\ appended \subseteq appended' /\ \A x \in appended' \ appended : x.seq > h
      /\ h <= h2
  BY DEF FeedGrows
<1>4. /\ poll' = poll /\ cursor' = cursor /\ got' = got /\ base' = base
      /\ era' = era /\ backup' = backup /\ Floor' = Floor
  BY DEF pollVars, Floor
<1>5. Floor \in Nat /\ era \in Nat
  BY FloorIsNat, FeedReadAssumption DEF PollInv
<1> HIDE DEF h, h2
<1>6. ASSUME NEW r \in Poller
      PROVE  /\ \/ cursor[r] = NoCursor
                \/ CursorSound(r, cursor[r], appended', Floor, base[r], got[r])
                \/ CursorDead(cursor[r], appended', era)
             /\ RequestKnows(r, poll[r], cursor[r], appended', Floor, h2, base[r], got[r])
  <2> DEFINE c == cursor[r]
  <2>1. /\ \/ c = NoCursor
           \/ CursorSound(r, c, appended, Floor, base[r], got[r])
           \/ CursorDead(c, appended, era)
        /\ RequestKnows(r, poll[r], c, appended, Floor, h, base[r], got[r])
    BY DEF PollInv, h
  <2>2. RequestKnows(r, poll[r], c, appended', Floor, h2, base[r], got[r])
    BY <1>1, <1>2, <1>3, <1>5, <2>1, RequestStays
  <2>3. CASE CursorSound(r, c, appended, Floor, base[r], got[r])
    <3>1. CursorSound(r, c, appended', Floor, base[r], got[r])
      BY <1>1, <1>2, <1>3, <1>5, <2>3, CursorStays
    <3> QED BY <3>1, <2>2
  <2>4. CASE CursorDead(c, appended, era)
    <3>1. PICK d \in Row : d.era < era /\ c.anchor.fp = Fingerprint(d)
      BY <2>4 DEF CursorDead
    <3>2. d.era \in Nat
      BY FeedReadAssumption DEF Row
    <3>3. \A y \in appended' \ appended : Fingerprint(y) # c.anchor.fp
      BY <3>1, <3>2, <1>5, FingerprintFacts
    <3>4. CursorDead(c, appended', era)
      BY <2>4, <3>3 DEF CursorDead
    <3> QED BY <3>4, <2>2
  <2> QED BY <2>1, <2>2, <2>3, <2>4
<1>7. backup'.appended \subseteq appended'
  BY <1>3, <1>4 DEF PollInv
<1>8. \A x \in appended' : x.era <= era'
  BY <1>4, <1>5 DEF PollInv
<1>9. /\ FeedSound(backup'.feed, backup'.pruned, backup'.appended)
      /\ MarkerSound(backup'.pruned, backup'.appended, Floor')
      /\ MarkerSound(pruned', appended', Floor') /\ era' \in 0 .. MaxEras
  BY <1>4 DEF PollInv
<1>10. /\ poll' = [r \in Poller |-> poll'[r]] /\ cursor' = [r \in Poller |-> cursor'[r]]
       /\ got' = [r \in Poller |-> got'[r]] /\ base' \in [Poller -> Nat]
       /\ \A r \in Poller : \A x \in got'[r] : Wants(r, x)
  BY <1>4 DEF PollInv
<1>11. \A r \in Poller :
          /\ \/ cursor'[r] = NoCursor
             \/ CursorSound(r, cursor'[r], appended', Floor', base'[r], got'[r])
             \/ CursorDead(cursor'[r], appended', era')
          /\ RequestKnows(r, poll'[r], cursor'[r], appended', Floor', (FeedHead.head)',
                          base'[r], got'[r])
  BY <1>4, <1>6 DEF h2
<1> QED BY <1>7, <1>8, <1>9, <1>10, <1>11 DEF PollInv

\* While the feed stays as it is.
LEMMA PollFrame ==
    ASSUME PollInv, UNCHANGED <<feed, pruned, appended, era, legacy>>,
           FeedSound(backup'.feed, backup'.pruned, backup'.appended),
           MarkerSound(backup'.pruned, backup'.appended, Floor),
           backup'.appended \subseteq appended,
           poll' = [r \in Poller |-> poll'[r]], cursor' = [r \in Poller |-> cursor'[r]],
           got' = [r \in Poller |-> got'[r]], base' \in [Poller -> Nat],
           \A r \in Poller :
              /\ \A x \in got'[r] : Wants(r, x)
              /\ \/ cursor'[r] = NoCursor
                 \/ CursorSound(r, cursor'[r], appended, Floor, base'[r], got'[r])
                 \/ CursorDead(cursor'[r], appended, era)
              /\ RequestKnows(r, poll'[r], cursor'[r], appended, Floor, FeedHead.head,
                              base'[r], got'[r])
    PROVE  PollInv'
<1>1. (FeedHead.head)' = FeedHead.head /\ Floor' = Floor
  BY DEF FeedHead, Floor
<1> QED BY <1>1 DEF PollInv

\* One request changes.
LEMMA RequestMoves ==
    ASSUME PollInv, UNCHANGED feedVars, UNCHANGED <<cursor, base, got>>,
           NEW r \in Poller, NEW p, poll' = [poll EXCEPT ![r] = p],
           RequestKnows(r, p, cursor[r], appended, Floor, FeedHead.head, base[r], got[r])
    PROVE  PollInv'
<1>1. UNCHANGED <<feed, pruned, appended, era, legacy>> /\ backup' = backup
  BY DEF feedVars
<1>2. /\ FeedSound(backup'.feed, backup'.pruned, backup'.appended)
      /\ MarkerSound(backup'.pruned, backup'.appended, Floor)
      /\ backup'.appended \subseteq appended
  BY <1>1 DEF PollInv
<1>3. /\ poll' = [q \in Poller |-> poll'[q]] /\ cursor' = [q \in Poller |-> cursor'[q]]
      /\ got' = [q \in Poller |-> got'[q]] /\ base' \in [Poller -> Nat]
      /\ poll'[r] = p /\ \A q \in Poller : q # r => poll'[q] = poll[q]
  BY DEF PollInv
<1>4. ASSUME NEW q \in Poller
      PROVE  /\ \A x \in got'[q] : Wants(q, x)
             /\ \/ cursor'[q] = NoCursor
                \/ CursorSound(q, cursor'[q], appended, Floor, base'[q], got'[q])
                \/ CursorDead(cursor'[q], appended, era)
             /\ RequestKnows(q, poll'[q], cursor'[q], appended, Floor, FeedHead.head,
                             base'[q], got'[q])
  BY <1>3 DEF PollInv
<1> QED BY <1>1, <1>2, <1>3, <1>4, PollFrame
(***************************************************************************)
(* Polling: the feed's steps.                                              *)
(***************************************************************************)
\* A committed append.
LEMMA AppendPollStep ==
    ASSUME PollInv, NEW e \in Entry, NEW seq \in 1 .. MaxSeq,
           AppendEntry(e, seq), UNCHANGED pollVars
    PROVE  PollInv'
<1> DEFINE x == [seq |-> seq, era |-> era, entry |-> e]
<1>1. FeedSound(feed', pruned', appended') /\ FeedGrows
  BY AppendGrows DEF PollInv
<1>2. /\ appended' = appended \cup {x} /\ pruned' = pruned /\ seq > FeedHead.head
      /\ UNCHANGED <<era, backup, legacy>>
  BY DEF AppendEntry
<1>3. x.seq = seq /\ x.era = era /\ x \in Row
  BY FeedReadAssumption DEF PollInv, Row
<1>4. seq > Floor
  <2> DEFINE h == FeedHead.head
  <2>1. h \in Nat /\ Floor <= h /\ Floor \in Nat /\ seq \in Nat /\ seq > h
    BY <1>2, FeedNumbers, HeadAnchored, FloorIsNat, FeedReadAssumption DEF PollInv, FeedHead
  <2> HIDE DEF h
  <2> QED BY <2>1
<1> HIDE DEF x
<1>5. MarkerSound(pruned', appended', Floor)
  <2>1. MarkerSound(pruned, appended, Floor)
    BY DEF PollInv
  <2> QED BY <2>1, <1>2, <1>3, <1>4 DEF MarkerSound
<1>6. appended' \subseteq Row /\ \A y \in appended' \ appended : y.era = era
  BY <1>2, <1>3 DEF PollInv
<1> QED BY <1>1, <1>2, <1>5, <1>6, FeedPollStep

\* The pruner.
LEMMA PrunePollStep ==
    ASSUME PollInv, NEW x \in feed, PruneFeed(x), UNCHANGED pollVars
    PROVE  PollInv'
<1>1. FeedSound(feed', pruned', appended') /\ FeedGrows
  BY PruneGrows DEF PollInv
<1>2. /\ appended' = appended /\ UNCHANGED <<era, backup, legacy>>
      /\ pruned'.through = x.seq /\ pruned'.fp = Fingerprint(x)
  BY DEF PruneFeed
<1>3. x \in appended
  BY DEF PollInv, FeedSound
<1>4. MarkerSound(pruned', appended', Floor)
  <2>1. MarkerSound(pruned, appended, Floor)
    BY DEF PollInv
  <2> QED BY <2>1, <1>2, <1>3 DEF MarkerSound
<1>5. appended' \subseteq Row /\ \A y \in appended' \ appended : y.era = era
  BY <1>2 DEF PollInv
<1> QED BY <1>1, <1>2, <1>4, <1>5, FeedPollStep

\* A backup keeps the feed as it is.
LEMMA BackupPollStep ==
    ASSUME PollInv, TakeBackup, UNCHANGED pollVars
    PROVE  PollInv'
<1>1. /\ UNCHANGED <<feed, pruned, appended, era, legacy>>
      /\ backup'.feed = feed /\ backup'.pruned = pruned /\ backup'.appended = appended
  BY DEF TakeBackup
<1>2. /\ FeedSound(backup'.feed, backup'.pruned, backup'.appended)
      /\ MarkerSound(backup'.pruned, backup'.appended, Floor)
      /\ backup'.appended \subseteq appended
  BY <1>1 DEF PollInv
<1>3. poll' = poll /\ cursor' = cursor /\ got' = got /\ base' = base
  BY DEF pollVars
<1>4. /\ poll' = [q \in Poller |-> poll'[q]] /\ cursor' = [q \in Poller |-> cursor'[q]]
      /\ got' = [q \in Poller |-> got'[q]] /\ base' \in [Poller -> Nat]
  BY <1>3 DEF PollInv
<1>5. ASSUME NEW q \in Poller
      PROVE  /\ \A x \in got'[q] : Wants(q, x)
             /\ \/ cursor'[q] = NoCursor
                \/ CursorSound(q, cursor'[q], appended, Floor, base'[q], got'[q])
                \/ CursorDead(cursor'[q], appended, era)
             /\ RequestKnows(q, poll'[q], cursor'[q], appended, Floor, FeedHead.head,
                             base'[q], got'[q])
  BY <1>3 DEF PollInv
<1> QED BY <1>1, <1>2, <1>4, <1>5, PollFrame

\* A restore leaves a cursor as it was, or takes the row of its anchor back.
LEMMA CursorAfterRestore ==
    ASSUME PollInv, NEW r \in Poller, NEW A, A \subseteq appended,
           NEW c, CursorSound(r, c, appended, Floor, base[r], got[r])
    PROVE  \/ CursorSound(r, c, A, Floor, base[r], got[r])
           \/ CursorDead(c, A, era + 1)
<1>1. c.pos \in Nat
  BY DEF CursorSound
<1>2. CASE c.anchor.fp = OriginFp /\ c.pos <= Floor
  BY <1>1, <1>2 DEF CursorSound
<1>3. CASE ~ (c.anchor.fp = OriginFp /\ c.pos <= Floor)
  <2>1. Has(r, appended, base[r], c.pos, got[r])
    BY <1>3 DEF CursorSound
  <2>2. PICK y \in appended : c.anchor.fp = Fingerprint(y) /\ c.pos <= y.seq
    BY <1>3 DEF CursorSound
  <2>3. Has(r, A, base[r], c.pos, got[r])
    BY <2>1 DEF Has
  <2>4. CASE y \in A
    BY <1>1, <2>2, <2>3, <2>4 DEF CursorSound
  <2>5. CASE y \notin A
    <3>1. y \in Row /\ y.era <= era /\ y.era \in Nat /\ era \in Nat
      BY FeedReadAssumption DEF PollInv, Row
    <3>2. y.era < era + 1
      BY <3>1
    <3>3. \A z \in A : Fingerprint(z) # Fingerprint(y)
      <4> SUFFICES ASSUME NEW z \in A, Fingerprint(z) = Fingerprint(y) PROVE FALSE
        OBVIOUS
      <4>1. z \in appended /\ z.seq = y.seq
        BY FingerprintFacts
      <4>2. z = y
        BY <4>1 DEF PollInv, FeedSound
      <4> QED BY <4>2, <2>5
    <3> QED BY <1>1, <2>2, <3>1, <3>2, <3>3 DEF CursorDead
  <2> QED BY <2>4, <2>5
<1> QED BY <1>2, <1>3

\* A restore.
LEMMA ResetPollStep ==
    ASSUME PollInv, Reset
    PROVE  PollInv'
<1> DEFINE A == backup.appended
<1>1. /\ feed' = backup.feed /\ pruned' = backup.pruned /\ appended' = A
      /\ era < MaxEras /\ era' = era + 1 /\ backup' = backup /\ legacy' = legacy
      /\ poll' = [r \in Poller |-> Idle]
      /\ cursor' = cursor /\ base' = base /\ got' = got
  BY DEF Reset, Restore
<1>2. Floor' = Floor /\ A \subseteq appended
  BY <1>1 DEF Floor, PollInv
<1>3. era \in Nat /\ era' \in 0 .. MaxEras
  BY <1>1, FeedReadAssumption DEF PollInv
<1>4. /\ FeedSound(feed', pruned', appended') /\ MarkerSound(pruned', appended', Floor')
      /\ FeedSound(backup'.feed, backup'.pruned, backup'.appended)
      /\ MarkerSound(backup'.pruned, backup'.appended, Floor')
      /\ backup'.appended \subseteq appended'
  BY <1>1, <1>2 DEF PollInv
<1>5. appended' \subseteq Row /\ \A x \in appended' : x.era <= era'
  <2>1. \A x \in appended : x.era \in Nat /\ x.era <= era /\ x \in Row
    BY FeedReadAssumption DEF PollInv, Row
  <2>2. \A x \in A : x.era \in Nat /\ x.era <= era /\ x \in Row
    BY <2>1, <1>2
  <2> QED BY <2>2, <1>1, <1>3
<1>6. ASSUME NEW r \in Poller
      PROVE  \/ cursor[r] = NoCursor
             \/ CursorSound(r, cursor[r], A, Floor, base[r], got[r])
             \/ CursorDead(cursor[r], A, era + 1)
  <2> DEFINE c == cursor[r]
  <2>1. \/ c = NoCursor
        \/ CursorSound(r, c, appended, Floor, base[r], got[r])
        \/ CursorDead(c, appended, era)
    BY DEF PollInv
  <2>2. CASE CursorSound(r, c, appended, Floor, base[r], got[r])
    BY <2>2, <1>2, CursorAfterRestore
  <2>3. CASE CursorDead(c, appended, era)
    <3>1. PICK d \in Row : d.era < era /\ c.anchor.fp = Fingerprint(d)
      BY <2>3 DEF CursorDead
    <3>2. d.era \in Nat
      BY FeedReadAssumption DEF Row
    <3>3. d.era < era + 1
      BY <3>1, <3>2, <1>3
    <3>4. \A y \in A : Fingerprint(y) # c.anchor.fp
      BY <2>3, <1>2 DEF CursorDead
    <3>5. CursorDead(c, A, era + 1)
      BY <2>3, <3>1, <3>3, <3>4 DEF CursorDead
    <3> QED BY <3>5
  <2> QED BY <2>1, <2>2, <2>3
<1>7. ASSUME NEW r \in Poller
      PROVE  RequestKnows(r, poll'[r], cursor'[r], appended', Floor', (FeedHead.head)',
                          base'[r], got'[r])
  <2>1. poll'[r].at = "idle"
    BY <1>1 DEF Idle
  <2> QED BY <2>1 DEF RequestKnows
<1>8. /\ poll' = [r \in Poller |-> poll'[r]] /\ cursor' = [r \in Poller |-> cursor'[r]]
      /\ got' = [r \in Poller |-> got'[r]] /\ base' \in [Poller -> Nat]
      /\ \A r \in Poller : \A x \in got'[r] : Wants(r, x)
  BY <1>1 DEF PollInv
<1>9. \A r \in Poller :
         \/ cursor'[r] = NoCursor
         \/ CursorSound(r, cursor'[r], appended', Floor', base'[r], got'[r])
         \/ CursorDead(cursor'[r], appended', era')
  BY <1>1, <1>2, <1>6
<1> HIDE DEF A
<1> QED BY <1>3, <1>4, <1>5, <1>7, <1>8, <1>9 DEF PollInv

(***************************************************************************)
(* Polling: the requests.                                                  *)
(***************************************************************************)
\* The cursor made of an anchored head is sound up to it.
LEMMA CursorOfHead ==
    ASSUME NEW r, NEW A, NEW fl \in Nat, NEW b, NEW G, NEW n \in Nat, NEW fp,
           NEW pos \in Nat, pos <= n, Anchored(n, fp, A, fl), Has(r, A, b, pos, G),
           NEW c, c = EncodeCursor(pos, AnchorAt(n, fp))
    PROVE  CursorSound(r, c, A, fl, b, G)
<1>1. c.pos = pos /\ c.anchor = AnchorAt(n, fp)
  BY DEF EncodeCursor
<1>2. c.anchor.fp = IF fp = NoFp THEN OriginFp ELSE fp
  BY <1>1 DEF AnchorAt
<1>3. CASE fp \in {OriginFp, NoFp} /\ n <= fl
  <2>1. c.anchor.fp = OriginFp /\ pos <= fl
    BY <1>2, <1>3
  <2> QED BY <2>1, <1>1 DEF CursorSound
<1>4. CASE ~ (fp \in {OriginFp, NoFp} /\ n <= fl)
  <2>1. PICK y \in A : y.seq = n /\ fp = Fingerprint(y)
    BY <1>4 DEF Anchored
  <2>2. fp # NoFp
    BY <2>1, FingerprintFacts
  <2> QED BY <2>1, <2>2, <1>1, <1>2 DEF CursorSound
<1> QED BY <1>3, <1>4

\* The facts about the feed that the requests use.
LEMMA PollNumbers ==
    ASSUME PollInv
    PROVE  /\ FeedHead.head \in Nat /\ pruned.through \in Nat /\ Floor \in Nat
           /\ pruned.through <= FeedHead.head /\ Floor <= FeedHead.head
           /\ Anchored(FeedHead.head, FeedHead.fp, appended, Floor)
           /\ \A x \in appended :
                 x.seq \in Nat /\ x.seq <= FeedHead.head /\ x.seq > Floor
  BY FeedNumbers, HeadAnchored, FloorIsNat DEF PollInv, FeedHead, MarkerSound

\* No check passes a cursor whose row was taken back.
LEMMA DeadIsRefused ==
    ASSUME PollInv, NEW c, CursorDead(c, appended, era),
           AnchorHoldsAtMarker(c.anchor) \/ AnchorHoldsInPage(c.anchor)
    PROVE  FALSE
<1> DEFINE fp == c.anchor.fp
<1>1. fp # OriginFp /\ fp # NoFp /\ \A y \in appended : Fingerprint(y) # fp
  BY FingerprintFacts DEF CursorDead
<1>2. Anchored(FeedHead.head, FeedHead.fp, appended, Floor)
  BY PollNumbers
<1>3. FeedHead.fp # fp
  BY <1>1, <1>2 DEF Anchored
<1>4. pruned.fp # fp
  BY <1>1 DEF PollInv, MarkerSound
<1>5. \A x \in feed : Fingerprint(x) # fp
  BY <1>1 DEF PollInv, FeedSound
<1> QED BY <1>1, <1>3, <1>4, <1>5 DEF AnchorHoldsAtMarker, AnchorHoldsInPage

\* A sound cursor's holder has everything up to its position.
LEMMA SoundHas ==
    ASSUME PollInv, NEW r, NEW c, NEW b, NEW G, CursorSound(r, c, appended, Floor, b, G)
    PROVE  Has(r, appended, b, c.pos, G)
<1>1. CASE c.anchor.fp = OriginFp /\ c.pos <= Floor
  <2>1. c.pos \in Nat /\ Floor \in Nat /\ \A x \in appended : x.seq \in Nat /\ x.seq > Floor
    BY PollNumbers DEF CursorSound
  <2> QED BY <1>1, <2>1 DEF Has
<1>2. CASE ~ (c.anchor.fp = OriginFp /\ c.pos <= Floor)
  BY <1>2 DEF CursorSound
<1> QED BY <1>1, <1>2
\* since=head.
LEMMA HeadStep ==
    ASSUME PollInv, UNCHANGED feedVars, UNCHANGED <<cursor, base, got>>,
           NEW r \in Poller, PollHead(r)
    PROVE  PollInv'
<1> DEFINE h == FeedHead.head
<1> DEFINE t == pruned.through
<1>0. /\ h \in Nat /\ t \in Nat /\ Floor \in Nat /\ t <= h
      /\ Anchored(h, FeedHead.fp, appended, Floor)
      /\ \A x \in appended : x.seq \in Nat
  BY PollNumbers
<1> DEFINE p == [at |-> "answered", code |-> "ok", out |-> {},
                 next |-> HeadCursor, more |-> FALSE, base |-> FeedHead.head]
<1>1. poll' = [poll EXCEPT ![r] = p]
  BY DEF PollHead, Answer
<1>2. p.at = "answered" /\ p.out = {} /\ p.next = HeadCursor /\ p.base = h
  OBVIOUS
<1> HIDE DEF p
<1> DEFINE G == got[r] \cup p.out
<1>3. Has(r, appended, h, h, G)
  BY <1>0 DEF Has
<1>4. CursorSound(r, HeadCursor, appended, Floor, h, G)
  <2>1. HeadCursor = EncodeCursor(h, AnchorAt(h, FeedHead.fp)) /\ h <= h
    BY <1>0 DEF HeadCursor
  <2> HIDE DEF h, G
  <2> QED BY <1>0, <1>3, <2>1, CursorOfHead
<1>5. RequestKnows(r, p, cursor[r], appended, Floor, FeedHead.head, base[r], got[r])
  BY <1>2, <1>4, <1>0 DEF RequestKnows
<1> QED BY <1>1, <1>5, RequestMoves

\* No `since': from the oldest retained entry.
LEMMA OldestStep ==
    ASSUME PollInv, UNCHANGED feedVars, UNCHANGED <<cursor, base, got>>,
           NEW r \in Poller, NEW limit \in Limits, PollOldest(r, limit)
    PROVE  PollInv'
<1> DEFINE h == FeedHead.head
<1> DEFINE t == pruned.through
<1>0. /\ h \in Nat /\ t \in Nat /\ Floor \in Nat /\ t <= h
      /\ Anchored(h, FeedHead.fp, appended, Floor)
      /\ \A x \in appended : x.seq \in Nat
  BY PollNumbers
<1> DEFINE ev == NewEvaluation(t, FALSE, limit)
<1> DEFINE p == [at |-> "scan", ev |-> ev, base |-> t]
<1>1. poll' = [poll EXCEPT ![r] = p]
  BY DEF PollOldest, Answer
<1>2. /\ ev.pos = t /\ ev.check = FALSE /\ ev.limit = limit /\ ev.out = {}
      /\ ev.head = h /\ ev.fp = FeedHead.fp
  BY DEF NewEvaluation
<1> HIDE DEF ev
<1>3. p.at = "scan" /\ p.ev = ev /\ p.base = t
  OBVIOUS
<1> HIDE DEF p
<1>4. Has(r, appended, t, t, got[r] \cup ev.out)
  BY <1>0 DEF Has
<1>5. limit \in Nat \ {0}
  BY PollingAssumption
<1>6. h <= FeedHead.head
  BY <1>0
<1>7. RequestSound(r, p, appended, Floor, FeedHead.head, got[r])
  <2> HIDE DEF t
  <2> QED BY <1>2, <1>3, <1>4, <1>5, <1>6, <1>0 DEF RequestSound
<1>8. RequestKnows(r, p, cursor[r], appended, Floor, FeedHead.head, base[r], got[r])
  BY <1>2, <1>3, <1>7 DEF RequestKnows
<1> QED BY <1>1, <1>8, RequestMoves

\* Answers that carry nothing.
LEMMA QuietKnows ==
    ASSUME NEW r, NEW c, NEW A, NEW fl, NEW h, NEW b, NEW G
    PROVE  /\ RequestKnows(r, Expired, c, A, fl, h, b, G)
           /\ RequestKnows(r, Idle, c, A, fl, h, b, G)
  BY DEF RequestKnows, Expired, Idle

\* since=<cursor>.
LEMMA CursorStep ==
    ASSUME PollInv, UNCHANGED feedVars, UNCHANGED <<cursor, base, got>>,
           NEW r \in Poller, NEW limit \in Limits, PollCursor(r, limit)
    PROVE  PollInv'
<1> DEFINE c == cursor[r]
<1> DEFINE h == FeedHead.head
<1> DEFINE ev == NewEvaluation(c.pos, TRUE, limit)
<1> DEFINE go(at) == [at |-> at, ev |-> ev, base |-> base[r]]
<1> DEFINE held == /\ Decodes(c) /\ Placed(c.pos) /\ AnchorAtMarker(c.anchor)
                   /\ AnchorHoldsAtMarker(c.anchor)
<1> DEFINE later == Decodes(c) /\ Placed(c.pos) /\ ~ AnchorAtMarker(c.anchor)
<1>1. c # NoCursor
  BY DEF PollCursor
<1>2. \/ poll' = [poll EXCEPT ![r] = Expired]
      \/ held /\ poll' = [poll EXCEPT ![r] = go("scan")]
      \/ later /\ poll' = [poll EXCEPT ![r] = go("anchor")]
  BY DEF PollCursor, Answer
<1>3. CASE poll' = [poll EXCEPT ![r] = Expired]
  BY <1>3, QuietKnows, RequestMoves
<1>4. ASSUME NEW at \in {"scan", "anchor"}, Placed(c.pos),
             at = "scan" => AnchorHoldsAtMarker(c.anchor),
             poll' = [poll EXCEPT ![r] = go(at)]
      PROVE  PollInv'
  <2> DEFINE p == go(at)
  <2>1. /\ ev.pos = c.pos /\ ev.check = TRUE /\ ev.limit = limit /\ ev.out = {}
        /\ ev.head = h /\ ev.fp = FeedHead.fp
    BY DEF NewEvaluation
  <2>2. /\ h \in Nat /\ Floor \in Nat /\ Anchored(h, FeedHead.fp, appended, Floor)
    BY PollNumbers
  <2>3. CursorSound(r, c, appended, Floor, base[r], got[r]) \/ CursorDead(c, appended, era)
    BY <1>1 DEF PollInv
  <2>4. c.pos \in Nat /\ c.pos <= h /\ base[r] \in Nat
    BY <2>3, <1>4 DEF CursorSound, CursorDead, Placed, PollInv
  <2> HIDE DEF ev
  <2>5. p.at = at /\ p.ev = ev /\ p.base = base[r]
    OBVIOUS
  <2>6. ASSUME at = "scan" PROVE Has(r, appended, base[r], ev.pos, got[r] \cup ev.out)
    <3>1. CursorSound(r, c, appended, Floor, base[r], got[r])
      BY <2>3, <2>6, <1>4, DeadIsRefused
    <3>2. Has(r, appended, base[r], c.pos, got[r])
      BY <3>1, SoundHas
    <3> QED BY <3>2, <2>1
  <2> HIDE DEF p
  <2>7. limit \in Nat \ {0}
    BY PollingAssumption
  <2>8. h <= FeedHead.head
    BY <2>2
  <2>9. RequestSound(r, p, appended, Floor, FeedHead.head, got[r])
    <3> HIDE DEF c
    <3> QED BY <2>1, <2>2, <2>4, <2>5, <2>6, <2>7, <2>8 DEF RequestSound
  <2>10. RequestKnows(r, p, cursor[r], appended, Floor, FeedHead.head, base[r], got[r])
    BY <1>1, <1>4, <2>1, <2>5, <2>9 DEF RequestKnows
  <2> QED BY <1>4, <2>10, RequestMoves DEF p
<1>5. CASE held /\ poll' = [poll EXCEPT ![r] = go("scan")]
  BY <1>4, <1>5
<1>6. CASE later /\ poll' = [poll EXCEPT ![r] = go("anchor")]
  BY <1>4, <1>6
<1> QED BY <1>2, <1>3, <1>5, <1>6

\* The second read, for the anchor's row.
LEMMA AnchorStep ==
    ASSUME PollInv, UNCHANGED feedVars, UNCHANGED <<cursor, base, got>>,
           NEW r \in Poller, CheckAnchor(r)
    PROVE  PollInv'
<1> DEFINE c == cursor[r]
<1> DEFINE q == poll[r]
<1> DEFINE p == [at |-> "scan", ev |-> q.ev, base |-> q.base]
<1>1. q.at = "anchor"
      /\ poll' = [poll EXCEPT ![r] = IF AnchorHoldsInPage(c.anchor) THEN p ELSE Expired]
  BY DEF CheckAnchor, Answer
<1>2. /\ RequestSound(r, q, appended, Floor, FeedHead.head, got[r])
      /\ q.ev.check /\ q.base = base[r] /\ c # NoCursor
      /\ q.ev.pos = c.pos /\ q.ev.out = {}
  BY <1>1 DEF PollInv, RequestKnows
<1>3. CASE ~ AnchorHoldsInPage(c.anchor)
  BY <1>1, <1>3, QuietKnows, RequestMoves
<1>4. CASE AnchorHoldsInPage(c.anchor)
  <2>1. CursorSound(r, c, appended, Floor, base[r], got[r])
    BY <1>2, <1>4, DeadIsRefused DEF PollInv
  <2>2. Has(r, appended, base[r], c.pos, got[r])
    BY <2>1, SoundHas
  <2>3. p.at = "scan" /\ p.ev = q.ev /\ p.base = q.base
    OBVIOUS
  <2> HIDE DEF p
  <2>4. Has(r, appended, p.base, p.ev.pos, got[r] \cup p.ev.out)
    BY <1>2, <2>2, <2>3
  <2>5. RequestSound(r, p, appended, Floor, FeedHead.head, got[r])
    BY <1>2, <2>3, <2>4 DEF RequestSound
  <2>6. RequestKnows(r, p, cursor[r], appended, Floor, FeedHead.head, base[r], got[r])
    BY <1>2, <2>3, <2>5 DEF RequestKnows
  <2> QED BY <1>1, <1>4, <2>6, RequestMoves DEF p
<1> QED BY <1>3, <1>4
\* A turn of the scan loop, up to the answer.
LEMMA ScanStep ==
    ASSUME PollInv, UNCHANGED feedVars, UNCHANGED <<cursor, base, got>>,
           NEW r \in Poller, Scan(r)
    PROVE  PollInv'
<1> DEFINE q == poll[r]
<1> DEFINE old == q.ev
<1> DEFINE h == FeedHead.head
<1> DEFINE t == pruned.through
<1>1. q.at = "scan"
  BY DEF Scan
<1>2. /\ RequestSound(r, q, appended, Floor, h, got[r])
      /\ old.check => q.base = base[r]
  BY <1>1 DEF PollInv, RequestKnows
<1>3. /\ old.pos \in Nat /\ old.head \in Nat /\ q.base \in Nat /\ old.pos <= old.head
      /\ old.head <= h /\ old.limit \in Nat \ {0}
      /\ \A x \in old.out : Wants(r, x)
      /\ Has(r, appended, q.base, old.pos, got[r] \cup old.out)
  BY <1>1, <1>2 DEF RequestSound
<1>4. /\ h \in Nat /\ t \in Nat /\ Floor \in Nat
      /\ Anchored(h, FeedHead.fp, appended, Floor)
      /\ \A x \in appended : x.seq \in Nat
  BY PollNumbers
<1>5. CASE Overtaken(old)
  <2>1. poll' = [poll EXCEPT ![r] = Expired]
    BY <1>5 DEF Scan, Answer
  <2> QED BY <2>1, QuietKnows, RequestMoves
<1>6. CASE ~ Overtaken(old)
  <2> DEFINE page == Page(r, old)
  <2>1. PICK cut \in Cuts(r, old, page) :
          \E stop \in {StopAt(r, old, page, cut)} :
          \E ev \in {Scanned(r, old, page, stop)},
             b \in {IF old.check THEN q.base ELSE Max({q.base, t})} :
               Answer(r, IF ~ ScanEnds(r, ev, page, stop)
                         THEN [at |-> "scan", base |-> b, ev |-> ev]
                         ELSE [at |-> "answered", code |-> "ok",
                               out |-> ev.out, base |-> b,
                               next |-> EncodeCursor(ev.pos, AnchorAt(ev.head, ev.fp)),
                               more |-> ev.pos < ev.head])
    BY <1>6 DEF Scan
  <2> DEFINE stop == StopAt(r, old, page, cut)
  <2> DEFINE ev == Scanned(r, old, page, stop)
  <2> DEFINE b == IF old.check THEN q.base ELSE Max({q.base, t})
  <2> DEFINE next == EncodeCursor(ev.pos, AnchorAt(ev.head, ev.fp))
  <2> DEFINE more == [at |-> "scan", base |-> b, ev |-> ev]
  <2> DEFINE done == [at |-> "answered", code |-> "ok", out |-> ev.out, base |-> b,
                      next |-> next, more |-> ev.pos < ev.head]
  <2>2. poll' = [poll EXCEPT ![r] = more] \/ poll' = [poll EXCEPT ![r] = done]
    BY <2>1 DEF Answer
  <2>3. IsEvaluation(old) /\ FeedSound(feed, pruned, appended)
    <3>1. old.pos <= h
      BY <1>3, <1>4
    <3> QED BY <3>1, <1>3 DEF IsEvaluation, PollInv
  <2>4. stop \in Nat
    BY <2>3, StopIsNat
  <2> HIDE DEF page, stop
  <2>5. /\ IsEvaluation(ev) /\ old.pos <= ev.pos
        /\ ev.limit = old.limit /\ ev.check = old.check
        /\ \A x \in ev.out \ old.out :
              x \in feed /\ Wants(r, x) /\ x.seq > old.pos
        /\ old.out \subseteq ev.out
        /\ \A x \in feed : /\ Wants(r, x) /\ x.seq > old.pos /\ x.seq <= ev.pos
                           => x \in ev.out
        /\ ev.head = IF FeedHead.head >= old.head THEN FeedHead.head ELSE old.head
        /\ ev.fp = IF FeedHead.head >= old.head THEN FeedHead.fp ELSE old.fp
    BY <2>3, <2>4, ScannedFacts DEF page
  <2> HIDE DEF ev
  <2>6. ev.head = h /\ ev.fp = FeedHead.fp /\ ev.pos \in Nat /\ ev.pos <= h
        /\ ev.limit \in Nat \ {0}
    BY <2>5, <1>3, <1>4 DEF IsEvaluation
  <2>7. /\ b \in Nat /\ q.base <= b
        /\ \A x \in appended : x.seq > b /\ x.seq > old.pos => x.seq > t
    <3>1. CASE old.check
      <4>1. t <= old.pos
        BY <1>6, <3>1, <1>3, <1>4 DEF Overtaken
      <4> HIDE DEF old, t
      <4> QED BY <4>1, <3>1, <1>3, <1>4
    <3>2. CASE ~ old.check
      <4>1. b = Max({q.base, t})
        BY <3>2
      <4>2. b \in {q.base, t} /\ b >= q.base /\ b >= t
        <5> HIDE DEF q, t
        <5> QED BY <4>1, <1>3, <1>4, MaxOfTwo
      <4> HIDE DEF b, t, q
      <4> QED BY <4>2, <1>3, <1>4
    <3> QED BY <3>1, <3>2
  <2>8. old.check => b = base[r]
    BY <1>2
  <2> HIDE DEF b
  <2>9. \A x \in ev.out : Wants(r, x)
    BY <2>5, <1>3
  <2>10. Has(r, appended, b, ev.pos, got[r] \cup ev.out)
    <3> SUFFICES ASSUME NEW x \in appended, Wants(r, x), x.seq > b, x.seq <= ev.pos
                 PROVE  x \in got[r] \cup ev.out
      BY DEF Has
    <3>1. x.seq \in Nat
      BY <1>4
    <3>2. CASE x.seq <= old.pos
      <4>1. x.seq > q.base
        BY <3>1, <1>3, <2>7
      <4>2. x \in got[r] \cup old.out
        BY <4>1, <3>2, <1>3 DEF Has
      <4> QED BY <4>2, <2>5
    <3>3. CASE ~ (x.seq <= old.pos)
      <4>1. x.seq > old.pos
        BY <3>1, <3>3, <1>3
      <4>2. x.seq > t
        BY <4>1, <2>7
      <4>3. x \in feed
        BY <4>2, <2>3 DEF FeedSound
      <4> QED BY <4>1, <4>3, <2>5
    <3> QED BY <3>2, <3>3
  <2>11. CASE poll' = [poll EXCEPT ![r] = more]
    <3>1. more.at = "scan" /\ more.base = b /\ more.ev = ev
      OBVIOUS
    <3> HIDE DEF more
    <3>2. h <= h
      BY <1>4
    <3>3. RequestSound(r, more, appended, Floor, h, got[r])
      BY <3>1, <3>2, <2>6, <2>7, <2>9, <2>10, <1>4 DEF RequestSound
    <3>4. RequestKnows(r, more, cursor[r], appended, Floor, FeedHead.head, base[r], got[r])
      BY <3>1, <3>3, <2>5, <2>8 DEF RequestKnows
    <3> QED BY <2>11, <3>4, RequestMoves
  <2>12. CASE poll' = [poll EXCEPT ![r] = done]
    <3>1. CursorSound(r, next, appended, Floor, b, got[r] \cup ev.out)
      <4>1. next = EncodeCursor(ev.pos, AnchorAt(h, FeedHead.fp))
        BY <2>6
      <4> DEFINE G == got[r] \cup ev.out
      <4> DEFINE pos == ev.pos
      <4> DEFINE fp == FeedHead.fp
      <4>2. /\ Has(r, appended, b, pos, G) /\ pos \in Nat /\ pos <= h
            /\ Anchored(h, fp, appended, Floor) /\ h \in Nat /\ Floor \in Nat
            /\ next = EncodeCursor(pos, AnchorAt(h, fp))
        BY <4>1, <2>6, <2>10, <1>4
      <4> HIDE DEF G, pos, fp, h, next
      <4>3. CursorSound(r, next, appended, Floor, b, G)
        BY <4>2, CursorOfHead
      <4> QED BY <4>3 DEF G
    <3> HIDE DEF next
    <3>2. done.at = "answered" /\ done.out = ev.out /\ done.base = b /\ done.next = next
      OBVIOUS
    <3> HIDE DEF done
    <3>3. RequestKnows(r, done, cursor[r], appended, Floor, FeedHead.head, base[r], got[r])
      BY <3>1, <3>2, <2>7, <2>9 DEF RequestKnows
    <3> QED BY <2>12, <3>3, RequestMoves
  <2> QED BY <2>2, <2>11, <2>12
<1> QED BY <1>5, <1>6

\* The consumer takes the answer.
LEMMA ReceiveStep ==
    ASSUME PollInv, UNCHANGED feedVars, NEW r \in Poller, Receive(r)
    PROVE  PollInv'
<1> DEFINE a == poll[r]
<1>1. a.at = "answered" /\ poll' = [poll EXCEPT ![r] = Idle]
  BY DEF Receive, Answer
<1>2. UNCHANGED <<feed, pruned, appended, era, legacy>> /\ backup' = backup
  BY DEF feedVars
<1>3. /\ FeedSound(backup'.feed, backup'.pruned, backup'.appended)
      /\ MarkerSound(backup'.pruned, backup'.appended, Floor)
      /\ backup'.appended \subseteq appended
  BY <1>2 DEF PollInv
<1>4. poll'[r] = Idle /\ \A q \in Poller : q # r => poll'[q] = poll[q]
  BY <1>1 DEF PollInv
<1>5. RequestKnows(r, poll'[r], cursor'[r], appended, Floor, FeedHead.head,
                   base'[r], got'[r])
  BY <1>4, QuietKnows
<1>6. /\ poll' = [q \in Poller |-> poll'[q]] /\ cursor' = [q \in Poller |-> cursor'[q]]
      /\ got' = [q \in Poller |-> got'[q]]
      /\ \A q \in Poller : q # r => /\ cursor'[q] = cursor[q] /\ got'[q] = got[q]
                                    /\ base'[q] = base[q]
  BY <1>1 DEF PollInv, Receive
<1>7. /\ base' \in [Poller -> Nat]
      /\ \A x \in got'[r] : Wants(r, x)
      /\ \/ cursor'[r] = NoCursor
         \/ CursorSound(r, cursor'[r], appended, Floor, base'[r], got'[r])
  <2>1. CASE a.code = "ok"
    <3>1. /\ cursor'[r] = a.next /\ got'[r] = got[r] \cup a.out /\ base'[r] = a.base
          /\ base' = [base EXCEPT ![r] = a.base]
      BY <2>1 DEF Receive, PollInv
    <3>2. /\ a.base \in Nat /\ \A x \in a.out : Wants(r, x)
          /\ CursorSound(r, a.next, appended, Floor, a.base, got[r] \cup a.out)
          /\ \A x \in got[r] : Wants(r, x)
      BY <1>1, <2>1 DEF PollInv, RequestKnows
    <3>3. base' \in [Poller -> Nat]
      BY <3>1, <3>2 DEF PollInv
    <3> QED BY <3>1, <3>2, <3>3
  <2>2. CASE a.code # "ok"
    BY <2>2 DEF Receive, PollInv
  <2> QED BY <2>1, <2>2
<1>8. ASSUME NEW q \in Poller
      PROVE  /\ \A x \in got'[q] : Wants(q, x)
             /\ \/ cursor'[q] = NoCursor
                \/ CursorSound(q, cursor'[q], appended, Floor, base'[q], got'[q])
                \/ CursorDead(cursor'[q], appended, era)
             /\ RequestKnows(q, poll'[q], cursor'[q], appended, Floor, FeedHead.head,
                             base'[q], got'[q])
  <2>1. CASE q = r
    BY <2>1, <1>5, <1>7
  <2>2. CASE q # r
    BY <2>2, <1>4, <1>6 DEF PollInv
  <2> QED BY <2>1, <2>2
<1> QED BY <1>2, <1>3, <1>6, <1>7, <1>8, PollFrame

(***************************************************************************)
(* Polling: the theorems.                                                  *)
(***************************************************************************)
\* Before anything happened.
LEMMA PollInitInv == PollInit => PollInv
<1> SUFFICES ASSUME PollInit PROVE PollInv
  OBVIOUS
<1>1. /\ feed = {} /\ appended = {} /\ era = 0 /\ legacy \in BOOLEAN
      /\ pruned = IF legacy THEN [through |-> 1, fp |-> NoFp]
                  ELSE [through |-> 0, fp |-> NoFp]
      /\ backup.feed = feed /\ backup.pruned = pruned /\ backup.appended = {}
      /\ poll = [r \in Poller |-> Idle] /\ cursor = [r \in Poller |-> NoCursor]
      /\ base = [r \in Poller |-> 0] /\ got = [r \in Poller |-> {}]
  BY FeedReadAssumption DEF PollInit, FeedInit
<1>2. pruned.through = Floor /\ pruned.fp = NoFp /\ Floor \in Nat
  BY <1>1 DEF Floor
<1>3. IsFiniteSet(appended)
  BY <1>1, FS_EmptySet
<1>4. FeedSound(feed, pruned, appended) /\ MarkerSound(pruned, appended, Floor)
  BY <1>1, <1>2, <1>3 DEF FeedSound, MarkerSound
<1>5. /\ FeedSound(backup.feed, backup.pruned, backup.appended)
      /\ MarkerSound(backup.pruned, backup.appended, Floor)
  BY <1>1, <1>4
<1>6. era \in 0 .. MaxEras
  BY <1>1, FeedReadAssumption
<1>7. \A r \in Poller :
         RequestKnows(r, poll[r], cursor[r], appended, Floor, FeedHead.head,
                      base[r], got[r])
  BY <1>1, QuietKnows
<1> QED BY <1>1, <1>4, <1>5, <1>6, <1>7 DEF PollInv

\* Every step keeps the invariant.
LEMMA PollNextInv ==
    ASSUME PollInv, [PollNext]_pollingVars
    PROVE  PollInv'
<1>1. ASSUME NEW e \in Entry, NEW seq \in 1 .. MaxSeq,
             AppendEntry(e, seq), UNCHANGED pollVars
      PROVE  PollInv'
  BY <1>1, AppendPollStep
<1>2. ASSUME NEW x \in feed, PruneFeed(x), UNCHANGED pollVars PROVE PollInv'
  BY <1>2, PrunePollStep
<1>3. CASE TakeBackup /\ UNCHANGED pollVars
  BY <1>3, BackupPollStep
<1>4. CASE Reset
  BY <1>4, ResetPollStep
<1>5. ASSUME NEW r \in Poller, Client(r) PROVE PollInv'
  <2>1. UNCHANGED feedVars
    BY <1>5 DEF Client
  <2>2. CASE PollHead(r) /\ UNCHANGED <<cursor, base, got>>
    BY <2>1, <2>2, HeadStep
  <2>3. ASSUME NEW limit \in Limits, PollOldest(r, limit) \/ PollCursor(r, limit),
               UNCHANGED <<cursor, base, got>>
        PROVE  PollInv'
    BY <2>1, <2>3, OldestStep, CursorStep
  <2>4. CASE (CheckAnchor(r) \/ Scan(r)) /\ UNCHANGED <<cursor, base, got>>
    BY <2>1, <2>4, AnchorStep, ScanStep
  <2>5. CASE Receive(r)
    BY <2>1, <2>5, ReceiveStep
  <2> QED BY <1>5, <2>2, <2>3, <2>4, <2>5 DEF Client, Request
<1>6. ASSUME NEW r \in Poller, Lose(r), UNCHANGED feedVars PROVE PollInv'
  <2>1. poll' = [poll EXCEPT ![r] = Idle] /\ UNCHANGED <<cursor, base, got>>
    BY <1>6 DEF Lose, Answer
  <2> QED BY <1>6, <2>1, QuietKnows, RequestMoves
<1>7. ASSUME UNCHANGED pollingVars PROVE PollInv'
  <2>1. /\ feed' = feed /\ pruned' = pruned /\ appended' = appended /\ era' = era
        /\ backup' = backup /\ legacy' = legacy
        /\ poll' = poll /\ cursor' = cursor /\ base' = base /\ got' = got
    BY <1>7 DEF pollingVars, feedVars, pollVars
  <2>2. (FeedHead.head)' = FeedHead.head /\ Floor' = Floor
    BY <2>1 DEF FeedHead, Floor
  <2> QED BY <2>1, <2>2 DEF PollInv
<1> QED BY <1>1, <1>2, <1>3, <1>4, <1>5, <1>6, <1>7 DEF PollNext

\* Every cursor a consumer holds is of the feed as it is, and then its
\* holder has everything up to its position, or is of a feed that a restore
\* took back, and then its anchor says so.
THEOREM PollInvariant == PollSpec => []PollInv
<1>1. PollInv /\ [PollNext]_pollingVars => PollInv'
  BY PollNextInv
<1> QED BY <1>1, PollInitInv, PTL DEF PollSpec

\* A cursor that is served skips nothing, and nothing hidden or unasked for
\* is sent (NothingSkipped; anchor_holds, evaluate_changes and the pruner's
\* marker, through prunes, restores and lost answers).
THEOREM ServedCursorsSkipNothing == PollSpec => []NothingSkipped
<1>1. PollInv => NothingSkipped
  <2> SUFFICES ASSUME PollInv, NEW r \in Poller
               PROVE  /\ poll[r].at = "scan" /\ poll[r].ev.check =>
                            \A x \in appended :
                                Wants(r, x) /\ x.seq > base[r] /\ x.seq <= poll[r].ev.pos
                                    => x \in got[r] \cup poll[r].ev.out
                      /\ \A x \in got[r] : Wants(r, x)
    BY DEF NothingSkipped
  <2>1. /\ \A x \in got[r] : Wants(r, x)
        /\ RequestKnows(r, poll[r], cursor[r], appended, Floor, FeedHead.head,
                        base[r], got[r])
    BY DEF PollInv
  <2> QED BY <2>1 DEF RequestKnows, RequestSound, Has
<1> QED BY <1>1, PollInvariant, PTL
(***************************************************************************)
(* Polling: the watch filter.                                              *)
(***************************************************************************)
\* Equal prefixes, digit by digit.
LEMMA PrefixFacts ==
    ASSUME NEW D, NEW g \in Seq(D), NEW h \in Seq(D), NEW n \in Nat,
           n <= Len(g), n <= Len(h)
    PROVE  SubSeq(g, 1, n) = SubSeq(h, 1, n) <=> \A i \in 1 .. n : g[i] = h[i]
<1> DEFINE u == SubSeq(g, 1, n)
<1> DEFINE v == SubSeq(h, 1, n)
<1>1. u \in Seq(D) /\ Len(u) = n /\ \A i \in 1 .. n : u[i] = g[i]
  OBVIOUS
<1>2. v \in Seq(D) /\ Len(v) = n /\ \A i \in 1 .. n : v[i] = h[i]
  OBVIOUS
<1> HIDE DEF u, v
<1>3. u = v <=> \A i \in 1 .. n : u[i] = v[i]
  BY <1>1, <1>2
<1>4. u = v <=> \A i \in 1 .. n : g[i] = h[i]
  BY <1>1, <1>2, <1>3
<1> QED BY <1>4 DEF u, v

\* A whole sequence as a prefix.
LEMMA WholePrefix ==
    ASSUME NEW D, NEW g \in Seq(D), NEW h \in Seq(D), Len(g) <= Len(h)
    PROVE  SubSeq(h, 1, Len(g)) = g <=> \A i \in 1 .. Len(g) : h[i] = g[i]
<1> DEFINE v == SubSeq(h, 1, Len(g))
<1>1. v \in Seq(D) /\ Len(v) = Len(g) /\ \A i \in 1 .. Len(g) : v[i] = h[i]
  OBVIOUS
<1> HIDE DEF v
<1>2. v = g <=> \A i \in 1 .. Len(g) : v[i] = g[i]
  BY <1>1
<1>3. v = g <=> \A i \in 1 .. Len(g) : h[i] = g[i]
  BY <1>1, <1>2
<1> QED BY <1>3 DEF v

\* No digit string that is at least as long as another is before it unless a
\* digit of it is smaller, the ones up to that being equal.
LEMMA BeforeFacts ==
    ASSUME NEW g \in Seq(Nat), NEW h \in Seq(Nat), Len(g) >= Len(h)
    PROVE  Before(g, h) <=>
              \E i \in 1 .. Len(h) : g[i] < h[i] /\ \A j \in 1 .. i - 1 : g[j] = h[j]
<1>1. DOMAIN g = 1 .. Len(g) /\ DOMAIN h = 1 .. Len(h) /\ Len(g) \in Nat /\ Len(h) \in Nat
  OBVIOUS
<1>2. DOMAIN g \cap DOMAIN h = 1 .. Len(h)
  BY <1>1
<1>3. ~ (Len(g) < Len(h))
  BY <1>1
<1>4. ASSUME NEW i \in 1 .. Len(h)
      PROVE  SubSeq(g, 1, i - 1) = SubSeq(h, 1, i - 1) <=> \A j \in 1 .. i - 1 : g[j] = h[j]
  <2>1. i - 1 \in Nat /\ i - 1 <= Len(g) /\ i - 1 <= Len(h)
    BY <1>1
  <2> DEFINE n == i - 1
  <2> HIDE DEF n
  <2>2. SubSeq(g, 1, n) = SubSeq(h, 1, n) <=> \A j \in 1 .. n : g[j] = h[j]
    BY <2>1, PrefixFacts DEF n
  <2> QED BY <2>2 DEF n
<1> QED BY <1>2, <1>3, <1>4 DEF Before

\* The upper bound of a bucket that has one: the digits before its last one
\* below the greatest stay, that one goes up, the ones after it are zero.
LEMMA UpperFacts ==
    ASSUME MaxDigit \in Nat, NEW b \in Seq(0 .. MaxDigit)
    PROVE  LET u == BucketUpper(b)
           IN  IF \A i \in 1 .. Len(b) : b[i] = MaxDigit THEN u = << >>
               ELSE /\ u # << >> /\ u \in Seq(Nat) /\ Len(u) = Len(b)
                    /\ \E m \in 1 .. Len(b) :
                          /\ b[m] < MaxDigit /\ u[m] = b[m] + 1
                          /\ \A i \in 1 .. Len(b) : i < m => u[i] = b[i]
                          /\ \A i \in 1 .. Len(b) : i > m => u[i] = 0 /\ b[i] = MaxDigit
<1> DEFINE below == {i \in DOMAIN b : b[i] # MaxDigit}
<1> DEFINE m == Max(below)
<1> DEFINE u == [i \in DOMAIN b |-> IF i < m THEN b[i] ELSE IF i = m THEN b[i] + 1 ELSE 0]
<1>1. BucketUpper(b) = IF below = {} THEN << >> ELSE u
  BY DEF BucketUpper
<1>2. DOMAIN b = 1 .. Len(b) /\ Len(b) \in Nat /\ \A i \in 1 .. Len(b) : b[i] \in 0 .. MaxDigit
  OBVIOUS
<1>3. below = {} <=> \A i \in 1 .. Len(b) : b[i] = MaxDigit
  BY <1>2
<1>4. ASSUME below # {}
      PROVE  /\ u # << >> /\ u \in Seq(Nat) /\ Len(u) = Len(b)
             /\ m \in 1 .. Len(b) /\ b[m] < MaxDigit /\ u[m] = b[m] + 1
             /\ \A i \in 1 .. Len(b) : i < m => u[i] = b[i]
             /\ \A i \in 1 .. Len(b) : i > m => u[i] = 0 /\ b[i] = MaxDigit
  <2>1. below \subseteq Nat /\ \A i \in below : i <= Len(b)
    BY <1>2
  <2>2. m \in below /\ \A i \in below : i <= m
    <3> HIDE DEF below
    <3> QED BY <1>2, <1>4, <2>1, MaxOfBounded
  <2> HIDE DEF m
  <2>3. /\ m \in 1 .. Len(b) /\ b[m] < MaxDigit
        /\ \A i \in 1 .. Len(b) : i > m => b[i] = MaxDigit
    BY <2>2, <1>2
  <2>4. u \in [1 .. Len(b) -> Nat]
    BY <1>2
  <2>5. u \in Seq(Nat) /\ Len(u) = Len(b)
    <3> HIDE DEF u
    <3> QED BY <2>4, <1>2
  <2>6. /\ u[m] = b[m] + 1
        /\ \A i \in 1 .. Len(b) : i < m => u[i] = b[i]
        /\ \A i \in 1 .. Len(b) : i > m => u[i] = 0
    BY <2>3, <1>2
  <2> HIDE DEF u
  <2>7. u # << >>
    BY <2>3, <2>5, <1>2
  <2> QED BY <2>3, <2>5, <2>6, <2>7
<1> DEFINE w == BucketUpper(b)
<1>5. CASE below = {}
  BY <1>1, <1>3, <1>5
<1>6. CASE below # {}
  <2> HIDE DEF u, m
  <2>1. w = u
    BY <1>1, <1>6
  <2> HIDE DEF w, below
  <2>2. /\ w # << >> /\ w \in Seq(Nat) /\ Len(w) = Len(b)
        /\ \E k \in 1 .. Len(b) :
              /\ b[k] < MaxDigit /\ w[k] = b[k] + 1
              /\ \A i \in 1 .. Len(b) : i < k => w[i] = b[i]
              /\ \A i \in 1 .. Len(b) : i > k => w[i] = 0 /\ b[i] = MaxDigit
    BY <2>1, <1>4, <1>6
  <2> QED BY <1>3, <1>6, <2>2 DEF w
<1> QED BY <1>5, <1>6

\* The range the SQL backends scan is the prefix the memory backend compares.
LEMMA RangeIsBucket ==
    ASSUME MaxDigit \in Nat, NEW b \in Seq(0 .. MaxDigit), NEW h \in Seq(0 .. MaxDigit),
           Len(b) <= Len(h)
    PROVE  InRange(b, h) <=> InBucket(b, h)
<1> DEFINE n == Len(b)
<1>1. /\ n \in Nat /\ Len(h) \in Nat /\ n <= Len(h)
      /\ b \in Seq(Nat) /\ h \in Seq(Nat)
      /\ \A i \in 1 .. n : b[i] \in 0 .. MaxDigit /\ h[i] \in 0 .. MaxDigit
  OBVIOUS
<1>2. InBucket(b, h) <=> \A i \in 1 .. n : h[i] = b[i]
  BY WholePrefix DEF InBucket
<1>3. Before(h, b) <=>
         \E i \in 1 .. n : h[i] < b[i] /\ \A j \in 1 .. i - 1 : h[j] = b[j]
  BY <1>1, BeforeFacts
<1> DEFINE u == BucketUpper(b)
<1> HIDE DEF n
<1>4. ASSUME \A i \in 1 .. n : h[i] = b[i] PROVE InRange(b, h)
  <2>1. ~ Before(h, b)
    BY <1>1, <1>3, <1>4
  <2>2. ASSUME u # << >> PROVE Before(h, u)
    <3>1. ~ \A i \in 1 .. n : b[i] = MaxDigit
      BY <2>2, UpperFacts DEF n
    <3>2. /\ u \in Seq(Nat) /\ Len(u) = n
          /\ \E m \in 1 .. n : /\ b[m] < MaxDigit /\ u[m] = b[m] + 1
                               /\ \A i \in 1 .. n : i < m => u[i] = b[i]
      BY <3>1, UpperFacts DEF n
    <3> HIDE DEF u
    <3>3. PICK m \in 1 .. n : /\ u[m] = b[m] + 1
                              /\ \A i \in 1 .. n : i < m => u[i] = b[i]
      BY <3>2
    <3>4. h[m] < u[m]
      <4>1. h[m] = b[m] /\ b[m] \in Nat
        BY <1>1, <1>4
      <4> QED BY <4>1, <3>3
    <3>5. \A j \in 1 .. m - 1 : h[j] = u[j]
      <4>1. \A j \in 1 .. m - 1 : j \in 1 .. n /\ j < m
        BY <1>1
      <4> QED BY <4>1, <1>4, <3>3
    <3>6. Len(h) >= Len(u) /\ m \in 1 .. Len(u)
      BY <1>1, <3>2
    <3> QED BY <1>1, <3>2, <3>4, <3>5, <3>6, BeforeFacts
  <2> QED BY <2>1, <2>2 DEF InRange
<1>5. ASSUME ~ \A i \in 1 .. n : h[i] = b[i] PROVE ~ InRange(b, h)
  <2> DEFINE T == {i \in 1 .. n : h[i] # b[i]}
  <2>1. T \subseteq Nat /\ T # {}
    <3>1. PICK k \in 1 .. n : h[k] # b[k]
      BY <1>5
    <3>2. k \in T
      BY <3>1
    <3>3. T \subseteq Nat
      BY <1>1
    <3> QED BY <3>2, <3>3
  <2>2. PICK i \in T : \A j \in T : i <= j
    BY <2>1, LeastNat
  <2>3. i \in 1 .. n /\ h[i] # b[i] /\ \A j \in 1 .. i - 1 : h[j] = b[j]
    BY <1>1, <2>2
  <2>4. CASE h[i] < b[i]
    BY <1>3, <2>3, <2>4 DEF InRange
  <2>5. CASE h[i] > b[i]
    <3>1. b[i] # MaxDigit
      BY <1>1, <2>3, <2>5
    <3>2. /\ u # << >> /\ u \in Seq(Nat) /\ Len(u) = n
          /\ \E m \in 1 .. n :
                /\ b[m] < MaxDigit /\ u[m] = b[m] + 1
                /\ \A k \in 1 .. n : k < m => u[k] = b[k]
                /\ \A k \in 1 .. n : k > m => u[k] = 0 /\ b[k] = MaxDigit
      BY <3>1, <2>3, UpperFacts DEF n
    <3> HIDE DEF u
    <3>3. PICK m \in 1 .. n :
             /\ u[m] = b[m] + 1
             /\ \A k \in 1 .. n : k < m => u[k] = b[k]
             /\ \A k \in 1 .. n : k > m => u[k] = 0 /\ b[k] = MaxDigit
      BY <3>2
    <3>4. i <= m
      BY <3>1, <3>3, <2>3
    <3>5. ASSUME NEW k \in 1 .. n, h[k] < u[k], \A j \in 1 .. k - 1 : h[j] = u[j]
          PROVE  FALSE
      <4>1. CASE k < i
        <5>1. h[k] = b[k] /\ u[k] = b[k]
          BY <4>1, <2>3, <3>3, <3>4
        <5> QED BY <5>1, <3>5, <1>1
      <4>2. CASE k = i
        <5>1. u[i] = b[i] \/ u[i] = b[i] + 1
          BY <2>3, <3>3, <3>4
        <5> QED BY <5>1, <4>2, <2>3, <2>5, <3>5, <1>1
      <4>3. CASE k > i /\ i < m
        <5>1. u[i] = b[i] /\ h[i] = u[i]
          BY <4>3, <2>3, <3>3, <3>5
        <5> QED BY <5>1, <2>3
      <4>4. CASE k > i /\ i = m
        <5>1. u[k] = 0
          BY <4>4, <3>3
        <5> QED BY <5>1, <3>5, <1>1
      <4>5. k \in Nat /\ i \in Nat /\ m \in Nat
        BY <1>1, <2>3
      <4>6. k < i \/ k = i \/ (k > i /\ i < m) \/ (k > i /\ i = m)
        BY <4>5, <3>4
      <4> QED BY <4>1, <4>2, <4>3, <4>4, <4>6
    <3>6. ~ Before(h, u)
      BY <1>1, <3>2, <3>5, BeforeFacts
    <3> QED BY <3>2, <3>6 DEF InRange, u
  <2> QED BY <1>1, <2>3, <2>4, <2>5
<1> QED BY <1>2, <1>4, <1>5

\* The watched buckets.
LEMMA WatchedBuckets ==
    ASSUME NEW r \in Reader, NEW v \in Ctx \cup Agent,
           NEW b \in Watch[r].lineageBucket \cup Watch[r].agentBucket
    PROVE  InRange(b, Hash[v]) <=> InBucket(b, Hash[v])
<1>1. /\ MaxDigit \in Nat /\ b \in Seq(0 .. MaxDigit) /\ Hash[v] \in Seq(0 .. MaxDigit)
      /\ Len(b) <= Len(Hash[v])
  BY BucketAssumption
<1> DEFINE h == Hash[v]
<1> HIDE DEF h
<1> QED BY <1>1, RangeIsBucket

\* The two SQL forms of the filter say what the memory backend says.
LEMMA FormsAgree ==
    ASSUME NEW r \in Reader, NEW e \in EntryType
    PROVE  /\ SqliteMatches(r, e) <=> Matches(r, e)
           /\ PgMatches(r, e) <=> Matches(r, e)
<1> DEFINE l == Hash[LineageOf[e.ctx]]
<1> DEFINE g == Hash[e.agent]
<1> DEFINE R == RevocationAgents(r)
<1> DEFINE rev == e.kind = "key_revocation" /\ e.agent \in R
<1> DEFINE W == Watch[r]
<1> DEFINE ids == \/ e.ctx \in W.ctx \/ LineageOf[e.ctx] \in W.lineage
                  \/ e.agent \in W.agent \/ rev
<1> DEFINE inBuckets == \/ \E b \in W.lineageBucket : InBucket(b, l)
                        \/ \E b \in W.agentBucket : InBucket(b, g)
<1> DEFINE some == \/ W.ctx # {} \/ W.lineage # {} \/ W.agent # {}
                   \/ W.lineageBucket # {} \/ W.agentBucket # {} \/ R # {}
<1>1. LineageOf[e.ctx] \in Ctx /\ e.agent \in Agent
  BY FeedReadAssumption DEF EntryType
<1>2. /\ \A b \in W.lineageBucket : InRange(b, l) <=> InBucket(b, l)
      /\ \A b \in W.agentBucket : InRange(b, g) <=> InBucket(b, g)
  BY <1>1, WatchedBuckets
<1>3. HasIdClause(r) <=> some
  BY DEF HasIdClause
<1>4. Matches(r, e) <=> (~ some \/ ids \/ inBuckets) /\ KindMatches(r, e)
  BY <1>3 DEF Matches
<1>5. SqliteMatches(r, e) <=> (some => ids \/ inBuckets) /\ KindMatches(r, e)
  <2>1. (\E arm \in {<<"ctx", e.ctx>>, <<"lineage", LineageOf[e.ctx]>>,
                     <<"agent", e.agent>>} : arm[2] \in Watch[r][arm[1]])
          <=> e.ctx \in W.ctx \/ LineageOf[e.ctx] \in W.lineage \/ e.agent \in W.agent
    OBVIOUS
  <2>2. (\E arm \in {<<"lineageBucket", l>>, <<"agentBucket", g>>} :
            \E b \in Watch[r][arm[1]] : InRange(b, arm[2]))
          <=> \/ \E b \in W.lineageBucket : InRange(b, l)
              \/ \E b \in W.agentBucket : InRange(b, g)
    OBVIOUS
  <2>3. (\E arm \in {<<"lineageBucket", l>>, <<"agentBucket", g>>} :
            \E b \in Watch[r][arm[1]] : InRange(b, arm[2])) <=> inBuckets
    BY <2>2, <1>2
  <2> QED BY <2>1, <2>3, <1>3 DEF SqliteMatches
<1>6. PgMatches(r, e) <=> (some => ids \/ inBuckets) /\ KindMatches(r, e)
  <2> DEFINE a1 == <<e.ctx, W.ctx, FALSE>>
  <2> DEFINE a2 == <<LineageOf[e.ctx], W.lineage, FALSE>>
  <2> DEFINE a3 == <<e.agent, W.agent, FALSE>>
  <2> DEFINE a4 == <<e.agent, R, TRUE>>
  <2> DEFINE ors == {arm \in {a1, a2, a3, a4} : arm[2] # {}}
  <2> DEFINE buckets == {<<l, b>> : b \in W.lineageBucket}
                        \cup {<<g, b>> : b \in W.agentBucket}
  <2> DEFINE hit(arm) == (arm[3] => e.kind = "key_revocation") /\ arm[1] \in arm[2]
  <2>0. /\ a1[2] = W.ctx /\ a2[2] = W.lineage /\ a3[2] = W.agent /\ a4[2] = R
        /\ hit(a1) <=> e.ctx \in W.ctx
        /\ hit(a2) <=> LineageOf[e.ctx] \in W.lineage
        /\ hit(a3) <=> e.agent \in W.agent
        /\ hit(a4) <=> rev
    OBVIOUS
  <2>1. ors # {} <=> W.ctx # {} \/ W.lineage # {} \/ W.agent # {} \/ R # {}
    <3>1. ors # {} <=> a1[2] # {} \/ a2[2] # {} \/ a3[2] # {} \/ a4[2] # {}
      <4> HIDE DEF a1, a2, a3, a4
      <4> QED OBVIOUS
    <3> HIDE DEF ors, a1, a2, a3, a4
    <3> QED BY <2>0, <3>1
  <2>2. buckets # {} <=> W.lineageBucket # {} \/ W.agentBucket # {}
    OBVIOUS
  <2>3. (\E arm \in ors : hit(arm)) <=> ids
    <3>1. ASSUME NEW arm \in ors, hit(arm) PROVE ids
      <4>1. arm \in {a1, a2, a3, a4}
        <5> HIDE DEF a1, a2, a3, a4
        <5> QED OBVIOUS
      <4>2. arm = a1 \/ arm = a2 \/ arm = a3 \/ arm = a4
        <5> HIDE DEF a1, a2, a3, a4
        <5> QED BY <4>1
      <4>3. CASE arm = a1
        BY <4>3, <3>1, <2>0
      <4>4. CASE arm = a2
        BY <4>4, <3>1, <2>0
      <4>5. CASE arm = a3
        BY <4>5, <3>1, <2>0
      <4>6. CASE arm = a4
        BY <4>6, <3>1, <2>0
      <4> QED BY <4>2, <4>3, <4>4, <4>5, <4>6
    <3>2. /\ a1[2] # {} => a1 \in ors
          /\ a2[2] # {} => a2 \in ors
          /\ a3[2] # {} => a3 \in ors
          /\ a4[2] # {} => a4 \in ors
      <4> HIDE DEF a1, a2, a3, a4
      <4> QED OBVIOUS
    <3>3. /\ e.ctx \in W.ctx => a1 \in ors
          /\ LineageOf[e.ctx] \in W.lineage => a2 \in ors
          /\ e.agent \in W.agent => a3 \in ors
          /\ rev => a4 \in ors
      <4> HIDE DEF ors, a1, a2, a3, a4, hit
      <4> QED BY <3>2, <2>0
    <3>4. CASE e.ctx \in W.ctx
      <4> HIDE DEF ors, a1, a2, a3, a4, hit
      <4> QED BY <3>3, <3>4, <2>0
    <3>5. CASE LineageOf[e.ctx] \in W.lineage
      <4> HIDE DEF ors, a1, a2, a3, a4, hit
      <4> QED BY <3>3, <3>5, <2>0
    <3>6. CASE e.agent \in W.agent
      <4> HIDE DEF ors, a1, a2, a3, a4, hit
      <4> QED BY <3>3, <3>6, <2>0
    <3>7. CASE rev
      <4> HIDE DEF ors, a1, a2, a3, a4, hit, rev
      <4> QED BY <3>3, <3>7, <2>0 DEF ids
    <3> HIDE DEF ors, hit, rev
    <3> QED BY <3>1, <3>4, <3>5, <3>6, <3>7
  <2>4. (\E p \in buckets : InRange(p[2], p[1])) <=> inBuckets
    <3>1. ASSUME NEW p \in buckets, InRange(p[2], p[1]) PROVE inBuckets
      <4>1. CASE \E b \in W.lineageBucket : p = <<l, b>>
        <5>1. PICK b \in W.lineageBucket : p = <<l, b>>
          BY <4>1
        <5>2. p[1] = l /\ p[2] = b
          BY <5>1
        <5> QED BY <3>1, <5>2, <1>2
      <4>2. CASE \E b \in W.agentBucket : p = <<g, b>>
        <5>1. PICK b \in W.agentBucket : p = <<g, b>>
          BY <4>2
        <5>2. p[1] = g /\ p[2] = b
          BY <5>1
        <5> QED BY <3>1, <5>2, <1>2
      <4> QED BY <4>1, <4>2
    <3>2. ASSUME NEW b \in W.lineageBucket, InBucket(b, l)
          PROVE  \E p \in buckets : InRange(p[2], p[1])
      <4>1. <<l, b>> \in buckets /\ <<l, b>>[1] = l /\ <<l, b>>[2] = b
        OBVIOUS
      <4> QED BY <4>1, <3>2, <1>2
    <3>3. ASSUME NEW b \in W.agentBucket, InBucket(b, g)
          PROVE  \E p \in buckets : InRange(p[2], p[1])
      <4>1. <<g, b>> \in buckets /\ <<g, b>>[1] = g /\ <<g, b>>[2] = b
        OBVIOUS
      <4> QED BY <4>1, <3>3, <1>2
    <3> QED BY <3>1, <3>2, <3>3
  <2>5. PgMatches(r, e) <=>
          /\ ors # {} \/ buckets # {} =>
                \/ \E arm \in ors : hit(arm)
                \/ \E p \in buckets : InRange(p[2], p[1])
          /\ KindMatches(r, e)
    BY DEF PgMatches
  <2> HIDE DEF ors, buckets, ids, inBuckets, hit
  <2> QED BY <2>1, <2>2, <2>3, <2>4, <2>5
<1> HIDE DEF ids, inBuckets, some
<1> QED BY <1>4, <1>5, <1>6

\* The three forms of the watch filter agree on every row of the feed and
\* every watch (FilterParity; FeedQuery::matches and the page queries of the
\* two SQL backends).
THEOREM BackendsFilterAlike == PollSpec => []FilterParity
<1>1. PollInv => FilterParity
  <2> SUFFICES ASSUME PollInv, NEW r \in Reader, NEW x \in feed
               PROVE  /\ SqliteMatches(r, x.entry) = Matches(r, x.entry)
                      /\ PgMatches(r, x.entry) = Matches(r, x.entry)
    BY DEF FilterParity
  <2>1. x.entry \in EntryType
    BY FeedReadAssumption DEF PollInv, FeedSound, Row
  <2> DEFINE e == x.entry
  <2>2. /\ SqliteMatches(r, e) <=> Matches(r, e)
        /\ PgMatches(r, e) <=> Matches(r, e)
    BY <2>1, FormsAgree
  <2>3. /\ SqliteMatches(r, e) \in BOOLEAN /\ Matches(r, e) \in BOOLEAN
        /\ PgMatches(r, e) \in BOOLEAN
    BY DEF SqliteMatches, PgMatches, Matches
  <2> QED BY <2>2, <2>3
<1> QED BY <1>1, PollInvariant, PTL
=============================================================================
