---------------------------- MODULE ServerProofs ----------------------------
(***************************************************************************)
(* Proofs about the server around the handlers: the limits in front of     *)
(* them (Admission) and the boot that built them (Startup), for any fleet, *)
(* budgets, proxies, files and environments the assumptions allow.         *)
(*                                                                         *)
(* Admission.  That a key gets less than twice its budget in any Window is *)
(* not inductive: ChargeSound splits the recent charges at the start of    *)
(* the open bucket.  Those since are counted in it; those before are fewer *)
(* than the limit, because the charge that opened the bucket before has    *)
(* left the Window when the next one opens.  The shared rows: a pruned row *)
(* may come back, so RowInv says that a window with answers is the row's,  *)
(* an older one, or so old that no statement still in flight floors to it  *)
(* (Punctual, with the pruner's slack of two windows and the bound on the  *)
(* timeout).  SpareInv pays for every second statement in advance.         *)
(*                                                                         *)
(* Startup.  BootInv follows the boot: the configuration that passed       *)
(* validate_config is the one the process runs under, and what each step   *)
(* of the boot establishes of the database lasts until the process ends.   *)
(* The promises then follow from validate_config alone (Valid... lemmas).  *)
(***************************************************************************)
EXTENDS Admission, Startup, FiniteSetTheorems, SequenceTheorems, TLAPS

(***************************************************************************)
(* The fixed-window limiter.                                               *)
(***************************************************************************)
Bucket == [start : Int, count : Nat]

IsLimiter(l, keys) ==
    /\ l = [buckets |-> l.buckets, threshold |-> l.threshold]
    /\ l.buckets \in [keys -> Bucket]

\* The bucket is in the map, and its window has not elapsed.
WindowOpen(bucket, t) == bucket # NoBucket /\ ~ Elapsed(bucket, t)

\* A new limiter has no buckets.
LEMMA NewLimiterIsEmpty ==
    ASSUME NEW keys
    PROVE  /\ IsLimiter(NewLimiter(keys), keys)
           /\ \A k \in keys : NewLimiter(keys).buckets[k] = NoBucket
BY DEF NewLimiter, IsLimiter, NoBucket, Bucket

\* A prune keeps the open windows, and drops or keeps the others.
LEMMA PruneKeepsOpen ==
    ASSUME NEW keys, NEW l, IsLimiter(l, keys), NEW t \in Nat
    PROVE  /\ IsLimiter(PruneIfDue(l, t), keys)
           /\ \A k \in keys :
                 \/ PruneIfDue(l, t).buckets[k] = l.buckets[k]
                 \/ PruneIfDue(l, t).buckets[k] = NoBucket /\ ~ WindowOpen(l.buckets[k], t)
<1>1. CASE Cardinality(Tracked(l)) < l.threshold
  <2>1. PruneIfDue(l, t) = l
    BY <1>1 DEF PruneIfDue
  <2> QED BY <2>1
<1>2. CASE ~ (Cardinality(Tracked(l)) < l.threshold)
  <2> DEFINE live == LiveKeys(l, t)
  <2> DEFINE th == Max({PruneAt, 2 * Cardinality(live)})
  <2> DEFINE b == [k \in DOMAIN l.buckets |-> IF k \in live THEN l.buckets[k] ELSE NoBucket]
  <2>1. PruneIfDue(l, t) = [buckets |-> b, threshold |-> th]
    BY <1>2 DEF PruneIfDue
  <2>2. DOMAIN l.buckets = keys
    BY DEF IsLimiter
  <2>3. \A k \in keys : k \in live <=> WindowOpen(l.buckets[k], t)
    BY <2>2 DEF LiveKeys, Tracked, WindowOpen
  <2>4. b \in [keys -> Bucket]
    BY <2>2 DEF IsLimiter, Bucket, NoBucket
  <2>5. \A k \in keys : b[k] = IF k \in live THEN l.buckets[k] ELSE NoBucket
    BY <2>2
  <2> HIDE DEF b, th
  <2> QED BY <2>1, <2>3, <2>4, <2>5 DEF IsLimiter
<1> QED BY <1>1, <1>2

\* The bucket a check counts in: the open one, or one that opens now.
LEMMA RolledIsOpen ==
    ASSUME NEW keys, NEW l, IsLimiter(l, keys), NEW k \in keys, NEW t \in Nat
    PROVE  /\ IsLimiter(Rolled(l, k, t), keys)
           /\ Rolled(l, k, t).buckets[k] =
                 IF WindowOpen(l.buckets[k], t) THEN l.buckets[k] ELSE [start |-> t, count |-> 0]
           /\ \A j \in keys \ {k} :
                 \/ Rolled(l, k, t).buckets[j] = l.buckets[j]
                 \/ Rolled(l, k, t).buckets[j] = NoBucket /\ ~ WindowOpen(l.buckets[j], t)
<1> DEFINE p == PruneIfDue(l, t)
<1> DEFINE new == [start |-> t, count |-> 0]
<1>1. /\ IsLimiter(p, keys)
      /\ \A j \in keys : \/ p.buckets[j] = l.buckets[j]
                         \/ p.buckets[j] = NoBucket /\ ~ WindowOpen(l.buckets[j], t)
  BY PruneKeepsOpen
<1>2. k \in LiveKeys(p, t) <=> WindowOpen(p.buckets[k], t)
  BY <1>1 DEF LiveKeys, Tracked, WindowOpen, IsLimiter
<1>3. Rolled(l, k, t) = IF k \in LiveKeys(p, t) THEN p
                        ELSE [p EXCEPT !.buckets = [p.buckets EXCEPT ![k] = new]]
  BY DEF Rolled
<1> HIDE DEF p
<1>4. ~ WindowOpen(NoBucket, t)
  BY DEF WindowOpen
<1>5. CASE WindowOpen(p.buckets[k], t)
  BY <1>1, <1>2, <1>3, <1>4, <1>5
<1>6. CASE ~ WindowOpen(p.buckets[k], t)
  <2>1. Rolled(l, k, t) = [buckets |-> [p.buckets EXCEPT ![k] = new], threshold |-> p.threshold]
    BY <1>1, <1>2, <1>3, <1>6 DEF IsLimiter
  <2>2. new \in Bucket
    BY DEF Bucket
  <2> DEFINE b == [p.buckets EXCEPT ![k] = new]
  <2>3. b \in [keys -> Bucket] /\ b[k] = new /\ \A j \in keys \ {k} : b[j] = p.buckets[j]
    BY <1>1, <2>2 DEF IsLimiter
  <2>4. ~ WindowOpen(l.buckets[k], t)
    BY <1>1, <1>6
  <2> HIDE DEF b, new
  <2> QED BY <2>1, <2>3, <2>4, <1>1 DEF IsLimiter, b, new
<1> QED BY <1>5, <1>6

\* check_at, seen from the buckets: an open window counts up to the limit, an
\* elapsed or forgotten one opens with this charge, and no other is touched
\* unless it had elapsed.
LEMMA CheckCounts ==
    ASSUME NEW keys, NEW l, IsLimiter(l, keys), NEW k \in keys, NEW t \in Nat,
           NEW limit \in Nat \ {0}
    PROVE  LET c == Check(l, k, t, limit)
               old == l.buckets[k]
           IN  /\ IsLimiter(c.lim, keys)
               /\ c.ok \in BOOLEAN
               /\ \A j \in keys \ {k} :
                     \/ c.lim.buckets[j] = l.buckets[j]
                     \/ c.lim.buckets[j] = NoBucket /\ ~ WindowOpen(l.buckets[j], t)
               /\ WindowOpen(old, t) /\ c.ok =>
                     /\ c.lim.buckets[k] = [start |-> old.start, count |-> old.count + 1]
                     /\ old.count < limit
               /\ WindowOpen(old, t) /\ ~ c.ok => c.lim.buckets[k] = old
               /\ ~ WindowOpen(old, t) => c.ok /\ c.lim.buckets[k] = [start |-> t, count |-> 1]
<1> DEFINE c == Check(l, k, t, limit)
<1> DEFINE old == l.buckets[k]
<1> DEFINE q == Rolled(l, k, t)
<1> DEFINE now0 == q.buckets[k]
<1>1. /\ IsLimiter(q, keys)
      /\ now0 = IF WindowOpen(old, t) THEN old ELSE [start |-> t, count |-> 0]
      /\ \A j \in keys \ {k} : \/ q.buckets[j] = l.buckets[j]
                               \/ q.buckets[j] = NoBucket /\ ~ WindowOpen(l.buckets[j], t)
  BY RolledIsOpen
<1>2. c = IF now0.count < limit THEN [ok |-> TRUE, lim |-> Record(l, k, t)]
          ELSE [ok |-> FALSE, lim |-> q]
  BY DEF Check
<1>3. Record(l, k, t) = [q EXCEPT !.buckets = [q.buckets EXCEPT ![k] =
                            [now0 EXCEPT !.count = now0.count + 1]]]
  BY DEF Record
<1> HIDE DEF c, q
<1>4. now0 \in Bucket
  BY <1>1 DEF IsLimiter
<1> DEFINE more == [start |-> now0.start, count |-> now0.count + 1]
<1>5. [now0 EXCEPT !.count = now0.count + 1] = more /\ more \in Bucket
  BY <1>4 DEF Bucket
<1> HIDE DEF now0
<1>6. Record(l, k, t) = [buckets |-> [q.buckets EXCEPT ![k] = more], threshold |-> q.threshold]
  BY <1>1, <1>3, <1>5 DEF IsLimiter
<1> HIDE DEF more
<1> DEFINE b == [q.buckets EXCEPT ![k] = more]
<1>7. b \in [keys -> Bucket] /\ b[k] = more /\ \A j \in keys \ {k} : b[j] = q.buckets[j]
  BY <1>1, <1>5 DEF IsLimiter
<1> HIDE DEF b
<1>8. /\ Record(l, k, t).buckets = b
      /\ IsLimiter(Record(l, k, t), keys)
  BY <1>6, <1>7 DEF IsLimiter, b
<1>9. CASE now0.count < limit
  <2>1. c.ok /\ c.lim = Record(l, k, t)
    BY <1>2, <1>9
  <2>2. c.lim.buckets[k] = [start |-> now0.start, count |-> now0.count + 1]
    BY <2>1, <1>7, <1>8 DEF more
  <2>3. CASE WindowOpen(old, t)
    <3>1. now0 = old
      BY <2>3, <1>1 DEF now0
    <3> QED BY <2>1, <2>2, <2>3, <3>1, <1>1, <1>7, <1>8, <1>9 DEF c
  <2>4. CASE ~ WindowOpen(old, t)
    <3>1. now0.start = t /\ now0.count = 0
      BY <2>4, <1>1 DEF now0
    <3> QED BY <2>1, <2>2, <2>4, <3>1, <1>1, <1>7, <1>8, <1>9 DEF c
  <2> QED BY <2>3, <2>4
<1>10. CASE ~ (now0.count < limit)
  <2>1. c.ok = FALSE /\ c.lim = q
    BY <1>2, <1>10
  <2>2. WindowOpen(old, t) /\ now0 = old
    <3>1. ~ WindowOpen(old, t) => now0.count = 0
      BY <1>1 DEF now0
    <3> QED BY <3>1, <1>1, <1>10 DEF now0
  <2> QED BY <2>1, <2>2, <1>1, <1>10 DEF c, now0
<1> QED BY <1>9, <1>10

(***************************************************************************)
(* The charges of one key.                                                 *)
(***************************************************************************)
\* The charges R of the last Window beside the key's bucket.  While a window
\* is open, the charges since it opened are counted in it and the older ones
\* are fewer than the limit: the one that opened the window before is gone.
ChargeSound(R, bucket, limit, t) ==
    /\ IsFiniteSet(R) /\ R \subseteq Nat \X Nat
    /\ \A x \in R : x[1] <= t /\ t - x[1] < Window
    /\ bucket \in Bucket
    /\ bucket # NoBucket => bucket.start \in 0..t /\ bucket.count \in 1..limit
    /\ IF WindowOpen(bucket, t)
       THEN /\ Cardinality({x \in R : bucket.start <= x[1]}) <= bucket.count
            /\ Cardinality({x \in R : x[1] < bucket.start}) < limit
            /\ \E x \in R : x[1] = bucket.start
       ELSE /\ Cardinality(R) < limit
            /\ \A x \in R : x[1] < t

\* A subset of a finite set has no more members.
LEMMA SmallerSet ==
    ASSUME NEW R, IsFiniteSet(R), NEW S, S \subseteq R
    PROVE  /\ IsFiniteSet(S) /\ Cardinality(S) \in Nat /\ Cardinality(R) \in Nat
           /\ Cardinality(S) <= Cardinality(R)
BY FS_Subset, FS_CardinalityType

\* A set in two parts.
LEMMA TwoParts ==
    ASSUME NEW A, NEW B, IsFiniteSet(A), IsFiniteSet(B), A \cap B = {}
    PROVE  Cardinality(A \cup B) = Cardinality(A) + Cardinality(B)
<1>1. Cardinality(A) \in Nat /\ Cardinality(B) \in Nat
  BY FS_CardinalityType
<1>2. Cardinality(A \cup B) = Cardinality(A) + Cardinality(B) - Cardinality(A \cap B)
  BY FS_Union
<1>3. Cardinality(A \cap B) = 0
  BY FS_EmptySet
<1> QED BY <1>1, <1>2, <1>3

\* Fewer than twice the limit.
LEMMA ChargesBounded ==
    ASSUME NEW R, NEW b, NEW limit \in Nat \ {0}, NEW t \in Nat, ChargeSound(R, b, limit, t)
    PROVE  Cardinality(R) < 2 * limit
<1>0. IsFiniteSet(R) /\ Cardinality(R) \in Nat
  BY FS_CardinalityType DEF ChargeSound
<1>1. CASE WindowOpen(b, t)
  <2> DEFINE A == {x \in R : x[1] < b.start}
  <2> DEFINE B == {x \in R : b.start <= x[1]}
  <2>1. /\ Cardinality(B) <= b.count /\ Cardinality(A) < limit
        /\ b.count <= limit /\ b.start \in Nat /\ b.count \in Nat
    BY <1>1 DEF ChargeSound, WindowOpen
  <2>2. \A x \in R : x[1] \in Nat
    BY DEF ChargeSound
  <2>3. R = A \cup B /\ A \cap B = {}
    BY <2>1, <2>2
  <2> HIDE DEF A, B
  <2>4. /\ IsFiniteSet(A) /\ Cardinality(A) \in Nat
        /\ IsFiniteSet(B) /\ Cardinality(B) \in Nat
    <3>1. A \subseteq R /\ B \subseteq R
      BY <2>3
    <3> QED BY <1>0, <3>1, SmallerSet
  <2>5. Cardinality(R) = Cardinality(A) + Cardinality(B)
    BY <2>3, <2>4, TwoParts
  <2> QED BY <2>1, <2>4, <2>5
<1>2. CASE ~ WindowOpen(b, t)
  BY <1>0, <1>2 DEF ChargeSound
<1> QED BY <1>1, <1>2

\* The history tells every charge from those before it.
LEMMA NewChargeIsNew ==
    ASSUME NEW R, IsFiniteSet(R), now \in Nat
    PROVE  /\ NewCharge(R) \notin R /\ NewCharge(R) \in Nat \X Nat
           /\ NewCharge(R)[1] = now
<1> DEFINE N == 0..Cardinality(R)
<1>1. Cardinality(R) \in Nat
  BY FS_CardinalityType
<1>2. \E n \in N : <<now, n>> \notin R
  <2> SUFFICES ASSUME \A n \in N : <<now, n>> \in R
               PROVE  FALSE
    OBVIOUS
  <2> DEFINE f == [n \in N |-> <<now, n>>]
  <2>1. f \in [N -> R]
    OBVIOUS
  <2>2. IsFiniteSet(N) /\ Cardinality(N) = Cardinality(R) + 1
    BY <1>1, FS_Interval
  <2>3. Cardinality(R) < Cardinality(N)
    BY <1>1, <2>2
  <2> HIDE DEF N
  <2>4. \E x, y \in N : x # y /\ f[x] = f[y]
    BY <2>1, <2>2, <2>3, FS_PigeonHole
  <2> QED BY <2>4
<1> DEFINE n == CHOOSE n \in N : <<now, n>> \notin R
<1>3. n \in N /\ <<now, n>> \notin R
  BY <1>2
<1>4. NewCharge(R) = <<now, n>>
  BY DEF NewCharge
<1> HIDE DEF n
<1> QED BY <1>1, <1>3, <1>4

\* A charge that passed, and the bucket it was counted in.
LEMMA ChargeKeepsSound ==
    ASSUME now \in Nat, NEW R, NEW b, NEW limit \in Nat \ {0}, ChargeSound(R, b, limit, now),
           NEW c,
           WindowOpen(b, now) => c = [start |-> b.start, count |-> b.count + 1] /\ b.count < limit,
           ~ WindowOpen(b, now) => c = [start |-> now, count |-> 1]
    PROVE  ChargeSound(R \cup {NewCharge(R)}, c, limit, now)
<1> DEFINE new == NewCharge(R)
<1> DEFINE S == R \cup {new}
<1>1. IsFiniteSet(R) /\ R \subseteq Nat \X Nat /\ \A x \in R : x[1] \in Nat
  BY DEF ChargeSound
<1>2. new \notin R /\ new \in Nat \X Nat /\ new[1] = now
  BY <1>1, NewChargeIsNew
<1> HIDE DEF new
<1>3. IsFiniteSet(S) /\ S \subseteq Nat \X Nat
  BY <1>1, <1>2, FS_AddElement
<1>4. \A x \in S : x[1] <= now /\ now - x[1] < Window
  BY <1>2, WindowAssumption DEF ChargeSound
<1> DEFINE A == {x \in R : x[1] < c.start}
<1> DEFINE B == {x \in R : c.start <= x[1]}
<1>5. /\ c \in Bucket /\ c # NoBucket /\ c.start \in 0..now /\ c.count \in 1..limit
      /\ WindowOpen(c, now)
      /\ Cardinality(B) + 1 <= c.count /\ Cardinality(A) < limit
      /\ \E x \in S : x[1] = c.start
  <2>1. CASE WindowOpen(b, now)
    <3>1. /\ b.start \in 0..now /\ b.count \in 1..limit /\ b.count < limit
          /\ Cardinality({x \in R : b.start <= x[1]}) <= b.count
          /\ Cardinality({x \in R : x[1] < b.start}) < limit
          /\ \E x \in R : x[1] = b.start
      BY <2>1 DEF ChargeSound, WindowOpen
    <3>2. c.start = b.start /\ c.count = b.count + 1 /\ c \in Bucket
      BY <2>1, <3>1 DEF Bucket
    <3>3. ~ Elapsed(b, now)
      BY <2>1 DEF WindowOpen
    <3>4. c # NoBucket /\ ~ Elapsed(c, now)
      BY <3>1, <3>2, <3>3 DEF NoBucket, Elapsed
    <3>5. Cardinality(B) \in Nat
      BY <1>1, SmallerSet
    <3> HIDE DEF A, B
    <3> QED BY <3>1, <3>2, <3>4, <3>5 DEF WindowOpen, A, B
  <2>2. CASE ~ WindowOpen(b, now)
    <3>1. Cardinality(R) < limit /\ \A x \in R : x[1] < now
      BY <2>2 DEF ChargeSound
    <3>2. c.start = now /\ c.count = 1 /\ c \in Bucket
      BY <2>2 DEF Bucket
    <3>3. A = R /\ B = {}
      BY <3>1, <3>2, <1>1
    <3>4. Cardinality(B) = 0
      BY <3>3, FS_EmptySet
    <3>5. c # NoBucket /\ ~ Elapsed(c, now)
      BY <3>2, WindowAssumption DEF NoBucket, Elapsed
    <3> HIDE DEF A, B
    <3> QED BY <3>1, <3>2, <3>3, <3>4, <3>5, <1>2 DEF WindowOpen
  <2> QED BY <2>1, <2>2
<1>6. {x \in S : x[1] < c.start} = A
  BY <1>2, <1>5
<1>7. {x \in S : c.start <= x[1]} = B \cup {new}
  BY <1>2, <1>5
<1>8. Cardinality(B \cup {new}) = Cardinality(B) + 1
  <2>1. IsFiniteSet(B) /\ new \notin B
    BY <1>1, <1>2, SmallerSet
  <2> QED BY <2>1, FS_AddElement
<1> HIDE DEF A, B, S
<1>9. ChargeSound(S, c, limit, now)
  BY <1>3, <1>4, <1>5, <1>6, <1>7, <1>8 DEF ChargeSound
<1> QED BY <1>9 DEF S, new

\* A key nobody charged: its bucket is left alone, or pruned when elapsed.
LEMMA PruneKeepsSound ==
    ASSUME NEW R, NEW b, NEW limit \in Nat \ {0}, NEW t \in Nat, ChargeSound(R, b, limit, t),
           NEW c, c = b \/ (c = NoBucket /\ ~ WindowOpen(b, t))
    PROVE  ChargeSound(R, c, limit, t)
<1>1. ~ WindowOpen(NoBucket, t) /\ NoBucket \in Bucket
  BY DEF WindowOpen, NoBucket, Bucket
<1> QED BY <1>1 DEF ChargeSound

\* The clock: a window that elapses takes the charge that opened it along.
LEMMA TickKeepsSound ==
    ASSUME NEW R, NEW b, NEW limit \in Nat \ {0}, NEW t \in Nat, ChargeSound(R, b, limit, t),
           NEW u \in Nat, u = t + 1
    PROVE  ChargeSound({x \in R : u - x[1] < Window}, b, limit, u)
<1> DEFINE S == {x \in R : u - x[1] < Window}
<1>1. /\ IsFiniteSet(R) /\ R \subseteq Nat \X Nat /\ \A x \in R : x[1] \in Nat /\ x[1] <= t
      /\ b \in Bucket /\ b.start \in Int
  BY DEF ChargeSound, Bucket
<1>2. IsFiniteSet(S) /\ Cardinality(S) <= Cardinality(R) /\ Cardinality(S) \in Nat
  BY <1>1, SmallerSet
<1>3. S \subseteq Nat \X Nat /\ \A x \in S : x[1] < u /\ u - x[1] < Window
  BY <1>1
<1>4. b # NoBucket => b.start \in 0..u /\ b.count \in 1..limit
  BY DEF ChargeSound
<1>5. CASE WindowOpen(b, u)
  <2>1. WindowOpen(b, t)
    BY <1>5, <1>1, WindowAssumption DEF WindowOpen, Elapsed
  <2> DEFINE A == {x \in R : x[1] < b.start}
  <2> DEFINE B == {x \in R : b.start <= x[1]}
  <2> DEFINE A1 == {x \in S : x[1] < b.start}
  <2> DEFINE B1 == {x \in S : b.start <= x[1]}
  <2>2. /\ Cardinality(B) <= b.count /\ Cardinality(A) < limit
        /\ \E x \in R : x[1] = b.start
        /\ b.count \in 1..limit
    BY <2>1 DEF ChargeSound, WindowOpen
  <2>3. A1 \subseteq A /\ B1 \subseteq B /\ A \subseteq R /\ B \subseteq R
    OBVIOUS
  <2>4. \E x \in S : x[1] = b.start
    <3>1. ~ (u - b.start >= Window)
      BY <1>5, <1>1, WindowAssumption DEF WindowOpen, Elapsed
    <3>2. u - b.start < Window
      BY <3>1, <1>1, WindowAssumption
    <3> QED BY <2>2, <3>2
  <2> HIDE DEF A, B, A1, B1, S
  <2>5. IsFiniteSet(A) /\ IsFiniteSet(B)
    BY <2>3, <1>1, SmallerSet
  <2>6. /\ Cardinality(A1) <= Cardinality(A) /\ Cardinality(B1) <= Cardinality(B)
        /\ {Cardinality(A1), Cardinality(A), Cardinality(B1), Cardinality(B)} \subseteq Nat
    BY <2>3, <2>5, SmallerSet
  <2>7. Cardinality(A1) < limit /\ Cardinality(B1) <= b.count
    BY <2>2, <2>6
  <2>8. ChargeSound(S, b, limit, u)
    <3>1. \A x \in S : x[1] <= u /\ u - x[1] < Window
      BY <1>3
    <3> QED BY <1>1, <1>2, <1>3, <1>4, <1>5, <2>4, <2>7, <3>1 DEF ChargeSound, A1, B1
  <2> QED BY <2>8 DEF S
<1>6. CASE ~ WindowOpen(b, u)
  <2>1. Cardinality(S) < limit
    <3>1. CASE WindowOpen(b, t)
      <4> DEFINE B == {x \in R : b.start <= x[1]}
      <4>1. /\ Cardinality(B) <= b.count /\ b.count \in 1..limit
            /\ \E x \in R : x[1] = b.start
        BY <3>1 DEF ChargeSound, WindowOpen
      <4>2. PICK x0 \in R : x0[1] = b.start
        BY <4>1
      <4>3. u - b.start >= Window
        <5>1. b # NoBucket
          BY <3>1 DEF WindowOpen
        <5> QED BY <1>6, <1>1, <5>1, WindowAssumption DEF WindowOpen, Elapsed
      <4>4. S \subseteq B \ {x0} /\ x0 \in B /\ B \subseteq R
        BY <4>2, <4>3, <1>1, WindowAssumption
      <4> HIDE DEF B, S
      <4>5. IsFiniteSet(B) /\ Cardinality(B) \in Nat
        BY <4>4, <1>1, SmallerSet
      <4>6. IsFiniteSet(B \ {x0}) /\ Cardinality(B \ {x0}) = Cardinality(B) - 1
        BY <4>4, <4>5, FS_RemoveElement
      <4>7. Cardinality(S) <= Cardinality(B \ {x0})
        BY <4>4, <4>6, SmallerSet
      <4> QED BY <4>1, <4>5, <4>6, <4>7, <1>2
    <3>2. CASE ~ WindowOpen(b, t)
      <4>1. Cardinality(R) < limit
        BY <3>2 DEF ChargeSound
      <4>2. Cardinality(R) \in Nat
        BY <1>1, FS_CardinalityType
      <4> HIDE DEF S
      <4> QED BY <4>1, <4>2, <1>2
    <3> QED BY <3>1, <3>2
  <2> HIDE DEF S
  <2>2. \A x \in S : x[1] <= u /\ u - x[1] < Window
    BY <1>1, <1>3
  <2>3. ChargeSound(S, b, limit, u)
    BY <1>1, <1>2, <1>3, <1>4, <1>6, <2>1, <2>2 DEF ChargeSound
  <2> QED BY <2>3 DEF S
<1> QED BY <1>5, <1>6

\* Nothing charged and nothing tracked.
LEMMA NothingIsSound ==
    ASSUME NEW limit \in Nat \ {0}, NEW t \in Nat
    PROVE  ChargeSound({}, NoBucket, limit, t)
<1>1. IsFiniteSet({}) /\ Cardinality({}) = 0
  BY FS_EmptySet
<1>2. ~ WindowOpen(NoBucket, t) /\ NoBucket \in Bucket
  BY DEF WindowOpen, NoBucket, Bucket
<1> QED BY <1>1, <1>2 DEF ChargeSound

(***************************************************************************)
(* The limiters of the replicas.                                           *)
(***************************************************************************)
Scope == {"auth", "challenge", "anonymous", "principal"}

\* The four limiters of a replica, their keys and their budgets.
LEMMA ScopeFacts ==
    /\ DOMAIN Keys = Scope
    /\ \A s \in Scope : Limits[s] \in Nat \ {0}
    /\ Keys["auth"] = Ips /\ Keys["challenge"] = Agents
    /\ Keys["anonymous"] = {Net[i] : i \in Ips} \cup Ips
    /\ Keys["principal"] = {"reader", "agent"}
    /\ Limits["auth"] = PerIp /\ Limits["challenge"] = ChallengePerAgent
    /\ Limits["anonymous"] = AnonymousReads /\ Limits["principal"] = PrincipalReads
BY AdmissionAssumption DEF Keys, Limits, Scope

\* Every limiter of every replica beside the charges it let through.
ChargeInv ==
    /\ DOMAIN lim = Replica /\ DOMAIN recent = Replica
    /\ \A r \in Replica : DOMAIN lim[r] = Scope /\ DOMAIN recent[r] = Scope
    /\ \A r \in Replica : \A s \in Scope :
          /\ IsLimiter(lim[r][s], Keys[s]) /\ DOMAIN recent[r][s] = Keys[s]
          /\ \A k \in Keys[s] :
                ChargeSound(recent[r][s][k], lim[r][s].buckets[k], Limits[s], now)

\* A check of one key, and the charge it lets through.
LEMMA CheckKeepsCharges ==
    ASSUME ChargeInv, now \in Nat, now' = now,
           NEW r \in Replica, NEW s \in Scope, NEW k \in Keys[s],
           NEW c, c = Check(lim[r][s], k, now, Limits[s]),
           lim' = [lim EXCEPT ![r][s] = c.lim],
           IF c.ok THEN Charged(r, s, k) ELSE UNCHANGED recent
    PROVE  ChargeInv'
<1> DEFINE l == lim[r][s]
<1> DEFINE R == recent[r][s][k]
<1> DEFINE old == l.buckets[k]
<1> DEFINE limit == Limits[s]
<1>1. limit \in Nat \ {0}
  BY ScopeFacts
<1>2. IsLimiter(l, Keys[s]) /\ ChargeSound(R, old, limit, now)
  BY DEF ChargeInv
<1>3. /\ IsLimiter(c.lim, Keys[s]) /\ c.ok \in BOOLEAN
      /\ \A j \in Keys[s] \ {k} :
            \/ c.lim.buckets[j] = l.buckets[j]
            \/ c.lim.buckets[j] = NoBucket /\ ~ WindowOpen(l.buckets[j], now)
      /\ WindowOpen(old, now) /\ c.ok =>
            /\ c.lim.buckets[k] = [start |-> old.start, count |-> old.count + 1]
            /\ old.count < limit
      /\ WindowOpen(old, now) /\ ~ c.ok => c.lim.buckets[k] = old
      /\ ~ WindowOpen(old, now) => c.ok /\ c.lim.buckets[k] = [start |-> now, count |-> 1]
  BY <1>1, <1>2, CheckCounts
<1> DEFINE R1 == IF c.ok THEN R \cup {NewCharge(R)} ELSE R
<1>4. ChargeSound(R1, c.lim.buckets[k], limit, now)
  <2>1. CASE c.ok
    BY <2>1, <1>1, <1>2, <1>3, ChargeKeepsSound
  <2>2. CASE ~ c.ok
    BY <2>2, <1>2, <1>3
  <2> QED BY <2>1, <2>2
<1>5. /\ DOMAIN lim' = Replica
      /\ \A q \in Replica : DOMAIN lim'[q] = Scope
      /\ lim'[r][s] = c.lim
      /\ \A q \in Replica : \A z \in Scope : q # r \/ z # s => lim'[q][z] = lim[q][z]
  BY DEF ChargeInv
<1>6. /\ DOMAIN recent' = Replica
      /\ \A q \in Replica : DOMAIN recent'[q] = Scope
      /\ \A q \in Replica : \A z \in Scope : DOMAIN recent'[q][z] = Keys[z]
      /\ recent'[r][s][k] = R1
      /\ \A j \in Keys[s] \ {k} : recent'[r][s][j] = recent[r][s][j]
      /\ \A q \in Replica : \A z \in Scope : q # r \/ z # s => recent'[q][z] = recent[q][z]
  <2>1. CASE c.ok
    <3>1. recent' = [recent EXCEPT ![r][s][k] = R1]
      BY <2>1 DEF Charged
    <3> HIDE DEF R1
    <3> QED BY <3>1 DEF ChargeInv
  <2>2. CASE ~ c.ok
    BY <2>2 DEF ChargeInv
  <2> QED BY <2>1, <2>2
<1> HIDE DEF R1, limit, old, l
<1>7. ASSUME NEW j \in Keys[s]
      PROVE  ChargeSound(recent'[r][s][j], lim'[r][s].buckets[j], Limits[s], now')
  <2>1. CASE j = k
    BY <2>1, <1>4, <1>5, <1>6 DEF limit
  <2>2. CASE j # k
    <3>1. ChargeSound(recent[r][s][j], l.buckets[j], limit, now)
      BY DEF ChargeInv, l, limit
    <3>2. ChargeSound(recent[r][s][j], c.lim.buckets[j], limit, now)
      BY <2>2, <3>1, <1>1, <1>3, PruneKeepsSound
    <3> QED BY <3>2, <2>2, <1>5, <1>6 DEF limit
  <2> QED BY <2>1, <2>2
<1>8. ASSUME NEW q \in Replica, NEW z \in Scope
      PROVE  /\ IsLimiter(lim'[q][z], Keys[z]) /\ DOMAIN recent'[q][z] = Keys[z]
             /\ \A j \in Keys[z] :
                   ChargeSound(recent'[q][z][j], lim'[q][z].buckets[j], Limits[z], now')
  <2>1. CASE q = r /\ z = s
    BY <2>1, <1>3, <1>5, <1>6, <1>7
  <2>2. CASE q # r \/ z # s
    BY <2>2, <1>5, <1>6 DEF ChargeInv
  <2> QED BY <2>1, <2>2
<1> QED BY <1>5, <1>6, <1>8 DEF ChargeInv

\* Nothing of it changes.
LEMMA SameCharges ==
    ASSUME ChargeInv, UNCHANGED <<lim, recent, now>>
    PROVE  ChargeInv'
BY DEF ChargeInv

\* The limiters of a replica that has just started.
LEMMA FreshIsSound ==
    ASSUME NEW t \in Nat
    PROVE  /\ DOMAIN Fresh = Scope /\ DOMAIN NoCharges = Scope
           /\ \A s \in Scope :
                 /\ IsLimiter(Fresh[s], Keys[s]) /\ DOMAIN NoCharges[s] = Keys[s]
                 /\ \A k \in Keys[s] :
                       ChargeSound(NoCharges[s][k], Fresh[s].buckets[k], Limits[s], t)
<1>1. DOMAIN Fresh = Scope /\ DOMAIN NoCharges = Scope
  BY ScopeFacts DEF Fresh, NoCharges
<1>2. ASSUME NEW s \in Scope
      PROVE  /\ IsLimiter(Fresh[s], Keys[s]) /\ DOMAIN NoCharges[s] = Keys[s]
             /\ \A k \in Keys[s] :
                   ChargeSound(NoCharges[s][k], Fresh[s].buckets[k], Limits[s], t)
  <2>1. Fresh[s] = NewLimiter(Keys[s]) /\ NoCharges[s] = [k \in Keys[s] |-> {}]
    BY ScopeFacts DEF Fresh, NoCharges
  <2>2. Limits[s] \in Nat \ {0}
    BY ScopeFacts
  <2>3. ChargeSound({}, NoBucket, Limits[s], t)
    BY <2>2, NothingIsSound
  <2> QED BY <2>1, <2>3, NewLimiterIsEmpty
<1> QED BY <1>1, <1>2

\* Time passes: charges leave the Window, buckets elapse.
LEMMA ChargesTick ==
    ASSUME ChargeInv, now \in Nat, Tick
    PROVE  ChargeInv'
<1>1. now' = now + 1 /\ lim' = lim
  BY DEF Tick, limits
<1>2. recent' = [r \in Replica |-> [s \in DOMAIN Keys |-> [k \in Keys[s] |->
                     {charge \in recent[r][s][k] : now' - charge[1] < Window}]]]
  BY DEF Tick
<1>3. DOMAIN Keys = Scope
  BY ScopeFacts
<1>4. ASSUME NEW r \in Replica, NEW s \in Scope
      PROVE  /\ IsLimiter(lim'[r][s], Keys[s]) /\ DOMAIN recent'[r][s] = Keys[s]
             /\ \A k \in Keys[s] :
                   ChargeSound(recent'[r][s][k], lim'[r][s].buckets[k], Limits[s], now')
  <2>1. Limits[s] \in Nat \ {0}
    BY ScopeFacts
  <2>2. ASSUME NEW k \in Keys[s]
        PROVE  ChargeSound(recent'[r][s][k], lim'[r][s].buckets[k], Limits[s], now')
    <3>1. recent'[r][s][k] = {x \in recent[r][s][k] : now' - x[1] < Window}
      BY <1>2, <1>3, Zenon
    <3>2. ChargeSound(recent[r][s][k], lim[r][s].buckets[k], Limits[s], now)
      BY DEF ChargeInv
    <3>3. ChargeSound({x \in recent[r][s][k] : now' - x[1] < Window},
                      lim[r][s].buckets[k], Limits[s], now')
      BY <2>1, <3>2, <1>1, TickKeepsSound
    <3> QED BY <3>1, <3>3, <1>1
  <2> QED BY <2>2, <1>1, <1>2, <1>3 DEF ChargeInv
<1> QED BY <1>1, <1>2, <1>3, <1>4 DEF ChargeInv

\* A restarted replica forgets its buckets and its charges.
LEMMA ChargesRestart ==
    ASSUME ChargeInv, now \in Nat, NEW r \in Replica, Restart(r)
    PROVE  ChargeInv'
<1>1. /\ lim' = [lim EXCEPT ![r] = Fresh] /\ recent' = [recent EXCEPT ![r] = NoCharges]
      /\ now' = now
  BY DEF Restart
<1> HIDE DEF Fresh, NoCharges
<1>2. ASSUME NEW q \in Replica
      PROVE  /\ DOMAIN lim'[q] = Scope /\ DOMAIN recent'[q] = Scope
             /\ \A s \in Scope :
                   /\ IsLimiter(lim'[q][s], Keys[s]) /\ DOMAIN recent'[q][s] = Keys[s]
                   /\ \A k \in Keys[s] :
                         ChargeSound(recent'[q][s][k], lim'[q][s].buckets[k], Limits[s], now')
  <2>1. CASE q = r
    <3>1. lim'[q] = Fresh /\ recent'[q] = NoCharges
      BY <2>1, <1>1 DEF ChargeInv
    <3> QED BY <3>1, <1>1, FreshIsSound
  <2>2. CASE q # r
    <3>1. lim'[q] = lim[q] /\ recent'[q] = recent[q]
      BY <2>2, <1>1 DEF ChargeInv
    <3> QED BY <3>1, <1>1 DEF ChargeInv
  <2> QED BY <2>1, <2>2
<1>3. DOMAIN lim' = Replica /\ DOMAIN recent' = Replica
  BY <1>1 DEF ChargeInv
<1> QED BY <1>2, <1>3 DEF ChargeInv

(***************************************************************************)
(* The windows of the shared counter.                                      *)
(***************************************************************************)
\* The window of a moment starts less than Window before it.
LEMMA FloorFacts ==
    ASSUME NEW t \in Nat
    PROVE  FloorWindow(t) \in 0..t /\ t - Window < FloorWindow(t)
BY WindowAssumption DEF FloorWindow

\* GREATEST of CHECK_SQL.
LEMMA MaxOfTwo ==
    ASSUME NEW a \in Int, NEW b \in Int
    PROVE  Max({a, b}) = IF b <= a THEN a ELSE b
<1> DEFINE m == IF b <= a THEN a ELSE b
<1>1. m \in {a, b} /\ \A y \in {a, b} : m >= y
  OBVIOUS
<1>2. \A x \in {a, b} : (\A y \in {a, b} : x >= y) => x = m
  OBVIOUS
<1> HIDE DEF m
<1>3. Max({a, b}) = m
  BY <1>1, <1>2 DEF Max
<1> QED BY <1>3 DEF m

\* LEAST of CHECK_SQL.
LEMMA MinOfTwo ==
    ASSUME NEW a \in Int, NEW b \in Int
    PROVE  Min({a, b}) = IF a <= b THEN a ELSE b
<1> DEFINE m == IF a <= b THEN a ELSE b
<1>1. m \in {a, b} /\ \A y \in {a, b} : m <= y
  OBVIOUS
<1>2. \A x \in {a, b} : (\A y \in {a, b} : x <= y) => x = m
  OBVIOUS
<1> HIDE DEF m
<1>3. Min({a, b}) = m
  BY <1>1, <1>2 DEF Min
<1> QED BY <1>3 DEF m

(***************************************************************************)
(* The requests in flight, and what the fleet counted.                     *)
(***************************************************************************)
Replies == {"none", "allow", "deny", "unavailable"}

Asks == {ask \in UNION {f.asks : f \in Fleets} : ask.route \in {"challenge", "token"}}

Request ==
    [pc : {"global", "per_ip"}, r : Replica, row : Rows, stamp : Nat, reply : Replies,
     ask : Asks, ip : Ips]

\* A statement that may still run was sent no longer than the timeout ago.
Punctual(stamp) == stamp \in Nat /\ stamp <= now /\ now - Timeout <= stamp

\* A request in flight: the address it is counted under is its client's, or
\* no client's, and a statement it waits for goes to a shared backend.
InFlight(x) ==
    /\ x \in Request
    /\ x.ip = x.ask.client \/ x.ip \notin Clients
    /\ x.reply = "none" => Shared /\ Punctual(x.stamp)

RequestInv ==
    /\ DOMAIN req = Slot /\ \A q \in Slot : req[q] = Idle \/ InFlight(req[q])
    /\ orphans \subseteq Slot \X Rows \X Nat
    /\ \A o \in orphans : Punctual(o[3])

\* Every row remembers at least the Allow answers of its window, and no later
\* window has any, unless the row has been pruned since.
RowInv ==
    /\ rows \in [Rows -> [start : Int, hits : Nat]]
    /\ allowed \in [Rows -> [0..MaxTime -> Nat]]
    /\ \A row \in Rows :
          /\ rows[row].start \in -1..MaxTime
          /\ rows[row].start >= 0 => allowed[row][rows[row].start] <= rows[row].hits
          /\ \A w \in 0..MaxTime :
                /\ allowed[row][w] <= LimitOf(row)
                /\ allowed[row][w] > 0 => w <= rows[row].start \/ w < now - 2 * Window

\* The requests of a replica that may still send their second statement.
Pending(r) == {q \in Slot : req[q] # Idle /\ req[q].pc = "global" /\ req[q].r = r}

\* What is left of the global budget, twice, and the second statements still
\* to come are covered.
SpareInv ==
    /\ glob \in [Replica -> [{"auth", "challenge"} -> [start : Nat, count : Nat]]]
    /\ spare \in [Replica -> Int]
    /\ \A r \in Replica :
          /\ glob[r]["auth"].count <= Global
          /\ spare[r] >= 2 * (Global - glob[r]["auth"].count) + Cardinality(Pending(r))

AdmitInv ==
    /\ d \in Fleets /\ now \in Nat /\ now <= MaxTime
    /\ RequestInv /\ RowInv /\ SpareInv /\ ChargeInv

\* A slot with a request is not idle.
LEMMA IdleIsNoRequest ==
    ASSUME NEW x, InFlight(x)
    PROVE  x # Idle
<1>1. x.pc \in {"global", "per_ip"}
  BY DEF InFlight, Request
<1>2. Idle.pc = "idle"
  BY DEF Idle
<1> QED BY <1>1, <1>2

\* Every row has a budget.
LEMMA LimitIsPositive ==
    ASSUME NEW row
    PROVE  LimitOf(row) \in Nat \ {0}
BY AdmissionAssumption DEF LimitOf

\* CHECK_SQL, in two cases.
LEMMA CountFacts ==
    ASSUME RowInv, NEW row \in Rows, NEW stamp \in Nat
    PROVE  LET new   == Count(row, stamp)
               old   == rows[row]
               limit == LimitOf(row)
           IN  /\ new \in [start : Int, hits : Nat]
               /\ FloorWindow(stamp) > old.start =>
                     new.start = FloorWindow(stamp) /\ new.hits = 1
               /\ ~ (FloorWindow(stamp) > old.start) =>
                     /\ new.start = old.start
                     /\ new.hits = IF old.hits <= limit THEN old.hits + 1 ELSE limit + 1
<1> DEFINE old == rows[row]
<1> DEFINE f == FloorWindow(stamp)
<1> DEFINE limit == LimitOf(row)
<1>1. old.start \in Int /\ old.hits \in Nat
  BY DEF RowInv
<1>2. f \in Nat /\ limit \in Nat
  BY FloorFacts, LimitIsPositive
<1> HIDE DEF f, limit, old
<1>3. /\ Max({f, old.start}) = IF old.start <= f THEN f ELSE old.start
      /\ Min({old.hits + 1, limit + 1}) =
            IF old.hits + 1 <= limit + 1 THEN old.hits + 1 ELSE limit + 1
  BY <1>1, <1>2, MaxOfTwo, MinOfTwo
<1>4. Count(row, stamp) =
         [start |-> Max({f, old.start}),
          hits  |-> IF f > old.start THEN 1 ELSE Min({old.hits + 1, limit + 1})]
  BY DEF Count, f, limit, old
<1> QED BY <1>1, <1>2, <1>3, <1>4 DEF f, limit, old

\* A statement runs: it is answered Allow, and counted, only within the limit.
LEMMA CountKeepsRows ==
    ASSUME AdmitInv, NEW row \in Rows, NEW stamp, Punctual(stamp),
           NEW new, new = Count(row, stamp), rows' = [rows EXCEPT ![row] = new],
           \/ allowed' = allowed
           \/ /\ Decide(row, new.hits) = "allow"
              /\ allowed' = [allowed EXCEPT ![row][new.start] = @ + 1],
           now' = now
    PROVE  RowInv'
<1> DEFINE old == rows[row]
<1> DEFINE f == FloorWindow(stamp)
<1> DEFINE limit == LimitOf(row)
<1>1. /\ RowInv /\ now \in Nat /\ now <= MaxTime /\ stamp \in Nat /\ stamp <= now
      /\ now - Timeout <= stamp
  BY DEF AdmitInv, Punctual
<1>2. f \in 0..stamp /\ stamp - Window < f
  BY <1>1, FloorFacts
<1>3. Timeout \in Nat /\ Timeout <= Window + 1 /\ Window \in Nat /\ MaxTime \in Nat
  BY AdmissionAssumption, WindowAssumption
<1>4. f \in 0..MaxTime /\ ~ (f < now - 2 * Window)
  BY <1>1, <1>2, <1>3
<1>5. limit \in Nat \ {0}
  BY LimitIsPositive
<1>6. /\ new \in [start : Int, hits : Nat]
      /\ f > old.start => new.start = f /\ new.hits = 1
      /\ ~ (f > old.start) =>
            /\ new.start = old.start
            /\ new.hits = IF old.hits <= limit THEN old.hits + 1 ELSE limit + 1
  BY <1>1, CountFacts
<1>7. /\ old.start \in -1..MaxTime /\ old.hits \in Nat
      /\ old.start >= 0 => allowed[row][old.start] <= old.hits
      /\ \A w \in 0..MaxTime :
            /\ allowed[row][w] \in Nat /\ allowed[row][w] <= limit
            /\ allowed[row][w] > 0 => w <= old.start \/ w < now - 2 * Window
  BY <1>1 DEF RowInv
<1> HIDE DEF f, limit, old
<1>8. new.start \in 0..MaxTime /\ new.start >= old.start
  BY <1>4, <1>6, <1>7
<1> DEFINE A == allowed[row]
<1> DEFINE B == allowed'[row]
<1>9. B = A \/ (B = [A EXCEPT ![new.start] = A[new.start] + 1] /\ new.hits <= limit)
  <2>1. Decide(row, new.hits) = "allow" => new.hits <= limit
    BY DEF Decide, limit
  <2>2. allowed' = [allowed EXCEPT ![row][new.start] = @ + 1]
           => B = [A EXCEPT ![new.start] = A[new.start] + 1]
    BY <1>1 DEF RowInv
  <2> QED BY <2>1, <2>2
<1>10. /\ rows' \in [Rows -> [start : Int, hits : Nat]]
       /\ rows'[row] = new /\ \A z \in Rows \ {row} : rows'[z] = rows[z]
  BY <1>1, <1>6 DEF RowInv
<1>11. A \in [0..MaxTime -> Nat]
  BY <1>1 DEF RowInv
<1>12. B \in [0..MaxTime -> Nat]
  <2> HIDE DEF A, B
  <2>1. A[new.start] + 1 \in Nat
    BY <1>8, <1>11
  <2> QED BY <2>1, <1>9, <1>11
<1>13. allowed' \in [Rows -> [0..MaxTime -> Nat]] /\ \A z \in Rows \ {row} : allowed'[z] = allowed[z]
  <2>1. allowed' = allowed \/ allowed' = [allowed EXCEPT ![row] = B]
    BY <1>1 DEF RowInv
  <2> HIDE DEF B
  <2> QED BY <2>1, <1>12, <1>1 DEF RowInv
<1>14. /\ new.start >= 0 => B[new.start] <= new.hits
       /\ \A w \in 0..MaxTime :
             /\ B[w] <= limit
             /\ B[w] > 0 => w <= new.start \/ w < now - 2 * Window
  <2> HIDE DEF A, B
  <2>0. \A w \in 0..MaxTime : A[w] \in Nat /\ A[w] <= limit
                              /\ (A[w] > 0 => w <= old.start \/ w < now - 2 * Window)
    BY <1>7 DEF A
  <2>1. A[new.start] \in Nat /\ A[new.start] <= limit
    BY <2>0, <1>8
  <2>2. f > old.start => A[new.start] = 0 /\ new.hits = 1
    BY <2>0, <1>4, <1>6, <1>7
  <2>3. ~ (f > old.start) => A[new.start] <= old.hits
    BY <1>6, <1>7, <1>8 DEF A
  <2>4. B = A => B[new.start] <= new.hits
    BY <2>1, <2>2, <2>3, <1>5, <1>6, <1>7
  <2>5. CASE B = A
    <3>1. \A w \in 0..MaxTime : B[w] > 0 => w <= new.start \/ w < now - 2 * Window
      BY <2>5, <2>0, <1>7, <1>8
    <3> QED BY <2>5, <2>4, <2>0, <3>1
  <2>6. CASE B = [A EXCEPT ![new.start] = A[new.start] + 1] /\ new.hits <= limit
    <3>1. B[new.start] = A[new.start] + 1 /\ \A w \in 0..MaxTime : w # new.start => B[w] = A[w]
      BY <2>6, <1>8, <1>11
    <3>2. A[new.start] + 1 <= new.hits
      BY <2>1, <2>2, <2>3, <2>6, <1>5, <1>6, <1>7
    <3>3. \A w \in 0..MaxTime : B[w] > 0 => w <= new.start \/ w < now - 2 * Window
      BY <3>1, <2>0, <1>7, <1>8
    <3>4. \A w \in 0..MaxTime : B[w] <= limit
      BY <3>1, <3>2, <2>0, <2>1, <2>6, <1>5, <1>6
    <3> QED BY <3>1, <3>2, <3>3, <3>4
  <2> QED BY <2>5, <2>6, <1>9
<1> HIDE DEF A, B
<1>15. ASSUME NEW z \in Rows
       PROVE  /\ rows'[z].start \in -1..MaxTime
              /\ rows'[z].start >= 0 => allowed'[z][rows'[z].start] <= rows'[z].hits
              /\ \A w \in 0..MaxTime :
                    /\ allowed'[z][w] <= LimitOf(z)
                    /\ allowed'[z][w] > 0 => w <= rows'[z].start \/ w < now - 2 * Window
  <2>1. CASE z = row
    BY <2>1, <1>8, <1>10, <1>14 DEF B, limit
  <2>2. CASE z # row
    BY <2>2, <1>1, <1>10, <1>13 DEF RowInv
  <2> QED BY <2>1, <2>2
<1>16. \A z \in Rows : LimitOf(z)' = LimitOf(z)
  BY DEF LimitOf
<1> QED BY <1>10, <1>13, <1>15, <1>16 DEF RowInv

(***************************************************************************)
(* The address of a client.                                                *)
(***************************************************************************)
\* Whatever the header says, the address is the client's or the proxy's.
LEMMA ClientIpIsGenuine ==
    ASSUME NEW front, front.skip \in Nat, NEW client \in Clients, NEW a,
           Genuine(front, client, a)
    PROVE  LET ip == ClientIp(front, a.peer, a.lines)
           IN  ip \in Ips /\ (ip = client \/ ip \notin Clients)
<1> DEFINE folded == FlattenSeq(a.lines)
<1> DEFINE n == Len(folded)
<1> DEFINE end == n - front.skip
<1> DEFINE hops == Reverse(folded)
<1> DEFINE ip == ClientIp(front, a.peer, a.lines)
<1>1. /\ a.peer \in Ips /\ folded \in Seq(Ips \cup {Garbage, Binary})
      /\ \/ a.peer = client /\ ~ PeerTrusted(front, a.peer)
         \/ /\ a.peer \notin Clients /\ ~ Trusts(front, client)
            /\ \E i \in 1..end : /\ folded[i] = client
                                 /\ \A j \in (i + 1)..end : Trusts(front, folded[j])
  BY DEF Genuine
<1>2. client \in Ips
  BY FleetAssumption
<1>3. ip = a.peer \/ ip = ResolveClientIp(front, a.peer, hops)
  BY DEF ClientIp
<1> HIDE DEF ip, folded
<1>4. n \in Nat
  BY <1>1
<1>5. hops = [i \in 1..n |-> folded[(n - i) + 1]]
  BY DEF Reverse
<1>6. CASE ~ PeerTrusted(front, a.peer)
  <2>1. ResolveClientIp(front, a.peer, hops) = a.peer
    BY <1>6 DEF ResolveClientIp
  <2> QED BY <2>1, <1>1, <1>3, <1>6 DEF ip
<1>7. CASE PeerTrusted(front, a.peer)
  <2>1. PICK i \in 1..end : /\ folded[i] = client
                            /\ \A j \in (i + 1)..end : Trusts(front, folded[j])
    BY <1>1, <1>7
  <2>2. a.peer \notin Clients /\ ~ Trusts(front, client)
    BY <1>1, <1>7
  <2> DEFINE k == (n - i) + 1
  <2>3. k \in (front.skip + 1)..n /\ i = (n - k) + 1 /\ i \in Int
    BY <1>4, <2>1
  <2> HIDE DEF k
  <2>4. hops[k] = client
    BY <1>4, <1>5, <2>1, <2>3
  <2>5. Len(hops) = n
    <3>1. hops \in Seq(Ips \cup {Garbage, Binary})
      BY <1>1, <1>4, <1>5
    <3> QED BY <3>1, <1>4, <1>5
  <2> HIDE DEF n
  <2> DEFINE untrusted == {j \in (front.skip + 1)..Len(hops) : ~ Trusts(front, hops[j])}
  <2>6. k \in untrusted
    BY <2>2, <2>3, <2>4, <2>5
  <2>7. \A j \in untrusted : k <= j
    <3> SUFFICES ASSUME NEW j \in (front.skip + 1)..n, j < k
                 PROVE  Trusts(front, hops[j])
      BY <2>3, <2>5, <1>4
    <3>1. (n - j) + 1 \in (i + 1)..end /\ j \in 1..n
      BY <2>3, <1>4 DEF end
    <3>2. hops[j] = folded[(n - j) + 1]
      BY <3>1, <1>5 DEF n
    <3> QED BY <3>1, <3>2, <2>1
  <2> DEFINE first == CHOOSE j \in untrusted : \A m \in untrusted : j <= m
  <2>8. untrusted \subseteq Int
    BY <2>5, <1>4
  <2> HIDE DEF hops, untrusted
  <2>9. first = k
    <3>1. first \in untrusted /\ \A m \in untrusted : first <= m
      BY <2>6, <2>7
    <3> HIDE DEF first
    <3>2. first <= k /\ k <= first
      BY <3>1, <2>6, <2>7
    <3> QED BY <3>1, <3>2, <2>6, <2>8
  <2>10. ResolveClientIp(front, a.peer, hops) \in {a.peer, hops[first]}
    BY DEF ResolveClientIp, untrusted
  <2> QED BY <1>1, <1>2, <1>3, <2>2, <2>4, <2>9, <2>10 DEF ip
<1> QED BY <1>6, <1>7

(***************************************************************************)
(* Steps of a request.                                                     *)
(***************************************************************************)
\* Nothing changes the rows or the clock.
LEMMA SameRows ==
    ASSUME AdmitInv, UNCHANGED <<rows, allowed, now>>
    PROVE  RowInv'
BY DEF AdmitInv, RowInv, LimitOf

\* The orphans that give-ups and restarts add.
LEMMA OrphanedIsPunctual ==
    ASSUME AdmitInv, NEW q \in Slot, req[q] # Idle
    PROVE  \A o \in Orphaned(q) : o \in Slot \X Rows \X Nat /\ Punctual(o[3])
<1>1. InFlight(req[q])
  BY DEF AdmitInv, RequestInv
<1>2. req[q].row \in Rows /\ req[q].stamp \in Nat
  BY <1>1 DEF InFlight, Request
<1>3. CASE req[q].reply = "none"
  <2>1. Orphaned(q) = {<<q, req[q].row, req[q].stamp>>}
    BY <1>3 DEF Orphaned
  <2>2. Punctual(req[q].stamp)
    BY <1>1, <1>3 DEF InFlight
  <2> QED BY <2>1, <2>2, <1>2
<1>4. CASE req[q].reply # "none"
  BY <1>4 DEF Orphaned
<1> QED BY <1>3, <1>4

\* A request gets its reply.
LEMMA ReplyKeepsRequests ==
    ASSUME AdmitInv, NEW q \in Slot, req[q] # Idle, NEW z \in Replies \ {"none"},
           req' = [req EXCEPT ![q].reply = z], UNCHANGED <<d, now>>,
           orphans' \subseteq orphans \cup Orphaned(q)
    PROVE  RequestInv' /\ \A r \in Replica : Pending(r)' = Pending(r)
<1> DEFINE x == req[q]
<1>1. /\ DOMAIN req = Slot /\ \A p \in Slot : req[p] = Idle \/ InFlight(req[p])
      /\ InFlight(x)
  BY DEF AdmitInv, RequestInv
<1>2. x \in Request
  BY <1>1 DEF InFlight
<1> DEFINE y == [x EXCEPT !.reply = z]
<1>3. /\ y \in Request /\ y.reply = z /\ y.pc = x.pc /\ y.r = x.r /\ y.ip = x.ip
      /\ y.ask = x.ask /\ y.stamp = x.stamp
  BY <1>2 DEF Request
<1>4. req' = [req EXCEPT ![q] = y]
  OBVIOUS
<1> HIDE DEF y
<1>5. /\ DOMAIN req' = Slot /\ req'[q] = y /\ \A p \in Slot \ {q} : req'[p] = req[p]
  BY <1>1, <1>4
<1>6. InFlight(y)
  BY <1>1, <1>3 DEF InFlight
<1>7. \A p \in Slot : req'[p] = Idle \/ InFlight(req'[p])
  BY <1>1, <1>5, <1>6
<1>8. \A p \in Slot : (InFlight(req[p]))' <=> InFlight(req'[p])
  BY DEF InFlight, Punctual, Shared
<1>9. \A o \in orphans' : o \in Slot \X Rows \X Nat /\ Punctual(o[3])
  BY OrphanedIsPunctual DEF AdmitInv, RequestInv
<1>10. RequestInv'
  BY <1>5, <1>7, <1>8, <1>9 DEF RequestInv, Punctual
<1>11. y # Idle
  BY <1>6, IdleIsNoRequest
<1>12. \A r \in Replica : Pending(r)' = Pending(r)
  BY <1>3, <1>5, <1>11 DEF Pending
<1> QED BY <1>10, <1>12

\* A request ends.
LEMMA EndKeepsRequests ==
    ASSUME AdmitInv, NEW q \in Slot, req' = [req EXCEPT ![q] = Idle],
           UNCHANGED <<d, now, orphans>>
    PROVE  RequestInv' /\ \A r \in Replica : Pending(r)' \subseteq Pending(r) \ {q}
<1>1. /\ DOMAIN req = Slot /\ \A p \in Slot : req[p] = Idle \/ InFlight(req[p])
  BY DEF AdmitInv, RequestInv
<1>2. DOMAIN req' = Slot /\ req'[q] = Idle /\ \A p \in Slot \ {q} : req'[p] = req[p]
  BY <1>1
<1>3. \A p \in Slot : (InFlight(req[p]))' <=> InFlight(req'[p])
  BY DEF InFlight, Punctual, Shared
<1>4. RequestInv'
  BY <1>1, <1>2, <1>3 DEF AdmitInv, RequestInv, Punctual
<1> QED BY <1>2, <1>4 DEF Pending

\* A request goes on with a statement, or an answer of L1, for a row.
LEMMA AskingKeepsRequests ==
    ASSUME AdmitInv, NEW q \in Slot, NEW r \in Replica, NEW step \in {"global", "per_ip"},
           NEW row \in Rows, NEW ask \in Asks, NEW ip \in Ips,
           ip = ask.client \/ ip \notin Clients,
           req' = [req EXCEPT ![q] = Asking(r, step, row, ask, ip)],
           UNCHANGED <<d, now, orphans>>
    PROVE  /\ RequestInv'
           /\ \A z \in Replica : Pending(z)' =
                 IF z = r /\ step = "global" THEN Pending(z) \cup {q} ELSE Pending(z) \ {q}
<1> DEFINE y == Asking(r, step, row, ask, ip)
<1>1. /\ DOMAIN req = Slot /\ \A p \in Slot : req[p] = Idle \/ InFlight(req[p])
      /\ now \in Nat
  BY DEF AdmitInv, RequestInv
<1>2. /\ y \in Request /\ y.pc = step /\ y.r = r /\ y.ip = ip /\ y.ask = ask /\ y.stamp = now
      /\ y.reply = IF Shared THEN "none" ELSE "allow"
  BY <1>1 DEF Asking, Request, Replies
<1> HIDE DEF y
<1>3. Punctual(now)
  BY <1>1, AdmissionAssumption DEF Punctual
<1>4. InFlight(y)
  BY <1>2, <1>3 DEF InFlight
<1>5. DOMAIN req' = Slot /\ req'[q] = y /\ \A p \in Slot \ {q} : req'[p] = req[p]
  BY <1>1 DEF y
<1>6. \A p \in Slot : (InFlight(req[p]))' <=> InFlight(req'[p])
  BY DEF InFlight, Punctual, Shared
<1>7. RequestInv'
  BY <1>1, <1>4, <1>5, <1>6 DEF AdmitInv, RequestInv, Punctual
<1>8. y # Idle
  BY <1>4, IdleIsNoRequest
<1>9. ASSUME NEW z \in Replica
      PROVE  Pending(z)' =
                IF z = r /\ step = "global" THEN Pending(z) \cup {q} ELSE Pending(z) \ {q}
  BY <1>2, <1>5, <1>8 DEF Pending
<1> QED BY <1>7, <1>9

(***************************************************************************)
(* The statements a replica may send.                                      *)
(***************************************************************************)
\* Requests in flight are finitely many.
LEMMA PendingIsFinite ==
    ASSUME NEW r
    PROVE  IsFiniteSet(Pending(r)) /\ Cardinality(Pending(r)) \in Nat
<1>1. IsFiniteSet(Slot) /\ Pending(r) \subseteq Slot
  BY AdmissionAssumption DEF Pending
<1> QED BY <1>1, SmallerSet

\* No budget is spent, and no request may newly send a second statement.
LEMMA SameSpare ==
    ASSUME AdmitInv, spare' = spare,
           glob' \in [Replica -> [{"auth", "challenge"} -> [start : Nat, count : Nat]]],
           \A r \in Replica : glob'[r]["auth"] = glob[r]["auth"],
           \A r \in Replica : Pending(r)' \subseteq Pending(r)
    PROVE  SpareInv'
<1>1. SpareInv
  BY DEF AdmitInv
<1>2. ASSUME NEW r \in Replica
      PROVE  spare'[r] >= 2 * (Global - glob'[r]["auth"].count) + Cardinality(Pending(r)')
  <2>1. Cardinality(Pending(r)') <= Cardinality(Pending(r)) /\ Cardinality(Pending(r)') \in Nat
    BY PendingIsFinite, SmallerSet
  <2>2. Cardinality(Pending(r)) \in Nat
    BY PendingIsFinite
  <2>3. /\ spare[r] \in Int /\ glob[r]["auth"].count \in Nat
        /\ spare[r] >= 2 * (Global - glob[r]["auth"].count) + Cardinality(Pending(r))
    BY <1>1 DEF SpareInv
  <2>4. Global \in Nat
    BY AdmissionAssumption
  <2> QED BY <2>1, <2>2, <2>3, <2>4
<1> QED BY <1>1, <1>2 DEF SpareInv

\* check_global_at on the auth ceiling.
LEMMA CheckGlobalFacts ==
    ASSUME NEW b \in [start : Nat, count : Nat], NEW t \in Nat, NEW limit \in Nat \ {0}
    PROVE  LET c == CheckGlobal(b, t, limit)
           IN  /\ c.ok \in BOOLEAN /\ c.bucket \in [start : Nat, count : Nat]
               /\ c.ok => c.bucket.count <= limit
               /\ c.ok /\ c.bucket.start = b.start => c.bucket.count = b.count + 1
               /\ c.ok /\ c.bucket.start # b.start => c.bucket.count = 1
               /\ ~ c.ok => c.bucket = b
<1> DEFINE new == [start |-> t, count |-> 0]
<1>1. CASE Elapsed(b, t)
  <2>1. CheckGlobal(b, t, limit) = [ok |-> TRUE, bucket |-> [new EXCEPT !.count = 1]]
    BY <1>1 DEF CheckGlobal
  <2>2. t # b.start
    BY <1>1, WindowAssumption DEF Elapsed
  <2> QED BY <2>1, <2>2
<1>2. CASE ~ Elapsed(b, t)
  <2>1. CheckGlobal(b, t, limit) =
           IF b.count < limit THEN [ok |-> TRUE, bucket |-> [b EXCEPT !.count = b.count + 1]]
           ELSE [ok |-> FALSE, bucket |-> b]
    BY <1>2 DEF CheckGlobal
  <2> QED BY <2>1
<1> QED BY <1>1, <1>2

\* A request of /auth/* meets L1 and, where the backend is shared, sends its
\* first statement.
LEMMA ArriveStep ==
    ASSUME AdmitInv, NEW q \in Slot, NEW r \in d.replicas,
           NEW ask \in Ask({"challenge", "token"}), NEW a \in Arrivals(d.front, ask.client),
           Arrive(q, r, ask, a)
    PROVE  AdmitInv'
<1>1. /\ d \in Fleets /\ now \in Nat /\ now <= MaxTime
      /\ RequestInv /\ SpareInv /\ ChargeInv
  BY DEF AdmitInv
<1>2. r \in Replica /\ ask \in Asks /\ ask.client \in Clients /\ d.front.skip \in Nat
  BY <1>1, FleetAssumption DEF Ask, Asks
<1> DEFINE ip == ClientIp(d.front, a.peer, a.lines)
<1>3. ip \in Ips /\ (ip = ask.client \/ ip \notin Clients)
  BY <1>1, <1>2, ArrivalAssumption, ClientIpIsGenuine
<1> HIDE DEF ip
<1>4. UNCHANGED <<d, now, lim, rows, orphans, recent, allowed>>
  BY DEF Arrive
<1>5. RowInv' /\ ChargeInv'
  BY <1>1, <1>4, SameRows, SameCharges
<1> DEFINE checked == CheckGlobal(glob[r].auth, now, Global)
<1> DEFINE old == glob[r]["auth"]
<1>6. /\ glob' = [glob EXCEPT ![r].auth = checked.bucket]
      /\ checked.ok =>
            /\ req' = [req EXCEPT ![q] = Asking(r, "global", GlobalRow, ask, ip)]
            /\ spare' = [spare EXCEPT ![r] =
                  Sending(r) + IF checked.bucket.start = glob[r].auth.start THEN 0 ELSE 2 * Global]
      /\ ~ checked.ok => UNCHANGED <<req, spare>>
  BY DEF Arrive, ip
<1>7. /\ old \in [start : Nat, count : Nat] /\ spare[r] \in Int
      /\ old.count <= Global
      /\ spare[r] >= 2 * (Global - old.count) + Cardinality(Pending(r))
  BY <1>1, <1>2 DEF SpareInv
<1>8. Global \in Nat \ {0}
  BY AdmissionAssumption
<1>9. /\ checked.ok \in BOOLEAN /\ checked.bucket \in [start : Nat, count : Nat]
      /\ checked.ok => checked.bucket.count <= Global
      /\ checked.ok /\ checked.bucket.start = old.start => checked.bucket.count = old.count + 1
      /\ checked.ok /\ checked.bucket.start # old.start => checked.bucket.count = 1
      /\ ~ checked.ok => checked.bucket = old
  BY <1>1, <1>7, <1>8, CheckGlobalFacts
<1> HIDE DEF checked
<1>10. /\ glob' \in [Replica -> [{"auth", "challenge"} -> [start : Nat, count : Nat]]]
       /\ glob'[r]["auth"] = checked.bucket
       /\ \A z \in Replica \ {r} : glob'[z] = glob[z]
  BY <1>1, <1>2, <1>6, <1>9 DEF SpareInv
<1>11. CASE ~ checked.ok
  <2>1. UNCHANGED <<req, spare>>
    BY <1>6, <1>11
  <2>2. \A z \in Replica : Pending(z)' = Pending(z)
    BY <2>1 DEF Pending
  <2>3. \A z \in Replica : glob'[z]["auth"] = glob[z]["auth"]
    BY <1>9, <1>10, <1>11
  <2>4. SpareInv'
    BY <2>1, <2>2, <2>3, <1>10, SameSpare
  <2>5. RequestInv'
    BY <2>1, <1>1, <1>4 DEF RequestInv, InFlight, Punctual, Shared
  <2> QED BY <2>4, <2>5, <1>1, <1>4, <1>5 DEF AdmitInv
<1>12. CASE checked.ok
  <2>1. GlobalRow \in Rows
    BY DEF Rows
  <2>2. /\ RequestInv'
        /\ \A z \in Replica : Pending(z)' = IF z = r THEN Pending(z) \cup {q} ELSE Pending(z) \ {q}
    BY <2>1, <1>2, <1>3, <1>4, <1>6, <1>12, AskingKeepsRequests
  <2>3. req[q] = Idle
    BY DEF Arrive, FirstFree
  <2>4. \A z \in Replica : q \notin Pending(z)
    BY <2>3 DEF Pending
  <2>5. Cardinality(Pending(r)') = Cardinality(Pending(r)) + 1 /\ Cardinality(Pending(r)) \in Nat
    BY <2>2, <2>4, <1>2, PendingIsFinite, FS_AddElement
  <2> DEFINE more == IF checked.bucket.start = old.start THEN 0 ELSE 2 * Global
  <2>6. Sending(r) \in Int /\ Sending(r) >= spare[r] - 1
    BY <1>7 DEF Sending
  <2>7. spare' = [spare EXCEPT ![r] = Sending(r) + more]
    BY <1>6, <1>12
  <2>8. more \in Int
    BY <1>8
  <2>9. spare' \in [Replica -> Int] /\ spare'[r] = Sending(r) + more
        /\ \A z \in Replica \ {r} : spare'[z] = spare[z]
    BY <2>6, <2>7, <2>8, <1>1, <1>2 DEF SpareInv
  <2>10. spare'[r] >= 2 * (Global - glob'[r]["auth"].count) + Cardinality(Pending(r)')
    <3>1. CASE checked.bucket.start = old.start
      <4>1. more = 0 /\ checked.bucket.count = old.count + 1
        BY <3>1, <1>9, <1>12
      <4> HIDE DEF more
      <4> QED BY <4>1, <2>5, <2>6, <2>9, <1>7, <1>8, <1>10
    <3>2. CASE checked.bucket.start # old.start
      <4>1. more = 2 * Global /\ checked.bucket.count = 1
        BY <3>2, <1>9, <1>12
      <4> HIDE DEF more
      <4> QED BY <4>1, <2>5, <2>6, <2>9, <1>7, <1>8, <1>10
    <3> QED BY <3>1, <3>2
  <2> HIDE DEF more
  <2>11. ASSUME NEW z \in Replica
         PROVE  /\ glob'[z]["auth"].count <= Global
                /\ spare'[z] >= 2 * (Global - glob'[z]["auth"].count) + Cardinality(Pending(z)')
    <3>1. CASE z = r
      BY <3>1, <2>10, <1>9, <1>10, <1>12
    <3>2. CASE z # r
      <4>1. Pending(z)' = Pending(z)
        BY <3>2, <2>2, <2>4
      <4> QED BY <4>1, <3>2, <2>9, <1>10, <1>1 DEF SpareInv
    <3> QED BY <3>1, <3>2
  <2>12. SpareInv'
    BY <2>9, <2>11, <1>10 DEF SpareInv
  <2> QED BY <2>2, <2>12, <1>1, <1>4, <1>5 DEF AdmitInv
<1> QED BY <1>9, <1>11, <1>12

\* A statement runs, and its request takes the answer.
LEMMA ExecuteStep ==
    ASSUME AdmitInv, NEW q \in Slot, Execute(q)
    PROVE  AdmitInv'
<1> DEFINE x == req[q]
<1> DEFINE new == Count(x.row, x.stamp)
<1>1. /\ d \in Fleets /\ now \in Nat /\ now <= MaxTime
      /\ RequestInv /\ SpareInv /\ ChargeInv
  BY DEF AdmitInv
<1>2. /\ x # Idle /\ x.reply = "none"
      /\ rows' = [rows EXCEPT ![x.row] = new]
      /\ req' = [req EXCEPT ![q].reply = Decide(x.row, new.hits)]
      /\ allowed' = IF Decide(x.row, new.hits) = "allow"
                    THEN [allowed EXCEPT ![x.row][new.start] = @ + 1] ELSE allowed
      /\ UNCHANGED <<d, now, limits, orphans, recent, spare>>
  BY DEF Execute
<1>3. x.row \in Rows /\ Punctual(x.stamp)
  BY <1>1, <1>2 DEF RequestInv, InFlight, Request
<1>4. RowInv'
  BY <1>2, <1>3, CountKeepsRows
<1>5. Decide(x.row, new.hits) \in Replies \ {"none"}
  BY DEF Decide, Replies
<1> HIDE DEF new
<1>6. RequestInv' /\ \A r \in Replica : Pending(r)' = Pending(r)
  BY <1>2, <1>5, ReplyKeepsRequests
<1>7. UNCHANGED <<lim, glob>>
  BY <1>2 DEF limits
<1>8. SpareInv'
  BY <1>1, <1>2, <1>6, <1>7, SameSpare DEF SpareInv
<1>9. ChargeInv'
  BY <1>1, <1>2, <1>7, SameCharges
<1> QED BY <1>1, <1>2, <1>4, <1>6, <1>8, <1>9 DEF AdmitInv

\* The timeout: the statement may still run, without its request.
LEMMA GiveUpStep ==
    ASSUME AdmitInv, NEW q \in Slot, GiveUp(q)
    PROVE  AdmitInv'
<1>1. /\ req[q] # Idle /\ req' = [req EXCEPT ![q].reply = "unavailable"]
      /\ orphans' = orphans \cup Orphaned(q)
      /\ UNCHANGED <<d, now, lim, glob, rows, recent, allowed, spare>>
  BY DEF GiveUp, TimedOut, limits, history
<1>2. RequestInv' /\ \A r \in Replica : Pending(r)' = Pending(r)
  BY <1>1, ReplyKeepsRequests DEF Replies
<1>3. RowInv' /\ ChargeInv'
  BY <1>1, SameRows, SameCharges DEF AdmitInv
<1>4. SpareInv'
  BY <1>1, <1>2, SameSpare DEF AdmitInv, SpareInv
<1> QED BY <1>1, <1>2, <1>3, <1>4 DEF AdmitInv

\* The database fails a statement.
LEMMA FailStep ==
    ASSUME AdmitInv, NEW q \in Slot, Fail(q)
    PROVE  AdmitInv'
<1>1. /\ req[q] # Idle /\ req' = [req EXCEPT ![q].reply = "unavailable"]
      /\ UNCHANGED <<d, now, lim, glob, rows, orphans, recent, allowed, spare>>
  BY DEF Fail, limits, history
<1>2. RequestInv' /\ \A r \in Replica : Pending(r)' = Pending(r)
  BY <1>1, ReplyKeepsRequests DEF Replies
<1>3. RowInv' /\ ChargeInv'
  BY <1>1, SameRows, SameCharges DEF AdmitInv
<1>4. SpareInv'
  BY <1>1, <1>2, SameSpare DEF AdmitInv, SpareInv
<1> QED BY <1>1, <1>2, <1>3, <1>4 DEF AdmitInv

\* A request that was refused ends.
LEMMA DeniedStep ==
    ASSUME AdmitInv, NEW q \in Slot, Denied(q)
    PROVE  AdmitInv'
<1>1. /\ req' = [req EXCEPT ![q] = Idle]
      /\ UNCHANGED <<d, now, lim, glob, rows, orphans, recent, allowed, spare>>
  BY DEF Denied, limits, history
<1>2. RequestInv' /\ \A r \in Replica : Pending(r)' \subseteq Pending(r)
  BY <1>1, EndKeepsRequests
<1>3. RowInv' /\ ChargeInv'
  BY <1>1, SameRows, SameCharges DEF AdmitInv
<1>4. SpareInv'
  BY <1>1, <1>2, SameSpare DEF AdmitInv, SpareInv
<1> QED BY <1>1, <1>2, <1>3, <1>4 DEF AdmitInv

\* The statement of a request that gave up runs and is counted.
LEMMA ExecuteOrphanStep ==
    ASSUME AdmitInv, NEW o \in orphans, ExecuteOrphan(o)
    PROVE  AdmitInv'
<1>1. /\ rows' = [rows EXCEPT ![o[2]] = Count(o[2], o[3])] /\ orphans' = orphans \ {o}
      /\ UNCHANGED <<d, now, lim, glob, req, recent, allowed, spare>>
  BY DEF ExecuteOrphan, limits, history
<1>2. o[2] \in Rows /\ Punctual(o[3])
  BY DEF AdmitInv, RequestInv
<1>3. RowInv'
  BY <1>1, <1>2, CountKeepsRows
<1>4. RequestInv'
  BY <1>1 DEF AdmitInv, RequestInv, InFlight, Punctual, Shared
<1>5. \A r \in Replica : Pending(r)' = Pending(r)
  BY <1>1 DEF Pending
<1>6. SpareInv'
  BY <1>1, <1>5, SameSpare DEF AdmitInv, SpareInv
<1>7. ChargeInv'
  BY <1>1, SameCharges DEF AdmitInv
<1> QED BY <1>1, <1>3, <1>4, <1>6, <1>7 DEF AdmitInv

\* The pruner deletes rows that are two windows old: no answer of theirs can
\* be asked for again.
LEMMA PruneStep ==
    ASSUME AdmitInv, Prune
    PROVE  AdmitInv'
<1>1. /\ rows' = [row \in Rows |-> IF rows[row].start < now - 2 * Window THEN NoRow ELSE rows[row]]
      /\ UNCHANGED <<d, now, lim, glob, req, orphans, recent, allowed, spare>>
  BY DEF Prune, limits, history
<1>2. RowInv
  BY DEF AdmitInv
<1>3. NoRow \in [start : Int, hits : Nat] /\ NoRow.start = -1
  BY DEF NoRow
<1>4. rows' \in [Rows -> [start : Int, hits : Nat]]
  BY <1>1, <1>2, <1>3 DEF RowInv
<1>5. ASSUME NEW row \in Rows
      PROVE  /\ rows'[row].start \in -1..MaxTime
             /\ rows'[row].start >= 0 => allowed[row][rows'[row].start] <= rows'[row].hits
             /\ \A w \in 0..MaxTime :
                   /\ allowed[row][w] <= LimitOf(row)
                   /\ allowed[row][w] > 0 => w <= rows'[row].start \/ w < now - 2 * Window
  <2>1. CASE rows[row].start < now - 2 * Window
    <3>1. rows'[row] = NoRow
      BY <1>1, <2>1
    <3>2. now \in Nat /\ Window \in Nat /\ MaxTime \in Nat /\ rows[row].start \in Int
      BY <1>2, WindowAssumption, AdmissionAssumption DEF AdmitInv, RowInv
    <3> HIDE DEF NoRow
    <3> QED BY <1>2, <1>3, <2>1, <3>1, <3>2 DEF RowInv
  <2>2. CASE ~ (rows[row].start < now - 2 * Window)
    <3>1. rows'[row] = rows[row]
      BY <1>1, <2>2
    <3> QED BY <1>2, <3>1 DEF RowInv
  <2> QED BY <2>1, <2>2
<1>6. RowInv'
  BY <1>1, <1>2, <1>4, <1>5 DEF RowInv, LimitOf
<1>7. RequestInv'
  BY <1>1 DEF AdmitInv, RequestInv, InFlight, Punctual, Shared
<1>8. \A r \in Replica : Pending(r)' = Pending(r)
  BY <1>1 DEF Pending
<1>9. SpareInv'
  BY <1>1, <1>8, SameSpare DEF AdmitInv, SpareInv
<1>10. ChargeInv'
  BY <1>1, SameCharges DEF AdmitInv
<1> QED BY <1>1, <1>6, <1>7, <1>9, <1>10 DEF AdmitInv

\* The per-address check, in memory and then in the shared row.
LEMMA PerIpCheckStep ==
    ASSUME AdmitInv, NEW q \in Slot, PerIpCheck(q)
    PROVE  AdmitInv'
<1> DEFINE x == req[q]
<1>1. /\ d \in Fleets /\ now \in Nat /\ now <= MaxTime
      /\ RequestInv /\ SpareInv /\ ChargeInv
  BY DEF AdmitInv
<1>2. x # Idle /\ InFlight(x)
  BY <1>1 DEF RequestInv, PerIpCheck, Answered
<1>3. PICK r \in Replica : r = x.r
  BY <1>2 DEF InFlight, Request
<1> DEFINE checked == Check(lim[r].auth, x.ip, now, PerIp)
<1>4. /\ x # Idle /\ x.pc = "global"
      /\ lim' = [lim EXCEPT ![r].auth = checked.lim]
      /\ IF checked.ok
         THEN /\ req' = [req EXCEPT ![q] = Asking(r, "per_ip", x.ip, x.ask, x.ip)]
              /\ spare' = [spare EXCEPT ![r] = Sending(r)]
              /\ Charged(r, "auth", x.ip)
         ELSE req' = [req EXCEPT ![q] = Idle] /\ UNCHANGED <<spare, recent>>
      /\ UNCHANGED <<d, now, glob, rows, orphans, allowed>>
  BY <1>3 DEF PerIpCheck, Answered
<1>5. /\ r \in Replica /\ x.ip \in Ips /\ x.ask \in Asks
      /\ x.ip = x.ask.client \/ x.ip \notin Clients
      /\ x.ip \in Rows
  BY <1>2 DEF InFlight, Request, Rows
<1>6. ChargeInv'
  <2>1. "auth" \in Scope /\ x.ip \in Keys["auth"] /\ Limits["auth"] = PerIp
    BY <1>5, ScopeFacts DEF Scope
  <2>2. checked = Check(lim[r]["auth"], x.ip, now, Limits["auth"])
    BY <2>1
  <2>3. IF checked.ok THEN Charged(r, "auth", x.ip) ELSE UNCHANGED recent
    BY <1>4
  <2> HIDE DEF checked
  <2> QED BY <1>1, <1>4, <1>5, <2>1, <2>2, <2>3, CheckKeepsCharges
<1> HIDE DEF checked
<1>7. RowInv'
  BY <1>4, SameRows
<1>8. CASE ~ checked.ok
  <2>1. RequestInv' /\ \A z \in Replica : Pending(z)' \subseteq Pending(z)
    BY <1>4, <1>8, EndKeepsRequests
  <2>2. SpareInv'
    BY <2>1, <1>1, <1>4, <1>8, SameSpare DEF SpareInv
  <2> QED BY <2>1, <2>2, <1>1, <1>4, <1>6, <1>7 DEF AdmitInv
<1>9. CASE checked.ok
  <2>1. /\ RequestInv'
        /\ \A z \in Replica : Pending(z)' = Pending(z) \ {q}
    BY <1>4, <1>5, <1>9, AskingKeepsRequests
  <2>2. q \in Pending(r)
    BY <1>4, <1>3 DEF Pending
  <2>3. /\ Cardinality(Pending(r)') = Cardinality(Pending(r)) - 1
        /\ Cardinality(Pending(r)) \in Nat
    BY <2>1, <2>2, <1>5, PendingIsFinite, FS_RemoveElement
  <2>4. Sending(r) \in Int /\ Sending(r) >= spare[r] - 1 /\ spare[r] \in Int
    BY <1>1, <1>5 DEF Sending, SpareInv
  <2>5. spare' = [spare EXCEPT ![r] = Sending(r)]
    BY <1>4, <1>9
  <2>6. /\ spare' \in [Replica -> Int] /\ spare'[r] = Sending(r)
        /\ \A z \in Replica \ {r} : spare'[z] = spare[z]
    BY <2>4, <2>5, <1>1, <1>5 DEF SpareInv
  <2>7. Global \in Nat
    BY AdmissionAssumption
  <2>8. ASSUME NEW z \in Replica
        PROVE  spare'[z] >= 2 * (Global - glob[z]["auth"].count) + Cardinality(Pending(z)')
    <3>1. /\ spare[z] >= 2 * (Global - glob[z]["auth"].count) + Cardinality(Pending(z))
          /\ glob[z]["auth"].count \in Nat /\ spare[z] \in Int
      BY <1>1 DEF SpareInv
    <3>2. CASE z = r
      BY <3>1, <3>2, <2>3, <2>4, <2>6, <2>7
    <3>3. CASE z # r
      <4>1. /\ Cardinality(Pending(z)') <= Cardinality(Pending(z))
            /\ Cardinality(Pending(z)') \in Nat /\ Cardinality(Pending(z)) \in Nat
        <5>1. Pending(z)' \subseteq Pending(z)
          BY <2>1
        <5> QED BY <5>1, PendingIsFinite, SmallerSet
      <4> QED BY <4>1, <3>1, <3>3, <2>6, <2>7
    <3> QED BY <3>2, <3>3
  <2>9. SpareInv'
    BY <2>6, <2>8, <1>1, <1>4 DEF SpareInv
  <2> QED BY <2>1, <2>9, <1>1, <1>4, <1>6, <1>7 DEF AdmitInv
<1> QED BY <1>8, <1>9

\* The handler, with the challenge limiter in front of it.
LEMMA HandleStep ==
    ASSUME AdmitInv, NEW q \in Slot, Handle(q)
    PROVE  AdmitInv'
<1> DEFINE x == req[q]
<1> DEFINE r == x.r
<1> DEFINE agent == x.ask.agent
<1> DEFINE ceiling == CheckGlobal(glob[r].challenge, now, ChallengeGlobal)
<1> DEFINE checked == Check(lim[r].challenge, agent, now, ChallengePerAgent)
<1>1. /\ d \in Fleets /\ now \in Nat /\ now <= MaxTime
      /\ RequestInv /\ SpareInv /\ ChargeInv
  BY DEF AdmitInv
<1>2. /\ x # Idle /\ req' = [req EXCEPT ![q] = Idle]
      /\ UNCHANGED <<d, now, rows, orphans, allowed, spare>>
      /\ \/ /\ x.ask.route = "challenge"
            /\ glob' = [glob EXCEPT ![r].challenge = ceiling.bucket]
            /\ lim' = IF ceiling.ok THEN [lim EXCEPT ![r].challenge = checked.lim] ELSE lim
            /\ IF ceiling.ok /\ checked.ok
               THEN Charged(r, "challenge", agent) ELSE UNCHANGED recent
         \/ UNCHANGED <<lim, glob, recent>>
  BY DEF Handle, Answered, limits
<1>3. RequestInv' /\ \A z \in Replica : Pending(z)' \subseteq Pending(z)
  BY <1>2, EndKeepsRequests
<1>4. RowInv'
  BY <1>2, SameRows
<1>5. InFlight(x)
  BY <1>1, <1>2 DEF RequestInv
<1>6. CASE UNCHANGED <<lim, glob, recent>>
  <2>1. SpareInv' /\ ChargeInv'
    BY <1>1, <1>2, <1>3, <1>6, SameSpare, SameCharges DEF SpareInv
  <2> QED BY <2>1, <1>1, <1>2, <1>3, <1>4 DEF AdmitInv
<1>7. CASE /\ x.ask.route = "challenge"
           /\ glob' = [glob EXCEPT ![r].challenge = ceiling.bucket]
           /\ lim' = IF ceiling.ok THEN [lim EXCEPT ![r].challenge = checked.lim] ELSE lim
           /\ IF ceiling.ok /\ checked.ok
              THEN Charged(r, "challenge", agent) ELSE UNCHANGED recent
  <2>1. r \in Replica /\ x.ask \in Asks
    BY <1>5 DEF InFlight, Request
  <2>2. agent \in Agents
    BY <2>1, <1>7, FleetAssumption DEF Asks
  <2>3. ChallengeGlobal \in Nat \ {0} /\ glob[r]["challenge"] \in [start : Nat, count : Nat]
    BY <1>1, <2>1, AdmissionAssumption DEF SpareInv
  <2>4. ceiling.bucket \in [start : Nat, count : Nat] /\ ceiling.ok \in BOOLEAN
    BY <2>3, <1>1, CheckGlobalFacts
  <2>5. "challenge" \in Scope /\ agent \in Keys["challenge"]
        /\ Limits["challenge"] = ChallengePerAgent
    BY <2>2, ScopeFacts DEF Scope
  <2>6. checked = Check(lim[r]["challenge"], agent, now, Limits["challenge"])
    BY <2>5
  <2> HIDE DEF ceiling, checked
  <2>7. /\ glob' \in [Replica -> [{"auth", "challenge"} -> [start : Nat, count : Nat]]]
        /\ \A z \in Replica : glob'[z]["auth"] = glob[z]["auth"]
    BY <1>1, <1>7, <2>1, <2>4 DEF SpareInv
  <2>8. SpareInv'
    BY <2>7, <1>2, <1>3, SameSpare
  <2>9. CASE ceiling.ok
    <3>1. lim' = [lim EXCEPT ![r]["challenge"] = checked.lim]
      BY <1>7, <2>9
    <3>2. IF checked.ok THEN Charged(r, "challenge", agent) ELSE UNCHANGED recent
      BY <1>7, <2>9
    <3>3. ChargeInv'
      BY <3>1, <3>2, <1>1, <1>2, <2>1, <2>5, <2>6, CheckKeepsCharges
    <3> QED BY <3>3, <2>8, <1>1, <1>2, <1>3, <1>4 DEF AdmitInv
  <2>10. CASE ~ ceiling.ok
    <3>1. UNCHANGED <<lim, recent>>
      BY <1>7, <2>10
    <3>2. ChargeInv'
      BY <3>1, <1>1, <1>2, SameCharges
    <3> QED BY <3>2, <2>8, <1>1, <1>2, <1>3, <1>4 DEF AdmitInv
  <2> QED BY <2>9, <2>10
<1> QED BY <1>2, <1>6, <1>7

\* A read: its credential, then the limiter of its bucket.
LEMMA ReadStep ==
    ASSUME AdmitInv, NEW r \in d.replicas, NEW ask \in Ask({"read"}),
           NEW a \in Arrivals(d.front, ask.client), Read(r, ask.cred, a)
    PROVE  AdmitInv'
<1> DEFINE p == Resolve(ask.cred)
<1> DEFINE ip == ClientIp(d.front, a.peer, a.lines)
<1> DEFINE b == ChargedTo(p, ip)
<1> DEFINE who == Reader(p, ip)
<1> DEFINE checked == Check(lim[r][b[1]], b[2], now, Limits[b[1]])
<1>1. /\ d \in Fleets /\ now \in Nat /\ now <= MaxTime
      /\ RequestInv /\ SpareInv /\ ChargeInv
  BY DEF AdmitInv
<1>2. r \in Replica /\ ask.client \in Clients /\ d.front.skip \in Nat
  BY <1>1, FleetAssumption DEF Ask
<1>3. ip \in Ips
  BY <1>1, <1>2, ArrivalAssumption, ClientIpIsGenuine
<1>4. /\ lim' = [lim EXCEPT ![r][b[1]] = checked.lim]
      /\ IF checked.ok THEN Charged(r, who[1], who[2]) ELSE UNCHANGED recent
      /\ UNCHANGED <<d, now, glob, rows, req, orphans, allowed, spare>>
  BY DEF Read
<1> HIDE DEF ip
<1>5. b = who
  BY DEF ChargedTo, Reader, ReadBucketKey
<1>6. b[1] \in Scope /\ b[2] \in Keys[b[1]]
  <2>1. p \in {Anonymous, BadToken, "agent", "reader"}
    BY DEF Resolve
  <2>2. CASE p \in {Anonymous, BadToken}
    <3>1. b[1] = "anonymous" /\ b[2] = Net[ip]
      BY <2>2 DEF ChargedTo, ReadBucketKey
    <3> QED BY <3>1, <1>3, ScopeFacts DEF Scope
  <2>3. CASE p \notin {Anonymous, BadToken}
    <3>1. b[1] = "principal" /\ b[2] = p
      BY <2>3 DEF ChargedTo
    <3>2. p \in {"agent", "reader"}
      BY <2>1, <2>3
    <3> HIDE DEF p
    <3> QED BY <3>1, <3>2, ScopeFacts DEF Scope
  <2> QED BY <2>2, <2>3
<1> HIDE DEF b, who
<1>7. ChargeInv'
  BY <1>1, <1>2, <1>4, <1>5, <1>6, CheckKeepsCharges
<1>8. RowInv'
  BY <1>4, SameRows
<1>9. RequestInv'
  BY <1>1, <1>4 DEF RequestInv, InFlight, Punctual, Shared
<1>10. \A z \in Replica : Pending(z)' = Pending(z)
  BY <1>4 DEF Pending
<1>11. SpareInv'
  BY <1>1, <1>4, <1>10, SameSpare DEF SpareInv
<1> QED BY <1>1, <1>4, <1>7, <1>8, <1>9, <1>11 DEF AdmitInv

\* Time passes for everything: no statement outlives its timeout.
LEMMA TickStep ==
    ASSUME AdmitInv, Tick
    PROVE  AdmitInv'
<1>1. /\ now < MaxTime /\ now' = now + 1 /\ orphans' = {}
      /\ \A q \in Slot : req[q] # Idle => req[q].reply = "none" /\ ~ TimedOut(q)
      /\ allowed' = [row \in Rows |-> [w \in 0..MaxTime |->
                      IF w < FloorWindow(now') - 2 * Window THEN 0 ELSE allowed[row][w]]]
      /\ UNCHANGED <<d, lim, glob, rows, req, spare>>
  BY DEF Tick, limits
<1>2. /\ d \in Fleets /\ now \in Nat /\ RequestInv /\ RowInv /\ SpareInv /\ ChargeInv
  BY DEF AdmitInv
<1>3. now' \in Nat /\ now' <= MaxTime /\ MaxTime \in Nat
  BY <1>1, <1>2, AdmissionAssumption
<1>4. ChargeInv'
  BY <1>2, ChargesTick
<1>5. ASSUME NEW q \in Slot, req[q] # Idle
      PROVE  (InFlight(req[q]))'
  <2>1. InFlight(req[q]) /\ req[q].reply = "none" /\ ~ TimedOut(q)
    BY <1>1, <1>2, <1>5 DEF RequestInv
  <2>2. Shared /\ Punctual(req[q].stamp) /\ req[q] \in Request
    BY <2>1 DEF InFlight
  <2>3. ~ (now - req[q].stamp >= Timeout)
    BY <1>5, <2>1, <2>2 DEF TimedOut
  <2>4. Punctual(req[q].stamp)'
    BY <2>2, <2>3, <1>1, <1>2, AdmissionAssumption, WindowAssumption DEF Punctual
  <2> QED BY <2>1, <2>2, <2>4, <1>1 DEF InFlight, Shared
<1>6. RequestInv'
  BY <1>1, <1>2, <1>5 DEF RequestInv
<1>7. \A r \in Replica : Pending(r)' = Pending(r)
  BY <1>1 DEF Pending
<1>8. SpareInv'
  BY <1>1, <1>2, <1>7, SameSpare DEF SpareInv
<1>9. RowInv'
  <2>1. allowed' \in [Rows -> [0..MaxTime -> Nat]]
    BY <1>1, <1>2 DEF RowInv
  <2>2. ASSUME NEW row \in Rows, NEW w \in 0..MaxTime
        PROVE  allowed'[row][w] \in Nat /\ allowed'[row][w] <= allowed[row][w]
               /\ allowed[row][w] \in Nat
    <3>1. allowed[row][w] \in Nat
      BY <1>2 DEF RowInv
    <3>2. allowed'[row][w] = 0 \/ allowed'[row][w] = allowed[row][w]
      BY <1>1
    <3> QED BY <3>1, <3>2
  <2>3. ASSUME NEW row \in Rows
        PROVE  /\ rows[row].start \in -1..MaxTime
               /\ rows[row].start >= 0 => allowed'[row][rows[row].start] <= rows[row].hits
               /\ \A w \in 0..MaxTime :
                     /\ allowed'[row][w] <= LimitOf(row)
                     /\ allowed'[row][w] > 0 => w <= rows[row].start \/ w < now' - 2 * Window
    <3>1. /\ rows[row].start \in -1..MaxTime /\ rows[row].hits \in Nat
          /\ rows[row].start >= 0 => allowed[row][rows[row].start] <= rows[row].hits
          /\ \A w \in 0..MaxTime :
                /\ allowed[row][w] <= LimitOf(row)
                /\ allowed[row][w] > 0 => w <= rows[row].start \/ w < now - 2 * Window
      BY <1>2 DEF RowInv
    <3>2. LimitOf(row) \in Nat
      BY LimitIsPositive
    <3>3. ASSUME NEW w \in 0..MaxTime
          PROVE  /\ allowed'[row][w] <= LimitOf(row)
                 /\ allowed'[row][w] > 0 => w <= rows[row].start \/ w < now' - 2 * Window
      BY <2>2, <3>1, <3>2, <1>1, <1>2, WindowAssumption
    <3>4. rows[row].start >= 0 => allowed'[row][rows[row].start] <= rows[row].hits
      BY <2>2, <3>1
    <3> QED BY <3>1, <3>3, <3>4
  <2> QED BY <2>1, <2>3, <1>1, <1>2 DEF RowInv, LimitOf
<1> QED BY <1>1, <1>2, <1>3, <1>4, <1>6, <1>8, <1>9 DEF AdmitInv

\* A replica restarts; its statements may still run.
LEMMA RestartStep ==
    ASSUME AdmitInv, NEW r \in d.replicas, Restart(r)
    PROVE  AdmitInv'
<1> DEFINE mine == {q \in Slot : req[q] # Idle /\ req[q].r = r}
<1>1. /\ glob' = [glob EXCEPT ![r] = FreshGlobal]
      /\ orphans' = orphans \cup UNION {Orphaned(q) : q \in mine}
      /\ req' = [q \in Slot |-> IF q \in mine THEN Idle ELSE req[q]]
      /\ spare' = [spare EXCEPT ![r] = 2 * Global]
      /\ UNCHANGED <<d, now, rows, allowed>>
  BY DEF Restart
<1>2. /\ d \in Fleets /\ now \in Nat /\ now <= MaxTime
      /\ RequestInv /\ RowInv /\ SpareInv /\ ChargeInv
  BY DEF AdmitInv
<1>3. r \in Replica
  BY <1>2, FleetAssumption
<1>4. ChargeInv'
  BY <1>2, <1>3, ChargesRestart
<1>5. RowInv'
  BY <1>1, SameRows
<1>6. \A o \in orphans' : o \in Slot \X Rows \X Nat /\ Punctual(o[3])
  BY <1>1, <1>2, OrphanedIsPunctual DEF RequestInv
<1>7. \A q \in Slot : (InFlight(req[q]))' <=> InFlight(req'[q])
  BY <1>1 DEF InFlight, Punctual, Shared
<1>8. RequestInv'
  BY <1>1, <1>2, <1>6, <1>7 DEF RequestInv, Punctual
<1>9. Pending(r)' = {} /\ \A z \in Replica : Pending(z)' \subseteq Pending(z)
  BY <1>1 DEF Pending
<1>10. FreshGlobal \in [{"auth", "challenge"} -> [start : Nat, count : Nat]]
       /\ FreshGlobal["auth"].count = 0
  BY <1>2 DEF FreshGlobal
<1> HIDE DEF FreshGlobal
<1>11. Global \in Nat
  BY AdmissionAssumption
<1>12. /\ glob' \in [Replica -> [{"auth", "challenge"} -> [start : Nat, count : Nat]]]
       /\ spare' \in [Replica -> Int]
       /\ glob'[r] = FreshGlobal /\ spare'[r] = 2 * Global
       /\ \A z \in Replica \ {r} : glob'[z] = glob[z] /\ spare'[z] = spare[z]
  BY <1>1, <1>2, <1>3, <1>10, <1>11 DEF SpareInv
<1>13. ASSUME NEW z \in Replica
       PROVE  /\ glob'[z]["auth"].count <= Global
              /\ spare'[z] >= 2 * (Global - glob'[z]["auth"].count) + Cardinality(Pending(z)')
  <2>1. CASE z = r
    <3>1. Cardinality(Pending(z)') = 0
      BY <2>1, <1>9, FS_EmptySet
    <3> QED BY <2>1, <3>1, <1>10, <1>11, <1>12
  <2>2. CASE z # r
    <3>1. /\ Cardinality(Pending(z)') <= Cardinality(Pending(z))
          /\ Cardinality(Pending(z)') \in Nat /\ Cardinality(Pending(z)) \in Nat
      BY <1>9, PendingIsFinite, SmallerSet
    <3>2. /\ glob[z]["auth"].count <= Global /\ glob[z]["auth"].count \in Nat
          /\ spare[z] >= 2 * (Global - glob[z]["auth"].count) + Cardinality(Pending(z))
          /\ spare[z] \in Int
      BY <1>2 DEF SpareInv
    <3> QED BY <2>2, <3>1, <3>2, <1>11, <1>12
  <2> QED BY <2>1, <2>2
<1>14. SpareInv'
  BY <1>12, <1>13 DEF SpareInv
<1> QED BY <1>1, <1>2, <1>4, <1>5, <1>8, <1>14 DEF AdmitInv

\* No answers were given yet.
LEMMA NoAnswersFacts ==
    /\ NoAnswers \in [Rows -> [0..MaxTime -> Nat]]
    /\ \A row \in Rows : \A w \in 0..MaxTime : NoAnswers[row][w] = 0
BY DEF NoAnswers

\* The UNLOGGED table comes back empty, and the windows start again.
LEMMA DatabaseCrashStep ==
    ASSUME AdmitInv, DatabaseCrash
    PROVE  AdmitInv'
<1>1. /\ rows' = [row \in Rows |-> NoRow] /\ orphans' = {} /\ allowed' = NoAnswers
      /\ req' = [q \in Slot |-> IF req[q] # Idle /\ req[q].reply = "none"
                                THEN [req[q] EXCEPT !.reply = "unavailable"] ELSE req[q]]
      /\ UNCHANGED <<d, now, lim, glob, recent, spare>>
  BY DEF DatabaseCrash, limits
<1>2. /\ d \in Fleets /\ now \in Nat /\ now <= MaxTime
      /\ RequestInv /\ SpareInv /\ ChargeInv
  BY DEF AdmitInv
<1>3. ChargeInv'
  BY <1>1, <1>2, SameCharges
<1>4. RowInv'
  <2>1. NoRow \in [start : Int, hits : Nat] /\ NoRow.start = -1
    BY DEF NoRow
  <2>2. rows' \in [Rows -> [start : Int, hits : Nat]] /\ \A row \in Rows : rows'[row].start = -1
    BY <1>1, <2>1
  <2>3. MaxTime \in Nat /\ \A row \in Rows : LimitOf(row) \in Nat
    BY AdmissionAssumption, LimitIsPositive
  <2> HIDE DEF NoAnswers, NoRow
  <2> QED BY <1>1, <2>2, <2>3, NoAnswersFacts DEF RowInv, LimitOf
<1>5. ASSUME NEW q \in Slot
      PROVE  /\ req'[q] = Idle \/ InFlight(req'[q])
             /\ req'[q] # Idle <=> req[q] # Idle
             /\ req[q] # Idle => req'[q].pc = req[q].pc /\ req'[q].r = req[q].r
  <2>1. CASE req[q] # Idle /\ req[q].reply = "none"
    <3>1. InFlight(req[q]) /\ req[q] \in Request
      BY <2>1, <1>2 DEF RequestInv, InFlight
    <3> DEFINE y == [req[q] EXCEPT !.reply = "unavailable"]
    <3>2. /\ y \in Request /\ y.reply = "unavailable" /\ y.ip = req[q].ip
          /\ y.ask = req[q].ask /\ y.pc = req[q].pc /\ y.r = req[q].r
      BY <3>1 DEF Request, Replies
    <3>3. req'[q] = y
      BY <1>1, <2>1
    <3> HIDE DEF y
    <3>4. InFlight(y)
      BY <3>1, <3>2 DEF InFlight
    <3> QED BY <2>1, <3>2, <3>3, <3>4, IdleIsNoRequest
  <2>2. CASE ~ (req[q] # Idle /\ req[q].reply = "none")
    BY <2>2, <1>1, <1>2 DEF RequestInv
  <2> QED BY <2>1, <2>2
<1>6. \A q \in Slot : (InFlight(req[q]))' <=> InFlight(req'[q])
  BY <1>1 DEF InFlight, Punctual, Shared
<1>7. RequestInv'
  BY <1>1, <1>5, <1>6 DEF RequestInv
<1>8. \A r \in Replica : Pending(r)' = Pending(r)
  BY <1>5 DEF Pending
<1>9. SpareInv'
  BY <1>1, <1>2, <1>8, SameSpare DEF SpareInv
<1> QED BY <1>1, <1>2, <1>3, <1>4, <1>7, <1>9 DEF AdmitInv

\* The invariant holds of a fleet that starts.
LEMMA AdmitInitially ==
    ASSUME AdmitInit
    PROVE  AdmitInv
<1>1. /\ d \in Fleets /\ now = StartTime
      /\ lim = [r \in Replica |-> Fresh] /\ glob = [r \in Replica |-> FreshGlobal]
      /\ rows = [row \in Rows |-> IF row = GlobalRow /\ Shared THEN Stale ELSE NoRow]
      /\ req = [q \in Slot |-> Idle] /\ orphans = {}
      /\ recent = [r \in Replica |-> NoCharges] /\ allowed = NoAnswers
      /\ spare = [r \in Replica |-> 2 * Global]
  BY DEF AdmitInit
<1>2. now \in Nat /\ now <= MaxTime /\ MaxTime \in Nat /\ Global \in Nat
  BY <1>1, AdmissionAssumption
<1>3. RequestInv
  BY <1>1 DEF RequestInv
<1>4. RowInv
  <2>1. /\ NoRow \in [start : Int, hits : Nat] /\ NoRow.start = -1
        /\ Stale \in [start : Int, hits : Nat] /\ Stale.start = 0
    BY <1>2 DEF NoRow, Stale
  <2>2. rows \in [Rows -> [start : Int, hits : Nat]] /\ \A row \in Rows : rows[row].start \in -1..0
    BY <1>1, <2>1
  <2>3. \A row \in Rows : LimitOf(row) \in Nat
    BY LimitIsPositive
  <2> HIDE DEF NoAnswers, NoRow, Stale
  <2> QED BY <1>1, <1>2, <2>2, <2>3, NoAnswersFacts DEF RowInv
<1>5. SpareInv
  <2>1. FreshGlobal \in [{"auth", "challenge"} -> [start : Nat, count : Nat]]
        /\ FreshGlobal["auth"].count = 0
    BY <1>2 DEF FreshGlobal
  <2> HIDE DEF FreshGlobal
  <2>2. \A r \in Replica : Pending(r) = {}
    BY <1>1 DEF Pending
  <2>3. \A r \in Replica : Cardinality(Pending(r)) = 0
    BY <2>2, FS_EmptySet
  <2> QED BY <1>1, <1>2, <2>1, <2>3 DEF SpareInv
<1>6. ChargeInv
  <2> HIDE DEF Fresh, NoCharges
  <2>1. \A r \in Replica : lim[r] = Fresh /\ recent[r] = NoCharges
    BY <1>1
  <2> QED BY <1>1, <1>2, <2>1, FreshIsSound DEF ChargeInv
<1> QED BY <1>1, <1>2, <1>3, <1>4, <1>5, <1>6 DEF AdmitInv

\* Every step keeps the invariant.
LEMMA AdmitStep ==
    ASSUME AdmitInv, [AdmitNext]_admitVars
    PROVE  AdmitInv'
<1>1. CASE UNCHANGED admitVars
  BY <1>1 DEF admitVars, AdmitInv, RequestInv, InFlight, Punctual, Shared, RowInv, LimitOf,
              SpareInv, Pending, ChargeInv
<1>2. CASE \E r \in d.replicas, q \in Slot, ask \in Ask({"challenge", "token"}) :
              \E a \in Arrivals(d.front, ask.client) : Arrive(q, r, ask, a)
  BY <1>2, ArriveStep
<1>3. CASE \E r \in d.replicas, ask \in Ask({"read"}) :
              \E a \in Arrivals(d.front, ask.client) : Read(r, ask.cred, a)
  BY <1>3, ReadStep
<1>4. CASE \E q \in Slot : Execute(q) \/ Fail(q) \/ Step(q)
  BY <1>4, ExecuteStep, FailStep, GiveUpStep, DeniedStep, PerIpCheckStep, HandleStep DEF Step
<1>5. CASE \E o \in orphans : ExecuteOrphan(o)
  BY <1>5, ExecuteOrphanStep
<1>6. CASE Tick
  BY <1>6, TickStep
<1>7. CASE Prune
  BY <1>7, PruneStep
<1>8. CASE DatabaseCrash
  BY <1>8, DatabaseCrashStep
<1>9. CASE \E r \in d.replicas : Restart(r)
  BY <1>9, RestartStep
<1> QED BY <1>1, <1>2, <1>3, <1>4, <1>5, <1>6, <1>7, <1>8, <1>9 DEF AdmitNext

\* The limiters, the requests in flight and the shared rows stay in step.
THEOREM AdmitInvariant == AdmitSpec => []AdmitInv
<1>1. AdmitInit => AdmitInv
  BY AdmitInitially
<1>2. AdmitInv /\ [AdmitNext]_admitVars => AdmitInv'
  BY AdmitStep
<1> QED BY <1>1, <1>2, PTL DEF AdmitSpec

\* The fleet admits at most a row's limit in each of its windows, and no
\* replica sends the database more than two statements for each request of its
\* own global budget, whatever statements are late, orphaned or pruned around.
THEOREM SharedLimitsHold == AdmitSpec => []SharedBounds
<1>1. AdmitInv => SharedBounds
  <2> SUFFICES ASSUME AdmitInv PROVE SharedBounds
    OBVIOUS
  <2>1. FleetBound
    BY DEF AdmitInv, RowInv, FleetBound
  <2>2. ASSUME NEW r \in Replica
        PROVE  spare[r] >= 0
    <3>1. /\ glob[r]["auth"].count <= Global /\ glob[r]["auth"].count \in Nat
          /\ spare[r] >= 2 * (Global - glob[r]["auth"].count) + Cardinality(Pending(r))
          /\ spare[r] \in Int
      BY DEF AdmitInv, SpareInv
    <3>2. Cardinality(Pending(r)) \in Nat /\ Global \in Nat
      BY PendingIsFinite, AdmissionAssumption
    <3> QED BY <3>1, <3>2
  <2> QED BY <2>1, <2>2 DEF SharedBounds, DatabaseLoadBound
<1> QED BY <1>1, AdmitInvariant, PTL

\* In any Window a replica lets a key, and all the addresses of a network that
\* read or guess tokens, through less than twice the budget; and a client is
\* never counted under an address it wrote into a header.
THEOREM LocalLimitsHold == AdmitSpec => []LocalBounds
<1>1. AdmitInv => LocalBounds
  <2> SUFFICES ASSUME AdmitInv PROVE LocalBounds
    OBVIOUS
  <2>1. ASSUME NEW r \in Replica, NEW s \in Scope, NEW k \in Keys[s]
        PROVE  Cardinality(recent[r][s][k]) < 2 * Limits[s]
    <3>1. Limits[s] \in Nat \ {0} /\ now \in Nat
      BY ScopeFacts DEF AdmitInv
    <3>2. ChargeSound(recent[r][s][k], lim[r][s].buckets[k], Limits[s], now)
      BY DEF AdmitInv, ChargeInv
    <3> QED BY <3>1, <3>2, ChargesBounded
  <2>2. BurstBound
    BY <2>1 DEF BurstBound, Scope
  <2>3. GuessesAreBounded
    BY <2>1, ScopeFacts DEF GuessesAreBounded, Scope
  <2>4. BucketIsTheClients
    BY DEF AdmitInv, RequestInv, InFlight, BucketIsTheClients
  <2> QED BY <2>2, <2>3, <2>4 DEF LocalBounds
<1> QED BY <1>1, AdmitInvariant, PTL

(***************************************************************************)
(* The boot.                                                               *)
(***************************************************************************)
\* Where a process is, in the order of a boot.
PastMigration == {"migrated", "sweeping", "swept", "composed", "serving", "draining", "joining"}
PastGate == PastMigration \ {"migrated"}
PastCompose == {"composed", "serving", "draining", "joining"}
BeforeServing == {"down", "validated", "migrating", "migrated", "sweeping", "swept", "composed"}

\* No event and no retraction.
Clean == retracted = {} /\ \A c \in Ctx : events[c] = <<>>

AllFilled(s) == \A i \in DOMAIN s : s[i]

\* The configuration: what the file and the variables may hold, and that a
\* process runs under one that passed validate_config.
ConfigInv ==
    /\ pc \in BeforeServing \cup PastCompose
    /\ IsConfig(file)
    /\ env \subseteq Overrides
    /\ pc # "down" => IsConfig(cfg) /\ ValidateConfig(cfg)
    /\ pc \notin {"down", "validated"} => cfg.storage.backend = built

\* The database, at each step of the boot.
StoreInv ==
    /\ unhashed \in Nat
    /\ pc \in PastMigration => unhashed = 0
    /\ events \in [Ctx -> Seq(BOOLEAN)]
    /\ \A c \in Ctx : ~ HasHole(events[c])
    /\ built = "memory" /\ pc \in BeforeServing => Clean
    /\ pc \in PastGate /\ ~ cfg.lifecycle.enabled => Clean
    /\ pc \in {"swept"} \cup PastCompose /\ EventReceiptsGate(cfg) =>
          \A c \in Ctx : AllFilled(events[c])

\* What the process composed, and how the last one ended.
ProcessInv ==
    /\ pc \in PastCompose => rt = Runtime(cfg) /\ (EventsKey(cfg) => worker # "none")
    /\ ended.migrated => ended.why \in OutsideTheSettings \cup UncheckedSettings

BootInv == ConfigInv /\ StoreInv /\ ProcessInv

(***************************************************************************)
(* The operators.                                                          *)
(***************************************************************************)
\* Loading a configuration file under an environment gives a configuration.
LEMMA LoadIsConfig ==
    ASSUME NEW F, IsConfig(F), NEW E \in SUBSET Overrides
    PROVE  IsConfig(Load(F, E))
<1> DEFINE Named(s, f) == {o \in E : ~ Ignored(o) /\ o.section = s /\ o.setting = f}
<1> DEFINE L == Load(F, E)
<1>1. L = [s \in DOMAIN F |-> [f \in DOMAIN F[s] |->
             IF Named(s, f) = {} THEN F[s][f]
             ELSE (CHOOSE o \in Named(s, f) : TRUE).value]]
  BY DEF Load
<1>2. ASSUME NEW s \in DOMAIN RegistryConfig, NEW f \in DOMAIN RegistryConfig[s]
      PROVE  (IF Named(s, f) = {} THEN F[s][f]
              ELSE (CHOOSE o \in Named(s, f) : TRUE).value) \in RegistryConfig[s][f]
  <2>1. CASE Named(s, f) = {}
    BY <2>1 DEF IsConfig
  <2>2. CASE Named(s, f) # {}
    <3> DEFINE x == CHOOSE o \in Named(s, f) : TRUE
    <3>1. x \in Named(s, f)
      BY <2>2
    <3>2. x \in Overrides /\ ~ Ignored(x) /\ x.section = s /\ x.setting = f
      BY <3>1
    <3> HIDE DEF x
    <3>3. x.value \in RegistryConfig[s][f]
      BY <3>2, StartupAssumption
    <3> QED BY <2>2, <3>3 DEF x
  <2> QED BY <2>1, <2>2
<1> HIDE DEF Named, L
<1>3. DOMAIN F = DOMAIN RegistryConfig
  BY DEF IsConfig
<1>4. DOMAIN L = DOMAIN RegistryConfig
  BY <1>1, <1>3
<1>5. ASSUME NEW s \in DOMAIN RegistryConfig
      PROVE  DOMAIN L[s] = DOMAIN RegistryConfig[s]
             /\ \A f \in DOMAIN RegistryConfig[s] : L[s][f] \in RegistryConfig[s][f]
  <2>1. DOMAIN F[s] = DOMAIN RegistryConfig[s]
    BY DEF IsConfig
  <2>2. L[s] = [f \in DOMAIN F[s] |->
             IF Named(s, f) = {} THEN F[s][f]
             ELSE (CHOOSE o \in Named(s, f) : TRUE).value]
    BY <1>1, <1>3
  <2>3. DOMAIN L[s] = DOMAIN RegistryConfig[s]
    BY <2>1, <2>2
  <2>4. ASSUME NEW f \in DOMAIN RegistryConfig[s]
        PROVE  L[s][f] \in RegistryConfig[s][f]
    <3>1. L[s][f] = IF Named(s, f) = {} THEN F[s][f]
                    ELSE (CHOOSE o \in Named(s, f) : TRUE).value
      BY <2>1, <2>2
    <3> QED BY <3>1, <1>2
  <2> QED BY <2>3, <2>4
<1> QED BY <1>4, <1>5 DEF IsConfig, L

\* Editing one setting of a file.
LEMMA EditIsConfig ==
    ASSUME NEW F, IsConfig(F), NEW s \in DOMAIN RegistryConfig,
           NEW f \in DOMAIN RegistryConfig[s], NEW v \in RegistryConfig[s][f]
    PROVE  IsConfig([F EXCEPT ![s][f] = v])
BY DEF IsConfig

\* The tenant_header_trust of a configuration is one the code knows.
LEMMA TrustIsKnown ==
    ASSUME NEW c, IsConfig(c)
    PROVE  c.auth.tenant_header_trust \in TenantHeaderTrust
<1>1. "auth" \in DOMAIN RegistryConfig /\ RegistryConfig["auth"] = AuthConfig
  BY DEF RegistryConfig
<1>2. "tenant_header_trust" \in DOMAIN AuthConfig
      /\ AuthConfig["tenant_header_trust"] = TenantHeaderTrust
  BY DEF AuthConfig
<1> QED BY <1>1, <1>2 DEF IsConfig

\* What validate_config accepts, the builders, the signer, the webhook worker
\* and the state accept.
LEMMA ValidComposes ==
    ASSUME NEW c, ValidateConfig(c)
    PROVE  Composes(c)
<1>1. IsConfigured(c) => SignerBuilds(c)
  BY DEF ValidateConfig, ReceiptOk
<1>2. c.receipt.head_receipts => IsConfigured(c)
  BY DEF ValidateConfig, HeadReceiptsOk
<1>3. JwtKey(c) # "refused"
  BY DEF ValidateConfig, SecretUsable, PemUsable, JwtKey
<1>4. c.webhook.enabled => c.webhook.url = "good" /\ c.webhook.secret = "good"
  BY DEF ValidateConfig, WebhookOk
<1>5. c.keyless.enabled => KeylessState(c)
  BY <1>1 DEF ValidateConfig, KeylessOk, EventReceiptsGate, KeylessState
<1>6. /\ AdvertisesReads(c) => c.read_limits.authenticated_per_minute > 0
      /\ AdvertisesAnonymousReads(c) => c.read_limits.anonymous_per_minute > 0
  BY DEF AdvertisesReads, AdvertisesAnonymousReads
<1> QED BY <1>1, <1>2, <1>3, <1>4, <1>5, <1>6 DEF Composes

\* Events: filling them, and one more.
LEMMA FilledIsFilled ==
    ASSUME NEW s \in Seq(BOOLEAN)
    PROVE  Filled(s) \in Seq(BOOLEAN) /\ AllFilled(Filled(s)) /\ ~ HasHole(Filled(s))
<1>1. s \in [1..Len(s) -> BOOLEAN] /\ Len(s) \in Nat
  OBVIOUS
<1>2. Filled(s) \in [1..Len(s) -> BOOLEAN]
  BY <1>1 DEF Filled
<1>3. Filled(s) \in Seq(BOOLEAN)
  BY <1>1, <1>2, IsASeq
<1> QED BY <1>3 DEF Filled, AllFilled, HasHole

\* One more event, with a receipt or without, leaves no hole behind; with one,
\* nothing is left unfilled.
LEMMA EventIsAdded ==
    ASSUME NEW s \in Seq(BOOLEAN), ~ HasHole(s), NEW m \in BOOLEAN
    PROVE  LET t == Append(IF m /\ ~ HasHole(s) THEN Filled(s) ELSE s, m)
           IN  t \in Seq(BOOLEAN) /\ ~ HasHole(t) /\ (m => AllFilled(t))
<1>1. CASE m
  <2> DEFINE t == Append(Filled(s), TRUE)
  <2>1. Filled(s) \in Seq(BOOLEAN) /\ AllFilled(Filled(s))
    BY FilledIsFilled
  <2>2. \A i \in DOMAIN t : t[i] = TRUE
    BY <2>1 DEF AllFilled
  <2>3. t \in Seq(BOOLEAN)
    BY <2>1
  <2> QED BY <1>1, <2>2, <2>3 DEF AllFilled, HasHole
<1>2. CASE ~ m
  <2> DEFINE t == Append(s, FALSE)
  <2>1. t \in Seq(BOOLEAN) /\ Len(t) = Len(s) + 1 /\ t[Len(s) + 1] = FALSE
        /\ \A i \in 1..Len(s) : t[i] = s[i]
    OBVIOUS
  <2>2. ~ HasHole(t)
    BY <2>1 DEF HasHole
  <2>3. m = FALSE
    BY <1>2
  <2> QED BY <2>1, <2>2, <2>3
<1> QED BY <1>1, <1>2

(***************************************************************************)
(* The steps.                                                              *)
(***************************************************************************)
\* A step that leaves the process where it is and the database alone.
LEMMA SameBoot ==
    ASSUME BootInv, UNCHANGED <<built, pc, cfg, rt, db, ended>>,
           IsConfig(file'), env' \subseteq Overrides,
           worker # "none" => worker' # "none"
    PROVE  BootInv'
<1>1. ConfigInv'
  BY DEF BootInv, ConfigInv
<1>2. StoreInv'
  BY DEF BootInv, StoreInv, Clean, db
<1>3. ProcessInv'
  BY DEF BootInv, ProcessInv
<1> QED BY <1>1, <1>2, <1>3 DEF BootInv

\* A process that ends: refused for a reason outside its settings or for an
\* unchecked one, refused before it migrated, or not refused.
LEMMA EndStep ==
    ASSUME BootInv, NEW why, End(why), UNCHANGED <<built, file, env>>,
           \/ why = "none" \/ why \in OutsideTheSettings \cup UncheckedSettings
           \/ pc = "validated"
    PROVE  BootInv'
<1>1. pc' = "down"
  BY DEF End
<1>2. ConfigInv'
  BY <1>1 DEF BootInv, ConfigInv, BeforeServing
<1>3. ProcessInv'
  BY <1>1 DEF BootInv, ProcessInv, End, PastCompose
<1>4. StoreInv'
  <2>1. CASE built = "memory"
    <3>1. events' = [c \in Ctx |-> <<>>] /\ retracted' = {} /\ unhashed' = unhashed
      BY <2>1 DEF End
    <3>2. Clean'
      BY <3>1 DEF Clean
    <3>3. \A c \in Ctx : ~ HasHole(events'[c])
      BY <3>1 DEF HasHole
    <3>4. events' \in [Ctx -> Seq(BOOLEAN)]
      BY <3>1
    <3> QED BY <1>1, <3>1, <3>2, <3>3, <3>4
            DEF BootInv, StoreInv, PastMigration, PastGate, PastCompose
  <2>2. CASE built # "memory"
    <3>1. UNCHANGED <<events, retracted, unhashed>>
      BY <2>2 DEF End, db
    <3> QED BY <1>1, <2>2, <3>1 DEF BootInv, StoreInv, PastMigration, PastGate, PastCompose
  <2> QED BY <2>1, <2>2
<1> QED BY <1>2, <1>3, <1>4 DEF BootInv

\* An edit of the file.
LEMMA OperatorStep ==
    ASSUME BootInv, NEW s \in DOMAIN RegistryConfig, NEW f \in DOMAIN RegistryConfig[s],
           NEW v \in RegistryConfig[s][f], EditFile(s, f, v)
    PROVE  BootInv'
<1>1. IsConfig(file')
  BY EditIsConfig DEF EditFile, BootInv, ConfigInv
<1> QED BY <1>1, SameBoot DEF EditFile, process, BootInv, ConfigInv

\* A variable is set.
LEMMA VariableStep ==
    ASSUME BootInv, NEW o \in Overrides, SetVariable(o)
    PROVE  BootInv'
BY SameBoot DEF SetVariable, process, BootInv, ConfigInv

\* A purge of the lifecycle state.
LEMMA PurgeStep ==
    ASSUME BootInv, Purge
    PROVE  BootInv'
<1>1. pc = "down" /\ pc' = "down"
  BY DEF Purge
<1>2. events' = [c \in Ctx |-> <<>>] /\ retracted' = {}
      /\ UNCHANGED <<built, file, env, cfg, rt, worker, busy, unhashed, ended>>
  BY DEF Purge, operator, process
<1>3. Clean' /\ (\A c \in Ctx : ~ HasHole(events'[c])) /\ events' \in [Ctx -> Seq(BOOLEAN)]
  BY <1>2 DEF Clean, HasHole
<1>4. StoreInv'
  BY <1>1, <1>2, <1>3 DEF BootInv, StoreInv, PastMigration, PastGate, PastCompose
<1>5. ConfigInv' /\ ProcessInv'
  BY <1>1, <1>2 DEF BootInv, ConfigInv, ProcessInv, PastCompose
<1> QED BY <1>4, <1>5 DEF BootInv

\* main loads and accepts the configuration.
LEMMA StartStep ==
    ASSUME BootInv, Start
    PROVE  BootInv'
<1>1. pc = "down" /\ pc' = "validated"
      /\ UNCHANGED <<built, file, env, rt, worker, events, retracted, unhashed>>
      /\ ended' = Running
  BY DEF Start, operator, db
<1>2. ValidateConfig(cfg') /\ cfg' = Load(file, env)
  BY DEF Start
<1>3. IsConfig(cfg')
  BY <1>2, LoadIsConfig DEF BootInv, ConfigInv
<1>4. ConfigInv'
  BY <1>1, <1>2, <1>3 DEF BootInv, ConfigInv, BeforeServing
<1>5. StoreInv'
  BY <1>1 DEF BootInv, StoreInv, Clean, PastMigration, PastGate, PastCompose, BeforeServing
<1>6. ProcessInv'
  BY <1>1 DEF ProcessInv, PastCompose, Running
<1> QED BY <1>4, <1>5, <1>6 DEF BootInv

\* run opens the backend the file names, or refuses it before it migrates.
LEMMA OpenStep ==
    ASSUME BootInv, Open
    PROVE  BootInv'
<1>1. pc = "validated" /\ UNCHANGED <<built, file, env>>
  BY DEF Open, operator
<1>2. CASE pc' = "migrating" /\ cfg.storage.backend = built
           /\ UNCHANGED <<cfg, rt, worker, events, retracted, unhashed, ended>>
  <2>1. ConfigInv'
    BY <1>1, <1>2 DEF BootInv, ConfigInv, BeforeServing
  <2>2. StoreInv'
    BY <1>1, <1>2 DEF BootInv, StoreInv, Clean, PastMigration, PastGate, PastCompose, BeforeServing
  <2>3. ProcessInv'
    BY <1>1, <1>2 DEF BootInv, ProcessInv, PastCompose
  <2> QED BY <2>1, <2>2, <2>3 DEF BootInv
<1>3. CASE End("build")
  BY <1>1, <1>3, EndStep
<1> QED BY <1>2, <1>3 DEF Open, Goto, process, db

\* A batch of the hash backfill.
LEMMA BackfillStep ==
    ASSUME BootInv, Backfill
    PROVE  BootInv'
<1>1. pc = "migrating" /\ unhashed > 0 /\ unhashed' = unhashed - 1
      /\ UNCHANGED <<built, file, env, pc, cfg, rt, worker, events, retracted, ended>>
  BY DEF Backfill, operator, process
<1>2. StoreInv'
  BY <1>1 DEF BootInv, StoreInv, Clean, PastMigration
<1>3. ConfigInv' /\ ProcessInv'
  BY <1>1 DEF BootInv, ConfigInv, ProcessInv
<1> QED BY <1>2, <1>3 DEF BootInv

\* A step of the boot that goes on, and touches neither the configuration
\* nor the database.
LEMMA GoesOn ==
    ASSUME BootInv, NEW from, NEW to, pc = from, pc' = to, from # "down",
           UNCHANGED <<built, file, env, cfg, db, ended>>,
           from # "validated", to \in BeforeServing \cup PastCompose, to # "down",
           to \in PastMigration => unhashed = 0,
           to \in BeforeServing => from \in BeforeServing,
           to \in PastGate /\ ~ cfg.lifecycle.enabled => Clean,
           to \in {"swept"} \cup PastCompose /\ EventReceiptsGate(cfg) =>
              \A c \in Ctx : AllFilled(events[c]),
           to \in PastCompose => rt' = Runtime(cfg) /\ (EventsKey(cfg) => worker' # "none")
    PROVE  BootInv'
<1>1. ConfigInv'
  BY DEF BootInv, ConfigInv
<1>2. StoreInv'
  BY DEF BootInv, StoreInv, Clean, db
<1>3. ProcessInv'
  BY DEF BootInv, ProcessInv
<1> QED BY <1>1, <1>2, <1>3 DEF BootInv

\* The migration is done only when no row lacks a hash.
LEMMA MigratedStep ==
    ASSUME BootInv, Migrated
    PROVE  BootInv'
<1>1. pc = "migrating" /\ pc' = "migrated" /\ unhashed = 0
      /\ UNCHANGED <<built, file, env, cfg, db, ended>>
  BY DEF Migrated, Goto, operator, process
<1> QED BY <1>1, GoesOn DEF BeforeServing, PastGate, PastCompose

\* lifecycle_state_gate: past it, a process without [lifecycle] has nothing to
\* show; the memory backend has nothing yet.
LEMMA GateStep ==
    ASSUME BootInv, Gate
    PROVE  BootInv'
<1>1. pc = "migrated" /\ UNCHANGED <<built, file, env>>
  BY DEF Gate, operator
<1>2. CASE HasLifecycleState /\ ~ cfg.lifecycle.enabled
  BY <1>1, <1>2, EndStep DEF Gate, OutsideTheSettings
<1>3. CASE ~ (HasLifecycleState /\ ~ cfg.lifecycle.enabled)
  <2>1. pc' = "sweeping" /\ UNCHANGED <<built, file, env, cfg, db, ended>>
    BY <1>1, <1>3 DEF Gate, Goto, process
  <2>2. ~ cfg.lifecycle.enabled => Clean
    BY <1>1, <1>3 DEF HasLifecycleState, Clean, BootInv, StoreInv, BeforeServing
  <2>3. unhashed = 0
    BY <1>1 DEF BootInv, StoreInv, PastMigration
  <2> QED BY <1>1, <2>1, <2>2, <2>3, GoesOn DEF BeforeServing, PastCompose
<1> QED BY <1>2, <1>3

\* One context is swept, in a process with a minter.
LEMMA SweepStep ==
    ASSUME BootInv, NEW c \in Ctx, Sweep(c)
    PROVE  BootInv'
<1>1. pc = "sweeping" /\ c \in ToSweep /\ events' = [events EXCEPT ![c] = Filled(@)]
      /\ UNCHANGED <<built, file, env, pc, cfg, rt, worker, retracted, unhashed, ended>>
  BY DEF Sweep, operator, process
<1>2. EventReceiptsGate(cfg) /\ built # "memory"
  BY <1>1 DEF ToSweep
<1>3. cfg.lifecycle.enabled
  BY <1>2 DEF EventReceiptsGate
<1>4. events \in [Ctx -> Seq(BOOLEAN)] /\ \A x \in Ctx : ~ HasHole(events[x])
  BY DEF BootInv, StoreInv
<1>5. Filled(events[c]) \in Seq(BOOLEAN) /\ ~ HasHole(Filled(events[c]))
  BY <1>4, FilledIsFilled
<1>6. events' \in [Ctx -> Seq(BOOLEAN)] /\ \A x \in Ctx : ~ HasHole(events'[x])
  BY <1>1, <1>4, <1>5
<1>7. StoreInv'
  BY <1>1, <1>2, <1>3, <1>6 DEF BootInv, StoreInv, PastMigration, PastCompose
<1>8. ConfigInv' /\ ProcessInv'
  BY <1>1 DEF BootInv, ConfigInv, ProcessInv
<1> QED BY <1>7, <1>8 DEF BootInv

\* The sweep is done when no context is left to fill; as none has a hole, all
\* are filled.
LEMMA SweepDoneStep ==
    ASSUME BootInv, SweepDone
    PROVE  BootInv'
<1>1. pc = "sweeping" /\ pc' = "swept" /\ ToSweep = {}
      /\ UNCHANGED <<built, file, env, cfg, db, ended>>
  BY DEF SweepDone, Goto, operator, process
<1>2. unhashed = 0 /\ (~ cfg.lifecycle.enabled => Clean)
  BY <1>1 DEF BootInv, StoreInv, PastMigration, PastGate
<1>3. ASSUME EventReceiptsGate(cfg), NEW c \in Ctx
      PROVE  AllFilled(events[c])
  <2>1. CASE built = "memory"
    BY <1>1, <2>1 DEF BootInv, StoreInv, Clean, AllFilled, BeforeServing
  <2>2. CASE built # "memory"
    <3>1. ~ HasHole(events[c])
      BY DEF BootInv, StoreInv
    <3>2. ~ \E i \in DOMAIN events[c] : ~ events[c][i]
      BY <1>1, <1>3, <2>2, <3>1 DEF ToSweep
    <3> QED BY <3>2 DEF AllFilled
  <2> QED BY <2>1, <2>2
<1> QED BY <1>1, <1>2, <1>3, GoesOn DEF BeforeServing, PastCompose

\* The server is refused by the library, or the state is composed: nothing
\* else of it can be refused.
LEMMA ComposeStep ==
    ASSUME BootInv, Compose
    PROVE  BootInv'
<1>1. pc = "swept" /\ UNCHANGED <<built, file, env>>
  BY DEF Compose, operator
<1>2. CASE ~ ServerAccepts(cfg)
  BY <1>1, <1>2, EndStep DEF Compose, UncheckedSettings
<1>3. CASE ServerAccepts(cfg)
  <2>1. Composes(cfg)
    BY <1>1, ValidComposes DEF BootInv, ConfigInv
  <2>2. pc' = "composed" /\ UNCHANGED <<built, file, env, cfg, db, ended>>
        /\ rt' = Runtime(cfg) /\ worker' = IF EventsKey(cfg) THEN "idle" ELSE "none"
    BY <1>3, <2>1 DEF Compose, Goto, operator
  <2>3. /\ unhashed = 0 /\ (~ cfg.lifecycle.enabled => Clean)
        /\ EventReceiptsGate(cfg) => \A c \in Ctx : AllFilled(events[c])
    BY <1>1 DEF BootInv, StoreInv, PastMigration, PastGate
  <2> QED BY <1>1, <2>2, <2>3, GoesOn DEF BeforeServing
<1> QED BY <1>2, <1>3

\* The listener.
LEMMA BindStep ==
    ASSUME BootInv, Bind
    PROVE  BootInv'
<1>1. pc = "composed" /\ UNCHANGED <<built, file, env>>
  BY DEF Bind, operator
<1>2. CASE End("bind") \/ End("tls")
  BY <1>1, <1>2, EndStep DEF UncheckedSettings
<1>3. CASE pc' = "serving" /\ UNCHANGED <<cfg, rt, worker, db, ended>>
  <2>1. /\ unhashed = 0 /\ (~ cfg.lifecycle.enabled => Clean)
        /\ EventReceiptsGate(cfg) => \A c \in Ctx : AllFilled(events[c])
        /\ rt = Runtime(cfg) /\ (EventsKey(cfg) => worker # "none")
    BY <1>1 DEF BootInv, StoreInv, ProcessInv, PastMigration, PastGate, PastCompose
  <2> QED BY <1>1, <1>3, <2>1, GoesOn DEF BeforeServing, PastCompose
<1> QED BY <1>2, <1>3 DEF Bind, Goto, process

\* The port is taken, or a store call of the boot fails.
LEMMA FaultStep ==
    ASSUME BootInv, PortTaken \/ DatabaseError
    PROVE  BootInv'
BY EndStep DEF PortTaken, DatabaseError, operator, OutsideTheSettings

\* A lifecycle event of a context: Retract and Republish.
LEMMA EventStep ==
    ASSUME BootInv, NEW c \in Ctx, pc \in {"serving", "draining"}, cfg.lifecycle.enabled,
           events' = [events EXCEPT ![c] = WithEvent(@)],
           UNCHANGED <<built, file, env, pc, cfg, rt, worker, unhashed, ended>>
    PROVE  BootInv'
<1> DEFINE m == EventReceiptsGate(cfg)
<1> DEFINE s == events[c]
<1>1. rt = Runtime(cfg)
  BY DEF BootInv, ProcessInv, PastCompose
<1>2. rt.minter = m
  BY <1>1 DEF Runtime
<1>3. events \in [Ctx -> Seq(BOOLEAN)] /\ \A x \in Ctx : ~ HasHole(events[x])
  BY DEF BootInv, StoreInv
<1>4. m => \A x \in Ctx : AllFilled(events[x])
  BY DEF BootInv, StoreInv, PastCompose
<1>5. WithEvent(s) = Append(IF m /\ ~ HasHole(s) THEN Filled(s) ELSE s, m)
  BY <1>2 DEF WithEvent
<1>6. m \in BOOLEAN
  BY DEF EventReceiptsGate
<1> HIDE DEF m
<1>7. WithEvent(s) \in Seq(BOOLEAN) /\ ~ HasHole(WithEvent(s)) /\ (m => AllFilled(WithEvent(s)))
  BY <1>3, <1>5, <1>6, EventIsAdded
<1>8. events' \in [Ctx -> Seq(BOOLEAN)] /\ (\A x \in Ctx : ~ HasHole(events'[x]))
      /\ (m => \A x \in Ctx : AllFilled(events'[x]))
  BY <1>3, <1>4, <1>7
<1>9. StoreInv'
  BY <1>8 DEF BootInv, StoreInv, BeforeServing, m
<1>10. ConfigInv' /\ ProcessInv'
  BY DEF BootInv, ConfigInv, ProcessInv
<1> QED BY <1>9, <1>10 DEF BootInv

\* A request begins or ends.
LEMMA RequestStep ==
    ASSUME BootInv, BeginRequest \/ EndRequest
    PROVE  BootInv'
BY SameBoot DEF BeginRequest, EndRequest, operator, BootInv, ConfigInv

\* The hint worker claims, delivers and stops.
LEMMA WorkerStep ==
    ASSUME BootInv, Claim \/ Delivered \/ WorkerStops
    PROVE  BootInv'
BY SameBoot DEF Claim, Delivered, WorkerStops, operator, BootInv, ConfigInv

\* The drain on SIGTERM.
LEMMA DrainStep ==
    ASSUME BootInv, Sigterm \/ \E over \in BOOLEAN : Drained(over)
    PROVE  BootInv'
<1>1. /\ pc \in {"serving", "draining"} /\ pc' \in {"draining", "joining"}
      /\ UNCHANGED <<built, file, env, cfg, rt, worker, db, ended>>
  BY DEF Sigterm, Drained, Goto, operator, process
<1>2. /\ unhashed = 0 /\ (~ cfg.lifecycle.enabled => Clean)
      /\ EventReceiptsGate(cfg) => \A c \in Ctx : AllFilled(events[c])
      /\ rt = Runtime(cfg) /\ (EventsKey(cfg) => worker # "none")
  BY <1>1 DEF BootInv, StoreInv, ProcessInv, PastMigration, PastGate, PastCompose
<1> QED BY <1>1, <1>2, GoesOn DEF BeforeServing, PastCompose

\* The process ends or crashes.
LEMMA ExitStep ==
    ASSUME BootInv, Crash \/ \E over \in BOOLEAN : Join(over)
    PROVE  BootInv'
BY EndStep DEF Crash, Join, operator

\* Every step keeps the invariant.
LEMMA BootStep ==
    ASSUME BootInv, [Next]_vars
    PROVE  BootInv'
<1>1. CASE \E s \in DOMAIN RegistryConfig :
             \E f \in DOMAIN RegistryConfig[s] :
                 \E v \in RegistryConfig[s][f] : EditFile(s, f, v)
  BY <1>1, OperatorStep
<1>2. CASE \E o \in Overrides : SetVariable(o)
  BY <1>2, VariableStep
<1>3. CASE Purge
  BY <1>3, PurgeStep
<1>4. CASE Boot
  <2>1. CASE \E c \in Ctx : Sweep(c)
    BY <2>1, SweepStep
  <2> QED BY <1>4, <2>1, StartStep, OpenStep, BackfillStep, MigratedStep, GateStep,
             SweepDoneStep, ComposeStep, BindStep
          DEF Boot
<1>5. CASE PortTaken \/ DatabaseError
  BY <1>5, FaultStep
<1>6. CASE \E c \in Ctx : Retract(c) \/ Republish(c)
  <2>1. PICK c \in Ctx : Retract(c) \/ Republish(c)
    BY <1>6
  <2> QED BY <2>1, EventStep DEF Retract, Republish, operator, process
<1>7. CASE BeginRequest \/ EndRequest
  BY <1>7, RequestStep
<1>8. CASE Claim \/ Delivered \/ WorkerStops
  BY <1>8, WorkerStep
<1>9. CASE Sigterm \/ Stop \/ Crash
  BY <1>9, DrainStep, ExitStep DEF Stop
<1>10. CASE UNCHANGED vars
  BY <1>10, SameBoot DEF vars, db, BootInv, ConfigInv
<1> QED BY <1>1, <1>2, <1>3, <1>4, <1>5, <1>6, <1>7, <1>8, <1>9, <1>10 DEF Next

\* The invariant holds before the first boot.
LEMMA BootInitially ==
    ASSUME Init
    PROVE  BootInv
<1>1. PICK dep \in Deployments : built = dep.built /\ file = dep.file /\ unhashed = dep.unhashed
  BY DEF Init
<1>2. IsConfig(file) /\ unhashed \in Nat
  BY <1>1, StartupAssumption
<1>3. ConfigInv
  BY <1>2 DEF Init, ConfigInv, BeforeServing
<1>4. events = [c \in Ctx |-> <<>>] /\ retracted = {} /\ pc = "down"
  BY DEF Init
<1>5. Clean /\ (\A c \in Ctx : ~ HasHole(events[c])) /\ events \in [Ctx -> Seq(BOOLEAN)]
  BY <1>4 DEF Clean, HasHole
<1>6. StoreInv
  BY <1>2, <1>4, <1>5 DEF StoreInv, PastMigration, PastGate, PastCompose
<1>7. ProcessInv
  BY DEF Init, ProcessInv, Running, PastCompose
<1> QED BY <1>3, <1>6, <1>7 DEF BootInv

\* Through any sequence of boots, edits, faults and crashes, every process runs
\* under an accepted configuration over a database its boot has finished with.
THEOREM BootInvariant == Spec => []BootInv
<1>1. Init => BootInv
  BY BootInitially
<1>2. BootInv /\ [Next]_vars => BootInv'
  BY BootStep
<1> QED BY <1>1, <1>2, PTL DEF Spec

(***************************************************************************)
(* What the configuration that was accepted makes of a serving process.    *)
(***************************************************************************)
\* A receipt key that is configured signs, and its DID document builds.
LEMMA ValidKeys ==
    ASSUME NEW c, ValidateConfig(c)
    PROVE  /\ IsConfigured(c) => SignerBuilds(c) /\ DidDocumentBuilds(c)
           /\ c.receipt.head_receipts => IsConfigured(c)
           /\ EventReceiptsGate(c) => IsConfigured(c) /\ c.lifecycle.enabled
BY DEF ValidateConfig, ReceiptOk, HeadReceiptsOk, EventReceiptsGate

\* A log that is switched on is built, signed and stored.
LEMMA ValidLog ==
    ASSUME NEW c, ValidateConfig(c), c.log.enabled
    PROVE  LogState(c) /\ IsConfigured(c) /\ c.storage.backend # "memory"
BY ValidKeys DEF ValidateConfig, LogOk, LogState

\* A feed that is switched on has its key, a minter and a database.
LEMMA ValidChanges ==
    ASSUME NEW c, ValidateConfig(c), c.changes.enabled
    PROVE  ChangesState(c) /\ EventReceiptsGate(c) /\ c.storage.backend # "memory"
BY DEF ValidateConfig, ChangesOk, ChangesState

\* Hints that are switched on have the feed key and authentication.
LEMMA ValidEvents ==
    ASSUME NEW c, ValidateConfig(c), c.events.enabled
    PROVE  EventsKey(c) /\ ChangesState(c) /\ c.auth.enabled
<1>1. c.changes.enabled /\ c.auth.enabled
  BY DEF ValidateConfig, EventsOk
<1> QED BY <1>1, ValidChanges DEF EventsKey

\* Keyless publishing that is switched on has its signer, minter and log.
LEMMA ValidKeyless ==
    ASSUME NEW c, ValidateConfig(c), c.keyless.enabled
    PROVE  KeylessState(c) /\ EventReceiptsGate(c) /\ LogState(c)
<1>1. EventReceiptsGate(c) /\ c.log.enabled
  BY DEF ValidateConfig, KeylessOk
<1> QED BY <1>1, ValidKeys, ValidLog DEF KeylessState

\* What is advertised was switched on.
LEMMA ProfilesAreOn ==
    ASSUME NEW c, ValidateConfig(c), NEW p \in Profiles(c)
    PROVE  /\ p \in Advertisable
           /\ p = "receipts" => IsConfigured(c)
           /\ p = "head-receipts" => c.receipt.head_receipts
           /\ p = "lifecycle" => c.lifecycle.enabled
           /\ p = "transparency-log" => c.log.enabled
           /\ p = "changes" => c.changes.enabled
           /\ p = "events" => c.events.enabled
           /\ p = "keyless" => c.keyless.enabled
<1>1. CASE p \in c.registry.profiles
  <2>1. p \in Advertisable
    BY <1>1 DEF ValidateConfig, ProfilesKnown
  <2> QED BY <1>1, <2>1
          DEF ValidateConfig, Lists, ReceiptsProfileOk, HeadProfileOk, LifecycleProfileOk,
              ChangesProfileOk, KeylessOk, EventsOk, LogOk
<1>2. CASE p \notin c.registry.profiles
  BY <1>2 DEF Profiles
<1> QED BY <1>1, <1>2

\* Each advertised profile is honoured.
LEMMA ProfilesAreHonoured ==
    ASSUME BootInv, pc = "serving", NEW p \in Profiles(cfg)
    PROVE  Honoured(p)
<1>1. ValidateConfig(cfg) /\ cfg.storage.backend = built
  BY DEF BootInv, ConfigInv
<1>2. rt = Runtime(cfg) /\ (EventsKey(cfg) => worker # "none")
  BY DEF BootInv, ProcessInv, PastCompose
<1>3. /\ rt.signer = IsConfigured(cfg) /\ rt.did = (IsConfigured(cfg) /\ DidDocumentBuilds(cfg))
      /\ rt.log = LogState(cfg) /\ rt.changes = ChangesState(cfg)
      /\ rt.keyless = KeylessState(cfg) /\ rt.minter = EventReceiptsGate(cfg)
      /\ cfg.auth.enabled => "auth" \in rt.routes
  BY <1>2 DEF Runtime
<1>4. p = "receipts" => Honoured(p)
  BY <1>1, <1>3, ProfilesAreOn, ValidKeys DEF Honoured
<1>5. p = "head-receipts" => Honoured(p)
  BY <1>1, <1>3, ProfilesAreOn, ValidKeys DEF Honoured
<1>6. p = "lifecycle" => Honoured(p)
  BY <1>1, ProfilesAreOn DEF Honoured
<1>7. p = "transparency-log" => Honoured(p)
  BY <1>1, <1>3, ProfilesAreOn, ValidLog DEF Honoured
<1>8. p = "changes" => Honoured(p)
  BY <1>1, <1>3, ProfilesAreOn, ValidChanges DEF Honoured
<1>9. p = "events" => Honoured(p)
  BY <1>1, <1>2, <1>3, ProfilesAreOn, ValidEvents DEF Honoured
<1>10. p = "keyless" => Honoured(p)
  BY <1>1, <1>3, ProfilesAreOn, ValidKeyless DEF Honoured
<1>11. p \in Advertisable
  BY <1>1, ProfilesAreOn
<1> QED BY <1>4, <1>5, <1>6, <1>7, <1>8, <1>9, <1>10, <1>11 DEF Advertisable

\* Nothing advertised is missing from the composed state.
LEMMA AdvertisedHolds ==
    ASSUME BootInv
    PROVE  AdvertisedIsHonoured
<1> SUFFICES ASSUME pc = "serving"
             PROVE  /\ \A p \in Profiles(cfg) : Honoured(p)
                    /\ AdvertisesReads(cfg) => "principal" \in rt.limiters
                    /\ AdvertisesAnonymousReads(cfg) => "anonymous" \in rt.limiters
                    /\ AdvertisesBuckets(cfg) => rt.changes
                    /\ ReadAuthenticationMethods(cfg) # {} => "auth" \in rt.routes
  BY DEF AdvertisedIsHonoured
<1>1. ValidateConfig(cfg) /\ rt = Runtime(cfg)
  BY DEF BootInv, ConfigInv, ProcessInv, PastCompose
<1>2. rt.limiters = ReadLimiters(cfg) /\ rt.changes = ChangesState(cfg)
      /\ (cfg.auth.enabled => "auth" \in rt.routes)
  BY <1>1 DEF Runtime
<1>3. AdvertisesReads(cfg) => "principal" \in rt.limiters
  BY <1>2 DEF AdvertisesReads, ReadLimiters
<1>4. AdvertisesAnonymousReads(cfg) => "anonymous" \in rt.limiters
  BY <1>2 DEF AdvertisesAnonymousReads, ReadLimiters
<1>5. AdvertisesBuckets(cfg) => rt.changes
  BY <1>1, <1>2, ValidChanges DEF AdvertisesBuckets
<1>6. ReadAuthenticationMethods(cfg) # {} => "auth" \in rt.routes
  BY <1>2 DEF ReadAuthenticationMethods
<1> QED BY ProfilesAreHonoured, <1>3, <1>4, <1>5, <1>6

\* Whatever the tenancy settings, some request a client can send is scoped:
\* by nothing, by the claim of its token, or by a header that is trusted.
LEMMA SomeoneHolds ==
    ASSUME BootInv
    PROVE  SomeoneIsServed
<1> DEFINE dep == [auth |-> cfg.auth.enabled, strict |-> cfg.auth.require_tenant,
                   trust |-> cfg.auth.tenant_header_trust]
<1> DEFINE Plain == [header |-> None, claim |-> None, peer |-> "other"]
<1> DEFINE Claimed == [header |-> None, claim |-> "acme", peer |-> "other"]
<1> DEFINE Headed == [header |-> "acme", claim |-> None, peer |-> "other"]
<1> DEFINE Proxied == [header |-> "acme", claim |-> None, peer |-> "proxy"]
<1> SUFFICES ASSUME pc = "serving"
             PROVE  \E r \in Possible : LET t == TenantForRequest(dep, r)
                                        IN  t # Refused /\ (t # None => built # "memory")
  BY DEF SomeoneIsServed
<1>1. ValidateConfig(cfg) /\ IsConfig(cfg) /\ cfg.storage.backend = built
  BY DEF BootInv, ConfigInv
<1>2. cfg.auth.tenant_header_trust \in TenantHeaderTrust
  BY <1>1, TrustIsKnown
<1>3. CASE ~ (cfg.auth.enabled /\ cfg.auth.require_tenant)
  <2>1. Plain \in Possible
    BY DEF Possible, None
  <2>2. TenantForRequest(dep, Plain) = None
    BY <1>3 DEF TenantForRequest, TenantWithClaim, TenantFromHeaders, UnboundHeaderTenant,
                None, Default
  <2> QED BY <2>1, <2>2 DEF None, Refused
<1>4. CASE cfg.auth.enabled /\ cfg.auth.require_tenant
  <2>1. built # "memory"
    BY <1>1, <1>4 DEF ValidateConfig, TenancyStored
  <2>2. CASE cfg.auth.tenant_agents
    <3>1. Claimed \in Possible
      BY <1>4, <2>2 DEF Possible, None
    <3>2. TenantForRequest(dep, Claimed) = "acme"
      BY <1>4 DEF TenantForRequest, TenantWithClaim, TenantFromHeaders,
                  ReconcileTenantSources, None, Default
    <3> QED BY <2>1, <3>1, <3>2 DEF Refused
  <2>3. CASE cfg.auth.tenant_header_trust = "any_peer"
    <3>1. Headed \in Possible
      BY DEF Possible, None
    <3>2. TenantForRequest(dep, Headed) = "acme"
      BY <2>3 DEF TenantForRequest, TenantWithClaim, TenantFromHeaders,
                  UnboundHeaderTenant, TenantHeaderTrusted, None, Default
    <3> QED BY <2>1, <3>1, <3>2 DEF Refused
  <2>4. CASE cfg.auth.tenant_header_trust = "trusted_proxies"
    <3>1. cfg.rate_limit.trusted_proxies = "good"
      BY <1>1, <2>4 DEF ValidateConfig, TenantHeaderTrustOk, ProxiesParse
    <3>2. Proxied \in Possible
      BY <3>1 DEF Possible, None
    <3>3. TenantForRequest(dep, Proxied) = "acme"
      BY <2>4 DEF TenantForRequest, TenantWithClaim, TenantFromHeaders,
                  UnboundHeaderTenant, TenantHeaderTrusted, None, Default
    <3> QED BY <2>1, <3>2, <3>3 DEF Refused
  <2>5. cfg.auth.tenant_agents \/ cfg.auth.tenant_header_trust # "none"
    BY <1>1, <1>4 DEF ValidateConfig, TenantHeaderTrustOk
  <2> QED BY <1>2, <2>2, <2>3, <2>4, <2>5 DEF TenantHeaderTrust
<1> QED BY <1>3, <1>4

\* The key of the tokens is the configured one unless the operator waived it.
LEMMA TokensHold ==
    ASSUME BootInv
    PROVE  TokensOutliveTheProcess
<1> SUFFICES ASSUME pc = "serving", cfg.auth.enabled, ~ cfg.auth.allow_ephemeral_secret
             PROVE  rt.jwt = "configured"
  BY DEF TokensOutliveTheProcess
<1>1. ValidateConfig(cfg) /\ rt = Runtime(cfg)
  BY DEF BootInv, ConfigInv, ProcessInv, PastCompose
<1>2. rt.jwt = JwtKey(cfg)
  BY <1>1 DEF Runtime
<1> QED BY <1>1, <1>2 DEF ValidateConfig, SecretPresent, SecretUsable, PemUsable, JwtKey

\* A process that serves has what each profile, limit and read method of its
\* capabilities promises, can serve somebody, and signs tokens with a key that
\* outlives it: validate_config suffices, although serve_with_store drops what
\* does not build.
THEOREM ServingIsAsPromised == Spec => []ServingKeepsPromises
<1>1. BootInv => ServingKeepsPromises
  BY AdvertisedHolds, SomeoneHolds, TokensHold DEF ServingKeepsPromises
<1> QED BY <1>1, BootInvariant, PTL

\* After the schema has moved no setting is refused that validate_config checks:
\* only the authority, [limits], the bind address and the contents of the PEM
\* files can be, which it leaves to RegistryServer::try_new and the listener.
\* And nothing an earlier boot left unfinished, or stored under other settings,
\* is ever served.
THEOREM EveryBootIsClean == Spec => []BootsCleanly
<1>1. ASSUME BootInv
      PROVE  BootsCleanly
  <2>1. NothingLeftToRefuse
    BY <1>1 DEF BootInv, ProcessInv, NothingLeftToRefuse
  <2>2. LifecycleOffShowsNothing
    BY <1>1 DEF BootInv, StoreInv, LifecycleOffShowsNothing, Clean, PastGate, PastMigration
  <2>3. pc \in {"serving", "draining"} => unhashed = 0
    BY <1>1 DEF BootInv, StoreInv, PastMigration
  <2>4. pc \in {"serving", "draining"} /\ rt.minter => EventReceiptsGate(cfg)
    BY <1>1 DEF BootInv, ProcessInv, PastCompose, Runtime
  <2>5. SweptBeforeServing
    BY <1>1, <2>3, <2>4 DEF BootInv, StoreInv, SweptBeforeServing, PastCompose, AllFilled
  <2> QED BY <2>1, <2>2, <2>5 DEF BootsCleanly
<1> QED BY <1>1, BootInvariant, PTL
=============================================================================
