------------------------------ MODULE RateLimit ------------------------------
(***************************************************************************)
(* The fixed-window limiter.  A limiter is a function from keys to buckets *)
(* and the map size at which the next insertion prunes.                    *)
(***************************************************************************)
EXTENDS Integers, FiniteSets, FiniteSetsExt

CONSTANTS
    Window,        \* WINDOW, in ticks
    PruneAt        \* PRUNE_AT

ASSUME WindowAssumption == Window \in Nat \ {0} /\ PruneAt \in Nat \ {0}

NoBucket == [start |-> -1, count |-> 0]

NewLimiter(keys) == [buckets |-> [k \in keys |-> NoBucket], threshold |-> PruneAt]

Elapsed(bucket, now) == now - bucket.start >= Window

\* The keys the map holds, and those of them whose window is open.
Tracked(lim) == {k \in DOMAIN lim.buckets : lim.buckets[k] # NoBucket}

LiveKeys(lim, now) == {k \in Tracked(lim) : ~ Elapsed(lim.buckets[k], now)}

Spent(lim, k, now) ==
    IF k \in LiveKeys(lim, now) THEN lim.buckets[k].count ELSE 0

\* Mutant: the last unit of the budget is spent twice.
Peek_OffByOne(lim, k, now, limit) == Spent(lim, k, now) <= limit

\* peek_at: reads only; an elapsed window is not rolled over.
Peek(lim, k, now, limit) == Spent(lim, k, now) < limit

\* Mutant: the prune also drops windows that are open.
PruneIfDue_Live(lim, now) ==
    IF Cardinality(Tracked(lim)) < lim.threshold THEN lim ELSE NewLimiter(DOMAIN lim.buckets)

\* prune_if_due.
PruneIfDue(lim, now) ==
    IF Cardinality(Tracked(lim)) < lim.threshold THEN lim
    ELSE LET live == LiveKeys(lim, now)
         IN  [buckets   |-> [k \in DOMAIN lim.buckets |->
                                IF k \in live THEN lim.buckets[k] ELSE NoBucket],
              threshold |-> Max({PruneAt, 2 * Cardinality(live)})]

\* Pruned, the key's bucket present and its window open.
Rolled(lim, k, now) ==
    LET p == PruneIfDue(lim, now)
    IN  IF k \in LiveKeys(p, now) THEN p
        ELSE [p EXCEPT !.buckets = [@ EXCEPT ![k] = [start |-> now, count |-> 0]]]

\* record_at.
Record(lim, k, now) ==
    LET rolled == Rolled(lim, k, now)
        charged == [rolled.buckets[k] EXCEPT !.count = @ + 1]
    IN  [rolled EXCEPT !.buckets = [@ EXCEPT ![k] = charged]]

\* Mutant: one request past the ceiling passes.
CheckGlobal_OffByOne(bucket, now, limit) ==
    LET open == IF Elapsed(bucket, now) THEN [start |-> now, count |-> 0] ELSE bucket
    IN  IF open.count <= limit
        THEN [ok |-> TRUE, bucket |-> [open EXCEPT !.count = @ + 1]]
        ELSE [ok |-> FALSE, bucket |-> open]

\* check_global_at: the one bucket of the process-wide ceiling.
CheckGlobal(bucket, now, limit) ==
    LET open == IF Elapsed(bucket, now) THEN [start |-> now, count |-> 0] ELSE bucket
    IN  IF open.count < limit
        THEN [ok |-> TRUE, bucket |-> [open EXCEPT !.count = @ + 1]]
        ELSE [ok |-> FALSE, bucket |-> open]

\* check_at: a refusal still leaves the rolled bucket behind.
Check(lim, k, now, limit) ==
    LET rolled == Rolled(lim, k, now)
    IN  IF rolled.buckets[k].count < limit
        THEN [ok |-> TRUE, lim |-> Record(lim, k, now)]
        ELSE [ok |-> FALSE, lim |-> rolled]

=============================================================================
