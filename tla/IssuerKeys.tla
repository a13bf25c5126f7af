----------------------------- MODULE IssuerKeys -----------------------------
(***************************************************************************)
(* One slot of the JWKS cache: the copy of an issuer's published keys, when *)
(* it was fetched, when an unknown kid last forced a fetch and when a fetch *)
(* last failed.  The slot's mutex is held across a fetch (single flight).   *)
(***************************************************************************)
EXTENDS Integers

CONSTANTS
    Ttl,           \* jwks_cache_ttl_seconds, in ticks
    ShortTtl,      \* the shortest TTL a max-age can impose
    MaxStale,      \* jwks_max_stale_seconds
    Backoff,       \* FAILURE_BACKOFF_MS
    ForceGap       \* UNKNOWN_KID_REFETCH_MS

\* The constants of the code: 30 seconds of backoff and between forced
\* fetches, and a TTL of at least 60, however short a max-age is.
ASSUME IssuerKeysAssumption ==
    /\ {Ttl, ShortTtl, MaxStale, Backoff, ForceGap} \subseteq Nat
    /\ 0 < Backoff /\ Backoff <= ForceGap /\ Backoff <= ShortTtl
    /\ ShortTtl <= Ttl

Free == "free"

NoCopy == [keys |-> {}, at |-> -1, ttl |-> 0]

NewSlot == [copy |-> NoCopy, forced |-> -1, failed |-> -1, holder |-> Free]

\* Mutant: a copy is good until a fetch fails.
Fresh_NoTtl(slot, now) == slot.copy # NoCopy

Fresh(slot, now) ==
    slot.copy # NoCopy /\ now < slot.copy.at + slot.copy.ttl

BackingOff(slot, now) == slot.failed # -1 /\ now < slot.failed + Backoff

\* stale: a copy past its TTL, inside the stale window.
Usable(slot, now) ==
    slot.copy # NoCopy /\ now < slot.copy.at + slot.copy.ttl + MaxStale

\* Mutant: a copy past its stale window makes every request fetch.
Lookup_NoBackoff(slot, now) ==
    IF Fresh(slot, now) THEN "copy"
    ELSE IF BackingOff(slot, now) /\ Usable(slot, now) THEN "copy"
    ELSE "fetch"

\* keys, up to the fetch: a fresh copy, or inside the backoff window a stale
\* one or none, or a fetch.
Lookup(slot, now) ==
    IF Fresh(slot, now) THEN "copy"
    ELSE IF BackingOff(slot, now)
         THEN IF Usable(slot, now) THEN "copy" ELSE "unreachable"
    ELSE "fetch"

\* keys, after a fetch that failed.
AfterFailure(slot, now) == IF Usable(slot, now) THEN "copy" ELSE "unreachable"

\* refresh_for_unknown_kid, up to the fetch.
MayForce(slot, now) == slot.forced = -1 \/ now >= slot.forced + ForceGap

Hold(slot, j, forcing, now) ==
    [slot EXCEPT !.holder = j, !.forced = IF forcing THEN now ELSE @]

\* Mutant: the lock outlives a fetch that failed.
Failed_KeepsLock(slot, started) == [slot EXCEPT !.failed = started]

Failed(slot, started) == [slot EXCEPT !.failed = started, !.holder = Free]

\* store: the time is the one read before the fetch.
Fetched(slot, keys, maxage, started) ==
    [slot EXCEPT !.copy = [keys |-> keys, at |-> started,
                           ttl |-> IF maxage THEN ShortTtl ELSE Ttl],
                 !.failed = -1, !.holder = Free]

=============================================================================
