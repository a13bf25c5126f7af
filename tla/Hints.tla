-------------------------------- MODULE Hints --------------------------------
(***************************************************************************)
(* Change-hint subscriptions and the workers that deliver the hints.       *)
(*                                                                         *)
(* Several replicas run workers over one subscriptions table.  A worker    *)
(* leases a due subscription, evaluates the feed as its owner, posts a     *)
(* hint and writes the outcome back if it still holds the lease.  It may   *)
(* crash or overrun its bound at any point, and the receiver may have got  *)
(* a hint whose answer was lost.                                           *)
(*                                                                         *)
(* Times are kept relative to now: `due' and `left' count down, `failing'  *)
(* counts up, so that time itself needs no bound.                          *)
(***************************************************************************)
EXTENDS FeedRead

CONSTANTS
    SubId,         \* subscription ids; a random id is used once
    OwnerOf,       \* [SubId -> Reader]: who asks for the subscription
    Worker,
    Unservable,    \* subscriptions no attempt can evaluate: the stored owner
                   \* is unreadable, or there is no tenant and one is required
    MaxSubs,       \* events.max_subscriptions_per_requester
    Lease,         \* LEASE_MS
    AttemptTimeout,\* ATTEMPT_TIMEOUT, over the rounds of a batch
    MinInterval,   \* HINT_MIN_INTERVAL_MS
    RetryBase, RetryCap, DisableAfter,
    MaxFaults      \* bound: crashes and overruns

ASSUME HintsAssumption ==
    /\ OwnerOf \in [SubId -> Reader]
    /\ Unservable \subseteq SubId /\ "nobody" \notin Worker
    /\ MaxSubs \in Nat /\ MaxFaults \in Nat
    /\ Lease \in Nat /\ MinInterval \in Nat /\ DisableAfter \in Nat \ {0}
    /\ RetryBase \in Nat \ {0} /\ RetryCap \in Nat \ {0}
    \* The compile-time assertion: a batch fits inside the lease.
    /\ AttemptTimeout \in Nat /\ AttemptTimeout < Lease

VARIABLES
    subs,          \* table subscriptions
    att,           \* per worker: what it is doing
    faults,
    hintedTo,      \* history: the highest head a hint told the receiver of
    born           \* history: the head read when the subscription was made

hintVars == <<subs, att, faults, hintedTo, born>>

hintingVars == <<feedVars, hintVars>>

Unborn == [status |-> "unborn"]
Gone == [status |-> "gone"]
Creating(head) == [status |-> "creating", head |-> head]
NoLease == [by |-> "nobody", left |-> -1]
Healthy == -1            \* failing_since_ms is NULL

Stored(s) == subs[s].status \in {"active", "disabled"}

(***************************************************************************)
(* The subscription endpoints.                                             *)
(***************************************************************************)
\* create: the head is read before the row is written.
CreateHead(s) ==
    /\ subs[s] = Unborn
    /\ subs' = [subs EXCEPT ![s] = Creating(FeedHead.head)]
    /\ UNCHANGED <<att, faults, hintedTo, born>>

Held(owner) == {s \in SubId : Stored(s) /\ OwnerOf[s] = owner}

NewSub(head) ==
    [status |-> "active", last |-> head, due |-> 0, lease |-> NoLease,
     failing |-> Healthy, attempts |-> 0]

\* create_subscription: count and insert in one transaction.
CreateRow(s) ==
    /\ subs[s].status = "creating"
    /\ IF Cardinality(Held(OwnerOf[s])) >= MaxSubs
       THEN subs' = [subs EXCEPT ![s] = Gone] /\ UNCHANGED born
       ELSE /\ subs' = [subs EXCEPT ![s] = NewSub(subs[s].head)]
            /\ born' = [born EXCEPT ![s] = subs[s].head]
    /\ UNCHANGED <<att, faults, hintedTo>>

\* delete_subscription, by its owner.
Delete(s) ==
    /\ Stored(s)
    /\ subs' = [subs EXCEPT ![s] = Gone]
    /\ UNCHANGED <<att, faults, hintedTo, born>>

(***************************************************************************)
(* Progress records.                                                       *)
(***************************************************************************)
ProgressHealthy(seq, due) ==
    [last |-> seq, status |-> "active", due |-> due, failing |-> Healthy,
     attempts |-> 0]

ProgressDisabled(rec) ==
    [last |-> rec.last, status |-> "disabled", due |-> 0,
     failing |-> IF rec.failing = Healthy THEN 0 ELSE rec.failing,
     attempts |-> rec.attempts]

\* retry_delay_ms: doubling from the base, capped.
RetryDelay(n) == Min({RetryBase * 2 ^ (n - 1), RetryCap})

\* retry_or_disable; attempts past the delay's cap are not told apart.
RetryOrDisable(rec) ==
    IF rec.failing # Healthy /\ rec.failing >= DisableAfter
    THEN ProgressDisabled(rec)
    ELSE [last |-> rec.last, status |-> "active",
          due |-> RetryDelay(rec.attempts + 1),
          failing |-> IF rec.failing = Healthy THEN 0 ELSE rec.failing,
          attempts |-> Min({rec.attempts + 1, RetryCap})]

(***************************************************************************)
(* The worker.                                                             *)
(***************************************************************************)
Resting == [at |-> "resting"]
NoEvaluation == [pos |-> -1]
NoProgress == [last |-> -1]

Claimable(s, head) ==
    /\ subs[s].status = "active"
    /\ subs[s].due <= 0
    /\ subs[s].lease = NoLease \/ subs[s].lease.left < 0
    /\ subs[s].last < head

\* run_hint_pass and claim_due_subscriptions: the pass reads the head first;
\* an older one only leaves subscriptions to a later pass.
Claim(w) ==
    /\ att[w] = Resting
    /\ \E s \in {t \in SubId : Claimable(t, FeedHead.head)} :
          /\ subs' = [subs EXCEPT ![s] =
                [@ EXCEPT !.lease = [by |-> w, left |-> Lease]]]
          /\ att' = [att EXCEPT ![w] =
                [at |-> "begin", sub |-> s, age |-> 0,
                 rec |-> [last |-> subs[s].last, failing |-> subs[s].failing,
                          attempts |-> subs[s].attempts],
                 head |-> 0, ev |-> NoEvaluation, progress |-> NoProgress]]

\* The attempt goes on: `head' is what its hint will carry, `ev' the
\* evaluation in progress.
Step(w, at, head, ev) ==
    /\ att' = [att EXCEPT ![w] = [@ EXCEPT !.at = at, !.head = head, !.ev = ev]]
    /\ UNCHANGED subs

Conclude(w, progress) ==
    /\ att' = [att EXCEPT ![w] = [@ EXCEPT !.at = "finish", !.ev = NoEvaluation,
                                          !.progress = progress]]
    /\ UNCHANGED subs

\* hint_one, up to the head the hint will carry.
ReadHead(w) ==
    /\ att[w].at = "begin"
    /\ IF att[w].sub \in Unservable THEN Conclude(w, ProgressDisabled(att[w].rec))
       ELSE Step(w, "position", FeedHead.head, NoEvaluation)

\* Mutant: an expired position ends the attempt, the lease left to lapse.
Evaluate_NoFallback(w) ==
    /\ att[w].at = "position"
    /\ IF Placed(att[w].rec.last)
       THEN Step(w, "scan", att[w].head, NewEvaluation(att[w].rec.last, TRUE, 1))
       ELSE att' = [att EXCEPT ![w] = Resting] /\ UNCHANGED subs

\* evaluate_changes from the recorded position; from the oldest retained
\* entry when the position is outside the feed.
Evaluate(w) ==
    /\ att[w].at = "position"
    /\ IF Placed(att[w].rec.last)
       THEN Step(w, "scan", att[w].head, NewEvaluation(att[w].rec.last, TRUE, 1))
       ELSE Step(w, "oldest", att[w].head, NoEvaluation)

EvaluateOldest(w) ==
    /\ att[w].at = "oldest"
    /\ Step(w, "scan", att[w].head, NewEvaluation(pruned.through, FALSE, 1))

Owner(w) == OwnerOf[att[w].sub]

\* Nothing the owner may see: on to where the scan stopped.
NothingVisible(rec, pos) == ProgressHealthy(pos, 0)

HintScan(w) ==
    /\ att[w].at = "scan"
    /\ IF Overtaken(att[w].ev) THEN Step(w, "oldest", att[w].head, NoEvaluation)
       ELSE \E page \in {Page(Owner(w), att[w].ev)} :
            \E stop \in {StopAt(Owner(w), att[w].ev, page, {})} :
            \E ev \in {Scanned(Owner(w), att[w].ev, page, stop)} :
               IF ~ ScanEnds(Owner(w), ev, page, stop)
               THEN Step(w, "scan", att[w].head, ev)
               ELSE IF ev.out = {}
                    THEN Conclude(w, NothingVisible(att[w].rec, ev.pos))
                    ELSE Step(w, "deliver", att[w].head, NoEvaluation)

\* How open_secret fails: the secret is sealed under a key this replica does
\* not hold, or is corrupt.
SealError == {"unknown_key", "corrupt"}

\* Another replica may hold the key; nobody opens a corrupt secret.
NoSecret(w) ==
    /\ att[w].at = "deliver"
    /\ \E e \in SealError :
          Conclude(w, IF e = "unknown_key" THEN RetryOrDisable(att[w].rec)
                      ELSE ProgressDisabled(att[w].rec))

\* Mutant: the position recorded is the head after the delivery.
Delivered_HeadNow(w) == ProgressHealthy(FeedHead.head, MinInterval)

\* The outcome of an accepted hint.
Delivered(w) == ProgressHealthy(att[w].head, MinInterval)

\* deliver: the receiver gets the hint or not, and the worker sees its 2xx
\* or not.
Deliver(w) ==
    /\ att[w].at = "deliver"
    /\ \E received, acked \in BOOLEAN :
          /\ acked => received
          /\ hintedTo' = IF received
                         THEN [hintedTo EXCEPT ![att[w].sub] =
                                                  Max({@, att[w].head})]
                         ELSE hintedTo
          /\ Conclude(w, IF acked THEN Delivered(w)
                         ELSE RetryOrDisable(att[w].rec))
    /\ UNCHANGED <<faults, born>>

\* Mutant: the outcome is written whoever holds the lease.
HoldsLease_Anyone(w) == Stored(att[w].sub)

HoldsLease(w) ==
    Stored(att[w].sub) /\ subs[att[w].sub].lease.by = w

\* finish_subscription_attempt; a lost lease writes nothing.
Finish(w) ==
    /\ att[w].at = "finish"
    /\ subs' = IF HoldsLease(w)
               THEN [subs EXCEPT ![att[w].sub] =
                        [status |-> att[w].progress.status,
                         last |-> att[w].progress.last,
                         due |-> att[w].progress.due, lease |-> NoLease,
                         failing |-> att[w].progress.failing,
                         attempts |-> att[w].progress.attempts]]
               ELSE subs
    /\ att' = [att EXCEPT ![w] = Resting]

Work(w) ==
    /\ \/ /\ \/ Claim(w) \/ ReadHead(w) \/ Evaluate(w)
             \/ EvaluateOldest(w) \/ HintScan(w) \/ NoSecret(w) \/ Finish(w)
          /\ UNCHANGED <<faults, hintedTo, born>>
       \/ Deliver(w)
    /\ UNCHANGED feedVars

\* A crash at any point, or an attempt given up at its time bound.
Fail(w) ==
    /\ att[w] # Resting /\ faults < MaxFaults
    /\ faults' = faults + 1
    /\ att' = [att EXCEPT ![w] = Resting]
    /\ UNCHANGED <<subs, hintedTo, born>>

\* Counters stop where no comparison tells values apart.
Sooner(due) == IF due > 0 THEN due - 1 ELSE 0

Longer(failing) ==
    IF failing = Healthy THEN Healthy ELSE Min({failing + 1, DisableAfter})

Waned(lease) ==
    IF lease.left < 0 THEN lease ELSE [by |-> lease.by, left |-> lease.left - 1]

LaterProgress(p) ==
    IF p = NoProgress THEN p
    ELSE [p EXCEPT !.due = Sooner(p.due), !.failing = Longer(p.failing)]

LaterRecord(rec) == [rec EXCEPT !.failing = Longer(rec.failing)]

LaterSub(sub) ==
    [status |-> sub.status, last |-> sub.last, due |-> Sooner(sub.due),
     lease |-> Waned(sub.lease), failing |-> Longer(sub.failing),
     attempts |-> sub.attempts]

LaterAttempt(a) ==
    [at |-> a.at, sub |-> a.sub, age |-> Min({a.age + 1, AttemptTimeout + 1}),
     rec |-> LaterRecord(a.rec), head |-> a.head, ev |-> a.ev,
     progress |-> LaterProgress(a.progress)]

Attempts == {w \in Worker : att[w] # Resting}

AtBound == {w \in Attempts : att[w].age = AttemptTimeout}

\* Time passes.  An attempt ends by its time bound, unless the whole process
\* stalls: then it goes on late, possibly after its lease has lapsed.
Tick ==
    /\ IF AtBound = {} THEN UNCHANGED faults
       ELSE faults < MaxFaults /\ faults' = faults + 1
    /\ subs' = [s \in SubId |-> IF Stored(s) THEN LaterSub(subs[s]) ELSE subs[s]]
    /\ att' = [w \in Worker |->
                  IF att[w] = Resting THEN Resting ELSE LaterAttempt(att[w])]
    /\ UNCHANGED <<hintedTo, born>>

HintInit ==
    /\ FeedInit
    /\ subs = [s \in SubId |-> Unborn]
    /\ att = [w \in Worker |-> Resting]
    /\ faults = 0
    /\ hintedTo = [s \in SubId |-> 0]
    /\ born = [s \in SubId |-> 0]

HintNext ==
    \/ \E e \in Entry, seq \in 1 .. MaxSeq :
          AppendEntry(e, seq) /\ UNCHANGED hintVars
    \/ \E x \in feed : PruneFeed(x) /\ UNCHANGED hintVars
    \/ \E s \in SubId :
          (CreateHead(s) \/ CreateRow(s) \/ Delete(s)) /\ UNCHANGED feedVars
    \/ \E w \in Worker : Work(w)
    \/ \E w \in Worker : Fail(w) /\ UNCHANGED feedVars
    \/ Tick /\ UNCHANGED feedVars

\* The workers keep running and time passes.
HintFairness ==
    /\ \A w \in Worker : WF_hintingVars(Work(w))
    /\ WF_hintingVars(Tick /\ UNCHANGED feedVars)

HintSpec == HintInit /\ [][HintNext]_hintingVars /\ HintFairness

(***************************************************************************)
(* Properties.                                                             *)
(***************************************************************************)
\* What the recorded position promises: every change at or below it that the
\* owner may see and that came after the subscription was told to the
\* receiver, by a hint whose cursor is at or past it, or has been pruned.
HintedUpToPosition ==
    \A s \in SubId :
        Stored(s) =>
            \A x \in appended :
                (/\ Wants(OwnerOf[s], x)
                 /\ x.seq > born[s] /\ x.seq <= subs[s].last)
                    => x.seq <= hintedTo[s] \/ x.seq <= pruned.through

\* A hint only ever follows a change its owner may see, past the position
\* the attempt started from: the receiver never learns from a hint that
\* something hidden from the owner has happened.
HintsOnlyVisibleChanges ==
    [][\A s \in SubId :
          hintedTo'[s] # hintedTo[s] =>
              \E w \in Worker, x \in appended :
                  /\ att[w].at = "deliver" /\ att[w].sub = s
                  /\ Wants(OwnerOf[s], x) /\ x.seq > att[w].rec.last]_hintingVars

\* The recorded position never moves back, whichever of two workers finishes
\* last: an attempt whose lease was taken over writes nothing.
PositionNeverMovesBack ==
    [][\A s \in SubId :
          Stored(s) /\ subs'[s].status \in {"active", "disabled"} =>
              subs'[s].last >= subs[s].last]_hintingVars

\* The receiver has not been told of a change the owner may see.
Owed(s) ==
    /\ subs[s].status = "active"
    /\ \E x \in feed : Wants(OwnerOf[s], x) /\ x.seq > subs[s].last

\* No hint is owed forever: through crashes, overruns, lost leases, pruned
\* positions and failing receivers, an active subscription is told or ends
\* up disabled.
NoHintOwedForever == \A s \in SubId : []<> ~ Owed(s)

\* What an attempt may do: hint of visible changes only, and never move the
\* recorded position back.
HintSteps == HintsOnlyVisibleChanges /\ PositionNeverMovesBack
=============================================================================
