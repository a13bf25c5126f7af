------------------------------ MODULE PgStore ------------------------------
(***************************************************************************)
(* The Postgres backend: the writes of RegistryStore as transactions whose *)
(* statements interleave.                                                  *)
(*                                                                         *)
(* A transaction runs at READ COMMITTED: every statement sees what is      *)
(* committed when it starts, or when the row lock it waits for is granted. *)
(* Its own writes become visible at once, when it commits; until then the  *)
(* model keeps them in the transaction's record.  Locks are held to the    *)
(* end of the transaction.  The tables are those of RegistryStore, and     *)
(* PgStore is shown to implement that module's specification.              *)
(***************************************************************************)
EXTENDS RegistryStore

CONSTANTS
    Worker,        \* database connections: transactions open at once
    Ops,           \* which operations run: a subset of AllOps
    Asked,         \* the publish requests made: a subset of Request
    MaxTx          \* longest time a transaction is open

VARIABLES
    tx,            \* the transaction of each connection, its locks and pending
                   \* writes
    drawn,         \* the highest value drawn from the changes identity column
    answer         \* what the last transaction to end told its caller

pgVars == <<vars, tx, drawn, answer>>

AllOps == {"publish", "lifecycle", "backfill", "prune"}

\* The TTL is a day, a transaction takes seconds: while one waits for another,
\* the record that one leaves does not expire.  The retention is 30 days or
\* more and the margin an hour: a row being committed is not old enough.
ASSUME PgAssumption ==
    /\ Ops \subseteq AllOps /\ Asked \subseteq Request
    /\ MaxTx \in Nat /\ 2 * (MaxTx + Skew) < TTL
    /\ Retention + Margin >= Skew + FeedSkew + MaxTx

Idle == [pc |-> "idle", locks |-> {}]

NoAnswer == [op |-> "none"]

Active(w) == tx[w].pc # "idle"

(***************************************************************************)
(* Locks: a context row or an idempotency record (FOR UPDATE, or a pending *)
(* delete), the unique key a pending insert claims, the two advisory locks *)
(* and the changes_meta row.                                               *)
(***************************************************************************)
RowLock(c) == <<"row", c>>

RecordLock(a, k) == <<"record", a, k>>

ClaimLock(a, k) == <<"claim", a, k>>

LogLock == <<"LOG_APPEND_LOCK_KEY">>

FeedLock == <<"FEED_APPEND_LOCK_KEY">>

MetaLock == <<"changes_meta">>

Free(w, l) == \A v \in Worker \ {w} : l \notin tx[v].locks

\* The transaction goes on at `pc' with its record as t, holding ls as well.
Goto(w, t, pc, ls) ==
    /\ tx' = [tx EXCEPT ![w] = [t EXCEPT !.pc = pc, !.locks = @ \cup ls]]
    /\ UNCHANGED answer

\* It is over, committed or rolled back, with this answer about ctx.
End(w, result, ctx) ==
    /\ answer' = [op |-> tx[w].op, req |-> tx[w].req, result |-> result,
                  ctx |-> ctx]
    /\ tx' = [tx EXCEPT ![w] = Idle]

Begun(w, t) == tx' = [tx EXCEPT ![w] = t] /\ UNCHANGED answer

NoWrite == UNCHANGED <<vars, drawn>>

(***************************************************************************)
(* commit_publish.                                                         *)
(***************************************************************************)
\* The clock is read before the transaction begins.  A ctx_id is drawn at
\* random: no other transaction has it.  A process with the log enabled does
\* not start without a receipt signer.
BeginPublish(w, c, r, minted, now) ==
    /\ tx[w].pc = "idle" /\ "publish" \in Ops
    /\ \A v \in Worker : Active(v) => tx[v].op # "publish" \/ tx[v].ctx # c
    /\ LogEnabled => minted
    /\ Begun(w, [pc |-> "idem", locks |-> {}, op |-> "publish", req |-> r,
                 ctx |-> c, mints |-> minted, now |-> now, began |-> clock,
                 lineage |-> NoCtx, index |-> 0, base |-> 0, at |-> 0])
    /\ NoWrite

\* The answer when a record of this key is found.
KeyAnswer(w, r) ==
    LET rec == idem[<<r.agent, r.key>>]
    IN  IF rec.content = r.content THEN End(w, "replayed", rec.ctx)
        ELSE End(w, "duplicate_publish", rec.ctx)

\* Step 1.  Deleting an expired record and reading what is left see the same
\* record: once deleted, nobody else can insert one.
CheckIdem(w) ==
    LET t == tx[w]
        r == t.req
    IN  /\ t.pc = "idem"
        /\ IF r.key = NoKey THEN Goto(w, t, "predecessor", {})
           ELSE /\ Free(w, RecordLock(r.agent, r.key))
                /\ IF IdemLive(r.agent, r.key, t.now) THEN KeyAnswer(w, r)
                   ELSE Goto(w, t, "predecessor",
                             IF <<r.agent, r.key>> \in DOMAIN idem
                             THEN {RecordLock(r.agent, r.key)} ELSE {})
        /\ NoWrite

\* Mutant: a superseded predecessor is a conflict at once.
LockPredecessor_NoRecheck(w) ==
    LET t == tx[w]
        prev == t.req.content.supersedes
        outcome == SupersessionOutcome(t.req)
    IN  /\ t.pc = "predecessor"
        /\ IF prev = NoCtx THEN Goto(w, [t EXCEPT !.lineage = t.ctx], "log", {})
           ELSE /\ Free(w, RowLock(prev))
                /\ IF outcome = "ok"
                   THEN Goto(w, [t EXCEPT !.lineage =
                                    FirstVersion(contexts[prev].lineage)],
                             "log", {RowLock(prev)})
                   ELSE End(w, outcome, prev)
        /\ NoWrite

\* Step 2: the predecessor, locked, and its checks.  A keyed request that
\* finds it superseded may have raced its own first attempt.
LockPredecessor(w) ==
    LET t == tx[w]
        prev == t.req.content.supersedes
        outcome == SupersessionOutcome(t.req)
    IN  /\ t.pc = "predecessor"
        /\ IF prev = NoCtx THEN Goto(w, [t EXCEPT !.lineage = t.ctx], "log", {})
           ELSE /\ Free(w, RowLock(prev))
                /\ IF outcome = "ok"
                   THEN Goto(w, [t EXCEPT !.lineage =
                                    FirstVersion(contexts[prev].lineage)],
                             "log", {RowLock(prev)})
                   ELSE IF outcome = "already_superseded" /\ t.req.key # NoKey
                   THEN Goto(w, t, "recheck", {RowLock(prev)})
                   ELSE End(w, outcome, prev)
        /\ NoWrite

\* committed_idempotent_response.
Recheck(w) ==
    LET t == tx[w]
        r == t.req
    IN  /\ t.pc = "recheck"
        /\ IF IdemLive(r.agent, r.key, t.now) THEN KeyAnswer(w, r)
           ELSE End(w, "already_superseded", r.content.supersedes)
        /\ NoWrite

\* Steps 5 and 5.5: the row is inserted; the leaf takes the next index under
\* the advisory lock.
AppendLeaf(w) ==
    LET t == tx[w]
    IN  /\ t.pc = "log"
        /\ IF ~ LogEnabled THEN Goto(w, t, "claim", {})
           ELSE IF ~ t.mints THEN End(w, "internal", NoCtx)
           ELSE /\ Free(w, LogLock)
                /\ Goto(w, [t EXCEPT !.index = Len(leaves)], "claim", {LogLock})
        /\ NoWrite

\* Steps 6 and 7: INSERT .. ON CONFLICT DO NOTHING waits for whoever holds the
\* key; a record that is there then, other than the one this transaction
\* deletes, wins, and everything is rolled back.
ClaimKey(w) ==
    LET t == tx[w]
        r == t.req
    IN  /\ t.pc = "claim"
        /\ IF r.key = NoKey THEN Goto(w, t, "feed", {})
           ELSE /\ Free(w, RecordLock(r.agent, r.key))
                /\ Free(w, ClaimLock(r.agent, r.key))
                /\ IF /\ <<r.agent, r.key>> \in DOMAIN idem
                      /\ RecordLock(r.agent, r.key) \notin t.locks
                   THEN Goto(w, [t EXCEPT !.locks = {}], "readback", {})
                   ELSE Goto(w, t, "feed", {ClaimLock(r.agent, r.key)})
        /\ NoWrite

\* The winner's record, read outside any transaction.
ReadBack(w) ==
    LET r == tx[w].req
    IN  /\ tx[w].pc = "readback"
        /\ IF <<r.agent, r.key>> \notin DOMAIN idem THEN End(w, "internal", NoCtx)
           ELSE KeyAnswer(w, r)
        /\ NoWrite

\* How many feed rows the transaction appends.
RowCount(t) ==
    IF ~ t.mints THEN 0
    ELSE IF t.op = "publish" THEN PublishRowCount(t.req) ELSE 1

\* Mutant: the positions are drawn without the advisory lock.
DrawPositions_NoLock(w, at) ==
    LET t == tx[w]
    IN  /\ t.pc = "feed"
        /\ IF RowCount(t) = 0
           THEN Goto(w, [t EXCEPT !.base = lastSeq], "commit", {}) /\ UNCHANGED drawn
           ELSE /\ Goto(w, [t EXCEPT !.base = drawn, !.at = at], "commit", {})
                /\ drawn' = drawn + RowCount(t)
        /\ UNCHANGED vars

\* insert_all: positions and times are drawn under the feed's advisory lock,
\* last of all.  A transaction without feed rows does not take it.
DrawPositions(w, at) ==
    LET t == tx[w]
    IN  /\ t.pc = "feed"
        /\ IF RowCount(t) = 0
           THEN Goto(w, [t EXCEPT !.base = lastSeq], "commit", {}) /\ UNCHANGED drawn
           ELSE /\ Free(w, FeedLock)
                /\ Goto(w, [t EXCEPT !.base = drawn, !.at = at], "commit",
                        {FeedLock})
                /\ drawn' = drawn + RowCount(t)
        /\ UNCHANGED vars

\* COMMIT makes the pending writes visible.  A leaf index somebody else has
\* committed violates the primary key.
CommitPublish(w) ==
    LET t == tx[w]
        r == t.req
    IN  /\ t.pc = "commit" /\ t.op = "publish"
        /\ IF LogEnabled /\ t.index # Len(leaves)
           THEN End(w, "internal", NoCtx) /\ UNCHANGED vars
           ELSE /\ contexts' = [WithPublished(t.ctx, r, t.mints, t.now)
                                  EXCEPT ![t.ctx].lineage = t.lineage]
                /\ leaves' = WithLeaf(t.ctx)
                /\ idem' = IF r.key = NoKey THEN idem
                           ELSE WithIdem(t.ctx, r, t.now)
                /\ AppendRows(IF t.mints
                              THEN PublishRows(t.ctx, r, t.base, t.at) ELSE {},
                              RowCount(t), t.base)
                /\ End(w, "inserted", t.ctx)
                /\ UNCHANGED <<events, prunedThrough, clock>>
        /\ UNCHANGED drawn

(***************************************************************************)
(* commit_lifecycle_event and backfill_ctx: the context's row first.       *)
(***************************************************************************)
BeginLifecycle(w, c, id, type, mints) ==
    /\ tx[w].pc = "idle" /\ "lifecycle" \in Ops
    /\ Begun(w, [pc |-> "row", locks |-> {}, op |-> "lifecycle",
                 req |-> [id |-> id, type |-> type], ctx |-> c,
                 mints |-> mints, now |-> 0, began |-> clock,
                 base |-> 0, at |-> 0])
    /\ NoWrite

BeginBackfill(w, c) ==
    /\ tx[w].pc = "idle" /\ "backfill" \in Ops
    /\ Begun(w, [pc |-> "row", locks |-> {}, op |-> "backfill", req |-> NoCtx,
                 ctx |-> c, mints |-> TRUE, now |-> 0, began |-> clock])
    /\ NoWrite

\* Mutant: the feed's lock is taken together with the row's.
LockContext_FeedFirst(w, now) ==
    LET t == tx[w]
    IN  /\ t.pc = "row"
        /\ IF FeedLock \notin t.locks /\ t.op = "lifecycle"
           THEN Free(w, FeedLock) /\ Goto(w, t, "row", {FeedLock})
           ELSE /\ Free(w, RowLock(t.ctx))
                /\ Goto(w, [t EXCEPT !.now = now],
                        IF t.op = "lifecycle" THEN "check" ELSE "plan",
                        {RowLock(t.ctx)})
        /\ NoWrite

\* The clock is read once the row is locked.
LockContext(w, now) ==
    LET t == tx[w]
    IN  /\ t.pc = "row"
        /\ Free(w, RowLock(t.ctx))
        /\ Goto(w, [t EXCEPT !.now = now],
                IF t.op = "lifecycle" THEN "check" ELSE "plan", {RowLock(t.ctx)})
        /\ NoWrite

\* The history is loaded, and checked.
CheckEvent(w) ==
    LET t == tx[w]
        outcome == LifecycleOutcome(t.ctx, t.req.id, t.req.type)
    IN  /\ t.pc = "check"
        /\ IF outcome = "ok" THEN Goto(w, t, "feed", {})
           ELSE End(w, outcome, t.ctx)
        /\ NoWrite

CommitEvent(w) ==
    LET t == tx[w]
        c == t.ctx
    IN  /\ t.pc = "commit" /\ t.op = "lifecycle"
        /\ events' = [events EXCEPT ![c] =
                        WithEvent(@, t.req.id, t.req.type, t.mints,
                                  AcceptedAt(@, contexts[c].created, t.now))]
        /\ contexts' = [contexts EXCEPT
                          ![c].retracted = (t.req.type = "retracted")]
        /\ AppendRows(IF t.mints THEN LifecycleRows(c, t.req.id, t.base, t.at)
                                 ELSE {}, RowCount(t), t.base)
        /\ End(w, "applied", c)
        /\ UNCHANGED <<idem, leaves, prunedThrough, clock, drawn>>

\* plan_backfill: nothing to fill, or a hole, ends the transaction.
PlanBackfill(w) ==
    LET t == tx[w]
        s == events[t.ctx]
    IN  /\ t.pc = "plan"
        /\ IF HasHole(s) \/ \A i \in DOMAIN s : s[i].receipt # NoReceipt
           THEN End(w, "skipped", t.ctx)
           ELSE Goto(w, t, "commit", {})
        /\ NoWrite

CommitBackfill(w) ==
    LET t == tx[w]
        c == t.ctx
    IN  /\ t.pc = "commit" /\ t.op = "backfill"
        /\ events' = [events EXCEPT ![c] =
                        Filled(@, AcceptedAt(@, contexts[c].created, t.now))]
        /\ End(w, "filled", c)
        /\ UNCHANGED <<contexts, idem, leaves, changes, lastSeq, prunedThrough,
                       clock, appended, drawn>>

(***************************************************************************)
(* changes::prune, on the pruner's clock: one batch.                       *)
(***************************************************************************)
BeginPrune(w, now) ==
    /\ tx[w].pc = "idle" /\ "prune" \in Ops
    /\ Begun(w, [pc |-> "scan", locks |-> {}, op |-> "prune", req |-> NoCtx,
                 ctx |-> NoCtx, now |-> now, began |-> clock, last |-> 0])
    /\ NoWrite

ScanFeed(w) ==
    LET t == tx[w]
        old == Prunable(t.now)
    IN  /\ t.pc = "scan"
        /\ Free(w, MetaLock)
        /\ \/ old = {} /\ End(w, "pruned", NoCtx)
           \/ \E x \in old :
                 /\ \A y \in old : y.seq <= x.seq
                 /\ Goto(w, [t EXCEPT !.last = x.seq], "delete", {MetaLock})
        /\ NoWrite

DeleteAndCommit(w) ==
    /\ tx[w].pc = "delete"
    /\ PruneThrough(tx[w].last)
    /\ End(w, "pruned", NoCtx)
    /\ UNCHANGED drawn

(***************************************************************************)
(* The rest.                                                               *)
(***************************************************************************)
\* idempotency_evict_inner is one statement; it waits for records that are
\* locked.
EvictExpired(now) ==
    /\ \A k \in DOMAIN idem :
          idem[k].expires <= now =>
              \A w \in Worker : RecordLock(k[1], k[2]) \notin tx[w].locks
    /\ Evict(now)
    /\ UNCHANGED <<tx, drawn, answer>>

\* The connection or the process is lost, or a statement fails, before the
\* commit: the transaction is rolled back.  The positions it has drawn are
\* lost; Gap bounds how many in a row.
Abort(w) ==
    /\ Active(w)
    /\ FeedLock \in tx[w].locks => drawn - lastSeq <= Gap
    /\ End(w, "failed", NoCtx)
    /\ NoWrite

PgTick ==
    /\ \A w \in Worker : Active(w) => clock < tx[w].began + MaxTx
    /\ Tick
    /\ UNCHANGED <<tx, drawn, answer>>

PgInit ==
    /\ Init /\ tx = [w \in Worker |-> Idle]
    /\ drawn = 0 /\ answer = NoAnswer

Begin(w) ==
    \/ \E c \in Ctx \ Stored, r \in Asked, minted \in Minting :
          \E now \in Readings : BeginPublish(w, c, r, minted, now)
    \/ \E c \in Stored, id \in EventId, type \in {"retracted", "republished"} :
          \E mints \in Minting : BeginLifecycle(w, c, id, type, mints)
    \/ \E c \in Stored : TRUE \in Minting /\ BeginBackfill(w, c)
    \/ \E now \in Readings : BeginPrune(w, now)

\* One statement of the transaction.
Step(w) ==
    \/ CheckIdem(w) \/ LockPredecessor(w) \/ Recheck(w) \/ AppendLeaf(w)
    \/ ClaimKey(w) \/ ReadBack(w)
    \/ \E at \in FeedReadings : DrawPositions(w, at)
    \/ CommitPublish(w)
    \/ \E now \in Readings : LockContext(w, now)
    \/ CheckEvent(w) \/ CommitEvent(w)
    \/ PlanBackfill(w) \/ CommitBackfill(w)
    \/ ScanFeed(w) \/ DeleteAndCommit(w)

PgNext ==
    \/ \E w \in Worker : Begin(w) \/ Step(w) \/ Abort(w)
    \/ \E now \in Readings : EvictExpired(now)
    \/ PgTick

PgSpec == PgInit /\ [][PgNext]_pgVars

(***************************************************************************)
(* Properties.                                                             *)
(***************************************************************************)
\* The atomic store.  What is read within a transaction is up to MaxTx older
\* than its commit, and rolled-back transactions leave gaps in the positions.
Abs == INSTANCE RegistryStore WITH
          Skew <- Skew + MaxTx, FeedSkew <- FeedSkew + MaxTx, LockWait <- MaxTx

\* The interleaved transactions implement the atomic store: each commit is one
\* of its steps and everything else a stutter.  (This is Abs!Spec; the
\* conjunct vars' # vars only spares TLC the stuttering steps.)
ImplementsStore == Abs!Init /\ [][vars' # vars /\ Abs!Next]_vars

SameRequest(r, row) ==
    r.agent = row.agent /\ r.key = row.key /\ r.content = row.content

\* What the caller of a publish is told is so.
TrueAnswer ==
    LET r == answer.req
        c == answer.ctx
    IN  /\ answer.result # "internal"
        /\ answer.result \in {"inserted", "replayed"} =>
              c \in Stored /\ SameRequest(r, contexts[c])
        /\ answer.result = "duplicate_publish" =>
              /\ c \in Stored /\ contexts[c].key = r.key
              /\ contexts[c].content # r.content
        /\ answer.result = "already_superseded" =>
              /\ \E d \in Stored : Prev(d) = c
              /\ r.key # NoKey => \A d \in Stored :
                    SameRequest(r, contexts[d]) =>
                        contexts[d].created + TTL <= clock + Skew

\* Every publisher is told the truth, however its transaction interleaved: a
\* replay names the context its own earlier attempt made, a duplicate key was
\* used for other content, a superseded predecessor was superseded by someone
\* else as long as the key is remembered, and nothing fails for no reason.
AnswersAreTrue ==
    [][\A w \in Worker :
          (tx[w].pc # "idle" /\ tx[w].op = "publish" /\ tx'[w].pc = "idle")
              => TrueAnswer']_pgVars

\* No deadlock: whatever rows, keys and advisory locks the open transactions
\* hold, and in whatever order they reached them, one of them can go on.
NoDeadlock ==
    (\E w \in Worker : Active(w)) =>
        \E w \in Worker : Active(w) /\ ENABLED Step(w)
=============================================================================
