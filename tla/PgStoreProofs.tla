--------------------------- MODULE PgStoreProofs ---------------------------
(***************************************************************************)
(* Proofs about PgStore: the interleaved transactions of the Postgres      *)
(* backend implement the atomic store, and their answers are true, for any *)
(* number of connections, any clocks and any rolled-back writers.          *)
(*                                                                         *)
(* The invariant PgInv says of every open transaction what it knows and    *)
(* which lock keeps it true (PubInv, LifeInv, FillInv, PruneInv).  Two     *)
(* transactions hold no lock in common (Exclusive), so what a commit       *)
(* changes is nothing that another transaction's lock protects: it leaves  *)
(* that one Undisturbed, and Undisturbed transactions keep what they know  *)
(* (Frame).  At its commit a transaction therefore knows all that the      *)
(* corresponding action of RegistryStore checks.                           *)
(***************************************************************************)
EXTENDS PgStore, RegistryStoreProofs

(***************************************************************************)
(* The inductive invariant.                                                *)
(***************************************************************************)
LockName ==
    {RowLock(c) : c \in Ctx} \cup {RecordLock(k[1], k[2]) : k \in Agent \X Key}
    \cup {ClaimLock(k[1], k[2]) : k \in Agent \X Key}
    \cup {LogLock, FeedLock, MetaLock}

LifeRequest == [id : EventId, type : {"retracted", "republished"}]

PubTx ==
    [pc : {"idem", "predecessor", "recheck", "log", "claim", "readback",
           "feed", "commit"},
     locks : SUBSET LockName, op : {"publish"}, req : Request, ctx : Ctx,
     mints : Minting, now : Nat, began : Nat, lineage : Ctx \cup {NoCtx},
     index : Nat, base : Nat, at : Nat]

LifeTx ==
    [pc : {"row", "check", "feed", "commit"}, locks : SUBSET LockName,
     op : {"lifecycle"}, req : LifeRequest, ctx : Ctx, mints : Minting,
     now : Nat, began : Nat, base : Nat, at : Nat]

FillTx ==
    [pc : {"row", "plan", "commit"}, locks : SUBSET LockName,
     op : {"backfill"}, req : {NoCtx}, ctx : Ctx, mints : {TRUE},
     now : Nat, began : Nat]

PruneTx ==
    [pc : {"scan", "delete"}, locks : SUBSET LockName, op : {"prune"},
     req : {NoCtx}, ctx : {NoCtx}, now : Nat, began : Nat, last : Nat]

\* A transaction is open for at most MaxTx.
Timely(t) == t.began <= clock /\ clock <= t.began + MaxTx

\* The clock was read since the transaction began.
NowRead(t) == t.now >= t.began - Skew /\ t.now <= clock + Skew

\* Feed positions: whoever holds the lock has drawn them, right after the
\* ones that rolled-back writers lost, and whoever appends rows holds it.
Drew(t) ==
    /\ FeedLock \in t.locks =>
          /\ t.pc = "commit" /\ RowCount(t) # 0
          /\ drawn = t.base + RowCount(t)
          /\ t.base >= lastSeq /\ t.base <= lastSeq + Gap
    /\ t.pc = "commit" /\ RowCount(t) # 0 =>
          /\ FeedLock \in t.locks
          /\ t.at >= t.began - FeedSkew /\ t.at <= clock + FeedSkew

\* Keys.  A record that this transaction has locked to replace it stays, and
\* is expired; one that appeared since it found none does not expire while
\* it runs; once it has claimed the key, no other record can appear.
KeyOf(t) == <<t.req.agent, t.req.key>>

KeyKnown(t) ==
    LET k == KeyOf(t)
        own == RecordLock(t.req.agent, t.req.key) \in t.locks
    IN  t.req.key # NoKey =>
          /\ own => k \in DOMAIN idem /\ idem[k].expires <= t.now
          /\ (/\ t.pc \in {"predecessor", "log", "claim", "readback"}
              /\ ~ own /\ k \in DOMAIN idem) =>
                idem[k].expires + MaxTx + Skew >= t.began + TTL
          /\ t.pc = "readback" => k \in DOMAIN idem /\ ~ own
          /\ t.pc \in {"feed", "commit"} =>
                /\ ClaimLock(t.req.agent, t.req.key) \in t.locks
                /\ k \in DOMAIN idem => own

\* The predecessor, once its row is locked, passes the checks to the end.
LinkKnown(t) ==
    LET p == t.req.content.supersedes
    IN  /\ t.pc = "recheck" => /\ p \in Stored /\ contexts[p].status = "superseded"
                               /\ t.req.key # NoKey
        /\ t.pc = "readback" => t.req.key # NoKey
        /\ t.pc \in {"log", "claim", "feed", "commit"} =>
              /\ SupersessionOutcome(t.req) = "ok"
              /\ p = NoCtx => t.lineage = t.ctx
              /\ p # NoCtx => /\ RowLock(p) \in t.locks
                              /\ t.lineage = contexts[p].lineage

LeafKnown(t) ==
    LogEnabled =>
        /\ t.mints
        /\ t.pc \in {"claim", "feed", "commit"} =>
              LogLock \in t.locks /\ t.index = Len(leaves)

PubInv(t) ==
    /\ t.ctx \notin Stored
    /\ Timely(t) /\ NowRead(t) /\ Drew(t)
    /\ KeyKnown(t) /\ LinkKnown(t) /\ LeafKnown(t)

LifeInv(t) ==
    /\ t.ctx \in Stored /\ Timely(t) /\ Drew(t)
    /\ t.pc \in {"check", "feed", "commit"} => RowLock(t.ctx) \in t.locks /\ NowRead(t)
    /\ t.pc \in {"feed", "commit"} =>
          LifecycleOutcome(t.ctx, t.req.id, t.req.type) = "ok"

\* plan_backfill found something to fill.
Fillable(c) ==
    /\ ~ HasHole(events[c])
    /\ \E i \in DOMAIN events[c] : events[c][i].receipt = NoReceipt

FillInv(t) ==
    /\ t.ctx \in Stored /\ Timely(t) /\ TRUE \in Minting
    /\ FeedLock \notin t.locks
    /\ t.pc \in {"plan", "commit"} => RowLock(t.ctx) \in t.locks /\ NowRead(t)
    /\ t.pc = "commit" => Fillable(t.ctx)

\* The row a prune ends with is the last one that is old enough.
LastPrunable(now, last) ==
    \E x \in Prunable(now) : x.seq = last /\ \A y \in Prunable(now) : y.seq <= last

PruneInv(t) ==
    /\ Timely(t) /\ t.now >= t.began - Skew /\ t.now <= t.began + Skew
    /\ FeedLock \notin t.locks
    /\ t.pc = "delete" => MetaLock \in t.locks /\ LastPrunable(t.now, t.last)

Tx == {Idle} \cup PubTx \cup LifeTx \cup FillTx \cup PruneTx

TxInv(t) ==
    /\ t \in PubTx => PubInv(t)
    /\ t \in LifeTx => LifeInv(t)
    /\ t \in FillTx => FillInv(t)
    /\ t \in PruneTx => PruneInv(t)

Exclusive ==
    \A v, w \in Worker : v # w => tx[v].locks \cap tx[w].locks = {}

OwnIds ==
    \A v, w \in Worker :
        v # w /\ tx[v] \in PubTx /\ tx[w] \in PubTx => tx[v].ctx # tx[w].ctx

\* Positions lost since the last commit, when nobody is about to commit.
Positions ==
    /\ drawn \in Nat /\ lastSeq <= drawn
    /\ (\A w \in Worker : FeedLock \notin tx[w].locks) => drawn <= lastSeq + Gap

Known == \A w \in Worker : \A t \in {tx[w]} : TxInv(t)

TxsOK ==
    tx \in [Worker -> Tx] /\ Known /\ Exclusive /\ OwnIds /\ Positions

PgInv == IInv /\ HInv /\ TxsOK

(***************************************************************************)
(* Locks and records.                                                      *)
(***************************************************************************)
\* Locks of different kinds differ, and locks of one kind name what they lock.
LEMMA LockNames ==
    /\ \A c, d : RowLock(c) = RowLock(d) => c = d
    /\ \A a, k, b, j : /\ RecordLock(a, k) = RecordLock(b, j) => a = b /\ k = j
                       /\ ClaimLock(a, k) = ClaimLock(b, j) => a = b /\ k = j
                       /\ RecordLock(a, k) # ClaimLock(b, j)
    /\ \A c, a, k : RowLock(c) \notin {RecordLock(a, k), ClaimLock(a, k)}
    /\ \A c : RowLock(c) \notin {LogLock, FeedLock, MetaLock}
    /\ \A a, k : /\ RecordLock(a, k) \notin {LogLock, FeedLock, MetaLock}
                 /\ ClaimLock(a, k) \notin {LogLock, FeedLock, MetaLock}
    /\ LogLock # FeedLock /\ LogLock # MetaLock /\ FeedLock # MetaLock
PROOF
  BY DEF RowLock, RecordLock, ClaimLock, LogLock, FeedLock, MetaLock

\* The locks a transaction takes are lock names.
LEMMA LockTypes ==
    /\ \A c \in Ctx : RowLock(c) \in LockName
    /\ \A a \in Agent, k \in Key :
          RecordLock(a, k) \in LockName /\ ClaimLock(a, k) \in LockName
    /\ LogLock \in LockName /\ FeedLock \in LockName /\ MetaLock \in LockName
PROOF
<1>1. \A a \in Agent, k \in Key :
        /\ <<a, k>> \in Agent \X Key /\ <<a, k>>[1] = a /\ <<a, k>>[2] = k
  OBVIOUS
<1>2. \A a \in Agent, k \in Key :
        RecordLock(a, k) \in {RecordLock(j[1], j[2]) : j \in Agent \X Key}
  BY <1>1
<1>3. \A a \in Agent, k \in Key :
        ClaimLock(a, k) \in {ClaimLock(j[1], j[2]) : j \in Agent \X Key}
  BY <1>1
<1> QED BY <1>2, <1>3 DEF LockName

\* The kinds of transaction, told apart by op and pc.
LEMMA TxKinds ==
    ASSUME NEW t \in Tx
    PROVE  /\ t.pc = "idle" <=> t = Idle
           /\ t.pc # "idle" => t.op \in {"publish", "lifecycle", "backfill", "prune"}
           /\ t.pc # "idle" => (t.op = "publish" <=> t \in PubTx)
           /\ t.pc # "idle" => (t.op = "lifecycle" <=> t \in LifeTx)
           /\ t.pc # "idle" => (t.op = "backfill" <=> t \in FillTx)
           /\ t.pc # "idle" => (t.op = "prune" <=> t \in PruneTx)
           /\ t.pc \in {"idem", "predecessor", "recheck", "log", "claim",
                        "readback"} => t \in PubTx
           /\ t.pc = "row" => t \in LifeTx \cup FillTx
           /\ t.pc = "check" => t \in LifeTx
           /\ t.pc = "feed" => t \in PubTx \cup LifeTx
           /\ t.pc = "plan" => t \in FillTx
           /\ t.pc \in {"scan", "delete"} => t \in PruneTx
           /\ t.locks \subseteq LockName
PROOF
<1>1. /\ \A u \in PubTx :
            /\ u.op = "publish" /\ u.locks \subseteq LockName
            /\ u.pc \in {"idem", "predecessor", "recheck", "log", "claim",
                         "readback", "feed", "commit"}
      /\ \A u \in LifeTx :
            /\ u.op = "lifecycle" /\ u.locks \subseteq LockName
            /\ u.pc \in {"row", "check", "feed", "commit"}
      /\ \A u \in FillTx :
            /\ u.op = "backfill" /\ u.locks \subseteq LockName
            /\ u.pc \in {"row", "plan", "commit"}
      /\ \A u \in PruneTx :
            /\ u.op = "prune" /\ u.locks \subseteq LockName
            /\ u.pc \in {"scan", "delete"}
  BY DEF PubTx, LifeTx, FillTx, PruneTx
<1>2. Idle.pc = "idle" /\ Idle.locks = {}
  BY DEF Idle
<1>3. t = Idle \/ t \in PubTx \/ t \in LifeTx \/ t \in FillTx \/ t \in PruneTx
  BY DEF Tx
<1>4. CASE t = Idle
  BY <1>2, <1>4
<1>5. CASE t \in PubTx
  BY <1>1, <1>2, <1>5
<1>6. CASE t \in LifeTx
  BY <1>1, <1>2, <1>6
<1>7. CASE t \in FillTx
  BY <1>1, <1>2, <1>7
<1>8. CASE t \in PruneTx
  BY <1>1, <1>2, <1>8
<1> QED BY <1>3, <1>4, <1>5, <1>6, <1>7, <1>8

(***************************************************************************)
(* What others may do while a transaction is open.                         *)
(***************************************************************************)
\* Nothing a lock of t protects has changed, and what may always change has
\* changed in the one allowed direction.
Undisturbed(t) ==
    /\ clock' \in Nat /\ clock' >= clock
    /\ clock' = clock \/ clock' <= t.began + MaxTx
    /\ Stored \subseteq DOMAIN contexts'
    /\ \A d \in Stored :
          /\ contexts'[d].content = contexts[d].content
          /\ contexts'[d].agent = contexts[d].agent
          /\ contexts'[d].tenant = contexts[d].tenant
          /\ contexts'[d].lineage = contexts[d].lineage
          /\ contexts[d].status = "superseded" =>
                contexts'[d].status = "superseded"
          /\ RowLock(d) \in t.locks =>
                contexts'[d].status = contexts[d].status /\ events'[d] = events[d]
    /\ t \in PubTx => t.ctx \notin DOMAIN contexts'
    /\ LogLock \in t.locks => leaves' = leaves
    /\ FeedLock \in t.locks => lastSeq' = lastSeq /\ drawn' = drawn
    /\ MetaLock \in t.locks => \A n \in Nat : n <= t.began + Skew =>
          \A last : LastPrunable(n, last) => LastPrunable(n, last)'
    /\ \A a \in Agent, k \in Key :
          /\ RecordLock(a, k) \in t.locks /\ <<a, k>> \in DOMAIN idem =>
                <<a, k>> \in DOMAIN idem' /\ idem'[<<a, k>>] = idem[<<a, k>>]
          /\ ClaimLock(a, k) \in t.locks /\ <<a, k>> \in DOMAIN idem' =>
                <<a, k>> \in DOMAIN idem
          /\ <<a, k>> \in DOMAIN idem /\ idem[<<a, k>>].expires > clock + Skew =>
                <<a, k>> \in DOMAIN idem'
          /\ <<a, k>> \in DOMAIN idem' =>
                \/ <<a, k>> \in DOMAIN idem /\ idem'[<<a, k>>] = idem[<<a, k>>]
                \/ /\ idem'[<<a, k>>].expires \in Nat
                   /\ idem'[<<a, k>>].expires + MaxTx + Skew >= clock + TTL

\* What a publish knows of its key stays so.
LEMMA FrameKey ==
    ASSUME TypeOK, NEW t \in PubTx, KeyKnown(t), Timely(t), Undisturbed(t)
    PROVE  KeyKnown(t)'
PROOF
<1> DEFINE a == t.req.agent
           k == t.req.key
           kk == <<a, k>>
           own == RecordLock(a, k) \in t.locks
<1> SUFFICES ASSUME k # NoKey
             PROVE  /\ own => kk \in DOMAIN idem' /\ idem'[kk].expires <= t.now
                    /\ (/\ t.pc \in {"predecessor", "log", "claim", "readback"}
                        /\ ~ own /\ kk \in DOMAIN idem') =>
                          idem'[kk].expires + MaxTx + Skew >= t.began + TTL
                    /\ t.pc = "readback" => kk \in DOMAIN idem' /\ ~ own
                    /\ t.pc \in {"feed", "commit"} =>
                          /\ ClaimLock(a, k) \in t.locks
                          /\ kk \in DOMAIN idem' => own
  BY DEF KeyKnown, KeyOf
<1>1. a \in Agent /\ k \in Key /\ t.began \in Nat /\ t.now \in Nat
  BY DEF PubTx, Request
<1>2. clock \in Nat /\ Skew \in Nat /\ MaxTx \in Nat /\ TTL \in Nat
      /\ 2 * (MaxTx + Skew) < TTL
  BY ParameterAssumption, PgAssumption DEF TypeOK
<1>3. /\ own => kk \in DOMAIN idem /\ idem[kk].expires <= t.now
      /\ (/\ t.pc \in {"predecessor", "log", "claim", "readback"}
          /\ ~ own /\ kk \in DOMAIN idem) =>
            idem[kk].expires + MaxTx + Skew >= t.began + TTL
      /\ t.pc = "readback" => kk \in DOMAIN idem /\ ~ own
      /\ t.pc \in {"feed", "commit"} =>
            /\ ClaimLock(a, k) \in t.locks
            /\ kk \in DOMAIN idem => own
  BY DEF KeyKnown, KeyOf
<1>4. /\ own /\ kk \in DOMAIN idem =>
            kk \in DOMAIN idem' /\ idem'[kk] = idem[kk]
      /\ ClaimLock(a, k) \in t.locks /\ kk \in DOMAIN idem' => kk \in DOMAIN idem
      /\ kk \in DOMAIN idem /\ idem[kk].expires > clock + Skew =>
            kk \in DOMAIN idem'
      /\ kk \in DOMAIN idem' =>
            \/ kk \in DOMAIN idem /\ idem'[kk] = idem[kk]
            \/ /\ idem'[kk].expires \in Nat
               /\ idem'[kk].expires + MaxTx + Skew >= clock + TTL
  BY <1>1 DEF Undisturbed
<1>5. \A e \in DOMAIN idem : idem[e].expires \in Nat
  BY DEF TypeOK, IdemRow
<1>6. t.began <= clock /\ clock <= t.began + MaxTx
  BY DEF Timely
<1> HIDE DEF kk, own
<1>7. own => kk \in DOMAIN idem' /\ idem'[kk].expires <= t.now
  BY <1>3, <1>4
<1>8. ASSUME t.pc \in {"predecessor", "log", "claim", "readback"}, ~ own,
             kk \in DOMAIN idem'
      PROVE  idem'[kk].expires + MaxTx + Skew >= t.began + TTL
  <2>1. CASE kk \in DOMAIN idem /\ idem'[kk] = idem[kk]
    BY <2>1, <1>3, <1>8
  <2>2. CASE /\ idem'[kk].expires \in Nat
             /\ idem'[kk].expires + MaxTx + Skew >= clock + TTL
    BY <1>1, <1>2, <1>6, <2>2
  <2> QED BY <2>1, <2>2, <1>4, <1>8
<1>9. t.pc = "readback" => kk \in DOMAIN idem' /\ ~ own
  <2> SUFFICES ASSUME t.pc = "readback" PROVE kk \in DOMAIN idem' /\ ~ own
    OBVIOUS
  <2>1. kk \in DOMAIN idem /\ ~ own /\ idem[kk].expires \in Nat
        /\ idem[kk].expires + MaxTx + Skew >= t.began + TTL
    BY <1>3, <1>5
  <2>2. idem[kk].expires > clock + Skew
    BY <2>1, <1>1, <1>2, <1>6
  <2> QED BY <2>1, <2>2, <1>4
<1> QED BY <1>3, <1>4, <1>7, <1>8, <1>9 DEF kk, own

\* So does what it knows of its predecessor.
LEMMA FrameLink ==
    ASSUME NEW t \in PubTx, LinkKnown(t), Undisturbed(t)
    PROVE  LinkKnown(t)'
PROOF
<1> DEFINE p == t.req.content.supersedes
<1>1. t.pc = "recheck" =>
        /\ p \in DOMAIN contexts' /\ contexts'[p].status = "superseded"
        /\ t.req.key # NoKey
  BY DEF LinkKnown, Undisturbed
<1>2. ASSUME t.pc \in {"log", "claim", "feed", "commit"}
      PROVE  /\ SupersessionOutcome(t.req)'= "ok"
             /\ p = NoCtx => t.lineage = t.ctx
             /\ p # NoCtx => /\ RowLock(p) \in t.locks
                             /\ t.lineage = contexts'[p].lineage
  <2>1. /\ SupersessionOutcome(t.req) = "ok"
        /\ p = NoCtx => t.lineage = t.ctx
        /\ p # NoCtx => /\ RowLock(p) \in t.locks
                        /\ t.lineage = contexts[p].lineage
    BY <1>2 DEF LinkKnown
  <2>2. CASE p = NoCtx
    BY <2>1, <2>2 DEF SupersessionOutcome
  <2>3. CASE p # NoCtx
    <3>1. p \in Stored
      BY <2>1, <2>3 DEF SupersessionOutcome
    <3>2. /\ p \in DOMAIN contexts'
          /\ contexts'[p].content = contexts[p].content
          /\ contexts'[p].agent = contexts[p].agent
          /\ contexts'[p].tenant = contexts[p].tenant
          /\ contexts'[p].lineage = contexts[p].lineage
          /\ contexts'[p].status = contexts[p].status
      BY <2>1, <2>3, <3>1 DEF Undisturbed
    <3>3. SupersessionOutcome(t.req)' = "ok"
      BY <2>1, <2>3, <3>1, <3>2
         DEF SupersessionOutcome, SameTenant, IsOwner, Stored
    <3> QED BY <2>1, <2>3, <3>2, <3>3
  <2> QED BY <2>2, <2>3
<1> QED BY <1>1, <1>2 DEF LinkKnown, Stored

\* And what any transaction knows of the feed's positions.
LEMMA FrameDrew ==
    ASSUME TypeOK, NEW t \in PubTx \cup LifeTx, Drew(t), Undisturbed(t)
    PROVE  Drew(t)'
PROOF
<1>1. t.at \in Nat /\ clock \in Nat /\ clock' \in Nat /\ clock' >= clock
      /\ FeedSkew \in Nat
  BY ParameterAssumption DEF PubTx, LifeTx, TypeOK, Undisturbed
<1>2. t.at <= clock + FeedSkew => t.at <= clock' + FeedSkew
  BY <1>1
<1>3. RowCount(t)' = RowCount(t)
  BY DEF RowCount, PublishRowCount
<1>4. FeedLock \in t.locks => lastSeq' = lastSeq /\ drawn' = drawn
  BY DEF Undisturbed
<1> QED BY <1>2, <1>3, <1>4 DEF Drew

\* A transaction stays timely, and its clock reading recent.
LEMMA FrameTime ==
    ASSUME TypeOK, NEW t, t.began \in Nat, t.now \in Nat, Undisturbed(t)
    PROVE  (Timely(t) => Timely(t)') /\ (NowRead(t) => NowRead(t)')
PROOF
<1>1. clock \in Nat /\ clock' \in Nat /\ clock' >= clock
      /\ (clock' = clock \/ clock' <= t.began + MaxTx)
      /\ Skew \in Nat /\ MaxTx \in Nat
  BY ParameterAssumption, PgAssumption DEF TypeOK, Undisturbed
<1> QED BY <1>1 DEF Timely, NowRead

\* An open transaction that nobody disturbs knows what it knew.
LEMMA Frame ==
    ASSUME TypeOK, NEW t \in Tx, TxInv(t), Undisturbed(t)
    PROVE  TxInv(t)'
PROOF
<1>1. ASSUME t \in PubTx PROVE PubInv(t)'
  <2>1. PubInv(t)
    BY <1>1 DEF TxInv
  <2>2. KeyKnown(t)'
    BY <1>1, <2>1, FrameKey DEF PubInv
  <2>3. LinkKnown(t)'
    BY <1>1, <2>1, FrameLink DEF PubInv
  <2>a. t.began \in Nat /\ t.now \in Nat
    BY <1>1 DEF PubTx
  <2>4. Drew(t)' /\ Timely(t)' /\ NowRead(t)'
    BY <1>1, <2>1, <2>a, FrameDrew, FrameTime DEF PubInv
  <2>5. LeafKnown(t)'
    BY <2>1 DEF PubInv, LeafKnown, Undisturbed
  <2>6. t.ctx \notin Stored'
    BY <1>1 DEF Undisturbed, Stored
  <2> QED BY <2>2, <2>3, <2>4, <2>5, <2>6 DEF PubInv
<1>2. ASSUME t \in LifeTx PROVE LifeInv(t)'
  <2>1. LifeInv(t)
    BY <1>2 DEF TxInv
  <2>a. t.began \in Nat /\ t.now \in Nat
    BY <1>2 DEF LifeTx
  <2>2. Drew(t)' /\ Timely(t)' /\ (NowRead(t) => NowRead(t)')
    BY <1>2, <2>1, <2>a, FrameDrew, FrameTime DEF LifeInv
  <2>3. t.ctx \in Stored /\ t.ctx \in DOMAIN contexts'
    BY <2>1 DEF LifeInv, Undisturbed
  <2>4. ASSUME t.pc \in {"feed", "commit"}
        PROVE  LifecycleOutcome(t.ctx, t.req.id, t.req.type)' = "ok"
    <3>1. events'[t.ctx] = events[t.ctx]
      BY <2>1, <2>3, <2>4 DEF LifeInv, Undisturbed
    <3> QED BY <2>1, <2>3, <2>4, <3>1
            DEF LifeInv, LifecycleOutcome, RetractionState, Stored
  <2>5. t.pc \in {"check", "feed", "commit"} =>
           RowLock(t.ctx) \in t.locks /\ NowRead(t)'
    BY <2>1, <2>2 DEF LifeInv
  <2> QED BY <2>2, <2>3, <2>4, <2>5 DEF LifeInv, Stored
<1>3. ASSUME t \in FillTx PROVE FillInv(t)'
  <2>1. FillInv(t)
    BY <1>3 DEF TxInv
  <2>a. t.began \in Nat /\ t.now \in Nat
    BY <1>3 DEF FillTx
  <2>2. Timely(t)' /\ (NowRead(t) => NowRead(t)')
    BY <2>1, <2>a, FrameTime DEF FillInv
  <2>3. t.ctx \in Stored /\ t.ctx \in DOMAIN contexts'
    BY <2>1 DEF FillInv, Undisturbed
  <2>4. ASSUME t.pc = "commit" PROVE Fillable(t.ctx)'
    <3>1. events'[t.ctx] = events[t.ctx]
      BY <2>1, <2>3, <2>4 DEF FillInv, Undisturbed
    <3> QED BY <2>1, <2>4, <3>1 DEF FillInv, Fillable, HasHole
  <2>5. t.pc \in {"plan", "commit"} => RowLock(t.ctx) \in t.locks /\ NowRead(t)'
    BY <2>1, <2>2 DEF FillInv
  <2> QED BY <2>1, <2>2, <2>3, <2>4, <2>5 DEF FillInv, Stored
<1>4. ASSUME t \in PruneTx PROVE PruneInv(t)'
  <2>1. PruneInv(t)
    BY <1>4 DEF TxInv
  <2>3. t.began \in Nat /\ t.now \in Nat
    BY <1>4 DEF PruneTx
  <2>2. Timely(t)'
    BY <2>1, <2>3, FrameTime DEF PruneInv
  <2>4. t.pc = "delete" => LastPrunable(t.now, t.last)'
    BY <2>1, <2>3 DEF PruneInv, Undisturbed
  <2> QED BY <2>1, <2>2, <2>4 DEF PruneInv
<1> QED BY <1>1, <1>2, <1>3, <1>4 DEF TxInv

(***************************************************************************)
(* What each commit leaves undisturbed.                                    *)
(***************************************************************************)
\* New rows at the head that are not old enough do not change what a pruner
\* has found.
LEMMA PrunableKept ==
    ASSUME TypeOK, FeedInv, NEW rows, changes' = changes \cup rows,
           NEW n \in Nat,
           \A x \in rows : /\ x.seq \in Nat /\ x.seq > lastSeq
                           /\ ~ (x.at < n - Retention - Margin)
    PROVE  \A last : LastPrunable(n, last) => LastPrunable(n, last)'
PROOF
<1>1. \A x \in changes : x.seq \in Nat /\ x.seq <= lastSeq /\ lastSeq \in Nat
  BY DEF TypeOK, FeedInv, FeedRow
<1>2. \A x \in changes :
        {y \in changes' : y.seq <= x.seq} = {y \in changes : y.seq <= x.seq}
  BY <1>1
<1> DEFINE Old(x, ys) == /\ Cardinality({y \in ys : y.seq <= x.seq}) <= Batch
                         /\ \A y \in ys :
                               y.seq <= x.seq => y.at < n - Retention - Margin
<1>3. \A x \in changes : Old(x, changes') <=> Old(x, changes)
  <2> TAKE x \in changes
  <2>1. {y \in changes' : y.seq <= x.seq} = {y \in changes : y.seq <= x.seq}
    BY <1>2
  <2>2. \A y : y \in changes' /\ y.seq <= x.seq <=> y \in changes /\ y.seq <= x.seq
    BY <2>1
  <2> QED BY <2>1, <2>2
<1>4. \A x \in rows : ~ Old(x, changes')
  <2> TAKE x \in rows
  <2>1. x \in changes' /\ x.seq <= x.seq
    OBVIOUS
  <2> QED BY <2>1
<1>5. Prunable(n) = {x \in changes : Old(x, changes)}
  BY DEF Prunable
<1>6. Prunable(n)' = {x \in changes' : Old(x, changes')}
  BY DEF Prunable
<1> HIDE DEF Old
<1>7. Prunable(n)' = Prunable(n)
  BY <1>3, <1>4, <1>5, <1>6
<1> QED BY <1>7 DEF LastPrunable

\* A step that writes nothing.
LEMMA QuietUndisturbed ==
    ASSUME TypeOK, UNCHANGED vars, NEW t, t \in PubTx => t.ctx \notin Stored,
           FeedLock \in t.locks => drawn' = drawn
    PROVE  Undisturbed(t)
PROOF
<1>1. UNCHANGED <<contexts, idem, events, leaves, changes, lastSeq,
                  prunedThrough, clock, appended>>
  BY DEF vars
<1>2. \A n, last : LastPrunable(n, last) => LastPrunable(n, last)'
  BY <1>1 DEF LastPrunable, Prunable
<1>3. clock \in Nat
  BY DEF TypeOK
<1> QED BY <1>1, <1>2, <1>3 DEF Undisturbed, Stored

\* The times at which a transaction that commits now drew its feed rows, seen
\* from a pruner that is open now.
LEMMA NotYetOld ==
    ASSUME TypeOK, NEW t, Timely(t), t.began \in Nat, NEW n \in Nat,
           n <= t.began + Skew, NEW at \in Nat, at >= clock - FeedSkew - MaxTx
    PROVE  ~ (at < n - Retention - Margin)
PROOF
<1>1. /\ clock \in Nat /\ Skew \in Nat /\ FeedSkew \in Nat /\ MaxTx \in Nat
      /\ Retention \in Nat /\ Margin \in Nat
      /\ Retention + Margin >= Skew + FeedSkew + MaxTx
  BY ParameterAssumption, PgAssumption DEF TypeOK
<1>2. t.began <= clock
  BY DEF Timely
<1> QED BY <1>1, <1>2

\* A commit that appends rows takes none from under an open pruner.
LEMMA AppendKeepsPrunable ==
    ASSUME TypeOK, FeedInv, NEW base \in Nat, base >= lastSeq,
           NEW at \in Nat, at >= clock - FeedSkew - MaxTx,
           NEW rows, changes' = changes \cup rows,
           \A x \in rows : x.seq \in Nat /\ x.seq > base /\ x.at = at,
           NEW t \in Tx, TxInv(t), MetaLock \in t.locks,
           NEW n \in Nat, n <= t.began + Skew
    PROVE  \A last : LastPrunable(n, last) => LastPrunable(n, last)'
PROOF
<1>1. t # Idle
  BY DEF Idle
<1>2. Timely(t) /\ t.began \in Nat
  BY <1>1 DEF Tx, TxInv, PubInv, LifeInv, FillInv, PruneInv,
              PubTx, LifeTx, FillTx, PruneTx
<1>3. \A x \in rows : /\ x.seq \in Nat /\ x.seq > lastSeq
                      /\ ~ (x.at < n - Retention - Margin)
  <2> TAKE x \in rows
  <2>1. x.seq \in Nat /\ x.seq > base /\ x.at = at /\ lastSeq \in Nat
    BY DEF TypeOK
  <2>2. ~ (at < n - Retention - Margin)
    BY <1>2, NotYetOld
  <2> QED BY <2>1, <2>2
<1> QED BY <1>3, PrunableKept

\* A publish commits: what others have locked stays as it is.
LEMMA PublishUndisturbed ==
    ASSUME IInv, NEW u \in PubTx, PubInv(u), u.pc = "commit",
           NEW base \in Nat, base >= lastSeq,
           NEW at \in Nat, at >= clock - FeedSkew - MaxTx,
           Publish(u.ctx, u.req, u.mints, u.now, base, at), drawn' = drawn,
           NEW t \in Tx, TxInv(t), t.locks \cap u.locks = {},
           t \in PubTx => t.ctx # u.ctx
    PROVE  Undisturbed(t)
PROOF
<1> DEFINE r == u.req
           p == r.content.supersedes
           kk == <<r.agent, r.key>>
<1>1. /\ TypeOK /\ LineageIsChain /\ FeedInv /\ u.ctx \in Ctx \ Stored
      /\ r \in Request /\ u.mints \in BOOLEAN /\ u.now \in Nat
  BY ParameterAssumption DEF IInv, PubTx, PubInv
<1>2. /\ DOMAIN contexts' = Stored \cup {u.ctx}
      /\ \A d \in Stored : contexts'[d] =
            IF d = p THEN [contexts[d] EXCEPT !.status = "superseded"]
            ELSE contexts[d]
  BY <1>1, PublishRow DEF PublishEffect
<1>3. events' = events /\ prunedThrough' = prunedThrough /\ clock' = clock
      /\ clock \in Nat
  BY <1>1 DEF Publish, TypeOK
<1>4. p # NoCtx => RowLock(p) \notin t.locks
  BY DEF PubInv, LinkKnown
<1>5. \A d \in Stored :
          /\ contexts'[d].content = contexts[d].content
          /\ contexts'[d].agent = contexts[d].agent
          /\ contexts'[d].tenant = contexts[d].tenant
          /\ contexts'[d].lineage = contexts[d].lineage
          /\ contexts[d].status = "superseded" =>
                contexts'[d].status = "superseded"
          /\ RowLock(d) \in t.locks => contexts'[d].status = contexts[d].status
  <2> TAKE d \in Stored
  <2>1. contexts[d] \in ContextRow /\ d \in Ctx /\ NoCtx \notin Ctx
    BY <1>1, NameAssumption DEF TypeOK
  <2>2. CASE d = p
    <3>1. contexts'[d] = [contexts[d] EXCEPT !.status = "superseded"]
      BY <1>2, <2>2
    <3>2. RowLock(d) \notin t.locks
      BY <1>4, <2>1, <2>2
    <3> QED BY <2>1, <3>1, <3>2 DEF ContextRow
  <2>3. CASE d # p
    BY <1>2, <2>3
  <2> QED BY <2>2, <2>3
<1>6. t \in PubTx => t.ctx \notin DOMAIN contexts'
  BY <1>2 DEF TxInv, PubInv
<1>7. LogLock \in t.locks => leaves' = leaves
  BY DEF PubInv, LeafKnown, Publish, WithLeaf
<1>8. PICK rows : /\ changes' = changes \cup rows
                  /\ \A x \in rows : x.seq \in Nat /\ x.seq > base /\ x.at = at
  <2>1. CASE ~ u.mints
    <3>1. changes' = changes \cup {}
      BY <2>1 DEF Publish, AppendRows
    <3>2. \A x \in {} : x.seq \in Nat /\ x.seq > base /\ x.at = at
      OBVIOUS
    <3> QED BY <3>1, <3>2
  <2>2. CASE u.mints
    <3>1. changes' = changes \cup PublishRows(u.ctx, r, base, at)
      BY <2>2 DEF Publish, AppendRows
    <3>2. \A x \in PublishRows(u.ctx, r, base, at) :
             x.seq \in Nat /\ x.seq > base /\ x.at = at
      BY DEF PublishRows, SupersededRows, RevocationRows
    <3> QED BY <3>1, <3>2
  <2> QED BY <2>1, <2>2
<1>9. ASSUME MetaLock \in t.locks, NEW n \in Nat, n <= t.began + Skew
      PROVE  \A last : LastPrunable(n, last) => LastPrunable(n, last)'
  BY <1>1, <1>8, <1>9, AppendKeepsPrunable
<1>10. FeedLock \in t.locks => lastSeq' = lastSeq /\ drawn' = drawn
  <2> SUFFICES ASSUME FeedLock \in t.locks PROVE lastSeq' = lastSeq
    OBVIOUS
  <2>1. RowCount(u) = 0
    BY DEF PubInv, Drew
  <2>2. u.op = "publish"
    BY DEF PubTx
  <2>3. CASE ~ u.mints
    BY <2>3 DEF Publish, AppendRows
  <2>4. CASE u.mints
    <3>1. PublishRowCount(r) = 0
      BY <2>1, <2>2, <2>4 DEF RowCount
    <3> QED BY <2>4, <3>1 DEF Publish, AppendRows
  <2> QED BY <2>3, <2>4
<1>11. ASSUME NEW a \in Agent, NEW k \in Key
       PROVE  /\ RecordLock(a, k) \in t.locks /\ <<a, k>> \in DOMAIN idem =>
                   <<a, k>> \in DOMAIN idem' /\ idem'[<<a, k>>] = idem[<<a, k>>]
              /\ ClaimLock(a, k) \in t.locks /\ <<a, k>> \in DOMAIN idem' =>
                   <<a, k>> \in DOMAIN idem
              /\ (/\ <<a, k>> \in DOMAIN idem
                  /\ idem[<<a, k>>].expires > clock + Skew) =>
                   <<a, k>> \in DOMAIN idem'
              /\ <<a, k>> \in DOMAIN idem' =>
                   \/ <<a, k>> \in DOMAIN idem /\ idem'[<<a, k>>] = idem[<<a, k>>]
                   \/ /\ idem'[<<a, k>>].expires \in Nat
                      /\ idem'[<<a, k>>].expires + MaxTx + Skew >= clock + TTL
  <2>1. CASE r.key = NoKey
    BY <2>1 DEF Publish
  <2>2. CASE r.key # NoKey
    <3>1. idem' = WithIdem(u.ctx, r, u.now)
      BY <2>2 DEF Publish
    <3>2. /\ DOMAIN idem' = DOMAIN idem \cup {kk}
          /\ \A j \in DOMAIN idem : j # kk => idem'[j] = idem[j]
          /\ idem'[kk].expires = u.now + TTL
      BY <3>1 DEF WithIdem
    <3>3. /\ ClaimLock(r.agent, r.key) \in u.locks
          /\ kk \in DOMAIN idem => RecordLock(r.agent, r.key) \in u.locks
      BY <2>2 DEF PubInv, KeyKnown, KeyOf
    <3>4. CASE <<a, k>> = kk
      <4>1. a = r.agent /\ k = r.key
        BY <3>4
      <4>2. /\ ClaimLock(a, k) \notin t.locks
            /\ kk \in DOMAIN idem => RecordLock(a, k) \notin t.locks
        BY <3>3, <4>1
      <4>3. /\ u.now + TTL \in Nat
            /\ u.now + TTL + MaxTx + Skew >= clock + TTL
        <5>1. /\ u.now >= u.began - Skew /\ clock <= u.began + MaxTx
              /\ u.began \in Nat /\ u.now \in Nat /\ clock \in Nat
              /\ TTL \in Nat /\ Skew \in Nat /\ MaxTx \in Nat
          BY <1>1, <1>3, ParameterAssumption, PgAssumption
             DEF PubInv, NowRead, Timely, PubTx
        <5> QED BY <5>1
      <4> QED BY <3>2, <3>4, <4>2, <4>3
    <3>5. CASE <<a, k>> # kk
      BY <3>2, <3>5
    <3> QED BY <3>4, <3>5
  <2> QED BY <2>1, <2>2
<1> QED BY <1>2, <1>3, <1>5, <1>6, <1>7, <1>9, <1>10, <1>11 DEF Undisturbed

\* A lifecycle event commits.
LEMMA LifecycleUndisturbed ==
    ASSUME IInv, NEW u \in LifeTx, LifeInv(u), u.pc = "commit",
           NEW base \in Nat, base >= lastSeq,
           NEW at \in Nat, at >= clock - FeedSkew - MaxTx,
           CommitLifecycle(u.ctx, u.req.id, u.req.type, u.mints, u.now, base, at),
           drawn' = drawn,
           NEW t \in Tx, TxInv(t), t.locks \cap u.locks = {}
    PROVE  Undisturbed(t)
PROOF
<1>1. TypeOK /\ FeedInv /\ u.ctx \in Stored
  BY DEF IInv, LifeInv
<1>2. /\ contexts' = [contexts EXCEPT
                        ![u.ctx].retracted = (u.req.type = "retracted")]
      /\ UNCHANGED <<idem, leaves, prunedThrough, clock>>
      /\ clock \in Nat
  BY <1>1 DEF CommitLifecycle, TypeOK
<1>3. /\ DOMAIN contexts' = Stored
      /\ \A d \in Stored :
            /\ contexts'[d].content = contexts[d].content
            /\ contexts'[d].agent = contexts[d].agent
            /\ contexts'[d].tenant = contexts[d].tenant
            /\ contexts'[d].lineage = contexts[d].lineage
            /\ contexts'[d].status = contexts[d].status
  <2>1. \A d \in Stored : contexts[d] \in ContextRow
    BY <1>1 DEF TypeOK
  <2> QED BY <1>1, <1>2, <2>1 DEF ContextRow, Stored
<1>4. \A d \in Stored : RowLock(d) \in t.locks => events'[d] = events[d]
  <2> SUFFICES ASSUME NEW d \in Stored, RowLock(d) \in t.locks
               PROVE  events'[d] = events[d]
    OBVIOUS
  <2>1. d # u.ctx
    BY DEF LifeInv
  <2>2. d \in Ctx /\ DOMAIN events = Ctx
    BY <1>1 DEF TypeOK
  <2>3. \E s : events' = [events EXCEPT ![u.ctx] = s]
    BY DEF CommitLifecycle
  <2> QED BY <2>1, <2>2, <2>3
<1>5. t \in PubTx => t.ctx \notin DOMAIN contexts'
  BY <1>3 DEF TxInv, PubInv
<1>6. PICK rows : /\ changes' = changes \cup rows
                  /\ \A x \in rows : x.seq \in Nat /\ x.seq > base /\ x.at = at
  <2>1. CASE ~ u.mints
    <3>1. changes' = changes \cup {}
      BY <2>1 DEF CommitLifecycle, AppendRows
    <3>2. \A x \in {} : x.seq \in Nat /\ x.seq > base /\ x.at = at
      OBVIOUS
    <3> QED BY <3>1, <3>2
  <2>2. CASE u.mints
    <3>1. changes' = changes \cup LifecycleRows(u.ctx, u.req.id, base, at)
      BY <2>2 DEF CommitLifecycle, AppendRows
    <3>2. \A x \in LifecycleRows(u.ctx, u.req.id, base, at) :
             x.seq \in Nat /\ x.seq > base /\ x.at = at
      BY DEF LifecycleRows
    <3> QED BY <3>1, <3>2
  <2> QED BY <2>1, <2>2
<1>7. ASSUME MetaLock \in t.locks, NEW n \in Nat, n <= t.began + Skew
      PROVE  \A last : LastPrunable(n, last) => LastPrunable(n, last)'
  BY <1>1, <1>6, <1>7, AppendKeepsPrunable
<1>8. FeedLock \in t.locks => lastSeq' = lastSeq /\ drawn' = drawn
  <2> SUFFICES ASSUME FeedLock \in t.locks PROVE lastSeq' = lastSeq
    OBVIOUS
  <2>1. RowCount(u) = 0
    BY DEF LifeInv, Drew
  <2>2. ~ u.mints
    <3>1. u.op = "lifecycle"
      BY DEF LifeTx
    <3> QED BY <2>1, <3>1 DEF RowCount
  <2> QED BY <2>2 DEF CommitLifecycle, AppendRows
<1> QED BY <1>2, <1>3, <1>4, <1>5, <1>7, <1>8 DEF Undisturbed

\* The receipt sweep commits.
LEMMA BackfillUndisturbed ==
    ASSUME TypeOK, NEW c \in Stored, NEW now, Backfill(c, now), drawn' = drawn,
           NEW t \in Tx, TxInv(t), RowLock(c) \notin t.locks
    PROVE  Undisturbed(t)
PROOF
<1>1. /\ UNCHANGED <<contexts, idem, leaves, changes, lastSeq, prunedThrough,
                     clock, appended>>
      /\ clock \in Nat
  BY DEF Backfill, TypeOK
<1>2. \A d \in Stored : RowLock(d) \in t.locks => events'[d] = events[d]
  <2> SUFFICES ASSUME NEW d \in Stored, RowLock(d) \in t.locks
               PROVE  events'[d] = events[d]
    OBVIOUS
  <2>1. d # c
    OBVIOUS
  <2>2. d \in Ctx /\ DOMAIN events = Ctx
    BY DEF TypeOK
  <2>3. \E s : events' = [events EXCEPT ![c] = s]
    BY DEF Backfill
  <2> QED BY <2>1, <2>2, <2>3
<1>3. t \in PubTx => t.ctx \notin Stored
  BY DEF TxInv, PubInv
<1>4. \A n, last : LastPrunable(n, last) => LastPrunable(n, last)'
  BY <1>1 DEF LastPrunable, Prunable
<1> QED BY <1>1, <1>2, <1>3, <1>4 DEF Undisturbed, Stored

\* A prune commits.
LEMMA PruneUndisturbed ==
    ASSUME TypeOK, NEW last, PruneThrough(last), drawn' = drawn,
           NEW t \in Tx, TxInv(t), MetaLock \notin t.locks
    PROVE  Undisturbed(t)
PROOF
<1>1. /\ UNCHANGED <<contexts, idem, events, leaves, lastSeq, clock, appended>>
      /\ clock \in Nat
  BY DEF PruneThrough, TypeOK
<1>2. t \in PubTx => t.ctx \notin Stored
  BY DEF TxInv, PubInv
<1> QED BY <1>1, <1>2 DEF Undisturbed, Stored

\* The evictor waits for locked records and spares the ones that are live.
LEMMA EvictUndisturbed ==
    ASSUME TypeOK, NEW now \in Readings, EvictExpired(now),
           NEW w \in Worker, NEW t \in Tx, t = tx[w], TxInv(t)
    PROVE  Undisturbed(t)
PROOF
<1>1. /\ UNCHANGED <<contexts, events, leaves, changes, lastSeq, prunedThrough,
                     clock, appended, drawn>>
      /\ clock \in Nat /\ Skew \in Nat
      /\ now \in Nat /\ now <= clock + Skew
  BY ParameterAssumption DEF EvictExpired, Evict, TypeOK, Readings
<1>2. t \in PubTx => t.ctx \notin Stored
  BY DEF TxInv, PubInv
<1>3. \A n, last : LastPrunable(n, last) => LastPrunable(n, last)'
  BY <1>1 DEF LastPrunable, Prunable
<1>4. /\ \A k \in DOMAIN idem' : k \in DOMAIN idem /\ idem'[k] = idem[k]
      /\ \A k \in DOMAIN idem : idem[k].expires > now => k \in DOMAIN idem'
  BY DEF EvictExpired, Evict
<1>5. \A k \in DOMAIN idem : idem[k].expires \in Nat
  BY DEF TypeOK, IdemRow
<1>6. ASSUME NEW a \in Agent, NEW k \in Key
      PROVE  /\ RecordLock(a, k) \in t.locks /\ <<a, k>> \in DOMAIN idem =>
                   <<a, k>> \in DOMAIN idem' /\ idem'[<<a, k>>] = idem[<<a, k>>]
             /\ (/\ <<a, k>> \in DOMAIN idem
                 /\ idem[<<a, k>>].expires > clock + Skew) =>
                   <<a, k>> \in DOMAIN idem'
  <2>1. ASSUME RecordLock(a, k) \in t.locks, <<a, k>> \in DOMAIN idem
        PROVE  idem[<<a, k>>].expires > now
    <3>1. <<a, k>>[1] = a /\ <<a, k>>[2] = k
      OBVIOUS
    <3>2. idem[<<a, k>>].expires <= now =>
             RecordLock(<<a, k>>[1], <<a, k>>[2]) \notin tx[w].locks
      BY <2>1 DEF EvictExpired
    <3>3. ~ (idem[<<a, k>>].expires <= now)
      BY <2>1, <3>1, <3>2
    <3>4. idem[<<a, k>>].expires \in Nat
      BY <1>5, <2>1
    <3> QED BY <1>1, <3>3, <3>4
  <2>2. ASSUME <<a, k>> \in DOMAIN idem, idem[<<a, k>>].expires > clock + Skew
        PROVE  idem[<<a, k>>].expires > now
    <3>1. idem[<<a, k>>].expires \in Nat
      BY <1>5, <2>2
    <3> QED BY <1>1, <2>2, <3>1
  <2> QED BY <1>4, <2>1, <2>2
<1> QED BY <1>1, <1>2, <1>3, <1>4, <1>6 DEF Undisturbed, Stored

\* Time passes, for transactions that are not yet at their limit.
LEMMA TickUndisturbed ==
    ASSUME TypeOK, PgTick, NEW w \in Worker, NEW t \in Tx, t = tx[w],
           t # Idle, TxInv(t)
    PROVE  Undisturbed(t)
PROOF
<1>1. /\ UNCHANGED <<contexts, idem, events, leaves, changes, lastSeq,
                     prunedThrough, appended, drawn>>
      /\ clock \in Nat /\ clock' = clock + 1 /\ MaxTx \in Nat
  BY PgAssumption DEF PgTick, Tick, TypeOK
<1>2. clock < t.began + MaxTx /\ t.began \in Nat
  <2>1. t.pc # "idle"
    BY TxKinds
  <2>2. t.began \in Nat
    BY DEF Tx, PubTx, LifeTx, FillTx, PruneTx
  <2> QED BY <2>1, <2>2 DEF PgTick, Active
<1>3. clock' \in Nat /\ clock' >= clock /\ clock' <= t.began + MaxTx
  BY <1>1, <1>2
<1>4. t \in PubTx => t.ctx \notin Stored
  BY DEF TxInv, PubInv
<1>5. \A n, last : LastPrunable(n, last) => LastPrunable(n, last)'
  BY <1>1 DEF LastPrunable, Prunable
<1> QED BY <1>1, <1>3, <1>4, <1>5 DEF Undisturbed, Stored

(***************************************************************************)
(* A step of one transaction.                                              *)
(***************************************************************************)
\* One transaction steps and leaves the others undisturbed.
LEMMA Stepped ==
    ASSUME TypeOK, TxsOK, NEW w \in Worker, NEW u \in Tx,
           tx' = [tx EXCEPT ![w] = u],
           \A t \in {u} : TxInv(t)',
           \A v \in Worker \ {w} : \A t \in {tx[v]} : Undisturbed(t),
           \A v \in Worker \ {w} :
               /\ u.locks \cap tx[v].locks = {}
               /\ u \in PubTx /\ tx[v] \in PubTx => tx[v].ctx # u.ctx,
           Positions'
    PROVE  TxsOK'
PROOF
<1>1. /\ tx \in [Worker -> Tx] /\ tx' \in [Worker -> Tx] /\ tx'[w] = u
      /\ \A v \in Worker \ {w} : tx'[v] = tx[v]
  BY DEF TxsOK
<1>2. Known'
  <2> SUFFICES ASSUME NEW v \in Worker, NEW t \in {tx'[v]} PROVE TxInv(t)'
    BY DEF Known
  <2>1. CASE v = w
    BY <1>1, <2>1
  <2>2. CASE v # w
    <3>1. t \in {tx[v]} /\ t \in Tx
      BY <1>1, <2>2
    <3>2. TxInv(t) /\ Undisturbed(t)
      BY <2>2, <3>1 DEF TxsOK, Known
    <3> QED BY <3>1, <3>2, Frame
  <2> QED BY <2>1, <2>2
<1>3. Exclusive'
  <2> SUFFICES ASSUME NEW v \in Worker, NEW x \in Worker, v # x
               PROVE  tx'[v].locks \cap tx'[x].locks = {}
    BY DEF Exclusive
  <2>1. tx[v].locks \cap tx[x].locks = {}
    BY DEF TxsOK, Exclusive
  <2> QED BY <1>1, <2>1
<1>4. OwnIds'
  <2> SUFFICES ASSUME NEW v \in Worker, NEW x \in Worker, v # x,
                      tx'[v] \in PubTx, tx'[x] \in PubTx
               PROVE  tx'[v].ctx # tx'[x].ctx
    BY DEF OwnIds, PubTx, LockName, Request, RowLock, RecordLock, ClaimLock,
           LogLock, FeedLock, MetaLock
  <2>1. tx[v] \in PubTx /\ tx[x] \in PubTx => tx[v].ctx # tx[x].ctx
    BY DEF TxsOK, OwnIds
  <2> QED BY <1>1, <2>1
<1> QED BY <1>1, <1>2, <1>3, <1>4 DEF TxsOK

\* A statement that writes nothing visible: the transaction goes on as u.
LEMMA Moved ==
    ASSUME TypeOK, TxsOK, NEW w \in Worker, NEW u \in Tx,
           tx' = [tx EXCEPT ![w] = u], UNCHANGED vars, drawn' = drawn,
           TxInv(u),
           \A v \in Worker \ {w} :
               /\ u.locks \cap tx[v].locks = {}
               /\ u \in PubTx /\ tx[v] \in PubTx => tx[v].ctx # u.ctx,
           FeedLock \in tx[w].locks =>
               FeedLock \in u.locks \/ drawn <= lastSeq + Gap
    PROVE  TxsOK'
PROOF
<1>1. \A t \in {u} : TxInv(t)'
  <2> SUFFICES ASSUME NEW t \in {u} PROVE TxInv(t)'
    OBVIOUS
  <2>1. t \in Tx /\ TxInv(t)
    OBVIOUS
  <2>2. Undisturbed(t)
    BY <2>1, QuietUndisturbed DEF TxInv, PubInv
  <2> QED BY <2>1, <2>2, Frame
<1>2. \A v \in Worker \ {w} : \A t \in {tx[v]} : Undisturbed(t)
  <2> SUFFICES ASSUME NEW v \in Worker \ {w}, NEW t \in {tx[v]}
               PROVE  Undisturbed(t)
    OBVIOUS
  <2>1. TxInv(t)
    BY DEF TxsOK, Known
  <2> QED BY <2>1, QuietUndisturbed DEF TxInv, PubInv
<1>3. Positions'
  <2>1. Positions /\ tx \in [Worker -> Tx]
    BY DEF TxsOK
  <2>2. lastSeq' = lastSeq
    BY DEF vars
  <2>3. (\A v \in Worker : FeedLock \notin tx'[v].locks) => drawn <= lastSeq + Gap
    BY <2>1 DEF Positions
  <2> QED BY <2>1, <2>2, <2>3 DEF Positions
<1> QED BY <1>1, <1>2, <1>3, Stepped

\* An idle connection knows nothing and holds nothing.
LEMMA IdleTx ==
    /\ Idle \in Tx /\ TxInv(Idle) /\ Idle.locks = {} /\ Idle.pc = "idle"
    /\ Idle \notin PubTx /\ \A t \in {Idle} : TxInv(t)'
PROOF
<1>1. Idle \in Tx /\ Idle.pc = "idle" /\ Idle.locks = {}
  BY DEF Tx, Idle
<1>2. Idle \notin PubTx /\ Idle \notin LifeTx /\ Idle \notin FillTx
      /\ Idle \notin PruneTx
  BY <1>1 DEF PubTx, LifeTx, FillTx, PruneTx
<1> QED BY <1>1, <1>2 DEF TxInv

\* A transaction ends without a write.
LEMMA Ended ==
    ASSUME TypeOK, TxsOK, NEW w \in Worker, tx' = [tx EXCEPT ![w] = Idle],
           UNCHANGED vars, drawn' = drawn,
           FeedLock \in tx[w].locks => drawn <= lastSeq + Gap
    PROVE  TxsOK'
PROOF
<1>1. \A v \in Worker \ {w} :
         /\ Idle.locks \cap tx[v].locks = {}
         /\ Idle \in PubTx /\ tx[v] \in PubTx => tx[v].ctx # Idle.ctx
  BY IdleTx
<1> QED BY <1>1, IdleTx, Moved

\* A publish goes on, with locks that were free.
LEMMA PubMoved ==
    ASSUME TypeOK, TxsOK, NEW w \in Worker, tx[w] \in PubTx,
           NEW u \in PubTx, tx' = [tx EXCEPT ![w] = u], UNCHANGED vars,
           drawn' = drawn, PubInv(u), u.ctx = tx[w].ctx,
           \A l \in u.locks : l \in tx[w].locks \/ Free(w, l),
           FeedLock \notin tx[w].locks
    PROVE  TxsOK'
PROOF
<1>1. u \in Tx /\ u \notin LifeTx /\ u \notin FillTx /\ u \notin PruneTx
  BY DEF Tx, PubTx, LifeTx, FillTx, PruneTx
<1>2. TxInv(u)
  BY <1>1 DEF TxInv
<1>3. \A v \in Worker \ {w} : u.locks \cap tx[v].locks = {}
  <2> SUFFICES ASSUME NEW v \in Worker \ {w}, NEW l \in u.locks,
                      l \in tx[v].locks
               PROVE  FALSE
    OBVIOUS
  <2>1. l \notin tx[w].locks
    BY DEF TxsOK, Exclusive
  <2> QED BY <2>1 DEF Free
<1>4. \A v \in Worker \ {w} : tx[v] \in PubTx => tx[v].ctx # u.ctx
  BY DEF TxsOK, OwnIds
<1> QED BY <1>1, <1>2, <1>3, <1>4, Moved

(***************************************************************************)
(* The statements of commit_publish.                                       *)
(***************************************************************************)
\* A new publish transaction knows nothing yet.
LEMMA BeginPublishStep ==
    ASSUME TypeOK, TxsOK, NEW w \in Worker, NEW c \in Ctx \ Stored,
           NEW r \in Request, NEW minted \in Minting, NEW now \in Readings,
           BeginPublish(w, c, r, minted, now)
    PROVE  TxsOK'
PROOF
<1> DEFINE u == [pc |-> "idem", locks |-> {}, op |-> "publish", req |-> r,
                 ctx |-> c, mints |-> minted, now |-> now, began |-> clock,
                 lineage |-> NoCtx, index |-> 0, base |-> 0, at |-> 0]
<1>1. /\ now \in Nat /\ clock \in Nat /\ now >= clock - Skew
      /\ now <= clock + Skew /\ Skew \in Nat /\ MaxTx \in Nat
  BY ParameterAssumption, PgAssumption DEF Readings, TypeOK
<1>2. u \in PubTx
  BY <1>1 DEF PubTx
<1>3. /\ u.pc = "idem" /\ u.locks = {} /\ u.ctx = c /\ u.mints = minted
      /\ u.now = now /\ u.began = clock
  OBVIOUS
<1>4. /\ tx[w].pc = "idle" /\ tx' = [tx EXCEPT ![w] = u]
      /\ UNCHANGED vars /\ drawn' = drawn /\ (LogEnabled => minted)
      /\ \A v \in Worker : Active(v) => tx[v].op # "publish" \/ tx[v].ctx # c
  BY DEF BeginPublish, Begun, NoWrite
<1> HIDE DEF u
<1>5. PubInv(u)
  <2>1. Timely(u) /\ NowRead(u)
    BY <1>1, <1>3 DEF Timely, NowRead
  <2>2. Drew(u) /\ KeyKnown(u) /\ LinkKnown(u)
    BY <1>3 DEF Drew, KeyKnown, LinkKnown
  <2>3. LeafKnown(u)
    BY <1>3, <1>4 DEF LeafKnown
  <2> QED BY <1>3, <2>1, <2>2, <2>3 DEF PubInv
<1>6. u \in Tx /\ TxInv(u)
  <2>1. u \in Tx /\ u \notin LifeTx /\ u \notin FillTx /\ u \notin PruneTx
    BY <1>2, <1>3 DEF Tx, LifeTx, FillTx, PruneTx
  <2> QED BY <1>5, <2>1 DEF TxInv
<1>7. \A v \in Worker \ {w} :
         /\ u.locks \cap tx[v].locks = {}
         /\ u \in PubTx /\ tx[v] \in PubTx => tx[v].ctx # u.ctx
  <2> TAKE v \in Worker \ {w}
  <2>1. tx[v] \in PubTx => tx[v].pc # "idle" /\ tx[v].op = "publish"
    BY DEF PubTx
  <2> QED BY <1>3, <1>4, <2>1 DEF Active
<1>8. FeedLock \notin tx[w].locks
  <2>1. tx[w] \in Tx
    BY DEF TxsOK
  <2> QED BY <1>4, <2>1, TxKinds DEF Idle
<1> QED BY <1>4, <1>6, <1>7, <1>8, Moved

\* What a publish transaction at work is.
LEMMA PubWorking ==
    ASSUME TxsOK, NEW w \in Worker, tx[w] \in PubTx
    PROVE  PubInv(tx[w]) /\ (tx[w].pc # "commit" => FeedLock \notin tx[w].locks)
PROOF
  BY DEF TxsOK, Known, TxInv, PubInv, Drew

\* It is over without a write, before it drew positions.
LEMMA PubEnds ==
    ASSUME TypeOK, TxsOK, NEW w \in Worker, tx[w] \in PubTx,
           tx[w].pc # "commit", NEW result, NEW ctx, End(w, result, ctx), NoWrite
    PROVE  TxsOK'
PROOF
  BY PubWorking, Ended DEF End, NoWrite

\* Step 1, the idempotency record.
LEMMA CheckIdemStep ==
    ASSUME TypeOK, TxsOK, NEW w \in Worker, CheckIdem(w)
    PROVE  TxsOK'
PROOF
<1> DEFINE t == tx[w]
           r == t.req
           k == <<r.agent, r.key>>
           ls == IF r.key = NoKey THEN {}
                 ELSE IF k \in DOMAIN idem THEN {RecordLock(r.agent, r.key)}
                 ELSE {}
           u == [t EXCEPT !.pc = "predecessor", !.locks = @ \cup ls]
<1>1. t.pc = "idem" /\ t \in Tx /\ t \in PubTx
  BY TxKinds DEF CheckIdem, TxsOK
<1>2. PubInv(t) /\ FeedLock \notin t.locks
  BY <1>1, PubWorking
<1>3. NoWrite
  BY DEF CheckIdem
<1>4. CASE r.key # NoKey /\ IdemLive(r.agent, r.key, t.now)
  <2>1. KeyAnswer(w, r)
    BY <1>4 DEF CheckIdem
  <2> QED BY <1>1, <1>3, <2>1, PubEnds DEF KeyAnswer
<1>5. CASE ~ (r.key # NoKey /\ IdemLive(r.agent, r.key, t.now))
  <2>1. /\ tx' = [tx EXCEPT ![w] = u]
        /\ r.key # NoKey => Free(w, RecordLock(r.agent, r.key))
    BY <1>5 DEF CheckIdem, Goto
  <2>2. r \in Request /\ r.agent \in Agent /\ r.key \in Key \cup {NoKey}
        /\ t.now \in Nat /\ t.locks \subseteq LockName
    BY <1>1 DEF PubTx, Request
  <2>3. ls \in SUBSET LockName
    BY <2>2, LockTypes
  <2>4. \A l \in ls : Free(w, l)
    BY <2>1
  <2>5. ls = {} \/ (ls = {RecordLock(r.agent, r.key)} /\ k \in DOMAIN idem)
    OBVIOUS
  <2>6. r.key # NoKey /\ k \in DOMAIN idem => RecordLock(r.agent, r.key) \in ls
    OBVIOUS
  <2>7. r.key # NoKey /\ k \in DOMAIN idem => idem[k].expires <= t.now
    <3> SUFFICES ASSUME r.key # NoKey, k \in DOMAIN idem
                 PROVE  idem[k].expires <= t.now
      OBVIOUS
    <3>1. idem[k].expires \in Nat
      BY DEF TypeOK, IdemRow
    <3> QED BY <1>5, <2>2, <3>1 DEF IdemLive
  <2> HIDE DEF ls
  <2>8. /\ u \in PubTx /\ u.pc = "predecessor" /\ u.locks = t.locks \cup ls
        /\ u.req = t.req /\ u.ctx = t.ctx /\ u.mints = t.mints
        /\ u.now = t.now /\ u.began = t.began
    <3>1. u = [t EXCEPT !.pc = "predecessor", !.locks = @ \cup ls]
      OBVIOUS
    <3> HIDE DEF u, t
    <3> QED BY <1>1, <2>3, <3>1 DEF PubTx
  <2> HIDE DEF u
  <2>9. PubInv(u)
    <3>1. Timely(u) /\ NowRead(u) /\ u.ctx \notin Stored
      BY <1>2, <2>8 DEF PubInv, Timely, NowRead
    <3>2. FeedLock \notin u.locks
      BY <1>2, <2>5, <2>8, LockNames
    <3>3. Drew(u)
      BY <2>8, <3>2 DEF Drew
    <3>4. KeyKnown(u)
      <4>1. RecordLock(r.agent, r.key) \in t.locks /\ r.key # NoKey =>
               k \in DOMAIN idem
        BY <1>2 DEF PubInv, KeyKnown, KeyOf
      <4> QED BY <2>6, <2>7, <2>8, <4>1, <2>5 DEF KeyKnown, KeyOf
    <3>5. LinkKnown(u) /\ LeafKnown(u)
      BY <1>2, <2>8 DEF PubInv, LinkKnown, LeafKnown
    <3> QED BY <3>1, <3>3, <3>4, <3>5 DEF PubInv
  <2>10. \A l \in u.locks : l \in t.locks \/ Free(w, l)
    BY <2>4, <2>8
  <2> QED BY <1>1, <1>2, <1>3, <2>1, <2>8, <2>9, <2>10, PubMoved DEF NoWrite
<1> QED BY <1>4, <1>5

\* Step 2, the predecessor.
LEMMA LockPredecessorStep ==
    ASSUME IInv, TxsOK, NEW w \in Worker, LockPredecessor(w)
    PROVE  TxsOK'
PROOF
<1> DEFINE t == tx[w]
           r == t.req
           p == r.content.supersedes
           ls == IF p = NoCtx THEN {} ELSE {RowLock(p)}
<1>0. TypeOK /\ LineageIsChain
  BY DEF IInv
<1>1. t.pc = "predecessor" /\ t \in Tx /\ t \in PubTx
  BY TxKinds DEF LockPredecessor, TxsOK
<1>2. PubInv(t) /\ FeedLock \notin t.locks
  BY <1>0, <1>1, PubWorking
<1>3. NoWrite
  BY DEF LockPredecessor
<1>4. /\ r \in Request /\ p \in Ctx \cup {NoCtx} /\ t.locks \in SUBSET LockName
      /\ t.ctx \in Ctx
  BY <1>1, ContentAssumption DEF PubTx, Request, ContentType
<1>5. ls \in SUBSET LockName
  BY <1>4, LockTypes
<1>6. ls = {} \/ ls = {RowLock(p)}
  OBVIOUS
<1>7. ASSUME NEW u \in PubTx, tx' = [tx EXCEPT ![w] = u],
             u.locks = t.locks \cup ls, u.req = t.req, u.ctx = t.ctx,
             u.mints = t.mints, u.now = t.now, u.began = t.began,
             u.pc \in {"log", "recheck"}, LinkKnown(u),
             \A l \in ls : Free(w, l)
      PROVE  TxsOK'
  <2>1. Timely(u) /\ NowRead(u) /\ u.ctx \notin Stored
    BY <1>2, <1>7 DEF PubInv, Timely, NowRead
  <2>2. /\ FeedLock \notin u.locks
        /\ RecordLock(r.agent, r.key) \in u.locks <=>
              RecordLock(r.agent, r.key) \in t.locks
    BY <1>2, <1>6, <1>7, LockNames
  <2>3. Drew(u)
    BY <1>7, <2>2 DEF Drew
  <2>4. KeyKnown(u)
    BY <1>1, <1>2, <1>7, <2>2 DEF PubInv, KeyKnown, KeyOf
  <2>5. LeafKnown(u)
    BY <1>2, <1>7 DEF PubInv, LeafKnown
  <2>6. PubInv(u)
    BY <1>7, <2>1, <2>3, <2>4, <2>5 DEF PubInv
  <2>7. \A l \in u.locks : l \in t.locks \/ Free(w, l)
    BY <1>7
  <2> QED BY <1>0, <1>1, <1>2, <1>3, <1>7, <2>6, <2>7, PubMoved DEF NoWrite
<1>8. CASE p = NoCtx
  <2> DEFINE u == [[t EXCEPT !.lineage = t.ctx] EXCEPT
                     !.pc = "log", !.locks = @ \cup {}]
  <2>1. tx' = [tx EXCEPT ![w] = u]
    BY <1>8 DEF LockPredecessor, Goto
  <2>2. /\ u \in PubTx /\ u.pc = "log" /\ u.locks = t.locks \cup {}
        /\ u.req = t.req /\ u.ctx = t.ctx /\ u.mints = t.mints
        /\ u.now = t.now /\ u.began = t.began /\ u.lineage = t.ctx
    <3> HIDE DEF t
    <3> QED BY <1>1, <1>4 DEF PubTx
  <2> HIDE DEF u
  <2>3. LinkKnown(u)
    BY <1>8, <2>2 DEF LinkKnown, SupersessionOutcome
  <2> QED BY <1>7, <1>8, <2>1, <2>2, <2>3
<1>9. CASE p # NoCtx /\ SupersessionOutcome(r) = "ok"
  <2> DEFINE u == [[t EXCEPT !.lineage = FirstVersion(contexts[p].lineage)] EXCEPT
                     !.pc = "log", !.locks = @ \cup {RowLock(p)}]
  <2>1. tx' = [tx EXCEPT ![w] = u] /\ Free(w, RowLock(p))
    BY <1>9 DEF LockPredecessor, Goto
  <2>2. /\ p \in Stored /\ FirstVersion(contexts[p].lineage) = contexts[p].lineage
        /\ contexts[p].lineage \in Ctx
    <3>1. p \in Stored
      BY <1>9 DEF SupersessionOutcome
    <3>2. contexts[p].lineage \in Ctx
      BY <1>0, <3>1 DEF TypeOK, ContextRow, Lineage
    <3> QED BY <1>0, <3>1, <3>2, FirstVersionIsRoot
  <2>3. /\ u \in PubTx /\ u.pc = "log" /\ u.locks = t.locks \cup {RowLock(p)}
        /\ u.req = t.req /\ u.ctx = t.ctx /\ u.mints = t.mints
        /\ u.now = t.now /\ u.began = t.began
        /\ u.lineage = contexts[p].lineage
    <3>1. {RowLock(p)} \in SUBSET LockName
      BY <1>5, <1>9
    <3> HIDE DEF t, p
    <3> QED BY <1>1, <1>4, <2>2, <3>1 DEF PubTx
  <2> HIDE DEF u
  <2>4. LinkKnown(u)
    BY <1>9, <2>3 DEF LinkKnown
  <2> QED BY <1>7, <1>9, <2>1, <2>3, <2>4
<1>10. CASE /\ p # NoCtx /\ SupersessionOutcome(r) = "already_superseded"
            /\ r.key # NoKey
  <2> DEFINE u == [t EXCEPT !.pc = "recheck", !.locks = @ \cup {RowLock(p)}]
  <2>1. tx' = [tx EXCEPT ![w] = u] /\ Free(w, RowLock(p))
    BY <1>10 DEF LockPredecessor, Goto
  <2>2. /\ u \in PubTx /\ u.pc = "recheck" /\ u.locks = t.locks \cup {RowLock(p)}
        /\ u.req = t.req /\ u.ctx = t.ctx /\ u.mints = t.mints
        /\ u.now = t.now /\ u.began = t.began
    <3>1. {RowLock(p)} \in SUBSET LockName
      BY <1>5, <1>10
    <3> HIDE DEF t, p
    <3> QED BY <1>1, <1>4, <3>1 DEF PubTx
  <2>3. p \in Stored /\ contexts[p].status = "superseded"
    BY <1>10 DEF SupersessionOutcome
  <2> HIDE DEF u
  <2>4. LinkKnown(u)
    BY <1>10, <2>2, <2>3 DEF LinkKnown
  <2> QED BY <1>7, <1>10, <2>1, <2>2, <2>4
<1>11. CASE /\ p # NoCtx /\ SupersessionOutcome(r) # "ok"
            /\ ~ (SupersessionOutcome(r) = "already_superseded" /\ r.key # NoKey)
  <2>1. End(w, SupersessionOutcome(r), p)
    BY <1>11 DEF LockPredecessor
  <2> QED BY <1>0, <1>1, <1>3, <2>1, PubEnds
<1> QED BY <1>8, <1>9, <1>10, <1>11

\* committed_idempotent_response.
LEMMA RecheckStep ==
    ASSUME TypeOK, TxsOK, NEW w \in Worker, Recheck(w)
    PROVE  TxsOK'
PROOF
<1>1. tx[w].pc = "recheck" /\ tx[w] \in PubTx /\ NoWrite
  BY TxKinds DEF Recheck, TxsOK
<1>2. \E result, ctx : End(w, result, ctx)
  BY DEF Recheck, KeyAnswer
<1> QED BY <1>1, <1>2, PubEnds

\* Reading back the winner of the key.
LEMMA ReadBackStep ==
    ASSUME TypeOK, TxsOK, NEW w \in Worker, ReadBack(w)
    PROVE  TxsOK'
PROOF
<1>1. tx[w].pc = "readback" /\ tx[w] \in PubTx /\ NoWrite
  BY TxKinds DEF ReadBack, TxsOK
<1>2. \E result, ctx : End(w, result, ctx)
  BY DEF ReadBack, KeyAnswer
<1> QED BY <1>1, <1>2, PubEnds

\* Steps 5 and 5.5, the leaf.
LEMMA AppendLeafStep ==
    ASSUME TypeOK, TxsOK, NEW w \in Worker, AppendLeaf(w)
    PROVE  TxsOK'
PROOF
<1> DEFINE t == tx[w]
           r == t.req
<1>1. t.pc = "log" /\ t \in Tx /\ t \in PubTx
  BY TxKinds DEF AppendLeaf, TxsOK
<1>2. PubInv(t) /\ FeedLock \notin t.locks
  BY <1>1, PubWorking
<1>3. NoWrite
  BY DEF AppendLeaf
<1>4. t.locks \in SUBSET LockName /\ Len(leaves) \in Nat
  BY <1>1 DEF PubTx, TypeOK
<1>5. ASSUME NEW u \in PubTx, tx' = [tx EXCEPT ![w] = u],
             t.locks \subseteq u.locks, u.locks \subseteq t.locks \cup {LogLock},
             u.req = t.req, u.ctx = t.ctx,
             u.mints = t.mints, u.now = t.now, u.began = t.began,
             u.lineage = t.lineage, u.pc = "claim",
             LogEnabled => LogLock \in u.locks /\ u.index = Len(leaves),
             LogLock \in u.locks => LogLock \in t.locks \/ Free(w, LogLock)
      PROVE  TxsOK'
  <2>1. Timely(u) /\ NowRead(u) /\ u.ctx \notin Stored
    BY <1>2, <1>5 DEF PubInv, Timely, NowRead
  <2>2. /\ FeedLock \notin u.locks
        /\ RecordLock(r.agent, r.key) \in u.locks <=>
              RecordLock(r.agent, r.key) \in t.locks
    BY <1>2, <1>5, LockNames
  <2>3. Drew(u)
    BY <1>5, <2>2 DEF Drew
  <2>4. KeyKnown(u)
    BY <1>1, <1>2, <1>5, <2>2 DEF PubInv, KeyKnown, KeyOf
  <2>5. LeafKnown(u)
    BY <1>2, <1>5 DEF PubInv, LeafKnown
  <2>6. LinkKnown(u)
    BY <1>1, <1>2, <1>5 DEF PubInv, LinkKnown
  <2>7. PubInv(u)
    BY <1>5, <2>1, <2>3, <2>4, <2>5, <2>6 DEF PubInv
  <2>8. \A l \in u.locks : l \in t.locks \/ Free(w, l)
    BY <1>5
  <2> QED BY <1>1, <1>2, <1>3, <1>5, <2>7, <2>8, PubMoved DEF NoWrite
<1>6. CASE ~ LogEnabled
  <2> DEFINE u == [t EXCEPT !.pc = "claim", !.locks = @ \cup {}]
  <2>1. tx' = [tx EXCEPT ![w] = u]
    BY <1>6 DEF AppendLeaf, Goto
  <2>2. /\ u \in PubTx /\ u.pc = "claim" /\ u.locks = t.locks \cup {}
        /\ u.req = t.req /\ u.ctx = t.ctx /\ u.mints = t.mints
        /\ u.now = t.now /\ u.began = t.began /\ u.lineage = t.lineage
    <3> HIDE DEF t
    <3> QED BY <1>1, <1>4 DEF PubTx
  <2>3. /\ t.locks \subseteq u.locks /\ u.locks \subseteq t.locks \cup {LogLock}
        /\ LogLock \in u.locks => LogLock \in t.locks
    BY <2>2
  <2> HIDE DEF u
  <2> QED BY <1>5, <1>6, <2>1, <2>2, <2>3
<1>7. CASE LogEnabled
  <2> DEFINE u == [[t EXCEPT !.index = Len(leaves)] EXCEPT
                     !.pc = "claim", !.locks = @ \cup {LogLock}]
  <2>1. t.mints
    BY <1>2, <1>7 DEF PubInv, LeafKnown
  <2>2. tx' = [tx EXCEPT ![w] = u] /\ Free(w, LogLock)
    BY <1>7, <2>1 DEF AppendLeaf, Goto
  <2>3. /\ u \in PubTx /\ u.pc = "claim" /\ u.locks = t.locks \cup {LogLock}
        /\ u.req = t.req /\ u.ctx = t.ctx /\ u.mints = t.mints
        /\ u.now = t.now /\ u.began = t.began /\ u.lineage = t.lineage
        /\ u.index = Len(leaves)
    <3>1. {LogLock} \in SUBSET LockName
      BY LockTypes
    <3> HIDE DEF t
    <3> QED BY <1>1, <1>4, <3>1 DEF PubTx
  <2> HIDE DEF u
  <2> QED BY <1>5, <1>7, <2>2, <2>3
<1> QED BY <1>6, <1>7

\* Steps 6 and 7, the key.
LEMMA ClaimKeyStep ==
    ASSUME TypeOK, TxsOK, NEW w \in Worker, ClaimKey(w)
    PROVE  TxsOK'
PROOF
<1> DEFINE t == tx[w]
           r == t.req
           k == <<r.agent, r.key>>
           own == RecordLock(r.agent, r.key) \in t.locks
<1>1. t.pc = "claim" /\ t \in Tx /\ t \in PubTx
  BY TxKinds DEF ClaimKey, TxsOK
<1>2. PubInv(t) /\ FeedLock \notin t.locks
  BY <1>1, PubWorking
<1>3. NoWrite
  BY DEF ClaimKey
<1>4. /\ t.locks \in SUBSET LockName
      /\ r.agent \in Agent /\ r.key \in Key \cup {NoKey}
  BY <1>1 DEF PubTx, Request
<1>5. CASE r.key # NoKey /\ k \in DOMAIN idem /\ ~ own
  <2> DEFINE u == [[t EXCEPT !.locks = {}] EXCEPT
                     !.pc = "readback", !.locks = @ \cup {}]
  <2>1. tx' = [tx EXCEPT ![w] = u]
    BY <1>5 DEF ClaimKey, Goto
  <2>2. /\ u \in PubTx /\ u.pc = "readback" /\ u.locks = {}
        /\ u.req = t.req /\ u.ctx = t.ctx /\ u.mints = t.mints
        /\ u.now = t.now /\ u.began = t.began
    <3> HIDE DEF t
    <3> QED BY <1>1, <1>4 DEF PubTx
  <2> HIDE DEF u
  <2>3. Timely(u) /\ NowRead(u) /\ u.ctx \notin Stored
    BY <1>2, <2>2 DEF PubInv, Timely, NowRead
  <2>4. Drew(u) /\ LinkKnown(u)
    BY <1>5, <2>2 DEF Drew, LinkKnown
  <2>5. KeyKnown(u)
    BY <1>1, <1>2, <1>5, <2>2 DEF PubInv, KeyKnown, KeyOf
  <2>6. LeafKnown(u)
    BY <1>2, <2>2 DEF PubInv, LeafKnown
  <2>7. PubInv(u)
    BY <2>3, <2>4, <2>5, <2>6 DEF PubInv
  <2> QED BY <1>1, <1>2, <1>3, <2>1, <2>2, <2>7, PubMoved DEF NoWrite
<1>6. CASE ~ (r.key # NoKey /\ k \in DOMAIN idem /\ ~ own)
  <2> DEFINE ls == IF r.key = NoKey THEN {} ELSE {ClaimLock(r.agent, r.key)}
             u == [t EXCEPT !.pc = "feed", !.locks = @ \cup ls]
  <2>1. /\ tx' = [tx EXCEPT ![w] = u]
        /\ \A l \in ls : Free(w, l)
    BY <1>6 DEF ClaimKey, Goto
  <2>2. ls \in SUBSET LockName
    BY <1>4, LockTypes
  <2>3. /\ ls = {} \/ ls = {ClaimLock(r.agent, r.key)}
        /\ r.key # NoKey => ClaimLock(r.agent, r.key) \in ls
    OBVIOUS
  <2> HIDE DEF ls
  <2>4. /\ u \in PubTx /\ u.pc = "feed" /\ u.locks = t.locks \cup ls
        /\ u.req = t.req /\ u.ctx = t.ctx /\ u.mints = t.mints
        /\ u.now = t.now /\ u.began = t.began /\ u.lineage = t.lineage
        /\ u.index = t.index
    <3> HIDE DEF t
    <3> QED BY <1>1, <1>4, <2>2 DEF PubTx
  <2> HIDE DEF u
  <2>5. Timely(u) /\ NowRead(u) /\ u.ctx \notin Stored
    BY <1>2, <2>4 DEF PubInv, Timely, NowRead
  <2>6. /\ FeedLock \notin u.locks
        /\ RecordLock(r.agent, r.key) \in u.locks <=> own
    BY <1>2, <2>3, <2>4, LockNames
  <2>7. Drew(u)
    BY <2>4, <2>6 DEF Drew
  <2>8. LinkKnown(u)
    BY <1>1, <1>2, <2>4 DEF PubInv, LinkKnown
  <2>9. LeafKnown(u)
    BY <1>1, <1>2, <2>4 DEF PubInv, LeafKnown
  <2>10. KeyKnown(u)
    BY <1>1, <1>2, <1>6, <2>3, <2>4, <2>6 DEF PubInv, KeyKnown, KeyOf
  <2>11. PubInv(u)
    BY <2>5, <2>7, <2>8, <2>9, <2>10 DEF PubInv
  <2>12. \A l \in u.locks : l \in t.locks \/ Free(w, l)
    BY <2>1, <2>4
  <2> QED BY <1>1, <1>2, <1>3, <2>1, <2>4, <2>11, <2>12, PubMoved DEF NoWrite
<1> QED BY <1>5, <1>6

(***************************************************************************)
(* insert_all: drawing the feed's positions.                               *)
(***************************************************************************)
\* What a transaction knows of the tables does not depend on the positions.
LEMMA QuietKnown ==
    ASSUME UNCHANGED vars, NEW t
    PROVE  /\ KeyKnown(t) => KeyKnown(t)'
           /\ LeafKnown(t) => LeafKnown(t)'
           /\ Timely(t) => Timely(t)'
           /\ NowRead(t) => NowRead(t)'
           /\ LinkKnown(t) => LinkKnown(t)'
           /\ LifecycleOutcome(t.ctx, t.req.id, t.req.type)' =
                 LifecycleOutcome(t.ctx, t.req.id, t.req.type)
           /\ Stored' = Stored
PROOF
<1>1. UNCHANGED <<contexts, idem, events, leaves, clock>>
  BY DEF vars
<1>2. /\ KeyKnown(t) => KeyKnown(t)'
      /\ LeafKnown(t) => LeafKnown(t)'
      /\ Timely(t) => Timely(t)'
      /\ NowRead(t) => NowRead(t)'
  BY <1>1 DEF KeyKnown, KeyOf, LeafKnown, Timely, NowRead
<1>3. SupersessionOutcome(t.req)' = SupersessionOutcome(t.req)
  BY <1>1 DEF SupersessionOutcome, SameTenant, IsOwner, Stored
<1>4. LinkKnown(t) => LinkKnown(t)'
  BY <1>1, <1>3 DEF LinkKnown, Stored
<1>5. LifecycleOutcome(t.ctx, t.req.id, t.req.type)' =
         LifecycleOutcome(t.ctx, t.req.id, t.req.type)
  BY <1>1 DEF LifecycleOutcome, RetractionState, Stored
<1>6. Stored' = Stored
  BY <1>1 DEF Stored
<1> QED BY <1>2, <1>4, <1>5, <1>6

\* How many rows a transaction appends.
LEMMA RowCountNat ==
    ASSUME NEW t \in PubTx \cup LifeTx
    PROVE  RowCount(t) \in Nat
PROOF
  BY DEF RowCount, PublishRowCount

\* Positions are drawn under the lock, after all that were drawn before, by a
\* transaction that knows all the rest already.
LEMMA Drawn ==
    ASSUME TypeOK, TxsOK, NEW w \in Worker, NEW u \in PubTx \cup LifeTx,
           tx' = [tx EXCEPT ![w] = u], UNCHANGED vars,
           RowCount(u) # 0, drawn' = drawn + RowCount(u),
           u.pc = "commit", u.base = drawn, u.at \in FeedReadings,
           u.locks = tx[w].locks \cup {FeedLock}, Free(w, FeedLock),
           FeedLock \notin tx[w].locks, u.ctx = tx[w].ctx,
           u \in PubTx => /\ tx[w] \in PubTx /\ u.ctx \notin Stored
                          /\ Timely(u) /\ NowRead(u)
                          /\ KeyKnown(u) /\ LinkKnown(u) /\ LeafKnown(u),
           u \in LifeTx => /\ u.ctx \in Stored /\ Timely(u) /\ NowRead(u)
                           /\ RowLock(u.ctx) \in u.locks
                           /\ LifecycleOutcome(u.ctx, u.req.id, u.req.type) = "ok"
    PROVE  TxsOK'
PROOF
<1>1. /\ lastSeq' = lastSeq /\ clock' = clock /\ lastSeq \in Nat /\ clock \in Nat
      /\ drawn \in Nat /\ lastSeq <= drawn /\ Gap \in Nat /\ FeedSkew \in Nat
      /\ RowCount(u) \in Nat /\ u.began \in Nat
  BY ParameterAssumption, RowCountNat
     DEF vars, TypeOK, TxsOK, Positions, PubTx, LifeTx
<1>2. drawn <= lastSeq + Gap
  <2>1. \A v \in Worker : FeedLock \notin tx[v].locks
    BY DEF Free
  <2> QED BY <2>1 DEF TxsOK, Positions
<1>3. RowCount(u)' = RowCount(u)
  BY DEF RowCount, PublishRowCount
<1>4. u.at >= u.began - FeedSkew /\ u.at <= clock + FeedSkew
  <2>1. Timely(u)
    OBVIOUS
  <2>2. u.at \in Nat /\ u.at >= clock - FeedSkew /\ u.at <= clock + FeedSkew
    BY <1>1 DEF FeedReadings
  <2> QED BY <1>1, <2>1, <2>2 DEF Timely
<1>5. Drew(u)'
  <2>1. /\ drawn' = u.base + RowCount(u)
        /\ u.base >= lastSeq /\ u.base <= lastSeq + Gap
    BY <1>1, <1>2
  <2> QED BY <1>1, <1>3, <1>4, <2>1 DEF Drew
<1>6. \A t \in {u} : TxInv(t)'
  <2> SUFFICES ASSUME NEW t, t = u PROVE TxInv(t)'
    OBVIOUS
  <2>1. t \notin FillTx /\ t \notin PruneTx
    BY DEF PubTx, LifeTx, FillTx, PruneTx
  <2>2. ASSUME t \in PubTx PROVE PubInv(t)'
    <3>1. /\ Timely(t)' /\ NowRead(t)' /\ KeyKnown(t)' /\ LinkKnown(t)'
          /\ LeafKnown(t)' /\ t.ctx \notin Stored'
      BY <2>2, QuietKnown
    <3> QED BY <1>5, <3>1 DEF PubInv
  <2>3. ASSUME t \in LifeTx PROVE LifeInv(t)'
    <3>1. /\ Timely(t)' /\ NowRead(t)' /\ t.ctx \in Stored'
          /\ LifecycleOutcome(t.ctx, t.req.id, t.req.type)' = "ok"
      BY <2>3, QuietKnown
    <3> QED BY <1>5, <2>3, <3>1 DEF LifeInv
  <2> QED BY <2>1, <2>2, <2>3 DEF TxInv
<1>7. \A v \in Worker \ {w} : \A t \in {tx[v]} : Undisturbed(t)
  <2> SUFFICES ASSUME NEW v \in Worker \ {w}, NEW t \in {tx[v]}
               PROVE  Undisturbed(t)
    OBVIOUS
  <2>1. TxInv(t) /\ FeedLock \notin t.locks
    BY DEF TxsOK, Known, Free
  <2> QED BY <2>1, QuietUndisturbed DEF TxInv, PubInv
<1>8. \A v \in Worker \ {w} : u.locks \cap tx[v].locks = {}
  <2> SUFFICES ASSUME NEW v \in Worker \ {w}, NEW l \in u.locks,
                      l \in tx[v].locks
               PROVE  FALSE
    OBVIOUS
  <2>1. l \notin tx[w].locks
    BY DEF TxsOK, Exclusive
  <2> QED BY <2>1 DEF Free
<1>9. \A v \in Worker \ {w} :
         u \in PubTx /\ tx[v] \in PubTx => tx[v].ctx # u.ctx
  BY DEF TxsOK, OwnIds
<1>10. Positions'
  <2>1. tx'[w] = u
    BY DEF TxsOK
  <2>2. FeedLock \in tx'[w].locks
    BY <2>1
  <2>3. drawn' \in Nat /\ lastSeq' <= drawn'
    BY <1>1
  <2> QED BY <2>2, <2>3 DEF Positions
<1>11. u \in Tx
  BY DEF Tx
<1>12. \A v \in Worker \ {w} :
          /\ u.locks \cap tx[v].locks = {}
          /\ u \in PubTx /\ tx[v] \in PubTx => tx[v].ctx # u.ctx
  BY <1>8, <1>9
<1> QED BY ONLY TypeOK, TxsOK, tx' = [tx EXCEPT ![w] = u], <1>6, <1>7, <1>10,
           <1>11, <1>12, Stepped

\* A lifecycle transaction goes on, with locks that were free.
LEMMA LifeMoved ==
    ASSUME TypeOK, TxsOK, NEW w \in Worker, tx[w].pc # "commit",
           NEW u \in LifeTx, tx' = [tx EXCEPT ![w] = u], UNCHANGED vars,
           drawn' = drawn, LifeInv(u),
           \A l \in u.locks : l \in tx[w].locks \/ Free(w, l),
           FeedLock \notin tx[w].locks
    PROVE  TxsOK'
PROOF
<1>1. u \in Tx /\ u \notin PubTx /\ u \notin FillTx /\ u \notin PruneTx
  BY DEF Tx, PubTx, LifeTx, FillTx, PruneTx
<1>2. TxInv(u)
  BY <1>1 DEF TxInv
<1>3. \A v \in Worker \ {w} : u.locks \cap tx[v].locks = {}
  <2> SUFFICES ASSUME NEW v \in Worker \ {w}, NEW l \in u.locks,
                      l \in tx[v].locks
               PROVE  FALSE
    OBVIOUS
  <2>1. l \notin tx[w].locks
    BY DEF TxsOK, Exclusive
  <2> QED BY <2>1 DEF Free
<1>4. \A v \in Worker \ {w} :
         /\ u.locks \cap tx[v].locks = {}
         /\ u \in PubTx /\ tx[v] \in PubTx => tx[v].ctx # u.ctx
  BY <1>1, <1>3
<1> QED BY <1>1, <1>2, <1>4, Moved

\* What a lifecycle transaction at work is.
LEMMA LifeWorking ==
    ASSUME TxsOK, NEW w \in Worker, tx[w] \in LifeTx
    PROVE  LifeInv(tx[w]) /\ (tx[w].pc # "commit" => FeedLock \notin tx[w].locks)
PROOF
  BY DEF TxsOK, Known, TxInv, LifeInv, Drew

\* insert_all in a publish.
LEMMA DrawPubStep ==
    ASSUME TypeOK, TxsOK, NEW w \in Worker, NEW at \in FeedReadings,
           DrawPositions(w, at), tx[w] \in PubTx
    PROVE  TxsOK'
PROOF
<1> DEFINE t == tx[w]
           r == t.req
           n == RowCount(t)
           ls == IF n = 0 THEN {} ELSE {FeedLock}
<1>1. t.pc = "feed" /\ PubInv(t) /\ FeedLock \notin t.locks /\ UNCHANGED vars
  BY PubWorking DEF DrawPositions
<1>2. t \in PubTx /\ t.locks \in SUBSET LockName
      /\ lastSeq \in Nat /\ drawn \in Nat /\ at \in Nat
      /\ n \in Nat
  BY RowCountNat DEF PubTx, TypeOK, TxsOK, Positions, FeedReadings
<1>3. ls \in SUBSET LockName /\ ls \subseteq {FeedLock}
  BY LockTypes
<1>4. ASSUME NEW u \in PubTx, u.pc = "commit", u.locks = t.locks \cup ls,
             u.op = t.op, u.req = t.req, u.ctx = t.ctx, u.mints = t.mints,
             u.now = t.now, u.began = t.began, u.lineage = t.lineage,
             u.index = t.index
      PROVE  /\ u.ctx \notin Stored /\ Timely(u) /\ NowRead(u)
             /\ KeyKnown(u) /\ LinkKnown(u) /\ LeafKnown(u)
             /\ RowCount(u) = n
  <2>1. Timely(u) /\ NowRead(u) /\ u.ctx \notin Stored
    BY <1>1, <1>4 DEF PubInv, Timely, NowRead
  <2>2. RecordLock(r.agent, r.key) \in u.locks <=>
           RecordLock(r.agent, r.key) \in t.locks
    BY <1>3, <1>4, LockNames
  <2>3. KeyKnown(u)
    BY <1>1, <1>4, <2>2 DEF PubInv, KeyKnown, KeyOf
  <2>4. LinkKnown(u) /\ LeafKnown(u)
    BY <1>1, <1>4 DEF PubInv, LinkKnown, LeafKnown
  <2>5. RowCount(u) = n
    BY <1>4 DEF RowCount
  <2> QED BY <2>1, <2>3, <2>4, <2>5
<1>5. CASE n = 0
  <2> DEFINE u == [[t EXCEPT !.base = lastSeq] EXCEPT
                     !.pc = "commit", !.locks = @ \cup {}]
  <2>1. tx' = [tx EXCEPT ![w] = u] /\ drawn' = drawn
    BY <1>5 DEF DrawPositions, Goto
  <2>2. /\ u \in PubTx /\ u.pc = "commit" /\ u.locks = t.locks
        /\ u.op = t.op /\ u.req = t.req /\ u.ctx = t.ctx /\ u.mints = t.mints
        /\ u.now = t.now /\ u.began = t.began /\ u.lineage = t.lineage
        /\ u.index = t.index
    <3> HIDE DEF t
    <3> QED BY <1>1, <1>2 DEF PubTx
  <2> HIDE DEF u
  <2>3. u.locks = t.locks \cup ls
    BY <1>5, <2>2
  <2>4. /\ u.ctx \notin Stored /\ Timely(u) /\ NowRead(u)
        /\ KeyKnown(u) /\ LinkKnown(u) /\ LeafKnown(u)
        /\ RowCount(u) = 0
    BY <1>4, <1>5, <2>2, <2>3
  <2>5. Drew(u)
    BY <1>1, <2>2, <2>4 DEF Drew
  <2>6. PubInv(u)
    BY <2>4, <2>5 DEF PubInv
  <2>7. \A l \in u.locks : l \in t.locks \/ Free(w, l)
    BY <2>2
  <2> QED BY <1>1, <2>1, <2>2, <2>6, <2>7, PubMoved
<1>6. CASE n # 0
  <2> DEFINE u == [[t EXCEPT !.base = drawn, !.at = at] EXCEPT
                     !.pc = "commit", !.locks = @ \cup {FeedLock}]
  <2>1. /\ tx' = [tx EXCEPT ![w] = u] /\ drawn' = drawn + n
        /\ Free(w, FeedLock)
    BY <1>6 DEF DrawPositions, Goto
  <2>2. /\ u \in PubTx /\ u.pc = "commit" /\ u.locks = t.locks \cup {FeedLock}
        /\ u.op = t.op /\ u.req = t.req /\ u.ctx = t.ctx /\ u.mints = t.mints
        /\ u.now = t.now /\ u.began = t.began /\ u.lineage = t.lineage
        /\ u.index = t.index /\ u.base = drawn /\ u.at = at
    <3>1. {FeedLock} \in SUBSET LockName
      BY LockTypes
    <3> HIDE DEF t
    <3> QED BY <1>1, <1>2, <3>1 DEF PubTx
  <2> HIDE DEF u
  <2>3. u.locks = t.locks \cup ls
    BY <1>6, <2>2
  <2>4. /\ u.ctx \notin Stored /\ Timely(u) /\ NowRead(u)
        /\ KeyKnown(u) /\ LinkKnown(u) /\ LeafKnown(u)
        /\ RowCount(u) = n
    BY <1>4, <2>2, <2>3
  <2>5. u \notin LifeTx
    BY <2>2 DEF PubTx, LifeTx
  <2> HIDE DEF n, ls
  <2> QED BY <1>1, <1>6, <2>1, <2>2, <2>4, <2>5, Drawn
<1> QED BY <1>5, <1>6

\* insert_all in a lifecycle event.
LEMMA DrawLifeStep ==
    ASSUME TypeOK, TxsOK, NEW w \in Worker, NEW at \in FeedReadings,
           DrawPositions(w, at), tx[w] \in LifeTx
    PROVE  TxsOK'
PROOF
<1> DEFINE t == tx[w]
           n == RowCount(t)
<1>1. t.pc = "feed" /\ LifeInv(t) /\ FeedLock \notin t.locks /\ UNCHANGED vars
  BY LifeWorking DEF DrawPositions
<1>2. t \in LifeTx /\ t.locks \in SUBSET LockName
      /\ lastSeq \in Nat /\ drawn \in Nat /\ at \in Nat
      /\ n \in Nat
  BY RowCountNat DEF LifeTx, TypeOK, TxsOK, Positions, FeedReadings
<1>3. ASSUME NEW u \in LifeTx, u.pc = "commit", t.locks \subseteq u.locks,
             u.op = t.op, u.req = t.req, u.ctx = t.ctx, u.mints = t.mints,
             u.now = t.now, u.began = t.began
      PROVE  /\ u.ctx \in Stored /\ Timely(u) /\ NowRead(u)
             /\ RowLock(u.ctx) \in u.locks
             /\ LifecycleOutcome(u.ctx, u.req.id, u.req.type) = "ok"
             /\ RowCount(u) = n
  <2>1. Timely(u) /\ NowRead(u) /\ u.ctx \in Stored
    BY <1>1, <1>3 DEF LifeInv, Timely, NowRead
  <2>2. RowLock(u.ctx) \in u.locks
    BY <1>1, <1>3 DEF LifeInv
  <2>3. LifecycleOutcome(u.ctx, u.req.id, u.req.type) = "ok"
    BY <1>1, <1>3 DEF LifeInv
  <2>4. RowCount(u) = n
    BY <1>3 DEF RowCount
  <2> QED BY <2>1, <2>2, <2>3, <2>4
<1>5. CASE n = 0
  <2> DEFINE u == [[t EXCEPT !.base = lastSeq] EXCEPT
                     !.pc = "commit", !.locks = @ \cup {}]
  <2>1. tx' = [tx EXCEPT ![w] = u] /\ drawn' = drawn
    BY <1>5 DEF DrawPositions, Goto
  <2>2. /\ u \in LifeTx /\ u.pc = "commit" /\ u.locks = t.locks
        /\ u.op = t.op /\ u.req = t.req /\ u.ctx = t.ctx /\ u.mints = t.mints
        /\ u.now = t.now /\ u.began = t.began
    <3> HIDE DEF t
    <3> QED BY <1>1, <1>2 DEF LifeTx
  <2> HIDE DEF u
  <2>4. /\ u.ctx \in Stored /\ Timely(u) /\ NowRead(u)
        /\ RowLock(u.ctx) \in u.locks
        /\ LifecycleOutcome(u.ctx, u.req.id, u.req.type) = "ok"
        /\ RowCount(u) = 0
    BY <1>3, <1>5, <2>2
  <2>5. Drew(u)
    BY <1>1, <2>2, <2>4 DEF Drew
  <2>6. LifeInv(u)
    BY <2>4, <2>5 DEF LifeInv
  <2>7. \A l \in u.locks : l \in t.locks \/ Free(w, l)
    BY <2>2
  <2> QED BY <1>1, <2>1, <2>2, <2>6, <2>7, LifeMoved
<1>6. CASE n # 0
  <2> DEFINE u == [[t EXCEPT !.base = drawn, !.at = at] EXCEPT
                     !.pc = "commit", !.locks = @ \cup {FeedLock}]
  <2>1. /\ tx' = [tx EXCEPT ![w] = u] /\ drawn' = drawn + n
        /\ Free(w, FeedLock)
    BY <1>6 DEF DrawPositions, Goto
  <2>2. /\ u \in LifeTx /\ u.pc = "commit" /\ u.locks = t.locks \cup {FeedLock}
        /\ u.op = t.op /\ u.req = t.req /\ u.ctx = t.ctx /\ u.mints = t.mints
        /\ u.now = t.now /\ u.began = t.began /\ u.base = drawn /\ u.at = at
    <3>1. {FeedLock} \in SUBSET LockName
      BY LockTypes
    <3> HIDE DEF t
    <3> QED BY <1>1, <1>2, <3>1 DEF LifeTx
  <2> HIDE DEF u
  <2>4. /\ u.ctx \in Stored /\ Timely(u) /\ NowRead(u)
        /\ RowLock(u.ctx) \in u.locks
        /\ LifecycleOutcome(u.ctx, u.req.id, u.req.type) = "ok"
        /\ RowCount(u) = n
    BY <1>3, <2>2
  <2>5. u \notin PubTx
    BY <2>2 DEF PubTx, LifeTx
  <2> HIDE DEF n
  <2> QED BY <1>1, <1>6, <2>1, <2>2, <2>4, <2>5, Drawn
<1> QED BY <1>5, <1>6

(***************************************************************************)
(* The statements of commit_lifecycle_event, backfill_ctx and prune.       *)
(***************************************************************************)
\* The connection goes on with a transaction that is not a publish, with
\* locks that were free.
LEMMA Went ==
    ASSUME TypeOK, TxsOK, NEW w \in Worker, FeedLock \notin tx[w].locks,
           NEW u, u \in LifeTx \/ u \in FillTx \/ u \in PruneTx,
           tx' = [tx EXCEPT ![w] = u], UNCHANGED vars, drawn' = drawn,
           u \in LifeTx => LifeInv(u), u \in FillTx => FillInv(u),
           u \in PruneTx => PruneInv(u),
           \A l \in u.locks : l \in tx[w].locks \/ Free(w, l)
    PROVE  TxsOK'
PROOF
<1>1. u \in Tx /\ u \notin PubTx
  BY DEF Tx, PubTx, LifeTx, FillTx, PruneTx
<1>2. TxInv(u)
  BY <1>1 DEF TxInv
<1>3. \A v \in Worker \ {w} : u.locks \cap tx[v].locks = {}
  <2> SUFFICES ASSUME NEW v \in Worker \ {w}, NEW l \in u.locks,
                      l \in tx[v].locks
               PROVE  FALSE
    OBVIOUS
  <2>1. l \notin tx[w].locks
    BY DEF TxsOK, Exclusive
  <2> QED BY <2>1 DEF Free
<1>4. \A v \in Worker \ {w} :
         /\ u.locks \cap tx[v].locks = {}
         /\ u \in PubTx /\ tx[v] \in PubTx => tx[v].ctx # u.ctx
  BY <1>1, <1>3
<1> QED BY <1>1, <1>2, <1>4, Moved

\* An idle connection holds no lock.
LEMMA IdleHoldsNothing ==
    ASSUME TxsOK, NEW w \in Worker, tx[w].pc = "idle"
    PROVE  FeedLock \notin tx[w].locks
PROOF
<1>1. tx[w] \in Tx
  BY DEF TxsOK
<1> QED BY <1>1, TxKinds, IdleTx

\* A new lifecycle transaction.
LEMMA BeginLifecycleStep ==
    ASSUME TypeOK, TxsOK, NEW w \in Worker, NEW c \in Stored, NEW id \in EventId,
           NEW type \in {"retracted", "republished"}, NEW mints \in Minting,
           BeginLifecycle(w, c, id, type, mints)
    PROVE  TxsOK'
PROOF
<1> DEFINE r == [id |-> id, type |-> type]
           u == [pc |-> "row", locks |-> {}, op |-> "lifecycle", req |-> r,
                 ctx |-> c, mints |-> mints, now |-> 0, began |-> clock,
                 base |-> 0, at |-> 0]
<1>1. c \in Ctx /\ clock \in Nat /\ MaxTx \in Nat /\ r \in LifeRequest
  BY PgAssumption DEF TypeOK, LifeRequest
<1>2. tx[w].pc = "idle" /\ tx' = [tx EXCEPT ![w] = u] /\ UNCHANGED vars
      /\ drawn' = drawn
  BY DEF BeginLifecycle, Begun, NoWrite
<1> HIDE DEF r
<1>3. /\ u \in LifeTx /\ u.pc = "row" /\ u.op = "lifecycle" /\ u.locks = {}
      /\ u.ctx = c /\ u.began = clock
  BY <1>1 DEF LifeTx
<1> HIDE DEF u
<1>4. LifeInv(u)
  <2>1. Timely(u) /\ Drew(u)
    BY <1>1, <1>3 DEF Timely, Drew
  <2> QED BY <1>3, <2>1 DEF LifeInv
<1>5. u \notin FillTx /\ u \notin PruneTx
  BY <1>3 DEF FillTx, PruneTx
<1> QED BY <1>2, <1>3, <1>4, <1>5, IdleHoldsNothing, Went

\* A new backfill transaction.
LEMMA BeginBackfillStep ==
    ASSUME TypeOK, TxsOK, NEW w \in Worker, NEW c \in Stored, TRUE \in Minting,
           BeginBackfill(w, c)
    PROVE  TxsOK'
PROOF
<1> DEFINE u == [pc |-> "row", locks |-> {}, op |-> "backfill", req |-> NoCtx,
                 ctx |-> c, mints |-> TRUE, now |-> 0, began |-> clock]
<1>1. c \in Ctx /\ clock \in Nat /\ MaxTx \in Nat
  BY PgAssumption DEF TypeOK
<1>2. tx[w].pc = "idle" /\ tx' = [tx EXCEPT ![w] = u] /\ UNCHANGED vars
      /\ drawn' = drawn
  BY DEF BeginBackfill, Begun, NoWrite
<1>3. /\ u \in FillTx /\ u.pc = "row" /\ u.op = "backfill" /\ u.locks = {}
      /\ u.ctx = c /\ u.began = clock
  BY <1>1 DEF FillTx
<1> HIDE DEF u
<1>4. FillInv(u)
  <2>1. Timely(u) /\ u.ctx \in Stored /\ FeedLock \notin u.locks
        /\ u.pc \notin {"plan", "commit"}
    BY <1>1, <1>3 DEF Timely
  <2>2. u.pc # "commit"
    BY <2>1
  <2> QED BY <2>1, <2>2, Zenon DEF FillInv
<1>5. u \notin LifeTx /\ u \notin PruneTx
  BY <1>3 DEF LifeTx, PruneTx
<1> QED BY <1>2, <1>3, <1>4, <1>5, IdleHoldsNothing, Went

\* A new prune transaction, with the pruner's reading of its clock.
LEMMA BeginPruneStep ==
    ASSUME TypeOK, TxsOK, NEW w \in Worker, NEW now \in Readings,
           BeginPrune(w, now)
    PROVE  TxsOK'
PROOF
<1> DEFINE u == [pc |-> "scan", locks |-> {}, op |-> "prune", req |-> NoCtx,
                 ctx |-> NoCtx, now |-> now, began |-> clock, last |-> 0]
<1>1. /\ clock \in Nat /\ MaxTx \in Nat /\ Skew \in Nat /\ now \in Nat
      /\ now >= clock - Skew /\ now <= clock + Skew
  BY ParameterAssumption, PgAssumption DEF TypeOK, Readings
<1>2. tx[w].pc = "idle" /\ tx' = [tx EXCEPT ![w] = u] /\ UNCHANGED vars
      /\ drawn' = drawn
  BY DEF BeginPrune, Begun, NoWrite
<1>3. /\ u \in PruneTx /\ u.pc = "scan" /\ u.op = "prune" /\ u.locks = {}
      /\ u.now = now /\ u.began = clock /\ FeedLock \notin u.locks
  BY <1>1 DEF PruneTx
<1> HIDE DEF u
<1>4. PruneInv(u)
  <2>1. Timely(u)
    BY <1>1, <1>3 DEF Timely
  <2> QED BY <1>1, <1>3, <2>1 DEF PruneInv
<1>5. u \notin LifeTx /\ u \notin FillTx
  BY <1>3 DEF LifeTx, FillTx
<1> QED BY <1>2, <1>3, <1>4, <1>5, IdleHoldsNothing, Went

\* A backfill transaction knows what FillInv says.
LEMMA FillWorking ==
    ASSUME TxsOK, NEW w \in Worker, tx[w] \in FillTx
    PROVE  FillInv(tx[w])
PROOF
  BY DEF TxsOK, Known, TxInv

\* A prune transaction knows what PruneInv says.
LEMMA PruneWorking ==
    ASSUME TxsOK, NEW w \in Worker, tx[w] \in PruneTx
    PROVE  PruneInv(tx[w])
PROOF
  BY DEF TxsOK, Known, TxInv

\* Only a transaction about to commit holds the feed's lock.
LEMMA LockLast ==
    ASSUME TxsOK, NEW w \in Worker, tx[w].pc # "commit"
    PROVE  FeedLock \notin tx[w].locks
PROOF
<1>1. tx[w] \in Tx
  BY DEF TxsOK
<1>2. CASE tx[w] = Idle
  BY <1>2, IdleTx
<1>3. CASE tx[w] \in PubTx
  BY <1>3, PubWorking
<1>4. CASE tx[w] \in LifeTx
  BY <1>4, LifeWorking
<1>5. CASE tx[w] \in FillTx
  BY <1>5, FillWorking DEF FillInv
<1>6. CASE tx[w] \in PruneTx
  BY <1>6, PruneWorking DEF PruneInv
<1> QED BY <1>1, <1>2, <1>3, <1>4, <1>5, <1>6 DEF Tx

\* A transaction ends before it drew positions.
LEMMA EndsEarly ==
    ASSUME TypeOK, TxsOK, NEW w \in Worker, tx[w].pc # "commit",
           NEW result, NEW ctx, End(w, result, ctx), NoWrite
    PROVE  TxsOK'
PROOF
  BY LockLast, Ended DEF End, NoWrite

\* The row of a lifecycle event's context is locked, and the clock read.
LEMMA LockForEventStep ==
    ASSUME TypeOK, TxsOK, NEW w \in Worker, NEW now \in Readings,
           LockContext(w, now), tx[w] \in LifeTx
    PROVE  TxsOK'
PROOF
<1> DEFINE t == tx[w]
           u == [[t EXCEPT !.now = now] EXCEPT
                   !.pc = "check", !.locks = @ \cup {RowLock(t.ctx)}]
<1>1. /\ t.pc = "row" /\ t.op = "lifecycle" /\ LifeInv(t)
      /\ t \in LifeTx /\ t.ctx \in Ctx /\ t.began \in Nat
      /\ FeedLock \notin t.locks /\ Free(w, RowLock(t.ctx))
  BY LifeWorking DEF LockContext, LifeTx
<1>2. tx' = [tx EXCEPT ![w] = u] /\ UNCHANGED vars /\ drawn' = drawn
  BY <1>1 DEF LockContext, Goto, NoWrite
<1>3. /\ now \in Nat /\ clock \in Nat /\ Skew \in Nat
      /\ now >= clock - Skew /\ now <= clock + Skew
      /\ {RowLock(t.ctx)} \in SUBSET LockName
  <2>1. {RowLock(t.ctx)} \in SUBSET LockName
    BY <1>1, LockTypes
  <2>2. clock \in Nat /\ Skew \in Nat
    BY ParameterAssumption DEF TypeOK
  <2>3. now \in Nat /\ now >= clock - Skew /\ now <= clock + Skew
    BY <2>2 DEF Readings
  <2> QED BY <2>1, <2>2, <2>3
<1>4. /\ u \in LifeTx /\ u.pc = "check" /\ u.locks = t.locks \cup {RowLock(t.ctx)}
      /\ u.ctx = t.ctx /\ u.now = now /\ u.began = t.began
  <2> HIDE DEF t
  <2> QED BY <1>1, <1>3 DEF LifeTx
<1> HIDE DEF u
<1>5. FeedLock \notin u.locks
  BY <1>1, <1>4, LockNames
<1>6. Timely(u) /\ NowRead(u) /\ u.ctx \in Stored
  BY <1>1, <1>3, <1>4 DEF LifeInv, Timely, NowRead
<1>7. LifeInv(u)
  <2>1. Drew(u)
    BY <1>4, <1>5 DEF Drew
  <2> QED BY <1>4, <1>6, <2>1 DEF LifeInv
<1>8. u \notin FillTx /\ u \notin PruneTx
  BY <1>4 DEF LifeTx, FillTx, PruneTx
<1>9. \A l \in u.locks : l \in tx[w].locks \/ Free(w, l)
  BY <1>1, <1>4
<1> QED BY <1>1, <1>2, <1>4, <1>7, <1>8, <1>9, Went

\* The row of a backfilled context is locked, and the clock read.
LEMMA LockForFillStep ==
    ASSUME TypeOK, TxsOK, NEW w \in Worker, NEW now \in Readings,
           LockContext(w, now), tx[w] \in FillTx
    PROVE  TxsOK'
PROOF
<1> DEFINE t == tx[w]
           u == [[t EXCEPT !.now = now] EXCEPT
                   !.pc = "plan", !.locks = @ \cup {RowLock(t.ctx)}]
<1>1. /\ t.pc = "row" /\ t.op = "backfill" /\ FillInv(t)
      /\ t \in FillTx /\ t.ctx \in Ctx /\ t.began \in Nat
      /\ Free(w, RowLock(t.ctx))
  BY FillWorking DEF LockContext, FillTx
<1>2. tx' = [tx EXCEPT ![w] = u] /\ UNCHANGED vars /\ drawn' = drawn
  BY <1>1 DEF LockContext, Goto, NoWrite
<1>3. /\ now \in Nat /\ clock \in Nat /\ Skew \in Nat
      /\ now >= clock - Skew /\ now <= clock + Skew
      /\ {RowLock(t.ctx)} \in SUBSET LockName
  <2>1. {RowLock(t.ctx)} \in SUBSET LockName
    BY <1>1, LockTypes
  <2>2. clock \in Nat /\ Skew \in Nat
    BY ParameterAssumption DEF TypeOK
  <2>3. now \in Nat /\ now >= clock - Skew /\ now <= clock + Skew
    BY <2>2 DEF Readings
  <2> QED BY <2>1, <2>2, <2>3
<1>4. /\ u \in FillTx /\ u.pc = "plan" /\ u.locks = t.locks \cup {RowLock(t.ctx)}
      /\ u.ctx = t.ctx /\ u.now = now /\ u.began = t.began
  <2> HIDE DEF t
  <2> QED BY <1>1, <1>3 DEF FillTx
<1> HIDE DEF u
<1>a. t.ctx \in Stored /\ Timely(t) /\ FeedLock \notin t.locks
  BY <1>1 DEF FillInv
<1>b. TRUE \in Minting
  BY <1>1, Zenon DEF FillInv
<1>5. FeedLock \notin u.locks
  BY <1>a, <1>4, LockNames
<1>6. Timely(u) /\ NowRead(u) /\ u.ctx \in Stored
  BY <1>1, <1>a, <1>3, <1>4 DEF Timely, NowRead
<1>7. FillInv(u)
  <2>1. RowLock(u.ctx) \in u.locks /\ u.pc # "commit"
    BY <1>4
  <2> QED BY <1>b, <1>5, <1>6, <2>1, Zenon DEF FillInv
<1>8. u \notin LifeTx /\ u \notin PruneTx
  BY <1>4 DEF LifeTx, FillTx, PruneTx
<1>9. \A l \in u.locks : l \in tx[w].locks \/ Free(w, l)
  BY <1>1, <1>4
<1> QED BY <1>a, <1>2, <1>4, <1>7, <1>8, <1>9, Went

\* An event that passes its checks goes on to the feed.
LEMMA CheckEventStep ==
    ASSUME TypeOK, TxsOK, NEW w \in Worker, CheckEvent(w)
    PROVE  TxsOK'
PROOF
<1> DEFINE t == tx[w]
           outcome == LifecycleOutcome(t.ctx, t.req.id, t.req.type)
<1>1. t.pc = "check" /\ t \in LifeTx /\ NoWrite
  <2>1. t \in Tx /\ t.pc = "check"
    BY DEF TxsOK, CheckEvent
  <2> QED BY <2>1, TxKinds DEF CheckEvent
<1>2. LifeInv(t) /\ FeedLock \notin t.locks
  BY <1>1, LifeWorking
<1>3. CASE outcome # "ok"
  BY <1>1, <1>3, EndsEarly DEF CheckEvent
<1>4. CASE outcome = "ok"
  <2> DEFINE u == [t EXCEPT !.pc = "feed", !.locks = @ \cup {}]
  <2>1. tx' = [tx EXCEPT ![w] = u] /\ UNCHANGED vars /\ drawn' = drawn
    BY <1>4 DEF CheckEvent, Goto, NoWrite
  <2>2. /\ u \in LifeTx /\ u.pc = "feed" /\ u.locks = t.locks
        /\ u.ctx = t.ctx /\ u.req = t.req /\ u.now = t.now /\ u.began = t.began
    <3> HIDE DEF t
    <3> QED BY <1>1 DEF LifeTx
  <2> HIDE DEF u
  <2>3. Timely(u) /\ NowRead(u) /\ u.ctx \in Stored /\ RowLock(u.ctx) \in u.locks
    BY <1>1, <1>2, <2>2 DEF LifeInv, Timely, NowRead
  <2>4. LifecycleOutcome(u.ctx, u.req.id, u.req.type) = "ok"
    BY <1>4, <2>2
  <2>5. Drew(u)
    BY <1>2, <2>2 DEF Drew
  <2>6. LifeInv(u)
    BY <2>2, <2>3, <2>4, <2>5 DEF LifeInv
  <2>7. u \notin FillTx /\ u \notin PruneTx
    BY <2>2 DEF LifeTx, FillTx, PruneTx
  <2>8. \A l \in u.locks : l \in tx[w].locks \/ Free(w, l)
    BY <2>2
  <2> QED BY <1>2, <2>1, <2>2, <2>6, <2>7, <2>8, Went
<1> QED BY <1>3, <1>4

\* plan_backfill.
LEMMA PlanBackfillStep ==
    ASSUME TypeOK, TxsOK, NEW w \in Worker, PlanBackfill(w)
    PROVE  TxsOK'
PROOF
<1> DEFINE t == tx[w]
           s == events[t.ctx]
           nothing == HasHole(s) \/ \A i \in DOMAIN s : s[i].receipt # NoReceipt
<1>1. t.pc = "plan" /\ t \in FillTx /\ NoWrite
  <2>1. t \in Tx /\ t.pc = "plan"
    BY DEF TxsOK, PlanBackfill
  <2> QED BY <2>1, TxKinds DEF PlanBackfill
<1>2. FillInv(t)
  BY <1>1, FillWorking
<1>3. CASE nothing
  BY <1>1, <1>3, EndsEarly DEF PlanBackfill
<1>4. CASE ~ nothing
  <2> DEFINE u == [t EXCEPT !.pc = "commit", !.locks = @ \cup {}]
  <2>1. tx' = [tx EXCEPT ![w] = u] /\ UNCHANGED vars /\ drawn' = drawn
    BY <1>4 DEF PlanBackfill, Goto, NoWrite
  <2>2. /\ u \in FillTx /\ u.pc = "commit" /\ u.locks = t.locks
        /\ u.ctx = t.ctx /\ u.now = t.now /\ u.began = t.began
    <3> HIDE DEF t
    <3> QED BY <1>1 DEF FillTx
  <2> HIDE DEF u
  <2>3. /\ t.ctx \in Stored /\ Timely(t) /\ FeedLock \notin t.locks
        /\ RowLock(t.ctx) \in t.locks /\ NowRead(t)
    BY <1>1, <1>2 DEF FillInv
  <2>4. Timely(u) /\ NowRead(u) /\ u.ctx \in Stored /\ RowLock(u.ctx) \in u.locks
        /\ FeedLock \notin u.locks
    BY <2>3, <2>2 DEF Timely, NowRead
  <2>5. Fillable(u.ctx)
    BY <1>4, <2>2 DEF Fillable
  <2>6. FillInv(u)
    <3>1. TRUE \in Minting
      BY <1>2, Zenon DEF FillInv
    <3> QED BY <3>1, <2>4, <2>5, Zenon DEF FillInv
  <2>7. u \notin LifeTx /\ u \notin PruneTx
    BY <2>2 DEF LifeTx, FillTx, PruneTx
  <2>8. \A l \in u.locks : l \in tx[w].locks \/ Free(w, l)
    BY <2>2
  <2> QED BY <2>3, <2>1, <2>2, <2>6, <2>7, <2>8, Went
<1> QED BY <1>3, <1>4

\* The pruner finds the rows that are old enough, under the meta row's lock.
LEMMA ScanFeedStep ==
    ASSUME TypeOK, TxsOK, NEW w \in Worker, ScanFeed(w)
    PROVE  TxsOK'
PROOF
<1> DEFINE t == tx[w]
           old == Prunable(t.now)
<1>1. t.pc = "scan" /\ t \in PruneTx /\ NoWrite /\ Free(w, MetaLock)
  <2>1. t \in Tx /\ t.pc = "scan"
    BY DEF TxsOK, ScanFeed
  <2> QED BY <2>1, TxKinds DEF ScanFeed
<1>2. PruneInv(t)
  BY <1>1, PruneWorking
<1>3. CASE End(w, "pruned", NoCtx)
  BY <1>1, <1>3, EndsEarly
<1>4. ASSUME NEW x \in old, \A y \in old : y.seq <= x.seq,
             Goto(w, [t EXCEPT !.last = x.seq], "delete", {MetaLock})
      PROVE  TxsOK'
  <2> DEFINE u == [[t EXCEPT !.last = x.seq] EXCEPT
                     !.pc = "delete", !.locks = @ \cup {MetaLock}]
  <2>1. tx' = [tx EXCEPT ![w] = u] /\ UNCHANGED vars /\ drawn' = drawn
    BY <1>1, <1>4 DEF Goto, NoWrite
  <2>2. x.seq \in Nat /\ {MetaLock} \in SUBSET LockName
    BY LockTypes DEF Prunable, TypeOK, FeedRow
  <2>3. /\ u \in PruneTx /\ u.pc = "delete" /\ u.locks = t.locks \cup {MetaLock}
        /\ u.now = t.now /\ u.began = t.began /\ u.last = x.seq
    <3> HIDE DEF t
    <3> QED BY <1>1, <2>2 DEF PruneTx
  <2> HIDE DEF u
  <2>4. FeedLock \notin u.locks
    BY <1>2, <2>3, LockNames DEF PruneInv
  <2>5. LastPrunable(u.now, u.last)
    BY <1>4, <2>3 DEF LastPrunable
  <2>6. PruneInv(u)
    BY <1>2, <2>3, <2>4, <2>5 DEF PruneInv, Timely
  <2>7. u \notin LifeTx /\ u \notin FillTx
    BY <2>3 DEF LifeTx, FillTx, PruneTx
  <2>8. \A l \in u.locks : l \in tx[w].locks \/ Free(w, l)
    BY <1>1, <2>3
  <2>9. FeedLock \notin tx[w].locks
    BY <1>2 DEF PruneInv
  <2> QED BY <2>1, <2>3, <2>6, <2>7, <2>8, <2>9, Went
<1> QED BY <1>3, <1>4 DEF ScanFeed

\* A transaction is rolled back: the positions it drew are lost.
LEMMA AbortStep ==
    ASSUME TypeOK, TxsOK, NEW w \in Worker, Abort(w)
    PROVE  TxsOK'
PROOF
<1>1. /\ tx' = [tx EXCEPT ![w] = Idle] /\ UNCHANGED vars /\ drawn' = drawn
      /\ FeedLock \in tx[w].locks => drawn - lastSeq <= Gap
  BY DEF Abort, End, NoWrite
<1>2. drawn \in Nat /\ lastSeq \in Nat /\ Gap \in Nat
  BY ParameterAssumption DEF TypeOK, TxsOK, Positions
<1>3. FeedLock \in tx[w].locks => drawn <= lastSeq + Gap
  BY <1>1, <1>2
<1> QED BY <1>1, <1>3, Ended

(***************************************************************************)
(* The commits.  At its commit a transaction knows all that the action of  *)
(* RegistryStore checks, so the commit is that action.                     *)
(***************************************************************************)
\* The store's guard holds when a publish commits.
LEMMA PublishMayCommit ==
    ASSUME IInv, NEW t \in PubTx, PubInv(t), t.pc = "commit"
    PROVE  /\ PublishOutcome(t.req, t.now) = "ok"
           /\ LogEnabled => t.mints /\ t.index = Len(leaves)
           /\ t.lineage = AssignedLineage(t.ctx, t.req)
PROOF
<1> DEFINE r == t.req
           p == r.content.supersedes
<1>1. KeyKnown(t) /\ LinkKnown(t) /\ LeafKnown(t)
  BY DEF PubInv
<1>2. r.key # NoKey => ~ IdemLive(r.agent, r.key, t.now)
  <2> SUFFICES ASSUME r.key # NoKey, <<r.agent, r.key>> \in DOMAIN idem
               PROVE  ~ (idem[<<r.agent, r.key>>].expires > t.now)
    BY DEF IdemLive
  <2>1. idem[<<r.agent, r.key>>].expires <= t.now
    BY <1>1 DEF KeyKnown, KeyOf
  <2>2. idem[<<r.agent, r.key>>].expires \in Nat /\ t.now \in Nat
    BY DEF IInv, TypeOK, IdemRow, PubTx
  <2> QED BY <2>1, <2>2
<1>3. PublishOutcome(r, t.now) = "ok"
  BY <1>1, <1>2 DEF PublishOutcome, LinkKnown
<1>4. t.lineage = AssignedLineage(t.ctx, r)
  <2>1. CASE p = NoCtx
    BY <1>1, <2>1 DEF LinkKnown, AssignedLineage
  <2>2. CASE p # NoCtx
    <3>1. SupersessionOutcome(r) = "ok" /\ t.lineage = contexts[p].lineage
      BY <1>1, <2>2 DEF LinkKnown
    <3>2. p \in Stored
      BY <2>2, <3>1 DEF SupersessionOutcome
    <3>3. FirstVersion(contexts[p].lineage) = contexts[p].lineage
      BY <3>2, FirstVersionIsRoot DEF IInv
    <3> QED BY <2>2, <3>1, <3>3 DEF AssignedLineage
  <2> QED BY <2>1, <2>2
<1> QED BY <1>1, <1>3, <1>4 DEF LeafKnown

\* Where the rows of a commit go, and when: after the positions that were
\* lost, at a time read while the transaction was open.
PlaceOf(t, b, a) ==
    /\ b \in Nat /\ b \in Bases /\ b >= lastSeq
    /\ a \in Nat /\ a >= clock - FeedSkew - MaxTx /\ a <= clock + FeedSkew
    /\ RowCount(t) # 0 => b = t.base /\ a = t.at

\* There is such a place.
LEMMA PlaceExists ==
    ASSUME TypeOK, NEW t \in PubTx \cup LifeTx, Drew(t), Timely(t), t.pc = "commit"
    PROVE  \E b, a : PlaceOf(t, b, a)
PROOF
<1>1. /\ t.base \in Nat /\ t.at \in Nat /\ t.began \in Nat
      /\ clock \in Nat /\ lastSeq \in Nat
      /\ FeedSkew \in Nat /\ MaxTx \in Nat /\ Gap \in Nat
  BY ParameterAssumption, PgAssumption DEF PubTx, LifeTx, TypeOK
<1>2. CASE RowCount(t) = 0
  <2>1. PlaceOf(t, lastSeq, clock)
    BY <1>1, <1>2 DEF PlaceOf, Bases
  <2> QED BY <2>1
<1>3. CASE RowCount(t) # 0
  <2>1. /\ t.base >= lastSeq /\ t.base <= lastSeq + Gap
        /\ t.at >= t.began - FeedSkew /\ t.at <= clock + FeedSkew
        /\ clock <= t.began + MaxTx
    BY <1>3 DEF Drew, Timely
  <2>2. t.at >= clock - FeedSkew - MaxTx
    BY <1>1, <2>1
  <2>3. PlaceOf(t, t.base, t.at)
    BY <1>1, <2>1, <2>2 DEF PlaceOf, Bases
  <2> QED BY <2>3
<1> QED BY <1>2, <1>3

\* The feed rows of a publish, wherever a publish without any puts them.
LEMMA SameRows ==
    ASSUME NEW t \in PubTx, NEW b, NEW a, PlaceOf(t, b, a),
           AppendRows(IF t.mints THEN PublishRows(t.ctx, t.req, t.base, t.at) ELSE {},
                      RowCount(t), t.base)
    PROVE  /\ IF t.mints
              THEN AppendRows(PublishRows(t.ctx, t.req, b, a),
                              PublishRowCount(t.req), b)
              ELSE AppendRows({}, 0, b)
           /\ lastSeq' = IF RowCount(t) = 0 THEN lastSeq ELSE t.base + RowCount(t)
PROOF
<1>1. t.mints \in BOOLEAN /\ t.op = "publish"
  BY ParameterAssumption DEF PubTx
<1>2. lastSeq' = IF RowCount(t) = 0 THEN lastSeq ELSE t.base + RowCount(t)
  BY DEF AppendRows
<1>3. CASE ~ t.mints
  BY <1>1, <1>2, <1>3 DEF AppendRows, RowCount
<1>4. CASE t.mints /\ RowCount(t) # 0
  BY <1>1, <1>2, <1>4 DEF AppendRows, RowCount, PlaceOf
<1>5. CASE t.mints /\ RowCount(t) = 0
  <2>1. PublishRowCount(t.req) = 0
    BY <1>1, <1>5 DEF RowCount
  <2>2. t.req.content.supersedes = NoCtx /\ ~ t.req.content.revokes
    BY <2>1 DEF PublishRowCount
  <2>3. \A x, y : PublishRows(t.ctx, t.req, x, y) = {}
    BY <2>2 DEF PublishRows, SupersededRows, RevocationRows
  <2> QED BY <1>2, <1>5, <2>1, <2>3 DEF AppendRows
<1> QED BY <1>1, <1>3, <1>4, <1>5

\* The lineage read under the predecessor's lock is the one the row gets.
LEMMA SameNewRow ==
    ASSUME NEW c, NEW r, NEW minted, NEW now, NEW l, l = AssignedLineage(c, r)
    PROVE  [NewRow(c, r, minted, now) EXCEPT !.lineage = l]
              = NewRow(c, r, minted, now)
PROOF
<1> DEFINE t == IF r.tenant = NoTenant THEN DefaultTenant ELSE r.tenant
           no == FALSE
           row == [content |-> r.content, lineage |-> l, agent |-> r.agent,
                   tenant |-> t, status |-> "active", retracted |-> no,
                   receipt |-> minted, created |-> now, key |-> r.key,
                   committed |-> clock]
<1>1. NewRow(c, r, minted, now) = row
  BY DEF NewRow
<1> HIDE DEF t, no
<1>2. [row EXCEPT !.lineage = l] = row
  OBVIOUS
<1> HIDE DEF row
<1> QED BY <1>1, <1>2

\* The commit of a publish is the store's Publish.
LEMMA CommitIsPublish ==
    ASSUME IInv, TxsOK, NEW w \in Worker, CommitPublish(w)
    PROVE  /\ tx[w] \in PubTx /\ PubInv(tx[w]) /\ tx[w].pc = "commit"
           /\ End(w, "inserted", tx[w].ctx) /\ drawn' = drawn
           /\ \E b, a : /\ PlaceOf(tx[w], b, a)
                        /\ Publish(tx[w].ctx, tx[w].req, tx[w].mints,
                                   tx[w].now, b, a)
           /\ lastSeq' = IF RowCount(tx[w]) = 0 THEN lastSeq
                         ELSE tx[w].base + RowCount(tx[w])
PROOF
<1> DEFINE t == tx[w]
           r == t.req
<1>1. t \in PubTx /\ t.pc = "commit"
  <2>1. t \in Tx /\ t.pc = "commit" /\ t.op = "publish"
    BY DEF TxsOK, CommitPublish
  <2> QED BY <2>1, TxKinds
<1>2. PubInv(t)
  BY <1>1, PubWorking
<1>3. /\ PublishOutcome(r, t.now) = "ok"
      /\ LogEnabled => t.mints /\ t.index = Len(leaves)
      /\ t.lineage = AssignedLineage(t.ctx, r)
  BY <1>1, <1>2, PublishMayCommit
<1>4. /\ contexts' = [WithPublished(t.ctx, r, t.mints, t.now)
                        EXCEPT ![t.ctx].lineage = t.lineage]
      /\ leaves' = WithLeaf(t.ctx)
      /\ idem' = IF r.key = NoKey THEN idem ELSE WithIdem(t.ctx, r, t.now)
      /\ AppendRows(IF t.mints THEN PublishRows(t.ctx, r, t.base, t.at) ELSE {},
                    RowCount(t), t.base)
      /\ End(w, "inserted", t.ctx)
      /\ UNCHANGED <<events, prunedThrough, clock>> /\ drawn' = drawn
  BY <1>3 DEF CommitPublish
<1>5. contexts' = WithPublished(t.ctx, r, t.mints, t.now)
  <2> DEFINE old == WithPublished(t.ctx, r, t.mints, t.now)
  <2>1. DOMAIN old = Stored \cup {t.ctx} /\ old[t.ctx] = NewRow(t.ctx, r, t.mints, t.now)
    BY DEF WithPublished
  <2>2. old = [d \in DOMAIN old |-> old[d]]
    BY DEF WithPublished
  <2>3. [NewRow(t.ctx, r, t.mints, t.now) EXCEPT !.lineage = t.lineage]
           = NewRow(t.ctx, r, t.mints, t.now)
    BY <1>3, SameNewRow
  <2> HIDE DEF old
  <2>4. [old EXCEPT ![t.ctx].lineage = t.lineage] =
           [d \in DOMAIN old |-> IF d = t.ctx
               THEN [old[t.ctx] EXCEPT !.lineage = t.lineage] ELSE old[d]]
    OBVIOUS
  <2>5. \A d \in DOMAIN old :
           (IF d = t.ctx THEN [old[t.ctx] EXCEPT !.lineage = t.lineage]
            ELSE old[d]) = old[d]
    BY <2>1, <2>3
  <2>6. [old EXCEPT ![t.ctx].lineage = t.lineage] = old
    BY <2>2, <2>4, <2>5
  <2> QED BY <1>4, <2>6 DEF old
<1>6. PICK b, a : PlaceOf(t, b, a)
  BY <1>1, <1>2, PlaceExists DEF IInv, PubInv
<1>7. /\ IF t.mints THEN AppendRows(PublishRows(t.ctx, r, b, a),
                                   PublishRowCount(r), b)
         ELSE AppendRows({}, 0, b)
      /\ lastSeq' = IF RowCount(t) = 0 THEN lastSeq ELSE t.base + RowCount(t)
  BY <1>1, <1>4, <1>6, SameRows
<1>8. Publish(t.ctx, r, t.mints, t.now, b, a)
  BY <1>3, <1>4, <1>5, <1>7 DEF Publish
<1> QED BY <1>1, <1>2, <1>4, <1>6, <1>7, <1>8

\* The positions of a commit become the head of the feed.
LEMMA CommitPositions ==
    ASSUME TypeOK, TxsOK, NEW w \in Worker, tx[w] \in PubTx \cup LifeTx,
           Drew(tx[w]), tx[w].pc = "commit", tx' = [tx EXCEPT ![w] = Idle],
           drawn' = drawn,
           lastSeq' = IF RowCount(tx[w]) = 0 THEN lastSeq
                      ELSE tx[w].base + RowCount(tx[w])
    PROVE  Positions'
PROOF
<1>1. /\ drawn \in Nat /\ lastSeq \in Nat /\ lastSeq <= drawn
      /\ (\A v \in Worker : FeedLock \notin tx[v].locks) => drawn <= lastSeq + Gap
      /\ Gap \in Nat
  BY ParameterAssumption DEF TypeOK, TxsOK, Positions
<1>2. CASE RowCount(tx[w]) = 0
  <2>1. lastSeq' = lastSeq /\ FeedLock \notin tx[w].locks
    BY <1>2 DEF Drew
  <2>2. ASSUME \A v \in Worker : FeedLock \notin tx'[v].locks
        PROVE  \A v \in Worker : FeedLock \notin tx[v].locks
    BY <2>1, <2>2 DEF TxsOK
  <2> QED BY <1>1, <2>1, <2>2 DEF Positions
<1>3. CASE RowCount(tx[w]) # 0
  <2>1. lastSeq' = drawn
    BY <1>3 DEF Drew
  <2>2. drawn' \in Nat /\ lastSeq' <= drawn' /\ drawn' <= lastSeq' + Gap
    BY <1>1, <2>1
  <2> QED BY <2>2 DEF Positions
<1> QED BY <1>2, <1>3

\* The others, seen from a transaction at its commit.
LEMMA OthersApart ==
    ASSUME TxsOK, NEW w \in Worker, NEW v \in Worker \ {w}
    PROVE  /\ tx[v] \in Tx /\ TxInv(tx[v])
           /\ tx[v].locks \cap tx[w].locks = {}
           /\ tx[v] \in PubTx /\ tx[w] \in PubTx => tx[v].ctx # tx[w].ctx
PROOF
  BY DEF TxsOK, Known, Exclusive, OwnIds

\* A commit that leaves the others undisturbed.
LEMMA Committed ==
    ASSUME TypeOK, TxsOK, NEW w \in Worker, tx' = [tx EXCEPT ![w] = Idle],
           \A v \in Worker \ {w} : \A t \in {tx[v]} : Undisturbed(t),
           Positions'
    PROVE  TxsOK'
PROOF
<1>1. \A v \in Worker \ {w} :
         /\ Idle.locks \cap tx[v].locks = {}
         /\ Idle \in PubTx /\ tx[v] \in PubTx => tx[v].ctx # Idle.ctx
  BY IdleTx
<1> QED BY <1>1, IdleTx, Stepped

\* COMMIT of a publish.
LEMMA CommitPublishStep ==
    ASSUME PgInv, NEW w \in Worker, CommitPublish(w)
    PROVE  PgInv'
PROOF
<1> DEFINE u == tx[w]
<1>1. IInv /\ HInv /\ TxsOK /\ TypeOK
  BY DEF PgInv, IInv
<1>2. /\ u \in PubTx /\ PubInv(u) /\ u.pc = "commit" /\ drawn' = drawn
      /\ tx' = [tx EXCEPT ![w] = Idle]
      /\ \E b, a : PlaceOf(u, b, a) /\ Publish(u.ctx, u.req, u.mints, u.now, b, a)
      /\ lastSeq' = IF RowCount(u) = 0 THEN lastSeq ELSE u.base + RowCount(u)
  BY <1>1, CommitIsPublish DEF End
<1>3. PICK b, a : PlaceOf(u, b, a) /\ Publish(u.ctx, u.req, u.mints, u.now, b, a)
  BY <1>2
<1>4. /\ b \in Nat /\ b >= lastSeq /\ a \in Nat /\ a >= clock - FeedSkew - MaxTx
  BY <1>3 DEF PlaceOf
<1>5. /\ u.ctx \in Ctx \ Stored /\ u.req \in Request /\ u.now \in Nat
      /\ u.now <= clock + Skew
  BY <1>2 DEF PubTx, PubInv, NowRead
<1>6. u.mints \in BOOLEAN
  <2>1. u.mints \in Minting
    BY <1>2 DEF PubTx
  <2> QED BY <2>1, ParameterAssumption
<1>7. IInv'
  BY <1>1, <1>3, <1>4, <1>5, <1>6, PublishStep
<1>8. HInv'
  BY <1>1, <1>3, <1>4, <1>5, <1>6, PublishHistory
<1>9. \A v \in Worker \ {w} : \A t \in {tx[v]} : Undisturbed(t)
  <2> SUFFICES ASSUME NEW v \in Worker \ {w}, NEW t \in {tx[v]}
               PROVE  Undisturbed(t)
    OBVIOUS
  <2>1. t \in Tx /\ TxInv(t) /\ t.locks \cap u.locks = {}
        /\ (t \in PubTx => t.ctx # u.ctx)
    BY <1>1, <1>2, OthersApart
  <2> HIDE DEF u
  <2> QED BY <1>1, <1>2, <1>3, <1>4, <2>1, PublishUndisturbed
<1>10. Positions'
  BY <1>1, <1>2, CommitPositions DEF PubInv
<1>11. TxsOK'
  BY <1>1, <1>2, <1>9, <1>10, Committed
<1> QED BY <1>7, <1>8, <1>11 DEF PgInv

\* The commit of a lifecycle event is the store's CommitLifecycle.
LEMMA CommitIsLifecycle ==
    ASSUME IInv, TxsOK, NEW w \in Worker, CommitEvent(w)
    PROVE  /\ tx[w] \in LifeTx /\ LifeInv(tx[w]) /\ tx[w].pc = "commit"
           /\ End(w, "applied", tx[w].ctx) /\ drawn' = drawn
           /\ \E b, a : /\ PlaceOf(tx[w], b, a)
                        /\ CommitLifecycle(tx[w].ctx, tx[w].req.id, tx[w].req.type,
                                           tx[w].mints, tx[w].now, b, a)
           /\ lastSeq' = IF RowCount(tx[w]) = 0 THEN lastSeq
                         ELSE tx[w].base + RowCount(tx[w])
PROOF
<1> DEFINE t == tx[w]
           c == t.ctx
<1>1. t \in LifeTx /\ t.pc = "commit"
  <2>1. t \in Tx /\ t.pc = "commit" /\ t.op = "lifecycle"
    BY DEF TxsOK, CommitEvent
  <2> QED BY <2>1, TxKinds
<1>2. LifeInv(t)
  BY <1>1, LifeWorking
<1>3. LifecycleOutcome(c, t.req.id, t.req.type) = "ok"
  BY <1>1, <1>2 DEF LifeInv
<1>4. /\ events' = [events EXCEPT ![c] =
                      WithEvent(@, t.req.id, t.req.type, t.mints,
                                AcceptedAt(@, contexts[c].created, t.now))]
      /\ contexts' = [contexts EXCEPT ![c].retracted = (t.req.type = "retracted")]
      /\ AppendRows(IF t.mints THEN LifecycleRows(c, t.req.id, t.base, t.at)
                               ELSE {}, RowCount(t), t.base)
      /\ End(w, "applied", c)
      /\ UNCHANGED <<idem, leaves, prunedThrough, clock>> /\ drawn' = drawn
  BY DEF CommitEvent
<1>5. PICK b, a : PlaceOf(t, b, a)
  BY <1>1, <1>2, PlaceExists DEF IInv, LifeInv
<1>6. t.op = "lifecycle"
  BY <1>1 DEF LifeTx
<1>7. /\ IF t.mints THEN AppendRows(LifecycleRows(c, t.req.id, b, a), 1, b)
         ELSE AppendRows({}, 0, b)
      /\ lastSeq' = IF RowCount(t) = 0 THEN lastSeq ELSE t.base + RowCount(t)
  <2> HIDE DEF t, c
  <2>1. lastSeq' = IF RowCount(t) = 0 THEN lastSeq ELSE t.base + RowCount(t)
    BY <1>4 DEF AppendRows
  <2>2. CASE t.mints
    <3>1. RowCount(t) = 1
      BY <1>6, <2>2 DEF RowCount
    <3>2. b = t.base /\ a = t.at
      BY <1>5, <3>1 DEF PlaceOf
    <3> QED BY <1>4, <2>1, <2>2, <3>1, <3>2 DEF AppendRows
  <2>3. CASE ~ t.mints
    <3>1. RowCount(t) = 0
      BY <2>3 DEF RowCount
    <3> QED BY <1>4, <2>1, <2>3, <3>1 DEF AppendRows
  <2> QED BY <2>2, <2>3
<1>8. CommitLifecycle(c, t.req.id, t.req.type, t.mints, t.now, b, a)
  BY <1>3, <1>4, <1>7 DEF CommitLifecycle
<1> QED BY <1>1, <1>2, <1>4, <1>5, <1>7, <1>8

\* COMMIT of a lifecycle event.
LEMMA CommitEventStep ==
    ASSUME PgInv, NEW w \in Worker, CommitEvent(w)
    PROVE  PgInv'
PROOF
<1> DEFINE u == tx[w]
<1>1. IInv /\ HInv /\ TxsOK /\ TypeOK
  BY DEF PgInv, IInv
<1>2. /\ u \in LifeTx /\ LifeInv(u) /\ u.pc = "commit" /\ drawn' = drawn
      /\ tx' = [tx EXCEPT ![w] = Idle]
      /\ \E b, a : /\ PlaceOf(u, b, a)
                   /\ CommitLifecycle(u.ctx, u.req.id, u.req.type, u.mints,
                                      u.now, b, a)
      /\ lastSeq' = IF RowCount(u) = 0 THEN lastSeq ELSE u.base + RowCount(u)
  BY <1>1, CommitIsLifecycle DEF End
<1>3. PICK b, a : /\ PlaceOf(u, b, a)
                  /\ CommitLifecycle(u.ctx, u.req.id, u.req.type, u.mints,
                                     u.now, b, a)
  BY <1>2
<1>4. /\ b \in Nat /\ b >= lastSeq /\ a \in Nat /\ a >= clock - FeedSkew - MaxTx
  BY <1>3 DEF PlaceOf
<1>5. /\ u.ctx \in Stored /\ u.req.id \in EventId /\ u.now \in Nat
      /\ u.req.type \in {"retracted", "republished"} /\ u.mints \in Minting
  BY <1>2 DEF LifeTx, LifeInv, LifeRequest
<1>6. u.mints \in BOOLEAN
  BY <1>5, ParameterAssumption
<1>7. IInv'
  BY <1>1, <1>3, <1>4, <1>5, <1>6, LifecycleStep
<1>8. HInv'
  BY <1>1, <1>3, <1>4, <1>5, LifecycleHistory
<1>9. \A v \in Worker \ {w} : \A t \in {tx[v]} : Undisturbed(t)
  <2> SUFFICES ASSUME NEW v \in Worker \ {w}, NEW t \in {tx[v]}
               PROVE  Undisturbed(t)
    OBVIOUS
  <2>1. t \in Tx /\ TxInv(t) /\ t.locks \cap u.locks = {}
    BY <1>1, OthersApart
  <2> HIDE DEF u
  <2> QED BY <1>1, <1>2, <1>3, <1>4, <2>1, LifecycleUndisturbed
<1>10. Positions'
  BY <1>1, <1>2, CommitPositions DEF LifeInv
<1>11. TxsOK'
  BY <1>1, <1>2, <1>9, <1>10, Committed
<1> QED BY <1>7, <1>8, <1>11 DEF PgInv

\* COMMIT of a backfill.
LEMMA CommitIsBackfill ==
    ASSUME TxsOK, NEW w \in Worker, CommitBackfill(w)
    PROVE  /\ tx[w] \in FillTx /\ FillInv(tx[w]) /\ tx[w].pc = "commit"
           /\ tx' = [tx EXCEPT ![w] = Idle] /\ drawn' = drawn
           /\ Backfill(tx[w].ctx, tx[w].now)
PROOF
<1> DEFINE t == tx[w]
           c == t.ctx
<1>1. t \in FillTx /\ t.pc = "commit"
  <2>1. t \in Tx /\ t.pc = "commit" /\ t.op = "backfill"
    BY DEF TxsOK, CommitBackfill
  <2> QED BY <2>1, TxKinds
<1>2. FillInv(t)
  BY <1>1, FillWorking
<1>3. Fillable(c)
  BY <1>1, <1>2 DEF FillInv
<1>4. tx' = [tx EXCEPT ![w] = Idle] /\ drawn' = drawn
  BY DEF CommitBackfill, End
<1>5. Backfill(c, t.now)
  BY <1>3 DEF Backfill, CommitBackfill, Fillable
<1> QED BY <1>1, <1>2, <1>4, <1>5

\* COMMIT of a backfill disturbs nobody: it holds the row.
LEMMA CommitBackfillStep ==
    ASSUME PgInv, NEW w \in Worker, CommitBackfill(w)
    PROVE  PgInv'
PROOF
<1> DEFINE u == tx[w]
<1>1. IInv /\ HInv /\ TxsOK /\ TypeOK
  BY DEF PgInv, IInv
<1>2. /\ u \in FillTx /\ FillInv(u) /\ u.pc = "commit" /\ drawn' = drawn
      /\ tx' = [tx EXCEPT ![w] = Idle] /\ Backfill(u.ctx, u.now)
  BY <1>1, CommitIsBackfill
<1>3. /\ u.ctx \in Stored /\ RowLock(u.ctx) \in u.locks /\ FeedLock \notin u.locks
      /\ u.now \in Nat
  BY <1>2 DEF FillInv, FillTx
<1>4. IInv'
  BY <1>1, <1>2, <1>3, BackfillStep
<1>5. HInv'
  <2>1. \A d \in Ctx : /\ Extends(events[d], events'[d])
                       /\ Len(events'[d]) = Len(events[d])
    BY <1>1, <1>2, <1>3, BackfillExtends
  <2>2. contexts' = contexts /\ leaves' = leaves /\ appended' = appended
    BY <1>2 DEF Backfill
  <2> QED BY <1>1, <2>1, <2>2, QuietHistory
<1>6. \A v \in Worker \ {w} : \A t \in {tx[v]} : Undisturbed(t)
  <2> SUFFICES ASSUME NEW v \in Worker \ {w}, NEW t \in {tx[v]}
               PROVE  Undisturbed(t)
    OBVIOUS
  <2>1. t \in Tx /\ TxInv(t) /\ t.locks \cap u.locks = {}
    BY <1>1, OthersApart
  <2>2. RowLock(u.ctx) \notin t.locks
    BY <1>3, <2>1
  <2> HIDE DEF u
  <2> QED BY <1>1, <1>2, <1>3, <2>1, <2>2, BackfillUndisturbed
<1>7. Positions'
  <2>1. lastSeq' = lastSeq
    BY <1>2 DEF Backfill
  <2>2. (\A v \in Worker : FeedLock \notin tx'[v].locks) =>
           \A v \in Worker : FeedLock \notin tx[v].locks
    BY <1>1, <1>2, <1>3 DEF TxsOK
  <2> QED BY <1>1, <1>2, <2>1, <2>2 DEF TxsOK, Positions
<1>8. TxsOK'
  BY <1>1, <1>2, <1>6, <1>7, Committed
<1> QED BY <1>4, <1>5, <1>8 DEF PgInv

\* COMMIT of a prune.
LEMMA CommitIsPrune ==
    ASSUME TypeOK, TxsOK, NEW w \in Worker, DeleteAndCommit(w)
    PROVE  /\ tx[w] \in PruneTx /\ PruneInv(tx[w]) /\ MetaLock \in tx[w].locks
           /\ tx' = [tx EXCEPT ![w] = Idle] /\ drawn' = drawn
           /\ PruneThrough(tx[w].last) /\ Prune(tx[w].now)
PROOF
<1> DEFINE t == tx[w]
<1>1. t \in PruneTx /\ t.pc = "delete"
  <2>1. t \in Tx /\ t.pc = "delete"
    BY DEF TxsOK, DeleteAndCommit
  <2> QED BY <2>1, TxKinds
<1>2. PruneInv(t)
  BY <1>1, PruneWorking
<1>3. LastPrunable(t.now, t.last) /\ MetaLock \in t.locks
  BY <1>1, <1>2 DEF PruneInv
<1>4. tx' = [tx EXCEPT ![w] = Idle] /\ drawn' = drawn /\ PruneThrough(t.last)
  BY DEF DeleteAndCommit, End
<1>5. Prune(t.now)
  <2>1. PICK x \in Prunable(t.now) :
           x.seq = t.last /\ \A y \in Prunable(t.now) : y.seq <= t.last
    BY <1>3 DEF LastPrunable
  <2>2. PruneThrough(x.seq)
    BY <1>4, <2>1
  <2> QED BY <2>1, <2>2 DEF Prune
<1> QED BY <1>1, <1>2, <1>3, <1>4, <1>5

\* Steps that leave contexts, events, leaves and the rows ever appended.
LEMMA StillHistory ==
    ASSUME IInv, HInv, UNCHANGED <<contexts, events, leaves, appended>>
    PROVE  HInv'
PROOF
<1>1. \A d \in Ctx : /\ Extends(events[d], events'[d])
                     /\ Len(events'[d]) = Len(events[d])
  BY DEF Extends, IInv, TypeOK
<1> QED BY <1>1, QuietHistory

\* COMMIT of a prune disturbs nobody: it holds the meta row.
LEMMA DeleteAndCommitStep ==
    ASSUME PgInv, NEW w \in Worker, DeleteAndCommit(w)
    PROVE  PgInv'
PROOF
<1> DEFINE u == tx[w]
<1>1. IInv /\ HInv /\ TxsOK /\ TypeOK
  BY DEF PgInv, IInv
<1>2. /\ u \in PruneTx /\ PruneInv(u) /\ MetaLock \in u.locks /\ drawn' = drawn
      /\ tx' = [tx EXCEPT ![w] = Idle] /\ PruneThrough(u.last) /\ Prune(u.now)
  BY <1>1, CommitIsPrune
<1>3. IInv'
  BY <1>1, <1>2, PruneStep
<1>4. HInv'
  BY <1>1, <1>2, StillHistory DEF PruneThrough
<1>5. \A v \in Worker \ {w} : \A t \in {tx[v]} : Undisturbed(t)
  <2> SUFFICES ASSUME NEW v \in Worker \ {w}, NEW t \in {tx[v]}
               PROVE  Undisturbed(t)
    OBVIOUS
  <2>1. t \in Tx /\ TxInv(t) /\ t.locks \cap u.locks = {}
    BY <1>1, OthersApart
  <2>2. MetaLock \notin t.locks
    BY <1>2, <2>1
  <2> HIDE DEF u
  <2> QED BY <1>1, <1>2, <2>1, <2>2, PruneUndisturbed
<1>6. Positions'
  <2>1. lastSeq' = lastSeq /\ FeedLock \notin u.locks
    BY <1>2 DEF PruneThrough, PruneInv
  <2>2. (\A v \in Worker : FeedLock \notin tx'[v].locks) =>
           \A v \in Worker : FeedLock \notin tx[v].locks
    BY <1>1, <1>2, <2>1 DEF TxsOK
  <2> QED BY <1>1, <1>2, <2>1, <2>2 DEF TxsOK, Positions
<1>7. TxsOK'
  BY <1>1, <1>2, <1>5, <1>6, Committed
<1> QED BY <1>3, <1>4, <1>7 DEF PgInv

\* Steps outside the transactions: what they know, they still know.
LEMMA StillKnown ==
    ASSUME TypeOK, TxsOK, tx' = tx, drawn' = drawn, lastSeq' = lastSeq,
           \A w \in Worker : \A t \in {tx[w]} : t # Idle => Undisturbed(t)
    PROVE  TxsOK'
PROOF
<1>1. \A w \in Worker : \A t \in {tx[w]} : TxInv(t)'
  <2> SUFFICES ASSUME NEW w \in Worker, NEW t \in {tx[w]} PROVE TxInv(t)'
    OBVIOUS
  <2>1. t \in Tx /\ TxInv(t)
    BY DEF TxsOK, Known
  <2>2. CASE t = Idle
    BY <2>2, IdleTx
  <2>3. CASE t # Idle
    BY <2>1, <2>3, Frame
  <2> QED BY <2>2, <2>3
<1>2. Known'
  BY <1>1 DEF Known
<1>3. Exclusive' /\ OwnIds' /\ Positions'
  BY DEF TxsOK, Exclusive, OwnIds, Positions
<1> QED BY <1>2, <1>3 DEF TxsOK

\* Eviction waits for locked records, so no transaction loses one it knows.
LEMMA EvictExpiredStep ==
    ASSUME PgInv, NEW now \in Readings, EvictExpired(now)
    PROVE  PgInv'
PROOF
<1>1. IInv /\ HInv /\ TxsOK /\ TypeOK
  BY DEF PgInv, IInv
<1>2. Evict(now) /\ tx' = tx /\ drawn' = drawn
  BY DEF EvictExpired
<1>3. now \in Nat /\ now <= clock + Skew
  BY <1>1, ReadingsType
<1>4. IInv'
  BY <1>1, <1>2, <1>3, EvictStep
<1>5. HInv'
  BY <1>1, <1>2, StillHistory DEF Evict
<1>6. \A w \in Worker : \A t \in {tx[w]} : t # Idle => Undisturbed(t)
  <2> SUFFICES ASSUME NEW w \in Worker, NEW t \in {tx[w]} PROVE Undisturbed(t)
    OBVIOUS
  <2>1. t \in Tx /\ TxInv(t) /\ t = tx[w]
    BY <1>1 DEF TxsOK, Known
  <2> QED BY <1>1, <2>1, EvictUndisturbed
<1>7. lastSeq' = lastSeq
  BY <1>2 DEF Evict
<1> QED BY <1>1, <1>2, <1>4, <1>5, <1>6, <1>7, StillKnown DEF PgInv

\* Time passes only while every open transaction is within MaxTx.
LEMMA PgTickStep ==
    ASSUME PgInv, PgTick
    PROVE  PgInv'
PROOF
<1>1. IInv /\ HInv /\ TxsOK /\ TypeOK
  BY DEF PgInv, IInv
<1>2. Tick /\ tx' = tx /\ drawn' = drawn
  BY DEF PgTick
<1>3. IInv'
  BY <1>1, <1>2, TickStep
<1>4. HInv'
  BY <1>1, <1>2, StillHistory DEF Tick
<1>5. \A w \in Worker : \A t \in {tx[w]} : t # Idle => Undisturbed(t)
  <2> SUFFICES ASSUME NEW w \in Worker, NEW t \in {tx[w]}, t # Idle
               PROVE  Undisturbed(t)
    OBVIOUS
  <2>1. t \in Tx /\ TxInv(t) /\ t = tx[w]
    BY <1>1 DEF TxsOK, Known
  <2> QED BY <1>1, <2>1, TickUndisturbed
<1>6. lastSeq' = lastSeq
  BY <1>2 DEF Tick
<1> QED BY <1>1, <1>2, <1>3, <1>4, <1>5, <1>6, StillKnown DEF PgInv

(***************************************************************************)
(* The invariant.                                                          *)
(***************************************************************************)
\* It holds at the start: no table has a row and no connection is in use.
LEMMA InitPgInv == PgInit => PgInv
PROOF
<1> SUFFICES ASSUME PgInit PROVE PgInv
  OBVIOUS
<1>1. Init /\ tx = [w \in Worker |-> Idle] /\ drawn = 0 /\ lastSeq = 0
  BY DEF PgInit, Init
<1>2. IInv /\ HInv
  BY <1>1, InitIInv, InitHInv
<1>3. \A w \in Worker : tx[w] = Idle
  BY <1>1
<1>4. tx \in [Worker -> Tx]
  BY <1>1, IdleTx
<1>5. Known
  BY <1>3, IdleTx DEF Known
<1>6. Exclusive /\ OwnIds
  BY <1>3, IdleTx DEF Exclusive, OwnIds
<1>7. Positions
  BY <1>1, ParameterAssumption DEF Positions
<1> QED BY <1>2, <1>4, <1>5, <1>6, <1>7 DEF PgInv, TxsOK

\* Steps that write nothing keep the invariants of the tables.
LEMMA StillTables ==
    ASSUME IInv, HInv, UNCHANGED vars
    PROVE  IInv' /\ HInv'
PROOF
<1>1. IInv'
  BY NextIInv
<1>2. HInv'
  BY NextHInv
<1> QED BY <1>1, <1>2

\* A new transaction.
LEMMA BeginStep ==
    ASSUME PgInv, NEW w \in Worker, Begin(w)
    PROVE  TxsOK' /\ UNCHANGED vars
PROOF
<1>1. TypeOK /\ TxsOK
  BY DEF PgInv, IInv
<1>2. Asked \subseteq Request
  BY PgAssumption
<1>3. ASSUME NEW c \in Ctx \ Stored, NEW r \in Asked, NEW minted \in Minting,
             NEW now \in Readings, BeginPublish(w, c, r, minted, now)
      PROVE  TxsOK' /\ UNCHANGED vars
  <2>1. r \in Request
    BY <1>2
  <2>2. TxsOK'
    BY <1>1, <1>3, <2>1, BeginPublishStep
  <2> QED BY <1>3, <2>2 DEF BeginPublish, NoWrite
<1>4. ASSUME NEW c \in Stored, NEW id \in EventId,
             NEW type \in {"retracted", "republished"}, NEW mints \in Minting,
             BeginLifecycle(w, c, id, type, mints)
      PROVE  TxsOK' /\ UNCHANGED vars
  <2>1. TxsOK'
    BY <1>1, <1>4, BeginLifecycleStep
  <2> QED BY <1>4, <2>1 DEF BeginLifecycle, NoWrite
<1>5. ASSUME NEW c \in Stored, TRUE \in Minting, BeginBackfill(w, c)
      PROVE  TxsOK' /\ UNCHANGED vars
  <2>1. TxsOK'
    BY <1>1, <1>5, BeginBackfillStep
  <2> QED BY <1>5, <2>1 DEF BeginBackfill, NoWrite
<1>6. ASSUME NEW now \in Readings, BeginPrune(w, now)
      PROVE  TxsOK' /\ UNCHANGED vars
  <2>1. TxsOK'
    BY <1>1, <1>6, BeginPruneStep
  <2> QED BY <1>6, <2>1 DEF BeginPrune, NoWrite
<1> QED BY <1>3, <1>4, <1>5, <1>6, Zenon DEF Begin

\* The statements before the commit write nothing that others see.
Statement(w) ==
    \/ CheckIdem(w) \/ LockPredecessor(w) \/ Recheck(w) \/ AppendLeaf(w)
    \/ ClaimKey(w) \/ ReadBack(w)
    \/ \E at \in FeedReadings : DrawPositions(w, at)
    \/ \E now \in Readings : LockContext(w, now)
    \/ CheckEvent(w) \/ PlanBackfill(w) \/ ScanFeed(w) \/ Abort(w)

Commit(w) ==
    CommitPublish(w) \/ CommitEvent(w) \/ CommitBackfill(w) \/ DeleteAndCommit(w)

\* They keep the invariant.
LEMMA StatementStep ==
    ASSUME PgInv, NEW w \in Worker, Statement(w)
    PROVE  TxsOK' /\ UNCHANGED vars
PROOF
<1>1. TypeOK /\ TxsOK /\ IInv
  BY DEF PgInv, IInv
<1>2. UNCHANGED vars
  BY DEF Statement, CheckIdem, LockPredecessor, Recheck, AppendLeaf, ClaimKey,
         ReadBack, DrawPositions, LockContext, CheckEvent, PlanBackfill,
         ScanFeed, Abort, NoWrite
<1>3. tx[w] \in Tx
  BY <1>1 DEF TxsOK
<1>4. ASSUME NEW at \in FeedReadings, DrawPositions(w, at) PROVE TxsOK'
  <2>1. tx[w] \in PubTx \cup LifeTx
    BY <1>3, <1>4, TxKinds DEF DrawPositions
  <2> QED BY <1>1, <1>4, <2>1, DrawPubStep, DrawLifeStep
<1>5. ASSUME NEW now \in Readings, LockContext(w, now) PROVE TxsOK'
  <2>1. tx[w] \in LifeTx \cup FillTx
    BY <1>3, <1>5, TxKinds DEF LockContext
  <2> QED BY <1>1, <1>5, <2>1, LockForEventStep, LockForFillStep
<1>6. CASE CheckIdem(w)
  BY <1>1, <1>2, <1>6, CheckIdemStep
<1>7. CASE LockPredecessor(w)
  BY <1>1, <1>2, <1>7, LockPredecessorStep
<1>8. CASE Recheck(w)
  BY <1>1, <1>2, <1>8, RecheckStep
<1>9. CASE AppendLeaf(w)
  BY <1>1, <1>2, <1>9, AppendLeafStep
<1>10. CASE ClaimKey(w)
  BY <1>1, <1>2, <1>10, ClaimKeyStep
<1>11. CASE ReadBack(w)
  BY <1>1, <1>2, <1>11, ReadBackStep
<1>12. CASE CheckEvent(w)
  BY <1>1, <1>2, <1>12, CheckEventStep
<1>13. CASE PlanBackfill(w)
  BY <1>1, <1>2, <1>13, PlanBackfillStep
<1>14. CASE ScanFeed(w)
  BY <1>1, <1>2, <1>14, ScanFeedStep
<1>15. CASE Abort(w)
  BY <1>1, <1>2, <1>15, AbortStep
<1> QED BY <1>2, <1>4, <1>5, <1>6, <1>7, <1>8, <1>9, <1>10, <1>11, <1>12, <1>13, <1>14, <1>15
       DEF Statement

\* The steps of the specification, sorted.
LEMMA PgSteps ==
    ASSUME PgNext
    PROVE  \/ \E w \in Worker : Begin(w)
           \/ \E w \in Worker : Statement(w)
           \/ \E w \in Worker : Commit(w)
           \/ \E now \in Readings : EvictExpired(now)
           \/ PgTick
PROOF
  BY Zenon DEF PgNext, Step, Statement, Commit

\* Every step preserves the invariant.
LEMMA NextPgInv == PgInv /\ [PgNext]_pgVars => PgInv'
PROOF
<1> SUFFICES ASSUME PgInv, [PgNext]_pgVars PROVE PgInv'
  OBVIOUS
<1>0. IInv /\ HInv /\ TxsOK /\ TypeOK
  BY DEF PgInv, IInv
<1>1. ASSUME TxsOK', UNCHANGED vars PROVE PgInv'
  BY <1>0, <1>1, StillTables DEF PgInv
<1>2. ASSUME NEW w \in Worker, Begin(w) PROVE PgInv'
  BY <1>1, <1>2, BeginStep
<1>3. ASSUME NEW w \in Worker, Statement(w) PROVE PgInv'
  BY <1>1, <1>3, StatementStep
<1>4. ASSUME NEW w \in Worker, Commit(w) PROVE PgInv'
  BY <1>4, CommitPublishStep, CommitEventStep, CommitBackfillStep,
     DeleteAndCommitStep DEF Commit
<1>5. ASSUME NEW now \in Readings, EvictExpired(now) PROVE PgInv'
  BY <1>5, EvictExpiredStep
<1>6. CASE PgTick
  BY <1>6, PgTickStep
<1>7. CASE UNCHANGED pgVars
  <2>1. UNCHANGED vars /\ tx' = tx /\ drawn' = drawn /\ lastSeq' = lastSeq
    BY <1>7 DEF pgVars, vars
  <2>2. \A w \in Worker : \A t \in {tx[w]} : t # Idle => Undisturbed(t)
    <3> SUFFICES ASSUME NEW w \in Worker, NEW t \in {tx[w]}
                 PROVE  Undisturbed(t)
      OBVIOUS
    <3>1. TxInv(t)
      BY <1>0 DEF TxsOK, Known
    <3> QED BY <1>0, <2>1, <3>1, QuietUndisturbed DEF TxInv, PubInv
  <2>3. TxsOK'
    BY <1>0, <2>1, <2>2, StillKnown
  <2> QED BY <1>1, <2>1, <2>3
<1> QED BY <1>2, <1>3, <1>4, <1>5, <1>6, <1>7, PgSteps

(***************************************************************************)
(* The theorems.                                                           *)
(***************************************************************************)
\* Every open transaction knows what its locks protect, in every reachable
\* state.
THEOREM PgInvariance == PgSpec => []PgInv
PROOF
<1>1. PgInit => PgInv
  BY InitPgInv
<1>2. PgInv /\ [PgNext]_pgVars => PgInv'
  BY NextPgInv
<1> QED BY <1>1, <1>2, PTL DEF PgSpec

\* However the transactions interleave and whoever is rolled back, the change
\* feed says everything once, in the order of its positions.
THEOREM PgFeedIsSound == PgSpec => []FeedSound
PROOF
<1>1. PgInv => FeedSound
  BY FeedFromInv DEF PgInv
<1> QED BY <1>1, PgInvariance, PTL

(***************************************************************************)
(* The refinement.                                                         *)
(***************************************************************************)
\* The readings of a transaction are readings of the atomic store, whose
\* clocks may be off by MaxTx more.
LEMMA WiderReadings ==
    ASSUME TypeOK, NEW t, t.began \in Nat, t.now \in Nat, Timely(t), NowRead(t)
    PROVE  t.now \in Abs!Readings /\ t.now \in Abs!EntryReadings
PROOF
<1>1. clock \in Nat /\ Skew \in Nat /\ MaxTx \in Nat
  BY ParameterAssumption, PgAssumption DEF TypeOK
<1>2. /\ t.began <= clock /\ clock <= t.began + MaxTx
      /\ t.now >= t.began - Skew /\ t.now <= clock + Skew
  BY DEF Timely, NowRead
<1>3. /\ t.now \in 0 .. clock + (Skew + MaxTx)
      /\ t.now >= clock - (Skew + MaxTx)
      /\ t.now >= clock - (Skew + MaxTx) - MaxTx
  BY <1>1, <1>2
<1> QED BY <1>3 DEF Abs!Readings, Abs!EntryReadings

\* A commit's place in the feed is one the atomic store allows.
LEMMA WiderFeedReadings ==
    ASSUME TypeOK, NEW t, NEW b, NEW a, PlaceOf(t, b, a)
    PROVE  a \in Abs!FeedReadings /\ b \in Abs!Bases
PROOF
<1>1. clock \in Nat /\ FeedSkew \in Nat /\ MaxTx \in Nat
  BY ParameterAssumption, PgAssumption DEF TypeOK
<1>2. b \in Bases /\ a \in Nat /\ a >= clock - FeedSkew - MaxTx
      /\ a <= clock + FeedSkew
  BY DEF PlaceOf
<1>3. a \in 0 .. clock + (FeedSkew + MaxTx) /\ a >= clock - (FeedSkew + MaxTx)
  BY <1>1, <1>2
<1> QED BY <1>2, <1>3 DEF Abs!FeedReadings, Abs!Bases, Bases

\* The actions of the atomic store do not depend on how far clocks are off.
LEMMA SamePublish ==
    ASSUME NEW c, NEW r, NEW minted, NEW now, NEW base, NEW at,
           Publish(c, r, minted, now, base, at)
    PROVE  Abs!Publish(c, r, minted, now, base, at)
PROOF
  BY DEF Publish, Abs!Publish, PublishOutcome, Abs!PublishOutcome, IdemLive,
         Abs!IdemLive, SupersessionOutcome, Abs!SupersessionOutcome, SameTenant,
         Abs!SameTenant, IsOwner, Abs!IsOwner, Stored, Abs!Stored, WithPublished,
         Abs!WithPublished, NewRow, Abs!NewRow, AssignedLineage,
         Abs!AssignedLineage, FirstVersion, Abs!FirstVersion, WithLeaf,
         Abs!WithLeaf, WithIdem, Abs!WithIdem, AppendRows, Abs!AppendRows,
         PublishRows, Abs!PublishRows, SupersededRows, Abs!SupersededRows,
         RevocationRows, Abs!RevocationRows, PublishRowCount, Abs!PublishRowCount

\* Likewise the lifecycle event,
LEMMA SameLifecycle ==
    ASSUME NEW c, NEW id, NEW type, NEW mints, NEW now, NEW base, NEW at,
           CommitLifecycle(c, id, type, mints, now, base, at)
    PROVE  Abs!CommitLifecycle(c, id, type, mints, now, base, at)
PROOF
<1>1. \A s, x, y : Abs!AcceptedAt(s, x, y) = AcceptedAt(s, x, y)
  BY DEF AcceptedAt, Abs!AcceptedAt
<1>2. \A s, x : Abs!Filled(s, x) = Filled(s, x) /\ Abs!HasHole(s) = HasHole(s)
  BY DEF Filled, Abs!Filled, HasHole, Abs!HasHole, NoReceipt, Abs!NoReceipt
<1>3. \A s, x : Abs!WithEvent(s, id, type, mints, x) = WithEvent(s, id, type, mints, x)
  BY <1>2 DEF WithEvent, Abs!WithEvent, NoReceipt, Abs!NoReceipt
<1>4. Abs!LifecycleOutcome(c, id, type) = LifecycleOutcome(c, id, type)
  BY DEF LifecycleOutcome, Abs!LifecycleOutcome, RetractionState,
         Abs!RetractionState, Stored, Abs!Stored
<1>5. Abs!LifecycleRows(c, id, base, at) = LifecycleRows(c, id, base, at)
  BY DEF LifecycleRows, Abs!LifecycleRows
<1>6. events' = [events EXCEPT ![c] =
                   Abs!WithEvent(@, id, type, mints,
                                 Abs!AcceptedAt(@, contexts[c].created, now))]
  BY <1>1, <1>3 DEF CommitLifecycle
<1> QED BY <1>4, <1>5, <1>6 DEF CommitLifecycle, Abs!CommitLifecycle, AppendRows,
                                 Abs!AppendRows

\* the backfill,
LEMMA SameBackfill ==
    ASSUME NEW c, NEW now, Backfill(c, now)
    PROVE  Abs!Backfill(c, now)
PROOF
  BY DEF Backfill, Abs!Backfill, HasHole, Abs!HasHole, NoReceipt, Abs!NoReceipt,
         Filled, Abs!Filled, AcceptedAt, Abs!AcceptedAt

\* the prune,
LEMMA SamePrune ==
    ASSUME NEW now, Prune(now)
    PROVE  Abs!Prune(now)
PROOF
<1>1. Abs!Prunable(now) = Prunable(now)
  <2>1. \A S : Abs!Cardinality(S) = Cardinality(S)
    BY DEF Cardinality, Abs!Cardinality
  <2> QED BY <2>1 DEF Prunable, Abs!Prunable
<1>2. \A n : PruneThrough(n) => Abs!PruneThrough(n)
  BY DEF PruneThrough, Abs!PruneThrough
<1> QED BY <1>1, <1>2 DEF Prune, Abs!Prune

\* and the eviction.
LEMMA SameEvict ==
    ASSUME NEW now, Evict(now)
    PROVE  Abs!Evict(now)
PROOF
  BY DEF Evict, Abs!Evict

\* Each commit is a step of the atomic store.
LEMMA CommitRefines ==
    ASSUME PgInv, NEW w \in Worker, Commit(w)
    PROVE  Abs!Next
PROOF
<1> DEFINE t == tx[w]
<1>1. IInv /\ TxsOK /\ TypeOK
  BY DEF PgInv, IInv
<1>2. Abs!Stored = Stored
  BY DEF Abs!Stored, Stored
<1>3. CASE CommitPublish(w)
  <2>1. /\ t \in PubTx /\ PubInv(t)
        /\ \E b, a : PlaceOf(t, b, a) /\ Publish(t.ctx, t.req, t.mints, t.now, b, a)
    BY <1>1, <1>3, CommitIsPublish
  <2>2. PICK b, a : PlaceOf(t, b, a) /\ Publish(t.ctx, t.req, t.mints, t.now, b, a)
    BY <2>1
  <2>3. /\ t.ctx \in Ctx \ Stored /\ t.req \in Request /\ t.mints \in Minting
        /\ t.began \in Nat /\ t.now \in Nat /\ Timely(t) /\ NowRead(t)
    BY <2>1 DEF PubTx, PubInv
  <2> HIDE DEF t
  <2>4. t.now \in Abs!EntryReadings /\ a \in Abs!FeedReadings /\ b \in Abs!Bases
    BY <1>1, <2>2, <2>3, WiderReadings, WiderFeedReadings
  <2>5. Abs!Publish(t.ctx, t.req, t.mints, t.now, b, a)
    BY <2>2, SamePublish
  <2>6. t.req \in Abs!Request
    BY <2>3 DEF Request, Abs!Request
  <2>7. t.ctx \in Ctx \ Abs!Stored
    BY <1>2, <2>3
  <2> QED BY <2>3, <2>4, <2>5, <2>6, <2>7, Zenon DEF Abs!Next
<1>4. CASE CommitEvent(w)
  <2>1. /\ t \in LifeTx /\ LifeInv(t) /\ t.pc = "commit"
        /\ \E b, a : /\ PlaceOf(t, b, a)
                     /\ CommitLifecycle(t.ctx, t.req.id, t.req.type, t.mints,
                                        t.now, b, a)
    BY <1>1, <1>4, CommitIsLifecycle
  <2>2. PICK b, a : /\ PlaceOf(t, b, a)
                    /\ CommitLifecycle(t.ctx, t.req.id, t.req.type, t.mints,
                                       t.now, b, a)
    BY <2>1
  <2>3. /\ t.ctx \in Stored /\ t.req.id \in EventId /\ t.mints \in Minting
        /\ t.req.type \in {"retracted", "republished"}
        /\ t.began \in Nat /\ t.now \in Nat /\ Timely(t) /\ NowRead(t)
    BY <2>1 DEF LifeTx, LifeInv, LifeRequest
  <2> HIDE DEF t
  <2>4. t.now \in Abs!Readings /\ a \in Abs!FeedReadings /\ b \in Abs!Bases
    BY <1>1, <2>2, <2>3, WiderReadings, WiderFeedReadings
  <2>5. Abs!CommitLifecycle(t.ctx, t.req.id, t.req.type, t.mints, t.now, b, a)
    BY <2>2, SameLifecycle
  <2>6. t.ctx \in Abs!Stored
    BY <1>2, <2>3
  <2> QED BY <2>3, <2>4, <2>5, <2>6, Zenon DEF Abs!Next
<1>5. CASE CommitBackfill(w)
  <2>1. t \in FillTx /\ FillInv(t) /\ t.pc = "commit" /\ Backfill(t.ctx, t.now)
    BY <1>1, <1>5, CommitIsBackfill
  <2>2. /\ t.ctx \in Stored /\ t.began \in Nat /\ t.now \in Nat /\ Timely(t)
        /\ NowRead(t)
    BY <2>1 DEF FillTx, FillInv
  <2>3. TRUE \in Minting
    BY <2>1, Zenon DEF FillInv
  <2> HIDE DEF t
  <2>4. t.now \in Abs!Readings
    BY <1>1, <2>2, WiderReadings
  <2>5. Abs!Backfill(t.ctx, t.now) /\ t.ctx \in Abs!Stored
    BY <1>2, <2>1, <2>2, SameBackfill
  <2> QED BY <2>3, <2>4, <2>5, Zenon DEF Abs!Next
<1>6. CASE DeleteAndCommit(w)
  <2>1. t \in PruneTx /\ PruneInv(t) /\ Prune(t.now)
    BY <1>1, <1>6, CommitIsPrune
  <2>2. t.began \in Nat /\ t.now \in Nat
    BY <2>1 DEF PruneTx
  <2>3. Timely(t) /\ t.now >= t.began - Skew /\ t.now <= t.began + Skew
    BY <2>1 DEF PruneInv
  <2> HIDE DEF t
  <2>4. NowRead(t)
    <3>1. clock \in Nat /\ Skew \in Nat
      BY <1>1, ParameterAssumption DEF TypeOK
    <3> QED BY <2>2, <2>3, <3>1 DEF NowRead, Timely
  <2>5. t.now \in Abs!Readings
    BY <1>1, <2>2, <2>3, <2>4, WiderReadings
  <2>6. Abs!Prune(t.now)
    BY <2>1, SamePrune
  <2> QED BY <2>5, <2>6, Zenon DEF Abs!Next
<1> QED BY <1>3, <1>4, <1>5, <1>6 DEF Commit

\* Every step is one of the atomic store's, or writes nothing.
LEMMA StepRefines ==
    ASSUME PgInv, PgNext
    PROVE  Abs!Next \/ UNCHANGED vars
PROOF
<1>1. TypeOK
  BY DEF PgInv, IInv
<1>2. ASSUME NEW now \in Readings, EvictExpired(now) PROVE Abs!Next
  <2>1. Abs!Evict(now)
    BY <1>2, SameEvict DEF EvictExpired
  <2>2. now \in Abs!Readings
    <3>1. clock \in Nat /\ Skew \in Nat /\ MaxTx \in Nat
      BY <1>1, ParameterAssumption, PgAssumption DEF TypeOK
    <3> QED BY <3>1 DEF Readings, Abs!Readings
  <2> QED BY <2>1, <2>2, Zenon DEF Abs!Next
<1>3. ASSUME PgTick PROVE Abs!Next
  <2>1. Abs!Tick
    BY <1>3 DEF PgTick, Tick, Abs!Tick
  <2> QED BY <2>1 DEF Abs!Next
<1> QED BY <1>2, <1>3, BeginStep, StatementStep, CommitRefines, PgSteps

\* The interleaved transactions implement the atomic store: for any number
\* of connections, any interleaving of their statements, any clocks and any
\* rolled-back writers, each commit is one step of RegistryStore and nothing
\* else writes.
THEOREM PgImplementsStore == PgSpec => ImplementsStore
PROOF
<1>1. PgInit => Abs!Init
  BY DEF PgInit, Init, Abs!Init
<1>2. PgInv /\ [PgNext]_pgVars => [vars' # vars /\ Abs!Next]_vars
  <2> SUFFICES ASSUME PgInv, [PgNext]_pgVars, ~ UNCHANGED vars
               PROVE  vars' # vars /\ Abs!Next
    BY DEF vars
  <2>1. PgNext
    BY DEF pgVars
  <2> QED BY <2>1, StepRefines
<1> QED BY <1>1, <1>2, PgInvariance, PTL DEF PgSpec, ImplementsStore

(***************************************************************************)
(* The answers.                                                            *)
(***************************************************************************)
\* An answer about a key that has a record.
LEMMA TrueKeyAnswer ==
    ASSUME IInv, NEW w \in Worker, NEW r, r = tx[w].req, r.key # NoKey,
           <<r.agent, r.key>> \in DOMAIN idem, KeyAnswer(w, r), UNCHANGED vars
    PROVE  TrueAnswer'
PROOF
<1> DEFINE rec == idem[<<r.agent, r.key>>]
           row == contexts[rec.ctx]
<1>1. /\ rec.ctx \in Stored /\ row.agent = r.agent /\ row.key = r.key
      /\ row.content = rec.content
  BY DEF IInv, KeyInv, IdemBacked
<1>2. contexts' = contexts /\ Stored' = Stored
  BY DEF vars, Stored
<1>3. /\ answer'.req = r /\ answer'.ctx = rec.ctx
      /\ answer'.result = IF rec.content = r.content THEN "replayed"
                          ELSE "duplicate_publish"
  BY DEF KeyAnswer, End
<1> HIDE DEF rec, row
<1>4. CASE rec.content = r.content
  BY <1>1, <1>2, <1>3, <1>4 DEF TrueAnswer, SameRequest, row
<1>5. CASE rec.content # r.content
  BY <1>1, <1>2, <1>3, <1>5 DEF TrueAnswer, SameRequest, row
<1> QED BY <1>4, <1>5

\* A refusal that says nothing of the stored contexts.
LEMMA TrueRefusal ==
    ASSUME NEW w, NEW result, NEW ctx, End(w, result, ctx),
           result \notin {"internal", "inserted", "replayed",
                          "duplicate_publish", "already_superseded"}
    PROVE  TrueAnswer'
PROOF
<1>1. answer'.result = result
  BY DEF End
<1> QED BY <1>1 DEF TrueAnswer

\* A superseded predecessor has a successor.
LEMMA TrueSuperseded ==
    ASSUME IInv, NEW w \in Worker, NEW p \in Stored,
           contexts[p].status = "superseded",
           End(w, "already_superseded", p), UNCHANGED vars,
           tx[w].req.key # NoKey => \A d \in Stored :
               SameRequest(tx[w].req, contexts[d]) =>
                   contexts[d].created + TTL <= clock + Skew
    PROVE  TrueAnswer'
PROOF
<1>1. \E d \in Stored : Prev(d) = p
  BY DEF IInv, LineageIsChain, SupersededIffSuccessor
<1>2. contexts' = contexts /\ Stored' = Stored /\ clock' = clock
  BY DEF vars, Stored
<1>3. /\ answer'.req = tx[w].req /\ answer'.ctx = p
      /\ answer'.result = "already_superseded"
  BY DEF End
<1>4. \E d \in Stored' : Prev(d)' = p
  BY <1>1, <1>2 DEF Prev
<1>5. tx[w].req.key # NoKey => \A d \in Stored' :
         SameRequest(tx[w].req, contexts'[d]) =>
             contexts'[d].created + TTL <= clock' + Skew
  BY <1>2
<1> QED BY <1>3, <1>4, <1>5 DEF TrueAnswer

\* What the statements of commit_publish tell the caller.
LEMMA StatementAnswers ==
    ASSUME PgInv, NEW w \in Worker, tx[w] \in PubTx, Statement(w),
           tx'[w].pc = "idle"
    PROVE  TrueAnswer'
PROOF
<1> DEFINE t == tx[w]
           r == t.req
           prev == r.content.supersedes
<1>1. IInv /\ TxsOK /\ TypeOK /\ w \in DOMAIN tx
  BY DEF PgInv, IInv, TxsOK
<1>2. PubInv(t) /\ UNCHANGED vars
  BY <1>1, PubWorking, StatementStep
<1>3. /\ t.op = "publish" /\ r \in Request /\ t.now \in Nat
      /\ t.pc \in {"idem", "predecessor", "recheck", "log", "claim", "readback",
                   "feed", "commit"}
  BY DEF PubTx
<1>4. /\ \A pc, ls : Goto(w, t, pc, ls) => tx'[w].pc = pc
      /\ \A x, pc, ls : Goto(w, [t EXCEPT !.lineage = x], pc, ls) => tx'[w].pc = pc
      /\ \A x, pc, ls : Goto(w, [t EXCEPT !.index = x], pc, ls) => tx'[w].pc = pc
      /\ \A x, pc, ls : Goto(w, [t EXCEPT !.locks = x], pc, ls) => tx'[w].pc = pc
      /\ \A x, pc, ls : Goto(w, [t EXCEPT !.base = x], pc, ls) => tx'[w].pc = pc
      /\ \A x, y, pc, ls :
            Goto(w, [t EXCEPT !.base = x, !.at = y], pc, ls) => tx'[w].pc = pc
  <2>1. t \in PubTx
    OBVIOUS
  <2> HIDE DEF t
  <2>2. /\ \A pc, ls : Goto(w, t, pc, ls) => tx'[w].pc = pc
        /\ \A x, pc, ls :
              Goto(w, [t EXCEPT !.lineage = x], pc, ls) => tx'[w].pc = pc
    BY <1>1, <2>1 DEF Goto, PubTx
  <2>3. /\ \A x, pc, ls :
              Goto(w, [t EXCEPT !.index = x], pc, ls) => tx'[w].pc = pc
        /\ \A x, pc, ls :
              Goto(w, [t EXCEPT !.locks = x], pc, ls) => tx'[w].pc = pc
    BY <1>1, <2>1 DEF Goto, PubTx
  <2>4. /\ \A x, pc, ls :
              Goto(w, [t EXCEPT !.base = x], pc, ls) => tx'[w].pc = pc
        /\ \A x, y, pc, ls :
              Goto(w, [t EXCEPT !.base = x, !.at = y], pc, ls) => tx'[w].pc = pc
    BY <1>1, <2>1 DEF Goto, PubTx
  <2> QED BY <2>2, <2>3, <2>4
<1>5. KeyKnown(t) /\ LinkKnown(t) /\ LeafKnown(t) /\ NowRead(t)
  BY <1>2 DEF PubInv
<1> HIDE DEF t
<1>6. CASE CheckIdem(w)
  <2>1. r.key # NoKey /\ IdemLive(r.agent, r.key, t.now) /\ KeyAnswer(w, r)
    BY <1>4, <1>6 DEF CheckIdem, t
  <2> QED BY <1>1, <1>2, <2>1, TrueKeyAnswer DEF IdemLive, t
<1>7. CASE LockPredecessor(w)
  <2> DEFINE outcome == SupersessionOutcome(r)
  <2>1. /\ prev # NoCtx /\ outcome # "ok" /\ End(w, outcome, prev)
        /\ outcome = "already_superseded" => r.key = NoKey
    BY <1>4, <1>7 DEF LockPredecessor, t
  <2>2. CASE outcome = "already_superseded"
    <3>1. prev \in Stored /\ contexts[prev].status = "superseded"
      BY <2>1, <2>2 DEF SupersessionOutcome
    <3> QED BY <1>1, <1>2, <2>1, <2>2, <3>1, TrueSuperseded DEF t
  <2>3. CASE outcome # "already_superseded"
    <3>1. outcome \in {"not_found", "lineage_mismatch", "version_mismatch"}
      BY <2>1, <2>3 DEF SupersessionOutcome
    <3> HIDE DEF outcome
    <3> QED BY <2>1, <3>1, TrueRefusal
  <2> QED BY <2>2, <2>3
<1>8. CASE Recheck(w)
  <2>1. t.pc = "recheck"
    BY <1>8 DEF Recheck, t
  <2>2. prev \in Stored /\ contexts[prev].status = "superseded" /\ r.key # NoKey
    BY <1>5, <2>1 DEF LinkKnown
  <2>3. CASE IdemLive(r.agent, r.key, t.now)
    <3>1. KeyAnswer(w, r)
      BY <1>8, <2>3 DEF Recheck, t
    <3> QED BY <1>1, <1>2, <2>2, <2>3, <3>1, TrueKeyAnswer DEF IdemLive, t
  <2>4. CASE ~ IdemLive(r.agent, r.key, t.now)
    <3>1. End(w, "already_superseded", prev)
      BY <1>8, <2>4 DEF Recheck, t
    <3>2. ASSUME NEW d \in Stored, SameRequest(r, contexts[d])
          PROVE  contexts[d].created + TTL <= clock + Skew
      <4> DEFINE k == <<r.agent, r.key>>
      <4>1. contexts[d].agent = r.agent /\ contexts[d].key = r.key
        BY <3>2 DEF SameRequest
      <4>2. \/ k \in DOMAIN idem /\ idem[k].ctx = d
            \/ contexts[d].created + TTL <= clock + Skew
        BY <1>1, <2>2, <4>1 DEF IInv, KeyInv, KeyProtected
      <4>3. ASSUME k \in DOMAIN idem, idem[k].ctx = d
            PROVE  contexts[d].created + TTL <= clock + Skew
        <5>1. idem[k].expires = contexts[d].created + TTL
          BY <1>1, <4>3 DEF IInv, KeyInv, IdemBacked
        <5>2. idem[k].expires \in Nat
          BY <1>1, <4>3 DEF TypeOK, IdemRow
        <5>3. idem[k].expires <= t.now
          BY <1>3, <2>4, <4>3, <5>2 DEF IdemLive, t
        <5>4. t.now <= clock + Skew /\ clock \in Nat /\ Skew \in Nat /\ t.now \in Nat
          BY <1>1, <1>3, <1>5, ParameterAssumption DEF NowRead, TypeOK, t
        <5> QED BY <5>1, <5>2, <5>3, <5>4
      <4> QED BY <4>2, <4>3
    <3> QED BY <1>1, <1>2, <2>2, <3>1, <3>2, TrueSuperseded DEF t
  <2> QED BY <2>3, <2>4
<1>9. CASE AppendLeaf(w)
  <2>1. LogEnabled /\ ~ t.mints
    BY <1>4, <1>9 DEF AppendLeaf, t
  <2> QED BY <1>5, <2>1 DEF LeafKnown
<1>10. CASE ClaimKey(w)
  BY <1>4, <1>10 DEF ClaimKey, t
<1>11. CASE ReadBack(w)
  <2>1. t.pc = "readback"
    BY <1>11 DEF ReadBack, t
  <2>2. r.key # NoKey
    BY <1>5, <2>1 DEF LinkKnown
  <2>3. <<r.agent, r.key>> \in DOMAIN idem
    BY <1>5, <2>1, <2>2 DEF KeyKnown, KeyOf
  <2>4. KeyAnswer(w, r)
    BY <1>11, <2>3 DEF ReadBack, t
  <2> QED BY <1>1, <1>2, <2>2, <2>3, <2>4, TrueKeyAnswer DEF t
<1>12. ASSUME NEW at \in FeedReadings, DrawPositions(w, at) PROVE FALSE
  BY <1>4, <1>12 DEF DrawPositions, t
<1>13. CASE Abort(w)
  BY <1>13, TrueRefusal DEF Abort
<1>14. ASSUME \/ \E now \in Readings : LockContext(w, now)
              \/ CheckEvent(w) \/ PlanBackfill(w) \/ ScanFeed(w)
       PROVE  FALSE
  BY <1>3, <1>14 DEF LockContext, CheckEvent, PlanBackfill, ScanFeed, t
<1> QED BY <1>6, <1>7, <1>8, <1>9, <1>10, <1>11, <1>12, <1>13, <1>14
        DEF Statement

\* What its commit tells the caller.
LEMMA CommitAnswers ==
    ASSUME PgInv, NEW w \in Worker, tx[w] \in PubTx, Commit(w)
    PROVE  TrueAnswer'
PROOF
<1> DEFINE t == tx[w]
<1>1. IInv /\ TxsOK /\ TypeOK /\ LineageIsChain
  BY DEF PgInv, IInv
<1>2. CommitPublish(w)
  <2>1. t.op = "publish" /\ t.pc # "delete"
    BY DEF PubTx
  <2> QED BY <2>1 DEF Commit, CommitEvent, CommitBackfill, DeleteAndCommit
<1>3. /\ PubInv(t) /\ End(w, "inserted", t.ctx)
      /\ \E b, a : Publish(t.ctx, t.req, t.mints, t.now, b, a)
  BY <1>1, <1>2, CommitIsPublish
<1>4. PICK b, a : Publish(t.ctx, t.req, t.mints, t.now, b, a)
  BY <1>3
<1>5. /\ t.ctx \in Ctx \ Stored /\ t.req \in Request /\ t.now \in Nat
  BY <1>3 DEF PubTx, PubInv
<1>6. t.mints \in BOOLEAN
  <2>1. t.mints \in Minting
    BY DEF PubTx
  <2> QED BY <2>1, ParameterAssumption
<1>7. PublishEffect(t.ctx, t.req, t.mints, t.now)
  BY <1>1, <1>4, <1>5, <1>6, PublishRow
<1>8. t.ctx \in Stored' /\ SameRequest(t.req, contexts'[t.ctx])
  BY <1>7 DEF PublishEffect, NewRow, SameRequest, Stored
<1>9. answer'.result = "inserted" /\ answer'.req = t.req /\ answer'.ctx = t.ctx
  BY <1>3 DEF End
<1> QED BY <1>8, <1>9 DEF TrueAnswer

\* A connection's transaction ends in a step of its own.
LEMMA OnlyOwnSteps ==
    ASSUME PgInv, PgNext, NEW w \in Worker, tx[w].pc # "idle", tx'[w].pc = "idle"
    PROVE  Statement(w) \/ Commit(w)
PROOF
<1>1. tx \in [Worker -> Tx]
  BY DEF PgInv, TxsOK
<1>2. ASSUME NEW v \in Worker, \E u : tx' = [tx EXCEPT ![v] = u]
      PROVE  v = w
  BY <1>1, <1>2
<1>3. ASSUME NEW v \in Worker, Begin(v) PROVE FALSE
  <2>1. tx[v].pc = "idle" /\ \E u : tx' = [tx EXCEPT ![v] = u]
    BY <1>3 DEF Begin, BeginPublish, BeginLifecycle, BeginBackfill, BeginPrune,
                Begun
  <2> QED BY <1>2, <2>1
<1>4. ASSUME NEW v \in Worker, Statement(v) PROVE v = w
  <2>1. \E u : tx' = [tx EXCEPT ![v] = u]
    BY <1>4 DEF Statement, CheckIdem, LockPredecessor, Recheck, AppendLeaf,
                ClaimKey, ReadBack, DrawPositions, LockContext, CheckEvent,
                PlanBackfill, ScanFeed, Abort, Goto, End, KeyAnswer
  <2> QED BY <1>2, <2>1
<1>5. ASSUME NEW v \in Worker, Commit(v) PROVE v = w
  <2>1. \E u : tx' = [tx EXCEPT ![v] = u]
    BY <1>5 DEF Commit, CommitPublish, CommitEvent, CommitBackfill,
                DeleteAndCommit, End
  <2> QED BY <1>2, <2>1
<1>6. ASSUME NEW now, EvictExpired(now) PROVE FALSE
  BY <1>6 DEF EvictExpired
<1>7. ASSUME PgTick PROVE FALSE
  BY <1>7 DEF PgTick
<1> QED BY <1>3, <1>4, <1>5, <1>6, <1>7, PgSteps

\* Whatever a publisher is told when its transaction ends is true of the
\* tables at that moment: a replay names the context of the same request, a
\* duplicate key stands for other content, a superseded predecessor has a
\* successor that is not this request's own as long as the key is remembered,
\* and no publish fails for want of a lock, a record or a leaf.
THEOREM PgAnswersAreTrue == PgSpec => AnswersAreTrue
PROOF
<1> DEFINE Answered ==
        \A w \in Worker :
            (tx[w].pc # "idle" /\ tx[w].op = "publish" /\ tx'[w].pc = "idle")
                => TrueAnswer'
<1>1. PgInv /\ [PgNext]_pgVars => [Answered]_pgVars
  <2> SUFFICES ASSUME PgInv, PgNext, NEW w \in Worker, tx[w].pc # "idle",
                      tx[w].op = "publish", tx'[w].pc = "idle"
               PROVE  TrueAnswer'
    BY DEF pgVars
  <2>1. tx[w] \in PubTx
    <3>1. tx[w] \in Tx
      BY DEF PgInv, TxsOK
    <3> QED BY <3>1, TxKinds
  <2>2. Statement(w) \/ Commit(w)
    BY OnlyOwnSteps
  <2> QED BY <2>1, <2>2, StatementAnswers, CommitAnswers
<1> QED BY <1>1, PgInvariance, PTL DEF PgSpec, AnswersAreTrue
=============================================================================
