------------------------------ MODULE FeedRead ------------------------------
(***************************************************************************)
(* Reading the change feed: the snapshots a backend serves, the watch      *)
(* filter, and evaluate_changes, which pages through them for a reader.    *)
(* GET /changes (module Polling) and the hint worker (module Hints) share  *)
(* the evaluation, as they do in the code.                                 *)
(*                                                                         *)
(* The feed itself is kept by RegistryStore; here it is an environment     *)
(* that appends, prunes and, when the operator restores a backup or a      *)
(* memory backend restarts, goes back to an earlier state and continues    *)
(* from there with other changes.                                          *)
(***************************************************************************)
EXTENDS Integers, FiniteSets, FiniteSetsExt, Sequences

CONSTANTS
    Ctx, Agent, Reader,
    Entry,         \* the changes that can be appended, a subset of EntryType
    LineageOf,     \* [Ctx -> Ctx]: the lineage of a context
    ProducerOf,    \* [Ctx -> Agent]
    VisibleTo,     \* [Ctx -> SUBSET Reader]
    Watch,         \* [Reader -> filter]: what each reader asks for
    Hash,          \* bucket_hash: [Ctx \cup Agent -> Seq(0 .. MaxDigit)]
    MaxDigit,      \* the digit the code writes 'f'
    MinScanRows,   \* MIN_SCAN_ROWS
    MaxScans,      \* REFILL_MAX_SCANS
    MaxSeq,        \* bound: feed positions
    MaxEras,       \* bound: restores
    LegacyFeeds    \* whether the feed may have been pruned before migration
                   \* 020 recorded the marker's fingerprint: a set of BOOLEANs

VARIABLES
    feed,          \* table changes
    pruned,        \* changes_meta: [through, fp]
    era,           \* number of restores so far
    appended,      \* history: the rows of this era's feed, pruned ones too
    backup,        \* what a restore brings back
    epoch,         \* [changes] cursor_epoch, and the key cursors are sealed with
    legacy         \* the feed was pruned before migration 020

feedVars == <<feed, pruned, era, appended, backup, epoch, legacy>>

NoFp == <<"none">>
OriginFp == <<"origin">>      \* FEED_ORIGIN_FP

\* `about' is the successor of a superseded row; `agent' is the affected
\* producer, or the controller of a revoked key.
EntryType ==
    [kind : {"lifecycle", "superseded", "key_revocation"},
     ctx : Ctx, about : Ctx, agent : Agent]

\* `era' stands for appended_at_ms: rows of different eras at one position
\* were appended at different times.
Row == [seq : 1 .. MaxSeq, era : 0 .. MaxEras, entry : Entry]

ASSUME FeedReadAssumption ==
    /\ Entry \subseteq EntryType
    /\ LineageOf \in [Ctx -> Ctx] /\ ProducerOf \in [Ctx -> Agent]
    /\ VisibleTo \in [Ctx -> SUBSET Reader]
    /\ MinScanRows \in Nat /\ MaxScans \in Nat \ {0}
    /\ MaxSeq \in Nat \ {0} /\ MaxEras \in Nat
    /\ LegacyFeeds \subseteq BOOLEAN

\* Bucket::parse: a bucket is never longer than a stored hash.
ASSUME BucketAssumption ==
    /\ MaxDigit \in Nat
    /\ Hash \in [Ctx \cup Agent -> Seq(0 .. MaxDigit)]
    /\ \A r \in Reader :
          \A b \in Watch[r].lineageBucket \cup Watch[r].agentBucket :
             /\ b \in Seq(0 .. MaxDigit)
             /\ \A v \in Ctx \cup Agent : Len(b) <= Len(Hash[v])

(***************************************************************************)
(* Rows, markers and their fingerprints.                                   *)
(***************************************************************************)
Fingerprint(x) == <<x.seq, x.era, x.entry.kind, x.entry.ctx>>

\* read_head's query of the rows: the newest one, if there is any.
TopRow(rows) == {x \in rows : \A y \in rows : y.seq <= x.seq}

\* FeedHead::from_snapshot over that row and the marker.
FromSnapshot(rows, marker) ==
    LET top == {x \in TopRow(rows) : x.seq > marker.through}
    IN  [head |-> IF top # {} THEN (CHOOSE x \in top : TRUE).seq ELSE marker.through,
         fp |-> IF top # {} THEN Fingerprint(CHOOSE x \in top : TRUE)
                ELSE IF marker.through = 0 THEN OriginFp ELSE marker.fp]

\* The head of the feed as it is.
FeedHead == FromSnapshot(feed, pruned)

(***************************************************************************)
(* The watch filter.  A filter is a record of value sets; an empty one     *)
(* drops out of the OR.                                                    *)
(***************************************************************************)
\* Bucket::contains.
InBucket(b, h) == Len(b) <= Len(h) /\ SubSeq(h, 1, Len(b)) = b

\* Mutant: an all-`f' prefix wraps to zero.
BucketUpper_Wraps(b) ==
    LET below == {i \in DOMAIN b : b[i] # MaxDigit}
    IN  [i \in DOMAIN b |->
            IF below = {} \/ i > Max(below) THEN 0
            ELSE IF i = Max(below) THEN b[i] + 1 ELSE b[i]]

\* Bucket::range's upper bound: the prefix plus one as a number of the same
\* width; << >> when it is all `f' and there is none.
BucketUpper(b) ==
    LET below == {i \in DOMAIN b : b[i] # MaxDigit}
    IN  IF below = {} THEN << >>
        ELSE [i \in DOMAIN b |->
                IF i < Max(below) THEN b[i]
                ELSE IF i = Max(below) THEN b[i] + 1 ELSE 0]

\* Bytewise comparison of digit strings.
Before(g, h) ==
    \/ Len(g) < Len(h) /\ SubSeq(h, 1, Len(g)) = g
    \/ \E i \in DOMAIN g \cap DOMAIN h :
          /\ g[i] < h[i]
          /\ SubSeq(g, 1, i - 1) = SubSeq(h, 1, i - 1)

InRange(b, h) ==
    /\ ~ Before(h, b)
    /\ BucketUpper(b) # << >> => Before(h, BucketUpper(b))

\* The producers whose key revocations a ctx_id watch also matches: those of
\* the watched contexts the reader may see.
RevocationAgents(r) ==
    {ProducerOf[c] : c \in {d \in Watch[r].ctx : r \in VisibleTo[d]}}

HasIdClause(r) ==
    \/ \E f \in {"ctx", "lineage", "agent", "lineageBucket", "agentBucket"} :
          Watch[r][f] # {}
    \/ RevocationAgents(r) # {}

KindMatches(r, e) == Watch[r].kind = {} \/ e.kind \in Watch[r].kind

\* FeedQuery::matches, which the memory backend evaluates.
Matches(r, e) ==
    /\ \/ ~ HasIdClause(r)
       \/ e.ctx \in Watch[r].ctx
       \/ LineageOf[e.ctx] \in Watch[r].lineage
       \/ e.agent \in Watch[r].agent
       \/ e.kind = "key_revocation" /\ e.agent \in RevocationAgents(r)
       \/ \E b \in Watch[r].lineageBucket : InBucket(b, Hash[LineageOf[e.ctx]])
       \/ \E b \in Watch[r].agentBucket : InBucket(b, Hash[e.agent])
    /\ KindMatches(r, e)

\* page_query, SQLite: the arms of the OR, each an IN list or a range.
SqliteMatches(r, e) ==
    /\ HasIdClause(r) =>
          \/ \E arm \in {<<"ctx", e.ctx>>, <<"lineage", LineageOf[e.ctx]>>,
                         <<"agent", e.agent>>} :
                arm[2] \in Watch[r][arm[1]]
          \/ e.kind = "key_revocation" /\ e.agent \in RevocationAgents(r)
          \/ \E arm \in {<<"lineageBucket", Hash[LineageOf[e.ctx]]>>,
                         <<"agentBucket", Hash[e.agent]>>} :
                \E b \in Watch[r][arm[1]] : InRange(b, arm[2])
    /\ KindMatches(r, e)

\* page, Postgres: the non-empty arms, the revocation one among them.
PgMatches(r, e) ==
    LET ors == {arm \in {<<e.ctx, Watch[r].ctx, FALSE>>,
                         <<LineageOf[e.ctx], Watch[r].lineage, FALSE>>,
                         <<e.agent, Watch[r].agent, FALSE>>,
                         <<e.agent, RevocationAgents(r), TRUE>>} :
                  arm[2] # {}}
        buckets ==
            {<<Hash[LineageOf[e.ctx]], b>> : b \in Watch[r].lineageBucket}
            \cup {<<Hash[e.agent], b>> : b \in Watch[r].agentBucket}
    IN  /\ ors # {} \/ buckets # {} =>
              \/ \E arm \in ors :
                    /\ arm[3] => e.kind = "key_revocation"
                    /\ arm[1] \in arm[2]
              \/ \E p \in buckets : InRange(p[2], p[1])
        /\ KindMatches(r, e)

\* visibility_subject and the visible_ctx_ids lookup: bodies are immutable,
\* so who sees a context does not change.
VisibleEntry(r, e) ==
    CASE e.kind = "lifecycle" -> r \in VisibleTo[e.ctx]
      [] e.kind = "superseded" -> r \in VisibleTo[e.about]
      [] e.kind = "key_revocation" -> TRUE

Wants(r, x) == Matches(r, x.entry) /\ VisibleEntry(r, x.entry)

(***************************************************************************)
(* One page, read in one snapshot.                                         *)
(***************************************************************************)
ScanLimit(limit) == Max({limit, MinScanRows})

FirstRows(s, n) == {x \in s : Cardinality({y \in s : y.seq <= x.seq}) <= n}

\* changes_page, FeedPage::from_scan.
Page(r, ev) ==
    LET rows == FirstRows({x \in feed : x.seq > ev.pos /\ Matches(r, x.entry)},
                          ScanLimit(ev.limit))
        reachedHead == Cardinality(rows) < ScanLimit(ev.limit)
    IN  [rows |-> rows,
         reachedHead |-> reachedHead,
         lastScanned |-> IF reachedHead THEN Max({FeedHead.head, ev.pos})
                         ELSE Max({x.seq : x \in rows}),
         head |-> FeedHead.head, fp |-> FeedHead.fp,
         through |-> pruned.through]

(***************************************************************************)
(* evaluate_changes.  An evaluation in progress is the record the code     *)
(* keeps between its store calls.                                          *)
(***************************************************************************)
Anchor == [seq : 0 .. MaxSeq,
           fp : {OriginFp, NoFp} \cup {Fingerprint(x) : x \in Row}]

\* anchor_at.
AnchorAt(seq, fp) ==
    IF fp = NoFp THEN [seq |-> 0, fp |-> OriginFp] ELSE [seq |-> seq, fp |-> fp]

\* anchor_holds, from the markers the evaluation started with: the anchors
\* it can decide without reading the row.
AnchorAtMarker(a) == a.seq = 0 \/ a.seq >= FeedHead.head

AnchorHoldsAtMarker(a) ==
    /\ a.seq <= FeedHead.head
    /\ a.fp = IF a.seq = 0 THEN OriginFp ELSE FeedHead.fp

\* anchor_holds, with the anchor's row and the markers in one snapshot.
AnchorHoldsInPage(a) ==
    \/ a.seq = pruned.through /\ pruned.fp = a.fp
    \/ /\ a.seq > pruned.through
       /\ \E x \in feed : x.seq = a.seq /\ Fingerprint(x) = a.fp

\* A recorded position or a cursor's is served only inside the feed.
Placed(p) == p <= FeedHead.head /\ p >= pruned.through

\* An evaluation starts at `pos'; `check' is check_expiry, `limit' the
\* number of entries asked for.
NewEvaluation(pos, check, limit) ==
    [pos |-> pos, limit |-> limit, head |-> FeedHead.head, fp |-> FeedHead.fp,
     out |-> {}, scans |-> 0, check |-> check]

\* Mutant: rows are served unchecked.
Seen_All(r, page) == page.rows

Seen(r, page) == {x \in page.rows : VisibleEntry(r, x.entry)}

\* The rows the byte cap may cut a page at: never the answer's first.
Cuts(r, ev, page) ==
    {{}} \cup {{x.seq} : x \in {y \in Seen(r, page) :
                                 ev.out # {} \/ \E z \in Seen(r, page) :
                                                  z.seq < y.seq}}

Unbroken == MaxSeq + 1

\* Where the loop over a page's rows breaks off: at the first row past a
\* full answer or at the one the byte cap leaves out, before the position
\* moves to it.
StopAt(r, ev, page, cut) ==
    Min({Unbroken} \cup cut
        \cup {x.seq : x \in {y \in page.rows :
                  Cardinality(ev.out)
                    + Cardinality({z \in Seen(r, page) : z.seq < y.seq})
                      >= ev.limit}})

\* Mutant: only a row that is served moves the position.
PosAfter_ServedOnly(r, ev, page, stop) ==
    Max({ev.pos} \cup {x.seq : x \in {y \in Seen(r, page) : y.seq < stop}})

PosAfter(r, ev, page, stop) ==
    Max({ev.pos} \cup {x.seq : x \in {y \in page.rows : y.seq < stop}}
        \cup IF stop = Unbroken THEN {page.lastScanned} ELSE {})

\* One turn of the scan loop.
Scanned(r, ev, page, stop) ==
    [pos |-> PosAfter(r, ev, page, stop),
     head |-> IF page.head >= ev.head THEN page.head ELSE ev.head,
     fp |-> IF page.head >= ev.head THEN page.fp ELSE ev.fp,
     out |-> ev.out \cup {x \in Seen(r, page) : x.seq < stop},
     scans |-> ev.scans + 1, check |-> ev.check, limit |-> ev.limit]

\* The loop ends after turn `ev' of a page.
ScanEnds(r, ev, page, stop) ==
    \/ stop # Unbroken \/ page.reachedHead
    \/ Cardinality(ev.out) = ev.limit
    \/ ev.scans = MaxScans

\* Mutant: the pruner overtaking the scan goes unnoticed.
Overtaken_Never(ev) == FALSE

\* The pruner deleted rows this evaluation had not been served.
Overtaken(ev) == ev.check /\ pruned.through > ev.pos

(***************************************************************************)
(* The environment.                                                        *)
(***************************************************************************)
FeedInit ==
    /\ feed = {}
    /\ legacy \in LegacyFeeds
    /\ pruned = IF legacy THEN [through |-> 1, fp |-> NoFp]
                ELSE [through |-> 0, fp |-> NoFp]
    /\ era = 0
    /\ appended = {}
    /\ backup = [feed |-> feed, pruned |-> pruned, appended |-> {}]
    /\ epoch = 0

\* A committed append; positions may leave a gap where a writer rolled back.
AppendEntry(e, seq) ==
    /\ seq > FeedHead.head
    /\ LET x == [seq |-> seq, era |-> era, entry |-> e]
       IN  feed' = feed \cup {x} /\ appended' = appended \cup {x}
    /\ UNCHANGED <<pruned, era, backup, epoch, legacy>>

\* prune, through row x; the marker keeps the fingerprint of the last row
\* deleted.
PruneFeed(x) ==
    /\ feed' = {y \in feed : y.seq > x.seq}
    /\ pruned' = [through |-> x.seq, fp |-> Fingerprint(x)]
    /\ UNCHANGED <<era, appended, backup, epoch, legacy>>

TakeBackup ==
    /\ era < MaxEras
    /\ backup' = [feed |-> feed, pruned |-> pruned, appended |-> appended]
    /\ UNCHANGED <<feed, pruned, era, appended, epoch, legacy>>

\* The store goes back to the backup.  The runbook raises cursor_epoch; the
\* model lets the operator forget it, except where cursors of this feed can
\* lack an anchor.
Restore ==
    /\ era < MaxEras
    /\ era' = era + 1
    /\ feed' = backup.feed /\ pruned' = backup.pruned
    /\ appended' = backup.appended
    /\ epoch' = IF legacy THEN epoch + 1 ELSE epoch
    /\ UNCHANGED <<backup, legacy>>

=============================================================================
