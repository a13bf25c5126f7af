--------------------------- MODULE ContextReads ---------------------------
(***************************************************************************)
(* The read paths of the store, get, lineage and current, and the lineage  *)
(* audit an administrator may ask for, running beside the writers of       *)
(* RegistryStore.                                                          *)
(*                                                                         *)
(* Each read is two pool queries with no shared snapshot: first the        *)
(* context rows, then their lifecycle events.  Writers commit in between.  *)
(* One read is in flight at a time: reads change nothing, so they do not   *)
(* interfere with each other.                                              *)
(***************************************************************************)
EXTENDS RegistryStore

CONSTANTS
    ExpiresAt,     \* the bodies that carry expires_at, and its value
    NoRead         \* no read in flight; no reply yet

VARIABLES
    read,          \* the read in flight: what was asked, the rows it read
    reply          \* the last reply: statuses and, beside them, events

readVars == <<read, reply>>

\* What is asked for, by ctx_id or by lineage_id.
Query ==
    [op : {"get"}, id : Ctx]
    \cup [op : {"lineage", "current", "audit"}, id : Lineage]

ASSUME ExpiryAssumption ==
    /\ DOMAIN ExpiresAt \subseteq Content
    /\ \A b \in DOMAIN ExpiresAt : ExpiresAt[b] \in Nat

Matching(q) ==
    {c \in Stored : IF q.op = "get" THEN c = q.id
                    ELSE contexts[c].lineage = q.id}

\* row_to_context: the retracted flag dominates the stored status.
RowStatus(row) == IF row.retracted THEN "retracted" ELSE row.status

\* Mutant: the row's status alone.
Reconciled_RowOnly(status, s) == status

\* reconcile_retraction: retraction wins from either source.
Reconciled(status, s) ==
    IF status = "retracted" \/ RetractionState(s) THEN "retracted" ELSE status

\* Mutant: expiry dominates.
Projected_ExpiryFirst(status, body, now) ==
    IF body \in DOMAIN ExpiresAt /\ ExpiresAt[body] <= now
    THEN "expired" ELSE status

\* project_status_inline: only an active context expires.
Projected(status, body, now) ==
    IF /\ status = "active"
       /\ body \in DOMAIN ExpiresAt /\ ExpiresAt[body] <= now
    THEN "expired" ELSE status

\* The statuses served for the rows read, with the events as they are now.
Served(rows, now) ==
    [c \in DOMAIN rows |->
        Projected(Reconciled(RowStatus(rows[c]), events[c]),
                  rows[c].content, now)]

\* Mutant: only a retracted version is passed over.
IsHead_Superseded(rows, served, c) ==
    /\ served[c] # "retracted"
    /\ \A d \in DOMAIN rows : served[d] # "retracted" =>
          rows[d].content.version <= rows[c].content.version

\* current: the newest version neither superseded nor retracted.
IsHead(rows, served, c) ==
    /\ served[c] \notin {"superseded", "retracted"}
    /\ \A d \in DOMAIN rows : served[d] \notin {"superseded", "retracted"} =>
          rows[d].content.version <= rows[c].content.version

(***************************************************************************)
(* audit_lineage: the checks made of a lineage as it is served.            *)
(***************************************************************************)
\* The place of a version in the lineage, which is served by version.
Place(rows, c) ==
    Cardinality({d \in DOMAIN rows :
                    rows[d].content.version <= rows[c].content.version})

\* 1: versions count from 1 without a gap.
VersionGap(rows) ==
    \E c \in DOMAIN rows : rows[c].content.version # Place(rows, c)

\* 2: the lineage_id is the one derived from the first version, in every row.
WrongLineage(rows, l) ==
    \E c \in DOMAIN rows :
        rows[c].lineage # l \/ (Place(rows, c) = 1 /\ c # l)

\* 3: each version but the first supersedes the one before it, and its
\* producer owned that one.
BrokenLink(rows) ==
    \E d \in DOMAIN rows :
        IF Place(rows, d) = 1 THEN rows[d].content.supersedes # NoCtx
        ELSE \E c \in DOMAIN rows :
                /\ Place(rows, d) = Place(rows, c) + 1
                /\ \/ rows[d].content.supersedes # c
                   \/ rows[d].agent \notin
                         {rows[c].agent} \cup rows[c].content.contributors

\* Mutant: an expired version is no tip.
Tips_Active(rows, served) == {c \in DOMAIN rows : served[c] = "active"}

\* 4: the versions not served as superseded.
Tips(rows, served) == {c \in DOMAIN rows : served[c] # "superseded"}

AuditIssues(rows, served, l) ==
    {i \in {"version_gap", "wrong_lineage", "broken_link", "tips"} :
        CASE i = "version_gap" -> VersionGap(rows)
          [] i = "wrong_lineage" -> WrongLineage(rows, l)
          [] i = "broken_link" -> BrokenLink(rows)
          [] i = "tips" ->
                \/ Cardinality(Tips(rows, served)) # 1
                \/ \E c \in DOMAIN rows : /\ served[c] = "superseded"
                                          /\ Place(rows, c) = Cardinality(DOMAIN rows)}

\* The first query; a get that finds no row is over.
ReadRows(q) ==
    /\ read = NoRead
    /\ LET rows == [c \in Matching(q) |-> contexts[c]]
       IN  IF q.op = "get" /\ Matching(q) = {}
           THEN /\ reply' = [status |-> rows, events |-> rows, issues |-> {}]
                /\ UNCHANGED read
           ELSE /\ read' = [query |-> q, rows |-> rows]
                /\ reply' = NoRead
    /\ UNCHANGED vars

\* The second query and the projection; current keeps only the head, and an
\* audit of a lineage without versions is not found.
ReadEvents(now) ==
    /\ read # NoRead
    /\ LET rows == read.rows
           served == Served(rows, now)
           kept == IF read.query.op # "current" THEN DOMAIN rows
                   ELSE {c \in DOMAIN rows : IsHead(rows, served, c)}
       IN  reply' = [status |-> [c \in kept |-> served[c]],
                     events |-> [c \in kept |-> events[c]],
                     issues |-> IF read.query.op # "audit" \/ kept = {} THEN {}
                                ELSE AuditIssues(rows, served, read.query.id)]
    /\ read' = NoRead
    /\ UNCHANGED vars

ReadInit == Init /\ read = NoRead /\ reply = NoRead

ReadNext ==
    \/ Next /\ UNCHANGED readVars
    \/ \E q \in Query : ReadRows(q)
    \/ \E now \in Readings : ReadEvents(now)

ReadSpec == ReadInit /\ [][ReadNext]_<<vars, readVars>>

(***************************************************************************)
(* Properties.                                                             *)
(***************************************************************************)
\* A context that was withdrawn when the read saw its row, or is withdrawn
\* when the read sees its events, is served as retracted, whatever else it
\* is and whatever commits in between.
RetractionNeverHidden ==
    [][(read # NoRead /\ read' = NoRead) =>
          \A c \in DOMAIN reply'.status :
              contexts[c].retracted \/ read.rows[c].retracted
                  => reply'.status[c] = "retracted"]_<<vars, readVars>>

\* A version that was superseded when the read began is never served as a
\* live one, expired or not.
SupersededNeverLive ==
    [][(read # NoRead /\ read' = NoRead) =>
          \A c \in DOMAIN reply'.status :
              read.rows[c].status = "superseded" =>
                  reply'.status[c] \in {"superseded", "retracted"}
      ]_<<vars, readVars>>

\* current serves at most one version, the newest the read saw, and no head
\* only for a lineage without versions or whose newest version was withdrawn
\* before or during the read: never an older version in its place.
HeadIsNewest ==
    [][(/\ read # NoRead /\ read' = NoRead /\ read.query.op = "current") =>
          LET newest == {c \in DOMAIN read.rows : \A d \in DOMAIN read.rows :
                            read.rows[d].content.version
                                <= read.rows[c].content.version}
          IN  /\ DOMAIN reply'.status \subseteq newest
              /\ DOMAIN reply'.status = {} => \A c \in newest :
                    contexts[c].retracted \/ read.rows[c].retracted
      ]_<<vars, readVars>>

\* The audit cries wolf about one thing only: on lineages the registry wrote,
\* whatever commits while it reads, it finds every link sound; and it counts
\* more than one tip exactly when a superseded version was withdrawn, which is
\* served as retracted and so no longer as superseded.
AuditBlamesOnlyRetraction ==
    [][(read # NoRead /\ read' = NoRead /\ read.query.op = "audit") =>
          /\ reply'.issues \subseteq {"tips"}
          /\ "tips" \in reply'.issues <=>
                \E c \in DOMAIN reply'.status :
                    /\ read.rows[c].status = "superseded"
                    /\ reply'.status[c] = "retracted"
      ]_<<vars, readVars>>

\* Whatever commits during a read, no served status is milder than what the
\* row or the events said: withdrawn contexts are served as retracted and
\* superseded ones never as live.
StatusNeverMilder == RetractionNeverHidden /\ SupersededNeverLive
=============================================================================
