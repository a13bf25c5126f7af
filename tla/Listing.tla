------------------------------- MODULE Listing -------------------------------
(***************************************************************************)
(* GET /contexts/search and GET /admin/contexts with their cursors, and    *)
(* the single reads whose tenant gate is a query of its own (retrieve,     *)
(* body, lineage, current), beside writers that publish, supersede,        *)
(* retract and stamp tenants.                                              *)
(*                                                                         *)
(* One client is followed.  It asks, is answered a page, and goes on with  *)
(* the cursor it was given.  Rows are ordered newest first; ctx_ids, which *)
(* break ties, are numbers here.                                           *)
(***************************************************************************)
EXTENDS Tenancy, Integers, FiniteSets, Sequences

CONSTANTS
    Ctx,           \* context ids
    Body,          \* [Ctx -> body]: owner, audience, visibility, expires,
                   \* tags, derived, words, lineage, tenant
    Stopwords,     \* words the text index ignores
    Queries,       \* the requests that may arrive
    PublicOpen,    \* capabilities.anonymous_public_reads
    Backend,       \* the backends to start from
    Tables,        \* the contexts tables to start from
    RefillMax,     \* SEARCH_REFILL_MAX_PAGES
    Never,         \* no expiry
    CursorTtl,     \* CURSOR_TTL_SECS, in ticks
    MaxTime,       \* bound: ticks
    MaxWrites      \* bound: writes after the start

\* SearchQuery, with the tenant its request resolved to; the single reads
\* use ctx and lineage of it.  Optional filters are None or empty, and ranges
\* are abstracted to created_after.
SearchQuery ==
    [op : {"search", "list", "retrieve", "body", "lineage", "current"},
     who : STRING, tenant : STRING, vis : STRING, agent : STRING,
     status : {"active", "superseded", "expired", "retracted"},
     tags : SUBSET STRING, words : SUBSET STRING, derived : SUBSET Ctx,
     after : Nat, limit : Nat \ {0}, ctx : Ctx, lineage : Nat]

ASSUME ListingAssumption ==
    /\ Queries \subseteq SearchQuery /\ PublicOpen \in BOOLEAN
    /\ Ctx \subseteq Nat /\ RefillMax \in Nat \ {0}
    /\ CursorTtl \in Nat /\ MaxTime \in Nat /\ MaxWrites \in Nat
    /\ Never > MaxTime
    /\ \A c \in Ctx : Body[c].expires \in Nat

\* A request never runs in the reserved tenant, and admin_list passes no
\* requester.
ASSUME QueryAssumption ==
    \A q \in Queries : q.tenant # Default /\ (q.op = "list" => q.who = None)

ContextRow ==
    [at : Nat, status : {"active", "superseded"}, retracted : BOOLEAN,
     tenant : {Default} \cup {Body[c].tenant : c \in Ctx}]

ASSUME TableAssumption ==
    \A t \in Tables :
        /\ DOMAIN t \subseteq Ctx /\ IsFiniteSet(DOMAIN t)
        /\ t \in [DOMAIN t -> ContextRow]

VARIABLES
    backend,       \* "sqlite" or "pg"
    clock,         \* the clock
    rows,          \* the contexts table
    read,          \* the request in flight
    served,        \* history: what the client was given, in order
    steady,        \* history: what it has been entitled to all along
    writes         \* writes so far

listVars == <<backend, clock, rows, read, served, steady, writes>>

Stored == DOMAIN rows

(***************************************************************************)
(* Disclosure, arm for arm.                                                *)
(***************************************************************************)
\* SEARCH_VISIBILITY_SQLITE and its Postgres twin: a private context is
\* found by its producer only.
SearchVisible(b, who, open) ==
    \/ b.visibility = "public" /\ (who # None \/ open)
    \/ /\ b.visibility = "restricted" /\ who # None
       /\ (b.owner = who \/ who \in b.audience)
    \/ b.visibility = "private" /\ who # None /\ b.owner = who

\* LIST_VISIBILITY_SQLITE: retrieval, where the audience covers private.
ListVisible(b, who, open) ==
    \/ b.visibility = "public" /\ (who # None \/ open)
    \/ who # None /\ (b.owner = who \/ who \in b.audience)

\* LIST_VISIBILITY_PG, over a jsonb audience.
ListVisiblePg(b, who, open) ==
    IF who = None THEN b.visibility = "public" /\ open
    ELSE b.visibility = "public" \/ who \in {b.owner} \cup b.audience

\* visible_ctx_ids: one disclosure predicate for a page of ids.
VisibleCtxIds(ids, who, tenant, open) ==
    {c \in ids \cap Stored : /\ ListVisible(Body[c], who, open)
                             /\ tenant # None => rows[c].tenant = tenant}

\* retrieve_visible, the rule in Rust.
RetrieveVisible(b, who, open) ==
    IF b.visibility = "public" THEN open \/ who # None
    ELSE who # None /\ (who = b.owner \/ who \in b.audience)

\* visible_ctx_ids of a backend that does not override it: an id at a time,
\* its row, the rule, then its tenant.
VisibleOneByOne(ids, who, tenant, open) ==
    {c \in ids : /\ c \in Stored
                 /\ RetrieveVisible(Body[c], who, open)
                 /\ tenant = None \/ tenant = rows[c].tenant}

(***************************************************************************)
(* The search statement.                                                   *)
(***************************************************************************)
\* project_status_inline over row_to_context's status.
Projected(r, b) ==
    IF r.retracted THEN "retracted"
    ELSE IF r.status = "active" /\ b.expires <= clock THEN "expired" ELSE r.status

\* Mutant: a retracted row is still active to the statement.
StatusSql_IgnoresFlag(q, r, b) ==
    CASE q.status = "retracted" -> r.retracted
      [] q.status = "active" -> r.status = "active" /\ b.expires > clock
      [] q.status = "expired" -> r.status = "active" /\ b.expires <= clock
      [] OTHER -> r.status = q.status

\* SEARCH_RETRACTED_SQLITE and the other status clauses.
StatusSql(q, r, b) ==
    CASE q.status = "retracted" -> r.retracted
      [] q.status = "active" ->
            ~ r.retracted /\ r.status = "active" /\ b.expires > clock
      [] q.status = "expired" ->
            ~ r.retracted /\ r.status = "active" /\ b.expires <= clock
      [] OTHER -> ~ r.retracted /\ r.status = q.status

\* fts5_escape: stopwords are dropped, and a query left with none matches
\* nothing.
TextSqlite(q, b) ==
    LET tokens == q.words \ Stopwords
    IN  q.words = {} \/ (tokens # {} /\ tokens \subseteq b.words)

\* plainto_tsquery: an empty query matches nothing.
TextPg(q, b) ==
    \/ q.words = {}
    \/ /\ \E w \in q.words : w \notin Stopwords
       /\ \A w \in q.words : w \in Stopwords \/ w \in b.words

\* search_in_tenant's clause.
InTenant(q, c) == q.tenant # None => rows[c].tenant = q.tenant

\* The clauses both statements have.
CommonSql(q, c) ==
    LET b == Body[c] IN
    /\ SearchVisible(b, q.who, PublicOpen)
    /\ InTenant(q, c)
    /\ q.agent # None => b.owner = q.agent
    /\ rows[c].at >= q.after
    /\ StatusSql(q, rows[c], b)

HasTags(q, c) == q.tags \subseteq Body[c].tags

HasStatus(q, c) == Projected(rows[c], Body[c]) = q.status

\* derived_from, an optional id: the set is empty or a singleton.
DerivedFrom(q, c) == q.derived \subseteq Body[c].derived

\* search_inner: what is in the statement and what is left to Rust.
SqliteSql(q, c) == CommonSql(q, c) /\ TextSqlite(q, Body[c])

SqlitePost(q, c) == HasStatus(q, c) /\ HasTags(q, c) /\ DerivedFrom(q, c)

PgSql(q, c) == CommonSql(q, c) /\ TextPg(q, Body[c]) /\ HasTags(q, c)

PgPost(q, c) == HasStatus(q, c) /\ DerivedFrom(q, c)

\* list_contexts: no filter but the visibility and the tenant.
ListSqlite(q, c) == ListVisible(Body[c], q.who, TRUE) /\ InTenant(q, c)

ListPg(q, c) == ListVisiblePg(Body[c], q.who, TRUE) /\ InTenant(q, c)

Sql(q, c) ==
    CASE q.op = "list" -> IF backend = "pg" THEN ListPg(q, c) ELSE ListSqlite(q, c)
      [] OTHER -> IF backend = "pg" THEN PgSql(q, c) ELSE SqliteSql(q, c)

Post(q, c) ==
    q.op = "list" \/ IF backend = "pg" THEN PgPost(q, c) ELSE SqlitePost(q, c)

(***************************************************************************)
(* Pages.                                                                  *)
(***************************************************************************)
\* ORDER BY created_at DESC, ctx_id ASC.
Before(c, e) == \/ rows[c].at > rows[e].at
                \/ rows[c].at = rows[e].at /\ c < e

NoCursor == [at |-> -1]

\* Mutant: the tie-break is dropped.
PastCursor_NoTie(cursor, c) ==
    cursor = NoCursor \/ rows[c].at < cursor.at

\* Mutant: the last row of a page is the first of the next.
PastCursor_Again(cursor, c) ==
    \/ cursor = NoCursor
    \/ rows[c].at < cursor.at
    \/ rows[c].at = cursor.at /\ c >= cursor.ctx

\* The keyset clause.
PastCursor(cursor, c) ==
    \/ cursor = NoCursor
    \/ rows[c].at < cursor.at
    \/ rows[c].at = cursor.at /\ c > cursor.ctx

\* encode_cursor.
EncodeCursor(c) == [at |-> rows[c].at, ctx |-> c, mint |-> clock]

\* decode_cursor, on a cursor this registry minted.
DecodeCursor(cursor) ==
    IF cursor # NoCursor /\ clock - cursor.mint > CursorTtl THEN "expired" ELSE "ok"

\* The first n of a set of rows, in order.
Ordered(cs) ==
    CHOOSE s \in [1 .. Cardinality(cs) -> cs] :
        \A i, j \in DOMAIN s : i < j => Before(s[i], s[j])

FirstOf(cs, n) == {c \in cs : Cardinality({e \in cs : Before(e, c)}) < n}

\* The last of a set of rows, in order.
LastOf(cs) == CHOOSE c \in cs : \A e \in cs : e = c \/ Before(e, c)

\* try_paginate_rows: the sentinel row says whether there is more, and the
\* cursor is the last row scanned, kept or not.
NextCursor(q, cursor, cs) ==
    LET page == FirstOf(cs, q.limit)
    IN  IF cs = page THEN NoCursor
        ELSE EncodeCursor(LastOf(page))

(***************************************************************************)
(* A listing.                                                              *)
(***************************************************************************)
NoRead == [pc |-> "idle"]

\* What a query asks for, whoever evaluates which part of it.
Meets(q, c) ==
    /\ SearchVisible(Body[c], q.who, PublicOpen) /\ q.tenant \in {None, rows[c].tenant}
    /\ q.agent \in {None, Body[c].owner} /\ rows[c].at >= q.after
    /\ HasStatus(q, c) /\ HasTags(q, c) /\ DerivedFrom(q, c)
    /\ q.words # {} => {} # q.words \ Stopwords
    /\ q.words \ Stopwords \subseteq Body[c].words

\* into_params and parse_visibility: a level that does not parse is no filter.
IntoVisibility(q) ==
    IF q.vis \in {"public", "restricted", "private"} THEN q.vis ELSE None

AtLevel(q, c) == IntoVisibility(q) \in {None, Body[c].visibility}

Wanted(q, c) ==
    /\ c \in Stored
    /\ IF q.op = "list"
       THEN Body[c].visibility = "public" /\ q.tenant \in {None, rows[c].tenant}
       ELSE Meets(q, c) /\ AtLevel(q, c)

Paging(q) == q.op \in {"search", "list"}

\* A request is under way; a tenant assertion that is refused ends it here.
Open(q, pc) ==
    /\ read = NoRead /\ q.tenant # Refused
    /\ read' = [pc |-> pc, q |-> q, cursor |-> NoCursor, next |-> NoCursor,
                found |-> {}, got |-> {}, scans |-> 0]
    /\ served' = <<>>
    /\ steady' = IF Paging(q) THEN {c \in Stored : Wanted(q, c)} ELSE {}
    /\ UNCHANGED <<backend, clock, rows, writes>>

\* search: refused to an anonymous caller unless the public arm is open.
BeginSearch(q) ==
    /\ q.op = "search" /\ (q.who = None => PublicOpen)
    /\ Open(q, "scan")

\* admin_list.
BeginList(q) == q.op = "list" /\ Open(q, "scan")

\* retrieve, lineage, current read first; retrieve_body asks for the tenant.
BeginRead(q) ==
    /\ ~ Paging(q)
    /\ Open(q, IF q.op = "body" THEN "gate" ELSE "fetch")

\* One statement: a page and the cursor after it.
Scan ==
    /\ read.pc = "scan"
    /\ \E cs \in {{c \in Stored : Sql(read.q, c) /\ PastCursor(read.cursor, c)}} :
          read' = [read EXCEPT
                      !.pc = "filter",
                      !.found = {c \in FirstOf(cs, read.q.limit) : Post(read.q, c)},
                      !.next = NextCursor(read.q, read.cursor, cs),
                      !.scans = @ + 1]
    /\ UNCHANGED <<backend, clock, rows, served, steady, writes>>

\* Mutant: a row that is not stamped yet passes.
OwnedBy_DefaultPasses(cs, tenant) ==
    {c \in cs \cap Stored : tenant = None \/ rows[c].tenant \in {Default, tenant}}

\* tenants_of_ctxs.
OwnedBy(cs, tenant) ==
    IF tenant = None THEN cs ELSE {c \in cs \cap Stored : rows[c].tenant = tenant}

\* Whether the handler scans on: the page is narrowed, short and not the
\* last, and the cap is not reached.
Refill(q, all) ==
    /\ q.op = "search" /\ (q.tenant # None \/ IntoVisibility(q) # None)
    /\ Cardinality(all) < q.limit /\ read.next # NoCursor
    /\ read.scans < RefillMax

\* run_search_with_refill after a page: narrow, re-check the owners, and
\* scan on or answer.
Filter ==
    /\ read.pc = "filter"
    /\ LET q == read.q
           kept == IF q.op = "list" THEN read.found
                   ELSE OwnedBy({c \in read.found : AtLevel(q, c)},
                                q.tenant)
           all == read.got \cup kept
       IN  IF Refill(q, all)
           THEN /\ read' = [read EXCEPT !.pc = "scan", !.got = all,
                                        !.cursor = read.next, !.found = {}]
                /\ UNCHANGED served
           ELSE /\ read' = [read EXCEPT !.got = {}, !.found = {}, !.scans = 0,
                                        !.cursor = read.next,
                                        !.pc = IF read.next = NoCursor THEN "done"
                                               ELSE "client"]
                /\ served' = served \o Ordered(all)
    /\ UNCHANGED <<backend, clock, rows, steady, writes>>

\* The client comes back with its cursor.
GoOn ==
    /\ read.pc = "client" /\ DecodeCursor(read.cursor) = "ok"
    /\ read' = [read EXCEPT !.pc = "scan"]
    /\ UNCHANGED <<backend, clock, rows, served, steady, writes>>

\* It comes back too late: cursor_expired, and it gives up.
TooLate ==
    /\ read.pc = "client" /\ DecodeCursor(read.cursor) = "expired"
    /\ read' = NoRead
    /\ UNCHANGED <<backend, clock, rows, served, steady, writes>>

Close ==
    /\ read.pc = "done"
    /\ read' = NoRead
    /\ UNCHANGED <<backend, clock, rows, served, steady, writes>>

(***************************************************************************)
(* The single reads.                                                       *)
(***************************************************************************)
\* The versions a single read is about: one row, a lineage, or its head.
Asked(q) ==
    LET versions == {c \in Stored : Body[c].lineage = q.lineage}
    IN  CASE q.op = "lineage" -> versions
          [] q.op = "current" -> {c \in versions : rows[c].status = "active"}
          [] OTHER -> Stored \cap {q.ctx}

\* server.retrieve, lineage, current: what the requester may see of it.
Fetch ==
    /\ read.pc = "fetch"
    /\ \E cs \in {VisibleCtxIds(Asked(read.q), read.q.who, None, PublicOpen)} :
          /\ read' = [read EXCEPT !.found = cs,
                                  !.pc = IF read.q.op = "body" \/ cs = {} THEN "done"
                                         ELSE "gate"]
          /\ served' = IF read.q.op = "body" THEN served \o Ordered(cs) ELSE served
    /\ UNCHANGED <<backend, clock, rows, steady, writes>>

\* The tenant gate: after the read, or for a body before it.
Gate ==
    /\ read.pc = "gate"
    /\ LET q == read.q
           asked == IF q.op = "body" THEN Stored \cap {q.ctx} ELSE read.found
           mine == OwnedBy(asked, q.tenant)
       IN  IF q.op = "body"
           THEN /\ read' = [read EXCEPT !.pc = IF mine = {} THEN "done" ELSE "fetch"]
                /\ UNCHANGED served
           ELSE /\ read' = [read EXCEPT !.pc = "done"]
                /\ served' = served \o Ordered(mine)
    /\ UNCHANGED <<backend, clock, rows, steady, writes>>

(***************************************************************************)
(* The writers.                                                            *)
(***************************************************************************)
\* Entitlement is lost for good when it lapses during the walk.
Keep ==
    steady' = IF read = NoRead \/ ~ Paging(read.q) THEN steady
              ELSE {c \in steady : Wanted(read.q, c)'}

Write ==
    /\ writes < MaxWrites /\ writes' = writes + 1
    /\ UNCHANGED <<backend, clock, read, served>>
    /\ Keep

\* insert_body: created_at may have been read before the write lock.
Insert(c, at, tenant) ==
    /\ c \notin Stored
    /\ rows' = [e \in Stored \cup {c} |->
                   IF e = c THEN [at |-> at, status |-> "active",
                                  retracted |-> FALSE, tenant |-> Column(tenant)]
                   ELSE rows[e]]
    /\ Write

\* set_tenant_of_ctx.
Stamp(c) ==
    /\ rows[c].tenant = Default /\ Body[c].tenant # None
    /\ rows' = [rows EXCEPT ![c].tenant = Body[c].tenant]
    /\ Write

\* commit_lifecycle_event's effect on the flag.
Flip(c) ==
    /\ rows' = [rows EXCEPT ![c].retracted = ~ @]
    /\ Write

\* commit_publish of a successor, and mark_superseded.
Supersede(c) ==
    /\ rows[c].status = "active"
    /\ rows' = [rows EXCEPT ![c].status = "superseded"]
    /\ Write

ClockTick ==
    /\ clock < MaxTime
    /\ clock' = clock + 1
    /\ UNCHANGED <<backend, rows, read, served, writes>>
    /\ Keep

ListInit ==
    /\ backend \in Backend
    /\ clock = 0 /\ rows \in Tables /\ read = NoRead
    /\ served = <<>> /\ steady = {} /\ writes = 0

Serve == Scan \/ Filter \/ GoOn \/ Fetch \/ Gate

ListNext ==
    \/ \E q \in Queries : BeginSearch(q) \/ BeginList(q) \/ BeginRead(q)
    \/ Serve \/ TooLate \/ Close
    \/ \E c \in Ctx, at \in {clock - 1, clock}, stamped \in BOOLEAN :
          at >= 0 /\ Insert(c, at, IF stamped THEN Body[c].tenant ELSE None)
    \/ \E c \in Stored : Stamp(c) \/ Flip(c) \/ Supersede(c)
    \/ ClockTick

ListSpec == ListInit /\ [][ListNext]_listVars

(***************************************************************************)
(* Properties.                                                             *)
(***************************************************************************)
\* Whoever follows next_cursor to its end has been given every context that
\* met the query all along, whatever was published, superseded, retracted or
\* expired meanwhile, and however many pages came back short or empty.
NothingMissed ==
    read.pc = "done" => steady \subseteq {served[i] : i \in DOMAIN served}

\* A walk gives nothing twice.
ServedOnce ==
    \A i, j \in DOMAIN served : served[i] = served[j] => i = j

\* Nothing a request returns is outside its tenant or hidden from its
\* requester, and neither is the row its cursor names: paging reveals no
\* position of a row the caller may not see.
NothingForeign ==
    read # NoRead =>
        LET q == read.q
            named == IF read.cursor = NoCursor THEN {} ELSE {read.cursor.ctx}
        IN  \A c \in named \cup {served[i] : i \in DOMAIN served} :
              /\ q.tenant # None => rows[c].tenant = q.tenant
              /\ CASE q.op = "search" -> SearchVisible(Body[c], q.who, PublicOpen)
                   [] q.op = "list" -> Body[c].visibility = "public"
                   [] OTHER -> ListVisible(Body[c], q.who, PublicOpen)

\* Both backends answer every search with what it asks for, though they
\* split it between the statement and Rust differently; what the statement
\* counts is never below the matches, and only of the projected status.
\* And the batched retrieval rule discloses what the single one does.
\* (Every table is reached with no request in flight.)
BackendsAgree ==
    read = NoRead => \A q \in {p \in Queries : p.op = "search"} :
        /\ VisibleCtxIds(Ctx, q.who, q.tenant, PublicOpen)
              = VisibleOneByOne(Ctx, q.who, q.tenant, PublicOpen)
        /\ \A c \in Ctx : ListVisiblePg(Body[c], q.who, PublicOpen)
                             = RetrieveVisible(Body[c], q.who, PublicOpen)
        /\ LET lite == {c \in Stored : SqliteSql(q, c)}
               pg == {c \in Stored : PgSql(q, c)}
               meant == {c \in Stored : Meets(q, c)}
           IN  /\ {c \in lite : SqlitePost(q, c)} = meant
               /\ {c \in pg : PgPost(q, c)} = meant
               /\ \A c \in lite \cup pg : HasStatus(q, c)

\* A walk to the end of a listing gives exactly what the caller may see of
\* the answer: all of it, once, and nothing else.
WalkIsExact == NothingMissed /\ ServedOnce /\ NothingForeign
=============================================================================
