------------------------------- MODULE Polling -------------------------------
(***************************************************************************)
(* GET /changes, and the consumers that follow its cursors.  A request     *)
(* reads the store several times; appends, prunes and restores happen in   *)
(* between.  An answer may be lost, in which case the consumer asks again  *)
(* with the cursor it holds.                                               *)
(***************************************************************************)
EXTENDS FeedRead

CONSTANTS
    Poller,        \* the readers that poll
    Limits,        \* `limit' values, after clamping to max_changes_page
    MaxLosses      \* bound: answers lost

ASSUME PollingAssumption == 
    /\ Poller \subseteq Reader /\ Limits \subseteq Nat \ {0}
    /\ MaxLosses \in Nat

VARIABLES
    poll,          \* per reader: its request in progress
    cursor,        \* per reader: the cursor it holds
    base,          \* history: where the reader's synchronisation began
    got,           \* history: the rows it has received since
    losses         \* answers lost so far

pollVars == <<poll, cursor, base, got, losses>>

pollingVars == <<feedVars, pollVars>>

NoCursor == [pos |-> -1]
Idle == [at |-> "idle"]

(***************************************************************************)
(* Cursors.                                                                *)
(***************************************************************************)
\* encode_cursor.
EncodeCursor(pos, anchor) == [pos |-> pos, anchor |-> anchor, epoch |-> epoch]

\* decode_cursor and parse_request's reading of its error: a cursor of
\* another key or epoch is expired.
Decodes(c) == c.epoch = epoch

HeadCursor == EncodeCursor(FeedHead.head, AnchorAt(FeedHead.head, FeedHead.fp))

(***************************************************************************)
(* The request.                                                            *)
(***************************************************************************)
Answer(r, a) == poll' = [poll EXCEPT ![r] = a]

Expired == [at |-> "answered", code |-> "cursor_expired"]

\* since=head.
PollHead(r) ==
    /\ poll[r] = Idle /\ cursor[r] = NoCursor
    /\ Answer(r, [at |-> "answered", code |-> "ok", out |-> {},
                  next |-> HeadCursor, more |-> FALSE,
                  base |-> FeedHead.head])

\* No `since': from the oldest retained entry.
PollOldest(r, limit) ==
    /\ poll[r] = Idle /\ cursor[r] = NoCursor
    /\ Answer(r, [at |-> "scan", ev |-> NewEvaluation(pruned.through, FALSE, limit),
                  base |-> pruned.through])

\* since=<cursor>: decoded, placed, and its anchor compared, which may take
\* a second read.
PollCursor(r, limit) ==
    /\ poll[r] = Idle /\ cursor[r] # NoCursor
    /\ LET c == cursor[r]
           go(at) == [at |-> at, ev |-> NewEvaluation(c.pos, TRUE, limit),
                      base |-> base[r]]
       IN  Answer(r, IF ~ Decodes(c) \/ ~ Placed(c.pos) THEN Expired
                     ELSE IF ~ AnchorAtMarker(c.anchor) THEN go("anchor")
                     ELSE IF AnchorHoldsAtMarker(c.anchor) THEN go("scan")
                     ELSE Expired)

CheckAnchor(r) ==
    /\ poll[r].at = "anchor"
    /\ Answer(r, IF AnchorHoldsInPage(cursor[r].anchor)
                 THEN [at |-> "scan", ev |-> poll[r].ev, base |-> poll[r].base]
                 ELSE Expired)

\* Without a cursor the request asked for what is retained: `base' keeps up
\* with the pruner until the scan has passed it.
Scan(r) ==
    /\ poll[r].at = "scan"
    /\ IF Overtaken(poll[r].ev) THEN Answer(r, Expired)
       ELSE \E page \in {Page(r, poll[r].ev)} :
            \E cut \in Cuts(r, poll[r].ev, page) :
            \E stop \in {StopAt(r, poll[r].ev, page, cut)} :
            \E ev \in {Scanned(r, poll[r].ev, page, stop)},
               b \in {IF poll[r].ev.check THEN poll[r].base
                      ELSE Max({poll[r].base, pruned.through})} :
               Answer(r, IF ~ ScanEnds(r, ev, page, stop)
                         THEN [at |-> "scan", base |-> b, ev |-> ev]
                         ELSE [at |-> "answered", code |-> "ok",
                               out |-> ev.out, base |-> b,
                               next |-> EncodeCursor(ev.pos,
                                           AnchorAt(ev.head, ev.fp)),
                               more |-> ev.pos < ev.head])

\* The consumer's side: it keeps the next cursor, or starts over.
Receive(r) ==
    /\ poll[r].at = "answered"
    /\ LET a == poll[r]
       IN  IF a.code = "ok"
           THEN /\ cursor' = [cursor EXCEPT ![r] = a.next]
                /\ got' = [got EXCEPT ![r] = @ \cup a.out]
                /\ base' = [base EXCEPT ![r] = a.base]
           ELSE /\ cursor' = [cursor EXCEPT ![r] = NoCursor]
                /\ got' = [got EXCEPT ![r] = {}]
                /\ UNCHANGED base
    /\ Answer(r, Idle)

\* A lost answer, a connection that drops, a process that stops.
Lose(r) ==
    /\ poll[r] # Idle /\ losses < MaxLosses
    /\ losses' = losses + 1
    /\ Answer(r, Idle)
    /\ UNCHANGED <<cursor, base, got>>

Request(r) ==
    /\ \/ PollHead(r)
       \/ \E limit \in Limits : PollOldest(r, limit) \/ PollCursor(r, limit)
       \/ CheckAnchor(r) \/ Scan(r)
    /\ UNCHANGED <<cursor, base, got>>

Client(r) == (Request(r) \/ Receive(r)) /\ UNCHANGED <<feedVars, losses>>

(***************************************************************************)
(* The specification.                                                      *)
(***************************************************************************)
PollInit ==
    /\ FeedInit
    /\ poll = [r \in Poller |-> Idle]
    /\ cursor = [r \in Poller |-> NoCursor]
    /\ base = [r \in Poller |-> 0]
    /\ got = [r \in Poller |-> {}]
    /\ losses = 0

\* A restore stops the registry: requests in progress die with it.
Reset ==
    /\ Restore
    /\ poll' = [r \in Poller |-> Idle]
    /\ UNCHANGED <<cursor, base, got, losses>>

PollNext ==
    \/ \E e \in Entry, seq \in 1 .. MaxSeq :
          AppendEntry(e, seq) /\ UNCHANGED pollVars
    \/ \E x \in feed : PruneFeed(x) /\ UNCHANGED pollVars
    \/ TakeBackup /\ UNCHANGED pollVars
    \/ Reset
    \/ \E r \in Poller : Client(r)
    \/ \E r \in Poller : Lose(r) /\ UNCHANGED feedVars

\* Consumers keep polling and the registry keeps answering.
PollFairness == \A r \in Poller : WF_pollingVars(Client(r))

PollSpec == PollInit /\ [][PollNext]_pollingVars /\ PollFairness

(***************************************************************************)
(* Properties.                                                             *)
(***************************************************************************)
\* The three forms of the watch filter agree on every row of the feed and
\* every watch: the bucket ranges the SQL backends scan are exactly the
\* prefixes the memory backend compares.
FilterParity ==
    \A r \in Reader, x \in feed :
        /\ SqliteMatches(r, x.entry) = Matches(r, x.entry)
        /\ PgMatches(r, x.entry) = Matches(r, x.entry)

\* A cursor that is served skips nothing: by the time a request is scanning
\* on from a cursor, its consumer has every change it may see between the
\* start of its synchronisation and the scan's position, whatever was
\* appended, pruned or put back by a restore meanwhile; and it has nothing it
\* may not see or did not ask for.
NothingSkipped ==
    \A r \in Poller :
        /\ poll[r].at = "scan" /\ poll[r].ev.check =>
              \A x \in appended :
                  Wants(r, x) /\ x.seq > base[r] /\ x.seq <= poll[r].ev.pos
                      => x \in got[r] \cup poll[r].ev.out
        /\ \A x \in got[r] : Wants(r, x)

\* A change the consumer asked for, may see and does not have yet.
Behind(r) ==
    /\ cursor[r] # NoCursor
    /\ \E x \in feed : Wants(r, x) /\ x.seq > base[r] /\ x \notin got[r]

\* A consumer that keeps polling is never left behind: it gets every change
\* it may see, unless the change is pruned or a restore takes it back first.
\* Hidden changes, full pages and the scan budget only delay it.
NeverLeftBehind == \A r \in Poller : []<> ~ Behind(r)
=============================================================================
