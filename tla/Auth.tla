------------------------------- MODULE Auth -------------------------------
(***************************************************************************)
(* Authentication: the challenge handshake that turns a signed nonce into  *)
(* a bearer token, the validation of tokens, their revocation by their     *)
(* owners and by a peer's revocation feed, and the evictors.               *)
(*                                                                         *)
(* Handlers of several clients interleave at every store call.  The tables *)
(* are in the database: a restart loses the requests and the poller's      *)
(* state and keeps the tables.  Time is in ticks, Second of them to the    *)
(* second: the tables keep exact times and the claims of a token whole     *)
(* seconds.                                                                *)
(***************************************************************************)
EXTENDS Integers, Sequences, FiniteSets

CONSTANTS
    Agent,         \* agent DIDs
    Nonce,         \* challenge nonces
    Jti,           \* token ids this registry draws
    Client,        \* requests in progress at once
    None,          \* no value
    Second,        \* ticks per second
    ChallengeTtl,  \* auth.challenge_ttl_seconds
    TokenTtl,      \* auth.token_ttl_seconds
    Leeway,        \* auth.token_leeway_seconds
    Page,          \* the `limit' the poller asks for
    MaxFeed,       \* bound on the peer's feed
    MaxTime        \* bound on the modelled time

VARIABLES
    clock,         \* the time
    challenges,    \* table auth_challenges
    issued,        \* table issued_tokens: issued and revoked tokens
    saved,         \* table auth_revocation_poll_cursors, the peer's row
    req,           \* the request each client has in progress
    feed,          \* the peer's revocation feed
    poll,          \* the poller: its cursor and the batch it applies
    drawn,         \* history: every nonce drawn and the agent it was for
    tokens,        \* history: the tokens handed out
    dead           \* history: the jtis ever revoked

tables == <<challenges, issued, saved>>

history == <<drawn, tokens, dead>>

vars == <<clock, tables, req, feed, poll, history>>

ASSUME AuthAssumption ==
    /\ Second \in Nat \ {0} /\ Page \in Nat \ {0}
    /\ ChallengeTtl \in Nat \ {0} /\ TokenTtl \in Nat \ {0} /\ Leeway \in Nat
    /\ MaxFeed \in Nat /\ MaxTime \in Nat

\* DateTime::timestamp: whole seconds.
Sec(t) == t \div Second

\* tombstone_cutoff.
Cutoff(now) == now - Leeway * Second

Challenge == [agent : Agent, expires : Nat]

IssuedRow == [agent : Agent, expires : Nat, revoked : BOOLEAN]

Token == [jti : Jti, sub : Agent, exp : Nat, nonce : Nonce]

\* A token request: which nonce, for whom, with which expiry, signed by whom.
TokenRequest ==
    [nonce : Nonce, agent : Agent, expires : 0 .. Sec(MaxTime) + ChallengeTtl,
     signer : Agent]

\* A feed entry; it is dropped when its issuer is not the peer's or its exp
\* is malformed.
FeedEntry ==
    [jti : Jti, sub : Agent, exp : 0 .. Sec(MaxTime) + TokenTtl,
     kind : {"good", "dropped"}]

Idle == [at |-> "idle"]

Goto(k, r) == req' = [req EXCEPT ![k] = r]

\* The handler of k is over; every error is "refused".
Answer(k, result) == Goto(k, [at |-> "done", result |-> result])

(***************************************************************************)
(* The handshake.                                                          *)
(***************************************************************************)
\* issue_challenge.  A nonce is 24 random bytes, so it is new.
IssueChallenge(n, a) ==
    LET expires == clock + ChallengeTtl * Second
    IN  /\ n \notin DOMAIN drawn
        /\ challenges' = [m \in DOMAIN challenges \cup {n} |->
                            IF m = n THEN [agent |-> a, expires |-> expires]
                            ELSE challenges[m]]
        /\ drawn' = [m \in DOMAIN drawn \cup {n} |->
                        IF m = n THEN a ELSE drawn[m]]
        /\ UNCHANGED <<clock, issued, saved, req, feed, poll, tokens, dead>>

Without(f, x) == [y \in DOMAIN f \ {x} |-> f[y]]

\* Mutant: the record is deleted only with the token it pays for.
Consumed_Later(n) == challenges

\* DELETE .. RETURNING: whoever takes a nonce is the only one.
Consumed(n) == Without(challenges, n)

\* issue_token, steps 1 and 2.  The nonce is gone whatever comes of it.
TakeChallenge(k, r) ==
    /\ req[k].at = "idle"
    /\ LET rec == challenges[r.nonce]
       IN  IF /\ r.nonce \in DOMAIN challenges
              /\ rec.expires > clock
              /\ rec.agent = r.agent
              /\ Sec(rec.expires) = r.expires
           THEN Goto(k, [at |-> "check", request |-> r])
           ELSE Answer(k, "refused")
    /\ challenges' = Consumed(r.nonce)
    /\ UNCHANGED <<clock, issued, saved, feed, poll, history>>

\* Step 3, on a later reading of the clock, which also dates the token.
CheckExpiry(k) ==
    LET r == req[k]
    IN  /\ r.at = "check"
        /\ IF Sec(clock) > r.request.expires THEN Answer(k, "refused")
           ELSE Goto(k, [at |-> "verify", request |-> r.request, now |-> clock])
        /\ UNCHANGED <<clock, tables, feed, poll, history>>

\* Steps 4 and 5: the DID is resolved, which may fail, and the signature must
\* be of the agent's key.  The claims get a fresh jti.
VerifySignature(k, j, resolved) ==
    LET r == req[k]
    IN  /\ r.at = "verify"
        /\ j \notin {t.jti : t \in tokens}
        /\ \A c \in Client : req[c].at = "record" => req[c].token.jti # j
        /\ IF ~ resolved THEN Answer(k, "refused")
           ELSE IF r.request.signer # r.request.agent
           THEN Answer(k, "refused")
           ELSE Goto(k, [at |-> "record",
                         until |-> r.now + TokenTtl * Second,
                         token |-> [jti |-> j, sub |-> r.request.agent,
                                    exp |-> Sec(r.now + TokenTtl * Second),
                                    nonce |-> r.request.nonce]])
        /\ UNCHANGED <<clock, tables, feed, poll, history>>

\* INSERT .. ON CONFLICT DO NOTHING: a row that is there stays.
Recorded(t, until) ==
    [j \in DOMAIN issued \cup {t.jti} |->
        IF j \in DOMAIN issued THEN issued[j]
        ELSE [agent |-> t.sub, expires |-> until, revoked |-> FALSE]]

\* Mutant: a token is handed out although recording it failed.
RecordIssued_BestEffort(k, stored) ==
    LET r == req[k]
        t == r.token
    IN  /\ r.at = "record"
        /\ issued' = IF stored THEN Recorded(t, r.until) ELSE issued
        /\ tokens' = tokens \cup {t}
        /\ Answer(k, "token")
        /\ UNCHANGED <<clock, challenges, saved, feed, poll, drawn, dead>>

\* record_issued, and only then the answer.
RecordIssued(k, stored) ==
    LET r == req[k]
        t == r.token
    IN  /\ r.at = "record"
        /\ IF stored
           THEN /\ issued' = Recorded(t, r.until)
                /\ tokens' = tokens \cup {t}
                /\ Answer(k, "token")
           ELSE Answer(k, "refused") /\ UNCHANGED <<issued, tokens>>
        /\ UNCHANGED <<clock, challenges, saved, feed, poll, drawn, dead>>

(***************************************************************************)
(* Validation, and revocation by the owner.                                *)
(***************************************************************************)
\* decode: external, the JWT library compares whole seconds.  A request to
\* revoke `target' comes with a bearer token of its own; any other request
\* has no target.
Decode(k, t, target) ==
    /\ req[k].at = "idle"
    /\ IF Sec(clock) <= t.exp + Leeway
       THEN Goto(k, [at |-> "revoked?", token |-> t, target |-> target])
       ELSE Answer(k, "refused")
    /\ UNCHANGED <<clock, tables, feed, poll, history>>

\* Mutant: tombstones are judged by the bare clock.
IsRevoked_NoLeeway(j) ==
    j \in DOMAIN issued /\ issued[j].revoked /\ issued[j].expires > clock

\* is_revoked, against the cutoff of now.
IsRevoked(j) ==
    j \in DOMAIN issued /\ issued[j].revoked /\ issued[j].expires > Cutoff(clock)

\* The rest of validate.
CheckRevoked(k) ==
    LET r == req[k]
    IN  /\ r.at = "revoked?"
        /\ IF IsRevoked(r.token.jti) THEN Answer(k, "refused")
           ELSE IF r.target = None THEN Answer(k, "accepted")
           ELSE Goto(k, [at |-> "owner", token |-> r.token, target |-> r.target])
        /\ UNCHANGED <<clock, tables, feed, poll, history>>

\* revoke_token: owner_of.
CheckOwner(k) ==
    LET r == req[k]
    IN  /\ r.at = "owner"
        /\ IF r.target \in DOMAIN issued /\ issued[r.target].agent = r.token.sub
           THEN Goto(k, [r EXCEPT !.at = "revoke"])
           ELSE Answer(k, "refused")
        /\ UNCHANGED <<clock, tables, feed, poll, history>>

\* RevocationStore::revoke: an upsert that keeps the expiry of a row.
Revoked(j, agent, expires) ==
    [i \in DOMAIN issued \cup {j} |->
        IF i # j THEN issued[i]
        ELSE IF j \in DOMAIN issued THEN [issued[j] EXCEPT !.revoked = TRUE]
        ELSE [agent |-> agent, expires |-> expires, revoked |-> TRUE]]

Revoke(k) ==
    LET r == req[k]
    IN  /\ r.at = "revoke"
        /\ issued' = Revoked(r.target, r.token.sub, clock + TokenTtl * Second)
        /\ dead' = dead \cup {r.target}
        /\ Answer(k, "revoked")
        /\ UNCHANGED <<clock, challenges, saved, feed, poll, drawn, tokens>>

\* A store call fails: take, is_revoked, owner_of or revoke.
StoreFails(k) ==
    /\ req[k].at \in {"idle", "revoked?", "owner", "revoke"}
    /\ Answer(k, "refused")
    /\ UNCHANGED <<clock, tables, feed, poll, history>>

Finish(k) ==
    /\ req[k].at = "done"
    /\ Goto(k, Idle)
    /\ UNCHANGED <<clock, tables, feed, poll, history>>

(***************************************************************************)
(* spawn_evictor.                                                          *)
(***************************************************************************)
Kept(f, cutoff) == [x \in {y \in DOMAIN f : f[y].expires > cutoff} |-> f[x]]

EvictChallenges ==
    /\ challenges' = Kept(challenges, clock)
    /\ UNCHANGED <<clock, issued, saved, req, feed, poll, history>>

EvictTokens ==
    /\ issued' = Kept(issued, Cutoff(clock))
    /\ UNCHANGED <<clock, challenges, saved, req, feed, poll, history>>

(***************************************************************************)
(* The revocation poller.  A feed position stands for revoked_at_ms.       *)
(***************************************************************************)
\* External: the peer revokes a token of the issuer it shares with this
\* registry.
PeerRevoke(e) ==
    /\ Len(feed) < MaxFeed
    /\ \E t \in tokens : t.jti = e.jti /\ t.sub = e.sub /\ t.exp = e.exp
    /\ feed' = Append(feed, e)
    /\ UNCHANGED <<clock, tables, req, poll, history>>

\* fetch_once: the entries after the cursor and, unless there are none, the
\* position of the last.  A failed fetch changes nothing.
Fetch ==
    LET last == IF Len(feed) < poll.cursor + Page THEN Len(feed)
                ELSE poll.cursor + Page
    IN  /\ poll.at = "idle" /\ poll.cursor < Len(feed)
        /\ poll' = [at |-> "apply", cursor |-> poll.cursor,
                    next |-> poll.cursor + 1, last |-> last, ok |-> TRUE]
        /\ UNCHANGED <<clock, tables, req, feed, history>>

\* apply_entries, one entry: a dropped one is as good as applied, a failed
\* write is remembered.
ApplyEntry(stored) ==
    LET e == feed[poll.next]
    IN  /\ poll.at = "apply" /\ poll.next <= poll.last
        /\ IF e.kind = "good" /\ stored
           THEN /\ issued' = Revoked(e.jti, e.sub, e.exp * Second)
                /\ dead' = dead \cup {e.jti}
           ELSE UNCHANGED <<issued, dead>>
        /\ poll' = [poll EXCEPT !.next = @ + 1,
                                !.ok = @ /\ (e.kind = "good" => stored)]
        /\ UNCHANGED <<clock, challenges, saved, req, feed, drawn, tokens>>

\* Mutant: the cursor advances past a batch that failed.
NextCursor_Always == poll.last

\* The batch is over; a failed one is fetched again.
NextCursor == IF poll.ok THEN poll.last ELSE poll.cursor

\* The cursor in memory moves also when saving it fails.
EndBatch(stored) ==
    /\ poll.at = "apply" /\ poll.next > poll.last
    /\ poll' = [at |-> "idle", cursor |-> NextCursor]
    /\ saved' = IF stored /\ NextCursor # poll.cursor THEN NextCursor ELSE saved
    /\ UNCHANGED <<clock, challenges, issued, req, feed, history>>

(***************************************************************************)
(* The rest.                                                               *)
(***************************************************************************)
\* The process restarts; a cursor that cannot be read is taken as 0.
Restart(cursor) ==
    /\ req' = [k \in Client |-> Idle]
    /\ poll' = [at |-> "idle", cursor |-> cursor]
    /\ UNCHANGED <<clock, tables, feed, history>>

Tick ==
    /\ clock < MaxTime
    /\ clock' = clock + 1
    /\ UNCHANGED <<tables, req, feed, poll, history>>

Init ==
    /\ clock = 0
    /\ challenges = [n \in {} |-> None]
    /\ issued = [j \in {} |-> None]
    /\ saved = 0
    /\ req = [k \in Client |-> Idle]
    /\ feed = << >>
    /\ poll = [at |-> "idle", cursor |-> 0]
    /\ drawn = [n \in {} |-> None]
    /\ tokens = {}
    /\ dead = {}

Handler(k) ==
    \/ \E r \in TokenRequest : TakeChallenge(k, r)
    \/ CheckExpiry(k)
    \/ \E j \in Jti, resolved \in BOOLEAN : VerifySignature(k, j, resolved)
    \/ \E stored \in BOOLEAN : RecordIssued(k, stored)
    \/ \E t \in tokens, target \in Jti \cup {None} :
          Decode(k, t, target)
    \/ CheckRevoked(k) \/ CheckOwner(k) \/ Revoke(k)
    \/ StoreFails(k) \/ Finish(k)

Poller ==
    \/ Fetch
    \/ \E stored \in BOOLEAN : ApplyEntry(stored) \/ EndBatch(stored)

Next ==
    \/ \E n \in Nonce, a \in Agent : IssueChallenge(n, a)
    \/ \E k \in Client : Handler(k)
    \/ EvictChallenges \/ EvictTokens
    \/ \E e \in FeedEntry : PeerRevoke(e)
    \/ Poller
    \/ \E cursor \in {0, saved} : Restart(cursor)
    \/ Tick

Spec == Init /\ [][Next]_vars

(***************************************************************************)
(* Properties.                                                             *)
(***************************************************************************)
\* Every row, request and batch is of its type.
TypeOK ==
    /\ clock \in Nat /\ saved \in Nat
    /\ DOMAIN challenges \subseteq Nonce
    /\ challenges \in [DOMAIN challenges -> Challenge]
    /\ DOMAIN issued \subseteq Jti
    /\ issued \in [DOMAIN issued -> IssuedRow]
    /\ feed \in Seq(FeedEntry)
    /\ tokens \subseteq Token
    /\ dead \subseteq Jti

\* A nonce is good for one token, and for the agent it was issued to, however
\* many requests race for it: the atomic take of issue_token.
OneTokenPerChallenge ==
    /\ \A t, u \in tokens : t.nonce = u.nonce => t = u
    /\ \A t \in tokens : t.nonce \in DOMAIN drawn /\ drawn[t.nonce] = t.sub

\* The end of the window in which every validator refuses a revoked token.
SafeUntil(t) == (t.exp + Leeway) * Second

\* A token in an agent's hands can be revoked by it: its row is there, under
\* the agent's name, from before the token is handed out until the evictor
\* may forget it.
TokensAreRevocable ==
    \A t \in tokens : clock < SafeUntil(t) =>
        t.jti \in DOMAIN issued /\ issued[t.jti].agent = t.sub

\* The step in which a bearer token is accepted.
Accepts(k) ==
    /\ req[k].at = "revoked?"
    /\ \/ req'[k].at = "owner"
       \/ req'[k].at = "done" /\ req'[k].result = "accepted"

\* A revoked token stays refused, by whomever and in whatever order it was
\* revoked, evicted and revoked again: to the end of the leeway after its
\* expiry.
RevokedStaysRefused ==
    [][\A k \in Client : Accepts(k) =>
          \/ req[k].token.jti \notin dead
          \/ clock >= SafeUntil(req[k].token)]_vars

\* The cursor passes no revocation that was not applied, in memory or in the
\* table, whatever writes fail and wherever the process restarts.
CursorSkipsNothing ==
    \A i \in 1 .. Len(feed) :
        (i <= saved \/ i <= poll.cursor) /\ feed[i].kind = "good" =>
            feed[i].jti \in dead
=============================================================================
