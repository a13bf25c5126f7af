---------------------------- MODULE AuthProofs ----------------------------
(***************************************************************************)
(* Authentication, proved for any number of agents, nonces, token ids and  *)
(* concurrent requests, and for every clock resolution, lifetime and       *)
(* leeway.                                                                 *)
(***************************************************************************)
EXTENDS Auth, TLAPS

(***************************************************************************)
(* The inductive invariant.                                                *)
(***************************************************************************)
Work ==
    [at : {"idle"}]
    \cup [at : {"check"}, request : TokenRequest]
    \cup [at : {"verify"}, request : TokenRequest, now : Nat]
    \cup [at : {"record"}, until : Nat, token : Token]
    \cup [at : {"revoked?", "owner", "revoke"}, token : Token,
          target : Jti \cup {None}]
    \cup [at : {"done"},
          result : {"refused", "accepted", "token", "revoked"}]

Drawn == {t.jti : t \in tokens}

\* A handler has taken the nonce and not yet answered.
Holds(r, n) ==
    \/ r.at \in {"check", "verify"} /\ r.request.nonce = n
    \/ r.at = "record" /\ r.token.nonce = n

\* Whom the handler will give the token to.
Payee(r) == IF r.at = "record" THEN r.token.sub ELSE r.request.agent

Typed ==
    /\ TypeOK
    /\ DOMAIN drawn \subseteq Nonce /\ drawn \in [DOMAIN drawn -> Agent]
    /\ req \in [Client -> Work]

\* A nonce is in one place: in the table, with one handler, or in a token.
NonceInOnePlace ==
    /\ \A n \in DOMAIN challenges :
          n \in DOMAIN drawn /\ challenges[n].agent = drawn[n]
    /\ \A k \in Client, n \in Nonce : Holds(req[k], n) =>
          /\ n \in DOMAIN drawn /\ n \notin DOMAIN challenges
          /\ drawn[n] = Payee(req[k])
          /\ \A t \in tokens : t.nonce # n
          /\ \A c \in Client : Holds(req[c], n) => c = k
    /\ \A t \in tokens :
          /\ t.nonce \in DOMAIN drawn /\ t.nonce \notin DOMAIN challenges
          /\ drawn[t.nonce] = t.sub
    /\ \A t, u \in tokens : t.nonce = u.nonce => t = u

\* What a request knows of the tokens it works on.
RequestOK(r, toks) ==
    /\ r.at = "record" =>
          /\ r.token.jti \notin {t.jti : t \in toks}
          /\ r.until >= r.token.exp * Second
    /\ r.at \in {"revoked?", "owner", "revoke"} => r.token \in toks
    /\ r.at = "revoke" => r.target \in {t.jti : t \in toks}

\* A token id is drawn once, and only ids of tokens are stored or revoked.
JtiDrawnOnce ==
    /\ \A t, u \in tokens : t.jti = u.jti => t = u
    /\ \A k \in Client : RequestOK(req[k], tokens)
    /\ \A k, c \in Client :
          /\ req[k].at = "record" /\ req[c].at = "record"
          /\ req[k].token.jti = req[c].token.jti
          => c = k
    /\ DOMAIN issued \subseteq Drawn /\ dead \subseteq Drawn
    /\ \A i \in DOMAIN feed : feed[i].jti \in Drawn

\* The row of a token is there until the end of its leeway, and says so when
\* the token is revoked.
RowOK(t, rows, gone) ==
    /\ t.jti \in DOMAIN rows
    /\ rows[t.jti].agent = t.sub
    /\ rows[t.jti].expires >= t.exp * Second
    /\ t.jti \in gone => rows[t.jti].revoked = TRUE

RowsKept == \A t \in tokens : clock < SafeUntil(t) => RowOK(t, issued, dead)

\* The first n entries of the feed are applied.
Applied(n, gone) ==
    \A i \in 1 .. Len(feed) :
        i <= n /\ feed[i].kind = "good" => feed[i].jti \in gone

PollIdle == [at : {"idle"}, cursor : Nat]

PollBusy == [at : {"apply"}, cursor : Nat, next : Nat, last : Nat, ok : BOOLEAN]

CursorOK ==
    /\ poll \in PollIdle \cup PollBusy
    /\ saved <= Len(feed) /\ poll.cursor <= Len(feed)
    /\ Applied(saved, dead) /\ Applied(poll.cursor, dead)
    /\ poll.at = "apply" =>
          /\ poll.next <= poll.last + 1 /\ poll.last <= Len(feed)
          /\ poll.next >= 1
          /\ poll.ok => Applied(poll.next - 1, dead)

AInv ==
    /\ Typed
    /\ NonceInOnePlace
    /\ JtiDrawnOnce
    /\ RowsKept
    /\ CursorOK

(***************************************************************************)
(* Facts about time.                                                       *)
(***************************************************************************)
LEMMA SecIs ==
    ASSUME NEW t \in Nat
    PROVE  Sec(t) \in Nat /\ Sec(t) * Second <= t
PROOF
<1>1. Second \in Nat \ {0}
  BY AuthAssumption
<1> QED BY <1>1 DEF Sec

LEMMA ProductsAreNat ==
    /\ \A n \in Nat : n * Second \in Nat
    /\ \A n \in Nat : (n + Leeway) * Second = n * Second + Leeway * Second
    /\ Leeway * Second \in Nat /\ TokenTtl * Second \in Nat
    /\ ChallengeTtl * Second \in Nat
PROOF
<1>1. Second \in Nat /\ Leeway \in Nat /\ TokenTtl \in Nat /\ ChallengeTtl \in Nat
  BY AuthAssumption
<1> QED BY <1>1

\* A token's leeway ends where its row may be evicted, and not before.
LEMMA SafeUntilIs ==
    ASSUME NEW t \in Token
    PROVE  /\ SafeUntil(t) = t.exp * Second + Leeway * Second
           /\ t.exp * Second \in Nat /\ Leeway * Second \in Nat
           /\ SafeUntil(t) \in Nat
PROOF
<1>1. t.exp \in Nat
  BY DEF Token
<1> QED BY <1>1, ProductsAreNat DEF SafeUntil

(***************************************************************************)
(* Steps that move one request and nothing else.                           *)
(***************************************************************************)
Rest == <<clock, tables, feed, poll, history>>

LEMMA MoveStep ==
    ASSUME AInv, NEW k \in Client, NEW r \in Work,
           Goto(k, r), UNCHANGED Rest,
           \A n \in Nonce : Holds(r, n) =>
               Holds(req[k], n) /\ Payee(r) = Payee(req[k]),
           RequestOK(r, tokens),
           r.at = "record" =>
               \A c \in Client : req[c].at = "record" =>
                   req[c].token.jti # r.token.jti
    PROVE  AInv'
PROOF
<1>1. /\ req' = [req EXCEPT ![k] = r] /\ req \in [Client -> Work]
      /\ clock' = clock /\ challenges' = challenges /\ issued' = issued
      /\ saved' = saved /\ feed' = feed /\ poll' = poll
      /\ drawn' = drawn /\ tokens' = tokens /\ dead' = dead
  BY DEF Goto, Rest, tables, history, AInv, Typed
<1>2. \A c \in Client : req'[c] = IF c = k THEN r ELSE req[c]
  BY <1>1
<1>3. Typed'
  BY <1>1 DEF AInv, Typed, TypeOK
<1>4. NonceInOnePlace'
  <2>1. \A c \in Client, n \in Nonce : Holds(req'[c], n) =>
           Holds(req[c], n) /\ Payee(req'[c]) = Payee(req[c])
    BY <1>2
  <2>2. NonceInOnePlace
    BY DEF AInv
  <2>3. \A c \in Client, n \in Nonce : Holds(req'[c], n) =>
          /\ n \in DOMAIN drawn /\ n \notin DOMAIN challenges
          /\ drawn[n] = Payee(req'[c])
          /\ \A t \in tokens : t.nonce # n
          /\ \A d \in Client : Holds(req'[d], n) => d = c
    BY <2>1, <2>2 DEF NonceInOnePlace
  <2> QED BY <1>1, <2>2, <2>3 DEF NonceInOnePlace
<1>5. JtiDrawnOnce'
  <2>1. JtiDrawnOnce
    BY DEF AInv
  <2>2. \A c \in Client : RequestOK(req'[c], tokens)
    BY <1>2, <2>1 DEF JtiDrawnOnce
  <2>3. \A d, c \in Client :
          /\ req'[d].at = "record" /\ req'[c].at = "record"
          /\ req'[d].token.jti = req'[c].token.jti
          => c = d
    BY <1>2, <2>1 DEF JtiDrawnOnce
  <2> QED BY <1>1, <2>1, <2>2, <2>3 DEF JtiDrawnOnce, Drawn
<1>6. RowsKept' /\ CursorOK'
  BY <1>1 DEF AInv, RowsKept, SafeUntil, CursorOK, Applied
<1> QED BY <1>3, <1>4, <1>5, <1>6 DEF AInv

\* A handler that answers lets go of everything.
LEMMA AnswerStep ==
    ASSUME AInv, NEW k \in Client,
           NEW x \in {"refused", "accepted", "token", "revoked"},
           Answer(k, x), UNCHANGED Rest
    PROVE  AInv'
PROOF
<1> DEFINE r == [at |-> "done", result |-> x]
<1>1. r \in Work
  BY DEF Work
<1>2. r.at = "done"
  OBVIOUS
<1>3. Goto(k, r)
  BY DEF Answer
<1> HIDE DEF r
<1>4. RequestOK(r, tokens) /\ \A n \in Nonce : ~ Holds(r, n)
  BY <1>2 DEF RequestOK, Holds
<1> QED BY <1>1, <1>2, <1>3, <1>4, MoveStep

\* What a request in progress is.
LEMMA WorkIs ==
    ASSUME NEW r \in Work
    PROVE  /\ r.at = "check" => r.request \in TokenRequest
           /\ r.at = "verify" => r.request \in TokenRequest /\ r.now \in Nat
           /\ r.at = "record" => r.until \in Nat /\ r.token \in Token
           /\ r.at \in {"revoked?", "owner", "revoke"} =>
                 /\ r.token \in Token /\ r.target \in Jti \cup {None}
                 /\ r = [at |-> r.at, token |-> r.token, target |-> r.target]
PROOF
  BY DEF Work

LEMMA CheckExpiryStep ==
    ASSUME AInv, NEW k \in Client, CheckExpiry(k)
    PROVE  AInv'
PROOF
<1> DEFINE old == req[k]
           r == [at |-> "verify", request |-> old.request, now |-> clock]
<1>1. old.at = "check" /\ UNCHANGED Rest /\ (Answer(k, "refused") \/ Goto(k, r))
  BY DEF CheckExpiry, Rest
<1>2. old \in Work /\ clock \in Nat
  BY DEF AInv, Typed, TypeOK
<1>3. old.request \in TokenRequest
  BY <1>1, <1>2, WorkIs
<1>4. r \in Work
  BY <1>2, <1>3 DEF Work
<1>5. r.at = "verify" /\ r.request = old.request
  OBVIOUS
<1> HIDE DEF r
<1>6. /\ RequestOK(r, tokens)
      /\ \A n \in Nonce : Holds(r, n) => Holds(old, n) /\ Payee(r) = Payee(old)
  BY <1>1, <1>5 DEF RequestOK, Holds, Payee
<1>7. CASE Answer(k, "refused")
  BY <1>1, <1>7, AnswerStep
<1>8. CASE Goto(k, r)
  BY <1>1, <1>4, <1>5, <1>6, <1>8, MoveStep
<1> QED BY <1>1, <1>7, <1>8

LEMMA VerifySignatureStep ==
    ASSUME AInv, NEW k \in Client, NEW j \in Jti, NEW resolved \in BOOLEAN,
           VerifySignature(k, j, resolved)
    PROVE  AInv'
PROOF
<1> DEFINE old == req[k]
           until == old.now + TokenTtl * Second
           t == [jti |-> j, sub |-> old.request.agent, exp |-> Sec(until),
                 nonce |-> old.request.nonce]
           r == [at |-> "record", until |-> until, token |-> t]
<1>1. /\ old.at = "verify" /\ UNCHANGED Rest
      /\ j \notin {u.jti : u \in tokens}
      /\ \A c \in Client : req[c].at = "record" => req[c].token.jti # j
      /\ Answer(k, "refused") \/ Goto(k, r)
  BY DEF VerifySignature, Rest
<1>2. old \in Work
  BY DEF AInv, Typed
<1>3. old.request \in TokenRequest /\ old.now \in Nat
  BY <1>1, <1>2, WorkIs
<1>4. until \in Nat /\ Sec(until) \in Nat /\ Sec(until) * Second <= until
  <2>1. until \in Nat
    BY <1>3, ProductsAreNat
  <2> QED BY <2>1, SecIs
<1> HIDE DEF until
<1>5. t \in Token
  BY <1>3, <1>4 DEF Token, TokenRequest
<1>6. /\ t.jti = j /\ t.exp = Sec(until)
      /\ t.nonce = old.request.nonce /\ t.sub = old.request.agent
  OBVIOUS
<1> HIDE DEF t
<1>7. r \in Work
  BY <1>4, <1>5 DEF Work
<1>8. r.at = "record" /\ r.until = until /\ r.token = t
  OBVIOUS
<1> HIDE DEF r
<1>9. RequestOK(r, tokens)
  BY <1>1, <1>4, <1>6, <1>8, ProductsAreNat DEF RequestOK
<1>10. \A n \in Nonce : Holds(r, n) => Holds(old, n) /\ Payee(r) = Payee(old)
  BY <1>1, <1>6, <1>8 DEF Holds, Payee
<1>11. CASE Answer(k, "refused")
  BY <1>1, <1>11, AnswerStep
<1>12. CASE Goto(k, r)
  BY <1>1, <1>6, <1>7, <1>8, <1>9, <1>10, <1>12, MoveStep
<1> QED BY <1>1, <1>11, <1>12

\* A request that is about a token, not about a nonce.
LEMMA BearerMoves ==
    ASSUME AInv, NEW k \in Client, NEW t \in tokens,
           NEW target \in Jti \cup {None},
           NEW at \in {"revoked?", "owner", "revoke"},
           at = "revoke" => target \in Drawn,
           Goto(k, [at |-> at, token |-> t, target |-> target]),
           UNCHANGED Rest
    PROVE  AInv'
PROOF
<1> DEFINE r == [at |-> at, token |-> t, target |-> target]
<1>1. t \in Token
  BY DEF AInv, Typed, TypeOK
<1>2. r \in Work
  BY <1>1 DEF Work
<1>3. r.at = at /\ r.token = t /\ r.target = target /\ Goto(k, r)
  OBVIOUS
<1> HIDE DEF r
<1>4. RequestOK(r, tokens) /\ \A n \in Nonce : ~ Holds(r, n)
  BY <1>3 DEF RequestOK, Holds, Drawn
<1> QED BY <1>2, <1>3, <1>4, MoveStep

LEMMA DecodeStep ==
    ASSUME AInv, NEW k \in Client, NEW t \in tokens,
           NEW target \in Jti \cup {None}, Decode(k, t, target)
    PROVE  AInv'
PROOF
<1>1. UNCHANGED Rest
  BY DEF Decode, Rest
<1>2. CASE Answer(k, "refused")
  BY <1>1, <1>2, AnswerStep
<1>3. CASE Goto(k, [at |-> "revoked?", token |-> t, target |-> target])
  BY <1>1, <1>3, BearerMoves
<1> QED BY <1>2, <1>3 DEF Decode

LEMMA CheckRevokedStep ==
    ASSUME AInv, NEW k \in Client, CheckRevoked(k)
    PROVE  AInv'
PROOF
<1> DEFINE old == req[k]
<1>1. old.at = "revoked?" /\ UNCHANGED Rest
  BY DEF CheckRevoked, Rest
<1>2. old \in Work /\ RequestOK(old, tokens)
  BY DEF AInv, Typed, JtiDrawnOnce
<1>3. old.token \in tokens /\ old.target \in Jti \cup {None}
  BY <1>1, <1>2, WorkIs DEF RequestOK
<1>4. CASE Answer(k, "refused")
  BY <1>1, <1>4, AnswerStep
<1>5. CASE Answer(k, "accepted")
  BY <1>1, <1>5, AnswerStep
<1>6. CASE Goto(k, [at |-> "owner", token |-> old.token, target |-> old.target])
  BY <1>1, <1>3, <1>6, BearerMoves
<1> QED BY <1>4, <1>5, <1>6 DEF CheckRevoked

LEMMA CheckOwnerStep ==
    ASSUME AInv, NEW k \in Client, CheckOwner(k)
    PROVE  AInv'
PROOF
<1> DEFINE old == req[k]
<1>1. old.at = "owner" /\ UNCHANGED Rest
  BY DEF CheckOwner, Rest
<1>2. old \in Work /\ RequestOK(old, tokens) /\ DOMAIN issued \subseteq Drawn
  BY DEF AInv, Typed, JtiDrawnOnce
<1>3. old.token \in tokens /\ old.target \in Jti \cup {None}
  BY <1>1, <1>2, WorkIs DEF RequestOK
<1>4. CASE Answer(k, "refused")
  BY <1>1, <1>4, AnswerStep
<1>5. CASE old.target \in DOMAIN issued /\ Goto(k, [old EXCEPT !.at = "revoke"])
  <2>1. [old EXCEPT !.at = "revoke"] =
          [at |-> "revoke", token |-> old.token, target |-> old.target]
    BY <1>1, <1>2, WorkIs
  <2>2. old.target \in Drawn
    BY <1>2, <1>5
  <2> HIDE DEF old
  <2> QED BY <1>1, <1>3, <1>5, <2>1, <2>2, BearerMoves
<1> QED BY <1>4, <1>5 DEF CheckOwner

LEMMA StoreFailsStep ==
    ASSUME AInv, NEW k \in Client, StoreFails(k)
    PROVE  AInv'
PROOF
  BY AnswerStep DEF StoreFails, Rest

LEMMA FinishStep ==
    ASSUME AInv, NEW k \in Client, Finish(k)
    PROVE  AInv'
PROOF
<1>1. Goto(k, Idle) /\ UNCHANGED Rest
  BY DEF Finish, Rest
<1>2. Idle \in Work /\ Idle.at = "idle"
  BY DEF Idle, Work
<1>3. RequestOK(Idle, tokens) /\ \A n \in Nonce : ~ Holds(Idle, n)
  BY <1>2 DEF RequestOK, Holds
<1> QED BY <1>1, <1>2, <1>3, MoveStep

(***************************************************************************)
(* The handshake.                                                          *)
(***************************************************************************)
LEMMA IssueChallengeStep ==
    ASSUME AInv, NEW n \in Nonce, NEW a \in Agent, IssueChallenge(n, a)
    PROVE  AInv'
PROOF
<1> DEFINE row == [agent |-> a, expires |-> clock + ChallengeTtl * Second]
<1>1. /\ n \notin DOMAIN drawn
      /\ challenges' = [m \in DOMAIN challenges \cup {n} |->
                            IF m = n THEN row ELSE challenges[m]]
      /\ drawn' = [m \in DOMAIN drawn \cup {n} |-> IF m = n THEN a ELSE drawn[m]]
      /\ UNCHANGED <<clock, issued, saved, req, feed, poll, tokens, dead>>
  BY DEF IssueChallenge
<1>2. row \in Challenge /\ row.agent = a
  <2>1. clock \in Nat /\ ChallengeTtl * Second \in Nat
    BY ProductsAreNat DEF AInv, Typed, TypeOK
  <2>2. clock + ChallengeTtl * Second \in Nat
    BY <2>1
  <2> QED BY <2>2 DEF Challenge
<1> HIDE DEF row
<1>3. Typed'
  BY <1>1, <1>2 DEF AInv, Typed, TypeOK
<1>4. NonceInOnePlace'
  <2>1. NonceInOnePlace
    BY DEF AInv
  <2>2. \A m \in DOMAIN drawn : m \in DOMAIN drawn' /\ drawn'[m] = drawn[m] /\ m # n
    BY <1>1
  <2>3. \A m \in DOMAIN drawn : m \notin DOMAIN challenges => m \notin DOMAIN challenges'
    BY <1>1
  <2>4. \A m \in DOMAIN challenges' :
            m \in DOMAIN drawn' /\ challenges'[m].agent = drawn'[m]
    BY <1>1, <1>2, <2>1 DEF NonceInOnePlace
  <2>5. \A k \in Client, m \in Nonce : Holds(req[k], m) =>
          /\ m \in DOMAIN drawn' /\ m \notin DOMAIN challenges'
          /\ drawn'[m] = Payee(req[k])
    BY <2>1, <2>2, <2>3 DEF NonceInOnePlace
  <2>6. \A t \in tokens :
          /\ t.nonce \in DOMAIN drawn' /\ t.nonce \notin DOMAIN challenges'
          /\ drawn'[t.nonce] = t.sub
    BY <2>1, <2>2, <2>3 DEF NonceInOnePlace
  <2> QED BY <1>1, <2>1, <2>4, <2>5, <2>6 DEF NonceInOnePlace
<1>5. JtiDrawnOnce' /\ RowsKept' /\ CursorOK'
  BY <1>1 DEF AInv, JtiDrawnOnce, Drawn, RowsKept, SafeUntil, CursorOK, Applied
<1> QED BY <1>3, <1>4, <1>5 DEF AInv

\* A table that loses challenges, and otherwise only one request moves.
LEMMA TakeStep ==
    ASSUME AInv, NEW k \in Client, NEW w \in Work, NEW r \in TokenRequest,
           req' = [req EXCEPT ![k] = w], w.at \in {"check", "done"},
           w.at = "check" =>
               /\ w.request = r /\ r.nonce \in DOMAIN challenges
               /\ challenges[r.nonce].agent = r.agent,
           challenges' = Without(challenges, r.nonce),
           UNCHANGED <<clock, issued, saved, feed, poll, history>>
    PROVE  AInv'
PROOF
<1>1. /\ \A c \in Client : req'[c] = IF c = k THEN w ELSE req[c]
      /\ DOMAIN challenges' = DOMAIN challenges \ {r.nonce}
      /\ \A n \in DOMAIN challenges' : challenges'[n] = challenges[n]
      /\ drawn' = drawn /\ tokens' = tokens /\ dead' = dead
  <2>1. \A c \in Client : req'[c] = IF c = k THEN w ELSE req[c]
    BY DEF AInv, Typed
  <2>2. /\ DOMAIN challenges' = DOMAIN challenges \ {r.nonce}
        /\ \A n \in DOMAIN challenges' : challenges'[n] = challenges[n]
    BY DEF Without
  <2> QED BY <2>1, <2>2 DEF history
<1>2. Typed'
  <2>1. req' \in [Client -> Work]
    BY DEF AInv, Typed
  <2>2. /\ challenges' \in [DOMAIN challenges' -> Challenge]
        /\ DOMAIN challenges' \subseteq Nonce
    BY DEF AInv, Typed, TypeOK, Without
  <2> QED BY <1>1, <2>1, <2>2 DEF AInv, Typed, TypeOK
<1>3. NonceInOnePlace'
  <2>1. NonceInOnePlace
    BY DEF AInv
  <2>2. \A c \in Client, n \in Nonce : Holds(req'[c], n) =>
          \/ c # k /\ Holds(req[c], n)
          \/ c = k /\ n = r.nonce /\ w.at = "check" /\ Payee(w) = r.agent
    BY <1>1 DEF Holds, Payee
  <2>3. \A c \in Client, n \in Nonce : Holds(req'[c], n) =>
          /\ n \in DOMAIN drawn /\ n \notin DOMAIN challenges'
          /\ drawn[n] = Payee(req'[c])
          /\ \A t \in tokens : t.nonce # n
          /\ \A d \in Client : Holds(req'[d], n) => d = c
    BY <1>1, <2>1, <2>2 DEF NonceInOnePlace
  <2> QED BY <1>1, <2>1, <2>3 DEF NonceInOnePlace
<1>4. JtiDrawnOnce'
  <2>1. JtiDrawnOnce
    BY DEF AInv
  <2>2. \A c \in Client : RequestOK(req'[c], tokens)
    BY <1>1, <2>1 DEF JtiDrawnOnce, RequestOK
  <2>3. \A d, c \in Client :
          /\ req'[d].at = "record" /\ req'[c].at = "record"
          /\ req'[d].token.jti = req'[c].token.jti
          => c = d
    BY <1>1, <2>1 DEF JtiDrawnOnce
  <2> QED BY <1>1, <2>1, <2>2, <2>3 DEF JtiDrawnOnce, Drawn
<1>5. RowsKept' /\ CursorOK'
  BY <1>1 DEF AInv, RowsKept, SafeUntil, CursorOK, Applied
<1> QED BY <1>2, <1>3, <1>4, <1>5 DEF AInv

LEMMA TakeChallengeStep ==
    ASSUME AInv, NEW k \in Client, NEW r \in TokenRequest, TakeChallenge(k, r)
    PROVE  AInv'
PROOF
<1> DEFINE taken == [at |-> "check", request |-> r]
           refused == [at |-> "done", result |-> "refused"]
<1>1. /\ challenges' = Without(challenges, r.nonce)
      /\ UNCHANGED <<clock, issued, saved, feed, poll, history>>
      /\ \/ /\ r.nonce \in DOMAIN challenges
            /\ challenges[r.nonce].agent = r.agent
            /\ req' = [req EXCEPT ![k] = taken]
         \/ req' = [req EXCEPT ![k] = refused]
  BY DEF TakeChallenge, Consumed, Goto, Answer
<1>2. taken \in Work /\ taken.at = "check" /\ taken.request = r
  BY DEF Work
<1>3. refused \in Work /\ refused.at = "done"
  BY DEF Work
<1> HIDE DEF taken, refused
<1> QED BY <1>1, <1>2, <1>3, TakeStep

LEMMA RecordIssuedStep ==
    ASSUME AInv, NEW k \in Client, NEW stored \in BOOLEAN,
           RecordIssued(k, stored)
    PROVE  AInv'
PROOF
<1> DEFINE old == req[k]
           t == old.token
           done == [at |-> "done", result |-> "token"]
<1>1. CASE ~ stored
  BY <1>1, AnswerStep DEF RecordIssued, Rest, tables, history
<1>2. CASE stored
  <2>1. /\ old.at = "record"
        /\ issued' = Recorded(t, old.until)
        /\ tokens' = tokens \cup {t}
        /\ req' = [req EXCEPT ![k] = done]
        /\ UNCHANGED <<clock, challenges, saved, feed, poll, drawn, dead>>
    BY <1>2 DEF RecordIssued, Answer, Goto
  <2>2. done \in Work /\ done.at = "done"
    BY DEF Work
  <2> HIDE DEF done
  <2>3. old \in Work /\ RequestOK(old, tokens)
    BY DEF AInv, Typed, JtiDrawnOnce
  <2>4. /\ t \in Token /\ old.until \in Nat /\ t.jti \notin Drawn
        /\ old.until >= t.exp * Second
    BY <2>1, <2>3, WorkIs DEF RequestOK, Drawn
  <2>5. t.jti \notin DOMAIN issued /\ t.jti \notin dead /\ t.jti \in Jti /\ t.sub \in Agent
    BY <2>4 DEF AInv, JtiDrawnOnce, Token
  <2>6. /\ DOMAIN issued' = DOMAIN issued \cup {t.jti}
        /\ \A j \in DOMAIN issued : issued'[j] = issued[j]
        /\ issued'[t.jti] =
             [agent |-> t.sub, expires |-> old.until, revoked |-> FALSE]
    BY <2>1, <2>5 DEF Recorded
  <2>7. \A c \in Client : req'[c] = IF c = k THEN done ELSE req[c]
    BY <2>1 DEF AInv, Typed
  <2>8. Holds(old, t.nonce) /\ Payee(old) = t.sub /\ t.nonce \in Nonce
    BY <2>1, <2>4 DEF Holds, Payee, Token
  <2>9. Typed'
    <3>1. req' \in [Client -> Work]
      BY <2>1, <2>2 DEF AInv, Typed
    <3>2. issued' \in [DOMAIN issued' -> IssuedRow]
      <4>1. [agent |-> t.sub, expires |-> old.until, revoked |-> FALSE] \in IssuedRow
        BY <2>4, <2>5 DEF IssuedRow
      <4> QED BY <2>1, <2>5, <4>1 DEF AInv, Typed, TypeOK, Recorded
    <3> QED BY <2>1, <2>4, <2>5, <2>6, <3>1, <3>2 DEF AInv, Typed, TypeOK
  <2>10. NonceInOnePlace'
    <3>1. NonceInOnePlace
      BY DEF AInv
    <3>2. \A c \in Client, n \in Nonce : Holds(req'[c], n) =>
              c # k /\ Holds(req[c], n) /\ req'[c] = req[c] /\ n # t.nonce
      BY <2>2, <2>7, <2>8, <3>1 DEF NonceInOnePlace, Holds
    <3>3. \A c \in Client, n \in Nonce : Holds(req'[c], n) =>
          /\ n \in DOMAIN drawn /\ n \notin DOMAIN challenges
          /\ drawn[n] = Payee(req'[c])
          /\ \A u \in tokens' : u.nonce # n
          /\ \A d \in Client : Holds(req'[d], n) => d = c
      BY <2>1, <3>1, <3>2 DEF NonceInOnePlace
    <3>4. \A u \in tokens' :
          /\ u.nonce \in DOMAIN drawn /\ u.nonce \notin DOMAIN challenges
          /\ drawn[u.nonce] = u.sub
      BY <2>1, <2>8, <3>1 DEF NonceInOnePlace
    <3>5. \A u, v \in tokens' : u.nonce = v.nonce => u = v
      BY <2>1, <2>8, <3>1 DEF NonceInOnePlace
    <3> QED BY <2>1, <3>1, <3>3, <3>4, <3>5 DEF NonceInOnePlace
  <2>11. JtiDrawnOnce'
    <3>1. JtiDrawnOnce
      BY DEF AInv
    <3>2. Drawn' = Drawn \cup {t.jti}
      BY <2>1 DEF Drawn
    <3>3. \A u, v \in tokens' : u.jti = v.jti => u = v
      BY <2>1, <2>4, <3>1 DEF JtiDrawnOnce, Drawn
    <3>4. \A c \in Client : RequestOK(req'[c], tokens')
      BY <2>1, <2>2, <2>7, <3>1 DEF JtiDrawnOnce, RequestOK
    <3>5. \A d, c \in Client :
          /\ req'[d].at = "record" /\ req'[c].at = "record"
          /\ req'[d].token.jti = req'[c].token.jti
          => c = d
      BY <2>2, <2>7, <3>1 DEF JtiDrawnOnce
    <3> QED BY <2>1, <2>6, <3>1, <3>2, <3>3, <3>4, <3>5 DEF JtiDrawnOnce
  <2>12. RowsKept'
    <3>1. RowsKept /\ tokens \subseteq Token /\ DOMAIN issued \subseteq Drawn
      BY DEF AInv, Typed, TypeOK, JtiDrawnOnce
    <3>2. RowOK(t, issued', dead)
      BY <2>4, <2>5, <2>6 DEF RowOK
    <3>3. \A u \in tokens : RowOK(u, issued, dead) => RowOK(u, issued', dead)
      BY <2>6 DEF RowOK
    <3> QED BY <2>1, <3>1, <3>2, <3>3 DEF RowsKept, SafeUntil
  <2>13. CursorOK'
    BY <2>1 DEF AInv, CursorOK, Applied
  <2> QED BY <2>9, <2>10, <2>11, <2>12, <2>13 DEF AInv
<1> QED BY <1>1, <1>2

(***************************************************************************)
(* Revocation, by the owner and by the poller.                             *)
(***************************************************************************)
\* An upsert in issued_tokens that marks a drawn id revoked.
LEMMA RevokedIs ==
    ASSUME AInv, NEW j \in Drawn, NEW a \in Agent, NEW e \in Nat,
           issued' = Revoked(j, a, e), dead' = dead \cup {j},
           clock' = clock, tokens' = tokens
    PROVE  /\ issued' \in [DOMAIN issued' -> IssuedRow]
           /\ DOMAIN issued' \subseteq Jti /\ DOMAIN issued' \subseteq Drawn
           /\ dead' \subseteq Jti /\ dead' \subseteq Drawn
           /\ RowsKept'
PROOF
<1> DEFINE new == [agent |-> a, expires |-> e, revoked |-> TRUE]
           old == [issued[j] EXCEPT !.revoked = TRUE]
<1>1. /\ issued \in [DOMAIN issued -> IssuedRow] /\ DOMAIN issued \subseteq Jti
      /\ dead \subseteq Jti /\ tokens \subseteq Token
      /\ DOMAIN issued \subseteq Drawn /\ dead \subseteq Drawn
      /\ RowsKept
      /\ \A t, u \in tokens : t.jti = u.jti => t = u
  BY DEF AInv, Typed, TypeOK, JtiDrawnOnce
<1>2. j \in Jti
  BY <1>1 DEF Drawn, Token
<1>3. new \in IssuedRow
  BY DEF IssuedRow
<1>4. j \in DOMAIN issued =>
        /\ old \in IssuedRow /\ old.revoked = TRUE
        /\ old.agent = issued[j].agent /\ old.expires = issued[j].expires
  BY <1>1 DEF IssuedRow
<1> HIDE DEF new, old
<1>5. issued' = [i \in DOMAIN issued \cup {j} |->
                    IF i # j THEN issued[i]
                    ELSE IF j \in DOMAIN issued THEN old ELSE new]
  BY DEF Revoked, new, old
<1>6. issued' \in [DOMAIN issued' -> IssuedRow]
  BY <1>1, <1>3, <1>4, <1>5
<1>7. /\ DOMAIN issued' \subseteq Jti /\ DOMAIN issued' \subseteq Drawn
      /\ dead' \subseteq Jti /\ dead' \subseteq Drawn
  BY <1>1, <1>2, <1>5
<1>8. \A t \in tokens : RowOK(t, issued, dead) => RowOK(t, issued', dead')
  BY <1>4, <1>5 DEF RowOK
<1> QED BY <1>1, <1>6, <1>7, <1>8 DEF RowsKept, SafeUntil

LEMMA RevokeStep ==
    ASSUME AInv, NEW k \in Client, Revoke(k)
    PROVE  AInv'
PROOF
<1> DEFINE old == req[k]
           done == [at |-> "done", result |-> "revoked"]
           e == clock + TokenTtl * Second
<1>1. /\ old.at = "revoke"
      /\ issued' = Revoked(old.target, old.token.sub, e)
      /\ dead' = dead \cup {old.target}
      /\ req' = [req EXCEPT ![k] = done]
      /\ UNCHANGED <<clock, challenges, saved, feed, poll, drawn, tokens>>
  BY DEF Revoke, Answer, Goto
<1>2. done \in Work /\ done.at = "done"
  BY DEF Work
<1> HIDE DEF done
<1>3. old \in Work /\ RequestOK(old, tokens)
  BY DEF AInv, Typed, JtiDrawnOnce
<1>4. old.target \in Drawn /\ old.token \in Token
  BY <1>1, <1>3, WorkIs DEF RequestOK, Drawn
<1>5. old.token.sub \in Agent
  BY <1>4 DEF Token
<1>6. e \in Nat
  <2>1. clock \in Nat /\ TokenTtl * Second \in Nat
    BY ProductsAreNat DEF AInv, Typed, TypeOK
  <2> QED BY <2>1
<1> HIDE DEF e
<1>7. /\ issued' \in [DOMAIN issued' -> IssuedRow]
      /\ DOMAIN issued' \subseteq Jti /\ DOMAIN issued' \subseteq Drawn
      /\ dead' \subseteq Jti /\ dead' \subseteq Drawn
      /\ RowsKept'
  BY <1>1, <1>4, <1>5, <1>6, RevokedIs
<1>8. \A c \in Client : req'[c] = IF c = k THEN done ELSE req[c]
  BY <1>1 DEF AInv, Typed
<1>9. Typed'
  <2>1. req' \in [Client -> Work]
    BY <1>1, <1>2 DEF AInv, Typed
  <2> QED BY <1>1, <1>7, <2>1 DEF AInv, Typed, TypeOK
<1>10. NonceInOnePlace'
  <2>1. \A c \in Client, n \in Nonce : Holds(req'[c], n) =>
            Holds(req[c], n) /\ req'[c] = req[c]
    BY <1>2, <1>8 DEF Holds
  <2>2. NonceInOnePlace
    BY DEF AInv
  <2>3. \A c \in Client, n \in Nonce : Holds(req'[c], n) =>
          /\ n \in DOMAIN drawn /\ n \notin DOMAIN challenges
          /\ drawn[n] = Payee(req'[c])
          /\ \A t \in tokens : t.nonce # n
          /\ \A d \in Client : Holds(req'[d], n) => d = c
    BY <2>1, <2>2 DEF NonceInOnePlace
  <2> QED BY <1>1, <2>2, <2>3 DEF NonceInOnePlace
<1>11. JtiDrawnOnce'
  <2>1. JtiDrawnOnce /\ Drawn' = Drawn
    BY <1>1 DEF AInv, Drawn
  <2>2. \A c \in Client : RequestOK(req'[c], tokens)
    BY <1>2, <1>8, <2>1 DEF JtiDrawnOnce, RequestOK
  <2>3. \A d, c \in Client :
          /\ req'[d].at = "record" /\ req'[c].at = "record"
          /\ req'[d].token.jti = req'[c].token.jti
          => c = d
    BY <1>2, <1>8, <2>1 DEF JtiDrawnOnce
  <2> QED BY <1>1, <1>7, <2>1, <2>2, <2>3 DEF JtiDrawnOnce
<1>12. CursorOK'
  BY <1>1 DEF AInv, CursorOK, Applied
<1> QED BY <1>7, <1>9, <1>10, <1>11, <1>12 DEF AInv

LEMMA ApplyEntryStep ==
    ASSUME AInv, NEW stored \in BOOLEAN, ApplyEntry(stored)
    PROVE  AInv'
PROOF
<1> DEFINE e == feed[poll.next]
           good == e.kind = "good" /\ stored
<1>1. /\ poll.at = "apply" /\ poll.next <= poll.last
      /\ IF good THEN /\ issued' = Revoked(e.jti, e.sub, e.exp * Second)
                      /\ dead' = dead \cup {e.jti}
         ELSE UNCHANGED <<issued, dead>>
      /\ poll' = [poll EXCEPT !.next = @ + 1,
                              !.ok = @ /\ (e.kind = "good" => stored)]
      /\ UNCHANGED <<clock, challenges, saved, req, feed, drawn, tokens>>
  BY DEF ApplyEntry
<1>2. /\ poll \in PollBusy
      /\ poll.next \in 1 .. Len(feed) /\ poll.last \in Nat /\ poll.last <= Len(feed)
      /\ feed \in Seq(FeedEntry)
      /\ e \in FeedEntry
  BY <1>1 DEF AInv, CursorOK, PollIdle, PollBusy, Typed, TypeOK
<1>3. e.jti \in Drawn /\ e.sub \in Agent /\ e.exp \in Nat
  <2>1. e.sub \in Agent /\ e.exp \in Nat
    BY <1>2 DEF FeedEntry
  <2>2. e.jti \in Drawn
    BY <1>2 DEF AInv, JtiDrawnOnce
  <2> QED BY <2>1, <2>2
<1>4. e.exp * Second \in Nat
  BY <1>3, ProductsAreNat
<1>5. /\ issued' \in [DOMAIN issued' -> IssuedRow]
      /\ DOMAIN issued' \subseteq Jti /\ DOMAIN issued' \subseteq Drawn
      /\ dead' \subseteq Jti /\ dead' \subseteq Drawn
      /\ dead \subseteq dead' /\ (good => e.jti \in dead')
      /\ RowsKept'
  <2>1. CASE good
    BY <1>1, <1>3, <1>4, <2>1, RevokedIs
  <2>2. CASE ~ good
    BY <1>1, <2>2 DEF AInv, Typed, TypeOK, JtiDrawnOnce, RowsKept, SafeUntil
  <2> QED BY <2>1, <2>2
<1>6. Typed' /\ NonceInOnePlace'
  BY <1>1, <1>5 DEF AInv, Typed, TypeOK, NonceInOnePlace
<1>7. JtiDrawnOnce'
  BY <1>1, <1>5 DEF AInv, JtiDrawnOnce, Drawn
<1>8. CursorOK'
  <2> DEFINE ok == poll.ok /\ (e.kind = "good" => stored)
  <2>1. /\ poll' \in PollBusy /\ poll'.next = poll.next + 1
        /\ poll'.last = poll.last /\ poll'.cursor = poll.cursor
        /\ poll'.at = "apply" /\ poll'.ok = ok
    <3>1. ok \in BOOLEAN /\ poll' = [poll EXCEPT !.next = poll.next + 1, !.ok = ok]
      BY <1>1, <1>2 DEF PollBusy
    <3> HIDE DEF ok
    <3>2. poll \in PollBusy /\ poll.next + 1 \in Nat
      BY <1>2
    <3>3. /\ poll'.next = poll.next + 1 /\ poll'.at = "apply"
          /\ poll'.last = poll.last /\ poll'.cursor = poll.cursor
      BY <3>1, <3>2 DEF PollBusy
    <3>4. poll'.ok = ok
      BY <3>1, <3>2, Zenon DEF PollBusy
    <3>5. poll' \in PollBusy
      BY <3>1, <3>2 DEF PollBusy
    <3> QED BY <3>3, <3>4, <3>5
  <2>2. Applied(saved, dead') /\ Applied(poll.cursor, dead')
    BY <1>5 DEF AInv, CursorOK, Applied
  <2>3. ok => Applied(poll.next, dead')
    <3>1. ok => Applied(poll.next - 1, dead)
      BY <1>1 DEF AInv, CursorOK
    <3>2. ok /\ e.kind = "good" => e.jti \in dead'
      BY <1>5
    <3>3. \A i \in 1 .. Len(feed) : i <= poll.next => i = poll.next \/ i <= poll.next - 1
      BY <1>2
    <3> QED BY <1>5, <3>1, <3>2, <3>3 DEF Applied
  <2>4. poll'.next - 1 = poll.next /\ poll'.next <= poll'.last + 1 /\ poll'.next >= 1
    BY <1>1, <1>2, <2>1
  <2> HIDE DEF ok
  <2>5. poll'.ok => Applied(poll'.next - 1, dead')
    BY <2>1, <2>3, <2>4
  <2>6. saved <= Len(feed) /\ poll.cursor <= Len(feed)
    BY DEF AInv, CursorOK
  <2> QED BY <1>1, <1>2, <2>1, <2>2, <2>4, <2>5, <2>6 DEF CursorOK, Applied
<1> QED BY <1>5, <1>6, <1>7, <1>8 DEF AInv

(***************************************************************************)
(* The evictors.                                                           *)
(***************************************************************************)
LEMMA EvictChallengesStep ==
    ASSUME AInv, EvictChallenges
    PROVE  AInv'
PROOF
<1>1. /\ DOMAIN challenges' \subseteq DOMAIN challenges
      /\ \A n \in DOMAIN challenges' : challenges'[n] = challenges[n]
      /\ challenges' = [n \in DOMAIN challenges' |-> challenges[n]]
      /\ UNCHANGED <<clock, issued, saved, req, feed, poll, drawn, tokens, dead>>
  BY DEF EvictChallenges, Kept, history
<1>2. Typed'
  <2>1. challenges' \in [DOMAIN challenges' -> Challenge]
    BY <1>1 DEF AInv, Typed, TypeOK
  <2> QED BY <1>1, <2>1 DEF AInv, Typed, TypeOK
<1>3. NonceInOnePlace'
  BY <1>1 DEF AInv, NonceInOnePlace
<1>4. JtiDrawnOnce' /\ RowsKept' /\ CursorOK'
  BY <1>1 DEF AInv, JtiDrawnOnce, Drawn, RowsKept, SafeUntil, CursorOK, Applied
<1> QED BY <1>2, <1>3, <1>4 DEF AInv

\* The evictor keeps the row of every token within its leeway.
LEMMA EvictTokensStep ==
    ASSUME AInv, EvictTokens
    PROVE  AInv'
PROOF
<1>1. /\ DOMAIN issued' = {j \in DOMAIN issued : issued[j].expires > Cutoff(clock)}
      /\ \A j \in DOMAIN issued' : issued'[j] = issued[j]
      /\ issued' = [j \in DOMAIN issued' |-> issued[j]]
      /\ UNCHANGED <<clock, challenges, saved, req, feed, poll, drawn, tokens, dead>>
  BY DEF EvictTokens, Kept, history
<1>2. Typed'
  <2>1. issued' \in [DOMAIN issued' -> IssuedRow]
    BY <1>1 DEF AInv, Typed, TypeOK
  <2> QED BY <1>1, <2>1 DEF AInv, Typed, TypeOK
<1>3. RowsKept'
  <2>1. \A t \in tokens : clock < SafeUntil(t) /\ RowOK(t, issued, dead)
                            => RowOK(t, issued', dead)
    <3> TAKE t \in tokens
    <3> HAVE clock < SafeUntil(t) /\ RowOK(t, issued, dead)
    <3>1. t \in Token /\ clock \in Nat /\ issued \in [DOMAIN issued -> IssuedRow]
      BY DEF AInv, Typed, TypeOK
    <3>2. issued[t.jti].expires \in Nat
      BY <3>1 DEF RowOK, IssuedRow
    <3>3. issued[t.jti].expires > Cutoff(clock)
      BY <3>1, <3>2, SafeUntilIs DEF RowOK, Cutoff
    <3> QED BY <1>1, <3>3 DEF RowOK
  <2> QED BY <1>1, <2>1 DEF AInv, RowsKept, SafeUntil
<1>4. NonceInOnePlace' /\ JtiDrawnOnce' /\ CursorOK'
  BY <1>1 DEF AInv, NonceInOnePlace, JtiDrawnOnce, Drawn, CursorOK, Applied
<1> QED BY <1>2, <1>3, <1>4 DEF AInv

(***************************************************************************)
(* The poller and the process.                                             *)
(***************************************************************************)
\* Steps of the poller and the peer that touch no table of tokens.
LEMMA PollStep ==
    ASSUME AInv, CursorOK', saved' \in Nat, feed' \in Seq(FeedEntry),
           \A i \in DOMAIN feed' : feed'[i].jti \in Drawn,
           UNCHANGED <<clock, challenges, issued, req, drawn, tokens, dead>>
    PROVE  AInv'
PROOF
<1>1. Typed' /\ NonceInOnePlace' /\ RowsKept'
  BY DEF AInv, Typed, TypeOK, NonceInOnePlace, RowsKept, SafeUntil
<1>2. JtiDrawnOnce'
  BY DEF AInv, JtiDrawnOnce, Drawn
<1> QED BY <1>1, <1>2 DEF AInv

LEMMA PeerRevokeStep ==
    ASSUME AInv, NEW e \in FeedEntry, PeerRevoke(e)
    PROVE  AInv'
PROOF
<1>1. /\ \E t \in tokens : t.jti = e.jti
      /\ feed' = Append(feed, e) /\ saved' = saved /\ poll' = poll
      /\ UNCHANGED <<clock, challenges, issued, req, drawn, tokens, dead>>
  BY DEF PeerRevoke, tables, history
<1>2. feed \in Seq(FeedEntry) /\ saved \in Nat
  BY DEF AInv, Typed, TypeOK
<1>3. /\ feed' \in Seq(FeedEntry) /\ Len(feed') = Len(feed) + 1
      /\ \A i \in 1 .. Len(feed) : feed'[i] = feed[i]
      /\ feed'[Len(feed) + 1] = e
  BY <1>1, <1>2
<1>4. \A i \in DOMAIN feed' : feed'[i].jti \in Drawn
  <2>1. \A i \in DOMAIN feed : feed[i].jti \in Drawn
    BY DEF AInv, JtiDrawnOnce
  <2>2. e.jti \in Drawn
    BY <1>1 DEF Drawn
  <2> QED BY <1>2, <1>3, <2>1, <2>2
<1>5. CursorOK /\ poll.cursor \in Nat /\ (poll.at = "apply" => poll.last \in Nat /\ poll.next \in Nat)
  BY DEF AInv, CursorOK, PollIdle, PollBusy
<1>6. \A n \in Nat : n <= Len(feed) /\ Applied(n, dead) => Applied(n, dead)'
  <2> TAKE n \in Nat
  <2> HAVE n <= Len(feed) /\ Applied(n, dead)
  <2>1. \A i \in 1 .. Len(feed') : i <= n => i \in 1 .. Len(feed) /\ feed'[i] = feed[i]
    BY <1>2, <1>3
  <2> QED BY <1>1, <2>1 DEF Applied
<1>7. CursorOK'
  <2>1. Applied(saved, dead)' /\ Applied(poll.cursor, dead)'
    BY <1>1, <1>2, <1>5, <1>6 DEF CursorOK
  <2>2. poll.at = "apply" /\ poll.ok => Applied(poll.next - 1, dead)'
    <3> SUFFICES ASSUME poll.at = "apply", poll.ok
                 PROVE  Applied(poll.next - 1, dead)'
      BY <1>1
    <3> DEFINE n == poll.next - 1
    <3>1. n \in Nat /\ n <= Len(feed) /\ Applied(n, dead)
      BY <1>2, <1>5 DEF CursorOK
    <3> HIDE DEF n
    <3>2. Applied(n, dead)'
      BY <1>1, <1>6, <3>1 DEF n
    <3> QED BY <3>2 DEF n
  <2>3. saved <= Len(feed') /\ poll.cursor <= Len(feed')
        /\ (poll.at = "apply" => poll.last <= Len(feed'))
    BY <1>2, <1>3, <1>5 DEF CursorOK
  <2> QED BY <1>1, <1>5, <2>1, <2>2, <2>3 DEF CursorOK
<1> QED BY <1>1, <1>2, <1>3, <1>4, <1>7, PollStep

LEMMA FetchStep ==
    ASSUME AInv, Fetch
    PROVE  AInv'
PROOF
<1> DEFINE last == IF Len(feed) < poll.cursor + Page THEN Len(feed)
                   ELSE poll.cursor + Page
           p == [at |-> "apply", cursor |-> poll.cursor,
                 next |-> poll.cursor + 1, last |-> last, ok |-> TRUE]
<1>1. /\ poll.at = "idle" /\ poll.cursor < Len(feed) /\ poll' = p
      /\ saved' = saved /\ feed' = feed
      /\ UNCHANGED <<clock, challenges, issued, req, drawn, tokens, dead>>
  BY DEF Fetch, tables, history
<1>2. /\ feed \in Seq(FeedEntry) /\ saved \in Nat /\ Page \in Nat \ {0}
      /\ poll.cursor \in Nat /\ CursorOK
      /\ \A i \in DOMAIN feed : feed[i].jti \in Drawn
  BY AuthAssumption DEF AInv, Typed, TypeOK, CursorOK, PollIdle, PollBusy, JtiDrawnOnce
<1>3. last \in Nat /\ last <= Len(feed) /\ poll.cursor + 1 <= last + 1
  BY <1>1, <1>2
<1> HIDE DEF last
<1>4. p \in PollBusy
  BY <1>2, <1>3 DEF PollBusy
<1>5. /\ p.at = "apply" /\ p.cursor = poll.cursor /\ p.next = poll.cursor + 1
      /\ p.last = last
  OBVIOUS
<1> HIDE DEF p
<1>6. p.next - 1 = poll.cursor /\ p.next >= 1 /\ p.next <= p.last + 1
  BY <1>2, <1>3, <1>5
<1>7. CursorOK'
  <2>1. Applied(poll.cursor, dead) /\ Applied(saved, dead) /\ poll.cursor <= Len(feed)
        /\ saved <= Len(feed)
    BY <1>2 DEF CursorOK
  <2> QED BY <1>1, <1>3, <1>4, <1>5, <1>6, <2>1 DEF CursorOK, Applied
<1> QED BY <1>1, <1>2, <1>7, PollStep

LEMMA EndBatchStep ==
    ASSUME AInv, NEW stored \in BOOLEAN, EndBatch(stored)
    PROVE  AInv'
PROOF
<1> DEFINE c == NextCursor
           p == [at |-> "idle", cursor |-> c]
<1>1. /\ poll.at = "apply" /\ poll.next > poll.last /\ poll' = p
      /\ saved' \in {saved, c} /\ feed' = feed
      /\ UNCHANGED <<clock, challenges, issued, req, drawn, tokens, dead>>
  BY DEF EndBatch, history
<1>2. /\ saved \in Nat /\ feed \in Seq(FeedEntry) /\ CursorOK
      /\ poll.cursor \in Nat /\ poll.last \in Nat /\ poll.next \in Nat
      /\ \A i \in DOMAIN feed : feed[i].jti \in Drawn
  BY <1>1 DEF AInv, Typed, TypeOK, CursorOK, PollIdle, PollBusy, JtiDrawnOnce
<1>3. c \in Nat /\ c <= Len(feed) /\ Applied(c, dead)
  <2>1. poll.next - 1 = poll.last
    BY <1>1, <1>2 DEF CursorOK
  <2> QED BY <1>1, <1>2, <2>1 DEF NextCursor, CursorOK
<1> HIDE DEF c
<1>4. p \in PollIdle /\ p.at = "idle" /\ p.cursor = c
  BY <1>3 DEF PollIdle
<1> HIDE DEF p
<1>5. CursorOK'
  <2>1. Applied(saved, dead) /\ saved <= Len(feed)
    BY <1>2 DEF CursorOK
  <2> QED BY <1>1, <1>3, <1>4, <2>1 DEF CursorOK, Applied
<1> QED BY <1>1, <1>2, <1>3, <1>5, PollStep

LEMMA RestartStep ==
    ASSUME AInv, NEW cursor \in {0, saved}, Restart(cursor)
    PROVE  AInv'
PROOF
<1> DEFINE p == [at |-> "idle", cursor |-> cursor]
<1>1. /\ req' = [k \in Client |-> Idle] /\ poll' = p
      /\ UNCHANGED <<clock, challenges, issued, saved, feed, drawn, tokens, dead>>
  BY DEF Restart, tables, history
<1>2. Idle \in Work /\ Idle.at = "idle"
  BY DEF Idle, Work
<1>3. saved \in Nat /\ feed \in Seq(FeedEntry) /\ CursorOK
  BY DEF AInv, Typed, TypeOK
<1>4. cursor \in Nat /\ cursor <= Len(feed) /\ Applied(cursor, dead)
  BY <1>3 DEF CursorOK, Applied
<1>5. p \in PollIdle /\ p.at = "idle" /\ p.cursor = cursor
  BY <1>4 DEF PollIdle
<1> HIDE DEF p
<1>6. CursorOK'
  <2>1. Applied(saved, dead) /\ saved <= Len(feed)
    BY <1>3 DEF CursorOK
  <2> QED BY <1>1, <1>4, <1>5, <2>1 DEF CursorOK, Applied
<1>7. \A k \in Client : req'[k] = Idle
  BY <1>1
<1>8. Typed'
  <2>1. req' \in [Client -> Work]
    BY <1>1, <1>2
  <2> QED BY <1>1, <2>1 DEF AInv, Typed, TypeOK
<1>9. NonceInOnePlace'
  BY <1>1, <1>2, <1>7 DEF AInv, NonceInOnePlace, Holds
<1>10. JtiDrawnOnce'
  BY <1>1, <1>2, <1>7 DEF AInv, JtiDrawnOnce, Drawn, RequestOK
<1>11. RowsKept'
  BY <1>1 DEF AInv, RowsKept, SafeUntil
<1> QED BY <1>6, <1>8, <1>9, <1>10, <1>11 DEF AInv

LEMMA TickStep ==
    ASSUME AInv, Tick
    PROVE  AInv'
PROOF
<1>1. /\ clock' = clock + 1
      /\ UNCHANGED <<challenges, issued, saved, req, feed, poll, drawn, tokens, dead>>
  BY DEF Tick, tables, history
<1>2. Typed'
  BY <1>1 DEF AInv, Typed, TypeOK
<1>3. RowsKept'
  <2>1. \A t \in tokens : clock' < SafeUntil(t) => clock < SafeUntil(t)
    <3> TAKE t \in tokens
    <3>1. t \in Token /\ clock \in Nat
      BY DEF AInv, Typed, TypeOK
    <3> QED BY <1>1, <3>1, SafeUntilIs
  <2> QED BY <1>1, <2>1 DEF AInv, RowsKept, SafeUntil
<1>4. NonceInOnePlace' /\ JtiDrawnOnce' /\ CursorOK'
  BY <1>1 DEF AInv, NonceInOnePlace, JtiDrawnOnce, Drawn, CursorOK, Applied
<1> QED BY <1>2, <1>3, <1>4 DEF AInv

(***************************************************************************)
(* The theorems.                                                           *)
(***************************************************************************)
LEMMA InitAInv == Init => AInv
PROOF
<1> SUFFICES ASSUME Init PROVE AInv
  OBVIOUS
<1>1. Idle \in Work /\ Idle.at = "idle"
  BY DEF Idle, Work
<1>2. \A k \in Client : req[k] = Idle
  BY DEF Init
<1>3. Typed
  <2>1. req \in [Client -> Work]
    BY <1>1 DEF Init
  <2> QED BY <2>1 DEF Init, Typed, TypeOK
<1>4. NonceInOnePlace /\ JtiDrawnOnce /\ RowsKept
  BY <1>1, <1>2 DEF Init, NonceInOnePlace, Holds, JtiDrawnOnce, Drawn, RequestOK,
     RowsKept
<1>5. CursorOK
  BY DEF Init, CursorOK, PollIdle, Applied
<1> QED BY <1>3, <1>4, <1>5 DEF AInv

LEMMA NextAInv == AInv /\ [Next]_vars => AInv'
PROOF
<1> SUFFICES ASSUME AInv, [Next]_vars PROVE AInv'
  OBVIOUS
<1>1. ASSUME NEW n \in Nonce, NEW a \in Agent, IssueChallenge(n, a) PROVE AInv'
  BY <1>1, IssueChallengeStep
<1>2. ASSUME NEW k \in Client, Handler(k) PROVE AInv'
  BY <1>2, TakeChallengeStep, CheckExpiryStep, VerifySignatureStep,
     RecordIssuedStep, DecodeStep, CheckRevokedStep, CheckOwnerStep,
     RevokeStep, StoreFailsStep, FinishStep DEF Handler
<1>3. CASE EvictChallenges \/ EvictTokens
  BY <1>3, EvictChallengesStep, EvictTokensStep
<1>4. ASSUME NEW e \in FeedEntry, PeerRevoke(e) PROVE AInv'
  BY <1>4, PeerRevokeStep
<1>5. CASE Poller
  BY <1>5, FetchStep, ApplyEntryStep, EndBatchStep DEF Poller
<1>6. ASSUME NEW cursor \in {0, saved}, Restart(cursor) PROVE AInv'
  BY <1>6, RestartStep
<1>7. CASE Tick
  BY <1>7, TickStep
<1>8. CASE UNCHANGED vars
  <2>1. UNCHANGED <<clock, challenges, issued, saved, req, feed, poll, drawn,
                    tokens, dead>>
    BY <1>8 DEF vars, tables, history
  <2> QED BY <2>1 DEF AInv, Typed, TypeOK, NonceInOnePlace, JtiDrawnOnce, Drawn,
             RowsKept, SafeUntil, CursorOK, Applied
<1> QED BY <1>1, <1>2, <1>3, <1>4, <1>5, <1>6, <1>7, <1>8 DEF Next

\* The invariant holds of every behaviour of the handlers, the evictors, the
\* poller, the peer and restarts.
THEOREM AuthInvariance == Spec => []AInv
PROOF
<1> QED BY InitAInv, NextAInv, PTL DEF Spec

\* Every table row, feed entry and token is of its type, whatever the
\* handlers, the poller and the evictors do.
THEOREM AuthTypeCorrect == Spec => []TypeOK
PROOF
<1>1. AInv => TypeOK
  BY DEF AInv, Typed
<1> QED BY <1>1, AuthInvariance, PTL

\* The atomic take of issue_token: a nonce buys one token, for the agent it
\* was issued to, however many requests race for it.
THEOREM ChallengesPayOnce == Spec => []OneTokenPerChallenge
PROOF
<1>1. AInv => OneTokenPerChallenge
  BY DEF AInv, NonceInOnePlace, OneTokenPerChallenge
<1> QED BY <1>1, AuthInvariance, PTL

\* record_issued before the answer, and the evictor's cutoff: the row of a
\* token is there under its agent's name until its leeway ends.
THEOREM TokensStayRevocable == Spec => []TokensAreRevocable
PROOF
<1>1. AInv => TokensAreRevocable
  BY DEF AInv, RowsKept, RowOK, TokensAreRevocable
<1> QED BY <1>1, AuthInvariance, PTL

\* apply_entries and the cursor: no revocation of the peer is skipped,
\* whatever writes fail and wherever the process restarts.
THEOREM CursorIsSafe == Spec => []CursorSkipsNothing
PROOF
<1>1. AInv => CursorSkipsNothing
  BY DEF AInv, CursorOK, Applied, CursorSkipsNothing
<1> QED BY <1>1, AuthInvariance, PTL

\* Only CheckRevoked accepts a bearer token, and only one that is not
\* revoked by the cutoff of now.
LEMMA OnlyUnrevokedAccepted ==
    ASSUME AInv, Next, NEW k \in Client, Accepts(k)
    PROVE  ~ IsRevoked(req[k].token.jti)
PROOF
<1>1. req[k].at = "revoked?" /\ req \in [Client -> Work]
  BY DEF Accepts, AInv, Typed
<1>2. req'[k].at \in {"owner", "done"} /\ (req'[k].at = "done" => req'[k].result = "accepted")
  BY DEF Accepts
<1>3. ASSUME req' = req PROVE FALSE
  BY <1>1, <1>2, <1>3
<1>4. ASSUME NEW c \in Client, Handler(c) PROVE ~ IsRevoked(req[k].token.jti)
  <2>1. ASSUME NEW r, Goto(c, r), c # k PROVE FALSE
    BY <1>1, <1>2, <2>1 DEF Goto
  <2>2. ASSUME NEW x, Answer(c, x), x # "accepted" PROVE FALSE
    <3>1. req' = [req EXCEPT ![c] = [at |-> "done", result |-> x]]
      BY <2>2 DEF Answer, Goto
    <3>2. CASE c = k
      BY <1>1, <1>2, <2>2, <3>1, <3>2
    <3>3. CASE c # k
      BY <1>1, <1>2, <3>1, <3>3
    <3> QED BY <3>2, <3>3
  <2>3. ASSUME req[c].at # "revoked?", NEW r, Goto(c, r) PROVE FALSE
    BY <1>1, <2>1, <2>3
  <2>4. CASE c = k /\ CheckRevoked(k)
    BY <2>2, <2>4 DEF CheckRevoked
  <2>5. CASE c = k /\ StoreFails(k)
    BY <2>2, <2>5 DEF StoreFails
  <2>6. CASE c # k
    BY <1>4, <2>1, <2>6 DEF Handler, TakeChallenge, CheckExpiry, VerifySignature,
       RecordIssued, Decode, CheckRevoked, CheckOwner, Revoke, StoreFails,
       Finish, Answer
  <2>7. CASE c = k /\ ~ CheckRevoked(k) /\ ~ StoreFails(k)
    BY <1>1, <1>4, <2>7 DEF Handler, TakeChallenge, CheckExpiry, VerifySignature,
       RecordIssued, Decode, CheckOwner, Revoke, Finish
  <2> QED BY <2>4, <2>5, <2>6, <2>7
<1>5. ASSUME NEW cursor \in {0, saved}, Restart(cursor) PROVE FALSE
  <2>1. req'[k] = [at |-> "idle"]
    BY <1>5 DEF Restart, Idle
  <2> QED BY <1>2, <2>1
<1> QED BY <1>3, <1>4, <1>5 DEF Next, Poller, IssueChallenge, EvictChallenges,
         EvictTokens, PeerRevoke, Fetch, ApplyEntry, EndBatch, Tick

\* validate and the tombstones: once revoked, by its owner or through the
\* feed, a token is accepted by no step until its leeway has ended.
THEOREM RevocationHolds == Spec => RevokedStaysRefused
PROOF
<1>1. AInv /\ [Next]_vars =>
        [\A k \in Client : Accepts(k) =>
            \/ req[k].token.jti \notin dead
            \/ clock >= SafeUntil(req[k].token)]_vars
  <2> SUFFICES ASSUME AInv, Next, NEW k \in Client, Accepts(k),
                      req[k].token.jti \in dead,
                      ~ (clock >= SafeUntil(req[k].token))
               PROVE  FALSE
    OBVIOUS
  <2> DEFINE t == req[k].token
  <2>1. req[k].at = "revoked?" /\ RequestOK(req[k], tokens)
    BY DEF Accepts, AInv, JtiDrawnOnce
  <2>2. t \in tokens /\ t \in Token /\ clock \in Nat
    BY <2>1 DEF RequestOK, AInv, Typed, TypeOK
  <2> HIDE DEF t
  <2>3. /\ SafeUntil(t) = t.exp * Second + Leeway * Second
        /\ t.exp * Second \in Nat /\ Leeway * Second \in Nat
        /\ SafeUntil(t) \in Nat
    BY <2>2, SafeUntilIs
  <2>4. clock < SafeUntil(t)
    BY <2>2, <2>3 DEF t
  <2>5. RowOK(t, issued, dead)
    BY <2>2, <2>4 DEF AInv, RowsKept
  <2>6. issued[t.jti].expires \in Nat
    BY <2>5 DEF RowOK, AInv, Typed, TypeOK, IssuedRow
  <2>7. issued[t.jti].expires > Cutoff(clock)
    BY <2>2, <2>3, <2>4, <2>5, <2>6 DEF RowOK, Cutoff
  <2>8. IsRevoked(t.jti)
    BY <2>5, <2>7 DEF RowOK, IsRevoked, t
  <2> QED BY <2>8, OnlyUnrevokedAccepted DEF t
<1> QED BY <1>1, AuthInvariance, PTL DEF Spec, RevokedStaysRefused

=============================================================================
