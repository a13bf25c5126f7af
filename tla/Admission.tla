------------------------------ MODULE Admission ------------------------------
(***************************************************************************)
(* What stands in front of the handlers on every replica: the limiters of  *)
(* /auth/*, in memory (L1) and shared through Postgres (L2), the challenge *)
(* limiter, and the read gate with its credentials and read limits.        *)
(*                                                                         *)
(* One clock serves the database and the replicas; only its windows are    *)
(* aligned differently.  A statement takes its now() when it is sent and   *)
(* counts when it gets the row, which may be a window later.               *)
(***************************************************************************)
EXTENDS RateLimit, ClientAddress

CONSTANTS
    Replica, Slot,      \* replicas, and requests in flight at a time
    Clients, Net,       \* client addresses, and the network of every address
    Agents,             \* the agent_ids a challenge may name
    Fleets,             \* [auth, backend, unavailable, front, replicas, asks, most]
    Arrivals(_, _),     \* [peer, lines] a client's request may have behind a front
    PerIp, Global,      \* rate_limit.per_ip_per_minute, global_per_minute
    ChallengePerAgent, ChallengeGlobal,  \* the challenge limiter's budgets
    AnonymousReads, PrincipalReads,      \* the [read_limits] budgets
    Timeout,            \* rate_limit.backend_timeout_ms, in ticks
    Expiry,             \* expires_at of the configured read token
    StartTime, MaxTime  \* bounds: the clock

\* Validation asks no more of the timeout than that it is positive; the
\* pruner's slack of two windows is enough for one this long.  A budget of
\* zero in the file means that its limiter is not built.
ASSUME AdmissionAssumption ==
    /\ Timeout \in 1..(Window + 1)
    /\ {PerIp, Global, ChallengePerAgent, ChallengeGlobal,
        AnonymousReads, PrincipalReads} \subseteq Nat \ {0}
    /\ StartTime \in Nat /\ MaxTime \in Nat /\ StartTime <= MaxTime
    /\ Slot \subseteq Nat /\ IsFiniteSet(Slot)

Ips == DOMAIN Net

\* The clients of a fleet, and what they name, are known.
ASSUME FleetAssumption ==
    /\ Clients \subseteq Ips
    /\ \A f \in Fleets : f.front.skip \in Nat /\ f.replicas \subseteq Replica
    /\ \A f \in Fleets : \A ask \in f.asks :
          ask.client \in Clients /\ (ask.route = "challenge" => ask.agent \in Agents)

\* How a request of a client reaches a replica behind a front that is
\* configured as it is built: from the client itself, with no proxy to trust,
\* or through proxies which wrote the client's address behind whatever the
\* client put into the header.
Genuine(front, client, a) ==
    LET hops == FlattenSeq(a.lines)
        end  == Len(hops) - front.skip
    IN  /\ a.peer \in Ips /\ hops \in Seq(Ips \cup {Garbage, Binary})
        /\ \/ a.peer = client /\ ~ PeerTrusted(front, a.peer)
           \/ /\ a.peer \notin Clients /\ ~ Trusts(front, client)
              /\ \E i \in 1..end : /\ hops[i] = client
                                   /\ \A j \in (i + 1)..end : Trusts(front, hops[j])

ASSUME ArrivalAssumption ==
    \A f \in Fleets : \A client \in Clients : \A a \in Arrivals(f.front, client) :
        Genuine(f.front, client, a)

VARIABLES
    d,          \* the deployment
    now,        \* the clock
    lim, glob,  \* the limiters of each replica, and its process-wide buckets
    rows,       \* rate_limit_windows
    req,        \* the /auth/* requests in flight
    orphans,    \* statements nobody waits for, which may still run
    recent,     \* history: when each key's charges of the last Window passed
    allowed,    \* history: the Allow answers of each row in its last windows
    spare,      \* history: the statements each replica's global budget still covers
    asked

admitVars == <<d, now, lim, glob, rows, req, orphans, recent, allowed, spare, asked>>

history == <<recent, allowed, spare>>
limits == <<lim, glob>>

\* A bound of the deployment: its requests and faults together.
WithinBound == asked < d.most /\ asked' = asked + 1

\* The requests of a deployment, a bound: [route, client, agent] to /auth/*
\* and [route, client, cred] for reads.  The two share no limiter.
Ask(route) == {ask \in d.asks : ask.route \in route}

\* Mutant: an IPv6 address is its own bucket.
ReadBucketKey_FullAddress(ip) == ip

\* read_bucket_key: an IPv6 client is its /64.
ReadBucketKey(ip) == Net[ip]

Limits ==
    [auth |-> PerIp, challenge |-> ChallengePerAgent, anonymous |-> AnonymousReads,
     principal |-> PrincipalReads]

Keys ==
    [auth |-> Ips, challenge |-> Agents, anonymous |-> {Net[i] : i \in Ips} \cup Ips,
     principal |-> {"reader", "agent"}]

\* The limiters AppStateInner::try_new builds.
Fresh == [s \in DOMAIN Keys |-> NewLimiter(Keys[s])]

FreshGlobal == [s \in {"auth", "challenge"} |-> [start |-> now, count |-> 0]]

\* rate_limit_windows has one row for the fleet and one for each address.
GlobalRow == "auth_global"

Rows == {GlobalRow} \cup Ips

NoCharges == [s \in DOMAIN Keys |-> [k \in Keys[s] |-> {}]]

NoAnswers == [row \in Rows |-> [w \in 0..MaxTime |-> 0]]

NoRow == [start |-> -1, hits |-> 0]

\* A row an earlier fleet left, past its limit.
Stale == [start |-> 0, hits |-> Global + 1]

Idle == [pc |-> "idle"]

(***************************************************************************)
(* The shared counter.                                                     *)
(***************************************************************************)
FloorWindow(t) == (t \div Window) * Window

LimitOf(row) == IF row = GlobalRow THEN Global ELSE PerIp

\* Mutant: a late statement takes its own window back with it.
Count_Backwards(row, stamp) ==
    [start |-> FloorWindow(stamp),
     hits  |-> IF FloorWindow(stamp) # rows[row].start THEN 1
               ELSE Min({rows[row].hits + 1, LimitOf(row) + 1})]

\* CHECK_SQL: the window only moves forward, a late statement counts into
\* the newer one, and the hits stop at limit + 1.
Count(row, stamp) ==
    LET newer == FloorWindow(stamp) > rows[row].start
    IN  [start |-> Max({FloorWindow(stamp), rows[row].start}),
         hits  |-> IF newer THEN 1 ELSE Min({rows[row].hits + 1, LimitOf(row) + 1})]

\* decide.
Decide(row, hits) == IF hits <= LimitOf(row) THEN "allow" ELSE "deny"

(***************************************************************************)
(* The /auth/* requests.                                                   *)
(***************************************************************************)
Shared == d.backend = "postgres"

\* A request whose L1 check of a scope passed.  With a shared backend the
\* scope's statement goes out; without one L1's answer is the answer.
Asking(r, step, row, ask, ip) ==
    [pc |-> step, r |-> r, row |-> row, stamp |-> now,
     reply |-> IF Shared THEN "none" ELSE "allow", ask |-> ask, ip |-> ip]

Sending(r) == IF Shared THEN spare[r] - 1 ELSE spare[r]

\* A charge of the history: when it was made, and a number that sets it
\* apart from the others of that moment.
NewCharge(charges) ==
    <<now, CHOOSE n \in 0..Cardinality(charges) : <<now, n>> \notin charges>>

Charged(r, s, k) ==
    recent' = [recent EXCEPT ![r][s][k] = @ \cup {NewCharge(@)}]

\* Slots only tell requests apart: a request takes the first that is free.
FirstFree(q) == req[q] = Idle /\ \A p \in Slot : p < q => req[p] # Idle

\* auth_rate_limit up to its first await: the client's address, then L1's
\* global ceiling.
Arrive(q, r, ask, a) ==
    /\ d.auth /\ FirstFree(q) /\ WithinBound
    /\ \E checked \in {CheckGlobal(glob[r].auth, now, Global)} :
          /\ glob' = [glob EXCEPT ![r].auth = checked.bucket]
          /\ IF checked.ok
             THEN /\ req' = [req EXCEPT ![q] = Asking(r, "global", GlobalRow, ask,
                                ClientIp(d.front, a.peer, a.lines))]
                  /\ spare' = [spare EXCEPT ![r] =
                        Sending(r) + IF checked.bucket.start = glob[r].auth.start
                                     THEN 0 ELSE 2 * Global]
             ELSE UNCHANGED <<req, spare>>
    /\ UNCHANGED <<d, now, lim, rows, orphans, recent, allowed>>

\* The database runs a statement somebody waits for.
Execute(q) ==
    /\ req[q] # Idle /\ req[q].reply = "none"
    /\ \E row \in {req[q].row}, new \in {Count(req[q].row, req[q].stamp)} :
          /\ rows' = [rows EXCEPT ![row] = new]
          /\ req' = [req EXCEPT ![q].reply = Decide(row, new.hits)]
          /\ allowed' = IF Decide(row, new.hits) = "allow"
                        THEN [allowed EXCEPT ![row][new.start] = @ + 1] ELSE allowed
    /\ UNCHANGED <<d, now, limits, orphans, recent, spare, asked>>

\* A statement that is still to run, when its request gives up on it.
Orphaned(q) == IF req[q].reply = "none" THEN {<<q, req[q].row, req[q].stamp>>} ELSE {}

\* PgRateLimitBackend::check: the timeout passed, whether or not the
\* statement has run.  At the bound of the clock it may pass early.
TimedOut(q) ==
    /\ req[q] # Idle /\ Shared /\ req[q].reply # "unavailable"
    /\ now - req[q].stamp >= Timeout \/ now = MaxTime

GiveUp(q) ==
    /\ TimedOut(q)
    /\ req' = [req EXCEPT ![q].reply = "unavailable"]
    /\ orphans' = orphans \cup Orphaned(q)
    /\ UNCHANGED <<d, now, limits, rows, history, asked>>

\* PgRateLimitBackend::check: a database error.
Fail(q) ==
    /\ req[q] # Idle /\ req[q].reply = "none" /\ WithinBound
    /\ req' = [req EXCEPT ![q].reply = "unavailable"]
    /\ UNCHANGED <<d, now, limits, rows, orphans, history>>

\* A statement nobody waits for runs after all.
ExecuteOrphan(o) ==
    /\ o \in orphans
    /\ rows' = [rows EXCEPT ![o[2]] = Count(o[2], o[3])]
    /\ orphans' = orphans \ {o}
    /\ UNCHANGED <<d, now, limits, req, history, asked>>

\* LayeredRateLimiter::check, after L2 answered.
Passes(q) ==
    \/ req[q].reply = "allow"
    \/ req[q].reply = "unavailable" /\ d.unavailable = "allow"

Answered(q, step) == req[q] # Idle /\ req[q].pc = step /\ req[q].reply # "none"

\* A denial of either layer is the request's 429.
Denied(q) ==
    /\ req[q] # Idle /\ req[q].reply # "none" /\ ~ Passes(q)
    /\ req' = [req EXCEPT ![q] = Idle]
    /\ UNCHANGED <<d, now, limits, rows, orphans, history, asked>>

\* auth_rate_limit: the global ceiling passed, and the budget of the
\* address is next, L1 first.
PerIpCheck(q) ==
    /\ Answered(q, "global") /\ Passes(q)
    /\ \E r \in {req[q].r}, ip \in {req[q].ip} :
       \E checked \in {Check(lim[r].auth, ip, now, PerIp)} :
          /\ lim' = [lim EXCEPT ![r].auth = checked.lim]
          /\ IF checked.ok
             THEN /\ req' = [req EXCEPT ![q] = Asking(r, "per_ip", ip, req[q].ask, ip)]
                  /\ spare' = [spare EXCEPT ![r] = Sending(r)]
                  /\ Charged(r, "auth", ip)
             ELSE req' = [req EXCEPT ![q] = Idle] /\ UNCHANGED <<spare, recent>>
    /\ UNCHANGED <<d, now, glob, rows, orphans, allowed, asked>>

\* The admitted request reaches its handler.  issue_challenge charges its
\* own global ceiling and then the agent the request names; the rest of the
\* handlers is Auth.
Handle(q) ==
    /\ Answered(q, "per_ip") /\ Passes(q)
    /\ IF req[q].ask.route = "challenge"
       THEN \E r \in {req[q].r}, agent \in {req[q].ask.agent} :
            \E ceiling \in {CheckGlobal(glob[r].challenge, now, ChallengeGlobal)} :
            \E checked \in {Check(lim[r].challenge, agent, now, ChallengePerAgent)} :
               /\ glob' = [glob EXCEPT ![r].challenge = ceiling.bucket]
               /\ lim' = IF ceiling.ok THEN [lim EXCEPT ![r].challenge = checked.lim] ELSE lim
               /\ IF ceiling.ok /\ checked.ok
                  THEN Charged(r, "challenge", agent) ELSE UNCHANGED recent
       ELSE UNCHANGED <<limits, recent>>
    /\ req' = [req EXCEPT ![q] = Idle]
    /\ UNCHANGED <<d, now, rows, orphans, allowed, spare, asked>>

(***************************************************************************)
(* Reads: authentication, then the read limit, in one synchronous step.    *)
(***************************************************************************)
Anonymous == "anonymous"

BadToken == "refused"

\* ReadTokens::validate.
ValidateStatic(cred) == cred = "static" /\ now < Expiry

\* resolve: a bearer that does not validate is refused, never anonymous.
Resolve(cred) ==
    CASE ~ d.auth \/ cred \in {"none", "other_scheme", "query"} -> Anonymous
      [] cred = "jwt" -> "agent"
      [] ValidateStatic(cred) -> "reader"
      [] OTHER -> BadToken

\* read_gate: the bucket a read is charged to.  A refusal is charged to the
\* client's anonymous one.
ChargedTo(principal, ip) ==
    IF principal \in {Anonymous, BadToken} THEN <<"anonymous", ReadBucketKey(ip)>>
    ELSE <<"principal", principal>>

\* Who the answer went to: a subscriber's network, or a principal.
Reader(principal, ip) ==
    IF principal \in {Anonymous, BadToken} THEN <<"anonymous", Net[ip]>>
    ELSE <<"principal", principal>>

\* read_gate.  An access_token in the query answers 400, with nothing charged.
Read(r, cred, a) ==
    /\ ~ (d.auth /\ cred = "query") /\ WithinBound
    /\ \E p \in {Resolve(cred)}, ip \in {ClientIp(d.front, a.peer, a.lines)} :
       \E b \in {ChargedTo(p, ip)}, who \in {Reader(p, ip)} :
       \E checked \in {Check(lim[r][b[1]], b[2], now, Limits[b[1]])} :
          /\ lim' = [lim EXCEPT ![r][b[1]] = checked.lim]
          /\ IF checked.ok THEN Charged(r, who[1], who[2]) ELSE UNCHANGED recent
    /\ UNCHANGED <<d, now, glob, rows, req, orphans, allowed, spare>>

(***************************************************************************)
(* Time, the pruner and the faults.                                        *)
(***************************************************************************)
\* The steps of a replica take no time and a timeout fires on time: only a
\* statement takes long.  One that nobody waits for any more runs before the
\* next tick or is lost, a bound.
Tick ==
    /\ now < MaxTime
    /\ \A q \in Slot : req[q] # Idle => req[q].reply = "none" /\ ~ TimedOut(q)
    /\ now' = now + 1
    /\ recent' = [r \in Replica |-> [s \in DOMAIN Keys |-> [k \in Keys[s] |->
                     {charge \in recent[r][s][k] : now' - charge[1] < Window}]]]
    /\ allowed' = [row \in Rows |-> [w \in 0..MaxTime |->
                      IF w < FloorWindow(now') - 2 * Window THEN 0 ELSE allowed[row][w]]]
    /\ orphans' = {}
    /\ UNCHANGED <<d, limits, rows, req, spare, asked>>

\* prune_older_than, two windows back by the database's clock.
Prune ==
    /\ \E row \in Rows : rows[row] # NoRow /\ rows[row].start < now - 2 * Window
    /\ rows' = [row \in Rows |-> IF rows[row].start < now - 2 * Window THEN NoRow
                                 ELSE rows[row]]
    /\ UNCHANGED <<d, now, limits, req, orphans, history, asked>>

\* A replica is restarted.  Statements it had sent may still run.
Restart(r) ==
    /\ WithinBound
    /\ lim' = [lim EXCEPT ![r] = Fresh]
    /\ glob' = [glob EXCEPT ![r] = FreshGlobal]
    /\ \E mine \in {{q \in Slot : req[q] # Idle /\ req[q].r = r}} :
          /\ orphans' = orphans \cup UNION {Orphaned(q) : q \in mine}
          /\ req' = [q \in Slot |-> IF q \in mine THEN Idle ELSE req[q]]
    /\ recent' = [recent EXCEPT ![r] = NoCharges]
    /\ spare' = [spare EXCEPT ![r] = 2 * Global]
    /\ UNCHANGED <<d, now, rows, allowed>>

\* The database crashes: the table is UNLOGGED, so its counts are gone.
DatabaseCrash ==
    /\ Shared /\ WithinBound
    /\ rows' = [row \in Rows |-> NoRow]
    /\ req' = [q \in Slot |-> IF req[q] # Idle /\ req[q].reply = "none"
                              THEN [req[q] EXCEPT !.reply = "unavailable"] ELSE req[q]]
    /\ orphans' = {} /\ allowed' = NoAnswers
    /\ UNCHANGED <<d, now, limits, recent, spare>>

(***************************************************************************)
(* The system.                                                             *)
(***************************************************************************)
AdmitInit ==
    /\ d \in Fleets /\ now = StartTime
    /\ lim = [r \in Replica |-> Fresh]
    /\ glob = [r \in Replica |-> FreshGlobal]
    /\ rows = [row \in Rows |-> IF row = GlobalRow /\ Shared THEN Stale ELSE NoRow]
    /\ req = [q \in Slot |-> Idle] /\ orphans = {}
    /\ recent = [r \in Replica |-> NoCharges] /\ allowed = NoAnswers
    /\ spare = [r \in Replica |-> 2 * Global]
    /\ asked = 0

\* What the replica of a request does by itself.
Step(q) == GiveUp(q) \/ Denied(q) \/ PerIpCheck(q) \/ Handle(q)

AdmitNext ==
    \/ \E r \in d.replicas, q \in Slot, ask \in Ask({"challenge", "token"}) :
          \E a \in Arrivals(d.front, ask.client) : Arrive(q, r, ask, a)
    \/ \E r \in d.replicas, ask \in Ask({"read"}) :
          \E a \in Arrivals(d.front, ask.client) : Read(r, ask.cred, a)
    \/ \E q \in Slot : Execute(q) \/ Fail(q) \/ Step(q)
    \/ \E o \in orphans : ExecuteOrphan(o)
    \/ Tick \/ Prune \/ DatabaseCrash
    \/ \E r \in d.replicas : Restart(r)

AdmitSpec == AdmitInit /\ [][AdmitNext]_admitVars

(***************************************************************************)
(* Properties.                                                             *)
(***************************************************************************)
\* The replicas together admit at most the limit of a row in each of its
\* windows, whatever statements are late, pruned around or counted for
\* requests that gave up.  A crash of the database starts its counts again.
FleetBound ==
    \A row \in Rows : \A w \in 0..MaxTime : allowed[row][w] <= LimitOf(row)

\* However many addresses a flood rotates through, a replica sends the
\* database at most two statements for each request of its own global
\* budget, over all the windows that budget has had.
DatabaseLoadBound ==
    \A r \in Replica : spare[r] >= 0

\* In any Window a replica lets a key through less than twice its budget,
\* also while L2 fails open, rolls over or has lost its rows, and while the
\* bucket maps are pruned.
BurstBound ==
    \A r \in Replica : \A s \in {"auth", "challenge", "principal"} : \A k \in Keys[s] :
        Cardinality(recent[r][s][k]) < 2 * Limits[s]

\* The same of anonymous reads and refused tokens together, for all the
\* addresses of a network: rotating through a /64 buys no more guesses.
GuessesAreBounded ==
    \A r \in Replica : \A net \in Keys.anonymous :
        Cardinality(recent[r].anonymous[net]) < 2 * AnonymousReads

\* A client is counted under its own address, or under the proxy's when its
\* header is unusable: never under an address it wrote into the header.
BucketIsTheClients ==
    \A q \in Slot : req[q] # Idle => req[q].ip = req[q].ask.client \/ req[q].ip \notin Clients

\* What the shared windows promise the fleet and the database.
SharedBounds == FleetBound /\ DatabaseLoadBound

\* What each replica promises on its own, whoever the client claims to be.
LocalBounds == BurstBound /\ GuessesAreBounded /\ BucketIsTheClients
=============================================================================
