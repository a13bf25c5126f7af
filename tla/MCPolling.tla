----------------------------- MODULE MCPolling -----------------------------
(* Instances of Polling: one consumer, and watches of every form.          *)
EXTENDS Polling

CONSTANTS c1, c2, c3, a1, a2, r1, r2, r3, r4

AllLineages == [c \in {c1, c2, c3} |-> IF c = c2 THEN c1 ELSE c]

AllProducers == [c \in {c1, c2, c3} |-> IF c = c2 THEN a2 ELSE a1]

\* The first consumer does not see c2.
Visibility ==
    [c \in {c1, c2, c3} |-> IF c = c2 THEN {r2} ELSE {r1, r2, r3, r4}]

Filter(ctx, lineage, agent, lbucket, abucket, kind) ==
    [ctx |-> ctx, lineage |-> lineage, agent |-> agent,
     lineageBucket |-> lbucket, agentBucket |-> abucket, kind |-> kind]

Hashes ==
    [v \in {c1, c2, c3, a1, a2} |->
        CASE v = c1 -> <<0, 2, 1>> [] v = c2 -> <<1, 0, 0>>
          [] v = c3 -> <<2, 2, 0>> [] v = a1 -> <<0, 2, 2>>
          [] v = a2 -> <<1, 2, 2>>]

Watches ==
    [r \in {r1, r2, r3, r4} |->
        CASE r = r1 -> Filter({c1}, {}, {a2}, {}, {}, {})
          [] r = r2 -> Filter({}, {}, {}, {}, {}, {"lifecycle"})
          [] r = r3 -> Filter({c2}, {}, {}, {<<0, 2>>, <<2, 2>>}, {}, {})
          [] r = r4 -> Filter({}, {c1}, {}, {}, {<<1>>, <<0, 2, 2>>},
                              {"lifecycle", "key_revocation"})]

\* A key revocation the first consumer watches through c1's producer, and a
\* supersession it watches but may not see.
Entries ==
    {[kind |-> "key_revocation", ctx |-> c3, about |-> c3, agent |-> a1],
     [kind |-> "superseded", ctx |-> c1, about |-> c2, agent |-> a1]}
=============================================================================
