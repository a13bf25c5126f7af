------------------------------ MODULE MCHints ------------------------------
(* Instances of Hints: one owner, one subscription at a time, two workers. *)
EXTENDS Hints

CONSTANTS c1, c2, a1, o1, s1, w1, w2

OwnLineages == [c \in {c1, c2} |-> c]

OneProducer == [c \in {c1, c2} |-> a1]

\* The owner does not see c2.
Visibility == [c \in {c1, c2} |-> IF c = c1 THEN {o1} ELSE {}]

Watches ==
    [r \in {o1} |->
        [ctx |-> {}, lineage |-> {}, agent |-> {a1},
         lineageBucket |-> {}, agentBucket |-> {}, kind |-> {}]]

Entries ==
    {[kind |-> "lifecycle", ctx |-> c, about |-> c, agent |-> a1] :
        c \in {c1, c2}}

Hashes == [v \in {c1, c2, a1} |-> <<0>>]

Owners == [s \in SubId |-> o1]
=============================================================================
