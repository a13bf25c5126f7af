------------------------------ MODULE MCKeyless ------------------------------
(* An instance of Keyless.                                                 *)
EXTENDS Keyless

T(kid, exp, id, flaw) == [kid |-> kid, exp |-> exp, id |-> id, flaw |-> flaw]

\* Good under the first key; good under the next; of an issuer nobody accepts.
Workload ==
    [t \in {"t1", "t2", "t3"} |->
        CASE t = "t1" -> T("k1", 1, "i1", "none")
          [] t = "t2" -> T("k2", 9, "i2", "none")
          [] OTHER -> T("k1", 9, "i1", "issuer")]

M(token, pop) == [op |-> "mint", token |-> token, pop |-> pop]

P(att, sup, binds) == [op |-> "publish", att |-> att, sup |-> sup, binds |-> binds]

Asks ==
    {M("t1", TRUE), M("t2", TRUE), M("t3", TRUE), M("t1", FALSE),
     P(1, 0, TRUE), P(1, 2, TRUE), P(2, 2, TRUE), P(1, 1, TRUE), P(1, 9, FALSE)}
=============================================================================
