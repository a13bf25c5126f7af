-------------------------- MODULE MCContextReads --------------------------
(***************************************************************************)
(* A small instance of ContextReads: one lineage of up to two versions,    *)
(* the first of which expires and the second of which revokes a key, in a  *)
(* fleet where only some processes mint receipts.                          *)
(***************************************************************************)
EXTENDS ContextReads, TLC

Body(p, v, revokes) ==
    [supersedes |-> p, version |-> v, lineage |-> NoCtx, contributors |-> {},
     revokes |-> revokes, data |-> 0]

LineageContent == {Body(NoCtx, 1, FALSE)} \cup {Body(c, 2, TRUE) : c \in Ctx}

FirstExpires == [b \in {Body(NoCtx, 1, FALSE)} |-> 1]

Both == {TRUE, FALSE}

IdSymmetry == Permutations(Ctx) \cup Permutations(EventId)

\* A reply is checked in the step that gives it and nothing reads it after.
StoreAndRead == <<vars, read>>
=============================================================================
