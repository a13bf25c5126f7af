-------------------------- MODULE MCRegistryStore --------------------------
(***************************************************************************)
(* A small instance of RegistryStore for TLC.                              *)
(***************************************************************************)
EXTENDS RegistryStore, TLC

CONSTANT Contributor

\* The body of a first version, and of a later one that names predecessor p,
\* declares lineage l (or none) and claims version v.
First(contributors, revokes, data) ==
    [supersedes |-> NoCtx, version |-> 1, lineage |-> NoCtx,
     contributors |-> contributors, revokes |-> revokes, data |-> data]

Later(p, v, l, revokes) ==
    [supersedes |-> p, version |-> v, lineage |-> l, contributors |-> {},
     revokes |-> revokes, data |-> 0]

\* Publishing: two first versions of different content, one of which the
\* contributor may extend, and successors with right and wrong claims.
PublishContent ==
    {First({}, FALSE, 0), First({Contributor}, FALSE, 0)}
    \cup {Later(p, v, l, FALSE) :
            p \in Ctx, v \in {2, 3}, l \in Ctx \cup {NoCtx}}

Both == {TRUE, FALSE}

\* Bound: lifecycle events and pruning happen to one stored context, and the
\* behaviour does not publish after them: the run over ContextReads explores
\* what follows them.
FewSideSteps ==
    /\ <<events, prunedThrough>>' # <<events, prunedThrough>> =>
          Cardinality(Stored) = 1
    /\ (prunedThrough > 0 \/ \E c \in Stored : events[c] # << >>) =>
          Stored' = Stored

\* Bound: a behaviour is not continued once the last identifier is published.
IdsLeft == Stored # Ctx

IdSymmetry == Permutations(Ctx)
=============================================================================
