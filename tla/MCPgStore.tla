----------------------------- MODULE MCPgStore -----------------------------
(***************************************************************************)
(* A small instance of PgStore: one lineage, whose successors race each    *)
(* other, with and without a key.                                          *)
(***************************************************************************)
EXTENDS PgStore, TLC

Body(p, v, revokes) ==
    [supersedes |-> p, version |-> v, lineage |-> NoCtx, contributors |-> {},
     revokes |-> revokes, data |-> 0]

\* First versions, and successors of two contents, so that a key can be used
\* twice for one body and for different ones; the revocation among them
\* appends two feed rows.
RaceContent ==
    {Body(NoCtx, 1, FALSE)} \cup {Body(c, 2, rev) : c \in Ctx, rev \in BOOLEAN}

\* With one tenant it does not matter whether a request names it.  Successors
\* are keyed: without a key they race for the same row.
RaceRequest ==
    {r \in Request :
        r.tenant = NoTenant /\ (r.content.supersedes # NoCtx => r.key # NoKey)}

Both == {TRUE, FALSE}

\* An answer is checked in the step that gives it and nothing reads it after.
Database == <<vars, tx, drawn>>

Publishing(w) == Active(w) /\ tx[w].op = "publish"

\* One lineage is enough, as two share no row; first versions race only for
\* their key, and a successor is published once its predecessor is there.
OneLineage ==
    /\ Cardinality({c \in Stored : Prev(c) = NoCtx}) <= 1
    /\ \A w \in Worker : Publishing(w) =>
          IF tx[w].req.content.supersedes # NoCtx
          THEN tx[w].req.content.supersedes \in Stored
          ELSE Stored = {} \/ tx[w].req.key # NoKey

PgSymmetry ==
    Permutations(Worker) \cup Permutations(Ctx) \cup Permutations(EventId)
=============================================================================
