--------------------------- MODULE MCTransactions ---------------------------
(* Small workloads for Transactions.tla. *)
EXTENDS Transactions, TLC

CONSTANTS n1, n2, k1, k2, d1, d2, c1, c2, c3, t1, t2

MCKindOf == (n1 :> k1) @@ (n2 :> k2)
MCCommitName == [e \in Docs \X Times |-> n2]

Ask(op, name, doc) ==
    [op |-> op, name |-> name, doc |-> doc, guarded |-> FALSE, grafted |-> FALSE]
Stage(op, name, doc) == [op |-> op, name |-> name, doc |-> doc]

\* Two transactions over the same two kinds, one of which deletes, beside a
\* publication and another deletion at one name, and a repair of the other
\* kind's index.
BothWorkload ==
    (c1 :> Ask("publish", n1, d1)) @@ (c2 :> Ask("rebuild", n2, d1))
    @@ (c3 :> Ask("delete", n1, d1))
BothStaged ==
    (t1 :> <<Stage("publish", n1, d1), Stage("publish", n2, d1)>>)
    @@ (t2 :> <<Stage("delete", n1, d1), Stage("publish", n2, d2)>>)

\* One transaction whose first operation may find its document published.
IdleWorkload ==
    (c1 :> Ask("publish", n1, d1)) @@ (c2 :> Ask("publish", n1, d2))
IdleStaged == (t1 :> <<Stage("publish", n1, d1), Stage("publish", n2, d1)>>)

\* One transaction and one publication, of two names of one kind.
BesideKindOf == (n1 :> k1) @@ (n2 :> k1)
BesideWorkload == (c1 :> Ask("publish", n2, d2))
BesideStaged == (t1 :> <<Stage("publish", n1, d1)>>)
=============================================================================
