----------------------------- MODULE MCReaders ------------------------------
(* Small workloads for Readers.tla. *)
EXTENDS Readers, TLC

CONSTANTS n1, n2, k1, d1, d2, c1, c2, c3, c4, r1

MCKindOf == (n1 :> k1) @@ (n2 :> k1)
MCCommitName == [e \in Docs \X Times |-> n2]

Ask(op, name, doc) ==
    [op |-> op, name |-> name, doc |-> doc, guarded |-> FALSE, grafted |-> FALSE]

\* A name that is published and deleted in any order, the repair of the
\* index, and another name.
ReadersWorkload ==
    (c1 :> Ask("publish", n1, d1)) @@ (c2 :> Ask("delete", n1, d1))
    @@ (c3 :> Ask("publish", n2, d1)) @@ (c4 :> Ask("rebuild", n1, d1))

Query(op, viewed, group) ==
    [op |-> op, kind |-> k1, name |-> n1, group |-> group, viewed |-> viewed]

\* Every operation; a listing of a group and one through a view as well.
MCQueries ==
    {Query(op, {}, Names) : op \in ReadOps}
    \cup {Query("entries", {}, {n1}), Query("rows", {n1}, Names),
          Query("list", {n1}, Names)}
=============================================================================
