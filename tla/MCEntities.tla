----------------------------- MODULE MCEntities -----------------------------
(* Small workloads for Entities.tla. *)
EXTENDS Entities, TLC

CONSTANTS n1, n2, k1, d1, d2, c1, c2, c3, c4, c5, c6, c7, c8, c9, c10

MCKindOf == (n1 :> k1) @@ (n2 :> k1)
MCCommitName == [e \in Docs \X Times |-> n2]

Ask(op, name, doc) ==
    [op |-> op, name |-> name, doc |-> doc, guarded |-> FALSE, grafted |-> FALSE]
Guard(request) == [request EXCEPT !.guarded = TRUE]
Graft(request) == [request EXCEPT !.grafted = TRUE]

\* Two writers of the same content, an update and a deletion of one name,
\* and a repair of its index.
BranchWorkload ==
    (c1 :> Ask("publish", n1, d1)) @@ (c2 :> Guard(Ask("publish", n1, d1)))
    @@ (c3 :> Ask("update", n1, d2)) @@ (c4 :> Ask("delete", n1, d2))
    @@ (c5 :> Ask("rebuild", n1, d1))

\* Each name only gains publications, and no two calls publish the same
\* document at one name.
PairWorkload ==
    (c1 :> Guard(Ask("publish", n1, d1))) @@ (c2 :> Ask("update", n1, d2))
    @@ (c3 :> Ask("delete", n1, d1)) @@ (c4 :> Ask("anonymous", n2, d1))

\* One name is created under the name of its own commit, grafted onto an
\* older publication, deleted twice and pruned, in any order.
PruneWorkload ==
    (c6 :> Ask("anonymous", n2, d1)) @@ (c7 :> Graft(Ask("publish", n2, d1)))
    @@ (c8 :> Ask("remove", n2, d1)) @@ (c9 :> Ask("delete", n2, d1))
    @@ (c10 :> Ask("delete", n2, d1))

EitherWorkload == BranchWorkload @@ PruneWorkload

\* One update beside one publication at the same name.
UpdateWorkload ==
    (c1 :> Ask("publish", n1, d1)) @@ (c2 :> Ask("update", n1, d2))

\* The same content published anonymously twice, and deleted once.
AnonymousWorkload ==
    (c1 :> Ask("anonymous", n2, d1)) @@ (c2 :> Ask("anonymous", n2, d1))
    @@ (c3 :> Ask("delete", n2, d1))

-----------------------------------------------------------------------------
(* The calls of one of the two workloads, whichever starts. *)

Pruning == {c6, c7, c8, c9, c10}
Started == {c \in Calls : pc[c] # "idle"}
Excluded == IF Started \cap Pruning # {} THEN Calls \ Pruning
            ELSE IF Started # {} THEN Pruning ELSE {}

EitherStart(c) == c \notin Excluded /\ Start(c)
EitherTick == Excluded # {} /\ Excluded # Pruning /\ Tick
EitherDone == (\A c \in Calls \ Excluded : pc[c] \in Returned) /\ UNCHANGED vars

EitherNext ==
    \/ \E c \in Calls : EitherStart(c) \/ Step(c)
    \/ EitherTick \/ EitherDone

EitherSpec == Init /\ [][EitherNext]_vars
=============================================================================
