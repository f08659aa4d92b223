--------------------------- MODULE MCGixRefStore ----------------------------
(* Small instances of GixRefStore.tla. *)
EXTENDS GixRefStore, TLC

CONSTANTS w1, w2, w3, a, b, absent, nobody

Create(new) == Edit(absent, new)
Delete(old) == Edit(old, absent)

\* Three batches over any two of three refs, which can wait on each other in
\* a circle and land only in turn; and the empty batch.
Circle == {(1 :> Create(a)) @@ (2 :> Create(a)),
           (1 :> Delete(a)) @@ (3 :> Create(a)),
           (2 :> Delete(a)) @@ (3 :> Delete(a)),
           NoEdits}

\* One ref or both, moved around absent, a and b.
Turns == {[r \in s |-> e] : s \in {{1}, {1, 2}},
                            e \in {Create(a), Edit(a, b), Delete(b)}}

\* The two breakable writers are alike.
Alike == Permutations({w1, w2})
=============================================================================
