------------------------------ MODULE Commits -------------------------------
(***************************************************************************)
(* Publication commits as values.                                          *)
(*                                                                         *)
(* An object id is a hash of the object's contents, and every commit       *)
(* git-store writes has at most one parent (store.rs, write_commit), so a  *)
(* commit is identified with its first-parent history: the sequence of     *)
(* publications from the root to itself.  Two commits are the same object  *)
(* exactly when their trees, their times (whole seconds) and their parents *)
(* are the same, which is what makes an A-B-A change of a ref possible.    *)
(* Author, committer and message are taken to be equal, the case in which  *)
(* the most commits coincide.                                              *)
(*                                                                         *)
(* A publication is the bound document at the commit's tree: a live        *)
(* document, or the typed tombstone that names the document it deleted     *)
(* (tombstone.rs).                                                         *)
(***************************************************************************)
EXTENDS Integers, Sequences, SequencesExt

CONSTANTS
  Docs,     \* complete bound document trees
  MaxTime   \* bound on the committer timestamps, in seconds

ASSUME TimeAssumption == MaxTime \in Nat

Times == 0 .. MaxTime

Entry == [dead : BOOLEAN, doc : Docs, time : Times]
History == Seq(Entry)

\* No object: a ref that does not exist, a commit without a parent.
Absent == <<>>

LiveEntry(doc, time) == [dead |-> FALSE, doc |-> doc, time |-> time]
TombstoneEntry(doc, time) == [dead |-> TRUE, doc |-> doc, time |-> time]

\* The commit with this tree and parent.
WriteCommit(entry, parent) == Append(parent, entry)

\* EntityState::Present and EntityState::Deleted of a ref's value.
Present(c) == c # Absent /\ ~Last(c).dead
Deleted(c) == c # Absent /\ Last(c).dead

\* commit_tree(c) is the document's own tree.
Carries(c, doc) == Present(c) /\ Last(c).doc = doc

\* Every tombstone in the history lies directly on the live publication of
\* the document it names.
TombstonesName(c) ==
    \A i \in 1 .. Len(c) :
        c[i].dead => /\ i > 1
                     /\ ~c[i - 1].dead
                     /\ c[i - 1].doc = c[i].doc

-----------------------------------------------------------------------------
(* How a ref may move from one commit to another: the publication of a     *)
(* document its tip does not already carry, on top of the tip or of an     *)
(* explicit parent; the deletion of a live tip by a tombstone that names   *)
(* it; the pruning of the name.                                            *)

Publishes(old, new) ==
    /\ Present(new)
    /\ Front(new) = old
    /\ ~Carries(old, Last(new).doc)

Regrafts(old, new) ==
    /\ Present(new)
    /\ Front(new) # Absent
    /\ TombstonesName(Front(new))
    /\ ~Carries(old, Last(new).doc)

Tombstones(old, new) ==
    /\ Present(old)
    /\ Deleted(new)
    /\ Front(new) = old
    /\ Last(new).doc = Last(old).doc

Prunes(old, new) == old # Absent /\ new = Absent

Moves(old, new, graftable, prunable) ==
    /\ new \in History
    /\ \/ Publishes(old, new)
       \/ Tombstones(old, new)
       \/ graftable /\ Regrafts(old, new)
       \/ prunable /\ Prunes(old, new)
=============================================================================
