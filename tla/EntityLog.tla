----------------------------- MODULE EntityLog ------------------------------
(***************************************************************************)
(* What git-store promises of one entity ref, whatever runs concurrently:  *)
(* the ref is a branch.  It moves only by                                  *)
(*   - publishing a document that its tip does not already carry, on top   *)
(*     of the tip;                                                         *)
(*   - deleting a live tip, by a tombstone on top of it that names it;     *)
(*   - pruning the name outright;                                          *)
(*   - publishing on top of a parent the caller named explicitly.          *)
(* A name nobody prunes or grafts keeps every publication it ever had.     *)
(* Each step moves one ref.  Entities.tla implements this specification.   *)
(***************************************************************************)
EXTENDS Commits

CONSTANTS
  Names,
  Pruned,    \* names some caller prunes
  Grafted    \* names some caller publishes at with an explicit parent

VARIABLE log   \* the history each entity ref points at

LogTypeOK == log \in [Names -> History]

Init == log = [n \in Names |-> Absent]

Move(n) ==
    /\ log' = [log EXCEPT ![n] = log'[n]]
    /\ Moves(log[n], log'[n], n \in Grafted, n \in Pruned)

Next == \E n \in Names : Move(n)

Spec == Init /\ [][Next]_log

(***************************************************************************)
(* A tombstone names exactly the document that was live beneath it, and no *)
(* tombstone lies on another: deletion is idempotent and loses nothing     *)
(* (kind.rs, delete_name; tombstone.rs).                                   *)
(***************************************************************************)
TombstonesNamePredecessor == \A n \in Names : TombstonesName(log[n])
=============================================================================
