------------------------------ MODULE RefStore ------------------------------
(***************************************************************************)
(* What the RefStore trait promises its callers                            *)
(* (crates/gix-refstore/src/store.rs), and what MemoryRefStore is          *)
(* (memory.rs): a batch is one compare-and-swap transaction.  It is open   *)
(* from the call until one atomic step, in which it either lands whole,    *)
(* because every expectation holds, or lands nothing, because              *)
(*   - some expectation does not hold ("lost"),                            *)
(*   - the backend's own lock was held elsewhere ("contended"), or         *)
(*   - the backend failed ("failed").                                      *)
(* The first two are ApplyError::LostRace, the last ApplyError::Backend.   *)
(* An empty batch succeeds at once.                                        *)
(***************************************************************************)
EXTENDS RefEdits

CONSTANTS
  Writers,   \* callers of apply_batch: threads or processes
  Refs,      \* ref names
  Absent,    \* what a ref that does not exist points at
  Batches    \* the batches callers may submit

VARIABLES
  refs,      \* the object each ref points at
  batch,     \* the open batch of each writer
  status     \* how the call of each writer stands

vars == <<refs, batch, status>>

Init ==
    /\ refs = [r \in Refs |-> Absent]
    /\ batch = [w \in Writers |-> NoEdits]
    /\ status = [w \in Writers |-> "none"]

Submit(w) ==
    /\ status[w] = "none"
    /\ \E edits \in Batches \ {NoEdits} :
          batch' = [batch EXCEPT ![w] = edits]
    /\ status' = [status EXCEPT ![w] = "open"]
    /\ UNCHANGED refs

SubmitNothing(w) ==
    /\ status[w] = "none"
    /\ status' = [status EXCEPT ![w] = "ok"]
    /\ UNCHANGED <<refs, batch>>

Close(w, how) ==
    /\ status[w] = "open"
    /\ status' = [status EXCEPT ![w] = how]
    /\ batch' = [batch EXCEPT ![w] = NoEdits]

Win(w) ==
    /\ Close(w, "ok")
    /\ ExpectationsHold(refs, batch[w])
    /\ refs' = Landed(refs, batch[w])

Lose(w) ==
    /\ Close(w, "lost")
    /\ ~ExpectationsHold(refs, batch[w])
    /\ UNCHANGED refs

Fail(w) ==
    /\ \E how \in {"contended", "failed"} : Close(w, how)
    /\ UNCHANGED refs

\* The caller has its answer.
Return(w) ==
    /\ status[w] \notin {"none", "open"}
    /\ status' = [status EXCEPT ![w] = "none"]
    /\ UNCHANGED <<refs, batch>>

Next ==
    \E w \in Writers :
        \/ Submit(w) \/ SubmitNothing(w)
        \/ Win(w) \/ Lose(w) \/ Fail(w)
        \/ Return(w)

Spec == Init /\ [][Next]_vars
=============================================================================
