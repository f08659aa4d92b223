----------------------------- MODULE TornStore ------------------------------
(***************************************************************************)
(* What apply_batch of the git backend still promises when a writer may be *)
(* killed, interrupted or fail to write (crates/gix-refstore/src/repo.rs): *)
(* the batch of RefStore.tla, but for a win that takes time.  A batch wins *)
(* in one step, in which all its expectations hold, and then lands one ref *)
(* after the other.  Until it is through, no batch that shares a ref with  *)
(* it wins.  Only a breakable writer can stop half way: what it has landed *)
(* stays, what is left never lands.                                        *)
(***************************************************************************)
EXTENDS RefStore

CONSTANT Breakable   \* writers that may be cut short

VARIABLE left        \* the refs each writer has won and has yet to land

tornVars == <<refs, batch, status, left>>

TornInit ==
    /\ Init
    /\ left = [w \in Writers |-> {}]

Landing(w) == status[w] = "landing"

\* The batch wins: from here on its refs are its own.
WinTorn(w) ==
    /\ status[w] = "open"
    /\ ExpectationsHold(refs, batch[w])
    /\ \A v \in Writers :
          Landing(v) => DOMAIN batch[v] \cap DOMAIN batch[w] = {}
    /\ status' = [status EXCEPT ![w] = "landing"]
    /\ left' = [left EXCEPT ![w] = DOMAIN batch[w]]
    /\ UNCHANGED <<refs, batch>>

\* The writer is done with its batch, landed or not.
Leave(w, how) ==
    /\ status' = [status EXCEPT ![w] = how]
    /\ batch' = [batch EXCEPT ![w] = NoEdits]
    /\ left' = [left EXCEPT ![w] = {}]

Land(w, r) ==
    /\ Landing(w)
    /\ r \in left[w]
    /\ refs' = [refs EXCEPT ![r] = batch[w][r].new]
    /\ IF left[w] = {r}
       THEN Leave(w, "ok")
       ELSE /\ left' = [left EXCEPT ![w] = @ \ {r}]
            /\ UNCHANGED <<batch, status>>

\* A ref cannot be written: the caller hears of a failure.
Tear(w) ==
    /\ w \in Breakable
    /\ Landing(w)
    /\ Leave(w, "failed")
    /\ UNCHANGED refs

\* The process is gone: its caller hears nothing.
Die(w) ==
    /\ w \in Breakable
    /\ status[w] \notin {"none", "dead"}
    /\ Leave(w, "dead")
    /\ UNCHANGED refs

TornReturn(w) ==
    /\ status[w] \notin {"landing", "dead"}
    /\ Return(w)

TornNext ==
    \E w \in Writers :
        \/ /\ Submit(w) \/ SubmitNothing(w) \/ Lose(w) \/ Fail(w) \/ TornReturn(w)
           /\ UNCHANGED left
        \/ WinTorn(w) \/ (\E r \in Refs : Land(w, r))
        \/ Tear(w) \/ Die(w)

TornSpec == TornInit /\ [][TornNext]_tornVars
=============================================================================
