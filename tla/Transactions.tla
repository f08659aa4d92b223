---------------------------- MODULE Transactions ----------------------------
(***************************************************************************)
(* Transactions over several kinds (crates/git-store/src/transaction.rs)   *)
(* beside the entity operations of Entities.tla.                           *)
(*                                                                         *)
(* A transaction stages publications and deletions, each with an           *)
(* expectation of its caller's on the ref.  Its commit resolves them one   *)
(* by one against the refs, then builds the next index of every kind they  *)
(* touch, and applies all edits as one batch.  Nothing is retried.         *)
(*                                                                         *)
(* An entity is staged at most once in a transaction: a batch with two     *)
(* edits of one ref is not represented.                                    *)
(***************************************************************************)
EXTENDS Entities

CONSTANTS
  Txns,     \* transactions
  Staged    \* the operations each transaction stages, in order

\* StagedPublish, at its canonical name or an alias; StagedDelete, at the
\* canonical name of the document it names.
StagedOps == [op : {"publish", "delete"}, name : Names, doc : Docs]

ASSUME StagedAssumption ==
    /\ Staged \in [Txns -> Seq(StagedOps) \ {<<>>}]
    /\ \A t \in Txns : \A i, j \in DOMAIN Staged[t] :
          Staged[t][i].name = Staged[t][j].name => i = j

VARIABLES
  stage,   \* where the commit of each transaction is, or how it returned
  work     \* its local variables

txvars == <<stage, work>>

TxWorking == {"staging", "listing", "indexing", "applying"}
TxReturned == {"ok", "stale", "lost"}

-----------------------------------------------------------------------------
(* Helpers *)

\* The staged operation the commit has come to, and the ref it names.
Current(t) == Staged[t][Len(work[t].commits) + 1]
OpTip(t) == refs[Current(t).name]
OpExpect(t) == work[t].expect[Len(work[t].commits) + 1]

StageGoto(t, label) == stage' = [stage EXCEPT ![t] = label]

\* index_deltas: the commit each staged operation leaves at its name.
Deltas(t, commits, k) ==
    LET settled == {i \in DOMAIN commits :
                       commits[i] # Absent /\ KindOf[Staged[t][i].name] = k}
    IN  [n \in {Staged[t][i].name : i \in settled} |->
            commits[CHOOSE i \in settled : Staged[t][i].name = n]]

Touched(t, commits) == {k \in Kinds : DOMAIN Deltas(t, commits, k) # {}}

\* `entries` with every delta overlaid.
Overlaid(entries, deltas) ==
    [n \in DOMAIN entries \cup DOMAIN deltas |->
        IF n \in DOMAIN deltas THEN <<deltas[n]>> ELSE entries[n]]
-----------------------------------------------------------------------------
\* The caller stages its operations; it may have learnt each expectation at
\* any earlier time.
TxStart(t) ==
    /\ stage[t] = "idle"
    /\ \E expect \in [DOMAIN Staged[t] -> AllTokens] :
          /\ \A i \in DOMAIN expect : expect[i] \in Tokens(Staged[t][i].name)
          /\ work' = [work EXCEPT ![t].expect = expect]
    /\ StageGoto(t, "staging")
    /\ UNCHANGED vars

\* The operation has settled on `commit`.  After the last one the commit goes
\* on with the indexes of the kinds it touches; without any it is done.
Settle(t, commit, batch) ==
    LET commits == Append(work[t].commits, commit)
        kinds == Touched(t, commits)
    IN  /\ work' = [work EXCEPT ![t].commits = commits, ![t].batch = batch,
                                ![t].kinds = kinds]
        /\ StageGoto(t, IF Len(commits) < Len(Staged[t]) THEN "staging"
                        ELSE IF kinds = {} THEN "ok" ELSE "listing")

\* matches_expectation, and the comparison in Kind::resolve_publish.
OpStale(t) == stage[t] = "staging" /\ OpTip(t) # OpExpect(t)

StageStale(t) ==
    /\ OpStale(t)
    /\ StageGoto(t, "stale")
    /\ UNCHANGED <<vars, work>>

Staging(t, op) == stage[t] = "staging" /\ ~OpStale(t) /\ Current(t).op = op

\* Transaction::stage_publish, by way of Kind::resolve_publish.
StageSame(t) ==
    /\ Staging(t, "publish")
    /\ Carries(OpTip(t), Current(t).doc)
    /\ Settle(t, OpTip(t), work[t].batch)
    /\ UNCHANGED vars

StageNext(t) ==
    /\ Staging(t, "publish")
    /\ ~Carries(OpTip(t), Current(t).doc)
    /\ LET commit == WriteCommit(LiveEntry(Current(t).doc, clock), OpTip(t))
       IN  Settle(t, commit, WithEdit(work[t].batch, Current(t).name,
                                      Edit(OpTip(t), commit)))
    /\ UNCHANGED vars

\* Transaction::stage_delete.
StageNothing(t) ==
    /\ Staging(t, "delete")
    /\ ~Present(OpTip(t))
    /\ Settle(t, Absent, work[t].batch)
    /\ UNCHANGED vars

\* A plausible bug: the tombstone starts a history of its own.
StageDeleteRoot(t) ==
    /\ Staging(t, "delete")
    /\ Present(OpTip(t))
    /\ LET commit == WriteCommit(TombstoneEntry(Current(t).doc, clock), Absent)
       IN  Settle(t, commit, WithEdit(work[t].batch, Current(t).name,
                                      Edit(OpTip(t), commit)))
    /\ UNCHANGED vars

\* A plausible bug: a deleted entity is deleted again.
StageDeleteAgain(t) ==
    /\ Staging(t, "delete")
    /\ OpTip(t) # Absent
    /\ LET commit == WriteCommit(TombstoneEntry(Current(t).doc, clock), OpTip(t))
       IN  Settle(t, commit, WithEdit(work[t].batch, Current(t).name,
                                      Edit(OpTip(t), commit)))
    /\ UNCHANGED vars

StageDelete(t) ==
    /\ Staging(t, "delete")
    /\ Present(OpTip(t))
    /\ LET commit == WriteCommit(TombstoneEntry(Current(t).doc, clock), OpTip(t))
       IN  Settle(t, commit, WithEdit(work[t].batch, Current(t).name,
                                      Edit(OpTip(t), commit)))
    /\ UNCHANGED vars

-----------------------------------------------------------------------------
(* The index of each touched kind.  The code takes the kinds in name       *)
(* order; the order makes no difference here and any is allowed.           *)

\* One step for a listing that takes no snapshot, as in SourceEntries.
ListEntries(t) ==
    /\ stage[t] = "listing"
    /\ \E k \in work[t].kinds :
          work' = [work EXCEPT ![t].kind = {k},
                     ![t].entries = Overlaid(SourceEntries(k),
                                             Deltas(t, work[t].commits, k))]
    /\ StageGoto(t, "indexing")
    /\ UNCHANGED vars

EditIndex(t) ==
    /\ stage[t] = "indexing"
    /\ LET k == CHOOSE x \in work[t].kind : TRUE
           batch == WithIndexEdit(work[t].batch, k, refs[k], work[t].entries)
           rest == work[t].kinds \ {k}
       IN  /\ work' = [work EXCEPT ![t].batch = batch, ![t].kinds = rest,
                                   ![t].kind = {}, ![t].entries = Absent]
           /\ StageGoto(t, IF rest # {} THEN "listing"
                           ELSE IF DOMAIN batch = {} THEN "ok" ELSE "applying")
    /\ UNCHANGED vars

-----------------------------------------------------------------------------
(* RefStore::apply_batch. *)

\* A plausible bug: the edits are applied one by one, as far as they go.
BatchWinsPartly(t) ==
    /\ stage[t] = "applying"
    /\ LET batch == work[t].batch
           held == {r \in DOMAIN batch : refs[r] = batch[r].expected}
       IN  refs' = Landed(refs, [r \in held |-> batch[r]])
    /\ work' = [work EXCEPT ![t].batch = NoEdits]
    /\ StageGoto(t, "ok")
    /\ UNCHANGED <<clock, pc, job>>

BatchWins(t) ==
    /\ stage[t] = "applying"
    /\ ExpectationsHold(refs, work[t].batch)
    /\ refs' = Landed(refs, work[t].batch)
    /\ work' = [work EXCEPT ![t].batch = NoEdits]
    /\ StageGoto(t, "ok")
    /\ UNCHANGED <<clock, pc, job>>

\* A plausible bug: the index edits are a batch of their own.
BatchLosesPartly(t) ==
    /\ stage[t] = "applying"
    /\ ~ExpectationsHold(refs, work[t].batch)
    /\ LET held == {k \in Kinds \cap DOMAIN work[t].batch :
                       refs[k] = work[t].batch[k].expected}
       IN  refs' = Landed(refs, [k \in held |-> work[t].batch[k]])
    /\ work' = [work EXCEPT ![t].batch = NoEdits]
    /\ StageGoto(t, "lost")
    /\ UNCHANGED <<clock, pc, job>>

\* Whatever the backend turns the batch down for, the caller gets the error back.
BatchLoses(t) ==
    /\ stage[t] = "applying"
    /\ ~ExpectationsHold(refs, work[t].batch) \/ t \in Contended
    /\ work' = [work EXCEPT ![t].batch = NoEdits]
    /\ StageGoto(t, "lost")
    /\ UNCHANGED vars

-----------------------------------------------------------------------------
TxInit ==
    /\ Init
    /\ stage = [t \in Txns |-> "idle"]
    /\ work = [t \in Txns |->
                  [expect |-> <<>>, commits |-> <<>>, batch |-> NoEdits,
                   kinds |-> {}, kind |-> {}, entries |-> Absent]]

TxStep(t) ==
    \/ StageStale(t) \/ StageSame(t) \/ StageNext(t)
    \/ StageNothing(t) \/ StageDelete(t)
    \/ ListEntries(t) \/ EditIndex(t)
    \/ BatchWins(t) \/ BatchLoses(t)

EntityStep == \/ \E c \in Calls : Start(c) \/ Step(c)
              \/ Tick

TxFinished ==
    /\ \A c \in Calls : pc[c] \in Returned
    /\ \A t \in Txns : stage[t] \in TxReturned
    /\ UNCHANGED <<vars, txvars>>

TxNext ==
    \/ \E t \in Txns : TxStart(t) \/ TxStep(t)
    \/ EntityStep /\ UNCHANGED txvars
    \/ TxFinished

TxSpec == TxInit /\ [][TxNext]_<<vars, txvars>>

-----------------------------------------------------------------------------
(* Properties *)

TxOutcome(t) ==
    IF stage[t] = "idle" THEN "none"
    ELSE IF stage[t] \in TxWorking THEN "open"
    ELSE IF stage[t] = "ok" THEN "ok" ELSE "failed"

Whole == INSTANCE TransactionLog WITH
             log <- [n \in Names |-> refs[n]],
             expect <- [t \in Txns |-> work[t].expect],
             outcome <- [t \in Txns |-> TxOutcome(t)],
             Pruned <- PrunedNames, Grafted <- GraftedNames

(***************************************************************************)
(* Whatever else is written meanwhile, a transaction does everything it    *)
(* staged in one step, each operation on top of what its caller expected,  *)
(* or nothing: the code implements TransactionLog.                         *)
(***************************************************************************)
ImplementsTransactionLog == Whole!Spec

(***************************************************************************)
(* A publication that a transaction returned stays in the history of its   *)
(* name, also one that was there already when it was staged.               *)
(***************************************************************************)
ReturnedStaysReachable ==
    \A t \in Txns : stage[t] = "ok" =>
        \A i \in DOMAIN Staged[t] :
            Staged[t][i].name \in BranchNames =>
                IsPrefix(work[t].commits[i], refs[Staged[t][i].name])

\* A name a transaction deletes at is the canonical one of its document: no
\* alias puts another document there.
DeletesAreCanonical ==
    \A t \in Txns : \A i \in DOMAIN Staged[t] :
        LET op == Staged[t][i]
        IN  op.op = "delete" =>
                /\ \A u \in Txns : \A j \in DOMAIN Staged[u] :
                      Staged[u][j].name = op.name => Staged[u][j].doc = op.doc
                /\ \A c \in Calls :
                      Request[c].name = op.name => Request[c].doc = op.doc
                /\ \A e \in Docs \X Times : CommitName[e] # op.name

(***************************************************************************)
(* The tombstone of a staged deletion names the entity the caller asked    *)
(* for, without a look at the ref.  It names the document it deletes all   *)
(* the same, in every history and whatever the calls publish, delete or    *)
(* graft beside, as long as canonical names hold what they are named for.  *)
(***************************************************************************)
TombstonesNameBeneath ==
    DeletesAreCanonical => \A n \in Names : TombstonesName(refs[n])

(***************************************************************************)
(* "A stale expectation on any staged operation leaves every ref this      *)
(* transaction would have touched unchanged": a batch lands only while     *)
(* every staged expectation holds.                                         *)
(***************************************************************************)
StagedExpectationsHold ==
    [][\A t \in Txns :
        (stage[t] = "applying" /\ stage'[t] = "ok")
        => \A i \in DOMAIN Staged[t] :
               refs[Staged[t][i].name] = work[t].expect[i]]_<<vars, txvars>>
=============================================================================
