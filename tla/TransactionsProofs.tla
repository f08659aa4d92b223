------------------------- MODULE TransactionsProofs -------------------------
(***************************************************************************)
(* What transactions promise beside any set of entity calls, names, kinds  *)
(* and documents: TransactionLog is implemented, what a transaction        *)
(* returned stays, the index never runs ahead, and tombstones name the     *)
(* documents beneath them.                                                 *)
(*                                                                         *)
(* The argument is again about the batch in flight.  Each operation is     *)
(* settled with a single look at its ref.  Either it put an edit into the  *)
(* batch, which moves the ref from what the caller expected to what was    *)
(* staged, or it found nothing to do (SettledOK).  A batch that wins finds *)
(* every ref it edits where the edit expects it, so all of these moves are *)
(* made in one step, and to each ref, by itself, it is a move that a       *)
(* single call could have made.  That is why the invariants of the entity  *)
(* calls carry over: they only need to know that branches grow.            *)
(*                                                                         *)
(* A staged tombstone names the entity id of its caller.  The results hold *)
(* where that is the document at the ref, which DeletesAreCanonical says.  *)
(***************************************************************************)
EXTENDS Transactions, EntitiesProofs

-----------------------------------------------------------------------------
(* The inductive invariant *)

\* A live publication of this history may be deleted at n by a transaction.
RightDoc(n, h) ==
    Present(h) =>
        \A t \in Txns : \A i \in DOMAIN Staged[t] :
            Staged[t][i].op = "delete" /\ Staged[t][i].name = n
                => Staged[t][i].doc = Last(h).doc

\* Call c, with locals j at label l, keeps to canonical names.
CanonOK(c, j, l) ==
    /\ j.doc = Request[c].doc
    /\ j.name \in DOMAIN j.batch => RightDoc(j.name, j.batch[j.name].new)
    /\ Op(c) = "anonymous" /\ l \notin {"idle", "mint"} =>
           \E e \in Docs \X Times : j.name = CommitName[e]

TipsRight == \A n \in Names : RightDoc(n, refs[n])

CanonInv == TipsRight /\ \A c \in Calls : CanonOK(c, job[c], pc[c])

TxFields == {"expect", "commits", "batch", "kinds", "kind", "entries"}
TxLabels == {"idle"} \cup TxWorking \cup TxReturned

\* There is nothing to do at a ref that holds `old`; the operation moves it to
\* `new`.
IdleAt(op, old) == IF op.op = "publish" THEN Carries(old, op.doc) ELSE ~Present(old)
DoneBy(op, old, new) ==
    /\ new # Absent /\ Front(new) = old
    /\ Last(new).doc = op.doc
    /\ Last(new).dead <=> op.op = "delete"

\* No operation of t has anything to do.
NothingToDo(t) ==
    \A i \in DOMAIN Staged[t] : IdleAt(Staged[t][i], work[t].expect[i])

\* What the i-th operation of t has settled on.
SettledOK(t, w, i) ==
    LET op == Staged[t][i]
    IN  IF IdleAt(op, w.expect[i])
        THEN /\ op.name \notin DOMAIN w.batch
             /\ w.commits[i] = IF op.op = "publish" THEN w.expect[i] ELSE Absent
        ELSE /\ op.name \in DOMAIN w.batch
             /\ w.batch[op.name].expected = w.expect[i]
             /\ w.batch[op.name].new = w.commits[i]
             /\ DoneBy(op, w.expect[i], w.commits[i])

\* The commit is in the history of branch name n, or about to land in it.
Coming(w, n, commit, r) ==
    n \in BranchNames =>
        \/ IsPrefix(commit, r[n])
        \/ n \in DOMAIN w.batch /\ w.batch[n].new = commit

TxHeld(w, tree, r) ==
    \A m \in DOMAIN tree : \A i \in DOMAIN tree[m] : Coming(w, m, tree[m][i], r)

\* A transaction that is not done, with what it has put into its batch.
OpenOK(t, w, r) ==
    /\ DOMAIN w.batch \subseteq Names \cup Kinds
    /\ \A k \in Kinds \cap DOMAIN w.batch :
           IsIndexTree(k, w.batch[k].new) /\ TxHeld(w, w.batch[k].new, r)
    /\ \A n \in Names \cap DOMAIN w.batch :
           \E i \in DOMAIN w.commits : Staged[t][i].name = n
    /\ \A i \in DOMAIN w.commits :
           SettledOK(t, w, i) /\ Coming(w, Staged[t][i].name, w.commits[i], r)

\* The commits a transaction returned.
ReturnedOK(t, w, r) ==
    \A i \in DOMAIN w.commits :
        Staged[t][i].name \in BranchNames => IsPrefix(w.commits[i], r[Staged[t][i].name])

TxOK(t, s, w, r) ==
    /\ s \in TxLabels
    /\ DOMAIN w = TxFields
    /\ s # "idle" => w.expect \in [DOMAIN Staged[t] -> History]
    /\ w.commits \in Seq(History)
    /\ Len(w.commits) <= Len(Staged[t])
    /\ s \in {"idle", "staging"} => Len(w.commits) < Len(Staged[t])
    /\ s \in {"listing", "indexing", "applying", "ok"} => Len(w.commits) = Len(Staged[t])
    /\ s = "idle" => w.commits = <<>> /\ w.batch = NoEdits
    /\ w.kinds \subseteq Kinds
    /\ s = "indexing" =>
           \E k \in Kinds : /\ w.kind = {k}
                            /\ IsIndexTree(k, w.entries) /\ TxHeld(w, w.entries, r)
    /\ s \in TxWorking => OpenOK(t, w, r)
    /\ s = "ok" => ReturnedOK(t, w, r)

TxInv ==
    /\ IInv /\ HInv /\ CanonInv
    /\ DOMAIN stage = Txns /\ DOMAIN work = Txns
    /\ \A t \in Txns : TxOK(t, stage[t], work[t], refs)

-----------------------------------------------------------------------------
(* Canonical names *)

(* A history that ends in no live publication may be at any name,          *)
LEMMA NothingPresent ==
    ASSUME NEW n, NEW h, ~Present(h)
    PROVE  RightDoc(n, h)
BY DEF RightDoc

(* and what a call publishes at the name it was asked for is the document  *)
(* the name is for, if it is the name of a staged deletion.                *)
LEMMA RequestedIsRight ==
    ASSUME DeletesAreCanonical, NEW c \in Calls, NEW h, Last(h).doc = Request[c].doc
    PROVE  RightDoc(Request[c].name, h)
BY DEF RightDoc, DeletesAreCanonical

(* A step of a call that adds no edit of its entity ref.                   *)
LEMMA CanonQuiet ==
    ASSUME IInv, CanonInv, NEW c \in Calls,
           job'[c].doc = job[c].doc, job'[c].name = job[c].name,
           job[c].name \in DOMAIN job'[c].batch =>
               /\ job[c].name \in DOMAIN job[c].batch
               /\ job'[c].batch[job[c].name] = job[c].batch[job[c].name],
           Op(c) = "anonymous" /\ pc'[c] \notin {"idle", "mint"} =>
               pc[c] \notin {"idle", "mint"}
    PROVE  CanonOK(c, job'[c], pc'[c])
<1>1. CanonOK(c, job[c], pc[c])
  BY DEF CanonInv
<1> QED
  BY <1>1 DEF CanonOK

(* The other steps: a publication, a tombstone, a pruning.                 *)
LEMMA CanonEdit ==
    ASSUME IInv, CanonInv, NEW c \in Calls, pc[c] \notin {"idle", "mint"},
           NEW expected, NEW new,
           job'[c].doc = job[c].doc, job'[c].name = job[c].name,
           job'[c].batch = WithEdit(NoEdits, job[c].name, Edit(expected, new)),
           RightDoc(job[c].name, new)
    PROVE  CanonOK(c, job'[c], pc'[c])
<1>1. CanonOK(c, job[c], pc[c])
  BY DEF CanonInv
<1>2. job'[c].batch[job[c].name].new = new
  BY DEF WithEdit, Edit
<1> QED
  BY <1>1, <1>2 DEF CanonOK

(* Whatever a call does, it keeps to canonical names.                      *)
LEMMA CanonKeeps ==
    ASSUME DeletesAreCanonical, IInv, CanonInv, NEW c \in Calls, Start(c) \/ Step(c)
    PROVE  CanonOK(c, job'[c], pc'[c])
<1> USE Domains DEF Locals
<1>1. /\ CanonOK(c, job[c], pc[c]) /\ CallOK(c, job[c], pc[c]) /\ IsJob(job[c])
      /\ clock \in Times /\ Tip(c) \in History
      /\ job[c].name \in Names /\ KindOf[job[c].name] # job[c].name
      /\ IndexRef(c) = KindOf[job[c].name]
  BY CallFacts, KindFacts DEF CanonInv
<1>2. job[c].doc \in Docs /\ job[c].doc = Request[c].doc /\ Op(c) \in Ops
  BY <1>1, CallFacts DEF IsJob, CanonOK, Requests, Op
<1>3. CASE Start(c)
  <2>1. /\ job'[c].doc = job[c].doc /\ job'[c].name = job[c].name
        /\ job'[c].batch = job[c].batch /\ pc'[c] = FirstStep[Op(c)]
    BY <1>3 DEF Start, Goto
  <2>2. Op(c) = "anonymous" => pc'[c] = "mint"
    BY <2>1 DEF FirstStep
  <2> QED
    BY <2>1, <2>2, CanonQuiet
<1>4. CASE \/ UpdateRead(c) \/ UpdateExpect(c) \/ ReadIndex(c)
           \/ ResolveStale(c) \/ DeleteAbsent(c) \/ DeleteRepeated(c)
           \/ RemoveAbsent(c) \/ AnonymousThere(c) \/ RebuildScan(c)
  <2>1. /\ job'[c].doc = job[c].doc /\ job'[c].name = job[c].name
        /\ job'[c].batch = job[c].batch
    BY <1>4 DEF UpdateRead, UpdateExpect, ReadIndex, ResolveStale, DeleteAbsent,
                DeleteRepeated, RemoveAbsent, AnonymousThere, RebuildScan
  <2>2. pc[c] \notin {"idle", "mint"}
    BY <1>4 DEF UpdateRead, UpdateExpect, ReadIndex, ResolveStale, DeleteAbsent,
                DeleteRepeated, RemoveAbsent, AnonymousThere, RebuildScan, At
  <2> QED
    BY <2>1, <2>2, CanonQuiet
<1>5. CASE ResolveSame(c) \/ ApplyWins(c) \/ ApplyLoses(c) \/ ApplyFails(c)
  <2>1. /\ job'[c].doc = job[c].doc /\ job'[c].name = job[c].name
        /\ job'[c].batch = NoEdits /\ pc[c] \notin {"idle", "mint"}
    BY <1>5 DEF ResolveSame, ApplyWins, ApplyLoses, ApplyFails
  <2> QED
    BY <2>1, CanonQuiet, NoEditsFacts
<1>6. CASE ResolveNext(c)
  <2>1. PICK commit : commit = WriteCommit(LiveEntry(job[c].doc, clock), ParentOf(c))
    OBVIOUS
  <2>2. /\ job'[c].doc = job[c].doc /\ job'[c].name = job[c].name
        /\ job'[c].batch = WithEdit(NoEdits, job[c].name, Edit(Tip(c), commit))
        /\ pc[c] = "resolve" /\ Op(c) \in {"publish", "update"}
    BY <1>6, <2>1 DEF ResolveNext, Publishing
  <2>3. LiveEntry(job[c].doc, clock) \in Entry /\ ParentOf(c) \in History
    BY <1>1, <1>2, EntryFacts DEF ParentOf, IsJob
  <2>4. Last(commit).doc = job[c].doc
    <3>1. Last(commit) = LiveEntry(job[c].doc, clock)
      BY <2>1, <2>3, WriteCommitFacts
    <3> QED
      BY <3>1 DEF LiveEntry
  <2>5. job[c].name = Request[c].name
    BY <1>1, <2>2 DEF CallOK
  <2>6. RightDoc(job[c].name, commit)
    BY <1>2, <2>4, <2>5, RequestedIsRight
  <2> QED
    BY <2>2, <2>6, CanonEdit
<1>7. CASE DeleteLive(c)
  <2>1. PICK commit : commit = WriteCommit(TombstoneOfTip(c), Tip(c))
    OBVIOUS
  <2>2. /\ job'[c].doc = job[c].doc /\ job'[c].name = job[c].name
        /\ job'[c].batch = WithEdit(NoEdits, job[c].name, Edit(Tip(c), commit))
        /\ pc[c] = "resolve" /\ Present(Tip(c))
    BY <1>7, <2>1 DEF DeleteLive, At
  <2>3. Last(Tip(c)).doc \in Docs
    BY <1>1, <2>2, FrontFacts DEF Present, Entry
  <2>4. ~Present(commit)
    BY <1>1, <2>1, <2>3, EntryFacts, WriteCommitFacts DEF Present, TombstoneOfTip
  <2> QED
    BY <2>2, <2>4, NothingPresent, CanonEdit
<1>8. CASE RemovePresent(c)
  <2>1. /\ job'[c].doc = job[c].doc /\ job'[c].name = job[c].name
        /\ job'[c].batch = WithEdit(NoEdits, job[c].name, Edit(Tip(c), Absent))
        /\ pc[c] = "resolve"
    BY <1>8 DEF RemovePresent, At
  <2>2. ~Present(Absent)
    BY DEF Present
  <2> QED
    BY <2>1, <2>2, NothingPresent, CanonEdit
<1>9. CASE AnonymousMint(c)
  <2>1. /\ job'[c].doc = job[c].doc /\ job'[c].name = CommitName[<<job[c].doc, clock>>]
        /\ job'[c].batch = job[c].batch /\ pc[c] = "mint"
    BY <1>9 DEF AnonymousMint, At
  <2>2. DOMAIN job'[c].batch = {}
    BY <1>1, <2>1, NoEditsFacts DEF CallOK
  <2>3. <<job[c].doc, clock>> \in Docs \X Times
    BY <1>1, <1>2
  <2> QED
    BY <1>2, <2>1, <2>2, <2>3 DEF CanonOK
<1>10. CASE AnonymousCreate(c)
  <2>1. /\ job'[c].doc = job[c].doc /\ job'[c].name = job[c].name
        /\ job'[c].batch = WithEdit(NoEdits, job[c].name, Edit(Absent, job[c].commit))
        /\ pc[c] = "check" /\ Op(c) = "anonymous"
    BY <1>10 DEF AnonymousCreate, At
  <2>2. \E e \in Docs \X Times : job[c].name = CommitName[e]
    BY <1>1, <2>1 DEF CanonOK
  <2>3. RightDoc(job[c].name, job[c].commit)
    BY <2>2 DEF RightDoc, DeletesAreCanonical
  <2> QED
    BY <2>1, <2>3, CanonEdit
<1>11. CASE ReadSource(c)
  <2>1. PICK batch :
            batch = WithIndexEdit(job[c].batch, IndexRef(c), job[c].index, NextEntries(c))
    OBVIOUS
  <2>2. /\ job'[c].doc = job[c].doc /\ job'[c].name = job[c].name
        /\ job'[c].batch = batch /\ pc[c] = "source"
    BY <1>11, <2>1 DEF ReadSource
  <2>3. job[c].name \in DOMAIN batch =>
            /\ job[c].name \in DOMAIN job[c].batch
            /\ batch[job[c].name] = job[c].batch[job[c].name]
    BY <1>1, <2>1 DEF WithIndexEdit, WithEdit
  <2> QED
    BY <2>2, <2>3, CanonQuiet
<1>12. CASE RebuildSwap(c)
  <2>1. /\ job'[c].doc = job[c].doc /\ job'[c].name = job[c].name /\ pc[c] = "swap"
        /\ job'[c].batch \in {NoEdits, WithEdit(NoEdits, IndexRef(c),
                                   Edit(refs[IndexRef(c)], job[c].entries))}
    BY <1>12 DEF RebuildSwap, At
  <2>2. job[c].name \notin DOMAIN job'[c].batch
    BY <1>1, <2>1, NoEditsFacts DEF WithEdit
  <2> QED
    BY <2>1, <2>2, CanonQuiet
<1> QED
  BY <1>3, <1>4, <1>5, <1>6, <1>7, <1>8, <1>9, <1>10, <1>11, <1>12 DEF Step

-----------------------------------------------------------------------------
(* The steps of a transaction that move no ref *)

(* The shapes of what a transaction stages and holds.                      *)
LEMMA StagedFacts ==
    ASSUME NEW t \in Txns
    PROVE  /\ Staged[t] \in Seq(StagedOps) /\ Staged[t] # <<>>
           /\ Len(Staged[t]) \in Nat \ {0} /\ DOMAIN Staged[t] = 1 .. Len(Staged[t])
           /\ \A i \in DOMAIN Staged[t] :
                 /\ Staged[t][i].op \in {"publish", "delete"}
                 /\ Staged[t][i].name \in Names /\ Staged[t][i].doc \in Docs
           /\ \A i, j \in DOMAIN Staged[t] :
                 Staged[t][i].name = Staged[t][j].name => i = j
<1>1. Staged[t] \in Seq(StagedOps) /\ Staged[t] # <<>>
  BY StagedAssumption
<1>2. Len(Staged[t]) \in Nat \ {0} /\ DOMAIN Staged[t] = 1 .. Len(Staged[t])
  BY <1>1, EmptySeq, LenProperties
<1>3. \A i \in DOMAIN Staged[t] : Staged[t][i] \in StagedOps
  BY <1>1, <1>2, ElementOfSeq
<1> QED
  BY <1>1, <1>2, <1>3, StagedAssumption DEF StagedOps

(* The empty history is a prefix of every other.                           *)
LEMMA AbsentIsPrefix ==
    ASSUME NEW h \in History
    PROVE  IsPrefix(Absent, h)
<1>1. Absent \in History /\ Len(Absent) = 0 /\ Len(h) \in Nat
  BY EmptySeq, LenProperties DEF Absent, History
<1> QED
  BY <1>1, PrefixMeaning

(* A transaction steps, and nothing else moves.                            *)
LEMMA TxAlone ==
    ASSUME TxInv, NEW t \in Txns, UNCHANGED vars,
           NEW s, StageGoto(t, s), NEW w,
           work' = [work EXCEPT ![t] = w] \/ (UNCHANGED work /\ w = work[t]),
           TxOK(t, s, w, refs)
    PROVE  TxInv'
<1>1. IInv' /\ HInv'
  BY InvNext, HistoryStep DEF TxInv
<1>2. CanonInv'
  BY DEF TxInv, CanonInv, TipsRight, vars
<1>3. /\ DOMAIN stage' = Txns /\ DOMAIN work' = Txns
      /\ stage'[t] = s /\ work'[t] = w
      /\ \A u \in Txns : u # t => stage'[u] = stage[u] /\ work'[u] = work[u]
  BY DEF StageGoto, TxInv
<1>4. refs' = refs
  BY DEF vars
<1>5. \A u \in Txns : TxOK(u, stage'[u], work'[u], refs')
  BY <1>3, <1>4 DEF TxInv
<1> QED
  BY <1>1, <1>2, <1>3, <1>5 DEF TxInv

(* A transaction is issued.                                                *)
LEMMA TxStartKeeps ==
    ASSUME TxInv, NEW t \in Txns, TxStart(t)
    PROVE  TxInv'
<1>1. PICK expect \in [DOMAIN Staged[t] -> AllTokens] :
          work' = [work EXCEPT ![t].expect = expect]
  BY DEF TxStart
<1>2. stage[t] = "idle" /\ StageGoto(t, "staging") /\ UNCHANGED vars
  BY DEF TxStart
<1>3. TxOK(t, "idle", work[t], refs) /\ DOMAIN work = Txns
  BY <1>2 DEF TxInv
<1>4. AllTokens \subseteq History
  BY PrefixesFacts DEF AllTokens, Tokens, TxInv, IInv, TypeOK
<1>5. PICK w : w = [work[t] EXCEPT !.expect = expect]
  OBVIOUS
<1>6. /\ DOMAIN w = TxFields /\ w.expect = expect
      /\ w.commits = <<>> /\ w.batch = NoEdits /\ w.kinds = work[t].kinds
  BY <1>3, <1>5 DEF TxOK, TxFields
<1>7. work' = [work EXCEPT ![t] = w]
  BY <1>1, <1>3, <1>5
<1>8. OpenOK(t, w, refs)
  BY <1>6, NoEditsFacts DEF OpenOK
<1>9. TxOK(t, "staging", w, refs)
  BY <1>3, <1>4, <1>6, <1>8 DEF TxOK, TxLabels, TxWorking, TxReturned
<1> QED
  BY <1>2, <1>7, <1>9, TxAlone

(* An operation finds its ref where the caller did not expect it.          *)
LEMMA StaleKeeps ==
    ASSUME TxInv, NEW t \in Txns, StageStale(t)
    PROVE  TxInv'
<1>1. stage[t] = "staging" /\ StageGoto(t, "stale") /\ UNCHANGED vars /\ UNCHANGED work
  BY DEF StageStale, OpStale
<1>2. TxOK(t, "staging", work[t], refs)
  BY <1>1 DEF TxInv
<1>3. TxOK(t, "stale", work[t], refs)
  BY <1>2 DEF TxOK, TxLabels, TxWorking, TxReturned
<1> QED
  BY <1>1, <1>3, TxAlone

\* What t's next operation settles on, with an edit or without.
Settles(t, commit, batch) ==
    IF IdleAt(Current(t), OpTip(t))
    THEN /\ batch = work[t].batch
         /\ commit = IF Current(t).op = "publish" THEN OpTip(t) ELSE Absent
    ELSE /\ batch = WithEdit(work[t].batch, Current(t).name, Edit(OpTip(t), commit))
         /\ DoneBy(Current(t), OpTip(t), commit)

(* What is known while the next operation is looked at.                    *)
LEMMA CurrentFacts ==
    ASSUME TxInv, NEW t \in Txns, stage[t] = "staging", ~OpStale(t)
    PROVE  LET m == Len(work[t].commits) + 1 IN
           /\ m \in DOMAIN Staged[t] /\ Current(t) = Staged[t][m]
           /\ Current(t).name \in Names /\ Current(t).doc \in Docs
           /\ Current(t).op \in {"publish", "delete"}
           /\ OpTip(t) = refs[Current(t).name] /\ OpTip(t) \in History
           /\ work[t].expect[m] = OpTip(t)
           /\ DOMAIN work[t].commits = 1 .. Len(work[t].commits)
           /\ Len(work[t].commits) \in Nat
           /\ \A i \in DOMAIN work[t].commits :
                 /\ i \in DOMAIN Staged[t] /\ i # m
                 /\ Staged[t][i].name # Current(t).name
           /\ Current(t).name \notin DOMAIN work[t].batch
<1> DEFINE m == Len(work[t].commits) + 1
<1>1. TxOK(t, "staging", work[t], refs)
  BY DEF TxInv
<1>2. /\ work[t].commits \in Seq(History) /\ Len(work[t].commits) < Len(Staged[t])
      /\ OpenOK(t, work[t], refs)
  BY <1>1 DEF TxOK, TxWorking
<1>3. DOMAIN work[t].commits = 1 .. Len(work[t].commits) /\ Len(work[t].commits) \in Nat
  BY <1>2, LenProperties
<1>4. m \in DOMAIN Staged[t] /\ Current(t) = Staged[t][m]
  BY <1>2, <1>3, StagedFacts DEF Current
<1>5. /\ Current(t).name \in Names /\ Current(t).doc \in Docs
      /\ Current(t).op \in {"publish", "delete"}
  BY <1>4, StagedFacts
<1>6. OpTip(t) = refs[Current(t).name] /\ OpTip(t) \in History
  BY <1>5 DEF OpTip, TxInv, IInv, TypeOK
<1>7. work[t].expect[m] = OpTip(t)
  BY DEF OpStale, OpExpect
<1>8. ASSUME NEW i \in DOMAIN work[t].commits
      PROVE  i \in DOMAIN Staged[t] /\ i # m /\ Staged[t][i].name # Current(t).name
  <2>1. i \in DOMAIN Staged[t] /\ i # m
    BY <1>2, <1>3, StagedFacts
  <2> QED
    BY <1>4, <2>1, StagedFacts
<1>9. Current(t).name \notin DOMAIN work[t].batch
  BY <1>2, <1>5, <1>8 DEF OpenOK
<1> QED
  BY <1>3, <1>4, <1>5, <1>6, <1>7, <1>8, <1>9

(* The operation settles, with an edit or without.                         *)
LEMMA SettleStep ==
    ASSUME TxInv, NEW t \in Txns, stage[t] = "staging", ~OpStale(t),
           NEW commit \in History, NEW batch, Settles(t, commit, batch),
           Settle(t, commit, batch), UNCHANGED vars
    PROVE  /\ TxInv'
           /\ work'[t].expect = work[t].expect
           /\ \E s \in {"staging", "listing", "ok"} :
                 StageGoto(t, s) /\ (s = "ok" => NothingToDo(t))
<1> DEFINE m == Len(work[t].commits) + 1
           n == Current(t).name
<1>1. TxOK(t, "staging", work[t], refs) /\ DOMAIN work = Txns
  BY DEF TxInv
<1>2. /\ m \in DOMAIN Staged[t] /\ Current(t) = Staged[t][m]
      /\ n \in Names /\ Current(t).op \in {"publish", "delete"}
      /\ OpTip(t) = refs[n] /\ OpTip(t) \in History
      /\ work[t].expect[m] = OpTip(t)
      /\ DOMAIN work[t].commits = 1 .. Len(work[t].commits)
      /\ Len(work[t].commits) \in Nat
      /\ \A i \in DOMAIN work[t].commits :
            i \in DOMAIN Staged[t] /\ i # m /\ Staged[t][i].name # n
      /\ n \notin DOMAIN work[t].batch
  BY CurrentFacts
<1>3. PICK commits : commits = Append(work[t].commits, commit)
  OBVIOUS
<1>4. PICK kinds : kinds = Touched(t, commits)
  OBVIOUS
<1>5. PICK s : s = IF Len(commits) < Len(Staged[t]) THEN "staging"
                   ELSE IF kinds = {} THEN "ok" ELSE "listing"
  OBVIOUS
<1>6. PICK w : w = [work[t] EXCEPT !.commits = commits, !.batch = batch, !.kinds = kinds]
  OBVIOUS
<1>7. StageGoto(t, s) /\ work' = [work EXCEPT ![t] = w]
  BY <1>1, <1>3, <1>4, <1>5, <1>6 DEF Settle
<1>8. /\ DOMAIN w = TxFields /\ w.expect = work[t].expect /\ w.commits = commits
      /\ w.batch = batch /\ w.kinds = kinds
      /\ OpenOK(t, work[t], refs) /\ work[t].commits \in Seq(History)
      /\ Len(work[t].commits) < Len(Staged[t])
      /\ work[t].expect \in [DOMAIN Staged[t] -> History]
  BY <1>1, <1>6 DEF TxOK, TxFields, TxWorking
<1>9. /\ commits \in Seq(History) /\ Len(commits) = m
      /\ DOMAIN commits = DOMAIN work[t].commits \cup {m}
      /\ commits[m] = commit
      /\ \A i \in DOMAIN work[t].commits : commits[i] = work[t].commits[i]
  <2>1. /\ commits \in Seq(History) /\ Len(commits) = Len(work[t].commits) + 1
        /\ commits[Len(work[t].commits) + 1] = commit
        /\ \A i \in 1 .. Len(work[t].commits) : commits[i] = work[t].commits[i]
    BY <1>3, <1>8, AppendProperties
  <2>2. DOMAIN commits = 1 .. m
    BY <2>1, LenProperties
  <2> QED
    BY <1>2, <2>1, <2>2
<1>10. /\ DOMAIN batch \subseteq DOMAIN work[t].batch \cup {n}
       /\ DOMAIN work[t].batch \subseteq DOMAIN batch
       /\ \A r \in DOMAIN work[t].batch : batch[r] = work[t].batch[r]
       /\ IdleAt(Current(t), OpTip(t)) => n \notin DOMAIN batch
       /\ ~IdleAt(Current(t), OpTip(t)) =>
             n \in DOMAIN batch /\ batch[n].expected = OpTip(t) /\ batch[n].new = commit
  <2>1. CASE IdleAt(Current(t), OpTip(t))
    BY <1>2, <2>1 DEF Settles
  <2>2. CASE ~IdleAt(Current(t), OpTip(t))
    <3>1. batch = WithEdit(work[t].batch, n, Edit(OpTip(t), commit))
      BY <2>2 DEF Settles
    <3>2. DOMAIN batch = DOMAIN work[t].batch \cup {n}
      BY <3>1 DEF WithEdit
    <3>3. batch[n] = Edit(OpTip(t), commit)
      BY <3>1 DEF WithEdit
    <3>4. \A r \in DOMAIN work[t].batch : batch[r] = work[t].batch[r]
      BY <1>2, <3>1 DEF WithEdit
    <3> QED
      BY <2>2, <3>2, <3>3, <3>4 DEF Edit
  <2> QED
    BY <2>1, <2>2
<1>11. SettledOK(t, w, m)
  <2>1. /\ Staged[t][m] = Current(t) /\ w.expect[m] = OpTip(t)
        /\ w.commits[m] = commit /\ w.batch = batch
    BY <1>2, <1>8, <1>9
  <2>2. CASE IdleAt(Current(t), OpTip(t))
    <3>1. commit = IF Current(t).op = "publish" THEN OpTip(t) ELSE Absent
      BY <2>2 DEF Settles
    <3>2. n \notin DOMAIN batch
      BY <1>10, <2>2
    <3> QED
      BY <2>1, <2>2, <3>1, <3>2 DEF SettledOK
  <2>3. CASE ~IdleAt(Current(t), OpTip(t))
    <3>1. DoneBy(Current(t), OpTip(t), commit)
      BY <2>3 DEF Settles
    <3>2. /\ n \in DOMAIN batch
          /\ batch[n].expected = OpTip(t) /\ batch[n].new = commit
      BY <1>10, <2>3
    <3> QED
      BY <2>1, <2>3, <3>1, <3>2 DEF SettledOK
  <2> QED
    BY <2>2, <2>3
<1>12. ASSUME NEW i \in DOMAIN work[t].commits
       PROVE  SettledOK(t, w, i)
  <2>1. SettledOK(t, work[t], i) /\ Staged[t][i].name # n
    BY <1>2, <1>8 DEF OpenOK
  <2> QED
    BY <1>8, <1>9, <1>10, <2>1 DEF SettledOK
<1>13. \A x, c : Coming(work[t], x, c, refs) => Coming(w, x, c, refs)
  BY <1>8, <1>10 DEF Coming
<1>14. Coming(w, n, commit, refs)
  <2>1. CASE ~IdleAt(Current(t), OpTip(t))
    BY <1>8, <1>10, <2>1 DEF Coming
  <2>2. CASE IdleAt(Current(t), OpTip(t))
    <3>1. commit \in {OpTip(t), Absent}
      BY <2>2 DEF Settles
    <3> QED
      BY <1>2, <3>1, AbsentIsPrefix, PrefixReflexive DEF Coming
  <2> QED
    BY <2>1, <2>2
<1>15. OpenOK(t, w, refs)
  <2>1. DOMAIN w.batch \subseteq Names \cup Kinds
    BY <1>2, <1>8, <1>10 DEF OpenOK
  <2>2. ASSUME NEW k \in Kinds \cap DOMAIN w.batch
        PROVE  IsIndexTree(k, w.batch[k].new) /\ TxHeld(w, w.batch[k].new, refs)
    <3>1. k \in DOMAIN work[t].batch /\ w.batch[k] = work[t].batch[k]
      BY <1>2, <1>8, <1>10, RefsAssumption
    <3>2. IsIndexTree(k, work[t].batch[k].new) /\ TxHeld(work[t], work[t].batch[k].new, refs)
      BY <1>8, <3>1 DEF OpenOK
    <3> QED
      BY <1>13, <3>1, <3>2 DEF TxHeld
  <2>3. ASSUME NEW x \in Names \cap DOMAIN w.batch
        PROVE  \E i \in DOMAIN w.commits : Staged[t][i].name = x
    <3>1. CASE x = n
      BY <1>2, <1>8, <1>9, <3>1
    <3>2. CASE x # n
      <4>1. x \in DOMAIN work[t].batch
        BY <1>8, <1>10, <3>2
      <4>2. PICK i \in DOMAIN work[t].commits : Staged[t][i].name = x
        BY <1>8, <4>1 DEF OpenOK
      <4> QED
        BY <1>8, <1>9, <4>2
    <3> QED
      BY <3>1, <3>2
  <2>4. ASSUME NEW i \in DOMAIN w.commits
        PROVE  SettledOK(t, w, i) /\ Coming(w, Staged[t][i].name, w.commits[i], refs)
    <3>1. CASE i = m
      BY <1>2, <1>8, <1>9, <1>11, <1>14, <3>1
    <3>2. CASE i \in DOMAIN work[t].commits
      <4>1. Coming(work[t], Staged[t][i].name, work[t].commits[i], refs)
        BY <1>8, <3>2 DEF OpenOK
      <4> QED
        BY <1>8, <1>9, <1>12, <1>13, <3>2, <4>1
    <3> QED
      BY <1>8, <1>9, <3>1, <3>2
  <2> QED
    BY <2>1, <2>2, <2>3, <2>4 DEF OpenOK
<1>16. ASSUME s = "ok"
       PROVE  ReturnedOK(t, w, refs) /\ NothingToDo(t)
  <2>1. kinds = {}
    BY <1>5, <1>16
  <2>2. ASSUME NEW i \in DOMAIN commits
        PROVE  commits[i] = Absent /\ refs[Staged[t][i].name] \in History
    <3>1. i \in DOMAIN Staged[t]
      BY <1>2, <1>9
    <3>2. Staged[t][i].name \in Names /\ KindOf[Staged[t][i].name] \in Kinds
      BY <3>1, StagedFacts, KindFacts
    <3>3. KindOf[Staged[t][i].name] \notin Touched(t, commits)
      BY <1>4, <2>1
    <3>4. commits[i] = Absent
      BY <3>2, <3>3 DEF Touched, Deltas
    <3> QED
      BY <3>2, <3>4 DEF TxInv, IInv, TypeOK
  <2>3. ReturnedOK(t, w, refs)
    BY <1>8, <2>2, AbsentIsPrefix DEF ReturnedOK
  <2>4. DOMAIN commits = DOMAIN Staged[t]
    <3>1. ~(m < Len(Staged[t]))
      BY <1>5, <1>9, <1>16
    <3>2. Len(Staged[t]) \in Nat /\ DOMAIN Staged[t] = 1 .. Len(Staged[t])
      BY StagedFacts
    <3>3. m = Len(Staged[t])
      BY <1>2, <1>8, <3>1, <3>2
    <3>4. DOMAIN commits = 1 .. m
      BY <1>9, LenProperties
    <3> QED
      BY <3>2, <3>3, <3>4
  <2>5. ASSUME NEW i \in DOMAIN Staged[t]
        PROVE  IdleAt(Staged[t][i], work[t].expect[i])
    <3>1. SettledOK(t, w, i) /\ w.commits[i] = Absent
      BY <1>8, <1>15, <2>2, <2>4 DEF OpenOK
    <3>2. ~DoneBy(Staged[t][i], w.expect[i], w.commits[i])
      BY <3>1 DEF DoneBy
    <3> QED
      BY <1>8, <3>1, <3>2 DEF SettledOK
  <2> QED
    BY <2>3, <2>5 DEF NothingToDo
<1>17. kinds \subseteq Kinds
  BY <1>4 DEF Touched
<1>18. TxOK(t, s, w, refs)
  <2>1. s \in {"staging", "ok", "listing"}
    BY <1>5
  <2>2. /\ s = "staging" => Len(commits) < Len(Staged[t])
        /\ s \in {"ok", "listing"} => Len(commits) = Len(Staged[t])
        /\ Len(commits) <= Len(Staged[t])
    <3>1. Len(Staged[t]) \in Nat
      BY StagedFacts
    <3>2. m <= Len(Staged[t])
      BY <1>2, <1>8, <3>1
    <3>3. s = "staging" <=> m < Len(Staged[t])
      BY <1>5, <1>9
    <3> QED
      BY <1>2, <1>9, <3>1, <3>2, <3>3
  <2> QED
    BY <1>8, <1>9, <1>15, <1>16, <1>17, <2>1, <2>2 DEF TxOK, TxLabels, TxWorking, TxReturned
<1>19. TxInv'
  BY <1>7, <1>18, TxAlone
<1>20. work'[t].expect = work[t].expect /\ s \in {"staging", "listing", "ok"}
  BY <1>1, <1>5, <1>7, <1>8
<1> QED
  BY <1>7, <1>16, <1>19, <1>20

(* Each of the four ways an operation settles.                             *)
LEMMA StageKeeps ==
    ASSUME TxInv, NEW t \in Txns,
           StageSame(t) \/ StageNext(t) \/ StageNothing(t) \/ StageDelete(t)
    PROVE  /\ TxInv'
           /\ work'[t].expect = work[t].expect
           /\ \E s \in {"staging", "listing", "ok"} :
                 StageGoto(t, s) /\ (s = "ok" => NothingToDo(t))
<1> DEFINE op == Current(t)
           tip == OpTip(t)
<1>1. stage[t] = "staging" /\ ~OpStale(t) /\ UNCHANGED vars
  BY DEF StageSame, StageNext, StageNothing, StageDelete, Staging
<1>2. /\ op.op \in {"publish", "delete"} /\ op.doc \in Docs /\ tip \in History
      /\ clock \in Times
  BY <1>1, CurrentFacts DEF TxInv, IInv, TypeOK
<1>3. CASE StageSame(t)
  <2>1. op.op = "publish" /\ Carries(tip, op.doc) /\ Settle(t, tip, work[t].batch)
    BY <1>3 DEF StageSame, Staging
  <2>2. Settles(t, tip, work[t].batch)
    BY <2>1 DEF Settles, IdleAt
  <2> QED
    BY <1>1, <1>2, <2>1, <2>2, SettleStep
<1>4. CASE StageNothing(t)
  <2>1. op.op = "delete" /\ ~Present(tip) /\ Settle(t, Absent, work[t].batch)
    BY <1>4 DEF StageNothing, Staging
  <2>2. Settles(t, Absent, work[t].batch)
    BY <2>1 DEF Settles, IdleAt
  <2> QED
    BY <1>1, <2>1, <2>2, SettleStep, AbsentTombstones
<1>5. ASSUME NEW entry \in Entry, entry.doc = op.doc, entry.dead <=> op.op = "delete",
             NEW commit, commit = WriteCommit(entry, tip), ~IdleAt(op, tip),
             Settle(t, commit, WithEdit(work[t].batch, op.name, Edit(tip, commit)))
      PROVE  /\ TxInv'
             /\ work'[t].expect = work[t].expect
             /\ \E s \in {"staging", "listing", "ok"} :
                   StageGoto(t, s) /\ (s = "ok" => NothingToDo(t))
  <2>1. commit \in History /\ commit # Absent /\ Last(commit) = entry /\ Front(commit) = tip
    BY <1>2, <1>5, WriteCommitFacts
  <2>2. DoneBy(op, tip, commit)
    BY <1>5, <2>1 DEF DoneBy
  <2>3. PICK batch : batch = WithEdit(work[t].batch, op.name, Edit(tip, commit))
    OBVIOUS
  <2>4. Settles(t, commit, batch)
    BY <1>5, <2>2, <2>3 DEF Settles
  <2> QED
    BY <1>1, <1>5, <2>1, <2>3, <2>4, SettleStep
<1>6. CASE StageNext(t)
  <2>1. /\ op.op = "publish" /\ ~Carries(tip, op.doc)
        /\ LET commit == WriteCommit(LiveEntry(op.doc, clock), tip)
           IN  Settle(t, commit, WithEdit(work[t].batch, op.name, Edit(tip, commit)))
    BY <1>6 DEF StageNext, Staging
  <2>2. LiveEntry(op.doc, clock) \in Entry /\ LiveEntry(op.doc, clock).doc = op.doc
        /\ ~LiveEntry(op.doc, clock).dead
    BY <1>2, EntryFacts
  <2>3. ~IdleAt(op, tip)
    BY <2>1 DEF IdleAt
  <2> QED
    BY <1>5, <2>1, <2>2, <2>3
<1>7. CASE StageDelete(t)
  <2>1. /\ op.op = "delete" /\ Present(tip)
        /\ LET commit == WriteCommit(TombstoneEntry(op.doc, clock), tip)
           IN  Settle(t, commit, WithEdit(work[t].batch, op.name, Edit(tip, commit)))
    BY <1>7 DEF StageDelete, Staging
  <2>2. TombstoneEntry(op.doc, clock) \in Entry /\ TombstoneEntry(op.doc, clock).doc = op.doc
        /\ TombstoneEntry(op.doc, clock).dead
    BY <1>2, EntryFacts
  <2>3. ~IdleAt(op, tip)
    BY <2>1 DEF IdleAt
  <2> QED
    BY <1>5, <2>1, <2>2, <2>3
<1> QED
  BY <1>3, <1>4, <1>6, <1>7

(* The row a settled operation leaves in the index of its kind.            *)
LEMMA DeltaRows ==
    ASSUME NEW t \in Txns, NEW commits, NEW k, NEW n \in DOMAIN Deltas(t, commits, k)
    PROVE  \E i \in DOMAIN commits :
               /\ commits[i] # Absent /\ KindOf[n] = k /\ Staged[t][i].name = n
               /\ Deltas(t, commits, k)[n] = commits[i]
<1> DEFINE settled == {i \in DOMAIN commits :
                          commits[i] # Absent /\ KindOf[Staged[t][i].name] = k}
           first == CHOOSE i \in settled : Staged[t][i].name = n
<1>1. /\ n \in {Staged[t][i].name : i \in settled}
      /\ Deltas(t, commits, k)[n] = commits[first]
  BY DEF Deltas
<1>2. \E i \in settled : Staged[t][i].name = n
  BY <1>1
<1>3. first \in settled /\ Staged[t][first].name = n
  BY <1>2
<1> QED
  BY <1>1, <1>3

(* The entries of a kind are listed and overlaid.                          *)
LEMMA ListEntriesKeeps ==
    ASSUME TxInv, NEW t \in Txns, ListEntries(t)
    PROVE  TxInv' /\ work'[t].expect = work[t].expect
<1>1. PICK k \in work[t].kinds :
          work' = [work EXCEPT ![t].kind = {k},
                     ![t].entries = Overlaid(SourceEntries(k),
                                             Deltas(t, work[t].commits, k))]
  BY DEF ListEntries
<1>2. stage[t] = "listing" /\ StageGoto(t, "indexing") /\ UNCHANGED vars
  BY DEF ListEntries
<1>3. TxOK(t, "listing", work[t], refs) /\ DOMAIN work = Txns
  BY <1>2 DEF TxInv
<1>4. /\ k \in Kinds /\ OpenOK(t, work[t], refs) /\ work[t].commits \in Seq(History)
      /\ Len(work[t].commits) = Len(Staged[t])
  BY <1>3 DEF TxOK, TxWorking
<1>5. DOMAIN work[t].commits = DOMAIN Staged[t]
  BY <1>4, StagedFacts, LenProperties
<1>6. PICK listed : listed = SourceEntries(k)
  OBVIOUS
<1>7. PICK deltas : deltas = Deltas(t, work[t].commits, k)
  OBVIOUS
<1>8. PICK entries : entries = Overlaid(listed, deltas)
  OBVIOUS
<1>9. PICK w : w = [work[t] EXCEPT !.kind = {k}, !.entries = entries]
  OBVIOUS
<1>10. /\ DOMAIN w = TxFields /\ w.expect = work[t].expect /\ w.commits = work[t].commits
       /\ w.batch = work[t].batch /\ w.kinds = work[t].kinds
       /\ w.kind = {k} /\ w.entries = entries
  BY <1>3, <1>9 DEF TxOK, TxFields
<1>11. work' = [work EXCEPT ![t] = w]
  BY <1>1, <1>3, <1>6, <1>7, <1>8, <1>9
<1>12. ASSUME NEW n \in DOMAIN deltas
       PROVE  /\ n \in Names /\ KindOf[n] = k
              /\ deltas[n] \in History \ {Absent}
              /\ Coming(w, n, deltas[n], refs)
  <2>1. PICK i \in DOMAIN work[t].commits :
            /\ work[t].commits[i] # Absent /\ KindOf[n] = k /\ Staged[t][i].name = n
            /\ deltas[n] = work[t].commits[i]
    BY <1>7, <1>12, DeltaRows
  <2>2. n \in Names
    BY <1>5, <2>1, StagedFacts
  <2>3. work[t].commits[i] \in History
    BY <1>4, <2>1, ElementOfSeq, LenProperties
  <2>4. Coming(work[t], n, deltas[n], refs)
    BY <1>4, <2>1 DEF OpenOK
  <2> QED
    BY <1>10, <2>1, <2>2, <2>3, <2>4 DEF Coming
<1>13. IsIndexTree(k, listed) /\ \A n \in DOMAIN listed : listed[n] = <<refs[n]>>
  BY <1>6, SourceIsIndexTree DEF TxInv, IInv
<1>14. /\ DOMAIN entries = DOMAIN listed \cup DOMAIN deltas
       /\ \A n \in DOMAIN deltas : entries[n] = <<deltas[n]>>
       /\ \A n \in DOMAIN listed \ DOMAIN deltas : entries[n] = listed[n]
  BY <1>8 DEF Overlaid
<1>15. IsIndexTree(k, entries)
  <2>1. \A h \in History \ {Absent} : <<h>> \in Seq(History \ {Absent}) /\ <<h>> # <<>>
    OBVIOUS
  <2>2. \A n \in DOMAIN deltas : entries[n] \in Seq(History \ {Absent}) /\ entries[n] # <<>>
    BY <1>12, <1>14, <2>1
  <2>3. \A n \in DOMAIN listed \ DOMAIN deltas :
            entries[n] \in Seq(History \ {Absent}) /\ entries[n] # <<>>
    BY <1>13, <1>14 DEF IsIndexTree
  <2>4. DOMAIN entries \subseteq {n \in Names : KindOf[n] = k}
    BY <1>12, <1>13, <1>14 DEF IsIndexTree
  <2> QED
    BY <1>14, <2>2, <2>3, <2>4 DEF IsIndexTree
<1>16. TxHeld(w, entries, refs)
  <2>1. \A h : \A i \in DOMAIN <<h>> : <<h>>[i] = h
    OBVIOUS
  <2>2. ASSUME NEW n \in DOMAIN entries, NEW i \in DOMAIN entries[n]
        PROVE  Coming(w, n, entries[n][i], refs)
    <3>1. CASE n \in DOMAIN deltas
      <4>1. entries[n][i] = deltas[n]
        BY <1>14, <2>1, <2>2, <3>1
      <4> QED
        BY <1>12, <3>1, <4>1
    <3>2. CASE n \in DOMAIN listed \ DOMAIN deltas
      <4>1. entries[n][i] = refs[n]
        BY <1>13, <1>14, <2>1, <2>2, <3>2
      <4>2. n \in BranchNames => refs[n] \in History
        BY DEF BranchNames, TxInv, IInv, TypeOK
      <4> QED
        BY <4>1, <4>2, PrefixReflexive DEF Coming
    <3> QED
      BY <1>14, <3>1, <3>2
  <2> QED
    BY <2>2 DEF TxHeld
<1>17. OpenOK(t, w, refs)
  <2>1. \A i \in DOMAIN work[t].commits : SettledOK(t, work[t], i) => SettledOK(t, w, i)
    BY <1>10 DEF SettledOK
  <2>2. \A x, h : Coming(work[t], x, h, refs) => Coming(w, x, h, refs)
    BY <1>10 DEF Coming
  <2>3. \A tree : TxHeld(work[t], tree, refs) => TxHeld(w, tree, refs)
    BY <2>2 DEF TxHeld
  <2> QED
    BY <1>4, <1>10, <2>1, <2>2, <2>3 DEF OpenOK
<1>18. TxOK(t, "indexing", w, refs)
  BY <1>3, <1>4, <1>10, <1>15, <1>16, <1>17 DEF TxOK, TxLabels, TxWorking, TxReturned
<1> QED
  BY <1>2, <1>3, <1>10, <1>11, <1>18, TxAlone

(* The index ref is read, and its edit joins the batch, if there is one.   *)
LEMMA EditIndexKeeps ==
    ASSUME TxInv, NEW t \in Txns, EditIndex(t)
    PROVE  /\ TxInv'
           /\ work'[t].expect = work[t].expect
           /\ \E s \in {"listing", "applying", "ok"} :
                 StageGoto(t, s) /\ (s = "ok" => NothingToDo(t))
<1>1. stage[t] = "indexing" /\ UNCHANGED vars
  BY DEF EditIndex
<1>2. TxOK(t, "indexing", work[t], refs) /\ DOMAIN work = Txns
  BY <1>1 DEF TxInv
<1>3. PICK k \in Kinds : /\ work[t].kind = {k}
                         /\ IsIndexTree(k, work[t].entries)
                         /\ TxHeld(work[t], work[t].entries, refs)
  BY <1>2 DEF TxOK
<1>4. k = CHOOSE x \in work[t].kind : TRUE
  BY <1>3
<1>5. PICK batch : batch = WithIndexEdit(work[t].batch, k, refs[k], work[t].entries)
  OBVIOUS
<1>6. PICK rest : rest = work[t].kinds \ {k}
  OBVIOUS
<1>7. PICK s : s = IF rest # {} THEN "listing"
                   ELSE IF DOMAIN batch = {} THEN "ok" ELSE "applying"
  OBVIOUS
<1>8. PICK w : w = [work[t] EXCEPT !.batch = batch, !.kinds = rest,
                                   !.kind = {}, !.entries = Absent]
  OBVIOUS
<1>9. StageGoto(t, s) /\ work' = [work EXCEPT ![t] = w]
  <2>1. /\ work' = [work EXCEPT ![t].batch = batch, ![t].kinds = rest,
                                ![t].kind = {}, ![t].entries = Absent]
        /\ StageGoto(t, s)
    BY <1>4, <1>5, <1>6, <1>7 DEF EditIndex
  <2>2. w = [work[t] EXCEPT !.batch = batch, !.kinds = rest,
                            !.kind = {}, !.entries = Absent]
    BY <1>8
  <2> HIDE DEF NoEdits
  <2> QED
    BY <1>2, <2>1, <2>2
<1>10. /\ DOMAIN w = TxFields /\ w.expect = work[t].expect /\ w.commits = work[t].commits
       /\ w.batch = batch /\ w.kinds = rest
       /\ OpenOK(t, work[t], refs) /\ rest \subseteq Kinds
       /\ Len(work[t].commits) = Len(Staged[t])
       /\ work[t].commits \in Seq(History)
  BY <1>2, <1>6, <1>8 DEF TxOK, TxFields, TxWorking
<1>11. /\ DOMAIN batch \subseteq DOMAIN work[t].batch \cup {k}
       /\ DOMAIN work[t].batch \subseteq DOMAIN batch
       /\ \A r \in DOMAIN work[t].batch : r # k => batch[r] = work[t].batch[r]
       /\ k \in DOMAIN batch =>
              \/ batch[k].new = work[t].entries
              \/ k \in DOMAIN work[t].batch /\ batch[k] = work[t].batch[k]
  <2>1. CASE batch = work[t].batch
    BY <2>1
  <2>2. CASE batch = WithEdit(work[t].batch, k, Edit(refs[k], work[t].entries))
    BY <2>2 DEF WithEdit, Edit
  <2> QED
    BY <1>5, <2>1, <2>2 DEF WithIndexEdit
<1>12. \A n \in Names : /\ n \in DOMAIN batch <=> n \in DOMAIN work[t].batch
                        /\ n \in DOMAIN batch => batch[n] = work[t].batch[n]
  BY <1>3, <1>11, RefsAssumption
<1>13. \A n, commit : Coming(w, n, commit, refs) <=> Coming(work[t], n, commit, refs)
  BY <1>10, <1>12 DEF Coming, BranchNames
<1>14. ASSUME NEW i \in DOMAIN work[t].commits
       PROVE  SettledOK(t, w, i)
  <2>1. SettledOK(t, work[t], i)
    BY <1>10 DEF OpenOK
  <2>2. Staged[t][i].name \in Names
    BY <1>10, <1>14, StagedFacts, LenProperties
  <2> QED
    BY <1>10, <1>12, <2>1, <2>2 DEF SettledOK
<1>15. ASSUME NEW q \in Kinds \cap DOMAIN w.batch
       PROVE  IsIndexTree(q, w.batch[q].new) /\ TxHeld(w, w.batch[q].new, refs)
  <2>1. TxHeld(work[t], w.batch[q].new, refs) => TxHeld(w, w.batch[q].new, refs)
    BY <1>13 DEF TxHeld
  <2>2. CASE q \in DOMAIN work[t].batch /\ batch[q] = work[t].batch[q]
    BY <1>10, <2>1, <2>2 DEF OpenOK
  <2>3. CASE q = k /\ batch[q].new = work[t].entries
    BY <1>3, <1>10, <2>1, <2>3
  <2> QED
    BY <1>10, <1>11, <2>2, <2>3
<1>16. OpenOK(t, w, refs)
  <2>1. DOMAIN w.batch \subseteq Names \cup Kinds
    BY <1>3, <1>10, <1>11 DEF OpenOK
  <2>2. \A n \in Names \cap DOMAIN w.batch :
            \E i \in DOMAIN w.commits : Staged[t][i].name = n
    BY <1>10, <1>12 DEF OpenOK
  <2>3. \A i \in DOMAIN w.commits : Coming(w, Staged[t][i].name, w.commits[i], refs)
    BY <1>10, <1>13 DEF OpenOK
  <2> QED
    BY <1>10, <1>14, <1>15, <2>1, <2>2, <2>3 DEF OpenOK
<1>17. s = "ok" => ReturnedOK(t, w, refs) /\ NothingToDo(t)
  <2>1. s = "ok" => DOMAIN w.batch = {}
    BY <1>7, <1>10
  <2>2. DOMAIN w.batch = {} => ReturnedOK(t, w, refs)
    BY <1>16 DEF OpenOK, Coming, ReturnedOK
  <2>3. DOMAIN w.commits = DOMAIN Staged[t]
    BY <1>10, StagedFacts, LenProperties
  <2>4. DOMAIN w.batch = {} => NothingToDo(t)
    BY <1>10, <1>16, <2>3 DEF OpenOK, SettledOK, NothingToDo
  <2> QED
    BY <2>1, <2>2, <2>4
<1>18. TxOK(t, s, w, refs)
  BY <1>2, <1>7, <1>10, <1>16, <1>17 DEF TxOK, TxLabels, TxWorking, TxReturned
<1>19. TxInv'
  BY <1>1, <1>9, <1>18, TxAlone
<1>20. work'[t].expect = work[t].expect /\ s \in {"listing", "applying", "ok"}
  BY <1>2, <1>7, <1>9, <1>10
<1> QED
  BY <1>9, <1>17, <1>19, <1>20

(* The batch loses its race.                                               *)
LEMMA BatchLosesKeeps ==
    ASSUME TxInv, NEW t \in Txns, BatchLoses(t)
    PROVE  TxInv'
<1>1. /\ stage[t] = "applying" /\ StageGoto(t, "lost") /\ UNCHANGED vars
      /\ work' = [work EXCEPT ![t].batch = NoEdits]
  BY DEF BatchLoses
<1>2. TxOK(t, "applying", work[t], refs) /\ DOMAIN work = Txns
  BY <1>1 DEF TxInv
<1>3. PICK w : w = [work[t] EXCEPT !.batch = NoEdits]
  OBVIOUS
<1>4. /\ DOMAIN w = TxFields /\ w.expect = work[t].expect
      /\ w.commits = work[t].commits /\ w.kinds = work[t].kinds
  BY <1>2, <1>3 DEF TxOK, TxFields
<1>5. TxOK(t, "lost", w, refs)
  BY <1>2, <1>4 DEF TxOK, TxLabels, TxWorking, TxReturned
<1>6. work' = [work EXCEPT ![t] = w]
  BY <1>1, <1>2, <1>3
<1> QED
  BY <1>1, <1>5, <1>6, TxAlone

-----------------------------------------------------------------------------
(* A batch that wins *)

(* It makes a legal move at every entity ref it edits, as if each had been *)
(* moved by a call of its own.                                             *)
LEMMA BatchMoves ==
    ASSUME DeletesAreCanonical, TxInv, NEW t \in Txns, BatchWins(t),
           NEW n \in Names \cap DOMAIN work[t].batch
    PROVE  /\ work[t].batch[n].new \in History
           /\ MovesAt(n, refs[n], work[t].batch[n].new)
           /\ RightDoc(n, work[t].batch[n].new)
<1> DEFINE new == work[t].batch[n].new
<1>1. TxOK(t, "applying", work[t], refs) /\ refs[n] = work[t].batch[n].expected
  BY DEF BatchWins, TxInv, ExpectationsHold
<1>2. OpenOK(t, work[t], refs) /\ work[t].commits \in Seq(History)
      /\ Len(work[t].commits) = Len(Staged[t])
  BY <1>1 DEF TxOK, TxWorking
<1>3. PICK i \in DOMAIN work[t].commits : Staged[t][i].name = n
  BY <1>2 DEF OpenOK
<1>4. PICK op : op = Staged[t][i]
  OBVIOUS
<1>5. i \in DOMAIN Staged[t] /\ op.name = n /\ op.op \in {"publish", "delete"}
  BY <1>2, <1>3, <1>4, StagedFacts, LenProperties
<1>6. SettledOK(t, work[t], i)
  BY <1>2 DEF OpenOK
<1>7. ~IdleAt(op, refs[n]) /\ new = work[t].commits[i] /\ DoneBy(op, refs[n], new)
  BY <1>1, <1>4, <1>5, <1>6 DEF SettledOK
<1>8. new \in History
  BY <1>2, <1>7, ElementOfSeq, LenProperties
<1>9. CASE op.op = "publish"
  <2>1. Present(new) /\ Front(new) = refs[n] /\ Last(new).doc = op.doc
        /\ ~Carries(refs[n], op.doc)
    BY <1>7, <1>9 DEF DoneBy, IdleAt, Present
  <2>2. MovesAt(n, refs[n], new)
    BY <1>8, <2>1 DEF MovesAt, Moves, Publishes
  <2>3. RightDoc(n, new)
    BY <1>4, <1>5, <2>1 DEF RightDoc, DeletesAreCanonical
  <2> QED
    BY <1>8, <2>2, <2>3
<1>10. CASE op.op = "delete"
  <2>1. Deleted(new) /\ Front(new) = refs[n] /\ Last(new).doc = op.doc
        /\ Present(refs[n])
    BY <1>7, <1>10 DEF DoneBy, IdleAt, Deleted
  <2>2. op.doc = Last(refs[n]).doc
    BY <1>4, <1>5, <1>10, <2>1 DEF TxInv, CanonInv, TipsRight, RightDoc
  <2>3. MovesAt(n, refs[n], new)
    BY <1>8, <2>1, <2>2 DEF MovesAt, Moves, Tombstones
  <2>4. RightDoc(n, new)
    BY <2>1, NothingPresent DEF Deleted, Present
  <2> QED
    BY <1>8, <2>3, <2>4
<1> QED
  BY <1>5, <1>9, <1>10

(* The refs after it.                                                      *)
LEMMA BatchRefs ==
    ASSUME TxInv, NEW t \in Txns, BatchWins(t)
    PROVE  /\ DOMAIN refs' = Names \cup Kinds
           /\ \A r \in Names \cup Kinds :
                 refs'[r] = IF r \in DOMAIN work[t].batch THEN work[t].batch[r].new
                                                          ELSE refs[r]
<1> DEFINE batch == work[t].batch
<1>1. refs' = [r \in DOMAIN refs |-> IF r \in DOMAIN batch THEN batch[r].new ELSE refs[r]]
  BY DEF BatchWins, Landed
<1>2. DOMAIN refs = Names \cup Kinds
  BY DEF TxInv, IInv, TypeOK
<1> QED
  BY <1>1, <1>2

(* So every branch name still has what it had.                             *)
LEMMA BatchGrows ==
    ASSUME DeletesAreCanonical, TxInv, NEW t \in Txns, BatchWins(t)
    PROVE  BranchesGrow
<1> SUFFICES ASSUME NEW n \in BranchNames
             PROVE  /\ refs[n] \in History /\ refs'[n] \in History
                    /\ IsPrefix(refs[n], refs'[n])
  BY DEF BranchesGrow
<1>1. n \in Names /\ n \notin GraftedNames /\ n \notin PrunedNames
  BY DEF BranchNames
<1>2. refs[n] \in History
  BY <1>1 DEF TxInv, IInv, TypeOK
<1>3. CASE n \in DOMAIN work[t].batch
  <2>1. refs'[n] = work[t].batch[n].new
    BY <1>1, <1>3, BatchRefs
  <2>2. MovesAt(n, refs[n], refs'[n])
    BY <1>1, <1>3, <2>1, BatchMoves
  <2>3. Moves(refs[n], refs'[n], FALSE, FALSE)
    BY <1>1, <2>2 DEF MovesAt, Moves
  <2> QED
    BY <1>2, <2>3, MoveExtends
<1>4. CASE n \notin DOMAIN work[t].batch
  <2>1. refs'[n] = refs[n]
    BY <1>1, <1>4, BatchRefs
  <2> QED
    BY <1>2, <2>1, PrefixReflexive
<1> QED
  BY <1>3, <1>4

(* The commits a transaction holds stay where they are, or where they are  *)
(* about to land, while others step.                                       *)
LEMMA ComingGrows ==
    ASSUME BranchesGrow, NEW w, NEW n, NEW commit \in History, Coming(w, n, commit, refs)
    PROVE  Coming(w, n, commit, refs')
BY PrefixGrows DEF Coming

LEMMA TxHeldGrows ==
    ASSUME BranchesGrow, NEW w, NEW k, NEW tree, IsIndexTree(k, tree),
           TxHeld(w, tree, refs)
    PROVE  TxHeld(w, tree, refs')
BY ComingGrows, RowsAreCommits DEF TxHeld

(* What holds of a transaction goes on holding while others step.          *)
LEMMA OthersKeep ==
    ASSUME TxInv, BranchesGrow, NEW u \in Txns
    PROVE  TxOK(u, stage[u], work[u], refs')
<1>1. TxOK(u, stage[u], work[u], refs)
  BY DEF TxInv
<1>2. \A i \in DOMAIN work[u].commits : work[u].commits[i] \in History
  <2>1. work[u].commits \in Seq(History)
    BY <1>1 DEF TxOK
  <2> QED
    BY <2>1, ElementOfSeq, LenProperties
<1>3. OpenOK(u, work[u], refs) => OpenOK(u, work[u], refs')
  <2> SUFFICES ASSUME OpenOK(u, work[u], refs)
               PROVE  OpenOK(u, work[u], refs')
    OBVIOUS
  <2>1. \A k \in Kinds \cap DOMAIN work[u].batch : TxHeld(work[u], work[u].batch[k].new, refs')
    BY TxHeldGrows DEF OpenOK
  <2>2. \A i \in DOMAIN work[u].commits :
            Coming(work[u], Staged[u][i].name, work[u].commits[i], refs')
    BY <1>2, ComingGrows DEF OpenOK
  <2> QED
    BY <2>1, <2>2 DEF OpenOK
<1>4. ReturnedOK(u, work[u], refs) => ReturnedOK(u, work[u], refs')
  BY <1>2, PrefixGrows DEF ReturnedOK
<1>5. stage[u] = "indexing" =>
          \E k \in Kinds : /\ work[u].kind = {k}
                           /\ IsIndexTree(k, work[u].entries)
                           /\ TxHeld(work[u], work[u].entries, refs')
  BY <1>1, TxHeldGrows DEF TxOK
<1> QED
  BY <1>1, <1>3, <1>4, <1>5 DEF TxOK

(* A batch that wins keeps the invariant.                                  *)
LEMMA BatchWinsKeeps ==
    ASSUME DeletesAreCanonical, TxInv, NEW t \in Txns, BatchWins(t)
    PROVE  TxInv'
<1> DEFINE batch == work[t].batch
<1>1. /\ stage[t] = "applying" /\ StageGoto(t, "ok")
      /\ work' = [work EXCEPT ![t].batch = NoEdits]
      /\ clock' = clock /\ pc' = pc /\ job' = job
  BY DEF BatchWins
<1>2. BranchesGrow
  BY BatchGrows
<1>3. TxOK(t, "applying", work[t], refs') /\ DOMAIN work = Txns /\ DOMAIN stage = Txns
  BY <1>1, <1>2, OthersKeep DEF TxInv
<1>4. /\ OpenOK(t, work[t], refs')
      /\ Len(work[t].commits) = Len(Staged[t]) /\ work[t].commits \in Seq(History)
  BY <1>3 DEF TxOK, TxWorking
<1>5. \A n, commit : Coming(work[t], n, commit, refs')
                         => (n \in BranchNames => IsPrefix(commit, refs'[n]))
  <2> SUFFICES ASSUME NEW n \in BranchNames, NEW commit, Coming(work[t], n, commit, refs')
               PROVE  IsPrefix(commit, refs'[n])
    OBVIOUS
  <2>1. n \in Names /\ refs'[n] \in History
    BY <1>2 DEF BranchNames, BranchesGrow
  <2>2. CASE n \in DOMAIN batch /\ batch[n].new = commit
    <3>1. refs'[n] = commit
      BY <2>1, <2>2, BatchRefs
    <3> QED
      BY <2>1, <3>1, PrefixReflexive
  <2> QED
    BY <2>2 DEF Coming
<1>6. \A n \in Names : refs'[n] = refs[n] \/ (n \in DOMAIN batch /\ refs'[n] = batch[n].new)
  BY BatchRefs
<1>7. \A n \in Names : refs'[n] \in History /\ TombstonesName(refs'[n])
                       /\ RightDoc(n, refs'[n])
  <2> SUFFICES ASSUME NEW n \in Names
               PROVE  refs'[n] \in History /\ TombstonesName(refs'[n])
                      /\ RightDoc(n, refs'[n])
    OBVIOUS
  <2>1. refs[n] \in History /\ TombstonesName(refs[n]) /\ RightDoc(n, refs[n])
    BY DEF TxInv, IInv, TypeOK, TipsOK, CanonInv, TipsRight
  <2>2. CASE refs'[n] = refs[n]
    BY <2>1, <2>2
  <2>3. CASE n \in DOMAIN batch /\ refs'[n] = batch[n].new
    <3>1. MovesAt(n, refs[n], refs'[n]) /\ RightDoc(n, refs'[n])
      BY <2>3, BatchMoves
    <3> QED
      BY <2>1, <3>1, MoveKeepsTombstones DEF MovesAt
  <2> QED
    BY <1>6, <2>2, <2>3
<1>8. \A k \in Kinds : IsIndexTree(k, refs'[k]) /\ WithinRefs(refs'[k], refs')
  <2> SUFFICES ASSUME NEW k \in Kinds
               PROVE  IsIndexTree(k, refs'[k]) /\ WithinRefs(refs'[k], refs')
    OBVIOUS
  <2>1. CASE k \notin DOMAIN batch
    <3>1. refs'[k] = refs[k]
      BY <2>1, BatchRefs
    <3>2. IsIndexTree(k, refs[k]) /\ WithinRefs(refs[k], refs)
      BY DEF TxInv, IInv, TypeOK, HInv
    <3> QED
      BY <1>2, <3>1, <3>2, WithinGrows
  <2>2. CASE k \in DOMAIN batch
    <3>1. refs'[k] = batch[k].new
      BY <2>2, BatchRefs
    <3>2. IsIndexTree(k, batch[k].new) /\ TxHeld(work[t], batch[k].new, refs')
      BY <1>4, <2>2 DEF OpenOK
    <3>3. WithinRefs(batch[k].new, refs')
      BY <1>5, <3>2 DEF TxHeld, WithinRefs
    <3> QED
      BY <3>1, <3>2, <3>3
  <2> QED
    BY <2>1, <2>2
<1>9. IInv'
  <2>1. TypeOK'
    BY <1>1, <1>7, <1>8, BatchRefs DEF TxInv, IInv, TypeOK
  <2>2. TipsOK'
    BY <1>7 DEF TipsOK
  <2> QED
    BY <1>1, <2>1, <2>2 DEF TxInv, IInv
<1>10. HInv'
  <2>1. \A c \in Calls : HistoryOK(c, job[c], pc[c], refs')
    BY <1>2, BystanderKeeps DEF TxInv
  <2>2. \A c \in Calls : HistoryOK(c, job'[c], pc'[c], refs')
    BY <1>1, <2>1
  <2> QED
    BY <1>8, <2>2 DEF HInv
<1>11. CanonInv'
  BY <1>1, <1>7 DEF TxInv, CanonInv, TipsRight
<1>12. PICK w : w = [work[t] EXCEPT !.batch = NoEdits]
  OBVIOUS
<1>13. /\ DOMAIN w = TxFields /\ w.expect = work[t].expect
       /\ w.commits = work[t].commits /\ w.kinds = work[t].kinds
  BY <1>3, <1>12 DEF TxOK, TxFields
<1>14. work' = [work EXCEPT ![t] = w]
  BY <1>1, <1>3, <1>12
<1>15. ReturnedOK(t, w, refs')
  BY <1>4, <1>5, <1>13 DEF OpenOK, ReturnedOK
<1>16. TxOK(t, "ok", w, refs')
  BY <1>3, <1>13, <1>15 DEF TxOK, TxLabels, TxWorking, TxReturned
<1>17. \A u \in Txns : TxOK(u, stage'[u], work'[u], refs')
  <2> SUFFICES ASSUME NEW u \in Txns
               PROVE  TxOK(u, stage'[u], work'[u], refs')
    OBVIOUS
  <2>1. CASE u = t
    BY <1>1, <1>3, <1>14, <1>16, <2>1 DEF StageGoto
  <2>2. CASE u # t
    <3>1. stage'[u] = stage[u] /\ work'[u] = work[u]
      BY <1>1, <1>3, <2>2 DEF StageGoto
    <3> QED
      BY <1>2, <3>1, OthersKeep
  <2> QED
    BY <2>1, <2>2
<1>18. DOMAIN stage' = Txns /\ DOMAIN work' = Txns
  BY <1>1, <1>3 DEF StageGoto
<1> QED
  BY <1>9, <1>10, <1>11, <1>17, <1>18 DEF TxInv

-----------------------------------------------------------------------------
(* Steps of the entity calls *)

(* The clock ticks, or one call steps alone.                               *)
LEMMA OneCallSteps ==
    ASSUME IInv, NEW c \in Calls, Start(c) \/ Step(c), NEW d \in Calls, d # c
    PROVE  job'[d] = job[d] /\ pc'[d] = pc[d]
BY Domains
   DEF Start, Step, UpdateRead, UpdateExpect, ResolveStale, ResolveSame,
       ResolveNext, DeleteAbsent, DeleteRepeated, DeleteLive, RemoveAbsent,
       RemovePresent, AnonymousMint, AnonymousThere, AnonymousCreate,
       ReadIndex, ReadSource, RebuildScan, RebuildSwap, ApplyWins,
       ApplyLoses, ApplyFails, Goto

(* Entity steps keep the invariant.                                        *)
LEMMA EntityKeeps ==
    ASSUME DeletesAreCanonical, TxInv, EntityStep, UNCHANGED txvars
    PROVE  TxInv'
<1>1. [Next]_vars
  BY DEF EntityStep, Next
<1>2. IInv /\ HInv /\ CanonInv
  BY DEF TxInv
<1>3. IInv' /\ HInv' /\ BranchesGrow
  BY <1>1, <1>2, InvNext, HistoryStep, CallsGrow
<1>4. ASSUME NEW d \in Calls
      PROVE  CanonOK(d, job'[d], pc'[d])
  <2>1. CanonOK(d, job[d], pc[d])
    BY <1>2 DEF CanonInv
  <2>2. ASSUME NEW c \in Calls, Start(c) \/ Step(c)
        PROVE  CanonOK(d, job'[d], pc'[d])
    BY <1>2, <2>1, <2>2, CanonKeeps, OneCallSteps
  <2>3. CASE Tick
    BY <2>1, <2>3 DEF Tick
  <2> QED
    BY <2>2, <2>3 DEF EntityStep
<1>5. ASSUME NEW n \in Names
      PROVE  RightDoc(n, refs'[n])
  <2>1. RightDoc(n, refs[n])
    BY <1>2 DEF CanonInv, TipsRight
  <2>2. ASSUME NEW c \in Calls, ApplyWins(c), refs'[n] # refs[n]
        PROVE  RightDoc(n, refs'[n])
    <3>1. CanonOK(c, job[c], pc[c])
      BY <1>2 DEF CanonInv
    <3>2. n = job[c].name /\ n \in DOMAIN job[c].batch /\ refs'[n] = job[c].batch[n].new
      BY <1>2, <2>2, ApplyMoves
    <3> QED
      BY <3>1, <3>2 DEF CanonOK
  <2>3. CASE UNCHANGED refs
    BY <2>1, <2>3
  <2> QED
    BY <1>1, <2>1, <2>2, <2>3, OnlyApplyMovesRefs
<1>6. CanonInv'
  <2>1. (\A c \in Calls : CanonOK(c, job[c], pc[c]))'
    BY <1>4
  <2>2. TipsRight'
    BY <1>5 DEF TipsRight
  <2> QED
    BY <2>1, <2>2 DEF CanonInv
<1>7. \A u \in Txns : TxOK(u, stage'[u], work'[u], refs')
  BY <1>3, OthersKeep DEF txvars
<1>8. DOMAIN stage' = Txns /\ DOMAIN work' = Txns
  BY DEF TxInv, txvars
<1> QED
  BY <1>3, <1>6, <1>7, <1>8 DEF TxInv

-----------------------------------------------------------------------------
(* The invariant *)

(* It holds before anything is staged.                                     *)
LEMMA TxInvInit == TxInit => TxInv
<1> SUFFICES ASSUME TxInit
             PROVE  TxInv
  OBVIOUS
<1>1. Init
  BY DEF TxInit
<1>2. IInv /\ HInv
  BY <1>1, InvInit, HistoryInit
<1>3. CanonInv
  <2>1. \A n \in Names : refs[n] = Absent
    BY <1>1 DEF Init
  <2>2. TipsRight
    BY <2>1, NothingPresent DEF TipsRight, Present
  <2>3. ASSUME NEW c \in Calls
        PROVE  CanonOK(c, job[c], pc[c])
    <3>1. job[c].doc = Request[c].doc /\ job[c].batch = NoEdits /\ pc[c] = "idle"
      BY <1>1 DEF Init
    <3> QED
      BY <3>1, NoEditsFacts DEF CanonOK
  <2> QED
    BY <2>2, <2>3 DEF CanonInv
<1>4. /\ DOMAIN stage = Txns /\ DOMAIN work = Txns
  BY DEF TxInit
<1>5. ASSUME NEW t \in Txns
      PROVE  TxOK(t, stage[t], work[t], refs)
  <2>1. /\ stage[t] = "idle" /\ DOMAIN work[t] = TxFields
        /\ work[t].commits = <<>> /\ work[t].batch = NoEdits /\ work[t].kinds = {}
    BY DEF TxInit, TxFields
  <2>2. <<>> \in Seq(History) /\ Len(<<>>) = 0
    BY EmptySeq, LenProperties
  <2>3. Len(Staged[t]) \in Nat \ {0}
    BY StagedFacts
  <2> QED
    BY <2>1, <2>2, <2>3 DEF TxOK, TxLabels, TxWorking, TxReturned
<1> QED
  BY <1>2, <1>3, <1>4, <1>5 DEF TxInv

(* Every step keeps it.                                                    *)
LEMMA TxInvNext ==
    ASSUME DeletesAreCanonical, TxInv, [TxNext]_<<vars, txvars>>
    PROVE  TxInv'
<1>1. ASSUME NEW t \in Txns, TxStart(t) \/ TxStep(t)
      PROVE  TxInv'
  <2>1. CASE TxStart(t) \/ StageStale(t)
    BY <2>1, TxStartKeeps, StaleKeeps
  <2>2. CASE StageSame(t) \/ StageNext(t) \/ StageNothing(t) \/ StageDelete(t)
    BY <2>2, StageKeeps
  <2>3. CASE ListEntries(t) \/ EditIndex(t)
    BY <2>3, ListEntriesKeeps, EditIndexKeeps
  <2>4. CASE BatchWins(t) \/ BatchLoses(t)
    BY <2>4, BatchWinsKeeps, BatchLosesKeeps
  <2> QED
    BY <1>1, <2>1, <2>2, <2>3, <2>4 DEF TxStep
<1>2. CASE EntityStep /\ UNCHANGED txvars
  BY <1>2, EntityKeeps
<1>3. CASE UNCHANGED <<vars, txvars>>
  <2>1. IInv' /\ HInv'
    BY <1>3, InvNext, HistoryStep DEF TxInv
  <2> QED
    BY <1>3, <2>1 DEF TxInv, CanonInv, TipsRight, vars, txvars
<1> QED
  BY <1>1, <1>2, <1>3 DEF TxNext, TxFinished

(* It holds at every state.                                                *)
LEMMA TxInvariant == ASSUME DeletesAreCanonical PROVE TxSpec => []TxInv
<1>1. TxInv /\ [TxNext]_<<vars, txvars>> => TxInv'
  BY TxInvNext
<1> QED
  BY TxInvInit, <1>1, PTL DEF TxSpec

(* A publication that a transaction returned stays in the history of its   *)
(* name, whatever calls and other transactions do to it later, unless some *)
(* call prunes or grafts that name (transaction.rs, commit).               *)
THEOREM ReturnedForever ==
    ASSUME DeletesAreCanonical PROVE TxSpec => []ReturnedStaysReachable
<1>1. TxInv => ReturnedStaysReachable
  <2> SUFFICES ASSUME TxInv, NEW t \in Txns, stage[t] = "ok",
                      NEW i \in DOMAIN Staged[t], Staged[t][i].name \in BranchNames
               PROVE  IsPrefix(work[t].commits[i], refs[Staged[t][i].name])
    BY DEF ReturnedStaysReachable
  <2>1. /\ ReturnedOK(t, work[t], refs) /\ work[t].commits \in Seq(History)
        /\ Len(work[t].commits) = Len(Staged[t])
    BY DEF TxInv, TxOK
  <2>2. i \in DOMAIN work[t].commits
    BY <2>1, StagedFacts, LenProperties
  <2> QED
    BY <2>1, <2>2 DEF ReturnedOK
<1> QED
  BY TxInvariant, <1>1, PTL

(* What a single call was told stays true beside transactions as well.     *)
THEOREM AcknowledgedBesideTransactions ==
    ASSUME DeletesAreCanonical PROVE TxSpec => []AcknowledgedStaysReachable
<1>1. TxInv => AcknowledgedStaysReachable
  BY DEF TxInv, HInv, HistoryOK, Acknowledges, AcknowledgedStaysReachable, Tip
<1> QED
  BY TxInvariant, <1>1, PTL

(* An index never lists a commit its name has not held, although the       *)
(* indexes of several kinds are written together with the refs             *)
(* (transaction.rs, commit).                                               *)
THEOREM IndexNeverAheadOfBatches ==
    ASSUME DeletesAreCanonical PROVE TxSpec => []IndexWithinHistory
<1>1. TxInv => IndexWithinHistory
  <2> SUFFICES ASSUME TxInv, NEW n \in BranchNames, n \in DOMAIN refs[KindOf[n]]
               PROVE  \A i \in DOMAIN refs[KindOf[n]][n] :
                          IsPrefix(refs[KindOf[n]][n][i], refs[n])
    BY DEF IndexWithinHistory
  <2>1. KindOf[n] \in Kinds
    BY KindAssumption DEF BranchNames
  <2> QED
    BY <2>1 DEF TxInv, HInv, WithinRefs
<1> QED
  BY TxInvariant, <1>1, PTL

(* A tombstone names the document it deletes, also one that a transaction  *)
(* staged for the id its caller asked about (transaction.rs, stage_delete).*)
THEOREM StagedTombstonesName == TxSpec => []TombstonesNameBeneath
<1>1. ASSUME DeletesAreCanonical
      PROVE  TxSpec => []TombstonesNameBeneath
  <2>1. TxInv => TombstonesNameBeneath
    BY DEF TxInv, IInv, TipsOK, TombstonesNameBeneath
  <2> QED
    BY <1>1, <2>1, TxInvariant, PTL
<1>2. ASSUME ~DeletesAreCanonical
      PROVE  TxSpec => []TombstonesNameBeneath
  <2>1. TombstonesNameBeneath
    BY <1>2 DEF TombstonesNameBeneath
  <2> QED
    BY <2>1, PTL
<1> QED
  BY <1>1, <1>2

-----------------------------------------------------------------------------
(* The refinement *)

\* The state of TransactionLog that a state stands for.
AbsLog == [n \in Names |-> refs[n]]
AbsExpect == [t \in Txns |-> work[t].expect]
AbsOutcome == [t \in Txns |-> TxOutcome(t)]

OutcomeAt(s) ==
    IF s = "idle" THEN "none"
    ELSE IF s \in TxWorking THEN "open"
    ELSE IF s = "ok" THEN "ok" ELSE "failed"

(* TransactionLog's words for what a commit is and how a branch moves mean *)
(* the same.                                                               *)
LEMMA SameWords ==
    ASSUME NEW op, NEW old, NEW new, NEW n \in Names
    PROVE  /\ Whole!Idle(op, old) <=> IdleAt(op, old)
           /\ Whole!Does(op, old, new) <=> DoneBy(op, old, new)
           /\ Whole!Moves(old, new, n \in GraftedNames, n \in PrunedNames)
                  <=> MovesAt(n, old, new)
<1>1. Whole!Idle(op, old) <=> IdleAt(op, old)
  BY DEF Whole!Idle, IdleAt, Whole!Carries, Carries, Whole!Present, Present,
         Whole!Absent, Absent, Whole!Last, Last
<1>2. Whole!Does(op, old, new) <=> DoneBy(op, old, new)
  BY DEF Whole!Does, DoneBy, Whole!Absent, Absent, Whole!Last, Last,
         Whole!Front, Front
<1>3. Whole!Moves(old, new, n \in GraftedNames, n \in PrunedNames)
          <=> MovesAt(n, old, new)
  BY DEF MovesAt, Moves, Publishes, Tombstones, Regrafts, Prunes,
         Present, Deleted, Carries, TombstonesName, History, Entry, Times,
         Absent, Last, Front,
         Whole!Moves, Whole!Publishes, Whole!Tombstones, Whole!Regrafts, Whole!Prunes,
         Whole!Present, Whole!Deleted, Whole!Carries, Whole!TombstonesName,
         Whole!History, Whole!Entry, Whole!Times, Whole!Absent, Whole!Last, Whole!Front
<1> QED
  BY <1>1, <1>2, <1>3

(* One transaction moves from one stage to another.                        *)
LEMMA OutcomeMoves ==
    ASSUME TxInv, NEW t \in Txns, NEW s, StageGoto(t, s)
    PROVE  /\ AbsOutcome[t] = OutcomeAt(stage[t])
           /\ AbsOutcome' = [AbsOutcome EXCEPT ![t] = OutcomeAt(s)]
<1>1. \A u \in Txns : TxOutcome(u) = OutcomeAt(stage[u])
  BY DEF TxOutcome, OutcomeAt
<1>2. \A u \in Txns : TxOutcome(u)' = OutcomeAt(stage'[u])
  BY DEF TxOutcome, OutcomeAt
<1>3. \A u \in Txns : stage'[u] = IF u = t THEN s ELSE stage[u]
  BY DEF StageGoto, TxInv
<1> QED
  BY <1>1, <1>2, <1>3 DEF AbsOutcome

(* What the callers expect stays as it is once it is staged.               *)
LEMMA ExpectKept ==
    ASSUME TxInv, NEW t \in Txns, work'[t].expect = work[t].expect,
           \A u \in Txns : u # t => work'[u] = work[u]
    PROVE  AbsExpect' = AbsExpect
BY DEF AbsExpect

(* A step of a transaction changes no other's locals.                      *)
LEMMA OneTxSteps ==
    ASSUME TxInv, NEW t \in Txns, TxStart(t) \/ TxStep(t), NEW u \in Txns, u # t
    PROVE  work'[u] = work[u]
BY DEF TxInv, TxStart, TxStep, StageStale, StageSame, StageNext, StageNothing,
       StageDelete, Settle, ListEntries, EditIndex, BatchWins, BatchLoses

(* A transaction is issued.                                                *)
LEMMA StartBegins ==
    ASSUME TxInv, NEW t \in Txns, TxStart(t)
    PROVE  Whole!Begin(t)
<1>1. stage[t] = "idle" /\ StageGoto(t, "staging") /\ UNCHANGED vars
  BY DEF TxStart
<1>2. PICK expect \in [DOMAIN Staged[t] -> AllTokens] :
          work' = [work EXCEPT ![t].expect = expect]
  BY DEF TxStart
<1>3. DOMAIN work = Txns /\ DOMAIN work[t] = TxFields
  BY DEF TxInv, TxOK
<1>4. work'[t].expect = expect
  BY <1>2, <1>3 DEF TxFields
<1>5. \A u \in Txns : u # t => work'[u] = work[u]
  BY <1>2, <1>3
<1>6. AbsOutcome[t] = "none" /\ AbsOutcome' = [AbsOutcome EXCEPT ![t] = "open"]
  BY <1>1, OutcomeMoves DEF OutcomeAt, TxWorking
<1>7. AbsExpect' = [AbsExpect EXCEPT ![t] = AbsExpect'[t]]
  BY <1>5 DEF AbsExpect
<1>8. DOMAIN AbsExpect'[t] = DOMAIN Staged[t]
  BY <1>4 DEF AbsExpect
<1>9. AbsLog' = AbsLog
  BY <1>1 DEF AbsLog, vars
<1> QED
  BY <1>6, <1>7, <1>8, <1>9 DEF Whole!Begin, AbsOutcome, AbsExpect, AbsLog

(* A transaction fails.                                                    *)
LEMMA FailureFails ==
    ASSUME TxInv, NEW t \in Txns, StageStale(t) \/ BatchLoses(t)
    PROVE  Whole!Fail(t)
<1>1. /\ stage[t] \in TxWorking /\ UNCHANGED vars
      /\ \E s \in {"stale", "lost"} : StageGoto(t, s)
  BY DEF StageStale, OpStale, BatchLoses, TxWorking
<1>2. work'[t].expect = work[t].expect
  <2>1. CASE StageStale(t)
    BY <2>1 DEF StageStale
  <2>2. CASE BatchLoses(t)
    <3>1. work' = [work EXCEPT ![t].batch = NoEdits]
      BY <2>2 DEF BatchLoses
    <3>2. DOMAIN work = Txns /\ DOMAIN work[t] = TxFields
      BY DEF TxInv, TxOK
    <3> QED
      BY <3>1, <3>2 DEF TxFields
  <2> QED
    BY <2>1, <2>2
<1>3. AbsExpect' = AbsExpect
  BY <1>2, ExpectKept, OneTxSteps DEF TxStep
<1>4. AbsOutcome[t] = "open" /\ AbsOutcome' = [AbsOutcome EXCEPT ![t] = "failed"]
  BY <1>1, OutcomeMoves DEF OutcomeAt, TxWorking
<1>5. AbsLog' = AbsLog
  BY <1>1 DEF AbsLog, vars
<1> QED
  BY <1>3, <1>4, <1>5 DEF Whole!Fail, AbsOutcome, AbsExpect, AbsLog

(* A transaction goes on: nothing that TransactionLog sees changes.        *)
LEMMA OngoingStutters ==
    ASSUME TxInv, NEW t \in Txns, TxStep(t), UNCHANGED vars, stage[t] \in TxWorking,
           work'[t].expect = work[t].expect,
           NEW s \in TxWorking, StageGoto(t, s)
    PROVE  UNCHANGED <<AbsLog, AbsExpect, AbsOutcome>>
<1>1. AbsExpect' = AbsExpect
  BY ExpectKept, OneTxSteps
<1>2. AbsOutcome' = AbsOutcome
  <2>1. AbsOutcome[t] = "open" /\ AbsOutcome' = [AbsOutcome EXCEPT ![t] = "open"]
    BY OutcomeMoves DEF OutcomeAt, TxWorking
  <2> QED
    BY <2>1 DEF AbsOutcome
<1>3. AbsLog' = AbsLog
  BY DEF AbsLog, vars
<1> QED
  BY <1>1, <1>2, <1>3

(* A transaction is done, with what it did at each ref.                    *)
LEMMA SuccessCommits ==
    ASSUME TxInv, NEW t \in Txns, TxStep(t), stage[t] \in TxWorking, StageGoto(t, "ok"),
           work'[t].expect = work[t].expect,
           \A n \in Names : \/ refs'[n] = refs[n]
                            \/ \E i \in DOMAIN Staged[t] : Staged[t][i].name = n,
           \A i \in DOMAIN Staged[t] :
               LET op == Staged[t][i]
               IN  IF IdleAt(op, work[t].expect[i])
                   THEN refs'[op.name] = refs[op.name]
                   ELSE /\ refs[op.name] = work[t].expect[i]
                        /\ DoneBy(op, refs[op.name], refs'[op.name])
    PROVE  Whole!Commit(t)
<1>1. AbsExpect' = AbsExpect
  BY ExpectKept, OneTxSteps
<1>2. AbsOutcome[t] = "open" /\ AbsOutcome' = [AbsOutcome EXCEPT ![t] = "ok"]
  BY OutcomeMoves DEF OutcomeAt, TxWorking
<1>3. DOMAIN AbsLog' = Names
  BY DEF AbsLog
<1>4. \A n \in Names : AbsLog[n] = refs[n] /\ AbsLog'[n] = refs'[n]
  BY DEF AbsLog
<1>5. \A n \in Names : \/ AbsLog'[n] = AbsLog[n]
                       \/ \E i \in DOMAIN Staged[t] : Staged[t][i].name = n
  BY <1>4
<1>6. ASSUME NEW i \in DOMAIN Staged[t]
      PROVE  LET op == Staged[t][i]
             IN  IF Whole!Idle(op, AbsExpect[t][i])
                 THEN AbsLog'[op.name] = AbsLog[op.name]
                 ELSE /\ AbsLog[op.name] = AbsExpect[t][i]
                      /\ Whole!Does(op, AbsLog[op.name], AbsLog'[op.name])
  <2> DEFINE op == Staged[t][i]
  <2>1. op.name \in Names /\ AbsExpect[t][i] = work[t].expect[i]
    BY StagedFacts DEF AbsExpect
  <2>2. AbsLog[op.name] = refs[op.name] /\ AbsLog'[op.name] = refs'[op.name]
    BY <1>4, <2>1
  <2>3. Whole!Idle(op, AbsExpect[t][i]) <=> IdleAt(op, work[t].expect[i])
    BY <2>1, SameWords
  <2>4. Whole!Does(op, AbsLog[op.name], AbsLog'[op.name])
            <=> DoneBy(op, refs[op.name], refs'[op.name])
    BY <2>1, <2>2, SameWords
  <2> QED
    BY <2>1, <2>2, <2>3, <2>4
<1> QED
  BY <1>1, <1>2, <1>3, <1>5, <1>6 DEF Whole!Commit, AbsOutcome, AbsExpect, AbsLog

(* A batch that wins does everything that was staged,                      *)
LEMMA BatchCommits ==
    ASSUME TxInv, NEW t \in Txns, BatchWins(t)
    PROVE  Whole!Commit(t)
<1> DEFINE batch == work[t].batch
<1>1. /\ stage[t] = "applying" /\ StageGoto(t, "ok")
      /\ work' = [work EXCEPT ![t].batch = NoEdits]
      /\ \A r \in DOMAIN batch : refs[r] = batch[r].expected
  BY DEF BatchWins, ExpectationsHold
<1>2. TxOK(t, "applying", work[t], refs) /\ DOMAIN work = Txns
  BY <1>1 DEF TxInv
<1>3. OpenOK(t, work[t], refs) /\ DOMAIN work[t].commits = DOMAIN Staged[t]
  BY <1>2, StagedFacts, LenProperties DEF TxOK, TxWorking
<1>4. \A n \in Names : \/ refs'[n] = refs[n]
                       \/ \E i \in DOMAIN Staged[t] : Staged[t][i].name = n
  BY <1>3, BatchRefs DEF OpenOK
<1>5. ASSUME NEW i \in DOMAIN Staged[t]
      PROVE  LET op == Staged[t][i]
             IN  IF IdleAt(op, work[t].expect[i])
                 THEN refs'[op.name] = refs[op.name]
                 ELSE /\ refs[op.name] = work[t].expect[i]
                      /\ DoneBy(op, refs[op.name], refs'[op.name])
  <2> DEFINE op == Staged[t][i]
  <2>1. SettledOK(t, work[t], i)
    BY <1>3 DEF OpenOK
  <2>2. op.name \in Names
    BY StagedFacts
  <2>3. refs'[op.name] = IF op.name \in DOMAIN batch THEN batch[op.name].new
                                                     ELSE refs[op.name]
    BY <2>2, BatchRefs
  <2> QED
    BY <1>1, <2>1, <2>3 DEF SettledOK
<1>6. work'[t].expect = work[t].expect
  BY <1>1, <1>2 DEF TxOK, TxFields
<1>7. stage[t] \in TxWorking /\ TxStep(t)
  BY <1>1 DEF TxWorking, TxStep
<1> QED
  BY <1>1, <1>4, <1>5, <1>6, <1>7, SuccessCommits

(* and one that had nothing to do commits without any batch.               *)
LEMMA NothingCommits ==
    ASSUME TxInv, NEW t \in Txns, TxStep(t), stage[t] \in TxWorking, UNCHANGED vars,
           StageGoto(t, "ok"), work'[t].expect = work[t].expect, NothingToDo(t)
    PROVE  Whole!Commit(t)
<1>1. refs' = refs
  BY DEF vars
<1> QED
  BY <1>1, SuccessCommits DEF NothingToDo

(* A step of a call moves at most one ref, as a branch.                    *)
LEMMA CallsMoveElsewhere ==
    ASSUME TxInv, EntityStep, UNCHANGED txvars, refs' # refs,
           ~ UNCHANGED AbsLog
    PROVE  \E n \in Names : Whole!Elsewhere(n)
<1>1. [Next]_vars /\ IInv
  BY DEF EntityStep, Next, TxInv
<1>2. PICK c \in Calls : ApplyWins(c)
  BY <1>1, OnlyApplyMovesRefs
<1>3. PICK n \in Names :
        /\ n = job[c].name
        /\ \A m \in Names : m # n => refs'[m] = refs[m]
        /\ n \in DOMAIN job[c].batch => MovesAt(n, refs[n], refs'[n])
        /\ n \notin DOMAIN job[c].batch => refs'[n] = refs[n]
  BY <1>1, <1>2, CallFacts, ApplyMoves
<1>4. n \in DOMAIN job[c].batch
  BY <1>3 DEF AbsLog
<1>5. AbsLog[n] = refs[n] /\ AbsLog'[n] = refs'[n]
  BY DEF AbsLog
<1>6. Whole!Moves(AbsLog[n], AbsLog'[n], n \in GraftedNames, n \in PrunedNames)
  BY <1>3, <1>4, <1>5, SameWords
<1>7. AbsLog' = [AbsLog EXCEPT ![n] = AbsLog'[n]]
  BY <1>3 DEF AbsLog
<1>8. AbsExpect' = AbsExpect /\ AbsOutcome' = AbsOutcome
  BY DEF AbsExpect, AbsOutcome, TxOutcome, txvars
<1>9. Whole!Elsewhere(n)
  BY <1>6, <1>7, <1>8 DEF Whole!Elsewhere, AbsLog, AbsExpect, AbsOutcome
<1> QED
  BY <1>9

(* Every step is one of TransactionLog's, or is not seen there.            *)
LEMMA WholeMoves ==
    ASSUME TxInv, [TxNext]_<<vars, txvars>>
    PROVE  [Whole!Next]_<<AbsLog, AbsExpect, AbsOutcome>>
<1>1. ASSUME NEW t \in Txns, TxStart(t)
      PROVE  Whole!Next
  BY <1>1, StartBegins DEF Whole!Next
<1>2. ASSUME NEW t \in Txns, TxStep(t)
      PROVE  [Whole!Next]_<<AbsLog, AbsExpect, AbsOutcome>>
  <2>1. CASE StageStale(t) \/ BatchLoses(t)
    BY <2>1, FailureFails DEF Whole!Next
  <2>2. CASE BatchWins(t)
    BY <2>2, BatchCommits DEF Whole!Next
  <2>3. ASSUME UNCHANGED vars, stage[t] \in TxWorking,
               work'[t].expect = work[t].expect,
               NEW s \in TxWorking \cup {"ok"}, StageGoto(t, s),
               s = "ok" => NothingToDo(t)
        PROVE  [Whole!Next]_<<AbsLog, AbsExpect, AbsOutcome>>
    <3>1. CASE s = "ok"
      BY <1>2, <2>3, <3>1, NothingCommits DEF Whole!Next
    <3>2. CASE s \in TxWorking
      BY <1>2, <2>3, <3>2, OngoingStutters
    <3> QED
      BY <2>3, <3>1, <3>2
  <2>4. CASE StageSame(t) \/ StageNext(t) \/ StageNothing(t) \/ StageDelete(t)
    <3>1. UNCHANGED vars /\ stage[t] \in TxWorking
      BY <2>4 DEF StageSame, StageNext, StageNothing, StageDelete, Staging, TxWorking
    <3>2. /\ work'[t].expect = work[t].expect
          /\ \E s \in {"staging", "listing", "ok"} :
                StageGoto(t, s) /\ (s = "ok" => NothingToDo(t))
      BY <2>4, StageKeeps
    <3>3. PICK s \in {"staging", "listing", "ok"} :
                StageGoto(t, s) /\ (s = "ok" => NothingToDo(t))
      BY <3>2
    <3>4. s \in TxWorking \cup {"ok"}
      BY DEF TxWorking
    <3> QED
      BY <2>3, <3>1, <3>2, <3>3, <3>4
  <2>5. CASE ListEntries(t)
    <3>1. UNCHANGED vars /\ stage[t] \in TxWorking /\ StageGoto(t, "indexing")
      BY <2>5 DEF ListEntries, TxWorking
    <3>2. work'[t].expect = work[t].expect
      BY <2>5, ListEntriesKeeps
    <3>3. "indexing" \in TxWorking \cup {"ok"}
      BY DEF TxWorking
    <3> QED
      BY <2>3, <3>1, <3>2, <3>3
  <2>6. CASE EditIndex(t)
    <3>1. UNCHANGED vars /\ stage[t] \in TxWorking
      BY <2>6 DEF EditIndex, TxWorking
    <3>2. /\ work'[t].expect = work[t].expect
          /\ \E s \in {"listing", "applying", "ok"} :
                StageGoto(t, s) /\ (s = "ok" => NothingToDo(t))
      BY <2>6, EditIndexKeeps
    <3>3. PICK s \in {"listing", "applying", "ok"} :
                StageGoto(t, s) /\ (s = "ok" => NothingToDo(t))
      BY <3>2
    <3>4. s \in TxWorking \cup {"ok"}
      BY DEF TxWorking
    <3> QED
      BY <2>3, <3>1, <3>2, <3>3, <3>4
  <2> QED
    BY <1>2, <2>1, <2>2, <2>4, <2>5, <2>6 DEF TxStep
<1>3. CASE EntityStep /\ UNCHANGED txvars
  <2>1. CASE UNCHANGED AbsLog
    <3>1. AbsExpect' = AbsExpect /\ AbsOutcome' = AbsOutcome
      BY <1>3 DEF AbsExpect, AbsOutcome, TxOutcome, txvars
    <3> QED
      BY <2>1, <3>1
  <2>2. CASE ~ UNCHANGED AbsLog
    <3>1. refs' # refs
      BY <2>2 DEF AbsLog
    <3> QED
      BY <1>3, <2>2, <3>1, CallsMoveElsewhere DEF Whole!Next
  <2> QED
    BY <2>1, <2>2
<1>4. CASE UNCHANGED <<vars, txvars>>
  BY <1>4 DEF AbsLog, AbsExpect, AbsOutcome, TxOutcome, vars, txvars
<1> QED
  BY <1>1, <1>2, <1>3, <1>4 DEF TxNext, TxFinished

(* Nothing is staged and no ref exists at first.                           *)
LEMMA WholeStarts == TxInit => Whole!Init
<1> SUFFICES ASSUME TxInit
             PROVE  Whole!Init
  OBVIOUS
<1>1. AbsLog = [n \in Names |-> Absent]
  BY DEF TxInit, Init, AbsLog
<1>2. AbsExpect = [t \in Txns |-> <<>>]
  BY DEF TxInit, AbsExpect
<1>3. AbsOutcome = [t \in Txns |-> "none"]
  BY DEF TxInit, AbsOutcome, TxOutcome
<1> QED
  BY <1>1, <1>2, <1>3 DEF Whole!Init, Whole!Absent, Absent, AbsLog, AbsExpect, AbsOutcome

(* A transaction does all of what it staged on top of exactly what its     *)
(* caller expected, or none of it, whatever calls and other transactions   *)
(* write meanwhile (transaction.rs, commit).                               *)
THEOREM TransactionsRefine ==
    ASSUME DeletesAreCanonical PROVE TxSpec => ImplementsTransactionLog
<1>1. TxInv /\ [TxNext]_<<vars, txvars>>
          => [Whole!Next]_Whole!vars
  BY WholeMoves DEF Whole!vars, AbsLog, AbsExpect, AbsOutcome
<1> QED
  BY TxInvariant, WholeStarts, <1>1, PTL DEF TxSpec, ImplementsTransactionLog, Whole!Spec
=============================================================================
