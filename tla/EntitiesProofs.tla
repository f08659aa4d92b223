--------------------------- MODULE EntitiesProofs ---------------------------
(***************************************************************************)
(* The safety of the concurrent entity operations, for every set of calls, *)
(* names, kinds and documents.                                             *)
(*                                                                         *)
(* The argument is about the batches in flight.  A call reads the ref it   *)
(* will move once, and builds from that value both the expectation and the *)
(* new commit.  So every pending edit of an entity ref is, by itself, a    *)
(* step of EntityLog from its expected value to its new one (CallOK), and  *)
(* a batch that lands found the ref at the expected value: whatever the    *)
(* other calls did in between, the ref makes exactly that step.            *)
(*                                                                         *)
(* Three arguments follow, each with its own invariant: the moves of the   *)
(* refs (IInv), the histories of refs and indexes (HInv), and documents    *)
(* published once and the pair of ref and index (SInv, OneShotInv, PairInv).*)
(***************************************************************************)
EXTENDS Entities, CommitsProofs

-----------------------------------------------------------------------------
(* The inductive invariant *)

\* A move that the calls allow at a name.
MovesAt(n, old, new) == Moves(old, new, n \in GraftedNames, n \in PrunedNames)

\* What holds of the locals j of call c when it is at label l.
CallOK(c, j, l) ==
    /\ Op(c) # "anonymous" => j.name = Request[c].name
    /\ j.parent # Absent => Request[c].grafted
    /\ TombstonesName(j.parent)
    /\ j.name \in DOMAIN j.batch =>
           MovesAt(j.name, j.batch[j.name].expected, j.batch[j.name].new)
    /\ l \in {"index", "source"} =>
           /\ Op(c) # "rebuild"
           /\ DOMAIN j.batch \subseteq {j.name}
           /\ Op(c) # "remove" => j.commit # Absent
    /\ l \in {"idle", "mint"} =>
           j.index = Absent /\ j.entries = Absent /\ j.batch = NoEdits
    /\ Op(c) = "anonymous" /\ l \notin {"idle", "mint"} =>
           Publishes(Absent, j.commit)

TipsOK == \A n \in Names : TombstonesName(refs[n])

IInv ==
    /\ TypeOK
    /\ TipsOK
    /\ \A c \in Calls : CallOK(c, job[c], pc[c])

-----------------------------------------------------------------------------
(* Helpers of the model *)

(* An index ref that does not exist is an index tree without entries.      *)
LEMMA AbsentIsIndexTree == \A k : IsIndexTree(k, Absent)
<1>1. DOMAIN Absent = {}
  BY EmptySeq, LenProperties DEF Absent
<1> QED
  BY <1>1 DEF IsIndexTree

(* The ref of an entity is never the ref of an index.                      *)
LEMMA KindFacts ==
    ASSUME NEW n \in Names
    PROVE  KindOf[n] \in Kinds /\ KindOf[n] \notin Names /\ KindOf[n] # n
BY RefsAssumption, KindAssumption

(* What the ref store lists under a kind's prefix is an index of the kind. *)
LEMMA SourceIsIndexTree ==
    ASSUME TypeOK, NEW k
    PROVE  /\ IsIndexTree(k, SourceEntries(k))
           /\ \A n \in DOMAIN SourceEntries(k) : SourceEntries(k)[n] = <<refs[n]>>
<1>1. \A h \in History : h # Absent =>
          <<h>> \in Seq(History \ {Absent}) /\ <<h>> # <<>>
  OBVIOUS
<1> QED
  BY <1>1 DEF TypeOK, IsIndexTree, SourceEntries

(* Overlaying an entry of the kind leaves an index tree of the kind,       *)
LEMMA OverlayIsIndexTree ==
    ASSUME NEW tree, NEW n \in Names, NEW commit \in History, commit # Absent,
           IsIndexTree(KindOf[n], tree)
    PROVE  IsIndexTree(KindOf[n], Overlay(tree, n, commit))
<1>1. <<commit>> \in Seq(History \ {Absent}) /\ <<commit>> # <<>>
  OBVIOUS
<1> QED
  BY <1>1 DEF IsIndexTree, Overlay

(* so does adding one more row,                                            *)
LEMMA PushedIsIndexTree ==
    ASSUME NEW tree, NEW n \in Names, NEW commit \in History, commit # Absent,
           IsIndexTree(KindOf[n], tree)
    PROVE  IsIndexTree(KindOf[n], Pushed(tree, n, commit))
<1>1. CASE n \in DOMAIN tree
  <2>1. tree[n] \in Seq(History \ {Absent})
    BY <1>1 DEF IsIndexTree
  <2>2. /\ Append(tree[n], commit) \in Seq(History \ {Absent})
        /\ Append(tree[n], commit) # <<>>
    BY <2>1
  <2>3. Pushed(tree, n, commit) = [tree EXCEPT ![n] = Append(tree[n], commit)]
    BY <1>1 DEF Pushed
  <2> QED
    BY <1>1, <2>2, <2>3 DEF IsIndexTree
<1>2. CASE n \notin DOMAIN tree
  BY <1>2, OverlayIsIndexTree DEF Pushed
<1> QED
  BY <1>1, <1>2

(* and so does dropping one.                                               *)
LEMMA WithoutIsIndexTree ==
    ASSUME NEW tree, NEW n, NEW k, IsIndexTree(k, tree)
    PROVE  IsIndexTree(k, Without(tree, n))
BY DEF IsIndexTree, Without

(* What a batch with one more edit says.                                   *)
LEMMA EditFacts ==
    ASSUME NEW batch, NEW r, NEW expected, NEW new
    PROVE  LET b == WithEdit(batch, r, Edit(expected, new)) IN
           /\ DOMAIN b = DOMAIN batch \cup {r}
           /\ b[r].expected = expected /\ b[r].new = new
           /\ \A q \in DOMAIN batch : q # r => b[q] = batch[q]
BY DEF WithEdit, Edit

(* The empty batch touches no ref.                                         *)
LEMMA NoEditsFacts == DOMAIN NoEdits = {}
BY DEF NoEdits

(* What a publication and a tombstone say.                                 *)
LEMMA EntryFacts ==
    ASSUME NEW d \in Docs, NEW t \in Times
    PROVE  /\ LiveEntry(d, t) \in Entry /\ ~LiveEntry(d, t).dead
           /\ LiveEntry(d, t).doc = d
           /\ TombstoneEntry(d, t) \in Entry /\ TombstoneEntry(d, t).dead
           /\ TombstoneEntry(d, t).doc = d
BY DEF LiveEntry, TombstoneEntry, Entry

-----------------------------------------------------------------------------
(* Steps that leave the refs alone *)

Labels == {"idle"} \cup Working \cup Returned

\* Call c moves on alone: nobody else's locals change.
Alone(c) ==
    /\ refs' = refs /\ clock' = clock
    /\ DOMAIN job' = Calls /\ pc' \in [Calls -> Labels]
    /\ \A d \in Calls : d # c => job'[d] = job[d] /\ pc'[d] = pc[d]

(* A step of one call that moves no ref keeps the invariant if that call   *)
(* keeps its own part of it.                                               *)
LEMMA AloneKeeps ==
    ASSUME IInv, NEW c \in Calls, Alone(c),
           IsJob(job'[c]), CallOK(c, job'[c], pc'[c])
    PROVE  IInv'
<1>1. \A d \in Calls : IsJob(job'[d])
  BY DEF IInv, TypeOK, Alone
<1>2. TypeOK'
  BY <1>1 DEF IInv, TypeOK, Alone, Labels
<1>3. TipsOK'
  BY DEF IInv, TipsOK, Alone
<1>4. \A d \in Calls : CallOK(d, job'[d], pc'[d])
  BY DEF IInv, Alone
<1>5. (\A d \in Calls : CallOK(d, job[d], pc[d]))'
  BY <1>4
<1> QED
  BY <1>2, <1>3, <1>5 DEF IInv

\* What the invariant says of one call.
LEMMA CallFacts ==
    ASSUME IInv, NEW c \in Calls
    PROVE  /\ IsJob(job[c])
           /\ CallOK(c, job[c], pc[c])
           /\ job[c].name \in Names
           /\ Tip(c) \in History /\ TombstonesName(Tip(c))
           /\ IndexRef(c) = KindOf[job[c].name]
           /\ IndexRef(c) \in Kinds /\ IndexRef(c) \notin Names
           /\ Request[c] \in Requests
           /\ clock \in Times
<1>1. IsJob(job[c]) /\ CallOK(c, job[c], pc[c]) /\ clock \in Times
  BY DEF IInv, TypeOK
<1>2. job[c].name \in Names
  BY <1>1 DEF IsJob
<1> QED
  BY <1>1, <1>2, KindFacts, RequestAssumption
     DEF IInv, TypeOK, TipsOK, Tip, IndexRef

(* A call that only changes its label, to one where nothing is pending.    *)
LEMMA RelabelKeeps ==
    ASSUME IInv, NEW c \in Calls, NEW l \in Labels \ {"idle", "mint", "index", "source"},
           pc[c] \notin {"idle", "mint"},
           Goto(c, l), UNCHANGED <<refs, clock, job>>
    PROVE  IInv'
<1>1. Alone(c) /\ pc'[c] = l /\ job'[c] = job[c]
  BY DEF IInv, TypeOK, Alone, Goto, Labels
<1>2. CallOK(c, job'[c], pc'[c])
  BY <1>1, CallFacts DEF CallOK
<1> QED
  BY <1>1, <1>2, CallFacts, AloneKeeps

(* The answers that write nothing: a stale expectation, an absent or       *)
(* already deleted entity, a commit already at its own name.               *)
LEMMA AnswerKeeps ==
    ASSUME IInv, NEW c \in Calls,
           \/ ResolveStale(c)
           \/ DeleteAbsent(c) \/ DeleteRepeated(c) \/ RemoveAbsent(c)
           \/ AnonymousThere(c)
    PROVE  IInv'
<1>1. \E l \in {"read", "stale", "absent", "deleted", "ok"} :
          Goto(c, l) /\ pc[c] \notin {"idle", "mint"} /\ UNCHANGED <<refs, clock, job>>
  BY DEF ResolveStale, DeleteAbsent, DeleteRepeated, RemoveAbsent, AnonymousThere, At
<1>2. {"read", "stale", "absent", "deleted", "ok"} \subseteq Labels \ {"idle", "mint", "index", "source"}
  BY DEF Labels, Working, Returned
<1> QED
  BY <1>1, <1>2, RelabelKeeps

-----------------------------------------------------------------------------
(* Steps that change the locals of a call *)

(* Starting a call keeps the invariant.                                    *)
LEMMA StartKeeps ==
    ASSUME IInv, NEW c \in Calls, Start(c)
    PROVE  IInv'
<1> USE DEF Labels, Working, Returned
<1>1. PICK expect \in IF Request[c].guarded THEN Tokens(Request[c].name) ELSE {Absent},
           parent \in IF Request[c].grafted THEN AllTokens ELSE {Absent} :
           job' = [job EXCEPT ![c].expect = expect, ![c].parent = parent]
  BY DEF Start
<1>2. Request[c].name \in Names /\ Op(c) \in Ops
  BY CallFacts DEF Requests, Op
<1>3. expect \in History
  BY <1>1, <1>2, PrefixesFacts, AbsentTombstones DEF IInv, TypeOK, Tokens
<1>4. /\ parent \in History /\ TombstonesName(parent)
      /\ parent # Absent => Request[c].grafted
  <2>1. CASE parent = Absent
    BY <2>1, AbsentTombstones
  <2>2. CASE parent # Absent
    <3>1. Request[c].grafted
      BY <1>1, <2>2
    <3>2. PICK n \in Names : parent \in Prefixes(refs[n])
      BY <1>1, <2>2, <3>1 DEF AllTokens, Tokens
    <3>3. refs[n] \in History /\ TombstonesName(refs[n])
      BY DEF IInv, TypeOK, TipsOK
    <3> QED
      BY <3>1, <3>2, <3>3, PrefixesFacts, PrefixTombstones
  <2> QED
    BY <2>1, <2>2
<1>5. /\ DOMAIN job' = Calls
      /\ \A d \in Calls : d # c => job'[d] = job[d]
      /\ DOMAIN job'[c] = Locals
      /\ job'[c].expect = expect /\ job'[c].parent = parent
      /\ \A x \in Locals \ {"expect", "parent"} : job'[c][x] = job[c][x]
  BY <1>1, CallFacts DEF IInv, TypeOK, IsJob, Locals
<1>6. /\ pc[c] = "idle" /\ refs' = refs /\ clock' = clock
      /\ pc' = [pc EXCEPT ![c] = FirstStep[Op(c)]]
      /\ FirstStep[Op(c)] \in {"resolve", "read", "scan", "mint"}
      /\ FirstStep[Op(c)] # "mint" => Op(c) # "anonymous"
  BY <1>2 DEF Start, Goto, FirstStep, Ops
<1>7. Alone(c) /\ pc'[c] = FirstStep[Op(c)]
  BY <1>5, <1>6 DEF IInv, TypeOK, Alone
<1>8. IsJob(job'[c])
  BY <1>3, <1>4, <1>5, CallFacts DEF IsJob, Locals
<1>9. CallOK(c, job'[c], pc'[c])
  <2>1. CallOK(c, job[c], "idle")
    <3>1. CallOK(c, job[c], pc[c])
      BY CallFacts
    <3>2. pc[c] = "idle"
      BY <1>6
    <3> QED
      BY <3>1, <3>2
  <2>2. job'[c].batch = NoEdits /\ job'[c].index = Absent /\ job'[c].entries = Absent
    BY <1>5, <2>1 DEF CallOK, Locals
  <2>3. job'[c].name = job[c].name /\ job'[c].parent = parent
    BY <1>5 DEF Locals
  <2> QED
    BY <1>4, <1>6, <1>7, <2>1, <2>2, <2>3, NoEditsFacts DEF CallOK
<1> QED
  BY <1>7, <1>8, <1>9, AloneKeeps

(* The first read of an update keeps the invariant,                        *)
LEMMA UpdateReadKeeps ==
    ASSUME IInv, NEW c \in Calls, UpdateRead(c)
    PROVE  IInv'
<1> USE DEF Labels, Working, Returned
<1>1. /\ Op(c) = "update" /\ job' = [job EXCEPT ![c].base = Tip(c)]
      /\ refs' = refs /\ clock' = clock
      /\ \E l \in {"expect", "refused"} : pc' = [pc EXCEPT ![c] = l]
  BY DEF UpdateRead, At, Goto
<1>2. /\ DOMAIN job'[c] = Locals /\ job'[c].base = Tip(c)
      /\ \A x \in Locals \ {"base"} : job'[c][x] = job[c][x]
  BY <1>1, CallFacts DEF IInv, TypeOK, IsJob, Locals
<1>3. Alone(c) /\ pc'[c] \in {"expect", "refused"}
  BY <1>1 DEF IInv, TypeOK, Alone
<1>4. IsJob(job'[c])
  BY <1>2, CallFacts DEF IsJob, Locals
<1>5. CallOK(c, job'[c], pc'[c])
  BY <1>1, <1>2, <1>3, CallFacts DEF CallOK, Locals
<1> QED
  BY <1>3, <1>4, <1>5, AloneKeeps

(* and so does the second.                                                 *)
LEMMA UpdateExpectKeeps ==
    ASSUME IInv, NEW c \in Calls, UpdateExpect(c)
    PROVE  IInv'
<1> USE DEF Labels, Working, Returned
<1>1. /\ Op(c) = "update" /\ job' = [job EXCEPT ![c].expect = Tip(c)]
      /\ refs' = refs /\ clock' = clock
      /\ pc' = [pc EXCEPT ![c] = "resolve"]
  BY DEF UpdateExpect, At, Goto
<1>2. /\ DOMAIN job'[c] = Locals /\ job'[c].expect = Tip(c)
      /\ \A x \in Locals \ {"expect"} : job'[c][x] = job[c][x]
  BY <1>1, CallFacts DEF IInv, TypeOK, IsJob, Locals
<1>3. Alone(c) /\ pc'[c] = "resolve"
  BY <1>1 DEF IInv, TypeOK, Alone
<1>4. IsJob(job'[c])
  BY <1>2, CallFacts DEF IsJob, Locals
<1>5. CallOK(c, job'[c], pc'[c])
  BY <1>1, <1>2, <1>3, CallFacts DEF CallOK, Locals
<1> QED
  BY <1>3, <1>4, <1>5, AloneKeeps

(* The steps that settle what a call will do to its entity ref: they set   *)
(* the commit and the entity edit, and go on to the index.  It is enough   *)
(* that the edit is a move, and that there is a commit to list.            *)
LEMMA SettleKeeps ==
    ASSUME IInv, NEW c \in Calls, NEW commit \in History, NEW batch,
           Op(c) # "rebuild",
           pc[c] \notin {"idle", "mint"},
           job' = [job EXCEPT ![c].commit = commit, ![c].batch = batch],
           Goto(c, "index"), UNCHANGED <<refs, clock>>,
           DOMAIN batch \subseteq {job[c].name},
           job[c].name \in DOMAIN batch =>
               /\ {batch[job[c].name].expected, batch[job[c].name].new} \subseteq History
               /\ MovesAt(job[c].name, batch[job[c].name].expected, batch[job[c].name].new),
           Op(c) # "remove" => commit # Absent,
           Op(c) = "anonymous" => commit = job[c].commit
    PROVE  IInv'
<1>1. /\ DOMAIN job'[c] = Locals
      /\ job'[c].commit = commit /\ job'[c].batch = batch
      /\ \A x \in Locals \ {"commit", "batch"} : job'[c][x] = job[c][x]
  BY CallFacts DEF IInv, TypeOK, IsJob, Locals
<1>2. Alone(c) /\ pc'[c] = "index"
  BY DEF IInv, TypeOK, Alone, Goto, Labels, Working
<1>3. IsJob(job'[c])
  <2>1. IsBatch(job[c].name, batch)
    BY CallFacts DEF IsBatch
  <2>2. IsJob(job[c])
    BY CallFacts
  <2> QED
    BY <1>1, <2>1, <2>2 DEF IsJob, Locals
<1>4. CallOK(c, job'[c], pc'[c])
  BY <1>1, <1>2, CallFacts DEF CallOK, Locals
<1> QED
  BY <1>2, <1>3, <1>4, AloneKeeps

(* A publication that finds its document in place keeps the invariant.     *)
LEMMA ResolveSameKeeps ==
    ASSUME IInv, NEW c \in Calls, ResolveSame(c)
    PROVE  IInv'
<1>1. Op(c) \in {"publish", "update"} /\ pc[c] = "resolve"
  BY DEF ResolveSame, Publishing
<1>2. Tip(c) # Absent
  BY DEF ResolveSame, Carries, Present
<1>3. /\ job' = [job EXCEPT ![c].commit = Tip(c), ![c].batch = NoEdits]
      /\ Goto(c, "index") /\ UNCHANGED <<refs, clock>>
  BY DEF ResolveSame
<1> QED
  BY <1>1, <1>2, <1>3, CallFacts, NoEditsFacts, SettleKeeps

(* A call with one edit of its entity ref pending.                         *)
LEMMA OneEditKeeps ==
    ASSUME IInv, NEW c \in Calls, NEW commit \in History, NEW expected \in History,
           Op(c) # "rebuild",
           pc[c] \notin {"idle", "mint"},
           job' = [job EXCEPT ![c].commit = commit,
                              ![c].batch = WithEdit(NoEdits, job[c].name,
                                                    Edit(expected, commit))],
           Goto(c, "index"), UNCHANGED <<refs, clock>>,
           MovesAt(job[c].name, expected, commit),
           Op(c) # "remove" => commit # Absent,
           Op(c) = "anonymous" => commit = job[c].commit
    PROVE  IInv'
<1>1. PICK batch : batch = WithEdit(NoEdits, job[c].name, Edit(expected, commit))
  OBVIOUS
<1>2. /\ DOMAIN batch = {job[c].name}
      /\ batch[job[c].name].expected = expected
      /\ batch[job[c].name].new = commit
  BY <1>1, NoEditsFacts DEF WithEdit, Edit
<1>3. job' = [job EXCEPT ![c].commit = commit, ![c].batch = batch]
  BY <1>1
<1>4. MovesAt(job[c].name, batch[job[c].name].expected, batch[job[c].name].new)
  BY <1>2
<1>5. {batch[job[c].name].expected, batch[job[c].name].new} \subseteq History
  BY <1>2
<1>6. DOMAIN batch \subseteq {job[c].name}
  BY <1>2
<1> QED
  BY <1>3, <1>4, <1>5, <1>6, SettleKeeps

(* A publication that builds the next commit keeps the invariant: the      *)
(* batch moves the tip it was built on.                                    *)
LEMMA ResolveNextKeeps ==
    ASSUME IInv, NEW c \in Calls, ResolveNext(c)
    PROVE  IInv'
<1> DEFINE entry == LiveEntry(job[c].doc, clock)
           commit == WriteCommit(entry, ParentOf(c))
           n == job[c].name
<1>1. /\ Op(c) \in {"publish", "update"} /\ pc[c] = "resolve"
      /\ ~Carries(Tip(c), job[c].doc)
      /\ job' = [job EXCEPT ![c].commit = commit,
                            ![c].batch = WithEdit(NoEdits, n, Edit(Tip(c), commit))]
      /\ Goto(c, "index") /\ UNCHANGED <<refs, clock>>
  BY DEF ResolveNext, Publishing
<1>2. entry \in Entry /\ ~entry.dead /\ entry.doc = job[c].doc
  BY CallFacts, EntryFacts DEF IsJob
<1>3. ParentOf(c) \in History
  BY CallFacts DEF ParentOf, IsJob
<1>4. /\ commit \in History /\ commit # Absent
      /\ Last(commit) = entry /\ Front(commit) = ParentOf(c)
  BY <1>2, <1>3, WriteCommitFacts
<1> HIDE DEF entry, commit
<1>5. MovesAt(n, Tip(c), commit)
  <2>1. CASE job[c].parent = Absent
    <3>1. Publishes(Tip(c), commit)
      BY <1>1, <1>2, <1>4, <2>1 DEF Publishes, Present, ParentOf
    <3> QED
      BY <1>4, <3>1 DEF MovesAt, Moves
  <2>2. CASE job[c].parent # Absent
    <3>1. Regrafts(Tip(c), commit)
      BY <1>1, <1>2, <1>4, <2>2, CallFacts DEF Regrafts, Present, ParentOf, CallOK
    <3>2. n \in GraftedNames
      BY <1>1, <2>2, CallFacts DEF CallOK, GraftedNames
    <3> QED
      BY <1>4, <3>1, <3>2 DEF MovesAt, Moves
  <2> QED
    BY <2>1, <2>2
<1> QED
  BY <1>1, <1>4, <1>5, CallFacts, OneEditKeeps

(* A deletion of a live tip keeps the invariant: the tombstone names it.   *)
LEMMA DeleteLiveKeeps ==
    ASSUME IInv, NEW c \in Calls, DeleteLive(c)
    PROVE  IInv'
<1> DEFINE entry == TombstoneOfTip(c)
           commit == WriteCommit(entry, Tip(c))
           n == job[c].name
<1>1. /\ Op(c) = "delete" /\ pc[c] = "resolve" /\ Present(Tip(c))
      /\ job' = [job EXCEPT ![c].commit = commit,
                            ![c].batch = WithEdit(NoEdits, n, Edit(Tip(c), commit))]
      /\ Goto(c, "index") /\ UNCHANGED <<refs, clock>>
  BY DEF DeleteLive, At
<1>2. Tip(c) \in History /\ Tip(c) # Absent
  BY <1>1, CallFacts DEF Present
<1>3. entry \in Entry /\ entry.dead /\ entry.doc = Last(Tip(c)).doc
  <2>1. Last(Tip(c)) \in Entry
    BY <1>2, FrontFacts
  <2>2. Last(Tip(c)).doc \in Docs
    BY <2>1 DEF Entry
  <2> QED
    BY <2>2, CallFacts, EntryFacts DEF TombstoneOfTip
<1>4. /\ commit \in History /\ commit # Absent
      /\ Last(commit) = entry /\ Front(commit) = Tip(c)
  BY <1>2, <1>3, WriteCommitFacts
<1> HIDE DEF entry, commit
<1>5. Tombstones(Tip(c), commit)
  BY <1>1, <1>3, <1>4 DEF Tombstones, Deleted
<1>6. MovesAt(n, Tip(c), commit)
  BY <1>4, <1>5 DEF MovesAt, Moves
<1> QED
  BY <1>1, <1>2, <1>4, <1>6, OneEditKeeps

(* Pruning a name keeps the invariant.                                     *)
LEMMA RemovePresentKeeps ==
    ASSUME IInv, NEW c \in Calls, RemovePresent(c)
    PROVE  IInv'
<1> DEFINE n == job[c].name
<1>1. /\ Op(c) = "remove" /\ pc[c] = "resolve" /\ Tip(c) # Absent
      /\ job' = [job EXCEPT ![c].commit = Absent,
                            ![c].batch = WithEdit(NoEdits, n, Edit(Tip(c), Absent))]
      /\ Goto(c, "index") /\ UNCHANGED <<refs, clock>>
  BY DEF RemovePresent, At
<1>2. n \in PrunedNames
  BY <1>1, CallFacts DEF CallOK, PrunedNames
<1>3. MovesAt(n, Tip(c), Absent)
  BY <1>1, <1>2, AbsentTombstones DEF MovesAt, Moves, Prunes
<1> QED
  BY <1>1, <1>3, AbsentTombstones, CallFacts, OneEditKeeps

(* Writing the commit of an anonymous publication keeps the invariant.     *)
LEMMA AnonymousMintKeeps ==
    ASSUME IInv, NEW c \in Calls, AnonymousMint(c)
    PROVE  IInv'
<1> USE DEF Labels, Working, Returned
<1> DEFINE entry == LiveEntry(job[c].doc, clock)
           commit == WriteCommit(entry, Absent)
           name == CommitName[<<job[c].doc, clock>>]
<1>1. /\ Op(c) = "anonymous" /\ pc[c] = "mint"
      /\ job' = [job EXCEPT ![c].commit = commit, ![c].name = name]
      /\ refs' = refs /\ clock' = clock
      /\ pc' = [pc EXCEPT ![c] = "check"]
  BY DEF AnonymousMint, At, Goto
<1>2. name \in Names
  BY CallFacts, CommitNameAssumption DEF IsJob
<1>3. entry \in Entry /\ ~entry.dead
  BY CallFacts, EntryFacts DEF IsJob
<1>4. commit \in History /\ Last(commit) = entry /\ Front(commit) = Absent /\ commit # Absent
  BY <1>3, AbsentTombstones, WriteCommitFacts
<1>5. Publishes(Absent, commit)
  BY <1>3, <1>4 DEF Publishes, Carries, Present
<1>6. /\ DOMAIN job'[c] = Locals
      /\ job'[c].commit = commit /\ job'[c].name = name
      /\ \A x \in Locals \ {"commit", "name"} : job'[c][x] = job[c][x]
  BY <1>1, CallFacts DEF IInv, TypeOK, IsJob, Locals
<1> HIDE DEF entry, commit, name
<1>7. Alone(c) /\ pc'[c] = "check"
  BY <1>1 DEF IInv, TypeOK, Alone
<1>8. /\ job'[c].index = Absent /\ job'[c].entries = Absent
      /\ job'[c].batch = NoEdits
  BY <1>1, <1>6, CallFacts DEF CallOK, Locals
<1>9. IsJob(job'[c])
  <2>1. IsBatch(name, NoEdits)
    BY <1>2, KindFacts, NoEditsFacts DEF IsBatch
  <2>2. IsIndexTree(KindOf[name], Absent)
    BY AbsentIsIndexTree
  <2>3. IsJob(job[c])
    BY CallFacts
  <2> QED
    BY <1>2, <1>4, <1>6, <1>8, <2>1, <2>2, <2>3 DEF IsJob, Locals
<1>10. CallOK(c, job'[c], pc'[c])
  BY <1>1, <1>5, <1>6, <1>7, <1>8, NoEditsFacts, CallFacts DEF CallOK, Locals
<1> QED
  BY <1>7, <1>9, <1>10, AloneKeeps

(* Preparing to create the ref named after it keeps the invariant.         *)
LEMMA AnonymousCreateKeeps ==
    ASSUME IInv, NEW c \in Calls, AnonymousCreate(c)
    PROVE  IInv'
<1> DEFINE n == job[c].name
<1>1. /\ Op(c) = "anonymous" /\ pc[c] = "check"
      /\ job' = [job EXCEPT ![c].batch =
                     WithEdit(NoEdits, n, Edit(Absent, job[c].commit))]
      /\ Goto(c, "index") /\ UNCHANGED <<refs, clock>>
  BY DEF AnonymousCreate, At
<1>2. Publishes(Absent, job[c].commit)
  BY <1>1, CallFacts DEF CallOK
<1>3. job[c].commit \in History /\ job[c].commit # Absent
  BY <1>2, CallFacts DEF IsJob, Publishes, Present
<1>4. MovesAt(n, Absent, job[c].commit)
  BY <1>2, <1>3 DEF MovesAt, Moves
<1>5. job' = [job EXCEPT ![c].commit = job[c].commit,
                         ![c].batch = WithEdit(NoEdits, n, Edit(Absent, job[c].commit))]
  <2>1. /\ DOMAIN job[c] = Locals /\ DOMAIN job = Calls
    BY CallFacts DEF IsJob, IInv, TypeOK
  <2> QED
    BY <1>1, <2>1 DEF Locals
<1> QED
  BY <1>1, <1>3, <1>4, <1>5, AbsentTombstones, OneEditKeeps

(* Reading the index ref keeps the invariant.                              *)
LEMMA ReadIndexKeeps ==
    ASSUME IInv, NEW c \in Calls, ReadIndex(c)
    PROVE  IInv'
<1> USE DEF Labels, Working, Returned
<1> DEFINE tree == refs[IndexRef(c)]
<1>1. /\ pc[c] = "index" /\ job' = [job EXCEPT ![c].index = tree]
      /\ refs' = refs /\ clock' = clock
      /\ pc' = [pc EXCEPT ![c] = "source"]
  BY DEF ReadIndex, Goto
<1>2. /\ DOMAIN job'[c] = Locals /\ job'[c].index = tree
      /\ \A x \in Locals \ {"index"} : job'[c][x] = job[c][x]
  BY <1>1, CallFacts DEF IInv, TypeOK, IsJob, Locals
<1>3. IsIndexTree(KindOf[job[c].name], tree)
  BY CallFacts DEF IInv, TypeOK
<1> HIDE DEF tree
<1>4. Alone(c) /\ pc'[c] = "source"
  BY <1>1 DEF IInv, TypeOK, Alone
<1>5. IsJob(job'[c])
  BY <1>2, <1>3, CallFacts DEF IsJob, Locals
<1>6. CallOK(c, job'[c], pc'[c])
  BY <1>1, <1>2, <1>4, CallFacts DEF CallOK, Locals
<1> QED
  BY <1>4, <1>5, <1>6, AloneKeeps

(* The index a call is about to write is an index of its kind.             *)
LEMMA NextEntriesFacts ==
    ASSUME IInv, NEW c \in Calls, pc[c] = "source"
    PROVE  IsIndexTree(IndexRef(c), NextEntries(c))
<1>1. IsIndexTree(IndexRef(c), SourceEntries(IndexRef(c)))
  BY SourceIsIndexTree DEF IInv
<1>2. CASE Op(c) = "remove"
  BY <1>1, <1>2, WithoutIsIndexTree DEF NextEntries
<1>3. CASE Op(c) # "remove"
  <2>1. job[c].commit \in History /\ job[c].commit # Absent
    BY <1>3, CallFacts DEF CallOK, IsJob
  <2>2. CASE Op(c) = "anonymous"
    BY <1>1, <2>1, <2>2, CallFacts, PushedIsIndexTree DEF NextEntries
  <2>3. CASE Op(c) # "anonymous"
    BY <1>1, <1>3, <2>1, <2>3, CallFacts, OverlayIsIndexTree DEF NextEntries
  <2> QED
    BY <2>2, <2>3
<1> QED
  BY <1>2, <1>3

(* Adding the index edit to the batch leaves its entity edit as it was.    *)
LEMMA ReadSourceKeeps ==
    ASSUME IInv, NEW c \in Calls, ReadSource(c)
    PROVE  IInv'
<1> USE DEF Labels, Working, Returned
<1> DEFINE n == job[c].name
<1>1. PICK batch :
          batch = WithIndexEdit(job[c].batch, IndexRef(c), job[c].index, NextEntries(c))
  OBVIOUS
<1>2. /\ pc[c] = "source"
      /\ job' = [job EXCEPT ![c].batch = batch, ![c].index = Absent]
      /\ refs' = refs /\ clock' = clock
      /\ pc' = [pc EXCEPT ![c] = IF DOMAIN batch = {} THEN "ok" ELSE "apply"]
  BY <1>1 DEF ReadSource, Goto
<1>3. /\ DOMAIN batch \subseteq {n, KindOf[n]}
      /\ n \in DOMAIN batch <=> n \in DOMAIN job[c].batch
      /\ n \in DOMAIN batch => batch[n] = job[c].batch[n]
      /\ KindOf[n] \in DOMAIN batch => batch[KindOf[n]].new = NextEntries(c)
  <2>1. n \in Names /\ IndexRef(c) = KindOf[n]
    BY CallFacts
  <2>2. DOMAIN job[c].batch \subseteq {n}
    BY <1>2, CallFacts DEF CallOK
  <2> QED
    BY <1>1, <2>1, <2>2, KindFacts DEF WithIndexEdit, WithEdit, Edit
<1>4. /\ DOMAIN job'[c] = Locals
      /\ job'[c].batch = batch /\ job'[c].index = Absent
      /\ \A x \in Locals \ {"batch", "index"} : job'[c][x] = job[c][x]
  BY <1>2, CallFacts DEF IInv, TypeOK, IsJob, Locals
<1>5. Alone(c) /\ pc'[c] \in {"ok", "apply"}
  BY <1>2 DEF IInv, TypeOK, Alone
<1>6. IsBatch(n, batch)
  <2>1. IsBatch(n, job[c].batch)
    BY CallFacts DEF IsJob
  <2>2. IsIndexTree(KindOf[n], NextEntries(c))
    BY <1>2, CallFacts, NextEntriesFacts
  <2> QED
    BY <1>3, <2>1, <2>2 DEF IsBatch
<1>7. IsJob(job'[c])
  <2>1. IsJob(job[c])
    BY CallFacts
  <2> QED
    BY <1>4, <1>6, <2>1, AbsentIsIndexTree DEF IsJob, Locals
<1>8. CallOK(c, job'[c], pc'[c])
  <2>1. CallOK(c, job[c], pc[c]) /\ pc[c] \notin {"idle", "mint"}
    BY <1>2, CallFacts
  <2>2. /\ job'[c].name = n /\ job'[c].parent = job[c].parent
        /\ job'[c].commit = job[c].commit /\ job'[c].batch = batch
    BY <1>4 DEF Locals
  <2> QED
    BY <1>3, <1>5, <2>1, <2>2 DEF CallOK
<1> QED
  BY <1>5, <1>7, <1>8, AloneKeeps

(* Listing the entity refs for a rebuild keeps the invariant,              *)
LEMMA RebuildScanKeeps ==
    ASSUME IInv, NEW c \in Calls, RebuildScan(c)
    PROVE  IInv'
<1> USE DEF Labels, Working, Returned
<1> DEFINE tree == SourceEntries(IndexRef(c))
<1>1. /\ Op(c) = "rebuild" /\ pc[c] = "scan"
      /\ job' = [job EXCEPT ![c].entries = tree]
      /\ refs' = refs /\ clock' = clock
      /\ pc' = [pc EXCEPT ![c] = "swap"]
  BY DEF RebuildScan, At, Goto
<1>2. IsIndexTree(KindOf[job[c].name], tree)
  BY CallFacts, SourceIsIndexTree DEF IInv
<1> HIDE DEF tree
<1>3. /\ DOMAIN job'[c] = Locals /\ job'[c].entries = tree
      /\ \A x \in Locals \ {"entries"} : job'[c][x] = job[c][x]
  BY <1>1, CallFacts DEF IInv, TypeOK, IsJob, Locals
<1>4. Alone(c) /\ pc'[c] = "swap"
  BY <1>1 DEF IInv, TypeOK, Alone
<1>5. IsJob(job'[c])
  BY <1>2, <1>3, CallFacts DEF IsJob, Locals
<1>6. CallOK(c, job'[c], pc'[c])
  BY <1>1, <1>3, <1>4, CallFacts DEF CallOK, Locals
<1> QED
  BY <1>4, <1>5, <1>6, AloneKeeps

(* and so does preparing the rebuilt index.                                *)
LEMMA RebuildSwapKeeps ==
    ASSUME IInv, NEW c \in Calls, RebuildSwap(c)
    PROVE  IInv'
<1> USE DEF Labels, Working, Returned
<1> DEFINE n == job[c].name
           whole == WithEdit(NoEdits, IndexRef(c), Edit(refs[IndexRef(c)], job[c].entries))
<1>1. PICK batch \in {whole, NoEdits} :
          /\ Op(c) = "rebuild"
          /\ job' = [job EXCEPT ![c].entries = Absent, ![c].batch = batch]
          /\ \E l \in {"ok", "apply"} : pc' = [pc EXCEPT ![c] = l]
  BY DEF RebuildSwap, At, Goto
<1>2. refs' = refs /\ clock' = clock
  BY DEF RebuildSwap
<1>3. /\ DOMAIN batch \subseteq {KindOf[n]}
      /\ KindOf[n] \in DOMAIN batch => batch[KindOf[n]].new = job[c].entries
  BY <1>1, CallFacts, NoEditsFacts DEF WithEdit, Edit
<1> HIDE DEF whole
<1>4. /\ DOMAIN job'[c] = Locals
      /\ job'[c].entries = Absent /\ job'[c].batch = batch
      /\ \A x \in Locals \ {"entries", "batch"} : job'[c][x] = job[c][x]
  <2>1. DOMAIN job = Calls /\ DOMAIN job[c] = Locals
    BY DEF IInv, TypeOK, IsJob
  <2>2. job'[c] = [[job[c] EXCEPT !.entries = Absent] EXCEPT !.batch = batch]
    BY <1>1, <2>1
  <2> QED
    BY <2>1, <2>2 DEF Locals
<1>5. Alone(c) /\ pc'[c] \in {"ok", "apply"}
  BY <1>1, <1>2 DEF IInv, TypeOK, Alone
<1>6. IsJob(job'[c])
  <2>1. IsJob(job[c]) /\ n \in Names /\ KindOf[n] # n
    BY CallFacts, KindFacts
  <2>2. IsBatch(n, batch)
    BY <1>3, <2>1 DEF IsBatch, IsJob
  <2> QED
    BY <1>4, <2>1, <2>2, AbsentIsIndexTree DEF IsJob, Locals
<1>7. CallOK(c, job'[c], pc'[c])
  <2>1. KindOf[n] # n
    BY CallFacts, KindFacts
  <2>2. /\ job'[c].name = n /\ job'[c].parent = job[c].parent
        /\ n \notin DOMAIN job'[c].batch
    BY <1>3, <1>4, <2>1 DEF Locals
  <2>3. CallOK(c, job[c], pc[c])
    BY CallFacts
  <2> QED
    BY <1>1, <1>5, <2>2, <2>3 DEF CallOK
<1> QED
  BY <1>5, <1>6, <1>7, AloneKeeps

(* Losing a race keeps the invariant.                                      *)
LEMMA ApplyLosesKeeps ==
    ASSUME IInv, NEW c \in Calls, ApplyLoses(c) \/ ApplyFails(c)
    PROVE  IInv'
<1> USE DEF Labels, Working, Returned
<1>1. /\ pc[c] = "apply" /\ job' = [job EXCEPT ![c].batch = NoEdits]
      /\ refs' = refs /\ clock' = clock
      /\ \E l \in {"stale", "failed", "resolve", "scan", "check"} : pc' = [pc EXCEPT ![c] = l]
  <2>1. Op(c) \in Ops
    BY CallFacts DEF Requests, Op
  <2>2. RetryStep[Op(c)] \in {"resolve", "scan", "check"}
    BY <2>1 DEF RetryStep, Ops
  <2> QED
    BY <2>2 DEF ApplyLoses, ApplyFails, Goto
<1>2. /\ DOMAIN job'[c] = Locals /\ job'[c].batch = NoEdits
      /\ \A x \in Locals \ {"batch"} : job'[c][x] = job[c][x]
  BY <1>1, CallFacts DEF IInv, TypeOK, IsJob, Locals
<1>3. Alone(c) /\ pc'[c] \in {"stale", "failed", "resolve", "scan", "check"}
  BY <1>1 DEF IInv, TypeOK, Alone
<1>4. IsJob(job'[c])
  <2>1. IsJob(job[c])
    BY CallFacts
  <2>2. IsBatch(job[c].name, NoEdits)
    BY NoEditsFacts DEF IsBatch
  <2> QED
    BY <1>2, <2>1, <2>2 DEF IsJob, Locals
<1>5. CallOK(c, job'[c], pc'[c])
  BY <1>1, <1>2, <1>3, NoEditsFacts, CallFacts DEF CallOK, Locals
<1> QED
  BY <1>3, <1>4, <1>5, AloneKeeps

-----------------------------------------------------------------------------
(* The step that moves refs *)

(* A batch that lands moves at most the entity ref of its call, by the     *)
(* move it was built for, and at most the index ref of its kind, to the    *)
(* tree it was built with.                                                 *)
LEMMA ApplyMoves ==
    ASSUME IInv, NEW c \in Calls, ApplyWins(c)
    PROVE  LET n == job[c].name
               k == KindOf[n]
               batch == job[c].batch
           IN
           /\ DOMAIN refs' = Names \cup Kinds
           /\ \A m \in Names : m # n => refs'[m] = refs[m]
           /\ n \notin DOMAIN batch => refs'[n] = refs[n]
           /\ n \in DOMAIN batch => /\ refs'[n] = batch[n].new
                                    /\ MovesAt(n, refs[n], refs'[n])
           /\ \A q \in Kinds : q # k => refs'[q] = refs[q]
           /\ k \notin DOMAIN batch => refs'[k] = refs[k]
           /\ k \in DOMAIN batch => refs'[k] = batch[k].new
<1> DEFINE n == job[c].name
           k == KindOf[n]
           batch == job[c].batch
<1>1. n \in Names /\ k \in Kinds /\ k \notin Names /\ Names \cap Kinds = {}
  BY CallFacts, RefsAssumption
<1>2. DOMAIN batch \subseteq {n, k}
  BY CallFacts DEF IsJob, IsBatch
<1>3. n \in DOMAIN batch => MovesAt(n, batch[n].expected, batch[n].new)
  BY CallFacts DEF CallOK
<1>4. \A r \in DOMAIN batch : refs[r] = batch[r].expected
  BY DEF ApplyWins, ExpectationsHold
<1>5. refs' = [r \in Names \cup Kinds |-> IF r \in DOMAIN batch THEN batch[r].new ELSE refs[r]]
  BY DEF ApplyWins, Landed, IInv, TypeOK
<1> HIDE DEF batch
<1>6. n \in DOMAIN batch => refs'[n] = batch[n].new /\ MovesAt(n, refs[n], refs'[n])
  BY <1>1, <1>3, <1>4, <1>5
<1>7. /\ \A m \in Names : m # n => refs'[m] = refs[m]
      /\ n \notin DOMAIN batch => refs'[n] = refs[n]
      /\ \A q \in Kinds : q # k => refs'[q] = refs[q]
      /\ k \notin DOMAIN batch => refs'[k] = refs[k]
      /\ k \in DOMAIN batch => refs'[k] = batch[k].new
  BY <1>1, <1>2, <1>5
<1> QED
  BY <1>5, <1>6, <1>7 DEF batch

(* Winning keeps the invariant: the entity ref makes a legal move and the  *)
(* index ref gets an index tree.                                           *)
LEMMA ApplyWinsKeeps ==
    ASSUME IInv, NEW c \in Calls, ApplyWins(c)
    PROVE  IInv'
<1> USE DEF Labels, Working, Returned
<1> DEFINE n == job[c].name
           k == KindOf[n]
<1>1. /\ pc[c] = "apply" /\ job' = [job EXCEPT ![c].batch = NoEdits]
      /\ clock' = clock
      /\ pc' = [pc EXCEPT ![c] = "ok"]
  BY DEF ApplyWins, Goto
<1>2. /\ DOMAIN job'[c] = Locals /\ job'[c].batch = NoEdits
      /\ \A x \in Locals \ {"batch"} : job'[c][x] = job[c][x]
  BY <1>1, CallFacts DEF IInv, TypeOK, IsJob, Locals
<1>3. /\ DOMAIN job' = Calls /\ pc' \in [Calls -> Labels] /\ pc'[c] = "ok"
      /\ \A d \in Calls : d # c => job'[d] = job[d] /\ pc'[d] = pc[d]
  BY <1>1 DEF IInv, TypeOK
<1>4. \A m \in Names : refs'[m] \in History /\ TombstonesName(refs'[m])
  <2>1. TAKE m \in Names
  <2>2. refs[m] \in History /\ TombstonesName(refs[m])
    BY DEF IInv, TypeOK, TipsOK
  <2>3. CASE refs'[m] = refs[m]
    BY <2>2, <2>3
  <2>4. CASE MovesAt(m, refs[m], refs'[m])
    BY <2>2, <2>4, MoveKeepsTombstones DEF MovesAt
  <2> QED
    BY <2>3, <2>4, ApplyMoves
<1>5. \A q \in Kinds : IsIndexTree(q, refs'[q])
  <2>1. TAKE q \in Kinds
  <2>2. IsIndexTree(q, refs[q])
    BY DEF IInv, TypeOK
  <2>3. k \in DOMAIN job[c].batch => IsIndexTree(k, job[c].batch[k].new)
    BY CallFacts DEF IsJob, IsBatch
  <2>4. CASE q # k
    BY <2>2, <2>4, ApplyMoves
  <2>5. CASE q = k /\ k \notin DOMAIN job[c].batch
    BY <2>2, <2>5, ApplyMoves
  <2>6. CASE q = k /\ k \in DOMAIN job[c].batch
    BY <2>3, <2>6, ApplyMoves
  <2> QED
    BY <2>4, <2>5, <2>6
<1>6. IsJob(job'[c])
  <2>1. IsJob(job[c])
    BY CallFacts
  <2>2. IsBatch(n, NoEdits)
    BY NoEditsFacts DEF IsBatch
  <2> QED
    BY <1>2, <2>1, <2>2 DEF IsJob, Locals
<1>7. CallOK(c, job'[c], pc'[c])
  BY <1>1, <1>2, <1>3, NoEditsFacts, CallFacts DEF CallOK, Locals
<1>8. TypeOK'
  <2>1. \A d \in Calls : IsJob(job'[d])
    BY <1>3, <1>6 DEF IInv, TypeOK
  <2>2. DOMAIN refs' = Names \cup Kinds
    BY ApplyMoves
  <2>3. clock' \in Times
    BY <1>1 DEF IInv, TypeOK
  <2> QED
    BY <1>3, <1>4, <1>5, <2>1, <2>2, <2>3 DEF TypeOK
<1>9. TipsOK'
  BY <1>4 DEF TipsOK
<1>10. \A d \in Calls : CallOK(d, job'[d], pc'[d])
  BY <1>3, <1>7 DEF IInv
<1>11. (\A d \in Calls : CallOK(d, job[d], pc[d]))'
  BY <1>10
<1> QED
  BY <1>8, <1>9, <1>11 DEF IInv

-----------------------------------------------------------------------------
(* The invariant *)

(* The invariant holds before any call.                                    *)
LEMMA InvInit == Init => IInv
<1> SUFFICES ASSUME Init
             PROVE  IInv
  OBVIOUS
<1> USE DEF Init
<1>1. \A c \in Calls : IsJob(job[c]) /\ CallOK(c, job[c], pc[c])
  <2>1. TAKE c \in Calls
  <2>2. job[c] = [name |-> Request[c].name, doc |-> Request[c].doc,
                  expect |-> Absent, parent |-> Absent, base |-> Absent,
                  commit |-> Absent, index |-> Absent, entries |-> Absent,
                  batch |-> NoEdits]
    OBVIOUS
  <2>3. Request[c].name \in Names /\ Request[c].doc \in Docs
    BY RequestAssumption DEF Requests
  <2>4. IsBatch(Request[c].name, NoEdits)
    BY NoEditsFacts DEF IsBatch
  <2>5. IsJob(job[c])
    BY <2>2, <2>3, <2>4, AbsentTombstones, AbsentIsIndexTree DEF IsJob, Locals
  <2>6. CallOK(c, job[c], "idle")
    BY <2>2, NoEditsFacts, AbsentTombstones DEF CallOK
  <2> QED
    BY <2>5, <2>6
<1>2. TypeOK
  <2>1. \A k \in Kinds : IsIndexTree(k, refs[k])
    BY AbsentIsIndexTree
  <2>2. clock \in Times
    BY TimeAssumption DEF Times
  <2> QED
    BY <1>1, <2>1, <2>2, AbsentTombstones DEF TypeOK
<1>3. TipsOK
  BY AbsentTombstones DEF TipsOK
<1> QED
  BY <1>1, <1>2, <1>3 DEF IInv

(* The passing of time keeps the invariant.                                *)
LEMMA UnchangedKeeps ==
    ASSUME IInv, UNCHANGED <<refs, pc, job>>, clock' \in Times
    PROVE  IInv'
<1>1. TypeOK'
  BY DEF IInv, TypeOK
<1>2. TipsOK'
  BY DEF IInv, TipsOK
<1>3. (\A c \in Calls : CallOK(c, job[c], pc[c]))'
  BY DEF IInv
<1> QED
  BY <1>1, <1>2, <1>3 DEF IInv

(* Every step keeps the invariant.                                         *)
LEMMA InvNext == IInv /\ [Next]_vars => IInv'
<1> SUFFICES ASSUME IInv, [Next]_vars
             PROVE  IInv'
  OBVIOUS
<1>1. ASSUME NEW c \in Calls, Start(c)
      PROVE  IInv'
  BY <1>1, StartKeeps
<1>2. ASSUME NEW c \in Calls, Step(c)
      PROVE  IInv'
  <2>1. CASE UpdateRead(c) \/ UpdateExpect(c)
    BY <2>1, UpdateReadKeeps, UpdateExpectKeeps
  <2>2. CASE \/ ResolveStale(c)
             \/ DeleteAbsent(c) \/ DeleteRepeated(c) \/ RemoveAbsent(c)
             \/ AnonymousThere(c)
    BY <2>2, AnswerKeeps
  <2>3. CASE ResolveSame(c) \/ ResolveNext(c)
    BY <2>3, ResolveSameKeeps, ResolveNextKeeps
  <2>4. CASE DeleteLive(c) \/ RemovePresent(c)
    BY <2>4, DeleteLiveKeeps, RemovePresentKeeps
  <2>5. CASE AnonymousMint(c) \/ AnonymousCreate(c)
    BY <2>5, AnonymousMintKeeps, AnonymousCreateKeeps
  <2>6. CASE ReadIndex(c) \/ ReadSource(c)
    BY <2>6, ReadIndexKeeps, ReadSourceKeeps
  <2>7. CASE RebuildScan(c) \/ RebuildSwap(c)
    BY <2>7, RebuildScanKeeps, RebuildSwapKeeps
  <2>8. CASE ApplyWins(c) \/ ApplyLoses(c) \/ ApplyFails(c)
    BY <2>8, ApplyWinsKeeps, ApplyLosesKeeps
  <2> QED
    BY <1>2, <2>1, <2>2, <2>3, <2>4, <2>5, <2>6, <2>7, <2>8 DEF Step
<1>3. CASE Tick
  BY <1>3, UnchangedKeeps DEF Tick
<1>4. CASE Finished \/ UNCHANGED vars
  <2>1. UNCHANGED <<refs, pc, job>> /\ clock' \in Times
    BY <1>4 DEF Finished, vars, IInv, TypeOK
  <2> QED
    BY <2>1, UnchangedKeeps
<1> QED
  BY <1>1, <1>2, <1>3, <1>4 DEF Next

(* Whatever the calls interleave, each is where its code could be, and     *)
(* every batch in flight is a legal move of the tip it expects.            *)
THEOREM Invariant == Spec => []IInv
BY InvInit, InvNext, PTL DEF Spec

(* Every variable keeps its type, whatever the calls and however they      *)
(* interleave; an index ref never lists a name of another kind (index.rs). *)
THEOREM TypeCorrect == Spec => []TypeOK
BY Invariant, PTL DEF IInv

(* At every entity ref, every tombstone names the live document it lies    *)
(* on, under any interleaving of publications, deletions and prunings      *)
(* (kind.rs, delete_name).                                                 *)
THEOREM TombstonesNameTheirDocument ==
    Spec => [](\A n \in Names : TombstonesName(refs[n]))
BY Invariant, PTL DEF IInv, TipsOK

-----------------------------------------------------------------------------
(* The refinement *)

(* Refs move only when a batch is applied.                                 *)
LEMMA OnlyApplyMovesRefs ==
    ASSUME [Next]_vars
    PROVE  UNCHANGED refs \/ \E c \in Calls : ApplyWins(c)
<1>1. CASE UNCHANGED vars \/ Tick \/ Finished
  BY <1>1 DEF vars, Tick, Finished
<1>2. ASSUME NEW c \in Calls, Start(c)
      PROVE  UNCHANGED refs
  BY <1>2 DEF Start
<1>3. ASSUME NEW c \in Calls, Step(c)
      PROVE  UNCHANGED refs \/ ApplyWins(c)
  BY <1>3 DEF Step, UpdateRead, UpdateExpect, ResolveStale, ResolveSame,
              ResolveNext, DeleteAbsent, DeleteRepeated, DeleteLive,
              RemoveAbsent, RemovePresent, AnonymousMint, AnonymousThere,
              AnonymousCreate, ReadIndex, ReadSource, RebuildScan,
              RebuildSwap, ApplyLoses, ApplyFails
<1> QED
  BY <1>1, <1>2, <1>3 DEF Next

(* The moves of the log are the moves the calls make.                      *)
LEMMA SameMoves ==
    ASSUME NEW n \in Names, NEW old, NEW new
    PROVE  MovesAt(n, old, new) <=>
               Log!Moves(old, new, n \in GraftedNames, n \in PrunedNames)
BY DEF MovesAt, Moves, Publishes, Tombstones, Regrafts, Prunes,
       Present, Deleted, Carries, TombstonesName, History, Entry, Times,
       Absent, Last, Front,
       Log!Moves, Log!Publishes, Log!Tombstones, Log!Regrafts, Log!Prunes,
       Log!Present, Log!Deleted, Log!Carries, Log!TombstonesName,
       Log!History, Log!Entry, Log!Times, Log!Absent, Log!Last, Log!Front

(* The entity refs start as an empty log.                                  *)
LEMMA LogStarts == Init => Log!Init
BY DEF Init, Log!Init, Log!Absent, Absent

(* Every step moves the log by at most one legal move.                     *)
LEMMA LogMoves ==
    IInv /\ [Next]_vars => [Log!Next]_[n \in Names |-> refs[n]]
<1> SUFFICES ASSUME IInv, [Next]_vars, ~ UNCHANGED [n \in Names |-> refs[n]]
             PROVE  Log!Next
  OBVIOUS
<1>1. PICK c \in Calls : ApplyWins(c)
  BY OnlyApplyMovesRefs
<1>2. PICK n \in Names :
        /\ n = job[c].name
        /\ \A m \in Names : m # n => refs'[m] = refs[m]
        /\ n \in DOMAIN job[c].batch => MovesAt(n, refs[n], refs'[n])
        /\ n \notin DOMAIN job[c].batch => refs'[n] = refs[n]
  BY <1>1, CallFacts, ApplyMoves
<1>3. n \in DOMAIN job[c].batch
  BY <1>2
<1>4. Log!Moves([m \in Names |-> refs[m]][n], [m \in Names |-> refs'[m]][n],
                n \in GraftedNames, n \in PrunedNames)
  <2>1. /\ [m \in Names |-> refs[m]][n] = refs[n]
        /\ [m \in Names |-> refs'[m]][n] = refs'[n]
    BY <1>2
  <2>2. MovesAt(n, [m \in Names |-> refs[m]][n], [m \in Names |-> refs'[m]][n])
    BY <1>2, <1>3, <2>1
  <2> QED
    BY <1>2, <2>2, SameMoves
<1>5. [m \in Names |-> refs'[m]]
          = [[m \in Names |-> refs[m]] EXCEPT ![n] = [m \in Names |-> refs'[m]][n]]
  BY <1>2
<1>6. Log!Move(n)
  BY <1>4, <1>5 DEF Log!Move
<1> QED
  BY <1>6 DEF Log!Next

(* The concurrent operations implement the branch log: every step of any   *)
(* interleaving moves no entity ref, or moves one as EntityLog allows      *)
(* (kind.rs: publish_document_checked, delete_name, remove).               *)
THEOREM Refinement == Spec => ImplementsLog
BY Invariant, LogStarts, LogMoves, PTL DEF Spec, ImplementsLog, Log!Spec

-----------------------------------------------------------------------------
(***************************************************************************)
(* What a caller was told stays true, and the index never runs ahead of    *)
(* the entity refs: AcknowledgedStaysReachable and IndexWithinHistory.     *)
(*                                                                         *)
(* A name nobody prunes or grafts only gains publications, so "its ref     *)
(* extends this commit" stays true once it is.  The commits a call holds   *)
(* become such prefixes in one of two ways: they were read from the ref,   *)
(* or they are the new value of the entity edit in the same batch, and so  *)
(* land with it (Held).                                                    *)
(***************************************************************************)

\* The commits of `tree` lie in the histories of their names.
WithinRefs(tree, r) ==
    \A m \in DOMAIN tree : m \in BranchNames =>
        \A i \in DOMAIN tree[m] : IsPrefix(tree[m][i], r[m])

\* The same, but the call's own row may still be on its way.
Held(j, tree, r) ==
    \A m \in DOMAIN tree : m \in BranchNames =>
        \A i \in DOMAIN tree[m] :
            \/ IsPrefix(tree[m][i], r[m])
            \/ m = j.name /\ m \in DOMAIN j.batch /\ j.batch[m].new = tree[m][i]

\* Call c, with locals j, publishes at a name that keeps its history.
Acknowledges(c, j) ==
    /\ Op(c) \in {"publish", "update", "delete", "anonymous"}
    /\ j.name \in BranchNames

HistoryOK(c, j, l, r) ==
    /\ Acknowledges(c, j) /\ l \in {"index", "source", "apply"} =>
           IF j.name \in DOMAIN j.batch THEN j.batch[j.name].new = j.commit
                                        ELSE IsPrefix(j.commit, r[j.name])
    /\ Acknowledges(c, j) /\ l = "ok" => IsPrefix(j.commit, r[j.name])
    /\ WithinRefs(j.entries, r)
    /\ KindOf[j.name] \in DOMAIN j.batch => Held(j, j.batch[KindOf[j.name]].new, r)

HInv ==
    /\ \A k \in Kinds : WithinRefs(refs[k], refs)
    /\ \A c \in Calls : HistoryOK(c, job[c], pc[c], refs)

-----------------------------------------------------------------------------
(* Histories only grow *)

(* A step leaves what a branch name pointed at in its history.             *)
LEMMA RefsGrow ==
    ASSUME IInv, [Next]_vars, NEW n \in BranchNames
    PROVE  /\ refs[n] \in History /\ refs'[n] \in History
           /\ IsPrefix(refs[n], refs'[n])
<1>1. n \in Names /\ n \notin GraftedNames /\ n \notin PrunedNames
  BY DEF BranchNames
<1>2. refs[n] \in History
  BY <1>1 DEF IInv, TypeOK
<1>3. CASE refs'[n] = refs[n]
  BY <1>2, <1>3, PrefixReflexive
<1>4. CASE MovesAt(n, refs[n], refs'[n])
  <2>1. Moves(refs[n], refs'[n], FALSE, FALSE)
    BY <1>1, <1>4 DEF MovesAt, Moves
  <2> QED
    BY <1>2, <2>1, MoveExtends
<1>5. refs'[n] = refs[n] \/ MovesAt(n, refs[n], refs'[n])
  <2>1. CASE UNCHANGED refs
    BY <2>1
  <2>2. ASSUME NEW c \in Calls, ApplyWins(c)
        PROVE  refs'[n] = refs[n] \/ MovesAt(n, refs[n], refs'[n])
    BY <1>1, <2>2, ApplyMoves
  <2> QED
    BY <2>1, <2>2, OnlyApplyMovesRefs
<1> QED
  BY <1>3, <1>4, <1>5

\* A step, of a call or of anybody else, after which every branch name still
\* has what it had.
BranchesGrow ==
    \A n \in BranchNames :
        refs[n] \in History /\ refs'[n] \in History /\ IsPrefix(refs[n], refs'[n])

(* Calls only make such steps.                                             *)
LEMMA CallsGrow == IInv /\ [Next]_vars => BranchesGrow
BY RefsGrow DEF BranchesGrow

(* So a commit that was in the history of a branch name stays there,       *)
LEMMA PrefixGrows ==
    ASSUME BranchesGrow, NEW n \in BranchNames, NEW h \in History,
           IsPrefix(h, refs[n])
    PROVE  IsPrefix(h, refs'[n])
BY PrefixTransitive DEF BranchesGrow

(* The rows of an index tree are commits,                                  *)
LEMMA RowsAreCommits ==
    ASSUME NEW k, NEW tree, IsIndexTree(k, tree), NEW m \in DOMAIN tree,
           NEW i \in DOMAIN tree[m]
    PROVE  tree[m][i] \in History
<1>1. tree[m] \in Seq(History \ {Absent})
  BY DEF IsIndexTree
<1> QED
  BY <1>1

(* an index tree within the histories stays within them,                   *)
LEMMA WithinGrows ==
    ASSUME BranchesGrow, NEW k, NEW tree, IsIndexTree(k, tree),
           WithinRefs(tree, refs)
    PROVE  WithinRefs(tree, refs')
BY PrefixGrows, RowsAreCommits DEF WithinRefs

(* and so does a tree a call holds, but for the commit it is about to      *)
(* write.                                                                  *)
LEMMA HeldGrows ==
    ASSUME BranchesGrow, NEW k, NEW tree, IsIndexTree(k, tree),
           NEW j, Held(j, tree, refs)
    PROVE  Held(j, tree, refs')
BY PrefixGrows, RowsAreCommits DEF Held

(* What holds of a call goes on holding while others step.                 *)
LEMMA BystanderKeeps ==
    ASSUME IInv, HInv, BranchesGrow, NEW c \in Calls
    PROVE  HistoryOK(c, job[c], pc[c], refs')
<1>1. HistoryOK(c, job[c], pc[c], refs)
  BY DEF HInv
<1>2. IsJob(job[c]) /\ job[c].name \in Names
  BY CallFacts
<1>3. job[c].commit \in History /\ IsIndexTree(KindOf[job[c].name], job[c].entries)
  BY <1>2 DEF IsJob
<1>4. Acknowledges(c, job[c]) /\ IsPrefix(job[c].commit, refs[job[c].name])
        => IsPrefix(job[c].commit, refs'[job[c].name])
  BY <1>3, PrefixGrows DEF Acknowledges
<1>5. WithinRefs(job[c].entries, refs')
  BY <1>1, <1>3, WithinGrows DEF HistoryOK
<1>6. KindOf[job[c].name] \in DOMAIN job[c].batch =>
          Held(job[c], job[c].batch[KindOf[job[c].name]].new, refs')
  BY <1>1, <1>2, HeldGrows DEF HistoryOK, IsJob, IsBatch
<1> QED
  BY <1>1, <1>4, <1>5, <1>6 DEF HistoryOK

-----------------------------------------------------------------------------
(* The step of the call itself *)

(* The shapes of the variables, for the steps below.                       *)
LEMMA Domains ==
    ASSUME IInv, NEW c \in Calls
    PROVE  /\ DOMAIN job = Calls /\ DOMAIN job[c] = Locals
           /\ pc \in [Calls -> Labels]
           /\ DOMAIN refs = Names \cup Kinds
BY CallFacts DEF IInv, TypeOK, IsJob, Labels

(* Steps that leave the commits the call holds alone.                      *)
LEMMA QuietKeeps ==
    ASSUME IInv, HInv, [Next]_vars, NEW c \in Calls,
           job'[c].name = job[c].name, job'[c].commit = job[c].commit,
           job'[c].batch = job[c].batch, job'[c].entries = job[c].entries,
           \/ pc'[c] \notin {"index", "source", "apply", "ok"}
           \/ pc[c] = "index" /\ pc'[c] = "source"
    PROVE  HistoryOK(c, job'[c], pc'[c], refs')
<1>1. HistoryOK(c, job[c], pc[c], refs')
  BY BystanderKeeps, CallsGrow
<1>2. Acknowledges(c, job'[c]) <=> Acknowledges(c, job[c])
  BY DEF Acknowledges
<1>3. \A tree : Held(job'[c], tree, refs') <=> Held(job[c], tree, refs')
  BY DEF Held
<1> QED
  BY <1>1, <1>2, <1>3 DEF HistoryOK

(* Starting, and the reads that only fill in locals.                       *)
LEMMA ReadingKeeps ==
    ASSUME IInv, HInv, [Next]_vars, NEW c \in Calls,
           \/ Start(c) \/ UpdateRead(c) \/ UpdateExpect(c) \/ ReadIndex(c)
    PROVE  HistoryOK(c, job'[c], pc'[c], refs')
<1> USE Domains DEF Locals
<1>1. CASE Start(c)
  <2>1. /\ job'[c].name = job[c].name /\ job'[c].commit = job[c].commit
        /\ job'[c].batch = job[c].batch /\ job'[c].entries = job[c].entries
    BY <1>1 DEF Start
  <2>2. pc'[c] \in {"resolve", "read", "scan", "mint"}
    <3>1. Op(c) \in Ops
      BY CallFacts DEF Requests, Op
    <3> QED
      BY <1>1, <3>1 DEF Start, Goto, FirstStep, Ops
  <2> QED
    BY <2>1, <2>2, QuietKeeps
<1>2. CASE UpdateRead(c)
  <2>1. /\ job'[c].name = job[c].name /\ job'[c].commit = job[c].commit
        /\ job'[c].batch = job[c].batch /\ job'[c].entries = job[c].entries
        /\ pc'[c] \in {"expect", "refused"}
    BY <1>2 DEF UpdateRead, Goto
  <2> QED
    BY <2>1, QuietKeeps
<1>3. CASE UpdateExpect(c)
  <2>1. /\ job'[c].name = job[c].name /\ job'[c].commit = job[c].commit
        /\ job'[c].batch = job[c].batch /\ job'[c].entries = job[c].entries
        /\ pc'[c] = "resolve"
    BY <1>3 DEF UpdateExpect, Goto
  <2> QED
    BY <2>1, QuietKeeps
<1>4. CASE ReadIndex(c)
  <2>1. /\ job'[c].name = job[c].name /\ job'[c].commit = job[c].commit
        /\ job'[c].batch = job[c].batch /\ job'[c].entries = job[c].entries
        /\ pc[c] = "index" /\ pc'[c] = "source"
    BY <1>4 DEF ReadIndex, Goto
  <2> QED
    BY <2>1, QuietKeeps
<1> QED
  BY <1>1, <1>2, <1>3, <1>4

(* The steps that return without writing, or start over.                   *)
LEMMA AnsweringKeeps ==
    ASSUME IInv, HInv, [Next]_vars, NEW c \in Calls,
           \/ ResolveStale(c)
           \/ DeleteAbsent(c) \/ DeleteRepeated(c) \/ RemoveAbsent(c)
           \/ AnonymousThere(c)
    PROVE  HistoryOK(c, job'[c], pc'[c], refs')
<1> USE Domains DEF Locals
<1>1. CASE ResolveStale(c) \/ DeleteAbsent(c) \/ DeleteRepeated(c) \/ RemoveAbsent(c)
  <2>1. job'[c] = job[c] /\ pc'[c] \in {"read", "stale", "absent", "deleted"}
    BY <1>1 DEF ResolveStale, DeleteAbsent, DeleteRepeated, RemoveAbsent, Goto
  <2> QED
    BY <2>1, QuietKeeps
<1>2. CASE AnonymousThere(c)
  <2>1. /\ job'[c] = job[c] /\ refs' = refs /\ pc'[c] = "ok"
        /\ refs[job[c].name] = job[c].commit
    BY <1>2 DEF AnonymousThere, Goto, Tip
  <2>2. IsPrefix(job[c].commit, refs'[job[c].name])
    BY <2>1, CallFacts, PrefixReflexive DEF IsJob
  <2>3. HistoryOK(c, job[c], pc[c], refs')
    BY BystanderKeeps, CallsGrow
  <2> QED
    BY <2>1, <2>2, <2>3 DEF HistoryOK
<1> QED
  BY <1>1, <1>2

(* What the call is about to acknowledge is what its edit writes, or what  *)
(* it just read.                                                           *)
LEMMA SettlingKeeps ==
    ASSUME IInv, HInv, [Next]_vars, NEW c \in Calls,
           \/ ResolveSame(c) \/ ResolveNext(c) \/ DeleteLive(c)
           \/ RemovePresent(c) \/ AnonymousCreate(c)
    PROVE  HistoryOK(c, job'[c], pc'[c], refs')
<1> USE Domains DEF Locals
<1> DEFINE n == job[c].name
<1>1. HistoryOK(c, job[c], pc[c], refs') /\ KindOf[n] # n
  BY BystanderKeeps, CallsGrow, CallFacts, KindFacts
<1>2. CASE ResolveSame(c)
  <2>1. /\ job'[c].name = n /\ job'[c].commit = refs[n]
        /\ job'[c].batch = NoEdits /\ job'[c].entries = job[c].entries
        /\ refs' = refs /\ pc'[c] = "index"
    BY <1>2 DEF ResolveSame, Goto, Tip
  <2>2. IsPrefix(refs[n], refs[n])
    BY CallFacts, PrefixReflexive DEF Tip
  <2> QED
    BY <1>1, <2>1, <2>2, NoEditsFacts DEF HistoryOK
<1>3. CASE ResolveNext(c) \/ DeleteLive(c) \/ RemovePresent(c) \/ AnonymousCreate(c)
  <2>1. PICK commit, expected :
            /\ job'[c].name = n /\ job'[c].commit = commit
            /\ job'[c].batch = WithEdit(NoEdits, n, Edit(expected, commit))
            /\ job'[c].entries = job[c].entries
            /\ refs' = refs /\ pc'[c] = "index"
    <3>1. CASE ResolveNext(c)
      BY <3>1 DEF ResolveNext, Goto
    <3>2. CASE DeleteLive(c)
      BY <3>2 DEF DeleteLive, Goto
    <3>3. CASE RemovePresent(c)
      BY <3>3 DEF RemovePresent, Goto
    <3>4. CASE AnonymousCreate(c)
      BY <3>4 DEF AnonymousCreate, Goto
    <3> QED
      BY <1>3, <3>1, <3>2, <3>3, <3>4
  <2>2. DOMAIN job'[c].batch = {n} /\ job'[c].batch[n].new = job'[c].commit
    BY <2>1, NoEditsFacts DEF WithEdit, Edit
  <2> QED
    BY <1>1, <2>1, <2>2 DEF HistoryOK
<1> QED
  BY <1>2, <1>3

(* An anonymous publication holds its commit before any ref does.          *)
LEMMA MintingKeeps ==
    ASSUME IInv, HInv, [Next]_vars, NEW c \in Calls, AnonymousMint(c)
    PROVE  HistoryOK(c, job'[c], pc'[c], refs')
<1> USE Domains DEF Locals
<1>1. job'[c].batch = job[c].batch /\ job'[c].entries = job[c].entries /\ pc'[c] = "check"
  BY DEF AnonymousMint, Goto
<1>2. job[c].batch = NoEdits /\ job[c].entries = Absent
  BY CallFacts DEF CallOK, AnonymousMint, At
<1>3. WithinRefs(Absent, refs')
  <2>1. DOMAIN Absent = {}
    BY AbsentIsIndexTree, EmptySeq, LenProperties DEF Absent
  <2> QED
    BY <2>1 DEF WithinRefs
<1> QED
  BY <1>1, <1>2, <1>3, NoEditsFacts DEF HistoryOK

(* The listing the next index is built from is what the refs hold now.     *)
LEMMA SourceWithin ==
    ASSUME IInv, NEW k
    PROVE  WithinRefs(SourceEntries(k), refs)
<1>1. \A m \in DOMAIN SourceEntries(k) : SourceEntries(k)[m] = <<refs[m]>>
  BY SourceIsIndexTree DEF IInv
<1>2. \A m \in BranchNames : IsPrefix(refs[m], refs[m])
  BY PrefixReflexive DEF IInv, TypeOK, BranchNames
<1>3. \A h : \A i \in DOMAIN <<h>> : <<h>>[i] = h
  OBVIOUS
<1> QED
  BY <1>1, <1>2, <1>3 DEF WithinRefs

\* Row i of `name` in `tree` is `commit`.
IsRow(tree, name, i, commit) ==
    name \in DOMAIN tree /\ i \in DOMAIN tree[name] /\ tree[name][i] = commit

(* Every row of the next index was listed, or is the call's own.           *)
LEMMA NextRows ==
    ASSUME IInv, NEW c \in Calls,
           NEW m \in DOMAIN NextEntries(c), NEW i \in DOMAIN NextEntries(c)[m]
    PROVE  \/ IsRow(SourceEntries(IndexRef(c)), m, i, NextEntries(c)[m][i])
           \/ Op(c) # "remove" /\ m = job[c].name /\ NextEntries(c)[m][i] = job[c].commit
<1> DEFINE listed == SourceEntries(IndexRef(c))
           next == NextEntries(c)
           n == job[c].name
           commit == job[c].commit
<1>1. \A h : \A j \in DOMAIN <<h>> : <<h>>[j] = h
  OBVIOUS
<1>2. Op(c) = "remove" => next = Without(listed, n)
  BY DEF NextEntries
<1>3. Op(c) = "anonymous" => next = Pushed(listed, n, commit)
  BY DEF NextEntries
<1>4. Op(c) \notin {"remove", "anonymous"} => next = Overlay(listed, n, commit)
  BY DEF NextEntries
<1>5. ASSUME n \in DOMAIN listed
      PROVE  listed[n] \in Seq(History)
  BY <1>5, SourceIsIndexTree DEF IInv, IsIndexTree
<1> HIDE DEF listed, next
<1>6. m \in DOMAIN next /\ i \in DOMAIN next[m]
  BY DEF next
<1> SUFFICES \/ IsRow(listed, m, i, next[m][i])
             \/ Op(c) # "remove" /\ m = n /\ next[m][i] = commit
  BY DEF listed, next
<1>7. CASE Op(c) = "remove"
  BY <1>2, <1>6, <1>7 DEF Without, IsRow
<1>8. CASE Op(c) # "remove" /\ next = Overlay(listed, n, commit)
  <2>1. CASE m = n
    <3>1. next[m] = <<commit>>
      BY <1>8, <2>1 DEF Overlay
    <3> QED
      BY <1>1, <1>6, <1>8, <2>1, <3>1
  <2>2. CASE m # n
    BY <1>6, <1>8, <2>2 DEF Overlay, IsRow
  <2> QED
    BY <2>1, <2>2
<1>9. CASE Op(c) = "anonymous" /\ n \in DOMAIN listed
  <2>1. next = [listed EXCEPT ![n] = Append(listed[n], commit)]
    BY <1>3, <1>9 DEF Pushed
  <2>2. CASE m = n
    <3>1. next[m] = Append(listed[n], commit)
      BY <1>9, <2>1, <2>2
    <3>2. \A j \in DOMAIN Append(listed[n], commit) :
              \/ j \in DOMAIN listed[n] /\ Append(listed[n], commit)[j] = listed[n][j]
              \/ Append(listed[n], commit)[j] = commit
      BY <1>5, <1>9
    <3> QED
      BY <1>6, <1>9, <2>2, <3>1, <3>2 DEF IsRow
  <2>3. CASE m # n
    BY <1>6, <1>9, <2>1, <2>3 DEF IsRow
  <2> QED
    BY <2>2, <2>3
<1>10. CASE Op(c) = "anonymous" /\ n \notin DOMAIN listed
  <2>1. next = Overlay(listed, n, commit)
    BY <1>3, <1>10 DEF Pushed
  <2> QED
    BY <1>8, <1>10, <2>1
<1> QED
  BY <1>4, <1>7, <1>8, <1>9, <1>10

(* The index a call is about to write lists what the refs hold now, and    *)
(* the call's own commit.                                                  *)
LEMMA ListingKeeps ==
    ASSUME IInv, HInv, [Next]_vars, NEW c \in Calls, ReadSource(c)
    PROVE  HistoryOK(c, job'[c], pc'[c], refs')
<1> USE Domains DEF Locals
<1> DEFINE n == job[c].name
           k == KindOf[n]
           next == NextEntries(c)
           listed == SourceEntries(k)
<1>1. PICK batch : batch = WithIndexEdit(job[c].batch, k, job[c].index, next)
  OBVIOUS
<1>2. /\ pc[c] = "source" /\ refs' = refs
      /\ job'[c].name = n /\ job'[c].commit = job[c].commit
      /\ job'[c].batch = batch /\ job'[c].entries = job[c].entries
      /\ pc'[c] = IF DOMAIN batch = {} THEN "ok" ELSE "apply"
  BY <1>1 DEF ReadSource, Goto, IndexRef
<1>3. /\ CallOK(c, job[c], "source") /\ HistoryOK(c, job[c], "source", refs)
      /\ n \in Names /\ k \notin Names /\ k # n
  BY <1>2, CallFacts, KindFacts DEF HInv
<1>4. /\ n \in DOMAIN batch <=> n \in DOMAIN job[c].batch
      /\ n \in DOMAIN batch => batch[n] = job[c].batch[n]
      /\ k \in DOMAIN batch => batch[k].new = next
  BY <1>1, <1>3 DEF CallOK, WithIndexEdit, WithEdit, Edit
<1>5. Held(job'[c], next, refs)
  <2>1. SUFFICES ASSUME NEW m \in DOMAIN next, m \in BranchNames,
                        NEW i \in DOMAIN next[m]
                 PROVE  \/ IsPrefix(next[m][i], refs[m])
                        \/ m = n /\ m \in DOMAIN batch /\ batch[m].new = next[m][i]
    BY <1>2 DEF Held
  <2>2. WithinRefs(listed, refs)
    BY SourceWithin
  <2>3. CASE IsRow(listed, m, i, next[m][i])
    BY <2>1, <2>2, <2>3 DEF WithinRefs, IsRow
  <2>4. CASE Op(c) # "remove" /\ m = n /\ next[m][i] = job[c].commit
    <3>1. Op(c) \in {"publish", "update", "delete", "anonymous"}
      BY <1>3, <2>4, CallFacts DEF CallOK, Requests, Ops, Op
    <3>2. Acknowledges(c, job[c])
      BY <2>1, <2>4, <3>1 DEF Acknowledges
    <3> QED
      BY <1>3, <1>4, <2>4, <3>2 DEF HistoryOK
  <2>5. \/ IsRow(listed, m, i, next[m][i])
        \/ Op(c) # "remove" /\ m = n /\ next[m][i] = job[c].commit
    BY <1>3, NextRows DEF IndexRef
  <2> QED
    BY <2>3, <2>4, <2>5
<1>6. Acknowledges(c, job'[c]) => Acknowledges(c, job[c])
  BY <1>2 DEF Acknowledges
<1>7. WithinRefs(job'[c].entries, refs')
  BY <1>2, <1>3 DEF HistoryOK
<1>8. Acknowledges(c, job'[c]) =>
          IF n \in DOMAIN batch THEN batch[n].new = job[c].commit
                                ELSE IsPrefix(job[c].commit, refs[n])
  BY <1>3, <1>4, <1>6 DEF HistoryOK
<1> HIDE DEF n, k, next
<1> QED
  BY <1>2, <1>4, <1>5, <1>7, <1>8 DEF HistoryOK, n, k

(* A rebuild holds only commits that the refs have held.                   *)
LEMMA RebuildingKeeps ==
    ASSUME IInv, HInv, [Next]_vars, NEW c \in Calls,
           RebuildScan(c) \/ RebuildSwap(c)
    PROVE  HistoryOK(c, job'[c], pc'[c], refs')
<1> USE Domains DEF Locals
<1> DEFINE n == job[c].name
           k == KindOf[n]
<1>1. HistoryOK(c, job[c], pc[c], refs) /\ n \in Names /\ k # n /\ IndexRef(c) = k
  BY CallFacts, KindFacts DEF HInv
<1>2. CASE RebuildScan(c)
  <2>1. /\ job'[c].name = n /\ job'[c].commit = job[c].commit
        /\ job'[c].batch = job[c].batch
        /\ job'[c].entries = SourceEntries(k)
        /\ refs' = refs /\ pc'[c] = "swap"
    BY <1>1, <1>2 DEF RebuildScan, Goto
  <2>2. \A tree : Held(job'[c], tree, refs) <=> Held(job[c], tree, refs)
    BY <2>1 DEF Held
  <2> QED
    BY <1>1, <2>1, <2>2, SourceWithin DEF HistoryOK
<1>3. CASE RebuildSwap(c)
  <2>1. /\ job'[c].name = n /\ job'[c].entries = Absent
        /\ refs' = refs
        /\ \/ job'[c].batch = NoEdits
           \/ job'[c].batch = WithEdit(NoEdits, k, Edit(refs[k], job[c].entries))
    BY <1>1, <1>3 DEF RebuildSwap
  <2> DEFINE batch == job'[c].batch
  <2>2. /\ DOMAIN batch \subseteq {k}
        /\ k \in DOMAIN batch => batch[k].new = job[c].entries
    BY <2>1, NoEditsFacts DEF WithEdit, Edit
  <2>3. ~Acknowledges(c, job'[c])
    BY <1>3 DEF Acknowledges, RebuildSwap, At
  <2>4. WithinRefs(Absent, refs)
    <3>1. DOMAIN Absent = {}
      BY EmptySeq, LenProperties DEF Absent
    <3> QED
      BY <3>1 DEF WithinRefs
  <2>5. k \in DOMAIN batch => Held(job'[c], batch[k].new, refs)
    BY <1>1, <2>2 DEF HistoryOK, WithinRefs, Held
  <2> QED
    BY <2>1, <2>3, <2>4, <2>5 DEF HistoryOK
<1> QED
  BY <1>2, <1>3

(* A lost race drops the batch.                                            *)
LEMMA LosingKeeps ==
    ASSUME IInv, HInv, [Next]_vars, NEW c \in Calls, ApplyLoses(c) \/ ApplyFails(c)
    PROVE  HistoryOK(c, job'[c], pc'[c], refs')
<1> USE Domains DEF Locals
<1>1. Op(c) \in Ops
  BY CallFacts DEF Requests, Op
<1>2. /\ job'[c].name = job[c].name /\ job'[c].entries = job[c].entries
      /\ job'[c].batch = NoEdits
      /\ pc'[c] \in {"stale", "failed", "resolve", "scan", "check"}
  BY <1>1 DEF ApplyLoses, ApplyFails, Goto, RetryStep, Ops
<1>3. WithinRefs(job[c].entries, refs')
  BY BystanderKeeps, CallsGrow DEF HistoryOK
<1> QED
  BY <1>2, <1>3, NoEditsFacts DEF HistoryOK

(* A batch that wins puts the ref and its index entry down together.       *)
LEMMA WinningKeeps ==
    ASSUME IInv, HInv, [Next]_vars, NEW c \in Calls, ApplyWins(c)
    PROVE  /\ HistoryOK(c, job'[c], pc'[c], refs')
           /\ \A k \in Kinds : WithinRefs(refs'[k], refs')
<1> USE Domains DEF Locals
<1> DEFINE n == job[c].name
           batch == job[c].batch
<1>1. /\ pc[c] = "apply" /\ pc'[c] = "ok"
      /\ job'[c].name = n /\ job'[c].entries = job[c].entries
      /\ job'[c].commit = job[c].commit /\ job'[c].batch = NoEdits
  BY DEF ApplyWins, Goto
<1>2. HistoryOK(c, job[c], "apply", refs')
  BY <1>1, BystanderKeeps, CallsGrow
<1>3. /\ n \in DOMAIN batch => refs'[n] = batch[n].new
      /\ job[c].commit \in History
  BY ApplyMoves, CallFacts DEF IsJob
<1>4. Acknowledges(c, job'[c]) => IsPrefix(job[c].commit, refs'[n])
  <2>1. Acknowledges(c, job'[c]) => Acknowledges(c, job[c])
    BY <1>1 DEF Acknowledges
  <2> QED
    BY <1>2, <1>3, <2>1, PrefixReflexive DEF HistoryOK
<1>5. HistoryOK(c, job'[c], pc'[c], refs')
  BY <1>1, <1>2, <1>4, NoEditsFacts DEF HistoryOK
<1>6. ASSUME NEW k \in Kinds
      PROVE  WithinRefs(refs'[k], refs')
  <2>1. IsIndexTree(k, refs[k]) /\ WithinRefs(refs[k], refs)
    BY DEF IInv, TypeOK, HInv
  <2>2. WithinRefs(refs[k], refs')
    BY <2>1, WithinGrows, CallsGrow
  <2>3. CASE refs'[k] = refs[k]
    BY <2>2, <2>3
  <2>4. CASE k = KindOf[n] /\ k \in DOMAIN batch /\ refs'[k] = batch[k].new
    <3>1. Held(job[c], batch[k].new, refs')
      BY <1>2, <2>4 DEF HistoryOK
    <3>2. \A m \in BranchNames : IsPrefix(refs'[m], refs'[m])
      BY RefsGrow, PrefixReflexive
    <3>3. \A m \in BranchNames : \A commit :
              m = n /\ m \in DOMAIN batch /\ batch[m].new = commit
              => IsPrefix(commit, refs'[m])
      BY <1>3, <3>2
    <3>4. WithinRefs(batch[k].new, refs')
      BY <3>1, <3>3 DEF Held, WithinRefs
    <3> QED
      BY <2>4, <3>4
  <2>5. \/ refs'[k] = refs[k]
        \/ k = KindOf[n] /\ k \in DOMAIN batch /\ refs'[k] = batch[k].new
    <3>1. CASE k # KindOf[n]
      BY <3>1, ApplyMoves
    <3>2. CASE k = KindOf[n] /\ k \notin DOMAIN batch
      BY <3>2, ApplyMoves
    <3>3. CASE k = KindOf[n] /\ k \in DOMAIN batch
      BY <3>3, ApplyMoves
    <3> QED
      BY <3>1, <3>2, <3>3
  <2> QED
    BY <2>3, <2>4, <2>5
<1> QED
  BY <1>5, <1>6

-----------------------------------------------------------------------------
(* The theorems *)

(* No call holds a commit at first.                                        *)
LEMMA HistoryInit == Init => HInv
<1> SUFFICES ASSUME Init
             PROVE  HInv
  OBVIOUS
<1>1. DOMAIN Absent = {}
  BY EmptySeq, LenProperties DEF Absent
<1>2. \A k \in Kinds : WithinRefs(refs[k], refs)
  BY <1>1 DEF Init, WithinRefs
<1>3. ASSUME NEW c \in Calls
      PROVE  HistoryOK(c, job[c], pc[c], refs)
  <2>1. job[c].entries = Absent /\ job[c].batch = NoEdits /\ pc[c] = "idle"
    BY DEF Init
  <2> QED
    BY <1>1, <2>1, NoEditsFacts DEF HistoryOK, WithinRefs
<1> QED
  BY <1>2, <1>3 DEF HInv

(* Every step keeps what calls and indexes hold within the histories.      *)
LEMMA HistoryStep == IInv /\ HInv /\ [Next]_vars => HInv'
<1> SUFFICES ASSUME IInv, HInv, [Next]_vars
             PROVE  HInv'
  OBVIOUS
<1>1. ASSUME NEW c \in Calls, Start(c) \/ Step(c)
      PROVE  HistoryOK(c, job'[c], pc'[c], refs')
  <2>1. CASE Start(c) \/ UpdateRead(c) \/ UpdateExpect(c) \/ ReadIndex(c)
    BY <2>1, ReadingKeeps
  <2>2. CASE \/ ResolveStale(c)
             \/ DeleteAbsent(c) \/ DeleteRepeated(c) \/ RemoveAbsent(c)
             \/ AnonymousThere(c)
    BY <2>2, AnsweringKeeps
  <2>3. CASE \/ ResolveSame(c) \/ ResolveNext(c) \/ DeleteLive(c)
             \/ RemovePresent(c) \/ AnonymousCreate(c)
    BY <2>3, SettlingKeeps
  <2>4. CASE AnonymousMint(c) \/ ReadSource(c)
    BY <2>4, MintingKeeps, ListingKeeps
  <2>5. CASE RebuildScan(c) \/ RebuildSwap(c)
    BY <2>5, RebuildingKeeps
  <2>6. CASE ApplyWins(c) \/ ApplyLoses(c) \/ ApplyFails(c)
    BY <2>6, WinningKeeps, LosingKeeps
  <2> QED
    BY <1>1, <2>1, <2>2, <2>3, <2>4, <2>5, <2>6 DEF Step
<1>2. ASSUME NEW c \in Calls, Start(c) \/ Step(c), NEW d \in Calls, d # c
      PROVE  job'[d] = job[d] /\ pc'[d] = pc[d]
  BY <1>2, Domains
     DEF Start, Step, UpdateRead, UpdateExpect, ResolveStale, ResolveSame,
         ResolveNext, DeleteAbsent, DeleteRepeated, DeleteLive, RemoveAbsent,
         RemovePresent, AnonymousMint, AnonymousThere, AnonymousCreate,
         ReadIndex, ReadSource, RebuildScan, RebuildSwap, ApplyWins,
         ApplyLoses, ApplyFails, Goto
<1>3. ASSUME NEW d \in Calls
      PROVE  HistoryOK(d, job'[d], pc'[d], refs')
  <2>1. HistoryOK(d, job[d], pc[d], refs')
    BY BystanderKeeps, CallsGrow
  <2>2. CASE UNCHANGED <<job, pc>>
    BY <2>1, <2>2
  <2>3. ASSUME NEW c \in Calls, Start(c) \/ Step(c)
        PROVE  HistoryOK(d, job'[d], pc'[d], refs')
    BY <1>1, <1>2, <2>1, <2>3
  <2> QED
    BY <2>2, <2>3 DEF Next, vars, Tick, Finished
<1>4. ASSUME NEW k \in Kinds
      PROVE  WithinRefs(refs'[k], refs')
  <2>1. CASE UNCHANGED refs
    BY <2>1 DEF HInv
  <2>2. ASSUME NEW c \in Calls, ApplyWins(c)
        PROVE  WithinRefs(refs'[k], refs')
    BY <2>2, WinningKeeps
  <2> QED
    BY <2>1, <2>2, OnlyApplyMovesRefs
<1>5. (\A k \in Kinds : WithinRefs(refs[k], refs))'
  BY <1>4
<1>6. (\A c \in Calls : HistoryOK(c, job[c], pc[c], refs))'
  BY <1>3
<1> QED
  BY <1>5, <1>6 DEF HInv

(* What calls and indexes hold always lies within the histories.           *)
LEMMA HistoryInvariant == Spec => []HInv
BY Invariant, HistoryInit, HistoryStep, PTL DEF Spec

(* A publication, update or deletion a caller was told of stays in the     *)
(* history of its name, through every later call, unless some caller       *)
(* prunes or grafts that name (kind.rs, publish_document_checked).         *)
THEOREM AcknowledgedForever == Spec => []AcknowledgedStaysReachable
<1>1. IInv /\ HInv => AcknowledgedStaysReachable
  BY DEF HInv, HistoryOK, Acknowledges, AcknowledgedStaysReachable, Tip
<1> QED
  BY Invariant, HistoryInvariant, <1>1, PTL

(* The index never lists a commit its name has not held (index.rs, edit).  *)
THEOREM IndexNeverAhead == Spec => []IndexWithinHistory
<1>1. IInv /\ HInv => IndexWithinHistory
  <2> SUFFICES ASSUME HInv, NEW n \in BranchNames, n \in DOMAIN refs[KindOf[n]]
               PROVE  \A i \in DOMAIN refs[KindOf[n]][n] :
                          IsPrefix(refs[KindOf[n]][n][i], refs[n])
    BY DEF IndexWithinHistory
  <2>1. KindOf[n] \in Kinds
    BY KindAssumption DEF BranchNames
  <2> QED
    BY <2>1 DEF HInv, WithinRefs
<1> QED
  BY Invariant, HistoryInvariant, <1>1, PTL

-----------------------------------------------------------------------------
(***************************************************************************)
(* One-shot publications and the pair of entity ref and index:             *)
(* OneShotHoldsAtBatch and IndexMatchesEntities.                           *)
(*                                                                         *)
(* Both fail when a publication finds its document in place: it then has   *)
(* no edit of the entity ref, and nothing holds the batch to the commit it *)
(* read.  A live tip carries the document of a call that has returned, so  *)
(* a call that alone publishes its document never finds it there (SInv).   *)
(*                                                                         *)
(* The pair then stays one although a call reads its two halves apart.  It *)
(* reads the index before it lists the refs, and both only gain commits.   *)
(* If the index still is what was read when the batch lands, then every    *)
(* ref is where it was then and, lying in between, where it was listed;    *)
(* the call's own ref is held by its own edit (NextOK).                    *)
(***************************************************************************)

\* What call c, with locals j, at label l, may put at its name.
SoleOK(c, j, l) ==
    /\ j.doc = Request[c].doc
    /\ Op(c) = "anonymous" /\ l \notin {"idle", "mint"} =>
           PublishesAt(c, j.name) /\ Last(j.commit).doc = j.doc
    /\ j.name \in DOMAIN j.batch /\ Present(j.batch[j.name].new) =>
           PublishesAt(c, j.name) /\ Last(j.batch[j.name].new).doc = j.doc

\* Call c has put the live document at name n there.
Put(c, n, commit) ==
    pc[c] = "ok" /\ PublishesAt(c, n) /\ Request[c].doc = Last(commit).doc

SInv ==
    /\ \A c \in Calls : SoleOK(c, job[c], pc[c])
    /\ \A n \in Names : Present(refs[n]) => \E c \in Calls : Put(c, n, refs[n])

(* A step of one call leaves the others where they are.                    *)
LEMMA OtherCallsStay ==
    ASSUME IInv, NEW c \in Calls, Start(c) \/ Step(c), NEW d \in Calls, d # c
    PROVE  job'[d] = job[d] /\ pc'[d] = pc[d]
BY Domains
   DEF Start, Step, UpdateRead, UpdateExpect, ResolveStale, ResolveSame,
       ResolveNext, DeleteAbsent, DeleteRepeated, DeleteLive, RemoveAbsent,
       RemovePresent, AnonymousMint, AnonymousThere, AnonymousCreate,
       ReadIndex, ReadSource, RebuildScan, RebuildSwap, ApplyWins,
       ApplyLoses, ApplyFails, Goto

(* A call that has returned stays where it is.                             *)
LEMMA ReturnedStays ==
    ASSUME IInv, [Next]_vars, NEW d \in Calls, pc[d] = "ok"
    PROVE  pc'[d] = "ok"
<1>1. pc \in [Calls -> Labels]
  BY Domains
<1>2. ASSUME NEW c \in Calls, Start(c) \/ Step(c)
      PROVE  \E l : pc[c] # "ok" /\ pc' = [pc EXCEPT ![c] = l]
  BY <1>2
     DEF Start, Step, UpdateRead, UpdateExpect, ResolveStale, ResolveSame,
         ResolveNext, DeleteAbsent, DeleteRepeated, DeleteLive, RemoveAbsent,
         RemovePresent, AnonymousMint, AnonymousThere, AnonymousCreate,
         ReadIndex, ReadSource, RebuildScan, RebuildSwap, ApplyWins,
         ApplyLoses, ApplyFails, Goto, At
<1>3. ASSUME NEW c \in Calls, Start(c) \/ Step(c)
      PROVE  pc'[d] = "ok"
  BY <1>1, <1>2, <1>3
<1>4. CASE UNCHANGED pc
  BY <1>4
<1> QED
  BY <1>3, <1>4 DEF Next, vars, Tick, Finished

(* The index edit of a call leaves its entity edit alone.                  *)
LEMMA ListFacts ==
    ASSUME IInv, NEW c \in Calls, ReadSource(c)
    PROVE  LET n == job[c].name
               k == KindOf[n]
               batch == job'[c].batch
           IN
           /\ pc[c] = "source" /\ pc'[c] \in {"ok", "apply"} /\ refs' = refs
           /\ job'[c].name = n /\ job'[c].doc = job[c].doc
           /\ job'[c].expect = job[c].expect /\ job'[c].commit = job[c].commit
           /\ n \in DOMAIN batch <=> n \in DOMAIN job[c].batch
           /\ n \in DOMAIN batch => batch[n] = job[c].batch[n] /\ pc'[c] = "apply"
           /\ k \in DOMAIN batch <=> NextEntries(c) # job[c].index
           /\ k \in DOMAIN batch => batch[k] = Edit(job[c].index, NextEntries(c))
<1> USE Domains DEF Locals
<1> DEFINE n == job[c].name
           k == KindOf[n]
           next == NextEntries(c)
<1>1. PICK batch : batch = WithIndexEdit(job[c].batch, k, job[c].index, next)
  OBVIOUS
<1>2. /\ pc[c] = "source" /\ refs' = refs
      /\ job'[c].name = n /\ job'[c].doc = job[c].doc
      /\ job'[c].expect = job[c].expect /\ job'[c].commit = job[c].commit
      /\ job'[c].batch = batch
      /\ pc'[c] = IF DOMAIN batch = {} THEN "ok" ELSE "apply"
  BY <1>1 DEF ReadSource, Goto, IndexRef
<1>3. CallOK(c, job[c], "source") /\ n \in Names /\ k # n
  BY <1>2, CallFacts, KindFacts
<1>4. DOMAIN job[c].batch \subseteq {n}
  BY <1>3 DEF CallOK
<1> HIDE DEF next
<1>5. CASE next = job[c].index
  BY <1>1, <1>2, <1>3, <1>4, <1>5 DEF WithIndexEdit, next
<1>6. CASE next # job[c].index
  <2>1. batch = WithEdit(job[c].batch, k, Edit(job[c].index, next))
    BY <1>1, <1>6 DEF WithIndexEdit
  <2>2. /\ DOMAIN batch = DOMAIN job[c].batch \cup {k}
        /\ batch[k] = Edit(job[c].index, next)
        /\ \A q \in DOMAIN job[c].batch : q # k => batch[q] = job[c].batch[q]
    BY <2>1 DEF WithEdit
  <2> QED
    BY <1>2, <1>3, <1>4, <1>6, <2>2 DEF next
<1> QED
  BY <1>5, <1>6

(* The steps that leave the document, the name and the batch of a call.    *)
LEMMA SoleQuiet ==
    ASSUME SInv, NEW c \in Calls,
           job'[c].name = job[c].name, job'[c].doc = job[c].doc,
           \/ job'[c].batch = job[c].batch
           \/ job[c].name \notin DOMAIN job'[c].batch,
           \/ Op(c) # "anonymous"
           \/ pc[c] \notin {"idle", "mint"} /\ job'[c].commit = job[c].commit
           \/ pc'[c] = "mint"
    PROVE  SoleOK(c, job'[c], pc'[c])
<1>1. SoleOK(c, job[c], pc[c])
  BY DEF SInv
<1> QED
  BY <1>1 DEF SoleOK

(* What a call settles on is a publication of its own document, or nothing *)
(* live.                                                                   *)
LEMMA SoleSettles ==
    ASSUME IInv, SInv, NEW c \in Calls,
           \/ ResolveNext(c) \/ DeleteLive(c) \/ RemovePresent(c) \/ AnonymousCreate(c)
    PROVE  SoleOK(c, job'[c], pc'[c])
<1> USE Domains DEF Locals
<1> DEFINE n == job[c].name
           new == job'[c].batch[n].new
<1>1. SoleOK(c, job[c], pc[c]) /\ CallOK(c, job[c], pc[c]) /\ IsJob(job[c])
  BY CallFacts DEF SInv
<1>2. /\ job'[c].name = n /\ job'[c].doc = job[c].doc
      /\ pc'[c] = "index" /\ pc[c] \notin {"idle", "mint"}
  BY DEF ResolveNext, DeleteLive, RemovePresent, AnonymousCreate, Goto, At
<1>3. Present(new) => PublishesAt(c, n) /\ Last(new).doc = job[c].doc
  <2>1. CASE ResolveNext(c)
    <3> DEFINE entry == LiveEntry(job[c].doc, clock)
               commit == WriteCommit(entry, ParentOf(c))
    <3>1. job'[c].batch = WithEdit(NoEdits, n, Edit(Tip(c), commit))
      BY <2>1 DEF ResolveNext
    <3>2. new = commit
      BY <3>1, NoEditsFacts DEF WithEdit, Edit
    <3>3. entry \in Entry /\ entry.doc = job[c].doc /\ ParentOf(c) \in History
      BY <1>1, CallFacts, EntryFacts DEF ParentOf, IsJob
    <3>4. Last(new) = entry
      BY <3>2, <3>3, WriteCommitFacts
    <3>5. Publishing(c) /\ n = Request[c].name
      BY <1>1, <2>1 DEF ResolveNext, Publishing, CallOK
    <3> QED
      BY <3>3, <3>4, <3>5 DEF PublishesAt
  <2>2. CASE DeleteLive(c)
    <3> DEFINE entry == TombstoneOfTip(c)
               commit == WriteCommit(entry, Tip(c))
    <3>1. job'[c].batch = WithEdit(NoEdits, n, Edit(Tip(c), commit)) /\ Present(Tip(c))
      BY <2>2 DEF DeleteLive
    <3>2. new = commit
      BY <3>1, NoEditsFacts DEF WithEdit, Edit
    <3>3. Last(Tip(c)) \in Entry
      BY <3>1, CallFacts, FrontFacts DEF Present
    <3>4. entry \in Entry /\ entry.dead
      BY <3>3, CallFacts, EntryFacts DEF TombstoneOfTip, Entry
    <3>5. Last(new) = entry
      BY <3>2, <3>4, CallFacts, WriteCommitFacts
    <3> QED
      BY <3>4, <3>5 DEF Present
  <2>3. CASE RemovePresent(c)
    <3>1. job'[c].batch = WithEdit(NoEdits, n, Edit(Tip(c), Absent))
      BY <2>3 DEF RemovePresent
    <3>2. new = Absent
      BY <3>1, NoEditsFacts DEF WithEdit, Edit
    <3> QED
      BY <3>2 DEF Present
  <2>4. CASE AnonymousCreate(c)
    <3>1. /\ Op(c) = "anonymous" /\ pc[c] = "check"
          /\ job'[c].batch = WithEdit(NoEdits, n, Edit(Absent, job[c].commit))
      BY <2>4 DEF AnonymousCreate, At
    <3>2. new = job[c].commit
      BY <3>1, NoEditsFacts DEF WithEdit, Edit
    <3> QED
      BY <1>1, <3>1, <3>2 DEF SoleOK
  <2> QED
    BY <2>1, <2>2, <2>3, <2>4
<1>4. Op(c) = "anonymous" => job'[c].commit = job[c].commit
  BY DEF ResolveNext, DeleteLive, RemovePresent, AnonymousCreate, Publishing, At
<1> QED
  BY <1>1, <1>2, <1>3, <1>4 DEF SoleOK

(* An anonymous publication is named by its own commit.                    *)
LEMMA SoleMints ==
    ASSUME IInv, SInv, NEW c \in Calls, AnonymousMint(c)
    PROVE  SoleOK(c, job'[c], pc'[c])
<1> USE Domains DEF Locals
<1> DEFINE doc == job[c].doc
           entry == LiveEntry(doc, clock)
           name == CommitName[<<doc, clock>>]
<1>1. /\ Op(c) = "anonymous" /\ job'[c].name = name /\ job'[c].doc = doc
      /\ job'[c].commit = WriteCommit(entry, Absent) /\ job'[c].batch = job[c].batch
      /\ pc[c] = "mint"
  BY DEF AnonymousMint, At
<1>2. doc = Request[c].doc /\ job[c].batch = NoEdits
  BY <1>1, CallFacts DEF SInv, SoleOK, CallOK
<1>3. entry \in Entry /\ entry.doc = doc /\ clock \in Times
  BY CallFacts, EntryFacts DEF IsJob
<1>4. Last(job'[c].commit) = entry
  BY <1>1, <1>3, AbsentTombstones, WriteCommitFacts
<1>5. PublishesAt(c, name)
  BY <1>1, <1>2, <1>3 DEF PublishesAt
<1> QED
  BY <1>1, <1>2, <1>3, <1>4, <1>5, NoEditsFacts DEF SoleOK

(* Whatever a call does, it puts only its own document at its name,        *)
LEMMA SoleStep ==
    ASSUME IInv, SInv, NEW c \in Calls, Start(c) \/ Step(c)
    PROVE  SoleOK(c, job'[c], pc'[c])
<1> USE Domains DEF Locals
<1>1. Op(c) \in Ops
  BY CallFacts DEF Requests, Op
<1>2. CASE Start(c)
  <2>1. /\ job'[c].name = job[c].name /\ job'[c].doc = job[c].doc
        /\ job'[c].batch = job[c].batch /\ job'[c].commit = job[c].commit
    BY <1>2 DEF Start
  <2>2. Op(c) = "anonymous" => pc'[c] = "mint"
    BY <1>1, <1>2 DEF Start, Goto, FirstStep
  <2> QED
    BY <2>1, <2>2, SoleQuiet
<1>3. CASE \/ UpdateRead(c) \/ UpdateExpect(c) \/ ReadIndex(c) \/ RebuildScan(c)
           \/ ResolveStale(c) \/ DeleteAbsent(c) \/ DeleteRepeated(c)
           \/ RemoveAbsent(c) \/ AnonymousThere(c)
  <2>1. /\ job'[c].name = job[c].name /\ job'[c].doc = job[c].doc
        /\ job'[c].batch = job[c].batch /\ job'[c].commit = job[c].commit
        /\ pc[c] \notin {"idle", "mint"}
    BY <1>3 DEF UpdateRead, UpdateExpect, ReadIndex, RebuildScan, ResolveStale,
                DeleteAbsent, DeleteRepeated, RemoveAbsent, AnonymousThere, At
  <2> QED
    BY <2>1, SoleQuiet
<1>4. CASE ResolveSame(c) \/ ApplyWins(c) \/ ApplyLoses(c) \/ ApplyFails(c)
  <2>1. /\ job'[c].name = job[c].name /\ job'[c].doc = job[c].doc
        /\ job'[c].batch = NoEdits
        /\ pc[c] \notin {"idle", "mint"}
        /\ Op(c) # "anonymous" \/ job'[c].commit = job[c].commit
    BY <1>4 DEF ResolveSame, ApplyWins, ApplyLoses, ApplyFails, Publishing
  <2> QED
    BY <2>1, NoEditsFacts, SoleQuiet
<1>5. CASE RebuildSwap(c)
  <2>1. /\ job'[c].name = job[c].name /\ job'[c].doc = job[c].doc
        /\ Op(c) # "anonymous"
        /\ \/ job'[c].batch = NoEdits
           \/ job'[c].batch = WithEdit(NoEdits, IndexRef(c),
                                       Edit(refs[IndexRef(c)], job[c].entries))
    BY <1>5 DEF RebuildSwap, At
  <2>2. job[c].name \notin DOMAIN job'[c].batch
    BY <2>1, CallFacts, KindFacts, NoEditsFacts DEF WithEdit
  <2> QED
    BY <2>1, <2>2, SoleQuiet
<1>6. CASE ReadSource(c)
  <2>1. SoleOK(c, job[c], pc[c])
    BY DEF SInv
  <2> QED
    BY <1>6, <2>1, ListFacts DEF SoleOK
<1>7. CASE \/ ResolveNext(c) \/ DeleteLive(c) \/ RemovePresent(c)
           \/ AnonymousCreate(c) \/ AnonymousMint(c)
  BY <1>7, SoleSettles, SoleMints
<1> QED
  BY <1>2, <1>3, <1>4, <1>5, <1>6, <1>7 DEF Step

(* At every step, then, every live tip is what a call that has returned    *)
(* has put there.                                                          *)
LEMMA SoleNext == IInv /\ SInv /\ [Next]_vars => SInv'
<1> SUFFICES ASSUME IInv, SInv, [Next]_vars
             PROVE  SInv'
  OBVIOUS
<1>1. ASSUME NEW d \in Calls
      PROVE  SoleOK(d, job'[d], pc'[d])
  <2>1. SoleOK(d, job[d], pc[d])
    BY DEF SInv
  <2>2. CASE UNCHANGED <<job, pc>>
    BY <2>1, <2>2
  <2>3. ASSUME NEW c \in Calls, Start(c) \/ Step(c)
        PROVE  SoleOK(d, job'[d], pc'[d])
    BY <2>1, <2>3, OtherCallsStay, SoleStep
  <2> QED
    BY <2>2, <2>3 DEF Next, vars, Tick, Finished
<1>2. ASSUME NEW n \in Names, Present(refs'[n]), refs'[n] = refs[n]
      PROVE  \E c \in Calls : pc'[c] = "ok" /\ PublishesAt(c, n)
                               /\ Request[c].doc = Last(refs'[n]).doc
  <2>1. PICK c \in Calls : Put(c, n, refs[n])
    BY <1>2 DEF SInv
  <2> QED
    BY <1>2, <2>1, ReturnedStays DEF Put
<1>3. ASSUME NEW n \in Names, Present(refs'[n]), NEW c \in Calls, ApplyWins(c)
      PROVE  \E d \in Calls : pc'[d] = "ok" /\ PublishesAt(d, n)
                               /\ Request[d].doc = Last(refs'[n]).doc
  <2>1. CASE n = job[c].name /\ n \in DOMAIN job[c].batch
    <3>1. refs'[n] = job[c].batch[n].new
      BY <1>3, <2>1, ApplyMoves
    <3>2. SoleOK(c, job[c], pc[c])
      BY DEF SInv
    <3>3. pc'[c] = "ok"
      BY <1>3, Domains DEF ApplyWins, Goto
    <3> QED
      BY <1>3, <2>1, <3>1, <3>2, <3>3 DEF SoleOK
  <2>2. CASE ~(n = job[c].name /\ n \in DOMAIN job[c].batch)
    <3>1. refs'[n] = refs[n]
      BY <1>3, <2>2, ApplyMoves
    <3> QED
      BY <1>2, <1>3, <3>1
  <2> QED
    BY <2>1, <2>2
<1>4. ASSUME NEW n \in Names, Present(refs'[n])
      PROVE  \E c \in Calls : pc'[c] = "ok" /\ PublishesAt(c, n)
                               /\ Request[c].doc = Last(refs'[n]).doc
  BY <1>2, <1>3, <1>4, OnlyApplyMovesRefs
<1>5. (\A c \in Calls : SoleOK(c, job[c], pc[c]))'
  BY <1>1
<1>6. (\A n \in Names : Present(refs[n]) => \E c \in Calls : Put(c, n, refs[n]))'
  BY <1>4 DEF Put
<1> QED
  BY <1>5, <1>6 DEF SInv

LEMMA SoleInit == Init => SInv
<1> SUFFICES ASSUME Init
             PROVE  SInv
  OBVIOUS
<1>1. \A c \in Calls : SoleOK(c, job[c], pc[c])
  BY NoEditsFacts DEF Init, SoleOK
<1>2. \A n \in Names : ~Present(refs[n])
  BY DEF Init, Present
<1> QED
  BY <1>1, <1>2 DEF SInv

(* Every live tip is what a returned call has put there.                   *)
LEMMA SoleInvariant == Spec => []SInv
BY Invariant, SoleInit, SoleNext, PTL DEF Spec

(* A call that alone publishes its document never finds it in place.       *)
LEMMA NeverSame ==
    ASSUME IInv, SInv, NEW c \in Calls, SoleWriter(c), Publishing(c), pc[c] = "resolve"
    PROVE  ~Carries(Tip(c), job[c].doc)
<1> SUFFICES ASSUME Carries(Tip(c), job[c].doc)
             PROVE  FALSE
  OBVIOUS
<1>1. job[c].name \in Names /\ job[c].name = Request[c].name
  BY CallFacts DEF CallOK, Publishing
<1>2. job[c].doc = Request[c].doc
  BY DEF SInv, SoleOK
<1>3. PICK d \in Calls : Put(d, job[c].name, Tip(c))
  BY <1>1 DEF SInv, Carries, Tip
<1>4. d # c
  BY <1>3 DEF Put
<1> QED
  BY <1>1, <1>2, <1>3, <1>4 DEF Put, SoleWriter, Carries

-----------------------------------------------------------------------------
(* One-shot publications *)

\* A one-shot call holds on to the expectation it was given.
OneShotOK(c, j, l) ==
    Request[c].guarded /\ l \in {"index", "source", "apply"} =>
        j.name \in DOMAIN j.batch /\ j.batch[j.name].expected = j.expect

OneShotInv == \A c \in Calls : OneShotOK(c, job[c], pc[c])

(* The edit of a one-shot call is built on the expectation that was just   *)
(* found to hold.                                                          *)
LEMMA OneShotStep ==
    ASSUME OneShotsAreSole, IInv, SInv, OneShotInv, NEW c \in Calls, Start(c) \/ Step(c)
    PROVE  OneShotOK(c, job'[c], pc'[c])
<1> USE Domains DEF Locals
<1> DEFINE n == job[c].name
<1>1. SUFFICES ASSUME Request[c].guarded, pc'[c] \in {"index", "source", "apply"}
               PROVE  /\ job'[c].name \in DOMAIN job'[c].batch
                      /\ job'[c].batch[job'[c].name].expected = job'[c].expect
  BY DEF OneShotOK
<1>2. Op(c) = "publish" /\ ~Retries(c) /\ Guarded(c) /\ SoleWriter(c) /\ Publishing(c)
  BY <1>1, RequestAssumption
     DEF Requests, Op, Retries, Guarded, OneShotsAreSole, Publishing
<1>3. OneShotOK(c, job[c], pc[c])
  BY DEF OneShotInv
<1>4. CASE ResolveNext(c)
  <2>1. PICK commit : /\ job'[c].batch = WithEdit(NoEdits, n, Edit(Tip(c), commit))
                      /\ job'[c].name = n /\ job'[c].expect = job[c].expect
    BY <1>4 DEF ResolveNext
  <2>2. Tip(c) = job[c].expect
    BY <1>2, <1>4 DEF ResolveNext, Stale
  <2> QED
    BY <2>1, <2>2, NoEditsFacts DEF WithEdit, Edit
<1>5. CASE ReadIndex(c)
  BY <1>1, <1>3, <1>5 DEF ReadIndex, OneShotOK
<1>6. CASE ReadSource(c)
  BY <1>1, <1>3, <1>6, ListFacts DEF OneShotOK
<1>7. CASE ResolveSame(c)
  BY <1>2, <1>7, NeverSame DEF ResolveSame
<1>8. CASE Start(c) \/ ResolveStale(c) \/ ApplyWins(c) \/ ApplyLoses(c) \/ ApplyFails(c)
  BY <1>1, <1>2, <1>8
     DEF Start, FirstStep, ResolveStale, ApplyWins, ApplyLoses, ApplyFails, Goto
<1>9. Start(c) \/ ResolveStale(c) \/ ResolveSame(c) \/ ResolveNext(c)
      \/ ReadIndex(c) \/ ReadSource(c) \/ ApplyWins(c) \/ ApplyLoses(c) \/ ApplyFails(c)
  BY <1>2 DEF Step, UpdateRead, UpdateExpect, DeleteAbsent, DeleteRepeated,
              DeleteLive, RemoveAbsent, RemovePresent, AnonymousMint,
              AnonymousThere, AnonymousCreate, RebuildScan, RebuildSwap, At
<1> QED
  BY <1>4, <1>5, <1>6, <1>7, <1>8, <1>9

LEMMA OneShotNext ==
    OneShotsAreSole /\ IInv /\ SInv /\ OneShotInv /\ [Next]_vars => OneShotInv'
<1> SUFFICES ASSUME OneShotsAreSole, IInv, SInv, OneShotInv, [Next]_vars
             PROVE  OneShotInv'
  OBVIOUS
<1>1. ASSUME NEW d \in Calls
      PROVE  OneShotOK(d, job'[d], pc'[d])
  <2>1. OneShotOK(d, job[d], pc[d])
    BY DEF OneShotInv
  <2>2. CASE UNCHANGED <<job, pc>>
    BY <2>1, <2>2
  <2>3. ASSUME NEW c \in Calls, Start(c) \/ Step(c)
        PROVE  OneShotOK(d, job'[d], pc'[d])
    BY <2>1, <2>3, OtherCallsStay, OneShotStep
  <2> QED
    BY <2>2, <2>3 DEF Next, vars, Tick, Finished
<1>2. (\A c \in Calls : OneShotOK(c, job[c], pc[c]))'
  BY <1>1
<1> QED
  BY <1>2 DEF OneShotInv

(* A one-shot publication changes the store only while its expectation     *)
(* holds, and is over when its batch is turned down, when no other call    *)
(* publishes its document at its name (kind.rs,                            *)
(* publish_document_checked).  With such a call it may find the  *)
(* document in place, and then only its index edit is compared.            *)
THEOREM OneShotsHold ==
    ASSUME OneShotsAreSole PROVE Spec => OneShotHoldsAtBatch
<1>1. Init => OneShotInv
  BY DEF Init, OneShotInv, OneShotOK
<1>2. IInv /\ OneShotInv /\ [Next]_vars =>
          [\A c \in Calls :
             (/\ Op(c) = "publish" /\ Request[c].guarded
              /\ pc[c] = "apply" /\ pc'[c] # "apply")
             => /\ pc'[c] \in Returned
                /\ pc'[c] = "ok" => Tip(c) = job[c].expect]_vars
  <2> SUFFICES ASSUME IInv, OneShotInv, Next, NEW c \in Calls,
                      Request[c].guarded, pc[c] = "apply", pc'[c] # "apply"
               PROVE  /\ pc'[c] \in Returned
                      /\ pc'[c] = "ok" => Tip(c) = job[c].expect
    OBVIOUS
  <2>1. ApplyWins(c) \/ ApplyLoses(c) \/ ApplyFails(c)
    <3>1. PICK d \in Calls : Start(d) \/ Step(d)
      BY DEF Next, Tick, Finished, vars
    <3>2. d = c
      BY <3>1, OtherCallsStay
    <3> QED
      BY <3>1, <3>2
         DEF Start, Step, UpdateRead, UpdateExpect, ResolveStale, ResolveSame,
             ResolveNext, DeleteAbsent, DeleteRepeated, DeleteLive,
             RemoveAbsent, RemovePresent, AnonymousMint, AnonymousThere,
             AnonymousCreate, ReadIndex, ReadSource, RebuildScan, RebuildSwap, At
  <2>2. /\ job[c].name \in DOMAIN job[c].batch
        /\ job[c].batch[job[c].name].expected = job[c].expect
    BY DEF OneShotInv, OneShotOK
  <2>3. CASE ApplyWins(c)
    BY <2>2, <2>3, Domains DEF ApplyWins, ExpectationsHold, Tip, Goto, Returned
  <2>4. CASE ApplyLoses(c)
    BY <2>4, Domains DEF ApplyLoses, Retries, Goto, Returned
  <2>5. CASE ApplyFails(c)
    BY <2>5, Domains DEF ApplyFails, Goto, Returned
  <2> QED
    BY <2>1, <2>3, <2>4, <2>5
<1> QED
  BY <1>1, <1>2, Invariant, SoleInvariant, OneShotNext, PTL
     DEF Spec, OneShotHoldsAtBatch

-----------------------------------------------------------------------------
(* The pair of entity ref and index *)

\* Every name of the tree has one row.
SingleRows(tree) == \A m \in DOMAIN tree : Len(tree[m]) = 1

IsFcn(f) == f = [x \in DOMAIN f |-> f[x]]

\* The index edit of call c: every other name has, in the index it expects,
\* no more than in the one it writes, and there no more than its ref; the
\* call's own row is its commit, unless its batch can no longer land.
NextOK(c, j, r) ==
    LET n == j.name
        old == j.batch[KindOf[n]].expected
        new == j.batch[KindOf[n]].new
    IN  /\ IsFcn(new)
        /\ \A m \in DOMAIN old \ {n} : m \in DOMAIN new /\ IsPrefix(old[m][1], new[m][1])
        /\ \A m \in DOMAIN new \ {n} : Len(new[m]) = 1 /\ IsPrefix(new[m][1], r[m])
        /\ n \in DOMAIN new
        /\ new[n] = <<j.commit>> \/ (Op(c) = "anonymous" /\ r[n] # Absent)

PairOK(c, j, l, r) ==
    /\ l \in {"index", "source", "apply"} => j.name \in DOMAIN j.batch
    /\ l = "source" => SingleRows(j.index) /\ WithinRefs(j.index, r)
    /\ l = "apply" => IF KindOf[j.name] \in DOMAIN j.batch THEN NextOK(c, j, r)
                      ELSE IsPrefix(j.commit, r[j.name])

PairInv ==
    /\ IndexMatchesEntities
    /\ \A c \in Calls : PairOK(c, job[c], pc[c], refs)

(* Under the hypothesis every name is a branch, and a call publishes or    *)
(* deletes.                                                                *)
LEMMA PairFacts ==
    ASSUME PairKept
    PROVE  /\ BranchNames = Names /\ GraftedNames = {} /\ PrunedNames = {}
           /\ \A c \in Calls : Op(c) \in {"publish", "update", "delete", "anonymous"}
<1>1. GraftedNames = {} /\ PrunedNames = {}
  BY DEF PairKept, GraftedNames, PrunedNames
<1>2. \A c \in Calls : Op(c) \in Ops \ {"remove", "rebuild"}
  BY RequestAssumption DEF PairKept, Requests, Op
<1> QED
  BY <1>1, <1>2 DEF BranchNames, Ops

(* The single row of a name in an index tree is a commit.                  *)
LEMMA FirstRow ==
    ASSUME NEW k, NEW tree, IsIndexTree(k, tree), NEW m \in DOMAIN tree
    PROVE  /\ m \in Names /\ KindOf[m] = k
           /\ 1 \in DOMAIN tree[m]
           /\ tree[m][1] \in History /\ tree[m][1] # Absent
           /\ Len(tree[m]) = 1 => tree[m] = <<tree[m][1]>>
<1>1. tree[m] \in Seq(History \ {Absent}) /\ tree[m] # <<>>
  BY DEF IsIndexTree
<1> QED
  BY <1>1 DEF IsIndexTree

(* Only a ref that does not exist has nothing in its history.              *)
LEMMA AbsentPrefix ==
    ASSUME NEW g \in History, NEW h \in History, IsPrefix(g, h), h = Absent
    PROVE  g = Absent
<1>1. Len(g) <= 0 /\ Len(g) \in Nat
  BY PrefixMeaning, EmptySeq, LenProperties DEF History, Absent
<1> QED
  BY <1>1, EmptySeq DEF History, Absent

(* Two commits that are in each other's history are one.                   *)
LEMMA PrefixAntisymmetric ==
    ASSUME NEW g \in History, NEW h \in History, IsPrefix(g, h), IsPrefix(h, g)
    PROVE  g = h
<1>1. /\ Len(g) \in Nat /\ Len(h) \in Nat
      /\ Len(g) <= Len(h) /\ Len(h) <= Len(g)
      /\ \A i \in 1 .. Len(g) : g[i] = h[i]
  BY PrefixMeaning, LenProperties DEF History
<1> QED
  BY <1>1, SeqEqual DEF History

(* No commit is in the history of its parent.                              *)
LEMMA NotBeneath ==
    ASSUME NEW h \in History, h # Absent
    PROVE  ~IsPrefix(h, Front(h))
<1>1. h = WriteCommit(Last(h), Front(h)) /\ Last(h) \in Entry /\ Front(h) \in History
  BY FrontFacts
<1>2. Len(h) = Len(Front(h)) + 1 /\ Len(Front(h)) \in Nat
  BY <1>1, WriteCommitFacts, LenProperties DEF History
<1> QED
  BY <1>1, <1>2, PrefixMeaning

(* What the next index says, name by name.                                 *)
LEMMA NextPairFacts ==
    ASSUME PairKept, IInv, NEW c \in Calls, NEW listed, NEW next,
           listed = SourceEntries(IndexRef(c)), next = NextEntries(c)
    PROVE  /\ IsFcn(next) /\ DOMAIN next = DOMAIN listed \cup {job[c].name}
           /\ \A m \in DOMAIN next \ {job[c].name} :
                  m \in DOMAIN listed /\ next[m] = <<refs[m]>>
           /\ \/ next[job[c].name] = <<job[c].commit>>
              \/ /\ Op(c) = "anonymous" /\ job[c].name \in DOMAIN listed
                 /\ Len(next[job[c].name]) = 2
<1> DEFINE n == job[c].name
           commit == job[c].commit
<1>1. /\ \A m \in DOMAIN listed : listed[m] = <<refs[m]>>
      /\ IsFcn(listed)
  BY SourceIsIndexTree DEF IInv, IsFcn, SourceEntries
<1>2. \/ next = Overlay(listed, n, commit)
      \/ Op(c) = "anonymous" /\ next = Pushed(listed, n, commit)
  BY PairFacts DEF NextEntries
<1>3. CASE next = Overlay(listed, n, commit)
  BY <1>1, <1>3 DEF Overlay, IsFcn
<1>4. CASE Op(c) = "anonymous" /\ next = Pushed(listed, n, commit) /\ n \in DOMAIN listed
  <2>1. next = [listed EXCEPT ![n] = Append(listed[n], commit)]
    BY <1>4 DEF Pushed
  <2>2. next[n] = Append(<<refs[n]>>, commit)
    BY <1>1, <1>4, <2>1
  <2>3. Len(next[n]) = 2
    BY <2>2
  <2>4. IsFcn(next)
    BY <2>1 DEF IsFcn
  <2> QED
    BY <1>1, <1>4, <2>1, <2>3, <2>4
<1>5. CASE next = Pushed(listed, n, commit) /\ n \notin DOMAIN listed
  <2>1. next = Overlay(listed, n, commit)
    BY <1>5 DEF Pushed
  <2> QED
    BY <1>3, <2>1
<1> QED
  BY <1>2, <1>3, <1>4, <1>5

(* What holds of a call goes on holding while others step.                 *)
LEMMA PairBystander ==
    ASSUME PairKept, IInv, PairInv, BranchesGrow, NEW c \in Calls
    PROVE  PairOK(c, job[c], pc[c], refs')
<1> DEFINE n == job[c].name
           k == KindOf[n]
           new == job[c].batch[k].new
<1>1. PairOK(c, job[c], pc[c], refs)
  BY DEF PairInv
<1>2. IsJob(job[c]) /\ n \in Names
  BY CallFacts
<1>3. pc[c] = "source" => WithinRefs(job[c].index, refs')
  BY <1>1, <1>2, WithinGrows DEF PairOK, IsJob
<1>4. IsPrefix(job[c].commit, refs[n]) => IsPrefix(job[c].commit, refs'[n])
  BY <1>2, PairFacts, PrefixGrows DEF IsJob
<1>5. ASSUME k \in DOMAIN job[c].batch, NextOK(c, job[c], refs)
      PROVE  NextOK(c, job[c], refs')
  <2>1. IsIndexTree(k, new)
    BY <1>2, <1>5 DEF IsJob, IsBatch
  <2>2. \A m \in DOMAIN new \ {n} : IsPrefix(new[m][1], refs'[m])
    <3>1. TAKE m \in DOMAIN new \ {n}
    <3>2. IsPrefix(new[m][1], refs[m])
      BY <1>5 DEF NextOK
    <3>3. m \in BranchNames /\ new[m][1] \in History
      <4>1. m \in Names /\ new[m][1] \in History
        <5>1. PICK tree, i : tree = new /\ i = k
          OBVIOUS
        <5>2. IsIndexTree(i, tree) /\ m \in DOMAIN tree
          BY <2>1, <5>1
        <5>3. m \in Names /\ tree[m][1] \in History
          BY <5>2, FirstRow
        <5> QED
          BY <5>1, <5>3
      <4> QED
        BY <4>1, PairFacts
    <3> QED
      BY <3>2, <3>3, PrefixGrows
  <2>3. refs[n] # Absent => refs'[n] # Absent
    BY <1>2, PairFacts, AbsentPrefix DEF BranchesGrow
  <2> QED
    BY <1>5, <2>2, <2>3 DEF NextOK
<1> QED
  BY <1>1, <1>3, <1>4, <1>5 DEF PairOK

(* The index a call reads holds what the refs hold then.                   *)
LEMMA ReadingPairs ==
    ASSUME PairKept, IInv, PairInv, NEW c \in Calls, ReadIndex(c)
    PROVE  PairOK(c, job'[c], pc'[c], refs')
<1> USE Domains DEF Locals
<1> DEFINE n == job[c].name
           k == KindOf[n]
<1>1. PairOK(c, job[c], "index", refs) /\ n \in Names /\ k \in Kinds
  BY CallFacts, KindFacts DEF PairInv, ReadIndex
<1>2. /\ job'[c].name = n /\ job'[c].batch = job[c].batch
      /\ job'[c].index = refs[k] /\ refs' = refs /\ pc'[c] = "source"
  BY DEF ReadIndex, Goto, IndexRef
<1>3. refs[k] = SourceEntries(k)
  BY <1>1 DEF PairInv, IndexMatchesEntities
<1>4. \A m \in DOMAIN SourceEntries(k) : SourceEntries(k)[m] = <<refs[m]>>
  BY SourceIsIndexTree DEF IInv
<1>5. SingleRows(refs[k])
  BY <1>3, <1>4 DEF SingleRows
<1>6. WithinRefs(refs[k], refs)
  BY <1>3, SourceWithin
<1> QED
  BY <1>1, <1>2, <1>5, <1>6 DEF PairOK

(* The index a call is about to write lies between the one it expects and  *)
(* the refs.                                                               *)
LEMMA ListingPairs ==
    ASSUME PairKept, IInv, HInv, PairInv, NEW c \in Calls, ReadSource(c)
    PROVE  PairOK(c, job'[c], pc'[c], refs')
<1> DEFINE n == job[c].name
           k == KindOf[n]
           old == job[c].index
           new == NextEntries(c)
           listed == SourceEntries(k)
           commit == job[c].commit
<1>1. /\ n \in DOMAIN job[c].batch /\ SingleRows(old) /\ WithinRefs(old, refs)
      /\ n \in Names /\ IsIndexTree(k, old)
  BY CallFacts, ListFacts DEF PairInv, PairOK, IsJob
<1>2. /\ job'[c].name = n /\ job'[c].commit = commit /\ refs' = refs
      /\ n \in DOMAIN job'[c].batch /\ pc'[c] = "apply"
      /\ k \in DOMAIN job'[c].batch <=> new # old
      /\ k \in DOMAIN job'[c].batch => job'[c].batch[k] = Edit(old, new)
  BY <1>1, ListFacts
<1>3. /\ IsFcn(new) /\ DOMAIN new = DOMAIN listed \cup {n}
      /\ \A m \in DOMAIN new \ {n} : m \in DOMAIN listed /\ new[m] = <<refs[m]>>
      /\ \/ new[n] = <<commit>>
         \/ Op(c) = "anonymous" /\ n \in DOMAIN listed /\ Len(new[n]) = 2
  BY NextPairFacts DEF IndexRef
<1>4. \A m \in DOMAIN listed : m \in Names /\ refs[m] # Absent
  BY DEF SourceEntries
<1>5. \A m \in DOMAIN old :
          /\ m \in Names /\ KindOf[m] = k /\ IsPrefix(old[m][1], refs[m])
          /\ refs[m] # Absent
  <2>1. TAKE m \in DOMAIN old
  <2>2. /\ m \in Names /\ KindOf[m] = k /\ 1 \in DOMAIN old[m]
        /\ old[m][1] \in History /\ old[m][1] # Absent
    BY <1>1, FirstRow
  <2>3. IsPrefix(old[m][1], refs[m])
    BY <1>1, <2>2, PairFacts DEF WithinRefs
  <2>4. refs[m] \in History
    BY <2>2 DEF IInv, TypeOK
  <2> QED
    BY <2>2, <2>3, <2>4, AbsentPrefix
<1>6. DOMAIN old \subseteq DOMAIN listed
  BY <1>5 DEF SourceEntries
<1> HIDE DEF old, new, listed
<1>7. CASE new # old
  <2>1. \A m \in DOMAIN old \ {n} : m \in DOMAIN new /\ IsPrefix(old[m][1], new[m][1])
    BY <1>3, <1>5, <1>6
  <2>2. \A m \in DOMAIN new \ {n} : Len(new[m]) = 1 /\ IsPrefix(new[m][1], refs[m])
    <3>1. \A m \in Names : IsPrefix(refs[m], refs[m])
      BY PrefixReflexive DEF IInv, TypeOK
    <3> QED
      BY <1>3, <1>4, <3>1
  <2>3. n \in DOMAIN new
    BY <1>3
  <2>4. new[n] = <<commit>> \/ (Op(c) = "anonymous" /\ refs[n] # Absent)
    BY <1>3, <1>4
  <2>5. /\ k \in DOMAIN job'[c].batch
        /\ job'[c].batch[k].expected = old /\ job'[c].batch[k].new = new
    BY <1>2, <1>7 DEF Edit
  <2>6. NextOK(c, job'[c], refs)
    BY <1>2, <1>3, <2>1, <2>2, <2>3, <2>4, <2>5 DEF NextOK
  <2> QED
    BY <1>2, <2>5, <2>6 DEF PairOK
<1>8. CASE new = old
  <2>1. Len(new[n]) = 1 /\ n \in DOMAIN old
    BY <1>1, <1>3, <1>8 DEF SingleRows
  <2>2. new[n] = <<commit>>
    BY <1>3, <2>1
  <2>3. IsPrefix(commit, refs[n])
    BY <1>5, <1>8, <2>1, <2>2
  <2> QED
    BY <1>2, <1>8, <2>3 DEF PairOK
<1> QED
  BY <1>7, <1>8

(* A batch that lands found every ref where it was listed.                 *)
LEMMA WinningPairs ==
    ASSUME PairKept, IInv, HInv, PairInv, NEW c \in Calls, ApplyWins(c)
    PROVE  IndexMatchesEntities'
<1> DEFINE n == job[c].name
           k == KindOf[n]
           batch == job[c].batch
           old == batch[k].expected
           new == batch[k].new
           commit == job[c].commit
<1>1. /\ n \in Names /\ k \in Kinds /\ n \in DOMAIN batch
      /\ IF k \in DOMAIN batch THEN NextOK(c, job[c], refs) ELSE IsPrefix(commit, refs[n])
  BY CallFacts, KindFacts DEF PairInv, PairOK, ApplyWins
<1>2. /\ refs'[n] = commit
      /\ MovesAt(n, refs[n], commit)
      /\ commit \in History /\ refs[n] \in History
  <2>1. batch[n].new = commit
    BY <1>1, PairFacts DEF HInv, HistoryOK, Acknowledges, ApplyWins
  <2> QED
    BY <1>1, <2>1, ApplyMoves, CallFacts DEF IsJob, IInv, TypeOK
<1>3. Front(commit) = refs[n] /\ commit # Absent
  BY <1>2, PairFacts DEF MovesAt, Moves, Publishes, Tombstones, Present, Deleted
<1>4. Op(c) = "anonymous" => refs[n] = Absent
  BY <1>3, CallFacts DEF CallOK, ApplyWins, Publishes
<1>5. k \in DOMAIN batch /\ NextOK(c, job[c], refs)
  BY <1>1, <1>2, <1>3, NotBeneath
<1>6. refs[k] = old /\ refs'[k] = new /\ IsIndexTree(k, new)
  BY <1>5, ApplyMoves, CallFacts DEF ApplyWins, ExpectationsHold, IsJob, IsBatch
<1>7. refs[k] = SourceEntries(k)
  BY <1>1 DEF PairInv, IndexMatchesEntities
<1>8. /\ \A m \in Names : m # n => refs'[m] = refs[m]
      /\ \A q \in Kinds : q # k => refs'[q] = refs[q]
  BY ApplyMoves
<1>9. /\ IsFcn(new) /\ n \in DOMAIN new /\ new[n] = <<commit>>
      /\ \A m \in DOMAIN refs[k] \ {n} : m \in DOMAIN new /\ IsPrefix(refs[k][m][1], new[m][1])
      /\ \A m \in DOMAIN new \ {n} : Len(new[m]) = 1 /\ IsPrefix(new[m][1], refs[m])
  BY <1>4, <1>5, <1>6 DEF NextOK
<1> HIDE DEF batch, old, new
<1>10. \A m \in DOMAIN new \ {n} :
           m \in Names /\ KindOf[m] = k /\ refs[m] # Absent /\ new[m] = <<refs[m]>>
  <2>1. TAKE m \in DOMAIN new \ {n}
  <2>2. /\ m \in Names /\ KindOf[m] = k
        /\ new[m][1] \in History /\ new[m][1] # Absent
        /\ new[m] = <<new[m][1]>>
        /\ IsPrefix(new[m][1], refs[m])
    BY <1>6, <1>9, FirstRow
  <2>3. refs[m] \in History
    BY <2>2 DEF IInv, TypeOK
  <2>4. refs[m] # Absent
    BY <2>2, <2>3, AbsentPrefix
  <2>5. m \in DOMAIN refs[k] /\ refs[k][m] = <<refs[m]>>
    BY <1>7, <2>2, <2>4 DEF SourceEntries
  <2>6. IsPrefix(refs[m], new[m][1])
    BY <1>9, <2>5
  <2>7. new[m][1] = refs[m]
    BY <2>2, <2>3, <2>6, PrefixAntisymmetric
  <2> QED
    BY <2>2, <2>4, <2>7
<1>11. \A m \in Names : KindOf[m] = k /\ refs[m] # Absent => m \in DOMAIN new
  BY <1>7, <1>9 DEF SourceEntries
<1>12. ASSUME NEW q \in Kinds
       PROVE  refs'[q] = [m \in {m \in Names : KindOf[m] = q /\ refs'[m] # Absent} |-> <<refs'[m]>>]
  <2>1. CASE q # k
    <3>1. refs'[q] = [m \in {m \in Names : KindOf[m] = q /\ refs[m] # Absent} |-> <<refs[m]>>]
      BY <1>8, <1>12, <2>1 DEF PairInv, IndexMatchesEntities, SourceEntries
    <3>2. \A m \in Names : KindOf[m] = q => refs'[m] = refs[m]
      BY <1>8, <2>1
    <3> QED
      BY <3>1, <3>2
  <2>2. CASE q = k
    <3>1. DOMAIN new = {m \in Names : KindOf[m] = k /\ refs'[m] # Absent}
      <4>1. ASSUME NEW m \in DOMAIN new
            PROVE  m \in Names /\ KindOf[m] = k /\ refs'[m] # Absent
        BY <1>1, <1>2, <1>3, <1>8, <1>10
      <4>2. ASSUME NEW m \in Names, KindOf[m] = k, refs'[m] # Absent
            PROVE  m \in DOMAIN new
        BY <1>8, <1>9, <1>11, <4>2
      <4> QED
        BY <4>1, <4>2
    <3>2. \A m \in DOMAIN new : new[m] = <<refs'[m]>>
      BY <1>2, <1>8, <1>9, <1>10
    <3>3. new = [m \in DOMAIN new |-> new[m]]
      BY <1>9 DEF IsFcn
    <3> QED
      BY <1>6, <2>2, <3>1, <3>2, <3>3
  <2> QED
    BY <2>1, <2>2
<1> QED
  BY <1>12 DEF IndexMatchesEntities, SourceEntries

(* Whatever a call does, the index it is about to write lies between the   *)
(* one it expects and the refs,                                            *)
LEMMA PairStep ==
    ASSUME PairKept, IInv, HInv, SInv, PairInv, [Next]_vars,
           NEW c \in Calls, Start(c) \/ Step(c)
    PROVE  PairOK(c, job'[c], pc'[c], refs')
<1> USE Domains DEF Locals
<1> DEFINE n == job[c].name
<1>1. Op(c) \in {"publish", "update", "delete", "anonymous"}
  BY PairFacts
<1>2. CASE pc'[c] \notin {"index", "source", "apply"}
  BY <1>2 DEF PairOK
<1>3. CASE ReadIndex(c) \/ ReadSource(c)
  BY <1>3, ReadingPairs, ListingPairs
<1>4. CASE ResolveNext(c) \/ DeleteLive(c) \/ AnonymousCreate(c)
  <2>1. PICK commit, expected :
            /\ job'[c].batch = WithEdit(NoEdits, n, Edit(expected, commit))
            /\ job'[c].name = n /\ pc'[c] = "index"
    <3>1. CASE ResolveNext(c)
      BY <3>1 DEF ResolveNext, Goto
    <3>2. CASE DeleteLive(c)
      BY <3>2 DEF DeleteLive, Goto
    <3>3. CASE AnonymousCreate(c)
      BY <3>3 DEF AnonymousCreate, Goto
    <3> QED
      BY <1>4, <3>1, <3>2, <3>3
  <2> QED
    BY <2>1, NoEditsFacts DEF WithEdit, PairOK
<1>5. CASE ResolveSame(c)
  <2>1. SoleWriter(c)
    BY <1>5 DEF PairKept, ResolveSame
  <2> QED
    BY <1>5, <2>1, NeverSame DEF ResolveSame
<1>6. CASE \/ Start(c) \/ UpdateRead(c) \/ UpdateExpect(c) \/ ResolveStale(c)
           \/ DeleteAbsent(c) \/ DeleteRepeated(c)
           \/ AnonymousMint(c) \/ AnonymousThere(c)
           \/ ApplyWins(c) \/ ApplyLoses(c) \/ ApplyFails(c)
  <2>1. FirstStep[Op(c)] \in {"resolve", "read", "mint"}
    BY <1>1 DEF FirstStep
  <2>2. RetryStep[Op(c)] \in {"resolve", "check"}
    BY <1>1 DEF RetryStep
  <2>3. pc'[c] \in {"resolve", "read", "mint", "expect", "refused", "check",
                   "absent", "deleted", "ok", "stale", "failed"}
    BY <1>6, <2>1, <2>2
       DEF Start, UpdateRead, UpdateExpect, ResolveStale, DeleteAbsent,
           DeleteRepeated, AnonymousMint, AnonymousThere, ApplyWins,
           ApplyLoses, ApplyFails, Goto
  <2> QED
    BY <1>2, <2>3
<1>7. ~(RemoveAbsent(c) \/ RemovePresent(c) \/ RebuildScan(c) \/ RebuildSwap(c))
  BY <1>1 DEF RemoveAbsent, RemovePresent, RebuildScan, RebuildSwap, At
<1> QED
  BY <1>3, <1>4, <1>5, <1>6, <1>7 DEF Step

(* so the index stays the mapping of the entity refs.                      *)
LEMMA PairNext ==
    PairKept /\ IInv /\ HInv /\ SInv /\ PairInv /\ [Next]_vars => PairInv'
<1> SUFFICES ASSUME PairKept, IInv, HInv, SInv, PairInv, [Next]_vars
             PROVE  PairInv'
  OBVIOUS
<1>1. ASSUME NEW d \in Calls
      PROVE  PairOK(d, job'[d], pc'[d], refs')
  <2>1. PairOK(d, job[d], pc[d], refs')
    BY PairBystander, CallsGrow
  <2>2. CASE UNCHANGED <<job, pc>>
    BY <2>1, <2>2
  <2>3. ASSUME NEW c \in Calls, Start(c) \/ Step(c)
        PROVE  PairOK(d, job'[d], pc'[d], refs')
    BY <2>1, <2>3, OtherCallsStay, PairStep
  <2> QED
    BY <2>2, <2>3 DEF Next, vars, Tick, Finished
<1>2. IndexMatchesEntities'
  <2>1. CASE UNCHANGED refs
    BY <2>1 DEF PairInv, IndexMatchesEntities, SourceEntries
  <2> QED
    BY <2>1, OnlyApplyMovesRefs, WinningPairs
<1>3. (\A c \in Calls : PairOK(c, job[c], pc[c], refs))'
  BY <1>1
<1> QED
  BY <1>2, <1>3 DEF PairInv

(* The index is always exactly the mapping of the entity refs, while       *)
(* nobody publishes what somebody else publishes at the same name, and     *)
(* nobody prunes, grafts or rebuilds (kind.rs, on the pair; index.rs,      *)
(* edit).  Without any one of these the pair comes apart.                  *)
THEOREM PairStaysTogether ==
    ASSUME PairKept PROVE Spec => []IndexMatchesEntities
<1>1. Init => PairInv
  <2> SUFFICES ASSUME Init
               PROVE  PairInv
    OBVIOUS
  <2>1. IndexMatchesEntities
    <3>1. ASSUME NEW k \in Kinds
          PROVE  refs[k] = SourceEntries(k)
      <4>1. refs[k] = <<>> /\ \A n \in Names : refs[n] = Absent
        BY DEF Init, Absent
      <4>2. DOMAIN SourceEntries(k) = {}
        BY <4>1 DEF SourceEntries
      <4>3. DOMAIN <<>> = {}
        OBVIOUS
      <4> QED
        BY <4>1, <4>2, <4>3 DEF SourceEntries
    <3> QED
      BY <3>1 DEF IndexMatchesEntities
  <2>2. \A c \in Calls : PairOK(c, job[c], pc[c], refs)
    BY DEF Init, PairOK
  <2> QED
    BY <2>1, <2>2 DEF PairInv
<1>2. PairInv => IndexMatchesEntities
  BY DEF PairInv
<1> QED
  BY <1>1, <1>2, Invariant, HistoryInvariant, SoleInvariant, PairNext, PTL DEF Spec
=============================================================================
