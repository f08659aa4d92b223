------------------------------ MODULE Entities ------------------------------
(***************************************************************************)
(* The entity operations of git-store (crates/git-store/src/kind.rs) run   *)
(* concurrently against one ref store.                                     *)
(*                                                                         *)
(* Each element of Calls is one invocation of an API operation, in some    *)
(* thread or process; it may start at any time and takes one step per      *)
(* access to the ref store.  Between two of its steps any other call may   *)
(* move the refs it has read.  The store is the atomic one that            *)
(* gix-refstore promises (store.rs; memory.rs is it, GixRefStore.tla shows *)
(* that the git backend implements it).                                    *)
(*                                                                         *)
(* `refs` maps an entity name to the commit it points at, and a kind to    *)
(* its materialized index: a tree with rows of a name and a commit, here   *)
(* the function from each name to the commits of its rows.  A name has one *)
(* row, but for one a code path pushes without looking for it.  The empty  *)
(* function is the sequence <<>>, so Absent also stands for an index ref   *)
(* that does not exist, and an index with no row is a deleted index ref,   *)
(* as in index.rs.                                                         *)
(***************************************************************************)
EXTENDS Commits, RefEdits

CONSTANTS
  Names,       \* entity names, over all kinds
  Kinds,       \* kinds; also the name of each kind's index ref
  KindOf,      \* the kind each name belongs to
  Calls,       \* invocations
  Request,     \* what each invocation asks for
  CommitName,  \* the content-derived name of a root commit
  Contended    \* calls whose batch the backend may turn down at any time

Ops == {"publish", "update", "delete", "remove", "rebuild", "anonymous"}

\* PublishOptions: an explicit expectation makes the publication one-shot,
\* and a parent commit the caller names replaces the tip as its parent.
Requests ==
    {request \in [op : Ops, name : Names, doc : Docs,
                  guarded : BOOLEAN, grafted : BOOLEAN] :
        request.guarded \/ request.grafted => request.op = "publish"}

ASSUME RefsAssumption == Names \cap Kinds = {}
ASSUME KindAssumption == KindOf \in [Names -> Kinds]
ASSUME RequestAssumption == Request \in [Calls -> Requests]
ASSUME CommitNameAssumption == CommitName \in [Docs \X Times -> Names]

VARIABLES
  refs,    \* the ref store
  clock,   \* the second the committer signature is stamped with
  pc,      \* where each call is, or how it returned
  job      \* the local variables of each call

vars == <<refs, clock, pc, job>>

Working == {"mint", "check", "scan", "swap", "read", "expect", "resolve",
            "index", "source", "apply"}
Returned == {"ok", "stale", "absent", "deleted", "refused", "failed"}

-----------------------------------------------------------------------------
(* Helpers *)

Op(c) == Request[c].op
Tip(c) == refs[job[c].name]
IndexRef(c) == KindOf[job[c].name]

At(c, op, label) == Op(c) = op /\ pc[c] = label
Publishing(c) == Op(c) \in {"publish", "update"}

\* An update always publishes under the expectation it read.
Guarded(c) == Op(c) = "update" \/ Request[c].guarded
\* A plausible bug: a one-shot publication is tried again like any other.
RetriesAlways(c) == TRUE

\* Only a publication with an explicit expectation is not retried.
Retries(c) == ~Request[c].guarded

\* The entity refs of a kind: what the ref store lists under its prefix.  The
\* listing takes no snapshot; here it is one step.  A row that has moved on by the
\* end of a longer listing would be one its name held during it, and the histories
\* of names grow: it could make an index lag, as an early listing can.
SourceEntries(k) ==
    LET present == {n \in Names : KindOf[n] = k /\ refs[n] # Absent}
    IN  [n \in present |-> <<refs[n]>>]

\* `entries` without `name`; with `name` at `commit`; and with one more row.
Without(entries, name) == [n \in DOMAIN entries \ {name} |-> entries[n]]
Overlay(entries, name, commit) ==
    [n \in DOMAIN entries \cup {name} |->
        IF n = name THEN <<commit>> ELSE entries[n]]
Pushed(entries, name, commit) ==
    IF name \in DOMAIN entries
    THEN [entries EXCEPT ![name] = Append(@, commit)]
    ELSE Overlay(entries, name, commit)

\* The batch with the edit that brings the index ref to `next`, if any.
WithIndexEdit(batch, k, current, next) ==
    IF next = current THEN batch ELSE WithEdit(batch, k, Edit(current, next))

\* Commits a caller may have been given earlier for a name: its history.
Tokens(n) == Prefixes(refs[n])
AllTokens == UNION {Tokens(n) : n \in Names}

Goto(c, label) == pc' = [pc EXCEPT ![c] = label]

-----------------------------------------------------------------------------
(* Issuing a call.  A guarded publication carries the expectation its      *)
(* caller chose, a grafted one the parent commit its caller chose.         *)

FirstStep ==
    [publish |-> "resolve", update |-> "read", delete |-> "resolve",
     remove |-> "resolve", rebuild |-> "scan", anonymous |-> "mint"]

Start(c) ==
    /\ pc[c] = "idle"
    /\ \E expect \in IF Request[c].guarded THEN Tokens(Request[c].name)
                                           ELSE {Absent},
          parent \in IF Request[c].grafted THEN AllTokens ELSE {Absent} :
          job' = [job EXCEPT ![c].expect = expect, ![c].parent = parent]
    /\ Goto(c, FirstStep[Op(c)])
    /\ UNCHANGED <<refs, clock>>

-----------------------------------------------------------------------------
(* Kind::try_update: read the entry, rebuild a value from it, read the ref *)
(* again for the expectation, then publish under that expectation.  The    *)
(* caller's rebuild may refuse what it is shown.                           *)

UpdateRead(c) ==
    /\ At(c, "update", "read")
    /\ job' = [job EXCEPT ![c].base = Tip(c)]
    /\ Goto(c, "expect") \/ Goto(c, "refused")
    /\ UNCHANGED <<refs, clock>>

UpdateExpect(c) ==
    /\ At(c, "update", "expect")
    /\ job' = [job EXCEPT ![c].expect = Tip(c)]
    /\ Goto(c, "resolve")
    /\ UNCHANGED <<refs, clock>>

-----------------------------------------------------------------------------
(* Kind::resolve_publish, the first part of the loop of                    *)
(* publish_document_checked: read the ref once, check the expectation      *)
(* against it, and build the commit and the edit, if one is needed.        *)

Stale(c) == Guarded(c) /\ Tip(c) # job[c].expect

ResolveStale(c) ==
    /\ Publishing(c) /\ pc[c] = "resolve"
    /\ Stale(c)
    /\ Goto(c, IF Retries(c) THEN "read" ELSE "stale")
    /\ UNCHANGED <<refs, clock, job>>

ResolveSame(c) ==
    /\ Publishing(c) /\ pc[c] = "resolve"
    /\ ~Stale(c)
    /\ Carries(Tip(c), job[c].doc)
    /\ job' = [job EXCEPT ![c].commit = Tip(c), ![c].batch = NoEdits]
    /\ Goto(c, "index")
    /\ UNCHANGED <<refs, clock>>

\* A plausible bug: only a parent the caller named is recorded.
NamedParent(c) == job[c].parent

\* The parent is the one the caller named, else the tip being replaced.
ParentOf(c) == IF job[c].parent # Absent THEN job[c].parent ELSE Tip(c)

ResolveNext(c) ==
    /\ Publishing(c) /\ pc[c] = "resolve"
    /\ ~Stale(c)
    /\ ~Carries(Tip(c), job[c].doc)
    /\ LET commit == WriteCommit(LiveEntry(job[c].doc, clock), ParentOf(c))
       IN  job' = [job EXCEPT ![c].commit = commit,
                              ![c].batch = WithEdit(NoEdits, job[c].name,
                                                    Edit(Tip(c), commit))]
    /\ Goto(c, "index")
    /\ UNCHANGED <<refs, clock>>

-----------------------------------------------------------------------------
(* Kind::delete_name: a tombstone over the current tip.                    *)

DeleteAbsent(c) ==
    /\ At(c, "delete", "resolve")
    /\ Tip(c) = Absent
    /\ Goto(c, "absent")
    /\ UNCHANGED <<refs, clock, job>>

DeleteRepeated(c) ==
    /\ At(c, "delete", "resolve")
    /\ Deleted(Tip(c))
    /\ Goto(c, "deleted")
    /\ UNCHANGED <<refs, clock, job>>

\* A plausible bug: the tombstone names the document the caller asked about.
RequestedTombstone(c) == TombstoneEntry(Request[c].doc, clock)

\* The tombstone names the document at the tip it replaces.
TombstoneOfTip(c) == TombstoneEntry(Last(Tip(c)).doc, clock)

\* A plausible bug: a deleted entity is deleted again.
DeleteAgain(c) ==
    /\ At(c, "delete", "resolve")
    /\ Tip(c) # Absent
    /\ LET commit == WriteCommit(TombstoneOfTip(c), Tip(c))
       IN  job' = [job EXCEPT ![c].commit = commit,
                              ![c].batch = WithEdit(NoEdits, job[c].name,
                                                    Edit(Tip(c), commit))]
    /\ Goto(c, "index")
    /\ UNCHANGED <<refs, clock>>

DeleteLive(c) ==
    /\ At(c, "delete", "resolve")
    /\ Present(Tip(c))
    /\ LET commit == WriteCommit(TombstoneOfTip(c), Tip(c))
       IN  job' = [job EXCEPT ![c].commit = commit,
                              ![c].batch = WithEdit(NoEdits, job[c].name,
                                                    Edit(Tip(c), commit))]
    /\ Goto(c, "index")
    /\ UNCHANGED <<refs, clock>>

-----------------------------------------------------------------------------
(* Kind::remove: prune the name.                                           *)

RemoveAbsent(c) ==
    /\ At(c, "remove", "resolve")
    /\ Tip(c) = Absent
    /\ Goto(c, "absent")
    /\ UNCHANGED <<refs, clock, job>>

RemovePresent(c) ==
    /\ At(c, "remove", "resolve")
    /\ Tip(c) # Absent
    /\ job' = [job EXCEPT ![c].commit = Absent,
                          ![c].batch = WithEdit(NoEdits, job[c].name,
                                                Edit(Tip(c), Absent))]
    /\ Goto(c, "index")
    /\ UNCHANGED <<refs, clock>>

-----------------------------------------------------------------------------
(* Kind::publish_named_by_commit: the commit is written once, named after  *)
(* itself, and created at that name.                                       *)

AnonymousMint(c) ==
    /\ At(c, "anonymous", "mint")
    /\ job' = [job EXCEPT ![c].commit = WriteCommit(LiveEntry(job[c].doc, clock), Absent),
                          ![c].name = CommitName[<<job[c].doc, clock>>]]
    /\ Goto(c, "check")
    /\ UNCHANGED <<refs, clock>>

AnonymousThere(c) ==
    /\ At(c, "anonymous", "check")
    /\ Tip(c) = job[c].commit
    /\ Goto(c, "ok")
    /\ UNCHANGED <<refs, clock, job>>

AnonymousCreate(c) ==
    /\ At(c, "anonymous", "check")
    /\ Tip(c) # job[c].commit
    /\ job' = [job EXCEPT ![c].batch = WithEdit(NoEdits, job[c].name,
                                                Edit(Absent, job[c].commit))]
    /\ Goto(c, "index")
    /\ UNCHANGED <<refs, clock>>

-----------------------------------------------------------------------------
(* The rest of every write: read the index ref, list the entity refs,      *)
(* build the next index from them, and apply both edits as one batch.      *)

ReadIndex(c) ==
    /\ pc[c] = "index"
    /\ job' = [job EXCEPT ![c].index = refs[IndexRef(c)]]
    /\ Goto(c, "source")
    /\ UNCHANGED <<refs, clock>>

\* A plausible bug: a pruned name is overlaid like a published one.
OverlaidEntries(c) ==
    Overlay(SourceEntries(IndexRef(c)), job[c].name, job[c].commit)

NextEntries(c) ==
    LET source == SourceEntries(IndexRef(c))
    IN  CASE Op(c) = "remove" -> Without(source, job[c].name)
          [] Op(c) = "anonymous" -> Pushed(source, job[c].name, job[c].commit)
          [] OTHER -> Overlay(source, job[c].name, job[c].commit)

ReadSource(c) ==
    /\ pc[c] = "source"
    /\ LET batch == WithIndexEdit(job[c].batch, IndexRef(c), job[c].index, NextEntries(c))
       IN  /\ job' = [job EXCEPT ![c].batch = batch, ![c].index = Absent]
           /\ Goto(c, IF DOMAIN batch = {} THEN "ok" ELSE "apply")
    /\ UNCHANGED <<refs, clock>>

-----------------------------------------------------------------------------
(* Kind::rebuild_index: the entity refs first, then the index ref.         *)

RebuildScan(c) ==
    /\ At(c, "rebuild", "scan")
    /\ job' = [job EXCEPT ![c].entries = SourceEntries(IndexRef(c))]
    /\ Goto(c, "swap")
    /\ UNCHANGED <<refs, clock>>

RebuildSwap(c) ==
    /\ At(c, "rebuild", "swap")
    /\ LET current == refs[IndexRef(c)]
           edit == Edit(current, job[c].entries)
           needed == current # Absent \/ job[c].entries # Absent
       IN  /\ job' = [job EXCEPT ![c].entries = Absent,
                                  ![c].batch =
                         IF needed THEN WithEdit(NoEdits, IndexRef(c), edit) ELSE NoEdits]
           /\ Goto(c, IF needed THEN "apply" ELSE "ok")
    /\ UNCHANGED <<refs, clock>>

-----------------------------------------------------------------------------
(* RefStore::apply_batch and what each loop does with a lost race.         *)

\* Where the loop of each operation starts over.
RetryStep ==
    [publish |-> "resolve", update |-> "resolve", delete |-> "resolve",
     remove |-> "resolve", rebuild |-> "scan", anonymous |-> "check"]

\* A plausible bug: the batch is published whatever the refs hold now.
ApplyUnchecked(c) ==
    /\ pc[c] = "apply"
    /\ refs' = Landed(refs, job[c].batch)
    /\ job' = [job EXCEPT ![c].batch = NoEdits]
    /\ Goto(c, "ok")
    /\ UNCHANGED clock

\* A plausible bug: a lost race returns to the batch that lost it.
LoseSameBatch(c) ==
    /\ pc[c] = "apply"
    /\ ~ExpectationsHold(refs, job[c].batch)
    /\ UNCHANGED vars

ApplyWins(c) ==
    /\ pc[c] = "apply"
    /\ ExpectationsHold(refs, job[c].batch)
    /\ refs' = Landed(refs, job[c].batch)
    /\ job' = [job EXCEPT ![c].batch = NoEdits]
    /\ Goto(c, "ok")
    /\ UNCHANGED clock

\* A lost race: an expectation has failed, or git holds one of the locks although
\* all of them hold (LockAcquire and PackedTransactionAcquire in classify_batch).
ApplyLoses(c) ==
    /\ pc[c] = "apply"
    /\ ~ExpectationsHold(refs, job[c].batch) \/ c \in Contended
    /\ job' = [job EXCEPT ![c].batch = NoEdits]
    /\ Goto(c, IF Retries(c) THEN RetryStep[Op(c)] ELSE "stale")
    /\ UNCHANGED <<refs, clock>>

\* ApplyError::Backend: the batch failed for another reason, and nothing landed.
ApplyFails(c) ==
    /\ pc[c] = "apply" /\ c \in Contended
    /\ job' = [job EXCEPT ![c].batch = NoEdits]
    /\ Goto(c, "failed")
    /\ UNCHANGED <<refs, clock>>

-----------------------------------------------------------------------------
Init ==
    /\ refs = [r \in Names \cup Kinds |-> Absent]
    /\ clock = 0
    /\ pc = [c \in Calls |-> "idle"]
    /\ job = [c \in Calls |->
                [name |-> Request[c].name, doc |-> Request[c].doc,
                 expect |-> Absent, parent |-> Absent, base |-> Absent,
                 commit |-> Absent, index |-> Absent, entries |-> Absent,
                 batch |-> NoEdits]]

Step(c) ==
    \/ UpdateRead(c) \/ UpdateExpect(c)
    \/ ResolveStale(c) \/ ResolveSame(c) \/ ResolveNext(c)
    \/ DeleteAbsent(c) \/ DeleteRepeated(c) \/ DeleteLive(c)
    \/ RemoveAbsent(c) \/ RemovePresent(c)
    \/ AnonymousMint(c) \/ AnonymousThere(c) \/ AnonymousCreate(c)
    \/ ReadIndex(c) \/ ReadSource(c)
    \/ RebuildScan(c) \/ RebuildSwap(c)
    \/ ApplyWins(c) \/ ApplyLoses(c) \/ ApplyFails(c)

\* The wall clock reaches the next second; MaxTime bounds it.
Tick ==
    /\ clock + 1 \in Times
    /\ clock' = clock + 1
    /\ UNCHANGED <<refs, pc, job>>

Finished ==
    /\ \A c \in Calls : pc[c] \in Returned
    /\ UNCHANGED vars

Next ==
    \/ \E c \in Calls : Start(c)
    \/ \E c \in Calls : Step(c)
    \/ Tick
    \/ Finished

\* A call that was issued keeps running; nobody has to issue one, and the
\* clock need not advance.
Fairness == \A c \in Calls : WF_vars(Step(c))

Spec == Init /\ [][Next]_vars
FairSpec == Spec /\ Fairness

-----------------------------------------------------------------------------
(* Properties *)

PrunedNames == {Request[c].name : c \in {d \in Calls : Op(d) = "remove"}}
GraftedNames == {Request[c].name : c \in {d \in Calls : Request[d].grafted}}
BranchNames == Names \ (PrunedNames \cup GraftedNames)

\* An index tree of a kind: rows of some of its names, each with a commit.
IsIndexTree(k, tree) ==
    /\ DOMAIN tree \subseteq {n \in Names : KindOf[n] = k}
    /\ \A n \in DOMAIN tree : /\ tree[n] \in Seq(History \ {Absent})
                              /\ tree[n] # <<>>

\* A batch of a call at a name: an edit of the entity ref, of the index ref
\* of its kind, or of both.
IsBatch(name, batch) ==
    /\ DOMAIN batch \subseteq {name, KindOf[name]}
    /\ name \in DOMAIN batch =>
           {batch[name].expected, batch[name].new} \subseteq History
    /\ KindOf[name] \in DOMAIN batch =>
           IsIndexTree(KindOf[name], batch[KindOf[name]].new)

Locals == {"name", "doc", "expect", "parent", "base", "commit", "index",
           "entries", "batch"}

IsJob(j) ==
    /\ DOMAIN j = Locals
    /\ j.name \in Names /\ j.doc \in Docs
    /\ {j.expect, j.parent, j.base, j.commit} \subseteq History
    /\ IsIndexTree(KindOf[j.name], j.index)
    /\ IsIndexTree(KindOf[j.name], j.entries)
    /\ IsBatch(j.name, j.batch)

(* Every variable has its type; an index lists names of its own kind only. *)
TypeOK ==
    /\ DOMAIN refs = Names \cup Kinds
    /\ \A n \in Names : refs[n] \in History
    /\ \A k \in Kinds : IsIndexTree(k, refs[k])
    /\ clock \in Times
    /\ pc \in [Calls -> {"idle"} \cup Working \cup Returned]
    /\ DOMAIN job = Calls
    /\ \A c \in Calls : IsJob(job[c])

Log == INSTANCE EntityLog WITH
           log <- [n \in Names |-> refs[n]],
           Pruned <- PrunedNames, Grafted <- GraftedNames

(***************************************************************************)
(* Whatever the calls interleave, every entity ref moves like a branch:    *)
(* the concurrent operations implement EntityLog.                          *)
(***************************************************************************)
ImplementsLog == Log!Spec

(***************************************************************************)
(* A publication a caller was told of stays in the history of its name,    *)
(* through any later publication, deletion or retry, unless some caller    *)
(* prunes or grafts that name.                                             *)
(***************************************************************************)
AcknowledgedStaysReachable ==
    \A c \in Calls :
        (/\ pc[c] = "ok"
         /\ Op(c) \in {"publish", "update", "delete", "anonymous"}
         /\ job[c].name \in BranchNames)
        => IsPrefix(job[c].commit, Tip(c))

(***************************************************************************)
(* The index may lag behind the entity refs but never lists a commit its   *)
(* name has not held: it is written with the ref or after it, never        *)
(* before, and a lost batch leaves no trace in it.                         *)
(***************************************************************************)
IndexWithinHistory ==
    \A n \in BranchNames :
        n \in DOMAIN refs[KindOf[n]] =>
            \A i \in DOMAIN refs[KindOf[n]][n] :
                IsPrefix(refs[KindOf[n]][n][i], refs[n])

\* Call c may publish its document at name n.
PublishesAt(c, n) ==
    \/ Publishing(c) /\ n = Request[c].name
    \/ Op(c) = "anonymous" /\ \E t \in Times : n = CommitName[<<Request[c].doc, t>>]

\* Nobody else publishes the document of call c at its name.
SoleWriter(c) ==
    \A d \in Calls \ {c} :
        Request[d].doc = Request[c].doc => ~PublishesAt(d, Request[c].name)

\* No other call publishes the document of a one-shot publication at its name.
OneShotsAreSole == \A c \in Calls : Request[c].guarded => SoleWriter(c)

\* What the calls must be for the pair of entity ref and index to stay one:
\* no publication finds its document published by somebody else, and no call
\* takes a ref back to a commit it has left, or repairs the index.
PairKept ==
    \A c \in Calls :
        /\ Op(c) \notin {"remove", "rebuild"} /\ ~Request[c].grafted
        /\ Publishing(c) => SoleWriter(c)

(***************************************************************************)
(* "Writes through Kind maintain the pair atomically": the index is always *)
(* exactly the mapping of the entity refs.                                 *)
(***************************************************************************)
IndexMatchesEntities == \A k \in Kinds : refs[k] = SourceEntries(k)

(***************************************************************************)
(* A one-shot publication has one batch, and that is one compare-and-swap  *)
(* on the ref it names: it changes the store only while its expectation    *)
(* holds, and is over, never tried again, when the batch is turned down.   *)
(***************************************************************************)
OneShotHoldsAtBatch ==
    [][\A c \in Calls :
        (/\ Op(c) = "publish" /\ Request[c].guarded
         /\ pc[c] = "apply" /\ pc'[c] # "apply")
        => /\ pc'[c] \in Returned
           /\ pc'[c] = "ok" => Tip(c) = job[c].expect]_vars

(***************************************************************************)
(* The rebuild of an update sees the entry its publication replaces, never *)
(* one read before a concurrent write landed.                              *)
(***************************************************************************)
SeenBy(commit) == IF Present(commit) THEN commit ELSE Absent
UpdateSeesWhatItReplaces ==
    [][\A c \in Calls :
        (Op(c) = "update" /\ pc[c] = "apply" /\ pc'[c] = "ok")
        => SeenBy(Tip(c)) = SeenBy(job[c].base)]_vars

(***************************************************************************)
(* Every call that was issued returns, as long as the backend turns down   *)
(* no batch of a call that retries but for a lost expectation: each retry  *)
(* is paid for by another call's success, and there are finitely many      *)
(* calls.                                                                  *)
(***************************************************************************)
CallsReturn == <>[](\A c \in Calls : pc[c] \notin Working)
=============================================================================
