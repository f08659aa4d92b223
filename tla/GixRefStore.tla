---------------------------- MODULE GixRefStore -----------------------------
(***************************************************************************)
(* apply_batch of the git backend (crates/gix-refstore/src/repo.rs), step  *)
(* by step, for writers in any number of threads and processes.            *)
(*                                                                         *)
(* A batch takes one lock file per ref it touches, in name order, checks   *)
(* its edits against the refs one by one, hands them to gix's              *)
(* edit_references, and drops the locks.  gix itself is external: it       *)
(* compares every edit again when it prepares the transaction, may refuse  *)
(* it there, and then moves the refs one at a time.                        *)
(*                                                                         *)
(* Every writer here goes through this type; a git process that writes a   *)
(* ref without taking the lock file shows only as gix refusing to prepare. *)
(***************************************************************************)
EXTENDS RefEdits, Naturals

CONSTANTS
  Writers,     \* callers of apply_batch: threads or processes
  Refs,        \* ref names, as numbers in name order
  Values,      \* object ids
  Absent,      \* what a ref that does not exist points at
  Batches,     \* the batches callers may submit
  Breakable,   \* writers that may be killed, interrupted or fail to write
  Impatient,   \* whether a lock may stay held for longer than LOCK_TIMEOUT
  Nobody       \* the holder of a lock file that does not exist

Objects == Values \cup {Absent}

\* RefEdit: Create, Update or Delete, never an expected and a new absence.
RefEditRecords ==
    {Edit(e, n) : e \in Objects, n \in Objects} \ {Edit(Absent, Absent)}

ASSUME RefsOrdered == Refs \subseteq Nat
ASSUME AbsentAssumption == Absent \notin Values
ASSUME NobodyAssumption == Nobody \notin Writers
ASSUME BatchesAssumption ==
    \A b \in Batches : /\ b = [r \in DOMAIN b |-> b[r]]
                       /\ DOMAIN b \subseteq Refs
                       /\ \A r \in DOMAIN b : b[r] \in RefEditRecords

VARIABLES
  refs,     \* the object each ref points at
  owner,    \* who holds the lock file of each ref
  pc,       \* where each writer is in apply_batch
  batch,    \* the edits each writer was given
  todo,     \* the refs of the batch the current phase has yet to reach
  result    \* what the call of each writer is about to return

vars == <<refs, owner, pc, batch, todo, result>>

Held(w) == {r \in Refs : owner[r] = w}

Goto(w, label) == pc' = [pc EXCEPT ![w] = label]

\* The phase still has `rest` to do, or goes on to `next` with the whole
\* batch before it.
Advance(w, rest, next) ==
    /\ todo' = [todo EXCEPT ![w] = IF rest = {} THEN DOMAIN batch[w] ELSE rest]
    /\ Goto(w, IF rest = {} THEN next ELSE pc[w])

\* The call is over but for the locks it still holds.
End(w, how) ==
    /\ result' = [result EXCEPT ![w] = how]
    /\ todo' = [todo EXCEPT ![w] = {}]
    /\ Goto(w, "releasing")

-----------------------------------------------------------------------------
Submit(w) ==
    /\ pc[w] = "idle"
    /\ \E edits \in Batches \ {NoEdits} :
          /\ batch' = [batch EXCEPT ![w] = edits]
          /\ todo' = [todo EXCEPT ![w] = DOMAIN edits]
    /\ Goto(w, "locking")
    /\ UNCHANGED <<refs, owner, result>>

\* An empty batch returns before it takes any lock.
SubmitNothing(w) ==
    /\ pc[w] = "idle"
    /\ NoEdits \in Batches
    /\ End(w, "ok")
    /\ UNCHANGED <<refs, owner, batch>>

\* A plausible bug: locks are taken in the order the edits were staged.
StagedNext(w, r) == r \in todo[w]

\* The names of the batch are a BTreeSet: the least one left is next.
IsNext(w, r) == r \in todo[w] /\ \A s \in todo[w] : r <= s

\* GixRefStore::lock: create the lock file.
Lock(w, r) ==
    /\ pc[w] = "locking"
    /\ IsNext(w, r)
    /\ owner[r] = Nobody
    /\ owner' = [owner EXCEPT ![r] = w]
    /\ Advance(w, todo[w] \ {r}, "checking")
    /\ UNCHANGED <<refs, batch, result>>

\* The lock file stayed there for LOCK_TIMEOUT.
LockTimesOut(w, r) ==
    /\ Impatient
    /\ pc[w] = "locking"
    /\ IsNext(w, r)
    /\ owner[r] # Nobody
    /\ End(w, "failed")
    /\ UNCHANGED <<refs, owner, batch>>

\* A plausible bug: only gix compares the edits with the refs.
CheckSkipped(w, r) ==
    /\ pc[w] = "checking"
    /\ r \in todo[w]
    /\ Advance(w, todo[w] \ {r}, "preparing")
    /\ UNCHANGED <<refs, owner, batch, result>>

CheckHolds(w, r) ==
    /\ pc[w] = "checking"
    /\ r \in todo[w]
    /\ refs[r] = batch[w][r].expected
    /\ Advance(w, todo[w] \ {r}, "preparing")
    /\ UNCHANGED <<refs, owner, batch, result>>

CheckFails(w, r) ==
    /\ pc[w] = "checking"
    /\ r \in todo[w]
    /\ refs[r] # batch[w][r].expected
    /\ End(w, "lost")
    /\ UNCHANGED <<refs, owner, batch>>

-----------------------------------------------------------------------------
(* gix's edit_references.  PreviousValue::MustNotExist lets a ref pass     *)
(* that already has the new value; the others are the edit's expectation.  *)

PreviousValueHolds(current, edit) ==
    \/ current = edit.expected
    \/ edit.expected = Absent /\ current = edit.new

Prepare(w) ==
    /\ pc[w] = "preparing"
    /\ \A r \in DOMAIN batch[w] : PreviousValueHolds(refs[r], batch[w][r])
    /\ Goto(w, "publishing")
    /\ UNCHANGED <<refs, owner, batch, todo, result>>

\* classify_batch: a ref out of date or locked by another git process is a
\* lost race, anything else a backend failure.
PrepareRefused(w) ==
    /\ pc[w] = "preparing"
    /\ \E how \in {"contended", "failed"} : End(w, how)
    /\ UNCHANGED <<refs, owner, batch>>

\* A plausible bug: the publication does not notice its last ref.
PublishOn(w, r) ==
    /\ pc[w] = "publishing"
    /\ r \in todo[w]
    /\ refs' = [refs EXCEPT ![r] = batch[w][r].new]
    /\ todo' = [todo EXCEPT ![w] = @ \ {r}]
    /\ UNCHANGED <<owner, pc, batch, result>>

Publish(w, r) ==
    /\ pc[w] = "publishing"
    /\ r \in todo[w]
    /\ refs' = [refs EXCEPT ![r] = batch[w][r].new]
    /\ IF todo[w] = {r}
       THEN End(w, "ok")
       ELSE /\ todo' = [todo EXCEPT ![w] = @ \ {r}]
            /\ UNCHANGED <<pc, result>>
    /\ UNCHANGED <<owner, batch>>

\* A plausible bug: gix's failure half way is taken for a success.
PublishBreaksUnseen(w) ==
    /\ w \in Breakable
    /\ pc[w] = "publishing"
    /\ End(w, "ok")
    /\ UNCHANGED <<refs, owner, batch>>

\* A ref of the batch cannot be written; those before it stay written.
PublishBreaks(w) ==
    /\ w \in Breakable
    /\ pc[w] = "publishing"
    /\ End(w, "failed")
    /\ UNCHANGED <<refs, owner, batch>>

-----------------------------------------------------------------------------
\* The lock markers drop one by one, in the order they were taken.
Release(w, r) ==
    /\ pc[w] = "releasing"
    /\ r \in Held(w)
    /\ \A s \in Held(w) : r <= s
    /\ owner' = [owner EXCEPT ![r] = Nobody]
    /\ UNCHANGED <<refs, pc, batch, todo, result>>

\* A plausible bug: the markers are leaked instead of dropped.
ReturnHolding(w) ==
    /\ pc[w] = "releasing"
    /\ batch' = [batch EXCEPT ![w] = NoEdits]
    /\ result' = [result EXCEPT ![w] = "none"]
    /\ Goto(w, "idle")
    /\ UNCHANGED <<refs, owner, todo>>

Return(w) ==
    /\ pc[w] = "releasing"
    /\ Held(w) = {}
    /\ batch' = [batch EXCEPT ![w] = NoEdits]
    /\ result' = [result EXCEPT ![w] = "none"]
    /\ Goto(w, "idle")
    /\ UNCHANGED <<refs, owner, todo>>

\* The process is gone: nothing of it is left but what it wrote.
Gone(w) ==
    /\ w \in Breakable
    /\ pc[w] \notin {"idle", "dead"}
    /\ batch' = [batch EXCEPT ![w] = NoEdits]
    /\ todo' = [todo EXCEPT ![w] = {}]
    /\ result' = [result EXCEPT ![w] = "none"]
    /\ Goto(w, "dead")
    /\ UNCHANGED refs

\* SIGKILL or power loss: the lock files stay.
Kill(w) == Gone(w) /\ UNCHANGED owner

\* A plausible bug: the whole lock directory is cleaned.
InterruptAll(w) ==
    /\ Gone(w)
    /\ owner' = [r \in Refs |-> Nobody]

\* SIGINT or SIGTERM: gix's signal handler removes the lock files.
Interrupt(w) ==
    /\ Gone(w)
    /\ owner' = [r \in Refs |-> IF owner[r] = w THEN Nobody ELSE owner[r]]

-----------------------------------------------------------------------------
Init ==
    /\ refs = [r \in Refs |-> Absent]
    /\ owner = [r \in Refs |-> Nobody]
    /\ pc = [w \in Writers |-> "idle"]
    /\ batch = [w \in Writers |-> NoEdits]
    /\ todo = [w \in Writers |-> {}]
    /\ result = [w \in Writers |-> "none"]

\* A step of a call that is under way.
Step(w) ==
    \/ \E r \in Refs : \/ Lock(w, r) \/ LockTimesOut(w, r)
                       \/ CheckHolds(w, r) \/ CheckFails(w, r)
                       \/ Publish(w, r) \/ Release(w, r)
    \/ Prepare(w) \/ PrepareRefused(w) \/ Return(w)

Break(w) == PublishBreaks(w) \/ Kill(w) \/ Interrupt(w)

Next == \E w \in Writers : Submit(w) \/ SubmitNothing(w) \/ Step(w) \/ Break(w)

\* A call that is under way keeps running.
Fairness == \A w \in Writers : WF_vars(Step(w))

Spec == Init /\ [][Next]_vars
FairSpec == Spec /\ Fairness

-----------------------------------------------------------------------------
(* Properties *)

Phases == {"idle", "locking", "checking", "preparing", "publishing",
           "releasing", "dead"}
Results == {"none", "ok", "lost", "contended", "failed"}

(* Every variable has its type, and a phase ends with its last ref. *)
Busy == {"locking", "checking", "preparing", "publishing"}

TypeOK ==
    /\ refs \in [Refs -> Objects]
    /\ owner \in [Refs -> Writers \cup {Nobody}]
    /\ pc \in [Writers -> Phases]
    /\ batch \in [Writers -> Batches \cup {NoEdits}]
    /\ todo \in [Writers -> SUBSET Refs]
    /\ \A w \in Writers : /\ todo[w] \subseteq DOMAIN batch[w]
                          /\ todo[w] # {} <=> pc[w] \in Busy
    /\ result \in [Writers -> Results]

(***************************************************************************)
(* Among the writers, apply_batch is the atomic batch of RefStore: it wins *)
(* the moment gix has prepared it, and the refs it has yet to move are as  *)
(* good as moved, since their locks keep every other writer from looking.  *)
(***************************************************************************)
Settled(r) ==
    IF owner[r] # Nobody /\ pc[owner[r]] = "publishing" /\ r \in todo[owner[r]]
    THEN batch[owner[r]][r].new
    ELSE refs[r]

Open(w) == pc[w] \in {"locking", "checking", "preparing"}

Status(w) ==
    IF Open(w) THEN "open" ELSE IF pc[w] = "publishing" THEN "ok" ELSE result[w]

SettledRefs == [r \in Refs |-> Settled(r)]
OpenBatches == [w \in Writers |-> IF Open(w) THEN batch[w] ELSE NoEdits]
Statuses == [w \in Writers |-> Status(w)]

Atomic == INSTANCE RefStore WITH
              refs <- SettledRefs, batch <- OpenBatches, status <- Statuses

ImplementsRefStore == Atomic!Spec

(***************************************************************************)
(* With writers that are killed, interrupted or fail to write, apply_batch *)
(* is the batch of TornStore: the refs land one by one and may stop half   *)
(* way, but a batch that was refused has landed nothing, one that was      *)
(* confirmed has landed whole, and none wins on refs that another lands.   *)
(***************************************************************************)
TornBatches ==
    [w \in Writers |->
        IF Open(w) \/ pc[w] = "publishing" THEN batch[w] ELSE NoEdits]
TornStatus(w) ==
    CASE Open(w) -> "open"
      [] pc[w] = "publishing" -> "landing"
      [] pc[w] = "dead" -> "dead"
      [] OTHER -> result[w]
TornStatuses == [w \in Writers |-> TornStatus(w)]
Left == [w \in Writers |-> IF pc[w] = "publishing" THEN todo[w] ELSE {}]

Torn == INSTANCE TornStore WITH
            batch <- TornBatches, status <- TornStatuses, left <- Left

ImplementsTornStore == Torn!TornSpec

(***************************************************************************)
(* No update is lost, whoever dies: a ref moves only from the object the   *)
(* edit that moves it expected, to the one it named.                       *)
(***************************************************************************)
CompareAndSwap ==
    [][\A r \in Refs :
        refs'[r] # refs[r] =>
            \E w \in Writers :
                /\ pc[w] = "publishing" /\ r \in DOMAIN batch[w]
                /\ batch[w][r] = Edit(refs[r], refs'[r])]_vars

(***************************************************************************)
(* Overlapping batches cannot deadlock: there is no set of writers each of *)
(* which waits for a lock another of the set holds.                        *)
(***************************************************************************)
WaitsFor(w, v) == \E r \in Refs : pc[w] = "locking" /\ IsNext(w, r) /\ owner[r] = v

NoCircularWait ==
    \A ws \in SUBSET Writers :
        ws # {} => \E w \in ws : \A v \in ws : ~WaitsFor(w, v)

(***************************************************************************)
(* Once callers stop submitting, every batch returns, without any lock     *)
(* having to time out: locks are dropped on every path.                    *)
(***************************************************************************)
CallersStop == <>[][\A w \in Writers : pc[w] = "idle" => pc'[w] = "idle"]_vars
BatchesReturn == CallersStop => <>[](\A w \in Writers : pc[w] = "idle")

(***************************************************************************)
(* A lock file outlives its batch only if its writer was killed, so a ref  *)
(* that nobody works on can be written again.                              *)
(***************************************************************************)
LocksInUse ==
    \A r \in Refs :
        owner[r] # Nobody => \/ pc[owner[r]] = "dead"
                             \/ r \in DOMAIN batch[owner[r]]
=============================================================================
