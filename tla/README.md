# git-store, specified and checked

TLA+ models of [git-store](../src), a typed document store on top of a Git
repository's objects and refs, with the TLC configurations that check them on
small instances and TLAPS proofs of the results that matter most.  Every
definition is a translation of the Rust source (`crates/gix-refstore`,
`crates/git-store`); the `map` of `PROJECT.json` gives the lines.

## 1. The system

A *kind* is a named collection of *entities*.  An entity is a ref
(`refs/store/<kind>/<name>` unless the layout says otherwise) that points at a
*publication commit*; the tree of the commit is a *bound document* (the value
beside its `.schema`), or a *typed tombstone* that names the document it deleted.
First parents are the entity's history.  Each kind also has a *materialized index*, a ref that points at a
tree with one row per entity.  Every write goes through one primitive, a batch
of compare-and-swap edits of refs.  Nothing else is shared: git objects are
immutable and content-addressed.

| Component | State | Operations | What makes it correct |
| --- | --- | --- | --- |
| Ref-store contract (`gix-refstore/src/{edit,store,memory}.rs`) | refs | `read`, `prefixed`, `apply`, `apply_batch` | a batch lands whole or not at all, and only if every expectation holds |
| Git-backed ref store (`repo.rs`) | refs, lock files | the same, in lock / check / gix transaction steps | implements the contract; no deadlock; no lost update under failures; locks always dropped |
| Entity operations (`git-store/src/kind.rs`) | a call's locals | `put`/`publish_prepared`, `update`/`try_update`, `delete`, `remove`, `publish_named_by_commit`, `rebuild_index`, reads and listings | a ref moves as a branch does; what was acknowledged stays; retries end; entity ref and index move together |
| Materialized index (`index.rs`) | the index ref | `edit`, `write`, `read_validated` | never ahead of the refs; a stale one is not believed; the path encoding is injective |
| Commits and histories (`store.rs`, `tombstone.rs`) | none | `write_commit`, `ref_history`, `bind_document` | a tombstone names the document beneath it |
| Transactions (`transaction.rs`) | staged operations | `publish`, `alias`, `delete`, `commit` | all kinds move in one batch under every expectation |
| Kind schemas (`kind.rs`, `store.rs`) | the schema ref | `put`, `get`, `history`, through `commit_forward` | registrations are not lost; a document stays pinned to the schema its value was checked against |
| As-of views, snapshots (`as_of.rs`, `lib.rs`) | a fixed map of refs | `read`, `prefixed` | the view never moves and never writes |
| Ref names (`name.rs`) | none | validation, joins, prefixes, suffixes | accepts nothing git refuses in a ref name; cuts at whole segments only |
| Envelope and encodings (`envelope.rs`, `encoding.rs`, `store.rs`) | none | bind, split, inspect, decode | a root without a schema is no document; each failure has its class |
| Command line (`main.rs`, `cli.rs`) | none; each invocation is a process | subcommands | what is printed stays true; the exit code matches what happened |
| Interactive prompts (`interactive.rs`) | none | `value_for_kind` | only as where a value or a failure comes from |
| Document builder, identities, signing, doctor, fixtures | none | conversions, reports | not modelled, see 7 |

**Interactions.**  An entity operation is a loop of separate ref reads that ends
in one `apply_batch`; when the batch loses its race the loop starts over at a
place that differs per operation.  `Kind` calls `Store` for commits, `index`
for the index edit and `RefStore` for refs.  `GixRefStore::apply_batch` calls
gix's `edit_references` while it holds its own lock files.  There are no
threads, queues or callbacks inside the library: concurrency comes from
callers, in threads or in other processes on the same repository.  A command
reads refs one at a time, and writes through the same `Kind` and `Store`
operations as any other caller.

**What is hard to test here.**
Reads that belong together but are separate (entry and expectation; entity ref
and index), retries that reuse what they read before, commits that coincide
because a timestamp has whole seconds, batches that gix publishes one ref at a
time, writers that die between two refs, locks taken by several writers in
different orders, listings that take no snapshot, schemas that move between
the check of a value and its publication, errors that are wrapped several times
on their way to an exit code.  `PROJECT.json` lists each at its line, with the property
that would catch it.

## 2. The modules

| Module | What it is |
| --- | --- |
| `RefEdits` | the compare-and-swap edit, the batch, and when a batch lands (`edit.rs`, `memory.rs`) |
| `RefStore` | abstract: what `apply_batch` promises. A batch is open until one atomic step wins, loses or fails it |
| `TornStore` | abstract: `RefStore` with writers that may be killed, interrupted or fail to write. A batch wins in one step, with its refs to itself, and lands one ref after the other; only a breakable writer stops half way |
| `GixRefStore` | detailed: `apply_batch` of the git backend, one action per lock file, comparison, ref written, lock dropped; kill, interrupt, failed write, lock timeout. Implements `RefStore` while no writer is cut short, `TornStore` in any case |
| `Commits` | publication commits as values and the moves a ref may make from one to another |
| `EntityLog` | abstract: what git-store promises of one entity ref, namely that it is a branch |
| `Entities` | detailed: every writing operation of `Kind` as concurrent calls, one action per access to the ref store. Implements `EntityLog` |
| `TransactionLog` | abstract: what `Transaction::commit` promises, namely everything it staged in one step or nothing |
| `Transactions` | detailed: staging, index edits and the batch of concurrent transactions, beside the calls of `Entities`. Implements `TransactionLog` |
| `Readers` | every reading operation, and the commands `list` and `get`, beside the calls of `Entities`, one action per ref read; as-of views |
| `Documents` | trees at the document boundary: what a root can look like, binding, splitting, decoding, and the class of each failure |
| `Commands` | detailed: each invocation of the command line as a process beside the others, over one repository |
| `RefNames` | the rules for names, paths and segments, and the operations that skip them (`name.rs`) |
| `IndexPaths` | the encoding of an entity name as a path of the index tree (`index.rs`) |
| `Names` | every text up to a length, typed character by character, against the two modules above and the revision syntax of `get` |
| `MCGixRefStore`, `MCEntities`, `MCTransactions`, `MCReaders`, `MCCommands`, `MCNames` | small batches, workloads and alphabets for TLC |
| `CommitsProofs`, `EntityLogProofs`, `EntitiesProofs`, `TransactionsProofs`, `ReadersProofs`, `CommandsProofs`, `NamesProofs`, `GixRefStoreProofs` | theorems and proofs |

`Entities` works on the *atomic* store, with `ExpectationsHold` and `Landed` of
`RefEdits`; `GixRefStore` shows that the git backend is such a store as long as
no writer is broken off inside a batch, and what is left of one otherwise
(`TornStore`).  `Kind` is generic over `RefStore` and knows no more of it than
the trait.  That result is about batches and what they compare and publish.  It
does not carry over to reads: `read` and `prefixed` take no lock, gix publishes a
batch one ref at a time, and a reader in between sees one half of it; the
refinement counts the other half as moved already.  `Entities` reads refs of the
atomic store, one per step, and lists a kind in one step; `Readers` lists ref
by ref, but beside batches that land in one step.  A read by a call while
a batch is half published is therefore not covered by the composition, though
an expectation formed from one is compared again under the locks.

A batch may also be turned down although all it expects holds: git has one of
the locks, or gix fails.  `Contended` names the calls and transactions it can
happen to, at any time: `Kind` starts over or reports a lost race (`ApplyLoses`)
or returns the error (`ApplyFails`), and `Transaction::commit` returns it.
`Transactions` extends `Entities`: transactions and entity calls share `refs`
and take turns one store access at a time.

**State of `Entities`.**  `refs` is the ref store: an entity name maps to a
commit, a kind to the index tree.  `pc[c]` and `job[c]` are where call `c` is
and its local variables, with the source's names (`expect`, `parent`, `base`
for the entry an update rebuilds from, `commit`, `index`, `entries`, `batch`).
`clock` is the committer timestamp.  `Request` fixes what each call asks for.
Labels: `read`, `expect` (`try_update`), `resolve` (`resolve_publish`,
`delete_name`, `remove`), `mint`, `check` (`publish_named_by_commit`), `scan`,
`swap` (`rebuild_index`), `index`, `source`, `apply` (common to all writes).

**State of `Transactions`.**  `stage[t]` is the phase of `Transaction::commit`
(`staging`, then `listing` and `indexing` for each kind, `applying`) or how it
returned (`stale`: an expectation failed while staging; `lost`: the batch lost
its race).  `work[t]` has the locals: the staged expectations, the commit each
resolved operation settled on (`commits`, from which `index_deltas` follow), the
`batch` and the index entries being built.  Each staged operation is one action,
since each reads its ref once.

`Transaction` leaves the choice of names to its caller: a staged deletion
writes a tombstone for the entity id it was asked for, without a look at what
the ref holds.  `DeletesAreCanonical` says that a name a transaction deletes at
holds only the document it is canonical for, which is how ids and names are
paired unless somebody puts an alias there.

**State of `Readers`.**  `rpc[r]` is where reader `r` is (`scan`, `again`,
`validate`, `fetch`, `resolve`, `belongs`) or how it returned, `look[r]` its
locals: the query, the refs its view pins, the refs it has yet to meet (`todo`), the
`rows` so far.  `from[n]` records what `n` held when the reader began and is
only read by the properties.  `prefixed` promises no snapshot, neither in the
trait nor in the git backend, so a listing meets each ref in a step of its own,
in any order.

**State of `Commands`.**  `refs` maps a kind to the history of its schema and a
name to the history of its entity; `objects` are the roots in the object
database; `ask[c]` is what invocation `c` was asked for, `step[c]` where it is,
`job[c]` its locals (the planned items, the edits, the lines so far) and
`answer[c]` its exit class and what it printed.  The index is left to
`Entities`: a batch carries an edit of it, so here it may lose to any other
batch that touched the same kind meanwhile.  The items of a batch are resolved
one by one in the step that starts it, since `document publish --batch` resolves
all specs before it stages any; gix refuses two edits of one ref in a
transaction, which the command reports as a lost race.

**Documents.**  A root is a pair of a bare value tree and what stands at
`.schema`: nothing, a blob, an entry whose tree is missing or encodes no
schema, or a schema.  `Encoding` relates values, schemas and trees, so that one
tree may read as two values under two schemas, the case in which the pinned
schema matters.

**Commits.**  An object id is a hash of contents and every commit has at most
one parent, so a commit *is* its first-parent history: the sequence of
(document or tombstone, time) pairs.  Two commits are equal exactly when git
would give them one id, which keeps the A-B-A cases of the code: the same
content published in the same second on the same parent is the same commit.
The same device makes "is an ancestor of" the prefix relation.

**The index** is a function from names to the commits of their rows, as a
sequence, since `publish_named_by_commit` pushes a row without looking for the
name.

**State of `GixRefStore`.**  `owner[r]` is who holds the lock file of `r`,
`todo[w]` what the current phase of `w` has yet to reach, `result[w]` what its
call will return.  gix is external and modelled from how `repo.rs` uses it: it
compares every edit again when it prepares the transaction (with the looser
`MustNotExist`), may refuse, and then writes the refs one at a time.

## 3. The runs

| Run | Question | Bounds |
| --- | --- | --- |
| `entities_branch` | Do refs move like branches, is nothing acknowledged lost, is the index never ahead? | two workloads of five calls, one of which starts: on one name a publication, a one-shot publication of the same content, an update, a deletion and a rebuild; on the other a publication named by its commit, one grafted onto an older commit, two deletions and a pruning; two timestamps; any batch may be turned down |
| `entities_pair` | Do ref and index move as one pair, do one-shots land only under their expectation and end there, do all loops end? | four calls on two names of one kind, two timestamps; the batch of the one-shot may be turned down |
| `entities_lost_update` | violation: an update misses a publication between its two reads | two calls |
| `entities_anonymous` | violation: a retry loop without an exit | three calls |
| `gix_atomic` | Is the git backend the atomic store; no circular wait; does every batch return? | three writers, three refs, batches over any two that land only in turn, and the empty batch |
| `gix_broken` | No lost update and no stray lock when writers die, fail or time out; is a batch torn by nothing but the end of its own writer? | three writers, two of them breakable and alike (symmetry of those two; all properties here are about states and steps), two refs, values absent, a and b |
| `transactions_whole` | Is a transaction all or nothing, on top of what its caller expected, without losing what others published? Do its tombstones name what they delete? | two transactions of two operations on the same two kinds (one deletes), a publication and another deletion at one name, a rebuild of the other kind's index; any batch may be turned down |
| `transactions_idle` | violation: the expectation of an operation with nothing to do is not held to | one transaction, two publications |
| `transactions_index` | violation: a transaction undoes another name's publication in the index | one transaction and one publication, of two names of one kind |
| `readers_beside` | Does a listing that takes no snapshot show only what was there, and miss nothing that was there all the time? Does a revision stay a version of its entity? | one reader that asks any one query, beside a publication, a deletion and a rebuild of one name and a publication of another |
| `names_typed` | Does git take every name the constructors take, and what do they refuse beyond git, do names cut, join and split at whole segments, do index keys decode, does a revision ever change the entity? | all texts of up to five characters out of eight, one for each way the code treats a character; index lengths of two digits in base three, which no such text overflows (`KeysComeBack` covers lengths that do, for which `encode_path` has no key) |
| `commands` | Does what a command printed stay true; are documents pinned to the schema they were checked against; does exit 3 mean missing; does every command end? | three invocations of one kind and two names. Schema moves beside composers and readers; publications and deletions race; each command by itself, over every shape of root, with every kind of bad argument |

Why the bounds are enough to be interesting: each entity workload has every
operation it contains race with every other at one name, and a call may start
at any time, so every call sees every intermediate state of the others;
`PROJECT.json` names for each property a plausible bug of the code (an
operator of the module marked "A plausible bug") that the same run finds.  Three
writers over three refs is the least instance with a waiting circle that is not
a pair.  Batches are bounded to the two or three that can follow each other.
Five characters hold two segments, a separator and the longest thing the rules
look at inside a segment (the word `lock` counts as one character here), and
lengths of more than one digit in an index key.  `MaxTime` bounds the clock and `MaxLength`
the texts; nothing else in the models counts.  `names_typed` does not check for
deadlock, since typing stops at the bound.

What the runs leave out is deliberate: `IndexMatchesEntities` is checked on
`entities_pair`, whose calls satisfy `PairKept` (section 5), because the code does
not have the property beyond that.  Each part of `PairKept` is needed: TLC finds
the pair broken when two calls publish the same content at one name (and a third
replaces it in between), when a pruning or a graft takes a ref back to a commit it
had left (the index returns to an old value too, and an old index edit lands), and
when a rebuild lands a listing older than the refs (`rebuild_index` reads the
entity refs first).  Those calls are part of `entities_branch`, where the
property is that the index lags but never leads.
A publication with an explicit parent may replace a history by design; names
that have one (`Grafted`) are exempt from what is said about branches.

**Fairness.**  `Entities` assumes weak fairness of each call that was issued (a
thread keeps running); nobody has to issue a call and the clock need not move.
There is no fairness between calls: `CallsReturn` holds because a lost race
means another call landed a batch, and a call lands at most one.  `Commands`
assumes weak fairness of each invocation, which includes that the editor or the
prompt it waits for answers; `CommandsEnd` holds for the same reason as
`CallsReturn`.  Both assume that lock files of foreign git processes go away:
the code reports such a lock as a lost race and tries again for as long as it is
there.  So `CallsReturn` is checked with only the one-shot call in `Contended`,
whose batch is not tried again; a retried call there could lose for ever.
`GixRefStore` assumes weak fairness of a batch under way; the backoff loop of the lock is a wait for the lock to be free.  `BatchesReturn` is
conditional on callers no longer submitting, since the lock has no queue and a
writer may be overtaken for ever.

## 4. What the violations show

* **Entity ref and index are not always moved as a pair.**  `Transaction::commit`
  lists the entity refs of a kind (`transaction.rs:150`) and then reads the index
  ref its edit expects (`:160`); `Kind` reads them in the opposite order.  A
  publication of *another name* that lands between the two moves the index to
  what the transaction then expects, and the transaction's batch, whose entity
  edits touch other refs, wins and writes an index without the new row.  It takes
  one transaction and one ordinary publication (`transactions_index`).
  Calls of `Kind` alone can break the pair too: a publication of the content the
  tip already carries has no ref edit (`kind.rs:554`), so nothing guards the commit
  it read; it still overlays that commit into the index (`kind.rs:478`), and if
  another writer replaces the tip between the two reads, the index lands one
  publication behind.  Readers validate the index and fall back to the refs,
  so listings stay right; the stated pair atomicity does not.
* **`update` may rebuild from an entry it does not replace.**  `try_update`
  reads the entry, runs `rebuild`, and only then reads the ref for the
  expectation.  A publication between the two is replaced by a value that was
  rebuilt without it, and the compare-and-swap succeeds.
* **A publication named by its own commit may never return** once that name
  holds another commit: the loop retries `Create` for ever.  It takes a
  deletion of the fresh name by someone else.
* **A transaction may land although one of its expectations is stale.**  An
  operation that finds nothing to do when it is staged adds no edit, so the batch
  does not check its expectation again.  `TransactionLog` states what does hold:
  an idle operation was idle when it was looked at, every other one lands on
  exactly what its caller expected.

Smaller differences between the code and what is written about it, which the
models follow the code in:

* The docs of `publish_prepared` (`kind.rs:388`) and of `Transaction::publish`
  (`transaction.rs:68`) ask for an embedded schema that names the kind;
  `resolve_publish` (`kind.rs:526`) only splits the root.  A document whose
  `.schema` is no schema, or another kind's, is published, after which neither
  `get` nor `rm` of its name succeeds.  `NamesStayReadable` is about documents
  the store's own commands made.
* `Transaction::commit` writes the objects of earlier operations before a later
  expectation is checked (`transaction.rs:129`).  They stay unreferenced.
* `list <kind>` asks which names are live and then lists the refs again
  (`main.rs:1787`), so a name deleted in between is listed with the commit of its
  tombstone.  `ListingsAgree` holds all the same: it was live when it was asked.
* Every failure of a publication in the backend is reported as a lost
  race (`main.rs:1013`), and `put` at a kind without a schema exits as `other`
  where `compile` exits as `notfound` (`interactive.rs:28`); `ref list` with a bad
  prefix exits as `other` too (`main.rs:684`).
* The names the code accepts are not quite the names git accepts.  Beyond git it
  refuses a part that ends in a dot or is a lone `@` (`a./b`, `a/@`;
  `name.rs:82`, `:91`), which git refuses at the ends of the whole name only, and it
  takes a name of one level, which git does not, because a prefix is joined
  before it (`AcceptedAreRefNames`).
* `inspect_document` calls any root with a tree at `.schema` bound, also one whose
  schema object is missing: `document publish` of it exits as `schema`, as an
  item of a batch as `notfound`.

## 5. What is proved

All for every set of calls, transactions, readers, invocations, writers,
names, kinds, documents and refs.

* `EntityLogProofs`: `TombstonesAlwaysName`, `HistoryOnlyGrows` about the
  abstract log.
* `EntitiesProofs`: `TypeCorrect`; `Refinement`, that `Entities` implements
  `EntityLog`; `TombstonesNameTheirDocument` through it.  The inductive
  invariant `IInv` is about batches in flight: every pending edit of an entity
  ref is by itself a legal move from its expected to its new commit
  (`CallOK`).  `TypeOK` alone is not inductive, since it does not say where
  the new commit came from.  A batch that wins found the ref at the expected
  commit, so the ref makes exactly that move; a move never depends on what the
  other calls did in between.
* `EntitiesProofs`, second part: `AcknowledgedForever`, `IndexNeverAhead`.  Branch
  names only gain publications, so "extends this commit" is stable; the commits
  a call holds become prefixes because they were read from the ref or because
  they are the new value of the entity edit of the same batch (`HInv`).  The
  lemmas are stated for any step in which branches grow (`BranchesGrow`), so
  that readers and transactions can use them.
* `EntitiesProofs`, third part: `OneShotsHold` for calls that satisfy
  `OneShotsAreSole`, `PairStaysTogether` for calls that satisfy `PairKept`.  Both
  properties fail when a publication finds its document in place, since its batch
  then has no edit of the ref it read.  A live tip carries the document of a call
  that has returned (`SInv`), so a call that alone publishes its document at a
  name never finds it there.  A one-shot call then has an edit of its name, from
  the expectation it was given (`OneShotInv`).  For the pair (`PairInv`): a call
  reads the index before it lists the refs, and both only gain commits; if the
  index is what was read when the batch lands, then every other ref is where it
  was then and so, in between, where it was listed, and the call's own ref is
  held by its own edit (`NextOK`).
* `TransactionsProofs`: `TransactionsRefine` (to `TransactionLog`),
  `ReturnedForever`, `StagedTombstonesName`, and `AcknowledgedForever` and
  `IndexNeverAhead` beside any transactions
  (`AcknowledgedBesideTransactions`, `IndexNeverAheadOfBatches`).  Each operation
  is settled by one look at its ref (`SettledOK`): either the batch has an
  edit from what the caller expected to the staged commit, or there was nothing
  to do.  A batch that wins therefore makes, at every ref, a move one call could
  have made, which is what the invariants of the calls need (`TxInv` adds to
  them one `TxOK` per transaction).  All five assume
  `DeletesAreCanonical`: without it a staged tombstone may name another
  document than the one beneath it, and no branch rule holds.
  `TombstonesNameBeneath` carries the assumption in its own statement.
* `ReadersProofs`: `RowsWereHeldByTheirNames`, `ListingsMissNothing`,
  `VersionsAreTheEntitys`.  What a branch name has held since a reader began
  only gains members while it runs, so a row stays justified once it was
  (`RInv`); a row that comes out of the index is, after validation, what the
  listing itself met.
* `CommandsProofs`: `CommandsTyped`, `ShownCommitsAreKept`, `DocumentsArePinned`,
  `PublicationsAreBound`, `LinesAreCoherent`, `NotFoundIsExact`,
  `NamesAreReadable`.  The invariant
  says of the store that refs hold documents that exist (`StoreOK`), and of
  each invocation that an edit extends the commit it was resolved against,
  that a line about to be printed is held by its ref or lands with the batch,
  and that a compiled document carries a schema its kind has had since the
  command began.  All of it survives the steps of the others because, but for
  grafted names, histories only grow.  `NamesAreReadable` adds to it that every
  document in the object database that other tools did not write (`Foreign`)
  decodes under the schema it carries (`AllReadable`): what `put`, `compile` and
  `document bind` write is bound to the schema its value was just checked against.
* `NamesProofs`: `AcceptedNamesAreGits`, `CutsNeedNoCheck`,
  `PiecesAreSegments`, `NamesEndAtTheirRevisions`, `KeysComeBack`, for texts of
  every length over any alphabet, with `PathsHaveTheirOwnRow`, `DigitsComeBack`
  and `KindsHaveTheirOwnIndex` about keys, their digits and the index ref of a
  kind.  The constructors look
  at one piece between two slashes after the other; git's rule is about single
  positions and the ends of the whole text (`GitAllows`).  The bridge is the
  code's rule read off the positions (`PathByPosition`): every position
  lies in one piece, from the last slash before it to the first one after it, so
  a text is accepted iff no position is bad (`PathsByPosition`), and the bad
  positions are git's and those where a part ends in a dot or is a lone `@`
  (`PositionsAndGit`).  That a joined name has two levels is the slash between
  its parts.
  Positions of
  a joined text are positions of one of its parts or the slash between them
  (`JoinReads`), which settles joins and cuts.  Segments are numbered by how many
  pieces begin before them (`SegmentsMeaning`): pieces begin in different
  places (`PlacesDiffer`), so every number up to the count is taken
  (`PlacesReached`).  Keys are written and read by loops, in the model recursive
  functions over the segments, the digits or the bytes of a key.  Such a
  function is shown to exist without the library's induction theorems: the
  numbers up to which one exists hold the first and, with one, the next
  (`CountingUp` over a least counterexample, `Iteration`, and `Recursion` for
  the reader, whose next cursor is further on but not the next number).  The
  argument for `KeysComeBack` then counts down over the segments, from the cut:
  the loop at a segment's frame reads that frame and no other end of it
  (`FrameComesBack`, from `NumberComesBack` for its header and `DigitsComeBack` for
  its bytes), or stops there if the cut is inside, so a key cut
  short frames the segments up to the cut if one ends there and nothing
  otherwise (`CutKeyFrames`).  The segments of a path joined are the path
  (`SegmentsJoin`), those up to a cut an ancestor of it (`JoinsUnder`).
* `GixRefStoreProofs`: `TypeCorrect`, `LocksAreInUse`, `NoUpdateLost` and
  `NoDeadlock` with broken writers; `Refinement` to `RefStore` without them and
  `TornRefinement` to `TornStore` with them.  The
  invariant says which locks a writer holds in each phase, that a checked ref
  still holds what it was checked against while its lock is held, and, for
  `NoDeadlock`, that a writer holds only refs below the one it waits for: the
  writer of a circle that waits for the greatest ref would need a greater one.
  In `Refinement` refs that a publishing writer has yet to move count as moved;
  in `TornRefinement` they count as they are, `Left` names them, and a batch
  that wins shares none with one that is landing because both hold the locks of
  all their refs (`PublishersApart`).

Assumptions: the named ones of the modules (names and index refs are different
refs, a request names a known name, the slash is a character and in no class of
refused ones, a byte has two digits and tells characters apart, `MaxTime` is a natural number, a
transaction stages each name once, the scenarios of `Commands` begin with refs
that callers of the library can have made, in which documents other than the
foreign ones decode, lock order is the order of
numbers).  `NoDeadlock` assumes that the refs have a greatest one, `Refinement`
of the backend that no writer is broken off.

## 6. Only model-checked

* `CallsReturn`, `BatchesReturn` and `CommandsEnd` are liveness under fairness,
  which the prover does not handle.

Every other property of the passing runs is also stated by a theorem, some under
a hypothesis of the statement: `OneShotHoldsAtBatch` and `IndexMatchesEntities`
under `OneShotsAreSole` and `PairKept`, the results on `Transactions` under
`DeletesAreCanonical`, `ImplementsRefStore` without writers that are broken off
(`ImplementsTornStore` needs no hypothesis).  The runs that check these properties satisfy the hypotheses.

## 7. Not modelled

* Identities and addresses: newtypes around object ids and their
  conversions.  Signing: bytes handed to an external program.  Doctor: a
  read-only report.  The document builder: sequential and used by the prompts
  only.  The fixtures of the tests.
* Of the command line: argument parsing, output formats, `object inspect`,
  `entity delete` (a deletion by id, as in `Entities`) and the layout options,
  which let the prefixes of two namespaces overlap (`main.rs:661`).  Of the
  prompts: the dialogue.
* The value codec is the external crate `facet-git-tree`: a relation between
  values, schemas and trees in `Documents`, opaque values elsewhere, compared
  for equality as trees are.  Two parts of it that the code relies on are out
  of sight: that a tombstone is well-formed, and that a schema refers to itself
  in no circle (`document.rs:227`).  Trees have no inside either: `missing` in
  `NotFoundMeansMissing` is the ref, the root or its `.schema`; an object missing
  deeper in a value or a schema gets another exit class and is not represented.
* A listing that takes time, for the calls and transactions: `SourceEntries` is one
  step.  Each row of a longer one was held by its name at some moment of it and
  names only gain commits (prunings apart), so an index built from it may lag,
  which these models allow for anyway, and the batch compares the index ref.
* Canonical commits (bytes for a caller that hashes them itself), and the
  kind-mismatch error for a tombstone that names another kind, which only a
  foreign writer leaves at an entity.
* Validation errors of a library write happen before its first ref access and
  leave no trace, so in `Entities` a call that fails them is a call that never
  started; `Commands` has them with their exit classes.
* Of the git repository the models have refs, lock files and which roots exist;
  object writes cannot conflict and are not observable before a ref names
  them.  Git processes that change refs without the lock files appear only as
  gix refusing to prepare; a lock file they leave behind for good would keep
  every retry loop above it from ending (`repo.rs:101`).

## 8. Plan

Done: the ref-store contract and the git backend; the concurrent entity
operations, transactions and readers; the command line over documents and
schemas; names and index paths; the abstract specifications and the proofs of
section 5.

Left, in this order:

1. The entity operations over `TornStore`: what a process that dies between two
   refs of a batch leaves to the next one.
2. What holds of the pair beside transactions.
3. The document builder, `entity delete` and `object inspect`.
