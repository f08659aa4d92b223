------------------------------- MODULE Readers -------------------------------
(***************************************************************************)
(* The reading operations of git-store (kind.rs, index.rs, and the         *)
(* commands list and get of main.rs) beside the writers of Entities.tla.   *)
(*                                                                         *)
(* A reader takes one step per ref it reads.  A listing iterates the refs  *)
(* under a prefix, and neither the trait nor the git backend takes a       *)
(* snapshot for it: every ref is read at a time of its own, and refs that  *)
(* a writer moves meanwhile are seen before or after.  Objects never       *)
(* change, so what is read from a commit belongs to the step that found    *)
(* the commit.                                                             *)
(*                                                                         *)
(* A reader may work on an as-of view (as_of.rs): some refs are pinned to  *)
(* what they held at an earlier time, the others are the store's own.      *)
(***************************************************************************)
EXTENDS Entities

CONSTANTS
  Readers,   \* invocations of reading operations
  Queries    \* what they may ask for

(* list       the live names of a kind, or of a group of it                *)
(* entries    their entries, decoded                                       *)
(* rows       list_entries and fingerprint: tombstones too                 *)
(* listing    the command `list <kind>`                                    *)
(* read       the entity at a name                                         *)
(* version    the command `get <kind> <name>~<n>`                          *)
(* commit     the command `get <kind> <name>@<commit>`                     *)
ReadOps == {"list", "entries", "rows", "listing", "read", "version", "commit"}

\* The commands open the repository itself, never a view of it.
ViewOps == {"list", "entries", "rows", "read"}

ASSUME QueriesAssumption ==
    /\ Queries # {}
    /\ Queries \subseteq [op : ReadOps, kind : Kinds, name : Names,
                          group : SUBSET Names, viewed : SUBSET Names]
ASSUME ViewsAssumption ==
    \A q \in Queries :
        /\ KindOf[q.name] = q.kind
        /\ q.op \notin ViewOps => q.viewed = {}
        /\ \A n \in q.group : KindOf[n] = q.kind
        /\ q.op \notin {"list", "entries"} => q.group = {n \in Names : KindOf[n] = q.kind}

VARIABLES
  rpc,    \* where each reader is, or how it returned
  look    \* its local variables

rvars == <<rpc, look>>

RWorking == {"scan", "again", "validate", "fetch", "resolve", "belongs"}
RReturned == {"shown", "missing", "stray"}

-----------------------------------------------------------------------------
(* Helpers *)

RGoto(r, label) == rpc' = [rpc EXCEPT ![r] = label]

\* A plausible bug: the view answers reads but not listings.
InnerTip(r, n) == refs[n]

\* AsOfRefStore: the override of a name, else what the store holds.
ViewTip(r, n) ==
    IF n \in DOMAIN look[r].pinned THEN look[r].pinned[n] ELSE refs[n]

NoRows == [n \in {} |-> Absent]

\* source_entries: a listing iterates the entity refs of the whole kind.
Scanned(k) == {n \in Names : KindOf[n] = k}

Only(rows, names) == [n \in DOMAIN rows \cap names |-> rows[n]]

\* `rows` without the names whose commit is a tombstone.
LiveRows(rows) == Only(rows, {n \in DOMAIN rows : Present(rows[n])})

\* Rows of the index tree, if no name has two.
IndexRows(tree) == [n \in DOMAIN tree |-> Last(tree[n])]

\* A plausible bug: a well-formed index is believed.
WellFormed(tree, rows) ==
    tree # Absent /\ \A n \in DOMAIN tree : Len(tree[n]) = 1

\* index::read_validated: the index ref exists, its tree decodes, which
\* excludes two rows of one name, and it is what the listing found.
Validated(tree, rows) ==
    /\ tree # Absent
    /\ \A n \in DOMAIN tree : Len(tree[n]) = 1
    /\ IndexRows(tree) = rows

-----------------------------------------------------------------------------
\* A call is issued.  A view pins its refs to something they held before.
ReadStart(r) ==
    /\ rpc[r] = "idle"
    /\ \E q \in Queries :
          /\ \E pins \in [q.viewed -> AllTokens] :
                /\ \A n \in q.viewed : pins[n] \in Tokens(n)
                /\ look' = [look EXCEPT ![r] =
                      [query |-> q, pinned |-> pins, found |-> Absent, live |-> {},
                       todo |-> Scanned(q.kind), rows |-> NoRows,
                       from |-> [n \in Names |->
                                    IF n \in q.viewed THEN pins[n] ELSE refs[n]]]]
          /\ RGoto(r, IF q.op = "read" THEN "fetch"
                      ELSE IF q.op \in {"version", "commit"} THEN "resolve" ELSE "scan")
    /\ UNCHANGED vars

\* A plausible bug: a ref that does not exist is listed as well.
ScanAny(r) ==
    /\ rpc[r] \in {"scan", "again"}
    /\ \E n \in look[r].todo :
          look' = [look EXCEPT
             ![r].todo = @ \ {n},
             ![r].rows = [m \in DOMAIN @ \cup {n} |->
                             IF m = n THEN ViewTip(r, n) ELSE @[m]]]
    /\ UNCHANGED <<vars, rpc>>

\* One ref of a listing, present or not.
ScanRef(r) ==
    /\ rpc[r] \in {"scan", "again"}
    /\ \E n \in look[r].todo :
          look' = [look EXCEPT
             ![r].todo = @ \ {n},
             ![r].rows = IF ViewTip(r, n) = Absent THEN @
                         ELSE [m \in DOMAIN @ \cup {n} |->
                                  IF m = n THEN ViewTip(r, n) ELSE @[m]]]
    /\ UNCHANGED <<vars, rpc>>

WholeKind(r) == look[r].query.group = Scanned(look[r].query.kind)

\* list, list_under and entries_under are done: of the names of the group
\* those whose tips are not tombstones.
GroupDone(r) ==
    /\ rpc[r] = "scan" /\ look[r].todo = {}
    /\ \/ look[r].query.op = "list"
       \/ look[r].query.op = "entries" /\ ~WholeKind(r)
    /\ look' = [look EXCEPT ![r].rows = LiveRows(Only(@, look[r].query.group))]
    /\ RGoto(r, "shown")
    /\ UNCHANGED vars

\* The command has the live names; it lists the entries next.
ListAgain(r) ==
    /\ rpc[r] = "scan" /\ look[r].todo = {} /\ look[r].query.op = "listing"
    /\ look' = [look EXCEPT ![r].live = DOMAIN LiveRows(look[r].rows),
                            ![r].todo = Scanned(look[r].query.kind),
                            ![r].rows = NoRows]
    /\ RGoto(r, "again")
    /\ UNCHANGED vars

\* list_entries has the source entries; it reads the index ref next.
ScanDone(r) ==
    /\ look[r].todo = {}
    /\ \/ rpc[r] = "scan" /\ look[r].query.op = "rows"
       \/ rpc[r] = "scan" /\ look[r].query.op = "entries" /\ WholeKind(r)
       \/ rpc[r] = "again"
    /\ RGoto(r, "validate")
    /\ UNCHANGED <<vars, look>>

\* A plausible bug: the entries of deleted names are kept.
ShownUnread(r, rows) ==
    CASE look[r].query.op = "entries" -> rows
      [] look[r].query.op = "listing" -> Only(rows, look[r].live)
      [] OTHER -> rows

\* Of the entries: `entries` decodes each and drops the deleted ones, the
\* command keeps the names it found live before.
Shown(r, rows) ==
    CASE look[r].query.op = "entries" -> LiveRows(rows)
      [] look[r].query.op = "listing" -> Only(rows, look[r].live)
      [] OTHER -> rows

ValidateIndex(r) ==
    /\ rpc[r] = "validate"
    /\ LET tree == refs[look[r].query.kind]
           rows == IF Validated(tree, look[r].rows) THEN IndexRows(tree)
                   ELSE look[r].rows
       IN  look' = [look EXCEPT ![r].rows = Shown(r, rows)]
    /\ RGoto(r, "shown")
    /\ UNCHANGED vars

-----------------------------------------------------------------------------
\* Kind::read of a name.
FetchName(r) ==
    /\ rpc[r] = "fetch"
    /\ LET n == look[r].query.name
           rows == [m \in {n} |-> ViewTip(r, n)]
       IN  look' = [look EXCEPT ![r].rows = LiveRows(rows), ![r].todo = {}]
    /\ RGoto(r, "shown")
    /\ UNCHANGED vars

\* resolve_at: git resolves the revision against the entity's ref, or the
\* caller named a commit outright.
ResolveRevision(r) ==
    /\ rpc[r] = "resolve"
    /\ \E commit \in IF look[r].query.op = "version"
                     THEN Tokens(look[r].query.name) \ {Absent}
                     ELSE AllTokens \ {Absent} :
          look' = [look EXCEPT ![r].found = commit, ![r].todo = {}]
    /\ RGoto(r, "belongs")
    /\ UNCHANGED vars

\* The revision does not exist.
NoRevision(r) ==
    /\ rpc[r] = "resolve"
    /\ RGoto(r, "missing")
    /\ UNCHANGED <<vars, look>>

\* A plausible bug: only the tip counts as a version.
BelongsNow(r) == look[r].found = refs[look[r].query.name]

\* The command asks Kind::history, which reads the ref again, whether the
\* commit is a version of the entity.
Belongs(r) == look[r].found \in Tokens(look[r].query.name)

StrayVersion(r) ==
    /\ rpc[r] = "belongs"
    /\ ~Belongs(r)
    /\ RGoto(r, "stray")
    /\ UNCHANGED <<vars, look>>

ReadVersion(r) ==
    /\ rpc[r] = "belongs"
    /\ Belongs(r)
    /\ look' = [look EXCEPT ![r].rows =
                   LiveRows([n \in {look[r].query.name} |-> look[r].found])]
    /\ RGoto(r, "shown")
    /\ UNCHANGED vars

-----------------------------------------------------------------------------
ReadInit ==
    /\ Init
    /\ rpc = [r \in Readers |-> "idle"]
    /\ look = [r \in Readers |->
                  [query |-> CHOOSE q \in Queries : TRUE, pinned |-> NoRows,
                   found |-> Absent, live |-> {}, todo |-> {}, rows |-> NoRows,
                   from |-> [n \in Names |-> Absent]]]

ReadStep(r) ==
    \/ ReadStart(r) \/ ScanRef(r)
    \/ GroupDone(r) \/ ListAgain(r) \/ ScanDone(r) \/ ValidateIndex(r)
    \/ FetchName(r)
    \/ ResolveRevision(r) \/ NoRevision(r) \/ StrayVersion(r) \/ ReadVersion(r)

WriterStep == \/ \E c \in Calls : Start(c) \/ Step(c)
              \/ Tick

ReadFinished ==
    /\ \A c \in Calls : pc[c] \in Returned
    /\ \A r \in Readers : rpc[r] \in RReturned
    /\ UNCHANGED <<vars, rvars>>

ReadNext ==
    \/ \E r \in Readers : ReadStep(r)
    \/ WriterStep /\ UNCHANGED rvars
    \/ ReadFinished

ReadSpec == ReadInit /\ [][ReadNext]_<<vars, rvars>>

-----------------------------------------------------------------------------
(* Properties *)

(* Every local variable has its type; a row is a commit, never an absence. *)
ReadTypeOK ==
    /\ rpc \in [Readers -> {"idle"} \cup RWorking \cup RReturned]
    /\ \A r \in Readers :
          /\ look[r].query \in Queries
          /\ look[r].pinned \in [look[r].query.viewed -> History] \/ rpc[r] = "idle"
          /\ look[r].found \in History
          /\ look[r].live \subseteq Names
          /\ look[r].todo \subseteq Names
          /\ DOMAIN look[r].rows \subseteq Names
          /\ \A n \in DOMAIN look[r].rows : look[r].rows[n] \in History \ {Absent}
          /\ look[r].from \in [Names -> History]

\* What a branch name has held since the call began: in a view, what it is
\* pinned to.
HeldSince(r, n) ==
    IF n \in DOMAIN look[r].pinned THEN {look[r].pinned[n]}
    ELSE {p \in Prefixes(refs[n]) : IsPrefix(look[r].from[n], p)}

(***************************************************************************)
(* Whatever is written while a listing runs, each of its rows is a commit  *)
(* its name held since the call began: never one that was replaced before, *)
(* also when the rows come out of the index, and in an as-of view exactly  *)
(* the pinned one.                                                         *)
(***************************************************************************)
RowsWereHeld ==
    \A r \in Readers : rpc[r] = "shown" /\ look[r].query.op \notin {"version", "commit"} =>
        \A n \in BranchNames \cap DOMAIN look[r].rows : look[r].rows[n] \in HeldSince(r, n)

(***************************************************************************)
(* A name a listing of live entities shows was live at some time since the *)
(* call began, and a name it leaves out was not, at some time: an entity   *)
(* that was there all the time is not missed.  The listing with tombstones *)
(* leaves out only names that did not exist.                               *)
(***************************************************************************)
ListingsAgree ==
    \A r \in Readers :
        rpc[r] = "shown" /\ look[r].query.op \in {"list", "entries", "rows", "listing"} =>
            \A n \in BranchNames \cap look[r].query.group :
                IF n \in DOMAIN look[r].rows
                THEN look[r].query.op # "rows" => \E p \in HeldSince(r, n) : Present(p)
                ELSE \E p \in HeldSince(r, n) :
                        IF look[r].query.op = "rows" THEN p = Absent ELSE ~Present(p)

(***************************************************************************)
(* A revision counted back from a name's ref is a version of the entity    *)
(* still when `get` looks at the ref a second time, unless somebody prunes *)
(* or grafts the name; and no version it shows is another entity's.        *)
(***************************************************************************)
VersionsBelong ==
    \A r \in Readers :
        LET n == look[r].query.name
        IN  n \in BranchNames =>
                /\ ~(rpc[r] = "stray" /\ look[r].query.op = "version")
                /\ (rpc[r] = "shown" /\ look[r].query.op \in {"version", "commit"})
                       => \A m \in DOMAIN look[r].rows : look[r].rows[m] \in Tokens(n)
=============================================================================
