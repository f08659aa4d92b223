------------------------------ MODULE Commands ------------------------------
(***************************************************************************)
(* The commands of git-store (crates/git-store/src/main.rs) over one       *)
(* repository.                                                             *)
(*                                                                         *)
(* Each element of Runs is one invocation, in a process of its own.  It    *)
(* takes a step for each access to a ref; an object, once there, is the    *)
(* same for everybody, so reading objects is part of the step that found   *)
(* them.  `refs` maps a kind to the tip of its schema ref and a name to    *)
(* the tip of its entity ref.  A commit is its first-parent history, a     *)
(* sequence of trees: schemas for a kind, document roots for a name.  The  *)
(* tombstone of a document is fixed by the history below it, so one root   *)
(* stands for all of them.                                                 *)
(*                                                                         *)
(* The index is left to Entities.tla: here a batch may lose to any other   *)
(* that touched the same kind while it was prepared, as it does when both  *)
(* carry an edit of the index.                                             *)
(***************************************************************************)
EXTENDS Documents, SequencesExt, FiniteSetsExt

CONSTANTS
  Kinds,
  Names,       \* entity names, over all kinds
  KindOf,      \* the kind of each name
  Garbled,     \* text that is no JSON, or JSON of another shape
  Foreign,     \* roots other tools have written into the repository
  Tombstone,   \* the root of a tombstone
  Runs,        \* invocations
  Scenarios    \* the refs to begin with, and what each invocation asks for

Refs == Kinds \cup Names
NoRef == "no ref"
Absent == <<>>

ASSUME RefsAssumption == Kinds \cap Names = {} /\ NoRef \notin Refs
ASSUME KindAssumption == KindOf \in [Names -> Kinds]
ASSUME TextAssumption == Garbled \notin Values \cup Schemas
ASSUME RootsAssumption == Foreign \cup {Tombstone} \subseteq Roots
ASSUME TombstoneAssumption == DecodeExit(Tombstone) = "ok" /\ Inspect(Tombstone) = "bound"

\* What names a tree, a commit or a schema on the command line.
Trees == [by : {"object"}, root : Roots] \cup [by : {"name"}, name : Names] \cup [by : {"blob"}]
Parents == [by : {"tip", "blob"}] \cup [by : {"name"}, name : Names]
SchemaArgs == [by : {"kind"}, kind : Kinds] \cup [by : {"tree"}, tree : Schemas \cup Odd]
Items == [name : Names, spec : Trees \cup [by : {"garbled"}],
          expect : {"tip", "absent", "garbled"}, parent : Parents]

\* A request has what its command needs.  Only a batch is given as text, and
\* only without parents; check knows schemas by their kind.
IsRequest(q) ==
    /\ q.verb = "schema put" => q.kind \in Kinds /\ q.text \in Schemas \cup {Garbled}
    /\ q.verb \in {"compile", "put"} =>
           /\ q.kind \in Kinds /\ q.name \in Names
           /\ q.text \in Values \cup {Garbled}
           /\ q.from \in {"both", "given", "editor", "prompt"}
    /\ q.verb = "publish" =>
           /\ q.items \in Seq(Items)
           /\ \A i \in DOMAIN q.items :
                 IF q.batch THEN q.items[i].parent.by = "tip"
                            ELSE q.items[i].spec.by # "garbled"
    /\ q.verb \in {"rm", "get", "entity resolve"} => q.name \in Names
    /\ q.verb = "schema show" => q.ref \in Kinds
    /\ q.verb \in {"log", "ref resolve"} => q.ref \in Refs
    /\ q.verb = "ref list" => q.under \subseteq Refs
    /\ q.verb \in {"object tree", "document inspect", "cat"} => q.spec \in Trees
    /\ q.verb \in {"value decode", "document bind", "check"} =>
           q.spec \in Trees /\ q.schema \in SchemaArgs
    /\ q.verb = "check" => q.schema.by = "kind"
    /\ q.verb = "value encode" =>
           q.schema \in SchemaArgs /\ q.text \in Values \cup {Garbled}

\* The refs are what earlier invocations made them, out of the store's own
\* documents, which can be read, and those of other tools.
IsStart(start) ==
    /\ DOMAIN start = Refs
    /\ \A k \in Kinds : start[k] \in Seq(Universe)
    /\ \A n \in Names :
          /\ start[n] \in Seq(Roots)
          /\ \A i \in DOMAIN start[n] :
                /\ Inspect(start[n][i]) = "bound"
                /\ start[n][i] \in Foreign \/ DecodeExit(start[n][i]) = "ok"

ASSUME ScenariosAssumption ==
    \A s \in Scenarios :
        /\ IsStart(s.refs)
        /\ DOMAIN s.ask = Runs
        /\ \A c \in Runs : IsRequest(s.ask[c])

VARIABLES
  refs,       \* the ref store
  objects,    \* the roots in the object database
  ask,        \* the request of each invocation
  step,       \* where each invocation is
  job,        \* its local variables
  answer      \* what it printed, and its exit

vars == <<refs, objects, ask, step, job, answer>>

-----------------------------------------------------------------------------
(* Helpers *)

Verb(c) == ask[c].verb
At(c, verbs, label) == Verb(c) \in verbs /\ step[c] = label
Goto(c, label) == step' = [step EXCEPT ![c] = label]

NoJob == [since |-> 0, seen |-> Absent, found |-> Tombstone, plan |-> <<>>,
          next |-> 1, edits |-> <<>>, lines |-> {}, left |-> {}, moved |-> FALSE]

\* One line of output: a ref and a commit it held, or neither; trees; values.
Line(ref, commit, trees, values) ==
    [ref |-> ref, commit |-> commit, trees |-> trees, values |-> values]

\* The invocation ends: it prints, and exits.
Exit(c, exit, lines) ==
    /\ Goto(c, "done")
    /\ answer' = [answer EXCEPT ![c] = [exit |-> exit, lines |-> lines]]

\* The invocation ends with this exit, and prints if that is a success.
ExitWith(c, exit, lines) == Exit(c, exit, IF exit = "ok" THEN lines ELSE {})

Deleted(tip) == tip # Absent /\ Last(tip) = Tombstone

\* A plausible bug: an object id is taken at its word.
TreeUncheckedExit(spec) ==
    CASE spec.by = "object" -> "ok"
      [] spec.by = "name" -> IF refs[spec.name] = Absent THEN "notfound" ELSE "ok"
      [] spec.by = "blob" -> "invalid"

\* resolve_tree: a root by its object id, or the tree of the commit at an
\* entity's ref; a blob has no tree.
TreeExit(spec) ==
    CASE spec.by = "object" -> IF spec.root \in objects THEN "ok" ELSE "notfound"
      [] spec.by = "name" -> IF refs[spec.name] = Absent THEN "notfound" ELSE "ok"
      [] spec.by = "blob" -> "invalid"

RootAt(spec) == IF spec.by = "name" THEN Last(refs[spec.name]) ELSE spec.root

\* resolve_schema_tree: the tip of a schema ref, or a tree by its object id.
SchemaAtExit(spec) ==
    IF spec.by = "kind" /\ refs[spec.kind] = Absent THEN "notfound" ELSE "ok"
SchemaAt(spec) == IF spec.by = "kind" THEN Last(refs[spec.kind]) ELSE spec.tree

-----------------------------------------------------------------------------
(* schema put *)

\* schema_doc_from_json: whether the text is a schema.
SchemaTextExit(text) == IF text = Garbled THEN "invalid" ELSE "ok"

\* check_identity_subtrees: a schema whose keys leave the identity normal form.
UniverseExit(text) ==
    IF text \in Schemas \ Universe THEN ExitOf("IdentityUniverse") ELSE "ok"

PutSchemaExit(c) == FirstFailure(<<SchemaTextExit(ask[c].text), UniverseExit(ask[c].text)>>)

RefuseSchema(c) ==
    /\ At(c, {"schema put"}, "start")
    /\ PutSchemaExit(c) # "ok"
    /\ Exit(c, PutSchemaExit(c), {})
    /\ UNCHANGED <<refs, objects, ask, job>>

\* commit_forward reads the tip the next commit goes on.
ReadSchemaTip(c) ==
    /\ At(c, {"schema put"}, "start")
    /\ PutSchemaExit(c) = "ok"
    /\ job' = [job EXCEPT ![c].seen = refs[ask[c].kind]]
    /\ Goto(c, "forward")
    /\ UNCHANGED <<refs, objects, ask, answer>>

\* A plausible bug: the commit is put at the ref whatever is there now.
RegisterUnchecked(c) ==
    LET commit == Append(job[c].seen, ask[c].text)
    IN  /\ At(c, {"schema put"}, "forward")
        /\ refs' = [refs EXCEPT ![ask[c].kind] = commit]
        /\ Exit(c, "ok", {Line(ask[c].kind, commit, {}, {})})
        /\ UNCHANGED <<objects, ask, job>>

RegisterWins(c) ==
    LET commit == Append(job[c].seen, ask[c].text)
    IN  /\ At(c, {"schema put"}, "forward")
        /\ refs[ask[c].kind] = job[c].seen
        /\ refs' = [refs EXCEPT ![ask[c].kind] = commit]
        /\ Exit(c, "ok", {Line(ask[c].kind, commit, {}, {})})
        /\ UNCHANGED <<objects, ask, job>>

RegisterLoses(c) ==
    /\ At(c, {"schema put"}, "forward")
    /\ refs[ask[c].kind] # job[c].seen
    /\ Goto(c, "start")
    /\ UNCHANGED <<refs, objects, ask, job, answer>>

-----------------------------------------------------------------------------
(* compile and put *)

Parsed(text) == IF text = Garbled THEN "invalid" ELSE "ok"

\* edit_in_editor over schema_skeleton: the editor may be left without saving.
EditedExits(text, tip) == IF tip = Absent THEN {ExitOf("NoSchema")} ELSE {"other", Parsed(text)}

\* value_for_kind: the prompts walk the schema, and may be left as well.
PromptedExits(text, tip) ==
    {"other"} \cup IF tip = Absent THEN {} ELSE {"ok" : bare \in Encode(text, Last(tip))}

\* gather_value: the value is given, once, or written in the editor, or prompted for.
GatherExits(c) ==
    LET tip == refs[ask[c].kind]
    IN  CASE ask[c].from = "both" -> {"other"}
          [] ask[c].from = "given" -> {Parsed(ask[c].text)}
          [] ask[c].from = "editor" -> EditedExits(ask[c].text, tip)
          [] ask[c].from = "prompt" -> PromptedExits(ask[c].text, tip)

Gather(c) ==
    /\ At(c, {"compile", "put"}, "start")
    /\ \E exit \in GatherExits(c) :
           IF exit = "ok" THEN Goto(c, "compile") /\ UNCHANGED answer
                          ELSE Exit(c, exit, {})
    /\ job' = [job EXCEPT ![c].since = Len(refs[ask[c].kind])]
    /\ UNCHANGED <<refs, objects, ask>>

\* A plausible bug: the value is encoded under another schema than it is bound to.
CompiledAcross(value, tip) == {Root(bare, Last(tip)) : bare \in Encode(value, Head(tip))}

\* compile_with_schema: the schema the value is checked against, and bound to.
Compiled(value, tip) == Bound(value, Last(tip))

Compile(c) ==
    LET tip == refs[ask[c].kind]
        exit == IF tip = Absent THEN ExitOf("NoSchema") ELSE CompileExit(ask[c].text, Last(tip))
    IN  /\ At(c, {"compile", "put"}, "compile")
        /\ \/ exit # "ok" /\ Exit(c, exit, {}) /\ UNCHANGED <<objects, job>>
           \/ exit = "ok" /\ \E root \in Compiled(ask[c].text, tip) :
                /\ objects' = objects \cup {root, Root(root.bare, NoEntry)}
                /\ \/ /\ Verb(c) = "compile"
                      /\ Exit(c, "ok", {Line(NoRef, Absent, {root}, {})})
                      /\ UNCHANGED job
                   \/ /\ Verb(c) = "put"
                      /\ job' = [job EXCEPT ![c].plan =
                            <<[name |-> ask[c].name, root |-> root, token |-> {}, parent |-> {}]>>]
                      /\ Goto(c, "resolve")
                      /\ UNCHANGED answer
        /\ UNCHANGED <<refs, ask>>

-----------------------------------------------------------------------------
(* document publish, one document or a batch, and rm *)

\* parse_expectation: what the ref is to hold: nothing, or the commit that the
\* caller has seen at its tip.
Token(item) == IF item.expect = "tip" THEN refs[item.name] ELSE Absent

\* resolve_commit: an explicit parent.
ParentExit(parent) ==
    CASE parent.by = "tip" -> "ok"
      [] parent.by = "name" -> IF refs[parent.name] = Absent THEN "notfound" ELSE "ok"
      [] parent.by = "blob" -> "invalid"

\* One document is inspected first; a batch leaves that to the transaction.
ItemExit(c, item) ==
    LET tree == TreeExit(item.spec)
        shape == IF ~ask[c].batch /\ tree = "ok" /\ Inspect(RootAt(item.spec)) # "bound"
                 THEN "schema" ELSE "ok"
        expect == IF item.expect = "garbled" THEN "invalid" ELSE "ok"
    IN  FirstFailure(<<tree, shape, expect, ParentExit(item.parent)>>)

\* parse_batch: a line that is no record, or no record at all.
Unreadable(c) ==
    \/ ask[c].items = <<>>
    \/ ask[c].batch /\ \E i \in DOMAIN ask[c].items : ask[c].items[i].spec.by = "garbled"

Planned(item) ==
    [name |-> item.name, root |-> RootAt(item.spec), token |-> {Token(item)},
     parent |-> IF item.parent.by = "tip" THEN {} ELSE {refs[item.parent.name]}]

Publish(c) ==
    LET items == ask[c].items
        exit == IF Unreadable(c) THEN "invalid"
                ELSE FirstFailure([i \in DOMAIN items |-> ItemExit(c, items[i])])
    IN  /\ At(c, {"publish"}, "start")
        /\ IF exit # "ok" THEN Exit(c, exit, {}) /\ UNCHANGED job
           ELSE /\ job' = [job EXCEPT ![c].plan = [i \in DOMAIN items |-> Planned(items[i])]]
                /\ Goto(c, "resolve")
                /\ UNCHANGED answer
        /\ UNCHANGED <<refs, objects, ask>>

\* What the resolution of a document comes to: resolve_publish splits the root,
\* reads the ref, checks the expectation; only a commit has a message to refuse.
ResolveExit(c, item, tip) ==
    IF SplitExit(item.root) # "ok" THEN SplitExit(item.root)
    ELSE IF item.token # {} /\ tip \notin item.token THEN "cas"
    ELSE IF tip # Absent /\ Last(tip) = item.root THEN "ok"
    ELSE IF ask[c].reserved THEN "other" ELSE "ok"

\* The commit a document is published by, which is the tip if it carries it.
CommitOf(item, tip) ==
    IF tip # Absent /\ Last(tip) = item.root THEN tip
    ELSE Append(IF item.parent = {} THEN tip ELSE CHOOSE h \in item.parent : TRUE, item.root)

Edit(name, old, new) == [name |-> name, old |-> old, new |-> new]

\* The documents of a batch are resolved one after the other.
Resolve(c) ==
    LET item == job[c].plan[job[c].next]
        tip == refs[item.name]
        commit == CommitOf(item, tip)
    IN  /\ At(c, {"put", "publish"}, "resolve")
        /\ job[c].next <= Len(job[c].plan)
        /\ \/ /\ ResolveExit(c, item, tip) # "ok"
              /\ Exit(c, ResolveExit(c, item, tip), {})
              /\ UNCHANGED job
           \/ /\ ResolveExit(c, item, tip) = "ok"
              /\ job' = [job EXCEPT
                     ![c].next = @ + 1,
                     ![c].edits = IF commit = tip THEN @ ELSE Append(@, Edit(item.name, tip, commit)),
                     ![c].lines = @ \cup {Line(item.name, commit, {item.root}, {})}]
              /\ UNCHANGED <<step, answer>>
        /\ UNCHANGED <<refs, objects, ask>>

\* delete_name: a tombstone over the tip, if the tip can be read.
Bury(c) ==
    LET name == ask[c].name
        tip == refs[name]
        exit == IF tip = Absent THEN "notfound" ELSE DecodeExit(Last(tip))
        commit == Append(tip, Tombstone)
    IN  /\ At(c, {"rm"}, "start")
        /\ IF exit # "ok" \/ Deleted(tip)
           THEN /\ ExitWith(c, exit, {Line(name, tip, {}, {})})
                /\ UNCHANGED <<objects, job>>
           ELSE /\ objects' = objects \cup {Tombstone}
                /\ job' = [job EXCEPT ![c].edits = <<Edit(name, tip, commit)>>,
                                       ![c].lines = {Line(name, commit, {}, {})}]
                /\ Goto(c, "resolve")
                /\ UNCHANGED answer
        /\ UNCHANGED <<refs, ask>>

\* Everything is resolved, the batch is ready.
Ready(c) == At(c, {"put", "publish", "rm"}, "resolve") /\ job[c].next > Len(job[c].plan)

Changed(c) == {job[c].edits[i].name : i \in DOMAIN job[c].edits}
Current(c) == \A i \in DOMAIN job[c].edits : refs[job[c].edits[i].name] = job[c].edits[i].old

\* The kinds whose index the batch may edit.
Touched(c) ==
    {KindOf[n] : n \in Changed(c) \cup {job[c].plan[i].name : i \in DOMAIN job[c].plan}}

\* The refs after the batch; gix refuses one with two edits of a ref.
Once(c) ==
    \A i, j \in DOMAIN job[c].edits : job[c].edits[i].name = job[c].edits[j].name => i = j
Landed(c) ==
    [r \in Refs |->
        IF r \in Changed(c)
        THEN job[c].edits[CHOOSE i \in DOMAIN job[c].edits : job[c].edits[i].name = r].new
        ELSE refs[r]]

\* The batch is applied whole.  What others prepare for the same kinds is now
\* out of date.
Land(c) ==
    /\ Ready(c)
    /\ Current(c)
    /\ Once(c)
    /\ refs' = Landed(c)
    /\ job' = [d \in Runs |->
                  IF d # c /\ step[d] = "resolve" /\ refs' # refs
                           /\ Touched(d) \cap {KindOf[n] : n \in Changed(c)} # {}
                  THEN [job[d] EXCEPT !.moved = TRUE] ELSE job[d]]
    /\ Exit(c, "ok", job[c].lines)
    /\ UNCHANGED <<objects, ask>>

\* Whether the batch may be refused.
Beaten(c) == ~Current(c) \/ ~Once(c) \/ job[c].moved

\* A publication with expectations is one attempt.
GiveUp(c) ==
    /\ Ready(c)
    /\ Verb(c) = "publish"
    /\ Beaten(c)
    /\ Exit(c, "cas", {})
    /\ UNCHANGED <<refs, objects, ask, job>>

\* A plausible bug: the next attempt applies the same edits.
TryAsBefore(c) ==
    /\ Ready(c)
    /\ Verb(c) # "publish"
    /\ Beaten(c)
    /\ UNCHANGED vars

\* Any other begins again, with the refs as they are now.
TryAgain(c) ==
    /\ Ready(c)
    /\ Verb(c) # "publish"
    /\ Beaten(c)
    /\ job' = [job EXCEPT ![c].next = 1, ![c].edits = <<>>, ![c].lines = {}, ![c].moved = FALSE]
    /\ Goto(c, IF Verb(c) = "rm" THEN "start" ELSE "resolve")
    /\ UNCHANGED <<refs, objects, ask, answer>>

-----------------------------------------------------------------------------
(* Reading by name *)

\* A plausible bug: the document is decoded under the kind's schema of today.
SchemaOfToday(name, root) == Last(refs[KindOf[name]])

\* Kind::read decodes under the schema the document carries.
SchemaRead(name, root) == root.schema

\* What get and entity resolve make of a tip.
NamedExit(name) ==
    LET tip == refs[name]
    IN  CASE tip = Absent -> "notfound"
          [] Deleted(tip) -> "other"
          [] OTHER -> DecodeExit(Root(Last(tip).bare, SchemaRead(name, Last(tip))))

Get(c) ==
    LET name == ask[c].name
        tip == refs[name]
    IN  /\ At(c, {"get"}, "start")
        /\ ExitWith(c, NamedExit(name),
               {Line(name, tip, {}, Decode(Last(tip).bare, SchemaRead(name, Last(tip))))})
        /\ UNCHANGED <<refs, objects, ask, job>>

\* entity resolve reads the tip, and then the tree of the commit it has read.
ReadName(c) ==
    LET exit == NamedExit(ask[c].name)
    IN  /\ At(c, {"entity resolve"}, "start")
        /\ IF exit = "ok"
           THEN /\ job' = [job EXCEPT ![c].seen = refs[ask[c].name]]
                /\ Goto(c, "show")
                /\ UNCHANGED answer
           ELSE Exit(c, exit, {}) /\ UNCHANGED job
        /\ UNCHANGED <<refs, objects, ask>>

\* A plausible bug: the tree of the commit that is at the ref by now.
TreeAtRef(c) == Last(refs[ask[c].name])

TreeRead(c) == Last(job[c].seen)

ShowName(c) ==
    /\ At(c, {"entity resolve"}, "show")
    /\ Exit(c, "ok", {Line(ask[c].name, job[c].seen, {TreeRead(c)}, {})})
    /\ UNCHANGED <<refs, objects, ask, job>>

\* The current schema of a kind, or that of its first commit.
Snapshot(c) ==
    IF ask[c].at = "tip" THEN refs[ask[c].ref] ELSE SubSeq(refs[ask[c].ref], 1, 1)

ShowSchema(c) ==
    LET exit == IF refs[ask[c].ref] = Absent THEN ExitOf("NoSchema") ELSE "ok"
    IN  /\ At(c, {"schema show"}, "start")
        /\ ExitWith(c, exit, {Line(ask[c].ref, Snapshot(c), {Last(Snapshot(c))}, {})})
        /\ UNCHANGED <<refs, objects, ask, job>>

\* log, schema log: the first-parent walk from the tip.
ShowLog(c) ==
    LET tip == refs[ask[c].ref]
    IN  /\ At(c, {"log"}, "start")
        /\ Exit(c, "ok", {Line(ask[c].ref, SubSeq(tip, 1, i), {}, {}) : i \in DOMAIN tip})
        /\ UNCHANGED <<refs, objects, ask, job>>

ResolveRef(c) ==
    LET tip == refs[ask[c].ref]
    IN  /\ At(c, {"ref resolve"}, "start")
        /\ ExitWith(c, IF tip = Absent THEN "notfound" ELSE "ok",
                    {Line(ask[c].ref, tip, {}, {})})
        /\ UNCHANGED <<refs, objects, ask, job>>

-----------------------------------------------------------------------------
(* Listing refs: the kinds, the schema of every kind, the refs of a prefix *)

StartList(c, verb, left) ==
    /\ At(c, {verb}, "start")
    /\ job' = [job EXCEPT ![c].left = left]
    /\ Goto(c, "list")
    /\ UNCHANGED <<refs, objects, ask, answer>>

\* ref list shows where a ref is, schema show the schema that is there as well.
Listed(c, r) ==
    Line(r, refs[r], IF Verb(c) = "ref list" THEN {} ELSE {Last(refs[r])}, {})

\* The refs are read one by one.
ListNext(c) ==
    /\ At(c, {"schema show all", "ref list"}, "list")
    /\ \E r \in job[c].left :
         job' = [job EXCEPT
             ![c].left = @ \ {r},
             ![c].lines = IF refs[r] = Absent THEN @ ELSE @ \cup {Listed(c, r)}]
    /\ UNCHANGED <<refs, objects, ask, step, answer>>

ShowList(c) ==
    /\ At(c, {"schema show all", "ref list"}, "list")
    /\ job[c].left = {}
    /\ Exit(c, "ok", job[c].lines)
    /\ UNCHANGED <<refs, objects, ask, job>>

HasSchema == {k \in Kinds : refs[k] # Absent}

\* list and ls without a kind.
ListKinds(c) ==
    /\ At(c, {"kinds"}, "start")
    /\ Exit(c, "ok", {Line(NoRef, Absent, HasSchema, {})})
    /\ UNCHANGED <<refs, objects, ask, job>>

\* schema show without a kind begins with the kinds.
ShowSchemas(c) == StartList(c, "schema show all", HasSchema)

ListRefs(c) == At(c, {"ref list"}, "start") /\ StartList(c, "ref list", ask[c].under)

-----------------------------------------------------------------------------
(* Trees *)

\* object tree and document inspect.
ShowTree(c) ==
    LET spec == ask[c].spec
    IN  /\ At(c, {"object tree", "document inspect"}, "start")
        /\ ExitWith(c, TreeExit(spec), {Line(NoRef, Absent, {RootAt(spec)}, {})})
        /\ UNCHANGED <<refs, objects, ask, job>>

Cat(c) ==
    LET spec == ask[c].spec
        exit == IF TreeExit(spec) # "ok" THEN TreeExit(spec)
                ELSE Within(DecodeExit(RootAt(spec)), "schema")
    IN  /\ At(c, {"cat"}, "start")
        /\ ExitWith(c, exit, {Line(NoRef, Absent, {RootAt(spec)}, ValueOf(RootAt(spec)))})
        /\ UNCHANGED <<refs, objects, ask, job>>

\* value decode, document bind and check resolve a tree, and then a schema.
FindTree(c) ==
    LET exit == TreeExit(ask[c].spec)
    IN  /\ At(c, {"value decode", "document bind", "check"}, "start")
        /\ IF exit = "ok"
           THEN job' = [job EXCEPT ![c].found = RootAt(ask[c].spec)] /\ Goto(c, "schema") /\ UNCHANGED answer
           ELSE Exit(c, exit, {}) /\ UNCHANGED job
        /\ UNCHANGED <<refs, objects, ask>>

\* What the schema is used for, if there is one: the exit, and what it prints.
UseSchema(c, verb, exit, line) ==
    LET result == IF SchemaAtExit(ask[c].schema) = "ok" THEN exit
                  ELSE SchemaAtExit(ask[c].schema)
    IN  /\ At(c, {verb}, "schema")
        /\ ExitWith(c, result, {line})
        /\ objects' = IF result = "ok" THEN objects \cup line.trees ELSE objects
        /\ UNCHANGED <<refs, ask, job>>

DecodeValue(c) ==
    LET root == job[c].found
        schema == SchemaAt(ask[c].schema)
    IN  UseSchema(c, "value decode", ReadBareExit(root, schema),
                  Line(NoRef, Absent, {root}, Decode(root.bare, schema)))

BindValue(c) ==
    LET root == job[c].found
        schema == SchemaAt(ask[c].schema)
    IN  UseSchema(c, "document bind", BindExit(root, schema),
                  Line(NoRef, Absent, {Root(root.bare, schema)}, {}))

CheckValue(c) ==
    LET root == job[c].found
        exit == Within(ReadBareExit(root, SchemaAt(ask[c].schema)), "schema")
    IN  UseSchema(c, "check", exit, Line(NoRef, Absent, {root}, {}))

\* value encode: the schema first, then the text.
EncodeText(c) ==
    LET schema == SchemaAt(ask[c].schema)
        text == ask[c].text
        exit == FirstFailure(<<SchemaAtExit(ask[c].schema), Parsed(text)>>)
        result == IF exit = "ok" THEN EncodeExit(text, schema) ELSE exit
        trees == IF result = "ok" THEN {Root(bare, NoEntry) : bare \in Encode(text, schema)} ELSE {}
    IN  /\ At(c, {"value encode"}, "start")
        /\ objects' = objects \cup trees
        /\ Exit(c, result, {Line(NoRef, Absent, {tree}, {}) : tree \in trees})
        /\ UNCHANGED <<refs, ask, job>>

-----------------------------------------------------------------------------

\* What was published by earlier invocations is in the object database.
Written(tips) ==
    LET roots == UNION {ToSet(tips[n]) : n \in Names}
    IN  roots \cup {Root(root.bare, NoEntry) : root \in roots}

Init ==
    /\ \E s \in Scenarios : refs = s.refs /\ ask = s.ask
    /\ objects = Foreign \cup Written(refs)
    /\ step = [c \in Runs |-> "start"]
    /\ job = [c \in Runs |-> NoJob]
    /\ answer = [c \in Runs |-> [exit |-> "none", lines |-> {}]]

\* run_with: the command an invocation is.
Run(c) ==
    \/ RefuseSchema(c) \/ ReadSchemaTip(c) \/ RegisterWins(c) \/ RegisterLoses(c)
    \/ Gather(c) \/ Compile(c)
    \/ Publish(c) \/ Resolve(c) \/ Bury(c) \/ Land(c) \/ GiveUp(c) \/ TryAgain(c)
    \/ Get(c) \/ ReadName(c) \/ ShowName(c) \/ ShowSchema(c) \/ ShowLog(c) \/ ResolveRef(c)
    \/ ListKinds(c) \/ ShowSchemas(c) \/ ListRefs(c) \/ ListNext(c) \/ ShowList(c)
    \/ ShowTree(c) \/ Cat(c) \/ FindTree(c) \/ DecodeValue(c) \/ BindValue(c) \/ CheckValue(c)
    \/ EncodeText(c)

Done == (\A c \in Runs : step[c] = "done") /\ UNCHANGED vars

Next == (\E c \in Runs : Run(c)) \/ Done

\* Every invocation is scheduled, and whoever it asks answers.
Spec == Init /\ [][Next]_vars /\ \A c \in Runs : WF_vars(Run(c))

-----------------------------------------------------------------------------
(* Properties *)

Steps == {"start", "forward", "compile", "resolve", "show", "list", "schema", "done"}

Lines == {line \in [ref : Refs \cup {NoRef}, commit : Seq(Schemas \cup Roots),
                    trees : SUBSET (Kinds \cup Schemas \cup Roots), values : SUBSET Values] :
              line.ref = NoRef <=> line.commit = Absent}

\* The variables have the right types, and nothing is published that is not in
\* the object database: a ref never leads to a tree that git cannot find.
CommandsTypeOK ==
    /\ DOMAIN refs = Refs
    /\ \A k \in Kinds : refs[k] \in Seq(Universe)
    /\ \A n \in Names : refs[n] \in Seq(objects)
    /\ objects \subseteq Roots
    /\ step \in [Runs -> Steps]
    /\ \A c \in Runs :
          /\ answer[c].exit \in Exits \cup {"none"}
          /\ answer[c].exit = "none" <=> step[c] # "done"
          /\ answer[c].lines \subseteq Lines

\* Names published with an explicit parent, whose histories may be replaced.
Grafted ==
    {n \in Names : \E c \in Runs :
        /\ Verb(c) = "publish"
        /\ \E i \in DOMAIN ask[c].items :
              ask[c].items[i].name = n /\ ask[c].items[i].parent.by # "tip"}

\* A commit that a command has printed for a ref stays in the history of that
\* ref, whatever other invocations do: what schema put, put, publish and rm
\* acknowledged is not overwritten by a racing write.
ShownCommitsStay ==
    \A c \in Runs : \A line \in answer[c].lines :
        line.ref \notin Grafted \cup {NoRef} => IsPrefix(line.commit, refs[line.ref])

\* The root that compile and put print reads back as the value they were given,
\* under a schema that was registered for the kind, and one no older than the
\* schema of the kind when the command began: the schema is read twice, and
\* the document is pinned to the one its value was checked against.
DocumentsPinned ==
    \A c \in Runs :
        Verb(c) \in {"compile", "put"} /\ answer[c].exit = "ok" =>
            \A line \in answer[c].lines : \A root \in line.trees :
                /\ ValueOf(root) = {ask[c].text}
                /\ \E i \in DOMAIN refs[ask[c].kind] :
                      i >= job[c].since /\ refs[ask[c].kind][i] = root.schema

\* Every published document is a bound one, by whichever of the two paths it
\* was published, the single one that inspects it first or the batch.
PublishedAreBound ==
    \A n \in Names : \A i \in DOMAIN refs[n] : Inspect(refs[n][i]) = "bound"

\* A line of output is about one publication: the tree and the value printed
\* beside a commit are those of that commit, though the command reads the ref
\* and its objects at different times.
LinesAgree ==
    \A c \in Runs : \A line \in answer[c].lines :
        line.ref # NoRef =>
            /\ line.trees \subseteq {Last(line.commit)}
            /\ line.values # {} => line.values = ValueOf(Last(line.commit))

Ends(c) == step[c] # "done" /\ step'[c] = "done"

\* A live document that the store's own commands made is read by name, as the
\* value it had when it was made, however the schema of its kind has moved.
NamesStayReadable ==
    [][\A c \in Runs :
          Verb(c) = "get" /\ Ends(c) =>
              LET tip == refs[ask[c].name]
              IN  tip # Absent /\ Last(tip) \notin Foreign \cup {Tombstone} =>
                      LET shown == Line(ask[c].name, tip, {}, ValueOf(Last(tip)))
                      IN  answer'[c] = [exit |-> "ok", lines |-> {shown}]]_vars

\* What the reading commands ask for and is not there: a ref, an object, or the
\* schema a document carries.
Lacks(spec) ==
    \/ spec.by = "name" /\ refs[spec.name] = Absent
    \/ spec.by = "object" /\ spec.root \notin objects
    \/ spec.by # "blob" /\ RootAt(spec).schema = "missing" /\ RootAt(spec).bare # NoValue

\* A document by name, a document by its object id, and a tombstone's: exit
\* code 3 is for what is missing, and only for that, whatever the error it
\* comes from has been wrapped in on its way to main.
NotFoundMeansMissing ==
    [][\A c \in Runs :
          Ends(c) =>
              /\ Verb(c) \in {"get", "entity resolve", "rm"} =>
                    (answer'[c].exit = "notfound"
                        <=> step[c] = "start" /\ Lacks([by |-> "name", name |-> ask[c].name]))
              /\ Verb(c) = "cat" => (answer'[c].exit = "notfound" <=> Lacks(ask[c].spec))]_vars

\* Every invocation ends, though a put or an rm that loses a race begins again.
CommandsEnd == \A c \in Runs : <>(step[c] = "done")
=============================================================================
