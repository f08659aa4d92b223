----------------------------- MODULE MCCommands -----------------------------
(* Small workloads for Commands.tla. *)
EXTENDS Commands, TLC

CONSTANTS j1, j2, jt, s1, s2, sb, sx, st, t1, t2, tb, tt, n1, n2, k1, c1, c2, c3

\* One tree reads as two values under two schemas; sb is the schema of a bare
\* value, sx has keys outside the normal form, st is the tombstones'.
MCEncoding ==
    {<<j1, s1, t1>>, <<j2, s2, t1>>, <<j1, s2, t2>>, <<j1, sb, tb>>, <<jt, st, tt>>}
MCTombstone == Root(tt, st)
MCKindOf == (n1 :> k1) @@ (n2 :> k1)

Document == Root(t1, s1)

\* Value trees, and roots that other tools may have written.
MCForeign ==
    {Root(t1, NoEntry), Root(tb, NoEntry), Root(NoValue, s1), Root(t2, s1), Root(tb, sb)}
    \cup {Root(t1, odd) : odd \in Odd}

(* Requests *)

SchemaPut(text) == [verb |-> "schema put", kind |-> k1, text |-> text]
Compose(verb, name, from, text, reserved) ==
    [verb |-> verb, kind |-> k1, name |-> name, from |-> from, text |-> text,
     reserved |-> reserved]
Object(root) == [by |-> "object", root |-> root]
AtName(name) == [by |-> "name", name |-> name]
Garbled0 == [by |-> "garbled"]
Blob == [by |-> "blob"]
OnTip == [by |-> "tip"]
Item(name, spec, expect, parent) ==
    [name |-> name, spec |-> spec, expect |-> expect, parent |-> parent]
Publication(items, batch, reserved) ==
    [verb |-> "publish", items |-> items, batch |-> batch, reserved |-> reserved]
Named(verb, name) == [verb |-> verb, name |-> name]
OfRef(verb, ref) == [verb |-> verb, ref |-> ref]
OfTree(verb, spec) == [verb |-> verb, spec |-> spec]
Under(verb, spec, schema) == [verb |-> verb, spec |-> spec, schema |-> schema]
ShowSchemaAt(at) == [verb |-> "schema show", ref |-> k1, at |-> at]
AtKind == [by |-> "kind", kind |-> k1]
AsTree(schema) == [by |-> "tree", tree |-> schema]
EncodeUnder(text, schema) == [verb |-> "value encode", text |-> text, schema |-> schema]
Kinds0 == [verb |-> "kinds"]
ShowAll == [verb |-> "schema show all"]
Refs0 == [verb |-> "ref list", under |-> {k1, n1}]

(* The refs to begin with *)

State(schema, first, second) == (k1 :> schema) @@ (n1 :> first) @@ (n2 :> second)
Fresh == State(<<>>, <<>>, <<>>)
Used == State(<<s1>>, <<Document>>, <<>>)
Evolved == State(<<s1, s2>>, <<Document>>, <<Document, MCTombstone>>)
Holding(root) == State(<<s1>>, <<root>>, <<>>)

Scenario(state, first, second, third) ==
    [refs |-> state, ask |-> (c1 :> first) @@ (c2 :> second) @@ (c3 :> third)]

\* The schema of the kind moves while values are compiled, published and read.
Moving ==
    {Scenario(state, SchemaPut(s2), second, third) :
        state \in {Fresh, Used, Evolved},
        second \in {Compose("put", n1, from, j1, FALSE) : from \in {"given", "editor", "prompt"}}
                   \cup {Compose("compile", n1, "given", j2, FALSE)},
        third \in {SchemaPut(s1), Named("rm", n1), Named("get", n1),
                   Named("entity resolve", n1), ShowAll, Refs0, OfRef("log", n1),
                   Under("check", AtName(n1), AtKind),
                   Publication(<<Item(n2, AtName(n1), "absent", OnTip)>>, FALSE, FALSE)}}

\* Publications, deletions and reads of the same two names.
Racing ==
    {Scenario(state, first, second, third) :
        state \in {Used, Evolved},
        first \in {Compose("put", n1, "given", j1, FALSE), Compose("put", n2, "given", j1, FALSE)},
        second \in {Named("rm", n1), Named("rm", n2), Named("get", n2),
                    Named("entity resolve", n1)},
        third \in {Publication(<<Item(n1, Object(Document), "tip", OnTip)>>, FALSE, FALSE),
                   Publication(<<Item(n2, Object(Document), "tip", AtName(n1))>>, FALSE, FALSE),
                   Publication(<<Item(n1, Object(Root(t2, s1)), "tip", OnTip),
                                 Item(n2, Object(Document), "absent", OnTip)>>, TRUE, FALSE)}}

Roots0 == MCForeign \cup {Document, Root(t2, s2)}

\* One command by itself, with whatever it may be given.
Alone ==
    {Compose("put", n1, from, text, reserved) :
        from \in {"both", "given", "editor", "prompt"}, text \in {j1, j2, Garbled},
        reserved \in BOOLEAN}
    \cup {SchemaPut(text) : text \in {s1, sb, sx, Garbled}}
    \cup {Publication(<<Item(n2, spec, expect, parent)>>, batch, reserved) :
            spec \in {Blob, AtName(n1)} \cup {Object(root) : root \in Roots0},
            expect \in {"tip", "garbled"}, batch \in BOOLEAN, reserved \in BOOLEAN,
            parent \in {OnTip}}
    \cup {Publication(<<Item(n1, Object(Document), "tip", parent)>>, FALSE, FALSE) :
            parent \in {AtName(n2), Blob}}
    \cup {Publication(<<>>, TRUE, FALSE),
          Publication(<<Item(n2, Blob, "absent", OnTip),
                        Item(n2, Garbled0, "absent", OnTip)>>, TRUE, FALSE),
          Publication(<<Item(n2, Object(Document), "absent", OnTip),
                        Item(n2, Object(Root(t2, s1)), "absent", OnTip)>>, TRUE, FALSE)}
    \cup {Named(verb, n1) : verb \in {"rm", "get", "entity resolve"}}
    \cup {ShowSchemaAt(at) : at \in {"tip", "first"}}
    \cup {OfRef(verb, k1) : verb \in {"log", "ref resolve"}}
    \cup {OfTree(verb, spec) :
            verb \in {"cat", "object tree", "document inspect"},
            spec \in {Blob, AtName(n1)} \cup {Object(root) : root \in Roots0}}
    \cup {Under(verb, spec, schema) :
            verb \in {"value decode", "document bind"},
            spec \in {Blob, Object(Root(tb, NoEntry)), Object(Root(t1, NoEntry)), AtName(n1)},
            schema \in {AtKind, AsTree(s2), AsTree(sb), AsTree("junk")}}
    \cup {Under("check", spec, AtKind) :
            spec \in {Blob, Object(Root(tb, NoEntry)), Object(Root(t1, NoEntry)), AtName(n1)}}
    \cup {EncodeUnder(text, schema) :
            text \in {j1, j2, Garbled}, schema \in {AtKind, AsTree(sb), AsTree("junk")}}

MCScenarios ==
    Moving \cup Racing
    \cup {Scenario(state, request, Kinds0, Kinds0) :
            state \in {Fresh, Used, Evolved} \cup {Holding(root) : root \in
                {Root(t1, "junk"), Root(t2, s1), Root(tb, sb), MCTombstone}},
            request \in Alone}
=============================================================================
