----------------------------- MODULE Documents ------------------------------
(***************************************************************************)
(* Trees at the document boundary of git-store: what store.rs, envelope.rs *)
(* and encoding.rs make of them, and the class a failure is reported under *)
(* (error.rs, cli.rs, main.rs).                                            *)
(*                                                                         *)
(* A root is a git tree: the entries of a bare value and, perhaps, the     *)
(* reserved entry `.schema`.  A schema is identified with the tree it      *)
(* encodes to.  The value codec is an external crate: `Encoding` says      *)
(* which tree a value has under each schema it conforms to, so one tree    *)
(* may well read as two values under two schemas.                          *)
(***************************************************************************)
EXTENDS Integers, Sequences

CONSTANTS
  Values,         \* values a caller can write down
  Bare,           \* trees of bare values
  Schemas,        \* schemas
  StructSchemas,  \* schemas whose root resolves to a struct
  Universe,       \* schemas whose marked subtrees are in the identity normal form
  Encoding        \* the triples of a value, a schema it conforms to and its tree

ASSUME SchemasAssumption == StructSchemas \cup Universe \subseteq Schemas
ASSUME EncodingAssumption ==
    /\ Encoding \subseteq Values \X Schemas \X Bare
    /\ \A x, y \in Encoding : x[2] = y[2] => (x[1] = y[1] <=> x[3] = y[3])

\* A root without `.schema`, with one that is no tree, with one that is said to
\* be a tree and is not, with a tree that is not in the object database, with
\* a tree that encodes no schema.
NoEntry == "none"
Odd == {"file", "mislabelled", "missing", "junk"}

\* A root without entries of a value's own.
NoValue == "no value"

ASSUME MarksAssumption ==
    /\ Schemas \cap ({NoEntry} \cup Odd) = {}
    /\ NoValue \notin Bare

Root(bare, schema) == [bare |-> bare, schema |-> schema]
Roots == [bare : Bare \cup {NoValue}, schema : Schemas \cup {NoEntry} \cup Odd]

-----------------------------------------------------------------------------
(* The class of a failure is the one that ranks highest among the errors   *)
(* and contexts it is made of; "ok" is the exit of a success.              *)

Classes == {"cas", "notfound", "schema", "invalid", "other"}
Exits == {"ok"} \cup Classes

Rank == [cas |-> 4, notfound |-> 3, schema |-> 2, invalid |-> 1, other |-> 0]

\* A plausible bug: the context nearest to the user decides.
PreferContext(error, context) == context

Prefer(error, context) == IF Rank[context] > Rank[error] THEN context ELSE error

\* An exit reported in the given context.
Within(exit, context) == IF exit = "ok" THEN "ok" ELSE Prefer(exit, context)

\* store_error_exit_class: the class of an error of the library.  A Deserialize
\* is transparent (error.rs:155), so the codec's error in it is not met a second time,
\* by deserialize_exit_class; objects missing deep inside a value are left out.
ExitOf(error) ==
    CASE error \in {"NoSchema", "MissingObject", "SubtreeMissing"} -> "notfound"
      [] error \in {"NotACommit", "NotATree", "DocumentRootNotStruct"} -> "invalid"
      [] error \in {"NotSubtreeBound", "IdentityUniverse", "SchemaRead", "SchemaWrite"} -> "schema"
      [] OTHER -> "other"

-----------------------------------------------------------------------------
(* The codec: options are sets of at most one element. *)

Encode(value, schema) == {x[3] : x \in {y \in Encoding : y[1] = value /\ y[2] = schema}}
Decode(bare, schema) == {x[1] : x \in {y \in Encoding : y[3] = bare /\ y[2] = schema}}

\* Store::schema: reading a tree as a schema.
SchemaExit(schema) == IF schema \in Schemas THEN "ok" ELSE ExitOf("Deserialize")

\* Store::encode_value.
EncodeExit(value, schema) ==
    IF SchemaExit(schema) # "ok" THEN SchemaExit(schema)
    ELSE IF Encode(value, schema) = {} THEN ExitOf("SchemaWrite") ELSE "ok"

\* Store::decode_value and validate_with_schema: the readers are strict, a tree
\* with an entry the schema does not know, such as `.schema`, is refused.
ReadBareExit(root, schema) ==
    IF SchemaExit(schema) # "ok" THEN SchemaExit(schema)
    ELSE IF root.schema # NoEntry \/ Decode(root.bare, schema) = {}
         THEN ExitOf("SchemaRead") ELSE "ok"

\* ensure_struct_root.
RootExit(schema) ==
    IF schema \in StructSchemas THEN "ok" ELSE ExitOf("DocumentRootNotStruct")

FirstFailure(exits) ==
    LET bad == {i \in 1 .. Len(exits) : exits[i] # "ok"}
    IN  IF bad = {} THEN "ok" ELSE exits[CHOOSE i \in bad : \A j \in bad : i <= j]

\* Store::bind_document.
BindExit(root, schema) ==
    FirstFailure(<<SchemaExit(schema), RootExit(schema), ReadBareExit(root, schema)>>)

\* Kind::compile under a schema.
CompileExit(value, schema) ==
    FirstFailure(<<RootExit(schema), EncodeExit(value, schema)>>)

\* bind_schema: the value's own entries beside `.schema`.
Bound(value, schema) == {Root(bare, schema) : bare \in Encode(value, schema)}

-----------------------------------------------------------------------------
(* Document roots *)

\* A plausible bug: a root that is nothing but `.schema` passes.
SplitLooseExit(root) ==
    CASE root.schema \in {NoEntry, "file"} -> ExitOf("NotSubtreeBound")
      [] root.schema = "mislabelled" -> ExitOf("NotATree")
      [] root.schema = "missing" -> ExitOf("SubtreeMissing")
      [] OTHER -> "ok"

\* envelope::split: `.schema` is a tree, and not the only entry.
SplitExit(root) ==
    IF root.bare = NoValue THEN ExitOf("NotSubtreeBound")
    ELSE CASE root.schema \in {NoEntry, "file"} -> ExitOf("NotSubtreeBound")
           [] root.schema = "mislabelled" -> ExitOf("NotATree")
           [] root.schema = "missing" -> ExitOf("SubtreeMissing")
           [] OTHER -> "ok"

\* Store::inspect_document.
Inspect(root) ==
    CASE root.schema = NoEntry -> "legacy_value_root"
      [] root.schema \in Odd \ {"junk"} -> "malformed"
      [] OTHER -> IF root.bare = NoValue THEN "malformed" ELSE "bound"

\* decode and Kind::read: the value under the schema the root itself carries.
DecodeExit(root) ==
    IF SplitExit(root) # "ok" THEN SplitExit(root)
    ELSE FirstFailure(<<SchemaExit(root.schema), RootExit(root.schema),
                        ReadBareExit(Root(root.bare, NoEntry), root.schema)>>)

\* The view of a root without its `.schema`, read as a value.
ValueOf(root) == Decode(root.bare, root.schema)
=============================================================================
