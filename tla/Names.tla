-------------------------------- MODULE Names --------------------------------
(***************************************************************************)
(* The texts a caller hands to the command line and to the library, typed  *)
(* one character at a time, and what the code makes of them: names,        *)
(* prefixes and paths (RefNames), keys of the index (IndexPaths) and names *)
(* with a revision (crates/git-store/src/main.rs).                         *)
(***************************************************************************)
EXTENDS IndexPaths

CONSTANT MaxLength    \* bounds the texts

VARIABLE text

-----------------------------------------------------------------------------
(* A name with a revision: name~1, name@{yesterday} or name@<rev>. *)

Operators == {"~", "^", "@"}

\* A plausible bug: the separator is always dropped.
SplitAlways(token) ==
    LET marks == {i \in 1 .. Len(token) : token[i] \in Operators}
        first == CHOOSE i \in marks : \A j \in marks : i <= j
        rev   == IF token[first] = "@" THEN SubSeq(token, first + 1, Len(token))
                 ELSE SubSeq(token, first, Len(token))
    IN  IF marks = {} THEN [name |-> token, rev |-> {}]
        ELSE [name |-> SubSeq(token, 1, first - 1), rev |-> {rev} \ {<<>>}]

\* split_name_rev: the name, and the revision if there is one.
SplitNameRev(token) ==
    LET marks == {i \in 1 .. Len(token) : token[i] \in Operators}
        first == CHOOSE i \in marks : \A j \in marks : i <= j
        rest  == SubSeq(token, first + 1, Len(token))
        kept  == token[first] # "@" \/ (rest # <<>> /\ rest[1] = "{")
        rev   == IF kept THEN <<token[first]>> \o rest ELSE rest
    IN  IF marks = {} THEN [name |-> token, rev |-> {}]
        ELSE [name |-> SubSeq(token, 1, first - 1), rev |-> {rev} \ {<<>>}]

\* resolve_at: what git is asked for, relative to the entity's ref or as it stands.
Revision(reference, rev) ==
    IF rev[1] \in Operators THEN reference \o rev ELSE rev

-----------------------------------------------------------------------------
TypeChar ==
    /\ Len(text) < MaxLength
    /\ \E c \in Chars : text' = Append(text, c)

Next == TypeChar
Spec == text = <<>> /\ [][Next]_text

-----------------------------------------------------------------------------
(* Properties *)

Cuts == 0 .. Len(text)
Upto(i) == SubSeq(text, 1, i)
From(i) == SubSeq(text, i + 1, Len(text))

\* The character at a position; a text lies between two slashes.
CharAt(t, i) == IF i \in 1 .. Len(t) THEN t[i] ELSE Slash
Edge(t, i) == CharAt(t, i) = Slash

\* git check-ref-format, but for its rule on levels: nothing empty between two
\* slashes, no part that begins with a dot or ends with ".lock", no ".." or "@{",
\* no blank or forbidden character; the whole does not end with a dot and is not "@".
GitAllows(t) ==
    /\ t # <<>> /\ t # <<"@">>
    /\ CharAt(t, Len(t)) # "."
    /\ \A i \in 0 .. Len(t) : ~(Edge(t, i) /\ Edge(t, i + 1))
    /\ \A i \in 1 .. Len(t) :
          /\ t[i] \notin Blank \cup Forbidden
          /\ t[i] = "." => ~Edge(t, i - 1) /\ CharAt(t, i + 1) # "."
          /\ t[i] = "." => ~(CharAt(t, i + 1) = "lock" /\ Edge(t, i + 2))
          /\ t[i] = "@" => CharAt(t, i + 1) # "{"

\* A ref name has two levels at least.
OneLevel(t) == \A i \in 1 .. Len(t) : t[i] # Slash
GitRefName(t) == GitAllows(t) /\ ~OneLevel(t)

\* What git minds at the ends of the whole name only, and the code in every part.
SomePartEndsInDot(t) == \E i \in 1 .. Len(t) : t[i] = "." /\ Edge(t, i + 1)
SomePartIsAt(t) ==
    \E i \in 1 .. Len(t) : t[i] = "@" /\ Edge(t, i - 1) /\ Edge(t, i + 1)

\* Judged against git's own rules, the checks of check_path and segment_defect let
\* nothing pass that git refuses, but for a single level, and refuse beyond git only
\* a part that ends in a dot (name.rs:82) or is a lone "@" (name.rs:91).  Each part
\* is checked on its own and the whole never again: what a prefix and a path make
\* when they are joined is a name git takes, the rule on levels included.
AcceptedAreRefNames ==
    /\ IsPath(text) <=>
           GitAllows(text) /\ ~SomePartEndsInDot(text) /\ ~SomePartIsAt(text)
    /\ IsSegment(text) <=> IsPath(text) /\ OneLevel(text)
    /\ \A i, j \in Cuts :
           IsPath(Upto(i)) /\ IsPath(From(j)) => GitRefName(Join(Upto(i), From(j)))

\* join, join_path, child, relative_to and is_under skip validation.  They may:
\* two valid parts join to a valid name and come back out of it, and what a valid
\* name holds under a prefix is a path, with the prefix's segments before its own.
CutsAreNames ==
    \A i \in Cuts :
        LET prefix == Upto(i)
        IN  /\ \A j \in Cuts :
                  LET path == SubSeq(text, j + 1, Len(text))
                  IN  IsPath(prefix) /\ IsPath(path) =>
                          /\ IsPath(Join(prefix, path))
                          /\ RelativeTo(Join(prefix, path), prefix) = {path}
            /\ IsPath(text) /\ IsPath(prefix) =>
                  /\ IsUnder(text, prefix) <=> i < Len(text) /\ text[i + 1] = Slash
                  /\ \A path \in Suffix(text, prefix) :
                        /\ RelativeTo(text, prefix) = {path}
                        /\ Segments(text) = Segments(prefix) \o Segments(path)

\* RefPath::new splits what it has checked and takes the pieces for segments as
\* they are: there is one at least and each is valid, a segment taken for a path is
\* its only one, and as_segment holds exactly what the constructor of segments takes.
SegmentsAreWhole ==
    IsPath(text) =>
        /\ Segments(text) # <<>>
        /\ \A k \in DOMAIN Segments(text) : IsSegment(Segments(text)[k])
        /\ IsSegment(text) => Segments(text) = <<text>>
        /\ AsSegment(text) = {segment \in {text} : IsSegment(segment)}

\* An entity comes back out of the index under its own name: the key of a path, if
\* its segments are short enough to have one, decodes to that path and to no other,
\* and a key cut short decodes to an ancestor of the path or to nothing.
KeysDecode ==
    IsPath(text) =>
        \A key \in Encode(text) :
            /\ Decode(key) = {text}
            /\ \A i \in 0 .. Len(key) - 1 : \A path \in Decode(SubSeq(key, 1, i)) :
                  IsUnder(text, path)

\* `get <kind> name<rev>`: the revision never changes which entity is asked for.
\* The name ends at the first operator; an ancestry suffix asks for the same with
\* and without the separator; a date keeps its own "@" and is relative to that
\* entity's ref.
RevisionsStayWithTheName ==
    LET ref(name)   == Join(<<"a">>, name)
        asked(token) == LET split == SplitNameRev(token)
                        IN  {Revision(ref(split.name), rev) : rev \in split.rev}
    IN  \A i \in Cuts :
            (\A k \in 1 .. i : text[k] \notin Operators) /\ i < Len(text) =>
                /\ From(i)[1] \in Operators => SplitNameRev(text).name = Upto(i)
                /\ From(i)[1] \in {"~", "^"} =>
                      asked(text) = asked(Upto(i) \o <<"@">> \o From(i))
                /\ IsPrefix(<<"@", "{">>, From(i)) => asked(text) = {ref(Upto(i)) \o From(i)}
=============================================================================
