------------------------------ MODULE RefNames ------------------------------
(***************************************************************************)
(* Ref names as text (crates/gix-refstore/src/name.rs).                    *)
(*                                                                         *)
(* A text is a sequence of characters.  A character is one the rules name  *)
(* ("/", ".", "@", "{"), the word "lock", or a member of one of the        *)
(* classes below; the rules tell no others apart.                          *)
(***************************************************************************)
EXTENDS Integers, Sequences, FiniteSets

CONSTANTS
  Chars,       \* the characters texts are made of
  Blank,       \* the ASCII control characters and the space
  Forbidden    \* ~ ^ : ? * [ \

Slash == "/"
Text == Seq(Chars)

\* Texts may hold the separator of segments, and no class a segment may not have
\* holds it.
ASSUME ClassesAssumption == Slash \in Chars \ (Blank \cup Forbidden)

\* Violation, and the absence of one.
Violations == {"Empty", "BoundaryDot", "LockSuffix", "AmbiguousSequence", "LoneAt",
               "ControlOrSpace", "ForbiddenCharacter", "Separator", "BoundarySlash"}
NoDefect == "none"

-----------------------------------------------------------------------------
(* Validation *)

HasPair(text, c, d) == \E i \in 1 .. Len(text) - 1 : text[i] = c /\ text[i + 1] = d

\* The first character of the segment that no ref name may have, if any.
CharDefect(segment) ==
    LET bad == {i \in 1 .. Len(segment) : segment[i] \in Blank \cup Forbidden}
    IN  IF bad = {} THEN NoDefect
        ELSE LET first == CHOOSE i \in bad : \A j \in bad : i <= j
             IN  IF segment[first] \in Blank THEN "ControlOrSpace"
                 ELSE "ForbiddenCharacter"

\* A plausible bug: only a dot at the start is refused.
SegmentDefectAtStart(segment) ==
    IF segment = <<>> THEN "Empty"
    ELSE IF segment[1] = "." THEN "BoundaryDot"
    ELSE IF Len(segment) > 1 /\ SubSeq(segment, Len(segment) - 1, Len(segment)) = <<".", "lock">>
         THEN "LockSuffix"
    ELSE IF HasPair(segment, ".", ".") \/ HasPair(segment, "@", "{")
         THEN "AmbiguousSequence"
    ELSE IF segment = <<"@">> THEN "LoneAt"
    ELSE CharDefect(segment)

SegmentDefect(segment) ==
    IF segment = <<>> THEN "Empty"
    ELSE IF segment[1] = "." \/ segment[Len(segment)] = "." THEN "BoundaryDot"
    ELSE IF Len(segment) > 1 /\ SubSeq(segment, Len(segment) - 1, Len(segment)) = <<".", "lock">>
         THEN "LockSuffix"
    ELSE IF HasPair(segment, ".", ".") \/ HasPair(segment, "@", "{")
         THEN "AmbiguousSequence"
    ELSE IF segment = <<"@">> THEN "LoneAt"
    ELSE CharDefect(segment)

\* str::split('/'): where the pieces between the slashes begin and end.
Pieces(text) ==
    {b \in (1 .. Len(text) + 1) \X (0 .. Len(text)) :
        /\ b[1] <= b[2] + 1
        /\ b[1] = 1 \/ text[b[1] - 1] = Slash
        /\ b[2] = Len(text) \/ text[b[2] + 1] = Slash
        /\ \A k \in b[1] .. b[2] : text[k] # Slash}

Piece(text, b) == SubSeq(text, b[1], b[2])

\* The violation of the first piece that has one.
FirstDefect(text) ==
    LET bad == {b \in Pieces(text) : SegmentDefect(Piece(text, b)) # NoDefect}
    IN  IF bad = {} THEN NoDefect
        ELSE SegmentDefect(Piece(text, CHOOSE b \in bad : \A c \in bad : b[1] <= c[1]))

\* check_path: RefName, RefPrefix and RefPath.
PathDefect(text) ==
    IF text = <<>> THEN "Empty"
    ELSE IF text[1] = Slash \/ text[Len(text)] = Slash THEN "BoundarySlash"
    ELSE FirstDefect(text)

\* check_segment: RefSegment.
NameDefect(text) ==
    IF \E i \in 1 .. Len(text) : text[i] = Slash THEN "Separator" ELSE SegmentDefect(text)

IsPath(text) == PathDefect(text) = NoDefect
IsSegment(text) == NameDefect(text) = NoDefect

-----------------------------------------------------------------------------
(* Assembly and disassembly: neither checks what it builds.  An Option is *)
(* the set of the values it holds, one or none.                           *)

\* RefPrefix::join, join_path and child, RefName::join, RefPath::join.
Join(prefix, path) == prefix \o <<Slash>> \o path

\* A plausible bug: the prefix need not end at a slash.
LooseSuffix(name, prefix) ==
    {suffix \in {SubSeq(name, Len(prefix) + 2, Len(name))} :
        /\ Len(name) > Len(prefix)
        /\ SubSeq(name, 1, Len(prefix)) = prefix}

\* RefName::suffix: the text after the prefix and a slash.
Suffix(name, prefix) ==
    {suffix \in {SubSeq(name, Len(prefix) + 2, Len(name))} :
        /\ Len(name) > Len(prefix)
        /\ SubSeq(name, 1, Len(prefix)) = prefix
        /\ name[Len(prefix) + 1] = Slash}

IsUnder(name, prefix) == Suffix(name, prefix) # {}

\* RefName::relative_to.
RelativeTo(name, prefix) == {path \in Suffix(name, prefix) : IsPath(path)}

\* RefPath::segments and as_segment.
Segments(path) ==
    LET starts == {b[1] : b \in Pieces(path)}
    IN  [k \in 1 .. Cardinality(starts) |->
            Piece(path, CHOOSE b \in Pieces(path) :
                            Cardinality({i \in starts : i < b[1]}) = k - 1)]

\* A plausible bug: the outermost segment of a nested path is taken for it.
AsFirstSegment(path) == {Segments(path)[1]}

AsSegment(path) == {segment \in {Segments(path)[1]} : Len(Segments(path)) = 1}
=============================================================================
