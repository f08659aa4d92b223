----------------------------- MODULE IndexPaths -----------------------------
(***************************************************************************)
(* The keys of the materialized index (crates/git-store/src/index.rs): an  *)
(* entity path as one name of a git tree.                                  *)
(*                                                                         *)
(* A key is "p" and then, for each segment, its length in HeaderWidth      *)
(* digits (eight in the code) and its bytes in two digits each.  A byte of *)
(* a key is the value of the digit it stands for, Base (sixteen in the     *)
(* code) for "p", or more.                                                 *)
(***************************************************************************)
EXTENDS RefNames, SequencesExt

CONSTANTS
  Byte,         \* the byte of each character
  Base,
  HeaderWidth

ASSUME BytesAssumption ==
    /\ Base \in Nat \ {0, 1}
    /\ HeaderWidth \in Nat \ {0}
    /\ Byte \in [Chars -> 0 .. Base * Base - 1]
    /\ \A c, d \in Chars : Byte[c] = Byte[d] => c = d

Marker == Base

\* What is left of n after each of w divisions.
Quotients(n, w) ==
    LET quotient[i \in 0 .. w] == IF i = 0 THEN n ELSE quotient[i - 1] \div Base
    IN  quotient

\* n in w digits, and whether a header has room for it.
Digits(n, w) == [i \in 1 .. w |-> Quotients(n, w)[w - i] % Base]
Fits(n) == Quotients(n, HeaderWidth)[HeaderWidth] = 0

\* encode_hex.
Hex(segment) ==
    [i \in 1 .. 2 * Len(segment) |->
        LET byte == Byte[segment[(i + 1) \div 2]]
        IN  IF i % 2 = 1 THEN byte \div Base ELSE byte % Base]

\* A plausible bug: the length counts the digits that follow.
FrameDigitCount(segment) == Digits(2 * Len(segment), HeaderWidth) \o Hex(segment)

\* One segment in a key.
Frame(segment) == Digits(Len(segment), HeaderWidth) \o Hex(segment)

\* The key after each of the segments.
Written(segments) ==
    LET key[k \in 0 .. Len(segments)] ==
            IF k = 0 THEN <<Marker>> ELSE key[k - 1] \o Frame(segments[k])
    IN  key

\* encode_path: the key of a path; it panics, and there is no key, if a segment is too
\* long for its header.
Encode(path) ==
    LET segments == Segments(path)
    IN  {key \in {Written(segments)[Len(segments)]} :
            \A k \in 1 .. Len(segments) : Fits(Len(segments[k]))}

\* The number read after each of the digits.
Values(digits) ==
    LET value[i \in 0 .. Len(digits)] ==
            IF i = 0 THEN 0 ELSE value[i - 1] * Base + digits[i]
    IN  value

\* parse_hex: the number the digits stand for, if they are all digits.
Number(digits) ==
    {n \in {Values(digits)[Len(digits)]} : \A i \in 1 .. Len(digits) : digits[i] < Base}

\* decode_hex and from_utf8: the text that has these bytes, if there is one.
Unhex(digits) ==
    IF \E i \in 1 .. Len(digits) : digits[i] >= Base THEN {}
    ELSE LET value(k) == digits[2 * k - 1] * Base + digits[2 * k]
             half == Len(digits) \div 2
         IN  IF \E k \in 1 .. half : \A c \in Chars : Byte[c] # value(k) THEN {}
             ELSE {[k \in 1 .. half |-> CHOOSE c \in Chars : Byte[c] = value(k)]}

\* One turn of decode_path's loop: where the frame at the cursor ends, if its header
\* is whole and the key as long as it says; and the segment in it, if it is one.
EndsAt(key, cursor) ==
    LET body == cursor + HeaderWidth
        ends == {body + 2 * length : length \in Number(SubSeq(key, cursor, body - 1))}
    IN  IF body > Len(key) + 1 THEN {} ELSE {end \in ends : end <= Len(key) + 1}

SegmentsAt(key, cursor, end) == Unhex(SubSeq(key, cursor + HeaderWidth, end - 1))

Prepend(segments, rests) ==
    UNION {{<<segment>> \o rest : rest \in rests} : segment \in segments}

\* The segments a key frames from each cursor on, if it frames any to its end.
FramedFrom(key) ==
    LET framed[cursor \in 2 .. Len(key) + 1] ==
            IF cursor = Len(key) + 1 THEN {<<>>}
            ELSE UNION {Prepend(SegmentsAt(key, cursor, end), framed[end]) :
                           end \in EndsAt(key, cursor)}
    IN  framed

\* segments.join("/"), after each of the segments.
Joins(segments) ==
    LET path[k \in 1 .. Len(segments)] ==
            IF k = 1 THEN segments[1] ELSE Join(path[k - 1], segments[k])
    IN  path

\* decode_path: the path a key stands for, if there is one.
Decode(key) ==
    IF key = <<>> THEN {}
    ELSE IF key[1] # Marker THEN {}
    ELSE {path \in {Joins(segments)[Len(segments)] : segments \in FramedFrom(key)[2] \ {<<>>}} :
            IsPath(path)}
=============================================================================
