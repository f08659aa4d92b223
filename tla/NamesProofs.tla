---------------------------- MODULE NamesProofs -----------------------------
(***************************************************************************)
(* What the rules for ref names promise, for every alphabet and every text *)
(* over it: the checks piece by piece let nothing pass that git refuses in *)
(* a ref name but for its levels, and refuse beyond git only parts that    *)
(* end in a dot or are a lone "@"; what is joined and cut without a check  *)
(* needs none, a path is made of segments, and a path comes back out of    *)
(* the key the index files it under, and nothing but its ancestors out of  *)
(* a part of that key.                                                     *)
(***************************************************************************)
EXTENDS Names, SequenceTheorems, FiniteSetTheorems, WellFoundedInduction, TLAPS

-----------------------------------------------------------------------------
(* Numbers *)

(* Every nonempty set of numbers has a least one.                          *)
LEMMA LeastNumber ==
    ASSUME NEW T \in SUBSET Nat, T # {}
    PROVE  \E i \in T : \A j \in T : i <= j
<1>1. PICK x \in T : \A y \in T : ~ (<<y, x>> \in OpToRel(<, Nat))
  BY NatLessThanWellFounded, WFMin
<1>2. \A y \in T : <<y, x>> \in OpToRel(<, Nat) <=> y < x
  BY DEF OpToRel
<1>3. \A y \in T : y \in Nat /\ ~(y < x)
  BY <1>1, <1>2
<1>4. \A y \in T : x <= y
  BY <1>3
<1> QED
  BY <1>4

(* Every nonempty set of numbers with a bound has a greatest one.          *)
LEMMA GreatestNumber ==
    ASSUME NEW n \in Nat, NEW T \in SUBSET (0 .. n), T # {}
    PROVE  \E i \in T : \A j \in T : j <= i
<1> DEFINE U == {n - j : j \in T}
<1>1. U \in SUBSET Nat /\ U # {}
  <2>1. \A j \in T : n - j \in Nat
    OBVIOUS
  <2> QED
    BY <2>1
<1>2. PICK u \in U : \A v \in U : u <= v
  BY <1>1, LeastNumber
<1>3. PICK i \in T : u = n - i
  BY <1>2
<1>4. \A j \in T : n - i <= n - j
  BY <1>2, <1>3
<1>5. \A j \in T : j <= i
  BY <1>3, <1>4
<1> QED
  BY <1>5

-----------------------------------------------------------------------------
(* Segments and pieces *)

(* A text in its own terms.                                                *)
LEMMA TextFacts ==
    ASSUME NEW t \in Text
    PROVE  /\ Len(t) \in Nat
           /\ \A i \in 1 .. Len(t) : t[i] \in Chars /\ CharAt(t, i) = t[i]
           /\ t = <<>> <=> Len(t) = 0
           /\ Edge(t, 0) /\ Edge(t, Len(t) + 1)
BY DEF Text, CharAt, Edge

(* A text without a forbidden character has no defect of its characters.   *)
LEMMA CharsMeaning ==
    ASSUME NEW s \in Text
    PROVE  CharDefect(s) = NoDefect <=> \A i \in 1 .. Len(s) : s[i] \notin Blank \cup Forbidden
<1> DEFINE bad == {i \in 1 .. Len(s) : s[i] \in Blank \cup Forbidden}
<1>1. CASE bad = {}
  BY <1>1 DEF CharDefect
<1>2. CASE bad # {}
  <2>1. CharDefect(s) # NoDefect
    BY <1>2 DEF CharDefect, NoDefect
  <2> QED
    BY <1>2, <2>1
<1> QED
  BY <1>1, <1>2

\* Two characters that git's revision syntax would read.
Ambiguous(t, i) == \/ t[i] = "." /\ t[i + 1] = "."
                   \/ t[i] = "@" /\ t[i + 1] = "{"

\* The segment between two positions of a text is one git allows in a ref name.
GoodPiece(t, b, e) ==
    /\ b <= e
    /\ t[b] # "." /\ t[e] # "."
    /\ ~(b < e /\ t[e - 1] = "." /\ t[e] = "lock")
    /\ \A i \in b .. e - 1 : ~Ambiguous(t, i)
    /\ ~(b = e /\ t[b] = "@")
    /\ \A i \in b .. e : t[i] \notin Blank \cup Forbidden

(* A segment passes the checks if it is one of those.                      *)
LEMMA SegmentMeaning ==
    ASSUME NEW s \in Text
    PROVE  SegmentDefect(s) = NoDefect <=> GoodPiece(s, 1, Len(s))
<1>1. Len(s) \in Nat /\ (s = <<>> <=> Len(s) = 0)
  BY TextFacts
<1>2. CASE s = <<>>
  BY <1>1, <1>2 DEF SegmentDefect, NoDefect, GoodPiece
<1>3. CASE s # <<>>
  <2>1. ASSUME Len(s) > 1
        PROVE  SubSeq(s, Len(s) - 1, Len(s)) = <<".", "lock">>
                   <=> s[Len(s) - 1] = "." /\ s[Len(s)] = "lock"
    <3>1. PICK m, n : m = Len(s) - 1 /\ n = Len(s)
      OBVIOUS
    <3>2. m \in Int /\ n \in Int /\ \A k \in m .. n : s[k] \in Chars
      BY <1>1, <2>1, <3>1, TextFacts
    <3>3. /\ SubSeq(s, m, n) \in Seq(Chars)
          /\ Len(SubSeq(s, m, n)) = IF m <= n THEN n - m + 1 ELSE 0
          /\ \A k \in 1 .. n - m + 1 : SubSeq(s, m, n)[k] = s[m + k - 1]
      BY <3>2, SubSeqProperties
    <3>4. PICK u : u = SubSeq(s, m, n)
      OBVIOUS
    <3>5. u \in Seq(Chars) /\ Len(u) = 2 /\ u[1] = s[m] /\ u[2] = s[n]
      BY <1>1, <2>1, <3>1, <3>3, <3>4
    <3>6. u = <<".", "lock">> <=> u[1] = "." /\ u[2] = "lock"
      BY <3>5
    <3> QED
      BY <3>1, <3>4, <3>5, <3>6
  <2>2. s = <<"@">> <=> 1 = Len(s) /\ s[1] = "@"
    BY <1>1 DEF Text
  <2>3. HasPair(s, ".", ".") \/ HasPair(s, "@", "{")
           <=> \E i \in 1 .. Len(s) - 1 : Ambiguous(s, i)
    BY DEF HasPair, Ambiguous
  <2>4. SegmentDefect(s) = NoDefect
           <=> /\ ~(s[1] = "." \/ s[Len(s)] = ".")
               /\ ~(Len(s) > 1 /\ SubSeq(s, Len(s) - 1, Len(s)) = <<".", "lock">>)
               /\ ~(HasPair(s, ".", ".") \/ HasPair(s, "@", "{"))
               /\ s # <<"@">>
               /\ CharDefect(s) = NoDefect
    BY <1>3 DEF SegmentDefect, NoDefect
  <2>5. 1 <= Len(s) /\ (Len(s) > 1 <=> 1 < Len(s))
    BY <1>1, <1>3
  <2>6. SegmentDefect(s) = NoDefect
           <=> /\ ~(s[1] = "." \/ s[Len(s)] = ".")
               /\ ~(1 < Len(s) /\ s[Len(s) - 1] = "." /\ s[Len(s)] = "lock")
               /\ \A i \in 1 .. Len(s) - 1 : ~Ambiguous(s, i)
               /\ ~(1 = Len(s) /\ s[1] = "@")
               /\ \A i \in 1 .. Len(s) : s[i] \notin Blank \cup Forbidden
    BY <2>1, <2>2, <2>3, <2>4, <2>5, CharsMeaning
  <2> QED
    BY <2>5, <2>6 DEF GoodPiece
<1> QED
  BY <1>2, <1>3

(* The pieces of a text: they lie between two edges and hold no slash.     *)
LEMMA PieceFacts ==
    ASSUME NEW t \in Text, NEW b \in Pieces(t)
    PROVE  /\ b[1] \in 1 .. Len(t) + 1 /\ b[2] \in 0 .. Len(t) /\ b[1] <= b[2] + 1
           /\ Edge(t, b[1] - 1) /\ Edge(t, b[2] + 1)
           /\ \A k \in b[1] .. b[2] : ~Edge(t, k)
           /\ Piece(t, b) \in Text /\ Len(Piece(t, b)) = b[2] - b[1] + 1
           /\ \A k \in 1 .. b[2] - b[1] + 1 : Piece(t, b)[k] = t[b[1] + k - 1]
<1>1. /\ Len(t) \in Nat
      /\ b[1] \in 1 .. Len(t) + 1 /\ b[2] \in 0 .. Len(t) /\ b[1] <= b[2] + 1
      /\ b[1] = 1 \/ t[b[1] - 1] = Slash
      /\ b[2] = Len(t) \/ t[b[2] + 1] = Slash
      /\ \A k \in b[1] .. b[2] : t[k] # Slash
  BY TextFacts DEF Pieces
<1>2. Edge(t, b[1] - 1) /\ Edge(t, b[2] + 1)
  BY <1>1 DEF Edge, CharAt
<1>3. \A k \in b[1] .. b[2] : ~Edge(t, k)
  BY <1>1 DEF Edge, CharAt
<1>4. \A k \in b[1] .. b[2] : t[k] \in Chars
  BY <1>1, TextFacts
<1>5. /\ Piece(t, b) \in Seq(Chars)
      /\ Len(Piece(t, b)) = IF b[1] <= b[2] THEN b[2] - b[1] + 1 ELSE 0
      /\ \A k \in 1 .. b[2] - b[1] + 1 : Piece(t, b)[k] = t[b[1] + k - 1]
  <2>1. PICK m, n : m = b[1] /\ n = b[2]
    OBVIOUS
  <2>2. m \in Int /\ n \in Int /\ \A k \in m .. n : t[k] \in Chars
    BY <1>1, <1>4, <2>1
  <2>3. /\ SubSeq(t, m, n) \in Seq(Chars)
        /\ Len(SubSeq(t, m, n)) = IF m <= n THEN n - m + 1 ELSE 0
        /\ \A k \in 1 .. n - m + 1 : SubSeq(t, m, n)[k] = t[m + k - 1]
    BY <2>2, SubSeqProperties
  <2> QED
    BY <2>1, <2>3 DEF Piece
<1> QED
  BY <1>1, <1>2, <1>3, <1>5 DEF Text

(* Two edges with no slash between them bound a piece.                     *)
LEMMA PieceBetween ==
    ASSUME NEW t \in Text, NEW b \in 1 .. Len(t) + 1, NEW e \in 0 .. Len(t), b <= e + 1,
           Edge(t, b - 1), Edge(t, e + 1), \A k \in b .. e : ~Edge(t, k)
    PROVE  <<b, e>> \in Pieces(t)
<1>1. Len(t) \in Nat
  BY TextFacts
<1>2. b = 1 \/ t[b - 1] = Slash
  BY <1>1 DEF Edge, CharAt
<1>3. e = Len(t) \/ t[e + 1] = Slash
  BY <1>1 DEF Edge, CharAt
<1>4. \A k \in b .. e : t[k] # Slash
  BY <1>1 DEF Edge, CharAt
<1> QED
  BY <1>1, <1>2, <1>3, <1>4 DEF Pieces

(* Every character but a slash is in a piece.                              *)
LEMMA PieceAround ==
    ASSUME NEW t \in Text, NEW i \in 1 .. Len(t), ~Edge(t, i)
    PROVE  \E b \in Pieces(t) : b[1] <= i /\ i <= b[2]
<1>1. Len(t) \in Nat
  BY TextFacts
<1> DEFINE before == {j \in 0 .. i - 1 : Edge(t, j)}
           after  == {j \in i .. Len(t) : Edge(t, j + 1)}
<1>2. PICK p \in before : \A j \in before : j <= p
  <2>1. 0 \in before /\ before \in SUBSET (0 .. i - 1) /\ i - 1 \in Nat
    BY <1>1, TextFacts
  <2> HIDE DEF before
  <2> QED
    BY <2>1, GreatestNumber
<1>3. PICK q \in after : \A j \in after : q <= j
  <2>1. Len(t) \in after /\ after \in SUBSET Nat
    BY <1>1, TextFacts
  <2> HIDE DEF after
  <2> QED
    BY <2>1, LeastNumber
<1>4. ASSUME NEW k \in p + 1 .. q PROVE ~Edge(t, k)
  <2>1. CASE k < i
    <3>1. k \in 0 .. i - 1 /\ ~(k <= p)
      BY <1>1, <1>2, <1>4, <2>1
    <3> QED
      BY <1>2, <3>1
  <2>2. CASE k = i
    BY <2>2
  <2>3. CASE k > i
    <3>1. k - 1 \in i .. Len(t) /\ ~(q <= k - 1) /\ (k - 1) + 1 = k
      BY <1>1, <1>2, <1>3, <1>4, <2>3
    <3> QED
      BY <1>3, <3>1
  <2> QED
    BY <1>1, <1>2, <1>3, <2>1, <2>2, <2>3
<1>5. /\ p + 1 \in 1 .. Len(t) + 1 /\ q \in 0 .. Len(t) /\ p + 1 <= q + 1
      /\ Edge(t, (p + 1) - 1) /\ Edge(t, q + 1) /\ p + 1 <= i /\ i <= q
  BY <1>1, <1>2, <1>3
<1>6. <<p + 1, q>> \in Pieces(t)
  BY <1>4, <1>5, PieceBetween
<1> QED
  BY <1>5, <1>6

(* What a text is between two positions does not depend on what is around  *)
(* it.                                                                     *)
LEMMA GoodMoves ==
    ASSUME NEW s, NEW t, NEW n \in Nat, NEW a \in Nat \ {0}, NEW e \in Nat, n = e - a + 1,
           \A k \in 1 .. n : s[k] = t[a + k - 1]
    PROVE  GoodPiece(s, 1, n) <=> GoodPiece(t, a, e)
<1>1. (1 <= n <=> a <= e) /\ (1 = n <=> a = e) /\ (1 < n <=> a < e)
  OBVIOUS
<1>2. CASE ~(a <= e)
  BY <1>1, <1>2 DEF GoodPiece
<1>3. CASE a <= e
  <2>1. s[1] = t[a] /\ s[n] = t[e]
    <3>1. 1 \in 1 .. n /\ n \in 1 .. n /\ a + 1 - 1 = a /\ a + n - 1 = e
      BY <1>3
    <3> QED
      BY <3>1
  <2>2. ASSUME a < e PROVE s[n - 1] = t[e - 1]
    <3>1. n - 1 \in 1 .. n /\ a + (n - 1) - 1 = e - 1
      BY <2>2
    <3> QED
      BY <3>1
  <2>3. ASSUME NEW i \in a .. e
        PROVE  \E k \in 1 .. n : a + k - 1 = i
    <3>1. i - a + 1 \in 1 .. n /\ a + (i - a + 1) - 1 = i
      OBVIOUS
    <3> QED
      BY <3>1
  <2>4. \A k \in 1 .. n : a + k - 1 \in a .. e
    OBVIOUS
  <2>5. (\A i \in 1 .. n : s[i] \notin Blank \cup Forbidden)
           <=> \A i \in a .. e : t[i] \notin Blank \cup Forbidden
    BY <2>3, <2>4
  <2>6. ASSUME NEW k \in 1 .. n - 1
        PROVE  /\ Ambiguous(s, k) <=> Ambiguous(t, a + k - 1)
               /\ a + k - 1 \in a .. e - 1
    <3>1. k \in 1 .. n /\ k + 1 \in 1 .. n /\ a + (k + 1) - 1 = (a + k - 1) + 1
      OBVIOUS
    <3>2. s[k] = t[a + k - 1] /\ s[k + 1] = t[(a + k - 1) + 1]
      BY <3>1
    <3>3. a + k - 1 \in a .. e - 1
      OBVIOUS
    <3> QED
      BY <3>2, <3>3 DEF Ambiguous
  <2>7. ASSUME NEW i \in a .. e - 1
        PROVE  \E k \in 1 .. n - 1 : a + k - 1 = i
    <3>1. i - a + 1 \in 1 .. n - 1 /\ a + (i - a + 1) - 1 = i
      OBVIOUS
    <3> QED
      BY <3>1
  <2>8. (\A i \in 1 .. n - 1 : ~Ambiguous(s, i)) <=> \A i \in a .. e - 1 : ~Ambiguous(t, i)
    BY <2>6, <2>7
  <2> QED
    BY <1>1, <1>3, <2>1, <2>2, <2>5, <2>8 DEF GoodPiece
<1> QED
  BY <1>2, <1>3

(* A piece passes the checks if the text between its bounds is good.       *)
LEMMA PieceMeaning ==
    ASSUME NEW t \in Text, NEW b \in Pieces(t)
    PROVE  SegmentDefect(Piece(t, b)) = NoDefect <=> GoodPiece(t, b[1], b[2])
<1>1. PICK s, a, e, n : s = Piece(t, b) /\ a = b[1] /\ e = b[2] /\ n = e - a + 1
  OBVIOUS
<1>2. /\ a \in 1 .. Len(t) + 1 /\ e \in 0 .. Len(t) /\ a <= e + 1
      /\ s \in Text /\ Len(s) = n /\ \A k \in 1 .. n : s[k] = t[a + k - 1]
  BY <1>1, PieceFacts
<1>3. a \in Nat \ {0} /\ e \in Nat /\ n \in Nat
  BY <1>1, <1>2, TextFacts
<1>4. GoodPiece(s, 1, n) <=> GoodPiece(t, a, e)
  <2>1. n = e - a + 1 /\ \A k \in 1 .. n : s[k] = t[a + k - 1]
    BY <1>1, <1>2
  <2> QED
    BY <1>3, <2>1, GoodMoves
<1>5. SegmentDefect(s) = NoDefect <=> GoodPiece(s, 1, Len(s))
  BY <1>2, SegmentMeaning
<1> QED
  BY <1>1, <1>2, <1>4, <1>5

(* A path passes the checks if each of its pieces does.                    *)
LEMMA PathMeaning ==
    ASSUME NEW t \in Text
    PROVE  IsPath(t) <=> /\ t # <<>> /\ t[1] # Slash /\ t[Len(t)] # Slash
                         /\ \A b \in Pieces(t) : GoodPiece(t, b[1], b[2])
<1> DEFINE bad == {b \in Pieces(t) : SegmentDefect(Piece(t, b)) # NoDefect}
           begins == {b[1] : b \in bad}
<1>1. \A b \in Pieces(t) : SegmentDefect(Piece(t, b)) = NoDefect <=> GoodPiece(t, b[1], b[2])
  BY PieceMeaning
<1>2. FirstDefect(t) = NoDefect <=> bad = {}
  <2>1. CASE bad = {}
    BY <2>1 DEF FirstDefect
  <2>2. CASE bad # {}
    <3>1. begins \in SUBSET Nat /\ begins # {}
      BY <2>2, TextFacts, PieceFacts
    <3>2. PICK i \in begins : \A j \in begins : i <= j
      <4> HIDE DEF begins
      <4> QED
        BY <3>1, LeastNumber
    <3>3. \E b \in bad : \A c \in bad : b[1] <= c[1]
      BY <3>2
    <3>4. FirstDefect(t) = SegmentDefect(Piece(t, CHOOSE b \in bad : \A c \in bad : b[1] <= c[1]))
      BY <2>2 DEF FirstDefect
    <3>5. (CHOOSE b \in bad : \A c \in bad : b[1] <= c[1]) \in bad
      <4> HIDE DEF bad
      <4> QED
        BY <3>3
    <3> QED
      BY <2>2, <3>4, <3>5
  <2> QED
    BY <2>1, <2>2
<1>3. IsPath(t) <=> t # <<>> /\ t[1] # Slash /\ t[Len(t)] # Slash /\ FirstDefect(t) = NoDefect
  BY DEF IsPath, PathDefect, NoDefect
<1>4. bad = {} <=> \A b \in Pieces(t) : GoodPiece(t, b[1], b[2])
  BY <1>1
<1> QED
  BY <1>2, <1>3, <1>4

\* The code's rules for a path, read off the positions of the whole text.
PathByPosition(t) ==
    /\ t # <<>>
    /\ \A i \in 0 .. Len(t) : ~(Edge(t, i) /\ Edge(t, i + 1))
    /\ \A i \in 1 .. Len(t) :
          /\ t[i] \notin Blank \cup Forbidden
          /\ t[i] = "." => ~Edge(t, i - 1) /\ ~Edge(t, i + 1) /\ CharAt(t, i + 1) # "."
          /\ t[i] = "." => ~(CharAt(t, i + 1) = "lock" /\ Edge(t, i + 2))
          /\ t[i] = "@" => CharAt(t, i + 1) # "{" /\ ~(Edge(t, i - 1) /\ Edge(t, i + 1))

(* The pieces of a text pass the checks iff every position of it does.     *)
LEMMA PathsByPosition ==
    ASSUME NEW t \in Text
    PROVE  IsPath(t) <=> PathByPosition(t)
<1>1. /\ Len(t) \in Nat /\ (t = <<>> <=> Len(t) = 0) /\ Edge(t, 0) /\ Edge(t, Len(t) + 1)
      /\ \A i \in 1 .. Len(t) : CharAt(t, i) = t[i] /\ (Edge(t, i) <=> t[i] = Slash)
  BY TextFacts DEF Edge
<1>2. Slash # "." /\ Slash # "@" /\ Slash # "{" /\ Slash # "lock"
  BY DEF Slash
<1>3. ASSUME IsPath(t) PROVE PathByPosition(t)
  <2>1. /\ t # <<>> /\ t[1] # Slash /\ t[Len(t)] # Slash
        /\ \A b \in Pieces(t) : GoodPiece(t, b[1], b[2])
    BY <1>3, PathMeaning
  <2>2. ASSUME NEW i \in 0 .. Len(t), Edge(t, i), Edge(t, i + 1)
        PROVE  FALSE
    <3>1. i # 0 /\ i # Len(t)
      BY <1>1, <2>1, <2>2
    <3>2. <<i + 1, i>> \in Pieces(t)
      BY <1>1, <2>2, <3>1, PieceBetween
    <3>3. GoodPiece(t, i + 1, i)
      BY <2>1, <3>2
    <3> QED
      BY <2>2, <3>3 DEF GoodPiece
  <2>3. ASSUME NEW i \in 1 .. Len(t)
        PROVE  /\ t[i] \notin Blank \cup Forbidden
               /\ t[i] = "." => ~Edge(t, i - 1) /\ ~Edge(t, i + 1) /\ CharAt(t, i + 1) # "."
               /\ t[i] = "." => ~(CharAt(t, i + 1) = "lock" /\ Edge(t, i + 2))
               /\ t[i] = "@" => CharAt(t, i + 1) # "{" /\ ~(Edge(t, i - 1) /\ Edge(t, i + 1))
    <3>1. CASE t[i] = Slash
      BY <1>2, <3>1, ClassesAssumption
    <3>2. CASE t[i] # Slash
      <4>1. PICK b \in Pieces(t) : b[1] <= i /\ i <= b[2]
        BY <1>1, <3>2, PieceAround
      <4>2. PICK m, n : m = b[1] /\ n = b[2]
        OBVIOUS
      <4>3. /\ m \in Nat /\ n \in Nat /\ m <= i /\ i <= n /\ 1 <= m /\ n <= Len(t)
            /\ Edge(t, m - 1) /\ Edge(t, n + 1) /\ \A k \in m .. n : ~Edge(t, k)
        BY <1>1, <4>1, <4>2, PieceFacts
      <4>4. GoodPiece(t, m, n)
        BY <2>1, <4>2
      <4>5. t[i] \notin Blank \cup Forbidden
        BY <4>3, <4>4 DEF GoodPiece
      <4>6. Edge(t, i - 1) => i = m
        BY <4>3
      <4>7. Edge(t, i + 1) => i = n
        BY <4>3
      <4>8. i < n => /\ CharAt(t, i + 1) = t[i + 1] /\ ~Ambiguous(t, i)
                     /\ t[i] = "." => ~(i + 1 = n /\ t[i + 1] = "lock")
        <5> SUFFICES ASSUME i < n
                     PROVE  /\ CharAt(t, i + 1) = t[i + 1] /\ ~Ambiguous(t, i)
                            /\ t[i] = "." => ~(i + 1 = n /\ t[i + 1] = "lock")
          OBVIOUS
        <5>1. i + 1 \in 1 .. Len(t) /\ i \in m .. n - 1 /\ m < n
          BY <1>1, <4>3
        <5>2. i + 1 = n => n - 1 = i
          BY <4>3
        <5> QED
          BY <1>1, <4>4, <5>1, <5>2 DEF GoodPiece
      <4>9. i = n => CharAt(t, i + 1) = Slash
        BY <4>3 DEF Edge
      <4>10. Edge(t, i + 2) => n <= i + 1
        <5>1. n >= i + 2 => i + 2 \in m .. n
          BY <4>3
        <5> QED
          BY <4>3, <5>1
      <4>11. t[i] = "." => ~Edge(t, i - 1) /\ ~Edge(t, i + 1)
        BY <4>4, <4>6, <4>7 DEF GoodPiece
      <4>12. t[i] = "@" => ~(Edge(t, i - 1) /\ Edge(t, i + 1))
        BY <4>4, <4>6, <4>7 DEF GoodPiece
      <4>13. i < n \/ i = n
        BY <4>3
      <4>14. t[i] = "." => CharAt(t, i + 1) # "."
        BY <1>2, <4>8, <4>9, <4>13 DEF Ambiguous
      <4>15. t[i] = "@" => CharAt(t, i + 1) # "{"
        BY <1>2, <4>8, <4>9, <4>13 DEF Ambiguous
      <4>16. t[i] = "." => ~(CharAt(t, i + 1) = "lock" /\ Edge(t, i + 2))
        <5>1. i < n /\ n <= i + 1 => i + 1 = n
          BY <4>3
        <5> QED
          BY <1>2, <4>8, <4>9, <4>10, <4>13, <5>1
      <4> QED
        BY <4>5, <4>11, <4>12, <4>14, <4>15, <4>16
    <3> QED
      BY <3>1, <3>2
  <2> QED
    BY <2>1, <2>2, <2>3 DEF PathByPosition
<1>4. ASSUME PathByPosition(t) PROVE IsPath(t)
  <2>1. /\ t # <<>>
        /\ \A i \in 0 .. Len(t) : ~(Edge(t, i) /\ Edge(t, i + 1))
        /\ \A i \in 1 .. Len(t) :
              /\ t[i] \notin Blank \cup Forbidden
              /\ t[i] = "." => ~Edge(t, i - 1) /\ ~Edge(t, i + 1) /\ CharAt(t, i + 1) # "."
              /\ t[i] = "." => ~(CharAt(t, i + 1) = "lock" /\ Edge(t, i + 2))
              /\ t[i] = "@" => CharAt(t, i + 1) # "{" /\ ~(Edge(t, i - 1) /\ Edge(t, i + 1))
    BY <1>4 DEF PathByPosition
  <2>2. t[1] # Slash /\ t[Len(t)] # Slash
    <3>1. 0 \in 0 .. Len(t) /\ Len(t) \in 0 .. Len(t) /\ 1 \in 1 .. Len(t) /\ Len(t) \in 1 .. Len(t)
      <4>1. Len(t) \in Nat \ {0}
        BY <1>1, <2>1
      <4> QED
        BY <4>1
    <3>2. ~Edge(t, 0 + 1) /\ ~Edge(t, Len(t))
      BY <1>1, <2>1, <3>1
    <3> QED
      BY <1>1, <3>1, <3>2
  <2>3. ASSUME NEW b \in Pieces(t) PROVE GoodPiece(t, b[1], b[2])
    <3>1. PICK m, n : m = b[1] /\ n = b[2]
      OBVIOUS
    <3>2. /\ m \in 1 .. Len(t) + 1 /\ n \in 0 .. Len(t) /\ m <= n + 1
          /\ Edge(t, m - 1) /\ Edge(t, n + 1) /\ \A k \in m .. n : ~Edge(t, k)
      BY <3>1, PieceFacts
    <3>3. m <= n
      <4>1. m = n + 1 => m - 1 = n
        BY <1>1, <3>2
      <4>2. m # n + 1
        BY <2>1, <3>2, <4>1
      <4> QED
        BY <1>1, <3>2, <4>2
    <3>4. m \in 1 .. Len(t) /\ n \in 1 .. Len(t)
      BY <1>1, <3>2, <3>3
    <3>5. t[m] # "." /\ t[n] # "."
      BY <2>1, <3>2, <3>4
    <3>6. ~(m < n /\ t[n - 1] = "." /\ t[n] = "lock")
      <4> SUFFICES ASSUME m < n, t[n - 1] = ".", t[n] = "lock" PROVE FALSE
        OBVIOUS
      <4>1. n - 1 \in 1 .. Len(t) /\ (n - 1) + 1 = n /\ (n - 1) + 2 = n + 1
        BY <1>1, <3>4
      <4>2. ~(CharAt(t, n) = "lock" /\ Edge(t, n + 1))
        BY <2>1, <4>1
      <4> QED
        BY <1>1, <3>2, <3>4, <4>2
    <3>7. ASSUME NEW i \in m .. n - 1 PROVE ~Ambiguous(t, i)
      <4>1. i \in 1 .. Len(t) /\ i + 1 \in 1 .. Len(t)
        BY <1>1, <3>4
      <4>2. CharAt(t, i + 1) = t[i + 1]
        BY <1>1, <4>1
      <4> QED
        BY <2>1, <4>1, <4>2 DEF Ambiguous
    <3>8. ~(m = n /\ t[m] = "@")
      BY <2>1, <3>2, <3>4
    <3>9. \A i \in m .. n : t[i] \notin Blank \cup Forbidden
      <4>1. \A i \in m .. n : i \in 1 .. Len(t)
        BY <1>1, <3>4
      <4> QED
        BY <2>1, <4>1
    <3>10. GoodPiece(t, m, n)
      BY <3>3, <3>5, <3>6, <3>7, <3>8, <3>9 DEF GoodPiece
    <3> QED
      BY <3>1, <3>10
  <2> QED
    BY <2>1, <2>2, <2>3, PathMeaning
<1> QED
  BY <1>3, <1>4

(* A segment is a path without a slash.                                    *)
LEMMA SegmentsArePaths ==
    ASSUME NEW t \in Text
    PROVE  IsSegment(t) <=> IsPath(t) /\ \A i \in 1 .. Len(t) : t[i] # Slash
<1>1. Len(t) \in Nat /\ (t = <<>> <=> Len(t) = 0)
  BY TextFacts
<1>2. CASE \E i \in 1 .. Len(t) : t[i] = Slash
  BY <1>2 DEF IsSegment, NameDefect, NoDefect
<1>3. CASE \A i \in 1 .. Len(t) : t[i] # Slash
  <2>1. IsSegment(t) <=> GoodPiece(t, 1, Len(t))
    BY <1>3, SegmentMeaning DEF IsSegment, NameDefect
  <2>2. CASE t = <<>>
    BY <1>1, <2>1, <2>2, PathMeaning DEF GoodPiece
  <2>3. CASE t # <<>>
    <3>1. t[1] # Slash /\ t[Len(t)] # Slash
      BY <1>1, <1>3, <2>3
    <3>2. <<1, Len(t)>> \in Pieces(t)
      <4>1. Edge(t, 0) /\ Edge(t, Len(t) + 1) /\ \A k \in 1 .. Len(t) : ~Edge(t, k)
        BY <1>3, TextFacts DEF Edge
      <4> QED
        BY <1>1, <4>1, PieceBetween
    <3>3. ASSUME NEW b \in Pieces(t) PROVE b[1] = 1 /\ b[2] = Len(t)
      <4>1. /\ b[1] \in 1 .. Len(t) + 1 /\ b[2] \in 0 .. Len(t) /\ b[1] <= b[2] + 1
            /\ b[1] = 1 \/ t[b[1] - 1] = Slash
            /\ b[2] = Len(t) \/ t[b[2] + 1] = Slash
        BY <1>1 DEF Pieces
      <4>2. b[1] # 1 => b[1] - 1 \in 1 .. Len(t)
        BY <1>1, <4>1
      <4>3. b[2] # Len(t) => b[2] + 1 \in 1 .. Len(t)
        BY <1>1, <4>1
      <4> QED
        BY <1>3, <4>1, <4>2, <4>3
    <3>4. (\A b \in Pieces(t) : GoodPiece(t, b[1], b[2])) <=> GoodPiece(t, 1, Len(t))
      <4>1. PICK b : b = <<1, Len(t)>>
        OBVIOUS
      <4>2. b \in Pieces(t) /\ b[1] = 1 /\ b[2] = Len(t)
        BY <3>2, <4>1
      <4> QED
        BY <3>3, <4>2
    <3>5. IsPath(t) <=> \A b \in Pieces(t) : GoodPiece(t, b[1], b[2])
      BY <2>3, <3>1, PathMeaning
    <3> QED
      BY <1>3, <2>1, <3>4, <3>5
  <2> QED
    BY <2>2, <2>3
<1> QED
  BY <1>2, <1>3

-----------------------------------------------------------------------------
IsText == text \in Text

(* What is typed is a text over the alphabet.                              *)
LEMMA Typed == Spec => []IsText
<1>1. text = <<>> => IsText
  BY DEF Text, IsText
<1>2. IsText /\ [Next]_text => IsText'
  BY DEF Text, Next, TypeChar, IsText
<1> QED
  BY <1>1, <1>2, PTL DEF Spec

-----------------------------------------------------------------------------
(* Parts of texts, and texts one after the other *)

(* What a part of a text is.                                               *)
LEMMA PartFacts ==
    ASSUME NEW S, NEW t \in Seq(S), NEW m \in 1 .. Len(t) + 1, NEW n \in m - 1 .. Len(t)
    PROVE  /\ SubSeq(t, m, n) \in Seq(S)
           /\ Len(SubSeq(t, m, n)) = n - m + 1
           /\ \A k \in 1 .. n - m + 1 : SubSeq(t, m, n)[k] = t[m + k - 1]
<1>1. Len(t) \in Nat /\ \A i \in 1 .. Len(t) : t[i] \in S
  BY LenProperties, ElementOfSeq
<1>2. m \in Int /\ n \in Int /\ 1 <= m /\ n <= Len(t) /\ m <= n + 1
  BY <1>1
<1>3. PICK a, b : a = m /\ b = n
  OBVIOUS
<1>4. a \in Int /\ b \in Int /\ a <= b + 1 /\ \A i \in a .. b : t[i] \in S
  BY <1>1, <1>2, <1>3
<1>5. /\ SubSeq(t, a, b) \in Seq(S)
      /\ Len(SubSeq(t, a, b)) = IF a <= b THEN b - a + 1 ELSE 0
      /\ \A k \in 1 .. b - a + 1 : SubSeq(t, a, b)[k] = t[a + k - 1]
  <2>1. a \in Int /\ b \in Int /\ \A i \in a .. b : t[i] \in S
    BY <1>4
  <2> QED
    BY <2>1, SubSeqProperties, SMTT(20)
<1>6. Len(SubSeq(t, a, b)) = b - a + 1
  BY <1>4, <1>5
<1> QED
  BY <1>3, <1>5, <1>6

(* What two texts make together.                                           *)
LEMMA TogetherFacts ==
    ASSUME NEW S, NEW s \in Seq(S), NEW t \in Seq(S)
    PROVE  /\ s \o t \in Seq(S)
           /\ Len(s \o t) = Len(s) + Len(t)
           /\ \A k \in 1 .. Len(s) : (s \o t)[k] = s[k]
           /\ \A k \in 1 .. Len(t) : (s \o t)[Len(s) + k] = t[k]
<1>1. Len(s) \in Nat /\ Len(t) \in Nat
  BY LenProperties
<1>2. PICK u : u = s \o t
  OBVIOUS
<1>3. /\ u \in Seq(S) /\ Len(u) = Len(s) + Len(t)
      /\ \A k \in 1 .. Len(s) + Len(t) : u[k] = IF k <= Len(s) THEN s[k] ELSE t[k - Len(s)]
  BY <1>2, ConcatProperties
<1>4. ASSUME NEW k \in 1 .. Len(s) PROVE u[k] = s[k]
  BY <1>1, <1>3
<1>5. ASSUME NEW k \in 1 .. Len(t) PROVE u[Len(s) + k] = t[k]
  <2>1. /\ Len(s) + k \in 1 .. Len(s) + Len(t) /\ ~(Len(s) + k <= Len(s))
        /\ (Len(s) + k) - Len(s) = k
    BY <1>1
  <2> QED
    BY <1>3, <2>1
<1> QED
  BY <1>2, <1>3, <1>4, <1>5

(* A text of one character, and one of two.                                *)
LEMMA ShortTexts ==
    ASSUME NEW a, NEW b
    PROVE  /\ \A S : a \in S => <<a>> \in Seq(S) /\ Len(<<a>>) = 1 /\ <<a>>[1] = a
           /\ <<a, b>> \in Seq({a, b}) /\ Len(<<a, b>>) = 2
           /\ <<a, b>>[1] = a /\ <<a, b>>[2] = b
OBVIOUS

-----------------------------------------------------------------------------
(* Names with a revision *)

\* What is kept of a revision: a mark, unless it only separates, and the rest.
Kept(mark, rest) == IF mark # "@" \/ (rest # <<>> /\ rest[1] = "{") THEN <<mark>> \o rest ELSE rest

(* A name ends before the first operator, and its revision begins there.   *)
LEMMA SplitAtMark ==
    ASSUME NEW S, NEW token \in Seq(S), NEW i \in Nat, i < Len(token),
           token[i + 1] \in Operators, \A k \in 1 .. i : token[k] \notin Operators
    PROVE  /\ SplitNameRev(token).name = SubSeq(token, 1, i)
           /\ SplitNameRev(token).rev = {Kept(token[i + 1], SubSeq(token, i + 2, Len(token)))} \ {<<>>}
<1> DEFINE marks == {k \in 1 .. Len(token) : token[k] \in Operators}
           first == CHOOSE k \in marks : \A j \in marks : k <= j
<1>1. Len(token) \in Nat
  BY LenProperties
<1>2. i + 1 \in marks /\ \A j \in marks : i + 1 <= j
  BY <1>1
<1>3. first \in marks /\ \A j \in marks : first <= j
  <2> HIDE DEF marks
  <2> QED
    BY <1>2
<1>4. first = i + 1
  BY <1>1, <1>2, <1>3
<1>5. marks # {}
  BY <1>2
<1>6. first + 1 = i + 2 /\ first - 1 = i
  BY <1>1, <1>4
<1>7. /\ SplitNameRev(token).name = SubSeq(token, 1, first - 1)
      /\ SplitNameRev(token).rev = {Kept(token[first], SubSeq(token, first + 1, Len(token)))} \ {<<>>}
  BY <1>5, Zenon DEF SplitNameRev, Kept
<1> HIDE DEF first, marks
<1> QED
  BY <1>4, <1>6, <1>7

\* A revision that begins with an operator is relative to the ref.
Asked(token) ==
    LET split == SplitNameRev(token)
    IN  {Revision(Join(<<"a">>, split.name), rev) : rev \in split.rev}

(* A revision never changes which entity is asked for (main.rs,            *)
(* split_name_rev and resolve_at).                                         *)
THEOREM NamesEndAtTheirRevisions == Spec => []RevisionsStayWithTheName
<1>1. ASSUME IsText, NEW i \in Cuts, \A k \in 1 .. i : text[k] \notin Operators, i < Len(text)
      PROVE  /\ From(i)[1] \in Operators => SplitNameRev(text).name = Upto(i)
             /\ From(i)[1] \in {"~", "^"} =>
                   Asked(text) = Asked(Upto(i) \o <<"@">> \o From(i))
             /\ IsPrefix(<<"@", "{">>, From(i)) => Asked(text) = {Join(<<"a">>, Upto(i)) \o From(i)}
  <2>1. text \in Seq(Chars) /\ Len(text) \in Nat /\ i \in 0 .. Len(text) - 1
    BY <1>1 DEF IsText, Text, Cuts
  <2> DEFINE name == Upto(i)
             rev == From(i)
             rest == SubSeq(text, i + 2, Len(text))
  <2>2. /\ name \in Seq(Chars) /\ Len(name) = i /\ \A k \in 1 .. i : name[k] = text[k]
    <3>1. 1 \in 1 .. Len(text) + 1 /\ i \in 1 - 1 .. Len(text)
      BY <2>1
    <3> QED
      BY <2>1, <3>1, PartFacts DEF Upto
  <2>3. /\ rev \in Seq(Chars) /\ Len(rev) = Len(text) - i
        /\ \A k \in 1 .. Len(text) - i : rev[k] = text[i + k]
    <3>1. i + 1 \in 1 .. Len(text) + 1 /\ Len(text) \in (i + 1) - 1 .. Len(text)
      BY <2>1
    <3>2. /\ rev \in Seq(Chars) /\ Len(rev) = Len(text) - (i + 1) + 1
          /\ \A k \in 1 .. Len(text) - (i + 1) + 1 : rev[k] = text[(i + 1) + k - 1]
      BY <2>1, <3>1, PartFacts DEF From
    <3> HIDE DEF rev
    <3> QED
      BY <2>1, <3>2
  <2>4. /\ rest \in Seq(Chars) /\ Len(rest) = Len(text) - i - 1
        /\ \A k \in 1 .. Len(text) - i - 1 : rest[k] = text[i + 1 + k]
    <3>1. i + 2 \in 1 .. Len(text) + 1 /\ Len(text) \in (i + 2) - 1 .. Len(text)
      BY <2>1
    <3>2. /\ rest \in Seq(Chars) /\ Len(rest) = Len(text) - (i + 2) + 1
          /\ \A k \in 1 .. Len(text) - (i + 2) + 1 : rest[k] = text[(i + 2) + k - 1]
      BY <2>1, <3>1, PartFacts
    <3> HIDE DEF rest
    <3> QED
      BY <2>1, <3>2
  <2>5. <<text[i + 1]>> \o rest = rev
    <3>1. text[i + 1] \in Chars
      BY <2>1
    <3> HIDE DEF rest, rev
    <3>2. <<text[i + 1]>> \in Seq(Chars) /\ Len(<<text[i + 1]>>) = 1
      BY <3>1
    <3>3. PICK whole : whole = <<text[i + 1]>> \o rest
      OBVIOUS
    <3>4. /\ whole \in Seq(Chars) /\ Len(whole) = Len(text) - i
          /\ whole[1] = text[i + 1]
          /\ \A k \in 2 .. Len(text) - i : whole[k] = rest[k - 1]
      BY <2>1, <2>4, <3>1, <3>2, <3>3
    <3>5. ASSUME NEW k \in 1 .. Len(text) - i PROVE whole[k] = rev[k]
      <4>1. k # 1 => k - 1 \in 1 .. Len(text) - i - 1 /\ i + 1 + (k - 1) = i + k
        BY <2>1
      <4>2. k # 1 => k \in 2 .. Len(text) - i
        BY <2>1
      <4> QED
        BY <2>1, <2>3, <2>4, <3>4, <4>1, <4>2
    <3>6. whole = rev
      BY <2>3, <3>4, <3>5, SeqEqual
    <3> QED
      BY <3>3, <3>6
  <2>6. rev[1] = text[i + 1] /\ rev # <<>>
    BY <2>1, <2>3
  <2> HIDE DEF name, rev, rest
  <2>7. ASSUME rev[1] \in Operators
        PROVE  /\ SplitNameRev(text).name = name
               /\ SplitNameRev(text).rev = {Kept(rev[1], rest)} \ {<<>>}
    <3>1. i \in Nat /\ i < Len(text)
      BY <2>1
    <3> QED
      BY <1>1, <2>1, <2>6, <2>7, <3>1, SplitAtMark DEF rest, name, Upto
  <2>8. ASSUME rev[1] \in Operators, rev[1] # "@" \/ (rest # <<>> /\ rest[1] = "{")
        PROVE  Asked(text) = {Join(<<"a">>, name) \o rev}
    <3>1. Kept(rev[1], rest) = rev
      BY <2>5, <2>6, <2>8 DEF Kept
    <3>2. SplitNameRev(text).name = name /\ SplitNameRev(text).rev = {rev}
      BY <2>6, <2>7, <2>8, <3>1
    <3>3. Revision(Join(<<"a">>, name), rev) = Join(<<"a">>, name) \o rev
      BY <2>8 DEF Revision
    <3> QED
      BY <3>2, <3>3 DEF Asked
  <2>9. ASSUME rev[1] \in {"~", "^"}
        PROVE  Asked(text) = Asked(name \o <<"@">> \o rev)
    <3> DEFINE S == Chars \cup {"@"}
    <3>1. PICK token : token = name \o <<"@">> \o rev
      OBVIOUS
    <3>2. name \in Seq(S) /\ rev \in Seq(S) /\ <<"@">> \in Seq(S) /\ Len(<<"@">>) = 1
      BY <2>2, <2>3, ShortTexts
    <3> HIDE DEF S
    <3>3. /\ token \in Seq(S) /\ Len(token) = Len(text) + 1
          /\ \A k \in 1 .. i : token[k] = name[k]
          /\ token[i + 1] = "@"
          /\ \A k \in 1 .. Len(text) - i : token[i + 1 + k] = rev[k]
      <4>1. PICK front : front = name \o <<"@">>
        OBVIOUS
      <4>2. /\ front \in Seq(S) /\ Len(front) = i + 1
            /\ \A k \in 1 .. i : front[k] = name[k]
            /\ front[i + 1] = "@"
        <5>1. 1 \in 1 .. Len(<<"@">>) /\ <<"@">>[1] = "@"
          BY ShortTexts
        <5> QED
          BY <2>2, <3>2, <4>1, <5>1, TogetherFacts
      <4>3. /\ token \in Seq(S) /\ Len(token) = Len(front) + Len(rev)
            /\ \A k \in 1 .. Len(front) : token[k] = front[k]
            /\ \A k \in 1 .. Len(rev) : token[Len(front) + k] = rev[k]
        BY <3>1, <3>2, <4>1, <4>2, TogetherFacts
      <4>4. Len(token) = Len(text) + 1
        BY <2>1, <2>3, <4>2, <4>3
      <4>5. i + 1 \in 1 .. i + 1 /\ \A k \in 1 .. i : k \in 1 .. i + 1
        BY <2>1
      <4> QED
        BY <2>3, <4>2, <4>3, <4>4, <4>5
    <3>4. SubSeq(token, 1, i) = name
      <4>1. /\ SubSeq(token, 1, i) \in Seq(S) /\ Len(SubSeq(token, 1, i)) = i - 1 + 1
            /\ \A k \in 1 .. i - 1 + 1 : SubSeq(token, 1, i)[k] = token[1 + k - 1]
        <5>1. 1 \in 1 .. Len(token) + 1 /\ i \in 1 - 1 .. Len(token)
          BY <2>1, <3>3
        <5> QED
          BY <3>3, <5>1, PartFacts
      <4>2. PICK u : u = SubSeq(token, 1, i)
        OBVIOUS
      <4>3. u \in Seq(S) /\ Len(u) = i /\ \A k \in 1 .. i : u[k] = name[k]
        BY <2>1, <3>3, <4>1, <4>2
      <4> QED
        BY <2>2, <3>2, <4>2, <4>3, SeqEqual
    <3>5. SubSeq(token, i + 2, Len(token)) = rev
      <4>1. PICK m, n, u : m = i + 2 /\ n = Len(token) /\ u = SubSeq(token, m, n)
        OBVIOUS
      <4>2. m \in 1 .. Len(token) + 1 /\ n \in m - 1 .. Len(token) /\ n - m + 1 = Len(text) - i
        <5>1. n = Len(text) + 1 /\ Len(token) = n
          BY <3>3, <4>1
        <5> QED
          BY <2>1, <4>1, <5>1
      <4>3. u \in Seq(S) /\ Len(u) = n - m + 1 /\ \A k \in 1 .. n - m + 1 : u[k] = token[m + k - 1]
        <5>1. token \in Seq(S)
          BY <3>3
        <5>2. /\ SubSeq(token, m, n) \in Seq(S)
              /\ Len(SubSeq(token, m, n)) = n - m + 1
              /\ \A k \in 1 .. n - m + 1 : SubSeq(token, m, n)[k] = token[m + k - 1]
          BY <4>2, <5>1, PartFacts
        <5> QED
          BY <4>1, <5>2
      <4>4. ASSUME NEW k \in 1 .. Len(text) - i PROVE u[k] = rev[k]
        <5>1. m + k - 1 = i + 1 + k
          BY <2>1, <4>1
        <5> QED
          BY <3>3, <4>2, <4>3, <5>1
      <4>5. u = rev
        BY <2>3, <3>2, <4>2, <4>3, <4>4, SeqEqual
      <4> QED
        BY <4>1, <4>5
    <3>6. /\ SplitNameRev(token).name = SubSeq(token, 1, i)
          /\ SplitNameRev(token).rev = {Kept("@", rev)} \ {<<>>}
      <4>1. \A k \in 1 .. i : token[k] \notin Operators
        BY <1>1, <2>2, <3>3
      <4>2. i \in Nat /\ i < Len(token) /\ token[i + 1] \in Operators
        BY <2>1, <3>3 DEF Operators
      <4> QED
        BY <3>3, <3>5, <4>1, <4>2, SplitAtMark
    <3>7. SplitNameRev(token).name = name /\ SplitNameRev(token).rev = {rev}
      <4>1. Kept("@", rev) = rev
        BY <2>9 DEF Kept
      <4> QED
        BY <2>6, <3>4, <3>6, <4>1
    <3>8. rev[1] \in Operators /\ rev[1] # "@"
      BY <2>9 DEF Operators
    <3>9. Revision(Join(<<"a">>, name), rev) = Join(<<"a">>, name) \o rev
      BY <3>8 DEF Revision
    <3>10. Asked(token) = {Join(<<"a">>, name) \o rev}
      BY <3>7, <3>9 DEF Asked
    <3> QED
      BY <2>8, <3>1, <3>8, <3>10
  <2>10. ASSUME IsPrefix(<<"@", "{">>, rev) PROVE Asked(text) = {Join(<<"a">>, name) \o rev}
    <3>1. PICK s, T : s = <<"@", "{">> /\ T = {"@", "{"}
      OBVIOUS
    <3>2. s \in Seq(T) /\ Len(s) = 2 /\ s[1] = "@" /\ s[2] = "{"
      BY <3>1, ShortTexts, Zenon
    <3>3. 2 <= Len(rev) /\ SubSeq(s, 1, 2) = SubSeq(rev, 1, 2)
      BY <2>10, <3>1, <3>2 DEF IsPrefix
    <3>4. /\ SubSeq(rev, 1, 2)[1] = rev[1] /\ SubSeq(s, 1, 2)[1] = s[1]
          /\ SubSeq(rev, 1, 2)[2] = rev[2] /\ SubSeq(s, 1, 2)[2] = s[2]
      <4>1. ASSUME NEW W, NEW u \in Seq(W), 2 <= Len(u)
            PROVE  SubSeq(u, 1, 2)[1] = u[1] /\ SubSeq(u, 1, 2)[2] = u[2]
        <5>1. Len(u) \in Nat
          BY LenProperties
        <5>2. 1 \in 1 .. Len(u) + 1 /\ 2 \in 1 - 1 .. Len(u)
          BY <4>1, <5>1
        <5>3. PICK v : v = SubSeq(u, 1, 2)
          OBVIOUS
        <5>4. \A k \in 1 .. 2 - 1 + 1 : v[k] = u[1 + k - 1]
          BY <5>2, <5>3, PartFacts
        <5>5. /\ 1 \in 1 .. 2 - 1 + 1 /\ 1 + 1 - 1 = 1
              /\ 2 \in 1 .. 2 - 1 + 1 /\ 1 + 2 - 1 = 2
          OBVIOUS
        <5>6. v[1] = u[1 + 1 - 1] /\ v[2] = u[1 + 2 - 1]
          BY <5>4, <5>5
        <5> QED
          BY <5>3, <5>5, <5>6
      <4>2. rev \in Seq(Chars) /\ 2 <= Len(rev)
        BY <2>3, <3>3
      <4>3. SubSeq(rev, 1, 2)[1] = rev[1] /\ SubSeq(rev, 1, 2)[2] = rev[2]
        BY <4>1, <4>2, Zenon
      <4>4. s \in Seq(T) /\ 2 <= Len(s)
        <5>1. \A n : n = 2 => 2 <= n
          OBVIOUS
        <5> QED
          BY <3>2, <5>1, Zenon
      <4>5. SubSeq(s, 1, 2)[1] = s[1] /\ SubSeq(s, 1, 2)[2] = s[2]
        BY <4>1, <4>4, Zenon
      <4> QED
        BY <4>3, <4>5
    <3>5. rev[1] = "@" /\ rev[2] = "{"
      BY <3>2, <3>3, <3>4
    <3>6. rest # <<>> /\ rest[1] = rev[2]
      <4>1. 1 \in 1 .. Len(text) - i - 1 /\ 2 \in 1 .. Len(text) - i /\ i + 1 + 1 = i + 2
        BY <2>1, <2>3, <3>3
      <4> QED
        BY <2>3, <2>4, <4>1
    <3> QED
      BY <2>8, <3>5, <3>6 DEF Operators
  <2> QED
    BY <2>7, <2>9, <2>10 DEF name, rev
<1>2. IsText => RevisionsStayWithTheName
  BY <1>1 DEF RevisionsStayWithTheName, Asked
<1> QED
  BY Typed, <1>2, PTL

-----------------------------------------------------------------------------
(* Places in a set of numbers *)

Below(S, i) == {j \in S : j < i}

(* The places of the members of a set differ and are in order.             *)
LEMMA PlacesDiffer ==
    ASSUME NEW S \in SUBSET Nat, IsFiniteSet(S), NEW i \in S
    PROVE  /\ Cardinality(Below(S, i)) \in 0 .. Cardinality(S) - 1
           /\ \A j \in S : Cardinality(Below(S, j)) = Cardinality(Below(S, i)) => j = i
<1>1. ASSUME NEW A, NEW B, IsFiniteSet(B), A \subseteq B, NEW x \in B, x \notin A
      PROVE  /\ Cardinality(A) \in Nat /\ Cardinality(B) \in Nat
             /\ Cardinality(A) < Cardinality(B)
  <2>1. IsFiniteSet(A) /\ Cardinality(A) <= Cardinality(B) /\ (Cardinality(A) = Cardinality(B) => A = B)
    BY <1>1, FS_Subset
  <2>2. Cardinality(A) \in Nat /\ Cardinality(B) \in Nat /\ A # B
    BY <1>1, <2>1, FS_CardinalityType
  <2> QED
    BY <2>1, <2>2
<1>2. Cardinality(Below(S, i)) \in 0 .. Cardinality(S) - 1
  <2>1. Below(S, i) \subseteq S /\ i \notin Below(S, i)
    BY DEF Below
  <2>2. /\ Cardinality(Below(S, i)) \in Nat /\ Cardinality(S) \in Nat
        /\ Cardinality(Below(S, i)) < Cardinality(S)
    BY <1>1, <2>1
  <2> QED
    BY <2>2
<1>3. ASSUME NEW j \in S, NEW k \in S, j < k
      PROVE  Cardinality(Below(S, j)) # Cardinality(Below(S, k))
  <2>1. ~(j < j) /\ \A m \in S : m < j => m < k
    BY <1>3
  <2>2. Below(S, j) \subseteq Below(S, k) /\ j \in Below(S, k) /\ j \notin Below(S, j)
    BY <1>3, <2>1, Zenon DEF Below
  <2>3. Below(S, k) \subseteq S
    BY DEF Below
  <2>4. IsFiniteSet(Below(S, k))
    BY <2>3, FS_Subset
  <2>5. /\ Cardinality(Below(S, j)) \in Nat /\ Cardinality(Below(S, k)) \in Nat
        /\ Cardinality(Below(S, j)) < Cardinality(Below(S, k))
    BY <1>1, <2>2, <2>4
  <2> QED
    BY <2>5
<1>4. ASSUME NEW j \in S, j # i
      PROVE  Cardinality(Below(S, j)) # Cardinality(Below(S, i))
  <2>1. j < i \/ i < j
    BY <1>4
  <2> QED
    BY <1>3, <2>1
<1> QED
  BY <1>2, <1>4

(* Every place in a finite set is that of a member.                        *)
LEMMA PlacesReached ==
    ASSUME NEW bound \in Nat, NEW S \in SUBSET (0 .. bound), NEW k \in 0 .. Cardinality(S) - 1
    PROVE  \E i \in S : Cardinality(Below(S, i)) = k
<1> DEFINE T == {n \in Nat : Cardinality(Below(S, n)) > k}
<1>1. IsFiniteSet(S) /\ Cardinality(S) \in Nat
  <2>1. IsFiniteSet(0 .. bound)
    BY FS_Interval
  <2> QED
    BY <2>1, FS_Subset, FS_CardinalityType
<1>2. \A n : IsFiniteSet(Below(S, n)) /\ Cardinality(Below(S, n)) \in Nat
  <2>1. \A n : Below(S, n) \subseteq S
    BY DEF Below
  <2> QED
    BY <1>1, <2>1, FS_Subset, FS_CardinalityType
<1>3. \A i \in S : i \in Nat /\ i <= bound
  OBVIOUS
<1>4. T \in SUBSET Nat /\ bound + 1 \in T
  <2>1. \A i \in S : i < bound + 1
    BY <1>3
  <2>2. Below(S, bound + 1) = S
    BY <2>1 DEF Below
  <2>3. Cardinality(S) > k
    BY <1>1
  <2> QED
    BY <2>2, <2>3
<1>5. PICK n \in T : \A m \in T : n <= m
  <2> HIDE DEF T
  <2> QED
    BY <1>4, LeastNumber
<1>6. n # 0
  <2>1. \A i \in S : ~(i < 0)
    BY <1>3
  <2>2. Below(S, 0) = {}
    BY <2>1 DEF Below
  <2>3. Cardinality(Below(S, 0)) = 0
    BY <2>2, FS_EmptySet
  <2> QED
    BY <1>5, <2>3
<1>7. n - 1 \in Nat /\ ~(Cardinality(Below(S, n - 1)) > k)
  BY <1>5, <1>6
<1>8. Cardinality(Below(S, n)) > k
  BY <1>5
<1>9. n - 1 \in S
  <2>1. ASSUME n - 1 \notin S PROVE Below(S, n) = Below(S, n - 1)
    <3>1. \A j \in S : j < n <=> j < n - 1
      BY <1>3, <1>5, <2>1
    <3> QED
      BY <3>1 DEF Below
  <2> QED
    BY <1>7, <1>8, <2>1
<1>10. Below(S, n) = Below(S, n - 1) \cup {n - 1} /\ n - 1 \notin Below(S, n - 1)
  <2>1. \A j \in S : j < n <=> j < n - 1 \/ j = n - 1
    BY <1>3, <1>5
  <2>2. ~(n - 1 < n - 1)
    BY <1>7
  <2> QED
    BY <1>9, <2>1, <2>2 DEF Below
<1>11. Cardinality(Below(S, n)) = Cardinality(Below(S, n - 1)) + 1
  BY <1>2, <1>10, FS_AddElement
<1>12. Cardinality(Below(S, n - 1)) \in Nat /\ k \in Nat
  BY <1>1, <1>2
<1> QED
  BY <1>7, <1>8, <1>9, <1>11, <1>12

\* The members of a set, further up.
Shifted(T, n) == {n + j : j \in T}

(* Numbers, and others further up than all of them.                        *)
LEMMA PlacesTogether ==
    ASSUME NEW n \in Nat, NEW S \in SUBSET (0 .. n), NEW T \in SUBSET (Nat \ {0}), IsFiniteSet(T)
    PROVE  /\ IsFiniteSet(S)
           /\ Cardinality(S \cup Shifted(T, n)) = Cardinality(S) + Cardinality(T)
<1>1. IsFiniteSet(S)
  <2>1. IsFiniteSet(0 .. n)
    BY FS_Interval
  <2> QED
    BY <2>1, FS_Subset
<1>2. IsFiniteSet(Shifted(T, n)) /\ Cardinality(Shifted(T, n)) = Cardinality(T)
  <2> DEFINE f == [j \in T |-> n + j]
  <2>1. \A i, j \in T : f[i] = f[j] => i = j
    OBVIOUS
  <2>2. f \in [T -> Shifted(T, n)] /\ \A x \in Shifted(T, n) : \E j \in T : f[j] = x
    BY DEF Shifted
  <2>3. f \in Bijection(T, Shifted(T, n))
    <3> HIDE DEF f
    <3> QED
      BY <2>1, <2>2 DEF Bijection, Injection, Surjection, IsInjective
  <2> QED
    BY <2>3, FS_Bijection DEF ExistsBijection
<1>3. S \cap Shifted(T, n) = {}
  <2> SUFFICES ASSUME NEW x \in S, x \in Shifted(T, n) PROVE FALSE
    OBVIOUS
  <2>1. PICK j \in T : x = n + j
    BY DEF Shifted
  <2>2. x \in 0 .. n /\ j \in Nat \ {0}
    OBVIOUS
  <2> QED
    BY <2>1, <2>2
<1>4. Cardinality(S \cap Shifted(T, n)) = 0
  BY <1>3, FS_EmptySet
<1>5. Cardinality(S \cup Shifted(T, n)) =
         Cardinality(S) + Cardinality(Shifted(T, n)) - Cardinality(S \cap Shifted(T, n))
  BY <1>1, <1>2, FS_Union
<1>6. Cardinality(S) \in Nat /\ Cardinality(T) \in Nat
  BY <1>1, FS_CardinalityType
<1> QED
  BY <1>1, <1>2, <1>4, <1>5, <1>6

-----------------------------------------------------------------------------
(* Texts that are joined *)

(* What a join holds: the prefix, a slash and the path.                    *)
LEMMA JoinFacts ==
    ASSUME NEW p \in Text, NEW q \in Text
    PROVE  /\ Join(p, q) \in Text
           /\ Len(Join(p, q)) = Len(p) + 1 + Len(q)
           /\ \A k \in 1 .. Len(p) : Join(p, q)[k] = p[k]
           /\ Join(p, q)[Len(p) + 1] = Slash
           /\ \A k \in 1 .. Len(q) : Join(p, q)[Len(p) + 1 + k] = q[k]
<1> DEFINE front == p \o <<Slash>>
<1>1. /\ p \in Seq(Chars) /\ q \in Seq(Chars) /\ Len(p) \in Nat /\ Len(q) \in Nat
      /\ <<Slash>> \in Seq(Chars) /\ Len(<<Slash>>) = 1 /\ <<Slash>>[1] = Slash
  <2>1. Slash \in Chars
    BY ClassesAssumption
  <2> QED
    BY <2>1, ShortTexts, TextFacts DEF Text
<1>2. 1 \in 1 .. Len(<<Slash>>)
  BY <1>1
<1>3. /\ front \in Seq(Chars) /\ Len(front) = Len(p) + 1
      /\ \A k \in 1 .. Len(p) : front[k] = p[k]
      /\ front[Len(p) + 1] = Slash
  BY <1>1, <1>2, TogetherFacts
<1> HIDE DEF front
<1>4. PICK whole : whole = front \o q
  OBVIOUS
<1>5. /\ whole \in Seq(Chars) /\ Len(whole) = Len(front) + Len(q)
      /\ \A k \in 1 .. Len(front) : whole[k] = front[k]
      /\ \A k \in 1 .. Len(q) : whole[Len(front) + k] = q[k]
  <2>1. q \in Seq(Chars) /\ front \in Seq(Chars)
    BY <1>1, <1>3
  <2>2. /\ front \o q \in Seq(Chars) /\ Len(front \o q) = Len(front) + Len(q)
        /\ \A k \in 1 .. Len(front) : (front \o q)[k] = front[k]
        /\ \A k \in 1 .. Len(q) : (front \o q)[Len(front) + k] = q[k]
    BY <2>1, TogetherFacts
  <2> QED
    BY <1>4, <2>2, Zenon
<1>6. /\ \A k \in 1 .. Len(p) : k \in 1 .. Len(front)
      /\ Len(p) + 1 \in 1 .. Len(front)
  BY <1>1, <1>3
<1>7. whole = Join(p, q)
  BY <1>4 DEF Join, front
<1> QED
  BY <1>3, <1>5, <1>6, <1>7 DEF Text

(* Up to the slash a join reads as its prefix does, and from there on as   *)
(* its path does.                                                          *)
LEMMA JoinReads ==
    ASSUME NEW p \in Text, NEW q \in Text
    PROVE  /\ \A k \in 0 .. Len(p) + 1 : CharAt(Join(p, q), k) = CharAt(p, k)
           /\ \A k \in Nat : CharAt(Join(p, q), Len(p) + 1 + k) = CharAt(q, k)
<1> DEFINE n == Len(p)
           m == Len(q)
<1>1. PICK t : t = Join(p, q)
  OBVIOUS
<1>2. n \in Nat /\ m \in Nat
  BY TextFacts
<1>3. /\ Len(t) = n + 1 + m
      /\ \A k \in 1 .. n : t[k] = p[k]
      /\ t[n + 1] = Slash
      /\ \A k \in 1 .. m : t[n + 1 + k] = q[k]
  BY <1>1, JoinFacts
<1> HIDE DEF n, m
<1>4. ASSUME NEW k \in 0 .. n + 1 PROVE CharAt(t, k) = CharAt(p, k)
  <2>1. CASE k = 0
    BY <1>2, <1>3, <2>1 DEF CharAt, n
  <2>2. CASE k \in 1 .. n
    <3>1. k \in 1 .. Len(t)
      BY <1>2, <1>3, <2>2
    <3> QED
      BY <1>3, <2>2, <3>1 DEF CharAt, n
  <2>3. CASE k = n + 1
    <3>1. k \in 1 .. Len(t) /\ k \notin 1 .. n
      BY <1>2, <1>3, <2>3
    <3> QED
      BY <1>3, <2>3, <3>1 DEF CharAt, n
  <2> QED
    BY <1>2, <2>1, <2>2, <2>3
<1>5. ASSUME NEW k \in Nat PROVE CharAt(t, n + 1 + k) = CharAt(q, k)
  <2>1. CASE k = 0
    <3>1. n + 1 + k = n + 1 /\ n + 1 \in 1 .. Len(t) /\ k \notin 1 .. m
      BY <1>2, <1>3, <2>1
    <3> QED
      BY <1>3, <3>1 DEF CharAt, m
  <2>2. CASE k \in 1 .. m
    <3>1. n + 1 + k \in 1 .. Len(t)
      BY <1>2, <1>3, <2>2
    <3> QED
      BY <1>3, <2>2, <3>1 DEF CharAt, m
  <2>3. CASE k > m
    <3>1. n + 1 + k \notin 1 .. Len(t) /\ k \notin 1 .. m
      BY <1>2, <1>3, <2>3
    <3> QED
      BY <3>1 DEF CharAt, m
  <2> QED
    BY <1>2, <2>1, <2>2, <2>3
<1> QED
  BY <1>1, <1>4, <1>5 DEF n

\* The rules for one character of a ref name.
Clean(t, i) ==
    /\ CharAt(t, i) \notin Blank \cup Forbidden
    /\ CharAt(t, i) = "." => ~Edge(t, i - 1) /\ ~Edge(t, i + 1) /\ CharAt(t, i + 1) # "."
    /\ CharAt(t, i) = "." => ~(CharAt(t, i + 1) = "lock" /\ Edge(t, i + 2))
    /\ CharAt(t, i) = "@" => CharAt(t, i + 1) # "{" /\ ~(Edge(t, i - 1) /\ Edge(t, i + 1))

(* A ref name has nothing empty between slashes and obeys the rules.       *)
LEMMA CleanMeaning ==
    ASSUME NEW t \in Text
    PROVE  PathByPosition(t) <=> /\ \A i \in 0 .. Len(t) : ~(Edge(t, i) /\ Edge(t, i + 1))
                             /\ \A i \in 1 .. Len(t) : Clean(t, i)
<1>1. \A i \in 1 .. Len(t) : CharAt(t, i) = t[i]
  BY TextFacts
<1>2. t = <<>> => 0 \in 0 .. Len(t) /\ Edge(t, 0) /\ Edge(t, 0 + 1)
  BY TextFacts
<1> QED
  BY <1>1, <1>2 DEF PathByPosition, Clean

(* A join is a ref name if its two parts are.                              *)
LEMMA JoinedNames ==
    ASSUME NEW p \in Text, NEW q \in Text
    PROVE  IsPath(Join(p, q)) <=> IsPath(p) /\ IsPath(q)
<1> DEFINE n == Len(p)
           m == Len(q)
<1>1. PICK t : t = Join(p, q)
  OBVIOUS
<1>2. t \in Text /\ n \in Nat /\ m \in Nat /\ Len(t) = n + 1 + m
  BY <1>1, TextFacts, JoinFacts
<1>3. /\ \A k \in 0 .. n + 1 : CharAt(t, k) = CharAt(p, k)
      /\ \A k \in Nat : CharAt(t, n + 1 + k) = CharAt(q, k)
  BY <1>1, JoinReads
<1>4. /\ Edge(p, 0) /\ Edge(p, n + 1) /\ Edge(q, 0) /\ Edge(q, m + 1)
      /\ Edge(t, n + 1)
  BY <1>2, <1>3, TextFacts DEF Edge
<1> HIDE DEF n, m
<1>5. /\ \A k \in 0 .. n + 1 : Edge(t, k) <=> Edge(p, k)
      /\ \A k \in Nat : Edge(t, n + 1 + k) <=> Edge(q, k)
  BY <1>3 DEF Edge
<1>6. (\A i \in 0 .. n + 1 + m : ~(Edge(t, i) /\ Edge(t, i + 1)))
         <=> /\ \A i \in 0 .. n : ~(Edge(p, i) /\ Edge(p, i + 1))
             /\ \A i \in 0 .. m : ~(Edge(q, i) /\ Edge(q, i + 1))
  <2>1. ASSUME NEW i \in 0 .. n
        PROVE  /\ i \in 0 .. n + 1 + m
               /\ Edge(t, i) <=> Edge(p, i)
               /\ Edge(t, i + 1) <=> Edge(p, i + 1)
    <3>1. i \in 0 .. n + 1 /\ i + 1 \in 0 .. n + 1 /\ i \in 0 .. n + 1 + m
      BY <1>2
    <3> QED
      BY <1>5, <3>1
  <2>2. ASSUME NEW i \in 0 .. m
        PROVE  /\ n + 1 + i \in 0 .. n + 1 + m
               /\ Edge(t, n + 1 + i) <=> Edge(q, i)
               /\ Edge(t, (n + 1 + i) + 1) <=> Edge(q, i + 1)
    <3>1. i \in Nat /\ i + 1 \in Nat /\ n + 1 + i \in 0 .. n + 1 + m
          /\ (n + 1 + i) + 1 = n + 1 + (i + 1)
      BY <1>2
    <3> QED
      BY <1>5, <3>1
  <2>3. \A i \in 0 .. n + 1 + m : i \in 0 .. n \/ \E j \in 0 .. m : i = n + 1 + j
    <3>1. ASSUME NEW i \in 0 .. n + 1 + m, i \notin 0 .. n
          PROVE  \E j \in 0 .. m : i = n + 1 + j
      <4>1. i - n - 1 \in 0 .. m /\ i = n + 1 + (i - n - 1)
        BY <1>2, <3>1
      <4> QED
        BY <4>1
    <3> QED
      BY <3>1
  <2> QED
    BY <2>1, <2>2, <2>3
<1>7. (\A i \in 1 .. n + 1 + m : Clean(t, i))
         <=> (\A i \in 1 .. n : Clean(p, i)) /\ \A i \in 1 .. m : Clean(q, i)
  <2>1. ASSUME NEW i \in 1 .. n
        PROVE  i \in 1 .. n + 1 + m /\ (Clean(t, i) <=> Clean(p, i))
    <3>1. /\ i \in 0 .. n + 1 /\ i + 1 \in 0 .. n + 1 /\ i - 1 \in 0 .. n + 1
          /\ i \in 1 .. n + 1 + m
          /\ i + 2 \in 0 .. n + 1 \/ i + 1 = n + 1
      BY <1>2
    <3>2. /\ CharAt(t, i) = CharAt(p, i) /\ CharAt(t, i + 1) = CharAt(p, i + 1)
          /\ Edge(t, i - 1) <=> Edge(p, i - 1)
          /\ Edge(t, i + 1) <=> Edge(p, i + 1)
          /\ (Edge(t, i + 2) <=> Edge(p, i + 2)) \/ Edge(p, i + 1)
      BY <1>3, <1>4, <1>5, <3>1
    <3> QED
      BY <3>1, <3>2 DEF Clean
  <2>2. ASSUME NEW i \in 1 .. m
        PROVE  n + 1 + i \in 1 .. n + 1 + m /\ (Clean(t, n + 1 + i) <=> Clean(q, i))
    <3>1. /\ i \in Nat /\ i + 1 \in Nat /\ i + 2 \in Nat /\ i - 1 \in Nat
          /\ n + 1 + i \in 1 .. n + 1 + m
          /\ (n + 1 + i) + 1 = n + 1 + (i + 1)
          /\ (n + 1 + i) + 2 = n + 1 + (i + 2)
          /\ (n + 1 + i) - 1 = n + 1 + (i - 1)
      BY <1>2
    <3>2. /\ CharAt(t, n + 1 + i) = CharAt(q, i)
          /\ CharAt(t, (n + 1 + i) + 1) = CharAt(q, i + 1)
          /\ Edge(t, (n + 1 + i) - 1) <=> Edge(q, i - 1)
          /\ Edge(t, (n + 1 + i) + 1) <=> Edge(q, i + 1)
          /\ Edge(t, (n + 1 + i) + 2) <=> Edge(q, i + 2)
      BY <1>3, <1>5, <3>1
    <3> QED
      BY <3>1, <3>2 DEF Clean
  <2>3. Clean(t, n + 1)
    <3>1. CharAt(t, n + 1) = Slash
      BY <1>4 DEF Edge
    <3>2. Slash \notin Blank \cup Forbidden
      BY ClassesAssumption
    <3>3. Slash # "." /\ Slash # "@"
      BY DEF Slash
    <3> QED
      BY <3>1, <3>2, <3>3 DEF Clean
  <2>4. ASSUME NEW i \in 1 .. n + 1 + m, i \notin 1 .. n, i # n + 1
        PROVE  \E j \in 1 .. m : i = n + 1 + j
    <3>1. i - n - 1 \in 1 .. m /\ i = n + 1 + (i - n - 1)
      BY <1>2, <2>4
    <3> QED
      BY <3>1
  <2> QED
    BY <2>1, <2>2, <2>3, <2>4
<1>8. PathByPosition(t) <=> PathByPosition(p) /\ PathByPosition(q)
  BY <1>2, <1>6, <1>7, CleanMeaning DEF n, m
<1> QED
  BY <1>1, <1>2, <1>8, PathsByPosition

(* The parts before and after a cut are texts.                             *)
LEMMA CutsAreTexts ==
    ASSUME text \in Text, NEW i \in Cuts
    PROVE  Upto(i) \in Text /\ From(i) \in Text
<1>1. text \in Seq(Chars) /\ Len(text) \in Nat /\ i \in 0 .. Len(text)
  BY TextFacts DEF Text, Cuts
<1>2. PICK a, b, n : a = 1 /\ b = i + 1 /\ n = Len(text)
  OBVIOUS
<1>3. /\ a \in 1 .. Len(text) + 1 /\ i \in a - 1 .. Len(text)
      /\ b \in 1 .. Len(text) + 1 /\ n \in b - 1 .. Len(text)
  BY <1>1, <1>2
<1>4. SubSeq(text, a, i) \in Seq(Chars) /\ SubSeq(text, b, n) \in Seq(Chars)
  BY <1>1, <1>3, PartFacts
<1> QED
  BY <1>2, <1>4 DEF Upto, From, Text

(* The rule for positions is git's, with its two rules about the ends of   *)
(* the whole name asked of every part.                                     *)
LEMMA PositionsAndGit ==
    ASSUME NEW t \in Text
    PROVE  PathByPosition(t) <=>
               GitAllows(t) /\ ~SomePartEndsInDot(t) /\ ~SomePartIsAt(t)
<1>1. /\ Len(t) \in Nat /\ (t = <<>> <=> Len(t) = 0) /\ Edge(t, 0) /\ Edge(t, Len(t) + 1)
      /\ \A i \in 1 .. Len(t) : CharAt(t, i) = t[i]
  BY TextFacts
<1>2. ASSUME PathByPosition(t)
      PROVE  GitAllows(t) /\ ~SomePartEndsInDot(t) /\ ~SomePartIsAt(t)
  <2>1. ~SomePartEndsInDot(t) /\ ~SomePartIsAt(t)
    BY <1>2 DEF PathByPosition, SomePartEndsInDot, SomePartIsAt
  <2>2. t # <<>> /\ Len(t) \in 1 .. Len(t)
    <3>1. t # <<>>
      BY <1>2 DEF PathByPosition
    <3>2. Len(t) \in Nat \ {0}
      BY <1>1, <3>1
    <3> QED
      BY <3>1, <3>2
  <2>3. CharAt(t, Len(t)) # "."
    BY <1>1, <1>2, <2>2 DEF PathByPosition
  <2>4. t # <<"@">>
    <3> SUFFICES ASSUME t = <<"@">> PROVE FALSE
      OBVIOUS
    <3>1. Len(t) = 1 /\ t[1] = "@"
      OBVIOUS
    <3>2. 1 \in 1 .. Len(t) /\ Edge(t, 1 - 1) /\ Edge(t, 1 + 1)
      BY <1>1, <3>1
    <3> QED
      BY <1>2, <3>1, <3>2 DEF PathByPosition
  <2> QED
    BY <1>2, <2>1, <2>2, <2>3, <2>4 DEF PathByPosition, GitAllows
<1>3. ASSUME GitAllows(t), ~SomePartEndsInDot(t), ~SomePartIsAt(t)
      PROVE  PathByPosition(t)
  BY <1>3 DEF PathByPosition, GitAllows, SomePartEndsInDot, SomePartIsAt
<1> QED
  BY <1>2, <1>3

(* The constructors of paths, prefixes and names let nothing pass that git *)
(* refuses, but for its rule on levels, and refuse beyond git only a part  *)
(* that ends in a dot or is a lone "@"; those of segments take the paths   *)
(* of one level; and a prefix and a path join to a ref name of git         *)
(* (name.rs, check_path, check_segment, segment_defect and RefPrefix).     *)
THEOREM AcceptedNamesAreGits == Spec => []AcceptedAreRefNames
<1>1. ASSUME text \in Text PROVE AcceptedAreRefNames
  <2>1. IsPath(text) <=>
            GitAllows(text) /\ ~SomePartEndsInDot(text) /\ ~SomePartIsAt(text)
    BY <1>1, PathsByPosition, PositionsAndGit
  <2>2. IsSegment(text) <=> IsPath(text) /\ OneLevel(text)
    BY <1>1, SegmentsArePaths DEF OneLevel
  <2>3. ASSUME NEW i \in Cuts, NEW j \in Cuts, IsPath(Upto(i)), IsPath(From(j))
        PROVE  GitRefName(Join(Upto(i), From(j)))
    <3>1. PICK p, q : p = Upto(i) /\ q = From(j)
      OBVIOUS
    <3>2. p \in Text /\ q \in Text
      BY <1>1, <3>1, CutsAreTexts
    <3>3. PICK t : t = Join(p, q)
      OBVIOUS
    <3>4. t \in Text /\ Len(t) = Len(p) + 1 + Len(q) /\ t[Len(p) + 1] = Slash
      BY <3>2, <3>3, JoinFacts
    <3>5. IsPath(t)
      BY <2>3, <3>1, <3>2, <3>3, JoinedNames
    <3>6. GitAllows(t)
      BY <3>4, <3>5, PathsByPosition, PositionsAndGit
    <3>7. Len(p) + 1 \in 1 .. Len(t)
      BY <3>2, <3>4, TextFacts
    <3> QED
      BY <3>1, <3>3, <3>4, <3>6, <3>7 DEF GitRefName, OneLevel
  <2> QED
    BY <2>1, <2>2, <2>3 DEF AcceptedAreRefNames
<1>2. IsText => AcceptedAreRefNames
  BY <1>1 DEF IsText
<1> QED
  BY Typed, <1>2, PTL

(* What is joined to a prefix comes back out from under it.                *)
LEMMA JoinedComesBack ==
    ASSUME NEW p \in Text, NEW q \in Text
    PROVE  Suffix(Join(p, q), p) = {q}
<1> DEFINE n == Len(p)
           m == Len(q)
<1>1. PICK t : t = Join(p, q)
  OBVIOUS
<1>2. /\ t \in Text /\ n \in Nat /\ m \in Nat /\ Len(t) = n + 1 + m
      /\ \A k \in 1 .. n : t[k] = p[k]
      /\ t[n + 1] = Slash
      /\ \A k \in 1 .. m : t[n + 1 + k] = q[k]
  <2>1. /\ Join(p, q) \in Text
        /\ Len(Join(p, q)) = Len(p) + 1 + Len(q)
        /\ \A k \in 1 .. Len(p) : Join(p, q)[k] = p[k]
        /\ Join(p, q)[Len(p) + 1] = Slash
        /\ \A k \in 1 .. Len(q) : Join(p, q)[Len(p) + 1 + k] = q[k]
    BY JoinFacts
  <2>2. Len(p) \in Nat /\ Len(q) \in Nat
    BY TextFacts
  <2> QED
    BY <1>1, <2>1, <2>2
<1>3. t \in Seq(Chars) /\ p \in Seq(Chars) /\ q \in Seq(Chars)
  BY <1>2 DEF Text
<1>4. SubSeq(t, 1, n) = p
  <2>1. 1 \in 1 .. Len(t) + 1 /\ n \in 1 - 1 .. Len(t)
    BY <1>2
  <2>2. PICK u : u = SubSeq(t, 1, n)
    OBVIOUS
  <2>3. /\ u \in Seq(Chars) /\ Len(u) = n - 1 + 1
        /\ \A k \in 1 .. n - 1 + 1 : u[k] = t[1 + k - 1]
    BY <1>3, <2>1, <2>2, PartFacts
  <2>4. Len(u) = n /\ \A k \in 1 .. n : u[k] = p[k]
    BY <1>2, <2>3
  <2> QED
    BY <1>3, <2>2, <2>3, <2>4, SeqEqual
<1>5. SubSeq(t, n + 2, Len(t)) = q
  <2>1. PICK a, b : a = n + 2 /\ b = Len(t)
    OBVIOUS
  <2>2. a \in 1 .. Len(t) + 1 /\ b \in a - 1 .. Len(t) /\ b - a + 1 = m
    BY <1>2, <2>1
  <2>3. PICK u : u = SubSeq(t, a, b)
    OBVIOUS
  <2>4. u \in Seq(Chars) /\ Len(u) = b - a + 1 /\ \A k \in 1 .. b - a + 1 : u[k] = t[a + k - 1]
    BY <1>3, <2>2, <2>3, PartFacts
  <2>5. ASSUME NEW k \in 1 .. m PROVE u[k] = q[k]
    <3>1. a + k - 1 = n + 1 + k
      BY <1>2, <2>1
    <3> QED
      BY <1>2, <2>2, <2>4, <3>1
  <2> QED
    BY <1>3, <2>1, <2>2, <2>3, <2>4, <2>5, SeqEqual
<1>6. Len(t) > n
  BY <1>2
<1> QED
  BY <1>1, <1>2, <1>4, <1>5, <1>6 DEF Suffix

(* A text with a slash in it is the join of what lies on either side.      *)
LEMMA CutAtSlash ==
    ASSUME NEW t \in Text, NEW i \in 0 .. Len(t) - 1, t[i + 1] = Slash
    PROVE  /\ SubSeq(t, 1, i) \in Text /\ SubSeq(t, i + 2, Len(t)) \in Text
           /\ t = Join(SubSeq(t, 1, i), SubSeq(t, i + 2, Len(t)))
<1>1. t \in Seq(Chars) /\ Len(t) \in Nat
  BY TextFacts DEF Text
<1>2. PICK p : p = SubSeq(t, 1, i)
  OBVIOUS
<1>3. p \in Text /\ Len(p) = i /\ \A k \in 1 .. i : p[k] = t[k]
  <2>1. 1 \in 1 .. Len(t) + 1 /\ i \in 1 - 1 .. Len(t)
    BY <1>1
  <2>2. p \in Seq(Chars) /\ Len(p) = i - 1 + 1 /\ \A k \in 1 .. i - 1 + 1 : p[k] = t[1 + k - 1]
    BY <1>1, <1>2, <2>1, PartFacts
  <2> QED
    BY <1>1, <2>2 DEF Text
<1>4. PICK a, b, q : a = i + 2 /\ b = Len(t) /\ q = SubSeq(t, a, b)
  OBVIOUS
<1>5. q \in Text /\ Len(q) = b - a + 1 /\ \A k \in 1 .. b - a + 1 : q[k] = t[a + k - 1]
  <2>1. a \in 1 .. Len(t) + 1 /\ b \in a - 1 .. Len(t)
    BY <1>1, <1>4
  <2> QED
    BY <1>1, <1>4, <2>1, PartFacts DEF Text
<1>6. PICK u : u = Join(p, q)
  OBVIOUS
<1>7. /\ u \in Text
      /\ Len(u) = i + 1 + Len(q)
      /\ \A k \in 1 .. i : u[k] = p[k]
      /\ u[i + 1] = Slash
      /\ \A k \in 1 .. Len(q) : u[i + 1 + k] = q[k]
  <2>1. /\ Join(p, q) \in Text
        /\ Len(Join(p, q)) = Len(p) + 1 + Len(q)
        /\ \A k \in 1 .. Len(p) : Join(p, q)[k] = p[k]
        /\ Join(p, q)[Len(p) + 1] = Slash
        /\ \A k \in 1 .. Len(q) : Join(p, q)[Len(p) + 1 + k] = q[k]
    BY <1>3, <1>5, JoinFacts
  <2> QED
    BY <1>3, <1>6, <2>1
<1>8. Len(q) = Len(t) - i - 1 /\ Len(u) = Len(t)
  BY <1>1, <1>4, <1>5, <1>7
<1>9. ASSUME NEW k \in 1 .. Len(t) PROVE u[k] = t[k]
  <2>1. CASE k <= i
    BY <1>3, <1>7, <2>1
  <2>2. CASE k = i + 1
    BY <1>7, <2>2
  <2>3. CASE k > i + 1
    <3>1. PICK l : l = k - i - 1
      OBVIOUS
    <3>2. l \in 1 .. Len(q) /\ l \in 1 .. b - a + 1 /\ i + 1 + l = k /\ a + l - 1 = k
      BY <1>1, <1>4, <1>8, <2>3, <3>1
    <3> QED
      BY <1>5, <1>7, <3>2
  <2> QED
    BY <1>1, <2>1, <2>2, <2>3
<1>10. u = t
  BY <1>1, <1>7, <1>8, <1>9, SeqEqual DEF Text
<1> QED
  BY <1>2, <1>3, <1>4, <1>5, <1>6, <1>10

-----------------------------------------------------------------------------
(* The segments of a path *)

Starts(t) == {b[1] : b \in Pieces(t)}

(* A piece begins after every edge.                                        *)
LEMMA StartsMeaning ==
    ASSUME NEW t \in Text
    PROVE  /\ Starts(t) = {i \in 1 .. Len(t) + 1 : Edge(t, i - 1)}
           /\ \A b, c \in Pieces(t) : b[1] = c[1] => b = c
           /\ IsFiniteSet(Starts(t))
<1>1. Len(t) \in Nat
  BY TextFacts
<1>2. ASSUME NEW i \in 1 .. Len(t) + 1, Edge(t, i - 1) PROVE i \in Starts(t)
  <2> DEFINE after == {j \in i - 1 .. Len(t) : Edge(t, j + 1)}
  <2>1. PICK e \in after : \A j \in after : e <= j
    <3>1. Len(t) \in after /\ after \in SUBSET Nat
      BY <1>1, TextFacts
    <3> HIDE DEF after
    <3> QED
      BY <3>1, LeastNumber
  <2>2. e \in i - 1 .. Len(t) /\ Edge(t, e + 1)
    BY <2>1
  <2>3. ASSUME NEW k \in i .. e PROVE ~Edge(t, k)
    <3>1. k - 1 \in i - 1 .. Len(t) /\ ~(e <= k - 1) /\ (k - 1) + 1 = k
      BY <1>1, <2>2, <2>3
    <3> QED
      BY <2>1, <3>1
  <2>4. e \in 0 .. Len(t) /\ i <= e + 1
    BY <1>1, <2>2
  <2>5. <<i, e>> \in Pieces(t)
    BY <1>2, <2>2, <2>3, <2>4, PieceBetween
  <2> QED
    BY <2>5 DEF Starts
<1>3. ASSUME NEW i \in Starts(t) PROVE i \in 1 .. Len(t) + 1 /\ Edge(t, i - 1)
  BY PieceFacts DEF Starts
<1>4. ASSUME NEW b \in Pieces(t), NEW c \in Pieces(t), b[1] = c[1] PROVE b = c
  <2>1. /\ b[1] \in Nat /\ b[2] \in Nat /\ c[2] \in Nat
        /\ b[1] <= b[2] + 1 /\ b[1] <= c[2] + 1
        /\ Edge(t, b[2] + 1) /\ Edge(t, c[2] + 1)
        /\ \A k \in b[1] .. b[2] : ~Edge(t, k)
        /\ \A k \in b[1] .. c[2] : ~Edge(t, k)
    <3>1. /\ b[1] \in Nat /\ b[2] \in Nat /\ b[1] <= b[2] + 1
          /\ Edge(t, b[2] + 1) /\ \A k \in b[1] .. b[2] : ~Edge(t, k)
      BY <1>1, PieceFacts
    <3>2. /\ c[1] \in Nat /\ c[2] \in Nat /\ c[1] <= c[2] + 1
          /\ Edge(t, c[2] + 1) /\ \A k \in c[1] .. c[2] : ~Edge(t, k)
      BY <1>1, PieceFacts
    <3> QED
      BY <1>4, <3>1, <3>2
  <2>2. ~(b[2] < c[2])
    <3>1. b[2] < c[2] => b[2] + 1 \in b[1] .. c[2]
      BY <2>1
    <3> QED
      BY <2>1, <3>1
  <2>3. ~(c[2] < b[2])
    <3>1. c[2] < b[2] => c[2] + 1 \in b[1] .. b[2]
      BY <2>1
    <3> QED
      BY <2>1, <3>1
  <2>4. b[2] = c[2]
    BY <2>1, <2>2, <2>3
  <2>5. b = <<b[1], b[2]>> /\ c = <<c[1], c[2]>>
    BY DEF Pieces
  <2> QED
    BY <1>4, <2>4, <2>5
<1>5. IsFiniteSet(Starts(t))
  <2>1. IsFiniteSet(1 .. Len(t) + 1)
    BY <1>1, FS_Interval
  <2> QED
    BY <1>3, <2>1, FS_Subset
<1>6. Starts(t) = {i \in 1 .. Len(t) + 1 : Edge(t, i - 1)}
  BY <1>2, <1>3
<1> QED
  BY <1>4, <1>5, <1>6

\* The place of a piece among the pieces of a text.
Place(t, b) == Cardinality(Below(Starts(t), b[1]))

(* The segments of a text are its pieces in order.                         *)
LEMMA SegmentsMeaning ==
    ASSUME NEW t \in Text
    PROVE  /\ Segments(t) \in Seq(Text)
           /\ Len(Segments(t)) = Cardinality(Starts(t))
           /\ \A b \in Pieces(t) : /\ Place(t, b) + 1 \in 1 .. Cardinality(Starts(t))
                                   /\ Segments(t)[Place(t, b) + 1] = Piece(t, b)
           /\ \A k \in 1 .. Cardinality(Starts(t)) : \E b \in Pieces(t) : Place(t, b) = k - 1
<1> DEFINE S == Starts(t)
           N == Cardinality(S)
           At(k) == CHOOSE b \in Pieces(t) : Cardinality({i \in S : i < b[1]}) = k - 1
<1>1. /\ Len(t) \in Nat /\ S \in SUBSET Nat /\ IsFiniteSet(S) /\ N \in Nat
      /\ S \in SUBSET (0 .. Len(t) + 1)
  BY TextFacts, StartsMeaning, FS_CardinalityType
<1>2. Segments(t) = [k \in 1 .. N |-> Piece(t, At(k))]
  BY DEF Segments, Starts
<1>3. ASSUME NEW b \in Pieces(t) PROVE Place(t, b) \in 0 .. N - 1
  <2>1. b[1] \in S
    BY DEF Starts
  <2> QED
    BY <1>1, <2>1, PlacesDiffer DEF Place
<1>4. ASSUME NEW b \in Pieces(t), NEW c \in Pieces(t), Place(t, b) = Place(t, c) PROVE b = c
  <2>1. b[1] \in S /\ c[1] \in S
    BY DEF Starts
  <2>2. b[1] = c[1]
    BY <1>1, <1>4, <2>1, PlacesDiffer DEF Place
  <2> QED
    BY <2>2, StartsMeaning
<1>5. ASSUME NEW k \in 1 .. N PROVE \E b \in Pieces(t) : Place(t, b) = k - 1
  <2>1. k - 1 \in 0 .. N - 1 /\ Len(t) + 1 \in Nat
    BY <1>1
  <2> HIDE DEF S
  <2>2. PICK i \in S : Cardinality(Below(S, i)) = k - 1
    BY <1>1, <2>1, PlacesReached
  <2>3. PICK b \in Pieces(t) : i = b[1]
    BY DEF S, Starts
  <2> QED
    BY <2>2, <2>3 DEF Place, S
<1>6. \A b : Cardinality({i \in S : i < b[1]}) = Place(t, b)
  BY DEF Place, Below
<1> HIDE DEF S, N
<1>7. \A k \in 1 .. N : At(k) \in Pieces(t) /\ Place(t, At(k)) = k - 1
  BY <1>5, <1>6
<1> HIDE DEF At
<1>8. ASSUME NEW k \in 1 .. N PROVE Segments(t)[k] = Piece(t, At(k)) /\ Piece(t, At(k)) \in Text
  BY <1>2, <1>7, PieceFacts
<1>9. Segments(t) \in Seq(Text) /\ Len(Segments(t)) = N
  <2>1. [k \in 1 .. N |-> Piece(t, At(k))] \in Seq(Text)
    BY <1>1, <1>8
  <2>2. \A f \in Seq(Text) : DOMAIN f = 1 .. N => Len(f) = N
    BY <1>1, LenProperties
  <2> QED
    BY <1>2, <2>1, <2>2
<1>10. ASSUME NEW b \in Pieces(t)
       PROVE  Place(t, b) + 1 \in 1 .. N /\ Segments(t)[Place(t, b) + 1] = Piece(t, b)
  <2>1. PICK k : k = Place(t, b) + 1
    OBVIOUS
  <2>2. k \in 1 .. N /\ k - 1 = Place(t, b)
    BY <1>1, <1>3, <2>1
  <2>3. At(k) = b
    BY <1>4, <1>7, <2>2
  <2> QED
    BY <1>8, <2>1, <2>2, <2>3
<1> QED
  BY <1>5, <1>9, <1>10 DEF N, S

(* A join has the segments of its prefix, and after them those of its path. *)
LEMMA JoinedSegments ==
    ASSUME NEW p \in Text, NEW q \in Text
    PROVE  Segments(Join(p, q)) = Segments(p) \o Segments(q)
<1>1. PICK t, n, m : t = Join(p, q) /\ n = Len(p) /\ m = Len(q)
  OBVIOUS
<1>2. /\ t \in Text /\ n \in Nat /\ m \in Nat /\ Len(t) = n + 1 + m
      /\ \A k \in 1 .. n : t[k] = p[k]
      /\ \A k \in 1 .. m : t[n + 1 + k] = q[k]
  <2>1. /\ Join(p, q) \in Text
        /\ Len(Join(p, q)) = Len(p) + 1 + Len(q)
        /\ \A k \in 1 .. Len(p) : Join(p, q)[k] = p[k]
        /\ Join(p, q)[Len(p) + 1] = Slash
        /\ \A k \in 1 .. Len(q) : Join(p, q)[Len(p) + 1 + k] = q[k]
    BY JoinFacts
  <2>2. Len(p) \in Nat /\ Len(q) \in Nat
    BY TextFacts
  <2> QED
    BY <1>1, <2>1, <2>2
<1>3. /\ \A k \in 0 .. n + 1 : Edge(t, k) <=> Edge(p, k)
      /\ \A k \in Nat : Edge(t, n + 1 + k) <=> Edge(q, k)
  BY <1>1, JoinReads DEF Edge
<1>4. /\ Starts(p) = {i \in 1 .. n + 1 : Edge(p, i - 1)}
      /\ Starts(q) = {i \in 1 .. m + 1 : Edge(q, i - 1)}
      /\ Starts(t) = {i \in 1 .. n + 1 + m + 1 : Edge(t, i - 1)}
      /\ IsFiniteSet(Starts(p)) /\ IsFiniteSet(Starts(q))
  BY <1>1, <1>2, StartsMeaning
<1>5. /\ n + 1 \in Nat /\ Starts(p) \in SUBSET (0 .. n + 1) /\ Starts(q) \in SUBSET (Nat \ {0})
      /\ Cardinality(Starts(p)) \in Nat /\ Cardinality(Starts(q)) \in Nat
  BY <1>2, <1>4, FS_CardinalityType
<1>6. Starts(t) = Starts(p) \cup Shifted(Starts(q), n + 1)
  <2>1. ASSUME NEW i \in 1 .. n + 1
        PROVE  i \in Starts(t) <=> i \in Starts(p)
    <3>1. i - 1 \in 0 .. n + 1 /\ i \in 1 .. n + 1 + m + 1
      BY <1>2
    <3> QED
      BY <1>3, <1>4, <3>1
  <2>2. ASSUME NEW i \in 1 .. m + 1
        PROVE  n + 1 + i \in Starts(t) <=> i \in Starts(q)
    <3>1. i - 1 \in Nat /\ n + 1 + i \in 1 .. n + 1 + m + 1 /\ (n + 1 + i) - 1 = n + 1 + (i - 1)
      BY <1>2
    <3> QED
      BY <1>3, <1>4, <3>1
  <2>3. ASSUME NEW i \in Starts(t), i \notin Starts(p) PROVE i \in Shifted(Starts(q), n + 1)
    <3>1. i \in 1 .. n + 1 + m + 1 /\ i \notin 1 .. n + 1
      BY <1>4, <2>1, <2>3
    <3>2. i - n - 1 \in 1 .. m + 1 /\ i = n + 1 + (i - n - 1)
      BY <1>2, <3>1
    <3> QED
      BY <2>2, <3>2 DEF Shifted
  <2>4. Starts(p) \subseteq Starts(t)
    BY <1>4, <2>1
  <2>5. Shifted(Starts(q), n + 1) \subseteq Starts(t)
    BY <1>4, <2>2 DEF Shifted
  <2> QED
    BY <2>3, <2>4, <2>5
<1>7. Cardinality(Starts(t)) = Cardinality(Starts(p)) + Cardinality(Starts(q))
  <2>1. IsFiniteSet(Starts(q))
    BY <1>4
  <2>2. Cardinality(Starts(p) \cup Shifted(Starts(q), n + 1)) =
           Cardinality(Starts(p)) + Cardinality(Starts(q))
    BY <1>5, <2>1, PlacesTogether
  <2> QED
    BY <1>6, <2>2
<1>8. ASSUME NEW b \in Pieces(p)
      PROVE  b \in Pieces(t) /\ Piece(t, b) = Piece(p, b) /\ Place(t, b) = Place(p, b)
  <2>1. PICK x, y : x = b[1] /\ y = b[2]
    OBVIOUS
  <2>2. b = <<x, y>>
    BY <2>1 DEF Pieces
  <2>3. /\ x \in 1 .. n + 1 /\ y \in 0 .. n /\ x <= y + 1
        /\ Edge(p, x - 1) /\ Edge(p, y + 1) /\ \A k \in x .. y : ~Edge(p, k)
        /\ Piece(p, b) \in Text /\ Len(Piece(p, b)) = y - x + 1
        /\ \A k \in 1 .. y - x + 1 : Piece(p, b)[k] = p[x + k - 1]
    BY <1>1, <2>1, PieceFacts
  <2>4. /\ x \in 1 .. Len(t) + 1 /\ y \in 0 .. Len(t)
        /\ x - 1 \in 0 .. n + 1 /\ y + 1 \in 0 .. n + 1
        /\ \A k \in x .. y : k \in 0 .. n + 1
    BY <1>2, <2>3
  <2>5. Edge(t, x - 1) /\ Edge(t, y + 1) /\ \A k \in x .. y : ~Edge(t, k)
    BY <1>3, <2>3, <2>4
  <2>6. b \in Pieces(t)
    BY <1>2, <2>2, <2>3, <2>4, <2>5, PieceBetween
  <2>7. /\ Piece(t, b) \in Text /\ Len(Piece(t, b)) = y - x + 1
        /\ \A k \in 1 .. y - x + 1 : Piece(t, b)[k] = t[x + k - 1]
    <3>1. /\ Piece(t, b) \in Text /\ Len(Piece(t, b)) = b[2] - b[1] + 1
          /\ \A k \in 1 .. b[2] - b[1] + 1 : Piece(t, b)[k] = t[b[1] + k - 1]
      BY <1>2, <2>6, PieceFacts
    <3> QED
      BY <2>1, <3>1
  <2>8. \A k \in 1 .. y - x + 1 : x + k - 1 \in 1 .. n
    BY <1>2, <2>3
  <2>9. Piece(t, b) = Piece(p, b)
    BY <1>2, <2>3, <2>7, <2>8, SeqEqual DEF Text
  <2>10. Below(Starts(t), x) = Below(Starts(p), x)
    <3>1. \A j \in Shifted(Starts(q), n + 1) : ~(j < x)
      BY <1>2, <1>4, <2>3 DEF Shifted
    <3> QED
      BY <1>6, <3>1 DEF Below
  <2> QED
    BY <2>1, <2>6, <2>9, <2>10 DEF Place
<1>9. ASSUME NEW c \in Pieces(q)
      PROVE  \E d \in Pieces(t) : /\ Piece(t, d) = Piece(q, c)
                                  /\ Place(t, d) = Cardinality(Starts(p)) + Place(q, c)
  <2>1. PICK x, y, v, w, d :
           x = c[1] /\ y = c[2] /\ v = n + 1 + x /\ w = n + 1 + y /\ d = <<v, w>>
    OBVIOUS
  <2>2. d[1] = v /\ d[2] = w
    BY <2>1
  <2>3. /\ x \in 1 .. m + 1 /\ y \in 0 .. m /\ x <= y + 1
        /\ Edge(q, x - 1) /\ Edge(q, y + 1) /\ \A k \in x .. y : ~Edge(q, k)
        /\ Piece(q, c) \in Text /\ Len(Piece(q, c)) = y - x + 1
        /\ \A k \in 1 .. y - x + 1 : Piece(q, c)[k] = q[x + k - 1]
    BY <1>1, <2>1, PieceFacts
  <2>4. /\ v \in 1 .. Len(t) + 1 /\ w \in 0 .. Len(t) /\ v <= w + 1 /\ w - v = y - x
        /\ x - 1 \in Nat /\ v - 1 = n + 1 + (x - 1)
        /\ y + 1 \in Nat /\ w + 1 = n + 1 + (y + 1)
        /\ \A k \in 1 .. y - x + 1 : x + k - 1 \in 1 .. m /\ v + k - 1 = n + 1 + (x + k - 1)
        /\ \A j \in Nat : n + 1 + j < v <=> j < x
        /\ \A k \in v .. w : k - n - 1 \in x .. y /\ k - n - 1 \in Nat /\ k = n + 1 + (k - n - 1)
    <3>1. n \in Nat /\ m \in Nat /\ Len(t) = n + 1 + m
      BY <1>2
    <3>2. x \in 1 .. m + 1 /\ y \in 0 .. m /\ x <= y + 1
      BY <2>3
    <3>3. v = n + 1 + x /\ w = n + 1 + y
      BY <2>1
    <3> QED
      BY <3>1, <3>2, <3>3
  <2>5. Edge(t, v - 1) /\ Edge(t, w + 1)
    BY <1>3, <2>3, <2>4
  <2>6. ASSUME NEW k \in v .. w PROVE ~Edge(t, k)
    <3>1. PICK l \in x .. y : l \in Nat /\ k = n + 1 + l
      BY <2>4
    <3> QED
      BY <1>3, <2>3, <3>1
  <2>7. d \in Pieces(t)
    BY <1>2, <2>1, <2>4, <2>5, <2>6, PieceBetween
  <2>8. /\ Piece(t, d) \in Text /\ Len(Piece(t, d)) = w - v + 1
        /\ \A k \in 1 .. w - v + 1 : Piece(t, d)[k] = t[v + k - 1]
    BY <1>2, <2>2, <2>7, PieceFacts
  <2>9. ASSUME NEW k \in 1 .. y - x + 1 PROVE Piece(t, d)[k] = Piece(q, c)[k]
    <3>1. x + k - 1 \in 1 .. m /\ v + k - 1 = n + 1 + (x + k - 1)
      BY <2>4
    <3>2. k \in 1 .. w - v + 1
      BY <2>4
    <3> QED
      BY <1>2, <2>3, <2>8, <3>1, <3>2
  <2>10. Piece(t, d) = Piece(q, c)
    <3>1. /\ Piece(t, d) \in Seq(Chars) /\ Piece(q, c) \in Seq(Chars)
          /\ Len(Piece(t, d)) = Len(Piece(q, c))
      BY <2>3, <2>4, <2>8 DEF Text
    <3>2. \A k \in 1 .. Len(Piece(q, c)) : Piece(t, d)[k] = Piece(q, c)[k]
      BY <2>3, <2>9
    <3> QED
      BY <3>1, <3>2, SeqEqual
  <2>11. Below(Starts(t), v) = Starts(p) \cup Shifted(Below(Starts(q), x), n + 1)
    <3>1. \A j \in Starts(p) : j < v
      BY <1>2, <1>4, <2>1, <2>3
    <3>2. \A j \in Starts(q) : n + 1 + j < v <=> j < x
      BY <1>5, <2>4
    <3>3. Below(Starts(t), v) \subseteq Starts(p) \cup Shifted(Below(Starts(q), x), n + 1)
      BY <1>6, <3>2 DEF Below, Shifted
    <3>4. Shifted(Below(Starts(q), x), n + 1) \subseteq Below(Starts(t), v)
      BY <1>6, <3>2 DEF Below, Shifted
    <3>5. Starts(p) \subseteq Below(Starts(t), v)
      BY <1>6, <3>1 DEF Below
    <3> QED
      BY <3>3, <3>4, <3>5
  <2>12. Below(Starts(q), x) \in SUBSET (Nat \ {0}) /\ IsFiniteSet(Below(Starts(q), x))
    <3>1. Below(Starts(q), x) \subseteq Starts(q)
      BY DEF Below
    <3> QED
      BY <1>4, <1>5, <3>1, FS_Subset
  <2>13. Cardinality(Below(Starts(t), v)) = Cardinality(Starts(p)) + Cardinality(Below(Starts(q), x))
    BY <1>5, <2>11, <2>12, PlacesTogether
  <2> QED
    BY <2>1, <2>2, <2>7, <2>10, <2>13 DEF Place
<1>10. PICK r, s, u, whole :
          r = Segments(p) /\ s = Segments(q) /\ u = Segments(t) /\ whole = r \o s
  OBVIOUS
<1>11. PICK f, g : f = Cardinality(Starts(p)) /\ g = Cardinality(Starts(q))
  OBVIOUS
<1>12. /\ r \in Seq(Text) /\ Len(r) = f
       /\ s \in Seq(Text) /\ Len(s) = g
       /\ u \in Seq(Text) /\ Len(u) = f + g
  BY <1>2, <1>7, <1>10, <1>11, SegmentsMeaning
<1>13. /\ whole \in Seq(Text) /\ Len(whole) = f + g
       /\ \A k \in 1 .. f : whole[k] = r[k]
       /\ \A k \in 1 .. g : whole[f + k] = s[k]
  <2>1. /\ r \o s \in Seq(Text) /\ Len(r \o s) = Len(r) + Len(s)
        /\ \A k \in 1 .. Len(r) : (r \o s)[k] = r[k]
        /\ \A k \in 1 .. Len(s) : (r \o s)[Len(r) + k] = s[k]
    <3>1. r \in Seq(Text) /\ s \in Seq(Text)
      BY <1>12
    <3> QED
      BY <3>1, TogetherFacts
  <2> QED
    BY <1>10, <1>12, <2>1
<1>14. f \in Nat /\ g \in Nat
  BY <1>5, <1>11
<1>15. ASSUME NEW k \in 1 .. f PROVE u[k] = r[k]
  <2>1. PICK b \in Pieces(p) : Place(p, b) = k - 1
    BY <1>11, SegmentsMeaning
  <2>2. Place(p, b) + 1 = k
    BY <1>14, <2>1
  <2>3. r[k] = Piece(p, b)
    BY <1>10, <2>2, SegmentsMeaning
  <2>4. b \in Pieces(t) /\ Piece(t, b) = Piece(p, b) /\ Place(t, b) + 1 = k
    BY <1>8, <2>2
  <2>5. u[k] = Piece(t, b)
    BY <1>2, <1>10, <2>4, SegmentsMeaning
  <2> QED
    BY <2>3, <2>4, <2>5
<1>16. ASSUME NEW k \in 1 .. g PROVE u[f + k] = s[k]
  <2>1. PICK c \in Pieces(q) : Place(q, c) = k - 1
    BY <1>11, SegmentsMeaning
  <2>2. Place(q, c) + 1 = k
    BY <1>14, <2>1
  <2>3. s[k] = Piece(q, c)
    BY <1>10, <2>2, SegmentsMeaning
  <2>4. PICK d \in Pieces(t) : Piece(t, d) = Piece(q, c) /\ Place(t, d) = f + Place(q, c)
    BY <1>9, <1>11
  <2>5. Place(t, d) + 1 = f + k
    BY <1>14, <2>1, <2>4
  <2>6. u[f + k] = Piece(t, d)
    BY <1>2, <1>10, <2>5, SegmentsMeaning
  <2> QED
    BY <2>3, <2>4, <2>6
<1>17. ASSUME NEW k \in 1 .. f + g PROVE u[k] = whole[k]
  <2>1. CASE k <= f
    <3>1. k \in 1 .. f
      BY <1>14, <2>1
    <3> QED
      BY <1>13, <1>15, <3>1
  <2>2. CASE ~(k <= f)
    <3>1. PICK l : l = k - f
      OBVIOUS
    <3>2. l \in 1 .. g /\ f + l = k
      BY <1>14, <2>2, <3>1
    <3> QED
      BY <1>13, <1>16, <3>2
  <2> QED
    BY <2>1, <2>2
<1>18. u = whole
  BY <1>12, <1>13, <1>17, SeqEqual
<1> QED
  BY <1>1, <1>10, <1>18

(* What is joined and cut without a check needs none: valid parts join to a *)
(* valid name and come back out of it, and what a valid name holds under a  *)
(* prefix is a path, with the prefix's segments before its own (name.rs,    *)
(* join, child, suffix, relative_to, is_under and segments).                *)
THEOREM CutsNeedNoCheck == Spec => []CutsAreNames
<1>1. ASSUME IsText, NEW i \in Cuts
      PROVE  /\ \A j \in Cuts :
                  IsPath(Upto(i)) /\ IsPath(SubSeq(text, j + 1, Len(text))) =>
                      LET path == SubSeq(text, j + 1, Len(text))
                      IN  /\ IsPath(Join(Upto(i), path))
                          /\ RelativeTo(Join(Upto(i), path), Upto(i)) = {path}
             /\ IsPath(text) /\ IsPath(Upto(i)) =>
                  /\ IsUnder(text, Upto(i)) <=> i < Len(text) /\ text[i + 1] = Slash
                  /\ \A path \in Suffix(text, Upto(i)) :
                        /\ RelativeTo(text, Upto(i)) = {path}
                        /\ Segments(text) = Segments(Upto(i)) \o Segments(path)
  <2>1. text \in Text /\ text \in Seq(Chars) /\ Len(text) \in Nat /\ i \in 0 .. Len(text)
    BY <1>1 DEF IsText, Text, Cuts
  <2>2. PICK p : p = Upto(i)
    OBVIOUS
  <2>3. p \in Text /\ Len(p) = i /\ p = SubSeq(text, 1, i)
    <3>1. 1 \in 1 .. Len(text) + 1 /\ i \in 1 - 1 .. Len(text) /\ i - 1 + 1 = i
      BY <2>1
    <3> QED
      BY <2>1, <2>2, <3>1, PartFacts DEF Upto, Text
  <2>4. ASSUME NEW j \in Cuts PROVE SubSeq(text, j + 1, Len(text)) \in Text
    <3>1. PICK a, b : a = j + 1 /\ b = Len(text)
      OBVIOUS
    <3>2. a \in 1 .. Len(text) + 1 /\ b \in a - 1 .. Len(text)
      BY <2>1, <3>1 DEF Cuts
    <3> QED
      BY <2>1, <3>1, <3>2, PartFacts DEF Text
  <2>5. ASSUME NEW q \in Text, IsPath(p), IsPath(q)
        PROVE  IsPath(Join(p, q)) /\ RelativeTo(Join(p, q), p) = {q}
    BY <2>3, <2>5, JoinedNames, JoinedComesBack DEF RelativeTo
  <2>6. Suffix(text, p) =
           {q \in {SubSeq(text, i + 2, Len(text))} : i < Len(text) /\ text[i + 1] = Slash}
    <3>1. Len(text) > i <=> i < Len(text)
      BY <2>1
    <3> QED
      BY <2>3, <3>1 DEF Suffix
  <2>7. IsUnder(text, p) <=> i < Len(text) /\ text[i + 1] = Slash
    BY <2>6 DEF IsUnder
  <2>8. ASSUME IsPath(text), IsPath(p), NEW q \in Suffix(text, p)
        PROVE  RelativeTo(text, p) = {q} /\ Segments(text) = Segments(p) \o Segments(q)
    <3>1. /\ i < Len(text) /\ text[i + 1] = Slash
          /\ q = SubSeq(text, i + 2, Len(text)) /\ Suffix(text, p) = {q}
      BY <2>6, <2>8, Zenon
    <3>2. i \in 0 .. Len(text) - 1
      BY <2>1, <3>1
    <3>3. q \in Text /\ text = Join(p, q)
      BY <2>1, <2>3, <3>1, <3>2, CutAtSlash
    <3>4. IsPath(q)
      BY <2>3, <2>8, <3>3, JoinedNames
    <3>5. RelativeTo(text, p) = {q}
      BY <3>1, <3>4 DEF RelativeTo
    <3> QED
      BY <2>3, <3>3, <3>5, JoinedSegments
  <2> QED
    BY <2>2, <2>4, <2>5, <2>7, <2>8
<1>2. IsText => CutsAreNames
  BY <1>1 DEF CutsAreNames
<1> QED
  BY Typed, <1>2, PTL

(* A text without a slash is its only piece.                               *)
LEMMA WholePiece ==
    ASSUME NEW t \in Text, \A i \in 1 .. Len(t) : t[i] # Slash
    PROVE  Segments(t) = <<t>>
<1>1. PICK n : n = Len(t)
  OBVIOUS
<1>2. /\ n \in Nat /\ t \in Seq(Chars) /\ Edge(t, 0) /\ Edge(t, n + 1)
      /\ \A i \in 1 .. n : ~Edge(t, i)
  BY <1>1, TextFacts DEF Text, Edge
<1>3. PICK b : b = <<1, n>>
  OBVIOUS
<1>4. b[1] = 1 /\ b[2] = n
  BY <1>3
<1>5. b \in Pieces(t)
  <2>1. 1 \in 1 .. n + 1 /\ n \in 0 .. n /\ 1 <= n + 1 /\ 1 - 1 = 0
    BY <1>2
  <2> QED
    BY <1>1, <1>2, <1>3, <2>1, PieceBetween
<1>6. Starts(t) = {1}
  <2>1. ASSUME NEW i \in Starts(t) PROVE i = 1
    <3>1. i \in 1 .. n + 1 /\ Edge(t, i - 1)
      BY <1>1, StartsMeaning
    <3>2. i # 1 => i - 1 \in 1 .. n
      BY <1>2, <3>1
    <3> QED
      BY <1>2, <3>1, <3>2
  <2>2. 1 \in Starts(t)
    BY <1>4, <1>5 DEF Starts
  <2> QED
    BY <2>1, <2>2
<1>7. Cardinality(Starts(t)) = 1
  BY <1>6, FS_Singleton
<1>8. Place(t, b) = 0
  <2>1. Place(t, b) + 1 \in 1 .. 1
    BY <1>5, <1>7, SegmentsMeaning
  <2>2. Place(t, b) \in Nat
    <3>1. Below(Starts(t), b[1]) \subseteq Starts(t)
      BY DEF Below
    <3> QED
      BY <3>1, StartsMeaning, FS_Subset, FS_CardinalityType DEF Place
  <2> QED
    BY <2>1, <2>2
<1>9. Piece(t, b) = t
  <2>1. PICK u : u = Piece(t, b)
    OBVIOUS
  <2>2. PICK x, y : x = b[1] /\ y = b[2]
    OBVIOUS
  <2>3. u \in Text /\ Len(u) = y - x + 1 /\ \A k \in 1 .. y - x + 1 : u[k] = t[x + k - 1]
    BY <1>5, <2>1, <2>2, PieceFacts
  <2>4. y - x + 1 = n /\ \A k \in 1 .. n : x + k - 1 = k
    BY <1>2, <1>4, <2>2
  <2>5. Len(u) = n /\ \A k \in 1 .. n : u[k] = t[k]
    BY <2>3, <2>4
  <2> QED
    BY <1>1, <1>2, <2>1, <2>3, <2>5, SeqEqual DEF Text
<1>10. PICK s : s = Segments(t)
  OBVIOUS
<1>11. s \in Seq(Text) /\ Len(s) = 1 /\ s[1] = t
  <2>1. s[Place(t, b) + 1] = Piece(t, b)
    BY <1>5, <1>10, SegmentsMeaning
  <2>2. Place(t, b) + 1 = 1
    BY <1>8
  <2> QED
    BY <1>7, <1>9, <1>10, <2>1, <2>2, SegmentsMeaning
<1>12. <<t>> \in Seq(Text) /\ Len(<<t>>) = 1 /\ <<t>>[1] = t
  BY ShortTexts
<1> QED
  <2>1. PICK u : u = <<t>>
    OBVIOUS
  <2>2. u \in Seq(Text) /\ Len(u) = 1 /\ u[1] = t
    BY <1>12, <2>1
  <2>3. s = u
    BY <1>11, <2>2, SeqEqual
  <2> QED
    BY <1>10, <2>1, <2>3

(* A path with one segment has no slash.                                   *)
LEMMA OnlySegment ==
    ASSUME NEW t \in Text
    PROVE  /\ Len(Segments(t)) >= 1
           /\ Len(Segments(t)) = 1 => \A i \in 1 .. Len(t) : t[i] # Slash
<1>1. PICK n, N : n = Len(t) /\ N = Cardinality(Starts(t))
  OBVIOUS
<1>2. /\ n \in Nat /\ Edge(t, 0) /\ \A i \in 1 .. n : Edge(t, i) <=> t[i] = Slash
  BY <1>1, TextFacts DEF Edge
<1>3. Starts(t) = {i \in 1 .. n + 1 : Edge(t, i - 1)} /\ IsFiniteSet(Starts(t))
  BY <1>1, StartsMeaning
<1>4. Starts(t) \in SUBSET Nat /\ N \in Nat
  BY <1>1, <1>2, <1>3, FS_CardinalityType
<1>5. 1 \in Starts(t)
  <2>1. 1 \in 1 .. n + 1 /\ 1 - 1 = 0
    BY <1>2
  <2> QED
    BY <1>2, <1>3, <2>1
<1>6. \A i \in Starts(t) : Cardinality(Below(Starts(t), i)) \in 0 .. N - 1
  BY <1>1, <1>3, <1>4, PlacesDiffer
<1>7. N >= 1
  BY <1>4, <1>5, <1>6
<1>8. ASSUME N = 1, NEW i \in 1 .. n, t[i] = Slash
      PROVE  FALSE
  <2>1. i + 1 \in 1 .. n + 1 /\ (i + 1) - 1 = i /\ i + 1 # 1
    BY <1>2
  <2>2. i + 1 \in Starts(t)
    BY <1>2, <1>3, <1>8, <2>1
  <2>3. Cardinality(Below(Starts(t), 1)) = Cardinality(Below(Starts(t), i + 1))
    <3>1. /\ Cardinality(Below(Starts(t), 1)) \in 0 .. N - 1
          /\ Cardinality(Below(Starts(t), i + 1)) \in 0 .. N - 1
      BY <1>5, <1>6, <2>2
    <3>2. \A x, y \in 0 .. N - 1 : x = y
      BY <1>8
    <3> QED
      BY <3>1, <3>2
  <2>4. 1 = i + 1
    BY <1>3, <1>4, <1>5, <2>2, <2>3, PlacesDiffer
  <2> QED
    BY <2>1, <2>4
<1> QED
  BY <1>1, <1>7, <1>8, SegmentsMeaning

(* What RefPath::new takes for segments without a second look are segments: *)
(* there is one at least, each passes the checks, and a path is a segment   *)
(* if it has no more than one (name.rs, RefPath::new, segments, as_segment).*)
THEOREM PiecesAreSegments == Spec => []SegmentsAreWhole
<1>1. ASSUME IsText, IsPath(text)
      PROVE  /\ Segments(text) # <<>>
             /\ \A k \in DOMAIN Segments(text) : IsSegment(Segments(text)[k])
             /\ IsSegment(text) => Segments(text) = <<text>>
             /\ AsSegment(text) = {segment \in {text} : IsSegment(segment)}
  <2>1. text \in Text
    BY <1>1 DEF IsText
  <2>2. PICK s : s = Segments(text)
    OBVIOUS
  <2>3. s \in Seq(Text) /\ Len(s) >= 1 /\ Len(s) \in Nat /\ DOMAIN s = 1 .. Len(s)
    BY <2>1, <2>2, SegmentsMeaning, OnlySegment, LenProperties
  <2>4. s # <<>>
    BY <2>3
  <2>5. ASSUME NEW k \in 1 .. Len(s) PROVE IsSegment(s[k])
    <3>1. PICK b \in Pieces(text) : Place(text, b) = k - 1
      BY <2>1, <2>2, <2>5, SegmentsMeaning
    <3>2. Place(text, b) + 1 = k
      BY <2>3, <3>1
    <3>3. s[k] = Piece(text, b)
      BY <2>1, <2>2, <3>2, SegmentsMeaning
    <3>4. GoodPiece(text, b[1], b[2])
      BY <1>1, <2>1, PathMeaning
    <3>5. SegmentDefect(Piece(text, b)) = NoDefect
      BY <2>1, <3>4, PieceMeaning
    <3>6. ASSUME NEW i \in 1 .. Len(Piece(text, b)) PROVE Piece(text, b)[i] # Slash
      <4>1. PICK x, y, j : x = b[1] /\ y = b[2] /\ j = x + i - 1
        OBVIOUS
      <4>2. /\ x \in 1 .. Len(text) + 1 /\ y \in 0 .. Len(text)
            /\ \A l \in x .. y : ~Edge(text, l)
            /\ Len(Piece(text, b)) = y - x + 1
            /\ \A l \in 1 .. y - x + 1 : Piece(text, b)[l] = text[x + l - 1]
        BY <2>1, <4>1, PieceFacts
      <4>3. Len(text) \in Nat
        BY <2>1, TextFacts
      <4>4. x \in 1 .. Len(text) + 1 /\ y \in 0 .. Len(text) /\ i \in 1 .. y - x + 1
        BY <3>6, <4>2
      <4>5. j \in x .. y /\ j \in 1 .. Len(text)
        <5>1. PICK l : l = Len(text)
          OBVIOUS
        <5>2. x \in 1 .. l + 1 /\ y \in 0 .. l /\ i \in 1 .. y - x + 1 /\ l \in Nat
          BY <4>3, <4>4, <5>1
        <5>3. x + i - 1 \in x .. y /\ x + i - 1 \in 1 .. l
          BY <5>2
        <5> QED
          BY <4>1, <5>1, <5>3
      <4>6. Piece(text, b)[i] = text[j] /\ ~Edge(text, j)
        BY <4>1, <4>2, <4>4, <4>5
      <4> QED
        BY <4>5, <4>6 DEF Edge, CharAt
    <3>7. NameDefect(Piece(text, b)) = NoDefect
      BY <3>5, <3>6 DEF NameDefect
    <3> QED
      BY <3>3, <3>7 DEF IsSegment
  <2>6. IsSegment(text) <=> Len(s) = 1
    <3>1. ASSUME IsSegment(text) PROVE \A i \in 1 .. Len(text) : text[i] # Slash
      BY <3>1 DEF IsSegment, NameDefect, NoDefect
    <3>2. ASSUME IsSegment(text) PROVE s = <<text>>
      BY <2>1, <2>2, <3>1, <3>2, WholePiece
    <3>3. ASSUME Len(s) = 1 PROVE IsSegment(text)
      <4>1. s = <<text>>
        BY <2>1, <2>2, <3>3, OnlySegment, WholePiece
      <4>2. 1 \in 1 .. Len(s) /\ s[1] = text
        BY <3>3, <4>1
      <4> QED
        BY <2>5, <4>2
    <3> QED
      BY <3>2, <3>3
  <2>7. ASSUME Len(s) = 1 PROVE s = <<text>>
    BY <2>1, <2>2, <2>7, OnlySegment, WholePiece
  <2>8. AsSegment(text) = {segment \in {text} : IsSegment(segment)}
    <3>1. CASE Len(s) = 1
      <4>1. s[1] = text
        BY <2>7, <3>1
      <4> QED
        BY <2>2, <2>6, <3>1, <4>1 DEF AsSegment
    <3>2. CASE Len(s) # 1
      BY <2>2, <2>6, <3>2 DEF AsSegment
    <3> QED
      BY <3>1, <3>2
  <2> QED
    BY <2>2, <2>3, <2>4, <2>5, <2>6, <2>7, <2>8
<1>2. IsText => SegmentsAreWhole
  BY <1>1 DEF SegmentsAreWhole
<1> QED
  BY Typed, <1>2, PTL

-----------------------------------------------------------------------------
(* Names in hexadecimal *)

(* A byte is the number its two digits stand for.                          *)
LEMMA DigitsOfByte ==
    ASSUME NEW n \in 0 .. Base * Base - 1
    PROVE  /\ n \div Base \in 0 .. Base - 1
           /\ n % Base \in 0 .. Base - 1
           /\ (n \div Base) * Base + (n % Base) = n
<1>1. Base \in Nat /\ Base > 1
  BY BytesAssumption
<1>2. /\ n % Base \in 0 .. Base - 1
      /\ n \div Base \in Int
      /\ n = Base * (n \div Base) + (n % Base)
  BY <1>1
<1>3. PICK q, r : q = n \div Base /\ r = n % Base
  OBVIOUS
<1>4. q \in Int /\ r \in 0 .. Base - 1 /\ n = Base * q + r
  BY <1>2, <1>3
<1>5. q >= 0
  <2>1. ASSUME q <= -1 PROVE FALSE
    <3>1. Base * q <= Base * (-1)
      BY <1>1, <1>4, <2>1
    <3> QED
      BY <1>1, <1>4, <3>1
  <2> QED
    BY <1>4, <2>1
<1>6. q <= Base - 1
  <2>1. ASSUME q >= Base PROVE FALSE
    <3>1. Base * q >= Base * Base
      BY <1>1, <1>4, <2>1
    <3> QED
      BY <1>1, <1>4, <3>1
  <2> QED
    BY <1>1, <1>4, <2>1
<1>7. q * Base = Base * q
  BY <1>1, <1>4
<1> QED
  BY <1>1, <1>3, <1>4, <1>5, <1>6, <1>7

(* The bytes of a segment come back out of their digits, so that the index *)
(* rows of two names differ (index.rs, encode_hex and decode_hex).         *)
THEOREM DigitsComeBack == \A s \in Text : Unhex(Hex(s)) = {s}
<1> SUFFICES ASSUME NEW s \in Text PROVE Unhex(Hex(s)) = {s}
  OBVIOUS
<1>1. PICK n, h : n = Len(s) /\ h = Hex(s)
  OBVIOUS
<1>2. n \in Nat /\ s \in Seq(Chars) /\ \A i \in 1 .. n : s[i] \in Chars
  BY <1>1, TextFacts DEF Text
<1>3. \A i \in 1 .. 2 * n :
         h[i] = IF i % 2 = 1 THEN Byte[s[(i + 1) \div 2]] \div Base
                ELSE Byte[s[(i + 1) \div 2]] % Base
  BY <1>1 DEF Hex
<1>4. Len(h) = 2 * n /\ 2 * n \in Nat
  <2>1. 2 * n \in Nat
    BY <1>2
  <2> QED
    BY <1>1, <2>1 DEF Hex
<1>5. \A c \in Chars : /\ Byte[c] \in 0 .. Base * Base - 1
                       /\ Byte[c] \div Base \in 0 .. Base - 1
                       /\ Byte[c] % Base \in 0 .. Base - 1
                       /\ (Byte[c] \div Base) * Base + (Byte[c] % Base) = Byte[c]
  <2>1. \A c \in Chars : Byte[c] \in 0 .. Base * Base - 1
    BY BytesAssumption
  <2> QED
    BY <2>1, DigitsOfByte
<1>6. ASSUME NEW i \in 1 .. 2 * n PROVE ~(h[i] >= Base)
  <2>1. (i + 1) \div 2 \in 1 .. n
    BY <1>2
  <2>2. PICK c \in Chars : c = s[(i + 1) \div 2]
    BY <1>2, <2>1
  <2>3. h[i] \in {Byte[c] \div Base, Byte[c] % Base}
    BY <1>3, <2>2
  <2>4. h[i] \in 0 .. Base - 1
    BY <1>5, <2>3
  <2>5. Base \in Nat
    BY BytesAssumption
  <2> QED
    BY <2>4, <2>5
<1>7. ASSUME NEW k \in 1 .. n PROVE h[2 * k - 1] * Base + h[2 * k] = Byte[s[k]]
  <2>1. /\ 2 * k - 1 \in 1 .. 2 * n /\ (2 * k - 1) % 2 = 1 /\ ((2 * k - 1) + 1) \div 2 = k
        /\ 2 * k \in 1 .. 2 * n /\ (2 * k) % 2 = 0 /\ (2 * k + 1) \div 2 = k
    BY <1>2
  <2>2. h[2 * k - 1] = Byte[s[k]] \div Base
    BY <1>3, <2>1
  <2>3. h[2 * k] = Byte[s[k]] % Base
    <3>1. ~((2 * k) % 2 = 1)
      BY <2>1
    <3> QED
      BY <1>3, <2>1, <3>1
  <2> QED
    BY <1>2, <1>5, <2>2, <2>3
<1>8. Len(h) \div 2 = n
  BY <1>2, <1>4
<1>9. ~(\E i \in 1 .. Len(h) : h[i] >= Base)
  BY <1>4, <1>6
<1>10. ~(\E k \in 1 .. n : \A c \in Chars : Byte[c] # h[2 * k - 1] * Base + h[2 * k])
  BY <1>2, <1>7
<1>11. Unhex(h) = {[k \in 1 .. n |-> CHOOSE c \in Chars : Byte[c] = h[2 * k - 1] * Base + h[2 * k]]}
  BY <1>8, <1>9, <1>10, Zenon DEF Unhex
<1>12. ASSUME NEW k \in 1 .. n
       PROVE  (CHOOSE c \in Chars : Byte[c] = h[2 * k - 1] * Base + h[2 * k]) = s[k]
  <2>1. \A c \in Chars : Byte[c] = Byte[s[k]] => c = s[k]
    BY <1>2, BytesAssumption
  <2> QED
    BY <1>2, <1>7, <2>1
<1>13. PICK u : u = [k \in 1 .. n |-> CHOOSE c \in Chars : Byte[c] = h[2 * k - 1] * Base + h[2 * k]]
  OBVIOUS
<1>14. u = [k \in 1 .. n |-> s[k]]
  BY <1>12, <1>13
<1>15. s = [k \in 1 .. n |-> s[k]]
  BY <1>1, <1>2
<1> QED
  BY <1>1, <1>11, <1>13, <1>14, <1>15

(* Each kind has an index ref of its own: "the ref name is injective in    *)
(* the kind name" (index.rs, reference and encode_bytes).                  *)
THEOREM KindsHaveTheirOwnIndex == \A k, l \in Text : Hex(k) = Hex(l) => k = l
BY DigitsComeBack

-----------------------------------------------------------------------------
(* Definitions by recursion *)

(* What holds of the first number, and of the next one when it holds of    *)
(* one, holds up to a bound.                                               *)
LEMMA CountingUp ==
    ASSUME NEW N \in Nat, NEW T, 0 \in T, \A n \in 0 .. N - 1 : n \in T => n + 1 \in T
    PROVE  \A n \in 0 .. N : n \in T
<1> DEFINE missed == (0 .. N) \ T
<1> SUFFICES ASSUME missed # {} PROVE FALSE
  OBVIOUS
<1>1. missed \in SUBSET Nat
  OBVIOUS
<1>2. PICK n \in missed : \A k \in missed : n <= k
  <2> HIDE DEF missed
  <2> QED
    BY <1>1, LeastNumber
<1>3. PICK p : p = n - 1
  OBVIOUS
<1>4. n \in 0 .. N /\ n \notin T /\ p \in 0 .. N - 1 /\ p + 1 = n /\ ~(n <= p)
  BY <1>2, <1>3
<1>5. p \notin missed
  BY <1>2, <1>4
<1>6. p \in T
  BY <1>4, <1>5
<1> QED
  BY <1>4, <1>6

(* What holds of a bound, and of a number when it holds of the next one,   *)
(* holds from there down.                                                  *)
LEMMA CountingDown ==
    ASSUME NEW N \in Nat, NEW T, N \in T, \A n \in 0 .. N - 1 : n + 1 \in T => n \in T
    PROVE  \A n \in 0 .. N : n \in T
<1> DEFINE missed == (0 .. N) \ T
<1> SUFFICES ASSUME missed # {} PROVE FALSE
  OBVIOUS
<1>1. missed \in SUBSET (0 .. N)
  OBVIOUS
<1>2. PICK n \in missed : \A k \in missed : k <= n
  <2> HIDE DEF missed
  <2> QED
    BY <1>1, GreatestNumber
<1>3. PICK p : p = n + 1
  OBVIOUS
<1>4. n \in 0 .. N - 1 /\ n \notin T /\ p \in 0 .. N /\ p = n + 1 /\ ~(p <= n)
  BY <1>2, <1>3
<1>5. p \notin missed
  BY <1>2, <1>4
<1>6. p \in T
  BY <1>4, <1>5
<1> QED
  BY <1>4, <1>6

\* A function that takes each of its values from others of them.
Recurses(f, S, D, step) == f \in [S -> D] /\ \A x \in S : f[x] = step[x][f]

\* The others are those at points of a smaller size.
Grounded(S, D, N, size, step) ==
    /\ \A x \in S : size[x] \in 0 .. N
    /\ \A x \in S : \A g \in [S -> D] : step[x][g] \in D
    /\ \A x \in S : \A g, h \in [S -> D] :
          (\A y \in S : size[y] < size[x] => g[y] = h[y]) => step[x][g] = step[x][h]

(* A function defined from its own values at smaller points exists.        *)
LEMMA Recursion ==
    ASSUME NEW S, NEW D, NEW none \in D, NEW N \in Nat, NEW size, NEW step,
           Grounded(S, D, N, size, step)
    PROVE  \E f : Recurses(f, S, D, step)
<1> USE DEF Grounded
<1> DEFINE Solves(f, n) == \A x \in S : size[x] < n => f[x] = step[x][f]
           solved == {n \in 0 .. N + 1 : \E f \in [S -> D] : Solves(f, n)}
<1>1. \A x \in S : size[x] \in 0 .. N
  OBVIOUS
<1>2. ASSUME NEW n \in 0 .. N, NEW f \in [S -> D], Solves(f, n)
      PROVE  \E g \in [S -> D] : Solves(g, n + 1)
  <2>1. PICK g : g = [x \in S |-> IF size[x] = n THEN step[x][f] ELSE f[x]]
    OBVIOUS
  <2>2. g \in [S -> D] /\ \A x \in S : g[x] = IF size[x] = n THEN step[x][f] ELSE f[x]
    BY <2>1
  <2>3. ASSUME NEW x \in S, size[x] < n + 1 PROVE g[x] = step[x][g]
    <3>1. size[x] = n \/ size[x] < n
      <4>1. PICK z \in 0 .. N : z = size[x]
        BY <1>1
      <4>2. z < n + 1 /\ z \in Int /\ n \in Int
        BY <2>3, <4>1
      <4>3. z = n \/ z < n
        BY <4>2
      <4> QED
        BY <4>1, <4>3
    <3>2. ASSUME NEW y \in S, size[y] < size[x] PROVE f[y] = g[y]
      <4>1. size[y] # n
        <5>1. size[y] \in Int /\ size[x] \in Int
          BY <1>1
        <5> QED
          BY <2>3, <3>2, <5>1
      <4> QED
        BY <2>2, <4>1
    <3>3. step[x][f] = step[x][g]
      BY <2>2, <3>2
    <3> QED
      BY <1>2, <2>2, <3>1, <3>3
  <2> QED
    BY <2>2, <2>3
<1>3. 0 \in solved
  <2>1. PICK f : f = [x \in S |-> none]
    OBVIOUS
  <2>2. f \in [S -> D] /\ Solves(f, 0) /\ 0 \in 0 .. N + 1
    BY <1>1, <2>1
  <2> HIDE DEF Solves
  <2> QED
    BY <2>2
<1>4. ASSUME NEW n \in 0 .. (N + 1) - 1, n \in solved PROVE n + 1 \in solved
  <2>1. PICK f \in [S -> D] : Solves(f, n)
    BY <1>4
  <2>2. n \in 0 .. N /\ n + 1 \in 0 .. N + 1
    OBVIOUS
  <2>3. \E g \in [S -> D] : Solves(g, n + 1)
    <3> HIDE DEF Solves
    <3> QED
      BY <1>2, <2>1, <2>2
  <2> QED
    BY <2>2, <2>3
<1>5. N + 1 \in solved
  <2>1. N + 1 \in Nat /\ N + 1 \in 0 .. N + 1
    OBVIOUS
  <2> HIDE DEF solved
  <2>2. \A n \in 0 .. N + 1 : n \in solved
    BY <1>3, <1>4, <2>1, CountingUp
  <2> QED
    BY <2>1, <2>2
<1>6. PICK f \in [S -> D] : Solves(f, N + 1)
  BY <1>5
<1>7. \A x \in S : size[x] < N + 1
  BY <1>1
<1> QED
  BY <1>6, <1>7 DEF Recurses

\* A function that begins with a value and takes each of its values from the last.
Iterates(f, N, D, first, step) ==
    /\ f \in [0 .. N -> D]
    /\ f[0] = first
    /\ \A i \in 1 .. N : f[i] = step[i][f[i - 1]]

(* A function defined from its own value at the number before exists.      *)
LEMMA Iteration ==
    ASSUME NEW N \in Nat, NEW D, NEW first \in D,
           NEW step, \A i \in 1 .. N : \A d \in D : step[i][d] \in D
    PROVE  \E f : Iterates(f, N, D, first, step)
<1> DEFINE Solves(f, n) == f[0] = first /\ \A i \in 1 .. n : f[i] = step[i][f[i - 1]]
           solved == {n \in 0 .. N : \E f \in [0 .. N -> D] : Solves(f, n)}
<1>1. 0 \in solved
  <2>1. PICK f : f = [i \in 0 .. N |-> first]
    OBVIOUS
  <2>2. f \in [0 .. N -> D] /\ f[0] = first /\ 0 \in 0 .. N /\ 1 .. 0 = {}
    BY <2>1
  <2> QED
    BY <2>2
<1>2. ASSUME NEW n \in 0 .. N - 1, n \in solved PROVE n + 1 \in solved
  <2>1. PICK f \in [0 .. N -> D] : Solves(f, n)
    BY <1>2
  <2>2. PICK m : m = n + 1
    OBVIOUS
  <2>3. m \in 1 .. N /\ m - 1 = n /\ m \in 0 .. N
    BY <2>2
  <2>4. PICK g : g = [f EXCEPT ![m] = step[m][f[n]]]
    OBVIOUS
  <2>5. f[n] \in D /\ step[m][f[n]] \in D
    BY <2>3
  <2>6. /\ g \in [0 .. N -> D] /\ g[m] = step[m][f[n]]
        /\ \A i \in 0 .. n : g[i] = f[i]
    BY <2>3, <2>4, <2>5
  <2>7. ASSUME NEW i \in 1 .. m PROVE g[i] = step[i][g[i - 1]]
    <3>1. i - 1 \in 0 .. n /\ (i = m \/ i \in 1 .. n)
      BY <2>2
    <3>2. g[i - 1] = f[i - 1]
      BY <2>6, <3>1
    <3>3. CASE i = m
      BY <2>3, <2>6, <3>2, <3>3
    <3>4. CASE i \in 1 .. n
      BY <2>1, <2>6, <3>2, <3>4
    <3> QED
      BY <3>1, <3>3, <3>4
  <2>8. g[0] = first
    BY <2>1, <2>6
  <2> QED
    BY <2>2, <2>3, <2>6, <2>7, <2>8
<1>3. N \in solved
  <2> HIDE DEF solved
  <2>1. \A n \in 0 .. N : n \in solved
    BY <1>1, <1>2, CountingUp
  <2> QED
    BY <2>1
<1> QED
  BY <1>3 DEF Iterates

-----------------------------------------------------------------------------
(* Keys of the index *)

(* A product of numbers is a number.                                       *)
LEMMA Products == \A a, b \in Nat : a * b \in Nat
OBVIOUS

(* What is left of a number after a division, and its last digit.          *)
LEMMA QuotientFacts ==
    ASSUME NEW n \in Nat
    PROVE  /\ n \div Base \in Nat
           /\ n % Base \in 0 .. Base - 1
           /\ (n \div Base) * Base + (n % Base) = n
<1>1. Base \in Nat /\ Base > 1
  BY BytesAssumption
<1>2. PICK q, r : q = n \div Base /\ r = n % Base
  OBVIOUS
<1>3. q \in Int /\ r \in 0 .. Base - 1 /\ n = Base * q + r
  BY <1>1, <1>2
<1>4. q >= 0
  <2>1. ASSUME q <= -1 PROVE FALSE
    <3>1. Base * q <= Base * (-1)
      BY <1>1, <1>3, <2>1
    <3> QED
      BY <1>1, <1>3, <3>1
  <2> QED
    BY <1>3, <2>1
<1>5. q * Base = Base * q
  BY <1>1, <1>3
<1> QED
  BY <1>1, <1>2, <1>3, <1>4, <1>5

(* What is left of a number after each division.                           *)
LEMMA QuotientsFacts ==
    ASSUME NEW n \in Nat, NEW w \in Nat
    PROVE  /\ \A i \in 0 .. w : Quotients(n, w)[i] \in Nat
           /\ Quotients(n, w)[0] = n
           /\ \A i \in 1 .. w : Quotients(n, w)[i] = Quotients(n, w)[i - 1] \div Base
<1> DEFINE Solves(f) == f = [i \in 0 .. w |-> IF i = 0 THEN n ELSE f[i - 1] \div Base]
<1>1. PICK step : step = [i \in 1 .. w |-> [q \in Nat |-> q \div Base]]
  OBVIOUS
<1>2. \A i \in 1 .. w : \A q \in Nat : step[i][q] = q \div Base /\ step[i][q] \in Nat
  BY <1>1, QuotientFacts
<1>3. PICK f : Iterates(f, w, Nat, n, step)
  <2>1. PICK D : D = Nat
    OBVIOUS
  <2>2. n \in D /\ \A i \in 1 .. w : \A q \in D : step[i][q] \in D
    BY <1>2, <2>1
  <2> QED
    BY <2>1, <2>2, Iteration
<1>4. /\ f \in [0 .. w -> Nat] /\ f[0] = n
      /\ \A i \in 1 .. w : f[i] = step[i][f[i - 1]]
  BY <1>3 DEF Iterates
<1>5. ASSUME NEW i \in 1 .. w PROVE f[i] = f[i - 1] \div Base
  <2>1. f[i - 1] \in Nat
    BY <1>4
  <2> QED
    BY <1>2, <1>4, <2>1
<1>6. Solves(f)
  BY <1>4, <1>5
<1>7. PICK v : v = Quotients(n, w)
  OBVIOUS
<1>8. v = CHOOSE g : Solves(g)
  BY <1>7 DEF Quotients
<1>9. Solves(v)
  <2> HIDE DEF Solves
  <2> QED
    BY <1>6, <1>8
<1>10. v[0] = n /\ \A i \in 1 .. w : v[i] = v[i - 1] \div Base
  BY <1>9
<1> DEFINE T == {i \in 0 .. w : v[i] \in Nat}
<1>11. 0 \in T
  BY <1>10
<1>12. ASSUME NEW i \in 0 .. w - 1, i \in T PROVE i + 1 \in T
  <2>1. i + 1 \in 1 .. w /\ i + 1 \in 0 .. w /\ (i + 1) - 1 = i
    OBVIOUS
  <2>2. v[i + 1] = v[i] \div Base
    BY <1>10, <2>1
  <2> QED
    BY <1>12, <2>1, <2>2, QuotientFacts
<1>13. \A i \in 0 .. w : i \in T
  <2> HIDE DEF T
  <2> QED
    BY <1>11, <1>12, CountingUp
<1> QED
  BY <1>7, <1>10, <1>13

(* The number read after each digit.                                       *)
LEMMA ValuesFacts ==
    ASSUME NEW digits \in Seq(Nat)
    PROVE  /\ Values(digits) \in [0 .. Len(digits) -> Nat]
           /\ Values(digits)[0] = 0
           /\ \A i \in 1 .. Len(digits) :
                 Values(digits)[i] = Values(digits)[i - 1] * Base + digits[i]
<1> DEFINE Solves(f) ==
              f = [i \in 0 .. Len(digits) |-> IF i = 0 THEN 0 ELSE f[i - 1] * Base + digits[i]]
<1>1. PICK n : n = Len(digits)
  OBVIOUS
<1>2. n \in Nat /\ Base \in Nat /\ \A i \in 1 .. n : digits[i] \in Nat
  BY <1>1, BytesAssumption
<1>3. PICK step : step = [i \in 1 .. n |-> [v \in Nat |-> v * Base + digits[i]]]
  OBVIOUS
<1>4. \A i \in 1 .. n : \A d \in Nat : step[i][d] \in Nat
  <2>1. ASSUME NEW i \in 1 .. n, NEW v \in Nat PROVE v * Base + digits[i] \in Nat
    <3>1. v * Base \in Nat /\ digits[i] \in Nat
      BY <1>2, Products
    <3> QED
      BY <3>1
  <2> QED
    BY <1>3, <2>1
<1>5. PICK f \in [0 .. n -> Nat] : f[0] = 0 /\ \A i \in 1 .. n : f[i] = step[i][f[i - 1]]
  <2>1. PICK D, z : D = Nat /\ z = 0
    OBVIOUS
  <2>2. n \in Nat /\ z \in D /\ \A i \in 1 .. n : \A d \in D : step[i][d] \in D
    BY <1>2, <1>4, <2>1
  <2>3. PICK g : Iterates(g, n, D, z, step)
    BY <2>2, Iteration
  <2> QED
    BY <2>1, <2>3 DEF Iterates
<1>6. ASSUME NEW i \in 1 .. n PROVE f[i] = f[i - 1] * Base + digits[i]
  <2>1. i - 1 \in 0 .. n
    BY <1>2
  <2>2. f[i - 1] \in Nat
    BY <2>1
  <2> QED
    BY <1>3, <1>5, <2>2
<1>7. Solves(f)
  <2>1. \A i \in 0 .. n : f[i] = IF i = 0 THEN 0 ELSE f[i - 1] * Base + digits[i]
    BY <1>2, <1>5, <1>6
  <2> QED
    BY <1>1, <2>1
<1>8. Values(digits) = CHOOSE g : Solves(g)
  BY DEF Values
<1>9. PICK v : v = Values(digits)
  OBVIOUS
<1>10. v = [i \in 0 .. n |-> IF i = 0 THEN 0 ELSE v[i - 1] * Base + digits[i]]
  <2>1. Solves(v)
    <3> HIDE DEF Solves
    <3> QED
      BY <1>7, <1>8, <1>9
  <2> QED
    BY <1>1, <2>1
<1>11. v[0] = 0 /\ \A i \in 1 .. n : v[i] = v[i - 1] * Base + digits[i]
  BY <1>2, <1>10
<1>12. \A i \in 0 .. n : v[i] \in Nat
  <2> DEFINE T == {i \in 0 .. n : v[i] \in Nat}
  <2>1. 0 \in T
    BY <1>2, <1>11
  <2>2. ASSUME NEW i \in 0 .. n - 1, i \in T PROVE i + 1 \in T
    <3>1. i + 1 \in 1 .. n /\ i + 1 \in 0 .. n /\ (i + 1) - 1 = i
      BY <1>2
    <3>2. v[i + 1] = v[i] * Base + digits[i + 1]
      BY <1>11, <3>1
    <3>3. v[i] * Base \in Nat /\ digits[i + 1] \in Nat
      BY <1>2, <2>2, <3>1, Products
    <3> QED
      BY <3>1, <3>2, <3>3
  <2>3. \A i \in 0 .. n : i \in T
    <3> HIDE DEF T
    <3> QED
      BY <1>2, <2>1, <2>2, CountingUp
  <2> QED
    BY <2>3
<1>13. v \in [0 .. n -> Nat]
  BY <1>10, <1>12
<1> QED
  BY <1>1, <1>9, <1>11, <1>13

(* A number comes back out of its digits, if they have room for it.        *)
LEMMA NumberComesBack ==
    ASSUME NEW n \in Nat, NEW w \in Nat, Quotients(n, w)[w] = 0
    PROVE  /\ Digits(n, w) \in Seq(Nat) /\ Len(Digits(n, w)) = w
           /\ Number(Digits(n, w)) = {n}
<1>1. PICK q : q = Quotients(n, w)
  OBVIOUS
<1>2. /\ \A i \in 0 .. w : q[i] \in Nat
      /\ q[0] = n /\ q[w] = 0 /\ \A i \in 1 .. w : q[i] = q[i - 1] \div Base
  BY <1>1, QuotientsFacts
<1>3. PICK d : d = Digits(n, w)
  OBVIOUS
<1>4. d = [i \in 1 .. w |-> q[w - i] % Base]
  BY <1>1, <1>3 DEF Digits
<1>5. Base \in Nat
  BY BytesAssumption
<1>6. ASSUME NEW i \in 1 .. w
      PROVE  /\ w - i \in 0 .. w /\ d[i] = q[w - i] % Base
             /\ d[i] \in Nat /\ d[i] < Base
  <2>1. w - i \in 0 .. w
    OBVIOUS
  <2>2. q[w - i] % Base \in 0 .. Base - 1
    BY <1>2, <2>1, QuotientFacts
  <2> QED
    BY <1>4, <1>5, <2>1, <2>2
<1>7. d \in Seq(Nat) /\ Len(d) = w
  BY <1>4, <1>6
<1>8. PICK v : v = Values(d)
  OBVIOUS
<1>9. v[0] = 0 /\ \A i \in 1 .. w : v[i] = v[i - 1] * Base + d[i]
  BY <1>7, <1>8, ValuesFacts
<1> DEFINE T == {i \in 0 .. w : v[i] = q[w - i]}
<1>10. 0 \in T
  BY <1>2, <1>9
<1>11. ASSUME NEW i \in 0 .. w - 1, i \in T PROVE i + 1 \in T
  <2>1. PICK j : j = i + 1
    OBVIOUS
  <2>2. j \in 1 .. w /\ j \in 0 .. w /\ j - 1 = i /\ w - i \in 1 .. w
        /\ w - j \in 0 .. w /\ (w - i) - 1 = w - j
    BY <2>1
  <2>3. v[j] = v[i] * Base + d[j]
    BY <1>9, <2>2
  <2>4. v[i] = q[w - j] \div Base
    BY <1>2, <1>11, <2>2
  <2>5. d[j] = q[w - j] % Base
    BY <1>6, <2>2
  <2>6. (q[w - j] \div Base) * Base + (q[w - j] % Base) = q[w - j]
    BY <1>2, <2>2, QuotientFacts
  <2>7. v[j] = q[w - j]
    BY <2>3, <2>4, <2>5, <2>6
  <2> QED
    BY <2>1, <2>2, <2>7
<1>12. v[w] = n
  <2>1. \A i \in 0 .. w : i \in T
    <3> HIDE DEF T
    <3> QED
      BY <1>10, <1>11, CountingUp
  <2>2. w \in 0 .. w /\ w - w = 0
    OBVIOUS
  <2> QED
    BY <1>2, <2>1, <2>2
<1>13. \A i \in 1 .. Len(d) : d[i] < Base
  BY <1>6, <1>7
<1>14. Number(d) = {n}
  BY <1>7, <1>8, <1>12, <1>13 DEF Number
<1> QED
  BY <1>3, <1>7, <1>14

(* What two runs of digits make together.                                  *)
LEMMA DigitsTogether ==
    ASSUME NEW s \in Seq(Nat), NEW t \in Seq(Nat)
    PROVE  /\ s \o t \in Seq(Nat)
           /\ Len(s \o t) = Len(s) + Len(t)
           /\ \A k \in 1 .. Len(s) : (s \o t)[k] = s[k]
           /\ \A k \in 1 .. Len(t) : (s \o t)[Len(s) + k] = t[k]
<1>1. PICK N : N = Nat
  OBVIOUS
<1>2. s \in Seq(N) /\ t \in Seq(N)
  BY <1>1
<1>3. /\ s \o t \in Seq(N)
      /\ Len(s \o t) = Len(s) + Len(t)
      /\ \A k \in 1 .. Len(s) : (s \o t)[k] = s[k]
      /\ \A k \in 1 .. Len(t) : (s \o t)[Len(s) + k] = t[k]
  BY <1>2, TogetherFacts
<1> QED
  BY <1>1, <1>3

(* The digits of a number, whether they have room for it or not.           *)
LEMMA DigitsFacts ==
    ASSUME NEW n \in Nat, NEW w \in Nat
    PROVE  Digits(n, w) \in Seq(Nat) /\ Len(Digits(n, w)) = w
<1>1. PICK q, d : q = Quotients(n, w) /\ d = Digits(n, w)
  OBVIOUS
<1>2. \A i \in 0 .. w : q[i] \in Nat
  BY <1>1, QuotientsFacts
<1>3. d = [i \in 1 .. w |-> q[w - i] % Base]
  BY <1>1 DEF Digits
<1>4. ASSUME NEW i \in 1 .. w PROVE q[w - i] % Base \in Nat
  <2>1. w - i \in 0 .. w
    OBVIOUS
  <2>2. q[w - i] % Base \in 0 .. Base - 1
    BY <1>2, <2>1, QuotientFacts
  <2> QED
    BY <2>2
<1>5. d \in Seq(Nat) /\ Len(d) = w
  BY <1>3, <1>4
<1> QED
  BY <1>1, <1>5

(* The digits of a segment.                                                *)
LEMMA HexFacts ==
    ASSUME NEW s \in Text
    PROVE  Hex(s) \in Seq(Nat) /\ Len(Hex(s)) = 2 * Len(s)
<1>1. PICK n, h : n = Len(s) /\ h = Hex(s)
  OBVIOUS
<1>2. n \in Nat /\ \A i \in 1 .. n : s[i] \in Chars
  BY <1>1, TextFacts
<1>3. h = [i \in 1 .. 2 * n |->
             IF i % 2 = 1 THEN Byte[s[(i + 1) \div 2]] \div Base
             ELSE Byte[s[(i + 1) \div 2]] % Base]
  BY <1>1 DEF Hex
<1>4. ASSUME NEW i \in 1 .. 2 * n PROVE h[i] \in Nat
  <2>1. (i + 1) \div 2 \in 1 .. n
    BY <1>2
  <2>2. PICK c \in Chars : c = s[(i + 1) \div 2]
    BY <1>2, <2>1
  <2>3. PICK byte : byte = Byte[c]
    OBVIOUS
  <2>4. byte \in Nat
    BY <2>3, BytesAssumption
  <2>5. byte \div Base \in Nat /\ byte % Base \in 0 .. Base - 1
    BY <2>4, QuotientFacts
  <2>6. h[i] \in {byte \div Base, byte % Base}
    BY <1>3, <2>2, <2>3
  <2> QED
    BY <2>5, <2>6
<1>5. 2 * n \in Nat /\ h = [i \in 1 .. 2 * n |-> h[i]]
  BY <1>2, <1>3
<1>6. h \in Seq(Nat) /\ Len(h) = 2 * n
  BY <1>4, <1>5
<1> QED
  BY <1>1, <1>6

(* A frame holds the digits of the length and then those of the segment.   *)
LEMMA FrameFacts ==
    ASSUME NEW s \in Text
    PROVE  /\ Frame(s) \in Seq(Nat)
           /\ Len(Frame(s)) = HeaderWidth + 2 * Len(s)
           /\ \A i \in 1 .. HeaderWidth : Frame(s)[i] = Digits(Len(s), HeaderWidth)[i]
           /\ \A i \in 1 .. 2 * Len(s) : Frame(s)[HeaderWidth + i] = Hex(s)[i]
<1>1. PICK d, h, f : d = Digits(Len(s), HeaderWidth) /\ h = Hex(s) /\ f = Frame(s)
  OBVIOUS
<1>2. HeaderWidth \in Nat /\ Len(s) \in Nat
  BY BytesAssumption, TextFacts
<1>3. d \in Seq(Nat) /\ Len(d) = HeaderWidth
  BY <1>1, <1>2, DigitsFacts
<1>4. h \in Seq(Nat) /\ Len(h) = 2 * Len(s)
  BY <1>1, HexFacts
<1>5. f = d \o h
  BY <1>1 DEF Frame
<1>6. /\ d \o h \in Seq(Nat)
      /\ Len(d \o h) = Len(d) + Len(h)
      /\ \A k \in 1 .. Len(d) : (d \o h)[k] = d[k]
      /\ \A k \in 1 .. Len(h) : (d \o h)[Len(d) + k] = h[k]
  BY <1>3, <1>4, DigitsTogether
<1>7. /\ f \in Seq(Nat) /\ Len(f) = HeaderWidth + 2 * Len(s)
      /\ \A i \in 1 .. HeaderWidth : f[i] = d[i]
      /\ \A i \in 1 .. 2 * Len(s) : f[HeaderWidth + i] = h[i]
  BY <1>3, <1>4, <1>5, <1>6
<1> QED
  BY <1>1, <1>7

(* The key after each of the segments.                                     *)
LEMMA WrittenFacts ==
    ASSUME NEW segments \in Seq(Text)
    PROVE  /\ \A k \in 0 .. Len(segments) : Written(segments)[k] \in Seq(Nat)
           /\ Written(segments)[0] = <<Marker>>
           /\ \A k \in 1 .. Len(segments) :
                 Written(segments)[k] = Written(segments)[k - 1] \o Frame(segments[k])
<1> DEFINE Solves(f) == f = [k \in 0 .. Len(segments) |->
                               IF k = 0 THEN <<Marker>> ELSE f[k - 1] \o Frame(segments[k])]
<1>1. PICK m, first, frame : /\ m = Len(segments) /\ first = <<Marker>>
                             /\ frame = [k \in 1 .. m |-> Frame(segments[k])]
  OBVIOUS
<1>2. m \in Nat /\ \A k \in 1 .. m : frame[k] = Frame(segments[k]) /\ frame[k] \in Seq(Nat)
  <2>1. m \in Nat /\ \A k \in 1 .. m : segments[k] \in Text
    BY <1>1, LenProperties, ElementOfSeq
  <2> QED
    BY <1>1, <2>1, FrameFacts
<1>3. first \in Seq(Nat)
  BY <1>1, BytesAssumption DEF Marker
<1>4. \A f : Solves(f) <=> f = [k \in 0 .. m |-> IF k = 0 THEN first ELSE f[k - 1] \o frame[k]]
  <2>1. ASSUME NEW f
        PROVE  [k \in 0 .. m |-> IF k = 0 THEN <<Marker>> ELSE f[k - 1] \o Frame(segments[k])]
                = [k \in 0 .. m |-> IF k = 0 THEN first ELSE f[k - 1] \o frame[k]]
    <3>1. \A k \in 0 .. m : k # 0 => k \in 1 .. m
      BY <1>2
    <3>2. \A k \in 0 .. m : (IF k = 0 THEN <<Marker>> ELSE f[k - 1] \o Frame(segments[k]))
                                = IF k = 0 THEN first ELSE f[k - 1] \o frame[k]
      BY <1>1, <1>2, <3>1, Zenon
    <3> QED
      BY <3>2, Zenon
  <2> QED
    BY <1>1, <2>1, Zenon
<1> HIDE DEF Solves
<1>5. PICK D, step : /\ D = Seq(Nat)
                     /\ step = [k \in 1 .. m |-> [key \in D |-> key \o frame[k]]]
  OBVIOUS
<1>6. \A k \in 1 .. m : \A key \in D : /\ step[k][key] = key \o frame[k]
                                      /\ key \o frame[k] \in D
  BY <1>2, <1>5, DigitsTogether
<1>7. PICK f : Iterates(f, m, D, first, step)
  <2>1. first \in D /\ \A k \in 1 .. m : \A key \in D : step[k][key] \in D
    BY <1>3, <1>5, <1>6
  <2> QED
    BY <1>2, <2>1, Iteration
<1>8. f \in [0 .. m -> D] /\ f[0] = first /\ \A k \in 1 .. m : f[k] = step[k][f[k - 1]]
  BY <1>7 DEF Iterates
<1>9. ASSUME NEW k \in 1 .. m PROVE f[k] = f[k - 1] \o frame[k]
  <2>1. k - 1 \in 0 .. m
    BY <1>2
  <2>2. f[k - 1] \in D
    BY <1>8, <2>1
  <2> QED
    BY <1>6, <1>8, <2>2
<1>10. Solves(f)
  <2>1. \A k \in 0 .. m : k # 0 => k \in 1 .. m
    BY <1>2
  <2>2. \A k \in 0 .. m : f[k] = IF k = 0 THEN first ELSE f[k - 1] \o frame[k]
    BY <1>8, <1>9, <2>1
  <2>3. f = [k \in 0 .. m |-> f[k]]
    BY <1>8
  <2>4. f = [k \in 0 .. m |-> IF k = 0 THEN first ELSE f[k - 1] \o frame[k]]
    BY <2>2, <2>3
  <2> QED
    BY <1>4, <2>4
<1>11. PICK v : v = Written(segments)
  OBVIOUS
<1>12. v = CHOOSE g : Solves(g)
  BY <1>11 DEF Written, Solves
<1>13. v = [k \in 0 .. m |-> IF k = 0 THEN first ELSE v[k - 1] \o frame[k]]
  <2>1. Solves(v)
    BY <1>10, <1>12
  <2> QED
    BY <1>4, <2>1
<1>14. v[0] = first /\ \A k \in 1 .. m : v[k] = v[k - 1] \o frame[k]
  <2>1. 0 \in 0 .. m /\ \A k \in 1 .. m : k \in 0 .. m /\ k # 0
    BY <1>2
  <2>2. \A k \in 0 .. m : v[k] = IF k = 0 THEN first ELSE v[k - 1] \o frame[k]
    BY <1>13
  <2> QED
    BY <2>1, <2>2
<1> DEFINE T == {k \in 0 .. m : v[k] \in D}
<1>15. 0 \in T
  BY <1>2, <1>3, <1>5, <1>14
<1>16. ASSUME NEW k \in 0 .. m - 1, k \in T PROVE k + 1 \in T
  <2>1. PICK j : j = k + 1
    OBVIOUS
  <2>2. j \in 1 .. m /\ j \in 0 .. m /\ j - 1 = k
    BY <1>2, <2>1
  <2>3. v[j] = v[k] \o frame[j] /\ v[k] \in D
    BY <1>14, <1>16, <2>2
  <2>4. v[j] \in D
    BY <1>6, <2>2, <2>3
  <2> QED
    BY <2>1, <2>2, <2>4
<1>17. \A k \in 0 .. m : k \in T
  <2> HIDE DEF T
  <2> QED
    BY <1>2, <1>15, <1>16, CountingUp
<1>18. \A k \in 0 .. m : v[k] \in Seq(Nat)
  BY <1>5, <1>17
<1> QED
  BY <1>1, <1>2, <1>11, <1>14, <1>18

\* Where in a key of segments the frame after the k-th begins.
Begins(segments, k) == Len(Written(segments)[k]) + 1

(* The frames follow each other.                                           *)
LEMMA BeginsFacts ==
    ASSUME NEW segments \in Seq(Text)
    PROVE  /\ \A k \in 0 .. Len(segments) : Begins(segments, k) \in Nat
           /\ Begins(segments, 0) = 2
           /\ \A k \in 1 .. Len(segments) :
                 Begins(segments, k) = Begins(segments, k - 1) + HeaderWidth + 2 * Len(segments[k])
           /\ \A j \in 0 .. Len(segments) : \A k \in j + 1 .. Len(segments) :
                 Begins(segments, j) < Begins(segments, k)
<1>1. PICK m, at : m = Len(segments) /\ at = [k \in 0 .. m |-> Begins(segments, k)]
  OBVIOUS
<1>2. m \in Nat /\ \A k \in 1 .. m : segments[k] \in Text /\ Len(segments[k]) \in Nat
  <2>1. m \in Nat /\ \A k \in 1 .. m : segments[k] \in Text
    BY <1>1, LenProperties, ElementOfSeq
  <2> QED
    BY <2>1, TextFacts
<1>3. HeaderWidth \in Nat \ {0}
  BY BytesAssumption
<1>4. \A k \in 0 .. m : at[k] = Begins(segments, k)
  BY <1>1
<1>5. \A k \in 0 .. m : at[k] \in Nat
  <2>1. \A k \in 0 .. m : Len(Written(segments)[k]) \in Nat
    BY <1>1, WrittenFacts, LenProperties
  <2> QED
    BY <1>4, <2>1 DEF Begins
<1>6. at[0] = 2
  <2>1. Len(<<Marker>>) = 1
    OBVIOUS
  <2>2. Len(Written(segments)[0]) = 1
    BY <2>1, WrittenFacts
  <2>3. Begins(segments, 0) = 2
    BY <2>2 DEF Begins
  <2>4. 0 \in 0 .. m
    BY <1>2
  <2> QED
    BY <1>4, <2>3, <2>4
<1>7. ASSUME NEW k \in 1 .. m PROVE at[k] = at[k - 1] + HeaderWidth + 2 * Len(segments[k])
  <2>1. PICK u, v, f : /\ u = Written(segments)[k - 1] /\ v = Written(segments)[k]
                       /\ f = Frame(segments[k])
    OBVIOUS
  <2>2. k - 1 \in 0 .. m /\ k \in 0 .. m
    BY <1>2
  <2>3. u \in Seq(Nat) /\ v = u \o f
    BY <1>1, <2>1, <2>2, WrittenFacts
  <2>4. f \in Seq(Nat) /\ Len(f) = HeaderWidth + 2 * Len(segments[k])
    BY <1>2, <2>1, FrameFacts
  <2>5. Len(v) = Len(u) + Len(f) /\ Len(u) \in Nat
    BY <2>3, <2>4, DigitsTogether, LenProperties
  <2>6. at[k] = Len(v) + 1 /\ at[k - 1] = Len(u) + 1
    BY <1>4, <2>1, <2>2 DEF Begins
  <2>7. PICK l : l = 2 * Len(segments[k])
    OBVIOUS
  <2>8. l \in Nat /\ Len(f) = HeaderWidth + l
    BY <1>2, <2>4, <2>7
  <2>9. at[k] = at[k - 1] + HeaderWidth + l
    BY <1>3, <2>5, <2>6, <2>8
  <2> QED
    BY <2>7, <2>9
<1>8. ASSUME NEW k \in 1 .. m PROVE at[k - 1] < at[k]
  <2>1. k - 1 \in 0 .. m
    BY <1>2
  <2>2. PICK x, y, l : x = at[k - 1] /\ y = at[k] /\ l = 2 * Len(segments[k])
    OBVIOUS
  <2>3. x \in Nat /\ y = x + HeaderWidth + l
    BY <1>5, <1>7, <2>1, <2>2
  <2>4. l \in Nat
    BY <1>2, <2>2
  <2>5. x < y
    BY <1>3, <2>3, <2>4
  <2> QED
    BY <2>2, <2>5
<1>9. ASSUME NEW j \in 0 .. m, NEW k \in j + 1 .. m PROVE at[j] < at[k]
  <2> DEFINE T == {d \in 0 .. m - j : d = 0 \/ at[j] < at[j + d]}
  <2>1. m - j \in Nat /\ 0 \in T
    BY <1>2
  <2>2. ASSUME NEW d \in 0 .. (m - j) - 1, d \in T PROVE d + 1 \in T
    <3>1. PICK e : e = d + 1
      OBVIOUS
    <3>2. /\ e \in 0 .. m - j /\ j + d \in 0 .. m /\ j + e \in 1 .. m /\ j + e \in 0 .. m
          /\ (j + e) - 1 = j + d
      BY <1>2, <3>1
    <3>3. at[j + d] < at[j + e] /\ at[j + d] \in Nat /\ at[j + e] \in Nat /\ at[j] \in Nat
      BY <1>5, <1>8, <3>2
    <3>4. j + d = j \/ at[j] < at[j + d]
      <4>1. d = 0 \/ at[j] < at[j + d]
        BY <2>2
      <4> QED
        BY <1>2, <4>1
    <3>5. at[j] < at[j + e]
      BY <3>3, <3>4
    <3> QED
      BY <3>1, <3>2, <3>5
  <2>3. \A d \in 0 .. m - j : d \in T
    <3> HIDE DEF T
    <3> QED
      BY <2>1, <2>2, CountingUp
  <2>4. k - j \in 0 .. m - j /\ k - j # 0 /\ j + (k - j) = k
    BY <1>2
  <2> QED
    BY <2>3, <2>4
<1>10. \A j \in 0 .. m : \A k \in j + 1 .. m : Begins(segments, j) < Begins(segments, k)
  <2>1. \A j \in 0 .. m : \A k \in j + 1 .. m : k \in 0 .. m
    BY <1>2
  <2> QED
    BY <1>4, <1>9, <2>1
<1>11. \A k \in 1 .. m :
         Begins(segments, k) = Begins(segments, k - 1) + HeaderWidth + 2 * Len(segments[k])
  <2>1. \A k \in 1 .. m : k \in 0 .. m /\ k - 1 \in 0 .. m
    BY <1>2
  <2> QED
    BY <1>4, <1>7, <2>1
<1>12. 0 \in 0 .. m
  BY <1>2
<1> QED
  BY <1>1, <1>4, <1>5, <1>6, <1>10, <1>11, <1>12

(* What a key of segments holds.                                           *)
LEMMA KeyReads ==
    ASSUME NEW segments \in Seq(Text), NEW n \in 0 .. Len(segments)
    PROVE  /\ Written(segments)[n] \in Seq(Nat)
           /\ Written(segments)[n][1] = Marker
           /\ Len(Written(segments)[n]) = Begins(segments, n) - 1
           /\ \A k \in 1 .. n : \A i \in 1 .. Len(Frame(segments[k])) :
                 Written(segments)[n][Begins(segments, k - 1) + i - 1] = Frame(segments[k])[i]
<1>1. PICK m, w, frame, at : /\ m = Len(segments) /\ w = Written(segments)
                             /\ frame = [k \in 1 .. m |-> Frame(segments[k])]
                             /\ at = [k \in 0 .. m |-> Begins(segments, k)]
  OBVIOUS
<1>2. /\ m \in Nat
      /\ \A k \in 1 .. m : /\ frame[k] \in Seq(Nat) /\ Len(frame[k]) \in Nat
                           /\ frame[k] = Frame(segments[k])
  <2>1. m \in Nat /\ \A k \in 1 .. m : segments[k] \in Text
    BY <1>1, LenProperties, ElementOfSeq
  <2>2. \A k \in 1 .. m : frame[k] \in Seq(Nat)
    BY <1>1, <2>1, FrameFacts
  <2> QED
    BY <1>1, <2>1, <2>2, LenProperties
<1>3. /\ \A k \in 0 .. m : w[k] \in Seq(Nat) /\ Len(w[k]) \in Nat
      /\ w[0] = <<Marker>>
      /\ \A k \in 1 .. m : w[k] = w[k - 1] \o frame[k]
  <2>1. \A k \in 0 .. m : w[k] \in Seq(Nat)
    BY <1>1, WrittenFacts
  <2>2. w[0] = <<Marker>>
    BY <1>1, WrittenFacts
  <2>3. \A k \in 1 .. m : w[k] = w[k - 1] \o frame[k]
    BY <1>1, <1>2, WrittenFacts
  <2> QED
    BY <2>1, <2>2, <2>3, LenProperties
<1>4. \A k \in 0 .. m : at[k] = Len(w[k]) + 1
  BY <1>1 DEF Begins
<1> DEFINE Holds(j, k, i) == /\ at[k - 1] + i - 1 \in 1 .. Len(w[j])
                             /\ w[j][at[k - 1] + i - 1] = frame[k][i]
           T == {j \in 0 .. m : /\ Len(w[j]) >= 1 /\ w[j][1] = Marker
                                /\ \A k \in 1 .. j : \A i \in 1 .. Len(frame[k]) : Holds(j, k, i)}
<1>5. 0 \in T
  <2>1. PICK u : u = w[0]
    OBVIOUS
  <2>2. Len(u) = 1 /\ u[1] = Marker
    BY <1>3, <2>1
  <2>3. 0 \in 0 .. m /\ 1 .. 0 = {}
    BY <1>2
  <2> QED
    BY <2>1, <2>2, <2>3
<1>6. ASSUME NEW j \in 0 .. m - 1, j \in T PROVE j + 1 \in T
  <2>1. PICK h, u, v, f : h = j + 1 /\ u = w[j] /\ v = w[h] /\ f = frame[h]
    OBVIOUS
  <2>2. h \in 1 .. m /\ h \in 0 .. m /\ h - 1 = j /\ j \in 0 .. m
    BY <1>2, <2>1
  <2>3. /\ u \in Seq(Nat) /\ v \in Seq(Nat) /\ f \in Seq(Nat) /\ v = u \o f
        /\ Len(u) \in Nat /\ Len(f) \in Nat
    BY <1>2, <1>3, <2>1, <2>2
  <2>4. /\ Len(v) = Len(u) + Len(f)
        /\ \A i \in 1 .. Len(u) : v[i] = u[i]
        /\ \A i \in 1 .. Len(f) : v[Len(u) + i] = f[i]
    BY <2>3, DigitsTogether
  <2>5. /\ Len(u) >= 1 /\ u[1] = Marker
        /\ \A k \in 1 .. j : \A i \in 1 .. Len(frame[k]) : Holds(j, k, i)
    BY <1>6, <2>1
  <2>6. Len(v) >= 1 /\ v[1] = Marker
    BY <2>3, <2>4, <2>5
  <2>7. ASSUME NEW k \in 1 .. h, NEW i \in 1 .. Len(frame[k]) PROVE Holds(h, k, i)
    <3>1. CASE k \in 1 .. j
      <4>1. at[k - 1] + i - 1 \in 1 .. Len(u) /\ u[at[k - 1] + i - 1] = frame[k][i]
        BY <2>1, <2>5, <3>1
      <4>2. PICK p : p = at[k - 1] + i - 1
        OBVIOUS
      <4>3. p \in 1 .. Len(v) /\ v[p] = frame[k][i]
        BY <2>3, <2>4, <4>1, <4>2
      <4> QED
        BY <2>1, <4>2, <4>3
    <3>2. CASE k = h
      <4>1. at[k - 1] = Len(u) + 1
        BY <1>4, <2>1, <2>2, <3>2
      <4>2. i \in 1 .. Len(f)
        BY <2>1, <3>2
      <4>3. at[k - 1] + i - 1 = Len(u) + i /\ Len(u) + i \in 1 .. Len(v)
        BY <2>3, <2>4, <4>1, <4>2
      <4>4. v[Len(u) + i] = f[i]
        BY <2>4, <4>2
      <4> QED
        BY <2>1, <3>2, <4>3, <4>4
    <3> QED
      BY <2>1, <2>2, <3>1, <3>2
  <2> HIDE DEF Holds
  <2> QED
    BY <2>1, <2>2, <2>6, <2>7
<1>7. \A j \in 0 .. m : j \in T
  <2> HIDE DEF T
  <2> QED
    BY <1>2, <1>5, <1>6, CountingUp
<1>8. /\ n \in 0 .. m /\ w[n] \in Seq(Nat) /\ w[n][1] = Marker /\ Len(w[n]) = at[n] - 1
      /\ \A k \in 1 .. n : \A i \in 1 .. Len(frame[k]) : w[n][at[k - 1] + i - 1] = frame[k][i]
  <2>1. n \in 0 .. m
    BY <1>1
  <2>2. n \in T
    BY <1>7, <2>1
  <2>3. w[n] \in Seq(Nat) /\ Len(w[n]) = at[n] - 1
    BY <1>3, <1>4, <2>1
  <2>4. /\ w[n][1] = Marker
        /\ \A k \in 1 .. n : \A i \in 1 .. Len(frame[k]) : Holds(n, k, i)
    <3> HIDE DEF Holds
    <3> QED
      BY <2>2
  <2> QED
    BY <2>1, <2>3, <2>4
<1>9. \A k \in 1 .. n : k \in 1 .. m /\ k - 1 \in 0 .. m
  BY <1>2, <1>8
<1> QED
  BY <1>1, <1>2, <1>8, <1>9

(* What is read of digits is text.                                         *)
LEMMA UnhexFacts ==
    ASSUME NEW digits \in Seq(Nat)
    PROVE  Unhex(digits) \subseteq Text
<1> DEFINE value(k) == digits[2 * k - 1] * Base + digits[2 * k]
           half == Len(digits) \div 2
           read == [k \in 1 .. half |-> CHOOSE c \in Chars : Byte[c] = value(k)]
<1>1. Unhex(digits) = {} \/ (/\ \A k \in 1 .. half : \E c \in Chars : Byte[c] = value(k)
                             /\ Unhex(digits) = {read})
  BY Zenon DEF Unhex
<1>2. half \in Nat
  <2>1. Len(digits) \in Nat
    BY LenProperties
  <2> QED
    BY <2>1
<1>3. ASSUME \A k \in 1 .. half : \E c \in Chars : Byte[c] = value(k) PROVE read \in Seq(Chars)
  <2>1. \A k \in 1 .. half : (CHOOSE c \in Chars : Byte[c] = value(k)) \in Chars
    BY <1>3, Zenon
  <2>2. read \in [1 .. half -> Chars]
    BY <2>1, Zenon
  <2> HIDE DEF read, half
  <2> QED
    BY <1>2, <2>2
<1> QED
  BY <1>1, <1>3, Zenon DEF Text

(* A part of a run of digits.                                              *)
LEMMA DigitsPart ==
    ASSUME NEW key \in Seq(Nat), NEW m \in 1 .. Len(key) + 1, NEW n \in m - 1 .. Len(key)
    PROVE  /\ SubSeq(key, m, n) \in Seq(Nat)
           /\ Len(SubSeq(key, m, n)) = n - m + 1
           /\ \A k \in 1 .. n - m + 1 : SubSeq(key, m, n)[k] = key[m + k - 1]
<1>1. PICK N : N = Nat
  OBVIOUS
<1>2. key \in Seq(N)
  BY <1>1
<1>3. /\ SubSeq(key, m, n) \in Seq(N)
      /\ Len(SubSeq(key, m, n)) = n - m + 1
      /\ \A k \in 1 .. n - m + 1 : SubSeq(key, m, n)[k] = key[m + k - 1]
  BY <1>2, PartFacts
<1> QED
  BY <1>1, <1>3

(* A turn of the loop goes on, with a text.                                *)
LEMMA EndsAtFacts ==
    ASSUME NEW key \in Seq(Nat), NEW cursor \in 2 .. Len(key), NEW end \in EndsAt(key, cursor)
    PROVE  /\ end \in cursor + 1 .. Len(key) + 1
           /\ SegmentsAt(key, cursor, end) \subseteq Text
<1>1. PICK n, body : n = Len(key) /\ body = cursor + HeaderWidth
  OBVIOUS
<1>2. n \in Nat /\ HeaderWidth \in Nat \ {0} /\ cursor \in 2 .. n /\ body \in Nat
  BY <1>1, BytesAssumption, LenProperties
<1>3. ~(body > n + 1)
  BY <1>1 DEF EndsAt
<1>4. PICK digits, e : digits = SubSeq(key, cursor, e) /\ e = body - 1
  OBVIOUS
<1>5. end <= n + 1 /\ \E l \in Number(digits) : end = body + 2 * l
  BY <1>1, <1>3, <1>4 DEF EndsAt
<1>6. digits \in Seq(Nat)
  <2>1. cursor \in 1 .. Len(key) + 1 /\ e \in cursor - 1 .. Len(key)
    BY <1>1, <1>2, <1>3, <1>4
  <2> QED
    BY <1>4, <2>1, DigitsPart
<1>7. PICK l \in Number(digits) : end = body + 2 * l
  BY <1>5
<1>8. l \in Nat
  <2>1. l = Values(digits)[Len(digits)]
    BY <1>7 DEF Number
  <2>2. Len(digits) \in 0 .. Len(digits)
    BY <1>6, LenProperties
  <2> QED
    BY <1>6, <2>1, <2>2, ValuesFacts
<1>9. end \in cursor + 1 .. n + 1 /\ end >= body
  BY <1>1, <1>2, <1>5, <1>7, <1>8
<1>10. SegmentsAt(key, cursor, end) \subseteq Text
  <2>1. PICK f : f = end - 1
    OBVIOUS
  <2>2. body \in 1 .. Len(key) + 1 /\ f \in body - 1 .. Len(key)
    BY <1>1, <1>2, <1>3, <1>9, <2>1
  <2>3. SubSeq(key, body, f) \in Seq(Nat)
    BY <2>2, DigitsPart
  <2> QED
    BY <1>1, <2>1, <2>3, UnhexFacts DEF SegmentsAt
<1> QED
  BY <1>1, <1>9, <1>10

(* What putting each of some segments before each of some runs makes.      *)
LEMMA PrependTyped ==
    ASSUME NEW A \in SUBSET Text, NEW B \in SUBSET Seq(Text)
    PROVE  Prepend(A, B) \in SUBSET Seq(Text)
<1>1. ASSUME NEW run \in Prepend(A, B) PROVE run \in Seq(Text)
  <2>1. PICK segment \in A, rest \in B : run = <<segment>> \o rest
    BY DEF Prepend
  <2>2. PICK first : first = <<segment>>
    OBVIOUS
  <2>3. first \in Seq(Text) /\ rest \in Seq(Text)
    BY <2>2
  <2>4. first \o rest \in Seq(Text)
    BY <2>3, TogetherFacts
  <2> QED
    BY <2>1, <2>2, <2>4
<1> QED
  BY <1>1

(* What putting one segment before each of some runs makes.                *)
LEMMA PrependOne ==
    ASSUME NEW s, NEW B
    PROVE  Prepend({s}, B) = {<<s>> \o b : b \in B}
BY DEF Prepend

(* What a key frames from a cursor on.                                     *)
LEMMA FramedFacts ==
    ASSUME NEW key \in Seq(Nat), Len(key) >= 1
    PROVE  /\ FramedFrom(key)[Len(key) + 1] = {<<>>}
           /\ \A cursor \in 2 .. Len(key) :
                 FramedFrom(key)[cursor]
                    = UNION {Prepend(SegmentsAt(key, cursor, end), FramedFrom(key)[end]) : end \in EndsAt(key, cursor)}
<1>1. PICK n, S, D : n = Len(key) /\ S = 2 .. n + 1 /\ D = SUBSET Seq(Text)
  OBVIOUS
<1>2. n \in Nat /\ n >= 1
  BY <1>1, LenProperties
<1> DEFINE turn(g, cursor) == IF cursor = Len(key) + 1 THEN {<<>>}
                              ELSE UNION {Prepend(SegmentsAt(key, cursor, end), g[end]) : end \in EndsAt(key, cursor)}
           Solves(f) == f = [cursor \in 2 .. Len(key) + 1 |-> turn(f, cursor)]
<1>3. PICK step, size : /\ step = [cursor \in S |-> [g \in [S -> D] |-> turn(g, cursor)]]
                        /\ size = [cursor \in S |-> n + 1 - cursor]
  OBVIOUS
<1>4. ASSUME NEW cursor \in S, cursor # n + 1, NEW end \in EndsAt(key, cursor)
      PROVE  SegmentsAt(key, cursor, end) \subseteq Text /\ end \in S /\ size[end] < size[cursor]
  <2>1. cursor \in 2 .. Len(key)
    BY <1>1, <1>2, <1>4
  <2>2. SegmentsAt(key, cursor, end) \subseteq Text /\ end \in cursor + 1 .. n + 1
    BY <1>1, <2>1, EndsAtFacts
  <2>3. end \in S /\ n + 1 - end < n + 1 - cursor
    BY <1>1, <1>2, <2>1, <2>2
  <2> QED
    BY <1>3, <2>2, <2>3
<1>5. ASSUME NEW cursor \in S, NEW g \in [S -> D] PROVE turn(g, cursor) \in D
  <2>1. {<<>>} \in SUBSET Seq(Text)
    OBVIOUS
  <2>2. ASSUME cursor # n + 1, NEW end \in EndsAt(key, cursor)
        PROVE  Prepend(SegmentsAt(key, cursor, end), g[end]) \in SUBSET Seq(Text)
    <3>1. SegmentsAt(key, cursor, end) \subseteq Text /\ g[end] \in SUBSET Seq(Text)
      BY <1>1, <1>4, <2>2
    <3> QED
      BY <3>1, PrependTyped
  <2>3. cursor # n + 1 => UNION {Prepend(SegmentsAt(key, cursor, end), g[end]) : end \in EndsAt(key, cursor)} \in SUBSET Seq(Text)
    BY <2>2
  <2> QED
    BY <1>1, <2>1, <2>3
<1>6. \A cursor \in S : \A g \in [S -> D] : step[cursor][g] = turn(g, cursor)
  BY <1>3
<1>7. ASSUME NEW cursor \in S, NEW g \in [S -> D], NEW h \in [S -> D],
             \A y \in S : size[y] < size[cursor] => g[y] = h[y]
      PROVE  turn(g, cursor) = turn(h, cursor)
  <2>1. ASSUME cursor # n + 1, NEW end \in EndsAt(key, cursor)
        PROVE  Prepend(SegmentsAt(key, cursor, end), g[end]) = Prepend(SegmentsAt(key, cursor, end), h[end])
    <3>1. g[end] = h[end]
      BY <1>4, <1>7, <2>1
    <3> QED
      BY <3>1 DEF Prepend
  <2>2. cursor # n + 1 => {Prepend(SegmentsAt(key, cursor, end), g[end]) : end \in EndsAt(key, cursor)}
                             = {Prepend(SegmentsAt(key, cursor, end), h[end]) : end \in EndsAt(key, cursor)}
    BY <2>1
  <2> QED
    BY <1>1, <2>2
<1>8. PICK f : Recurses(f, S, D, step)
  <2>1. {} \in D
    BY <1>1
  <2>2. \A cursor \in S : size[cursor] \in 0 .. n
    BY <1>1, <1>2, <1>3
  <2>3. \A cursor \in S : \A g \in [S -> D] : step[cursor][g] \in D
    <3> HIDE DEF turn
    <3> QED
      BY <1>5, <1>6
  <2>4. \A cursor \in S : \A g, h \in [S -> D] :
           (\A y \in S : size[y] < size[cursor] => g[y] = h[y]) => step[cursor][g] = step[cursor][h]
    <3> HIDE DEF turn
    <3> QED
      BY <1>6, <1>7
  <2>5. Grounded(S, D, n, size, step)
    BY <2>2, <2>3, <2>4 DEF Grounded
  <2> QED
    BY <1>2, <2>1, <2>5, Recursion
<1>9. Solves(f)
  <2>1. f \in [S -> D] /\ \A cursor \in S : f[cursor] = step[cursor][f]
    BY <1>8 DEF Recurses
  <2> HIDE DEF turn
  <2>2. \A cursor \in S : f[cursor] = turn(f, cursor)
    BY <1>6, <2>1
  <2>3. f = [cursor \in S |-> f[cursor]]
    BY <2>1
  <2> QED
    BY <1>1, <2>2, <2>3
<1>10. PICK v : v = FramedFrom(key)
  OBVIOUS
<1>11. v = CHOOSE g : Solves(g)
  BY <1>10 DEF FramedFrom
<1>12. Solves(v)
  <2> HIDE DEF Solves
  <2> QED
    BY <1>9, <1>11
<1>13. \A cursor \in S : v[cursor] = turn(v, cursor)
  <2> HIDE DEF turn
  <2> QED
    BY <1>1, <1>12
<1>14. v[n + 1] = {<<>>}
  <2>1. n + 1 \in S
    BY <1>1, <1>2
  <2> QED
    BY <1>1, <1>13, <2>1
<1>15. \A cursor \in 2 .. n : v[cursor] = UNION {Prepend(SegmentsAt(key, cursor, end), v[end]) : end \in EndsAt(key, cursor)}
  <2>1. \A cursor \in 2 .. n : cursor \in S /\ cursor # n + 1
    BY <1>1, <1>2
  <2> QED
    BY <1>1, <1>13, <2>1
<1> QED
  BY <1>1, <1>10, <1>14, <1>15

(* A turn of the loop reads the frame at the cursor, if the key holds it   *)
(* whole, and nothing if it holds the beginning of it.                     *)
LEMMA FrameComesBack ==
    ASSUME NEW key \in Seq(Nat), NEW cursor \in 2 .. Len(key), NEW s \in Text, Fits(Len(s)),
           \A i \in 1 .. Len(Frame(s)) :
              cursor + i - 1 <= Len(key) => key[cursor + i - 1] = Frame(s)[i]
    PROVE  /\ EndsAt(key, cursor) = {end \in {cursor + Len(Frame(s))} : end <= Len(key) + 1}
           /\ cursor + Len(Frame(s)) <= Len(key) + 1 =>
                 SegmentsAt(key, cursor, cursor + Len(Frame(s))) = {s}
<1>1. PICK n, m, body : n = Len(key) /\ m = Len(s) /\ body = cursor + HeaderWidth
  OBVIOUS
<1>2. n \in Nat /\ m \in Nat /\ HeaderWidth \in Nat \ {0} /\ cursor \in 2 .. n /\ body \in Nat
  BY <1>1, LenProperties, TextFacts, BytesAssumption
<1>3. PICK l : l = 2 * m
  OBVIOUS
<1>4. /\ l \in Nat /\ Len(Frame(s)) = HeaderWidth + l
      /\ \A i \in 1 .. HeaderWidth : Frame(s)[i] = Digits(m, HeaderWidth)[i]
      /\ \A i \in 1 .. l : Frame(s)[HeaderWidth + i] = Hex(s)[i]
  <2>1. l \in Nat
    BY <1>2, <1>3
  <2>2. Len(Frame(s)) = HeaderWidth + l
    BY <1>1, <1>3, FrameFacts
  <2>3. \A i \in 1 .. HeaderWidth : Frame(s)[i] = Digits(m, HeaderWidth)[i]
    BY <1>1, FrameFacts
  <2>4. \A i \in 1 .. l : Frame(s)[HeaderWidth + i] = Hex(s)[i]
    BY <1>1, <1>3, FrameFacts
  <2> QED
    BY <2>1, <2>2, <2>3, <2>4
<1>5. \A i \in 1 .. HeaderWidth + l :
         cursor + i - 1 <= n => key[cursor + i - 1] = Frame(s)[i]
  BY <1>1, <1>4
<1>6. CASE body > n + 1
  <2>1. EndsAt(key, cursor) = {}
    BY <1>1, <1>6 DEF EndsAt
  <2>2. ~(cursor + Len(Frame(s)) <= n + 1)
    BY <1>1, <1>2, <1>4, <1>6
  <2> QED
    BY <1>1, <2>1, <2>2
<1>7. CASE body <= n + 1
  <2>1. PICK header, e : header = SubSeq(key, cursor, e) /\ e = body - 1
    OBVIOUS
  <2>2. header = Digits(m, HeaderWidth)
    <3>1. cursor \in 1 .. Len(key) + 1 /\ e \in cursor - 1 .. Len(key)
      BY <1>1, <1>2, <1>7, <2>1
    <3>2. /\ header \in Seq(Nat) /\ Len(header) = e - cursor + 1
          /\ \A k \in 1 .. e - cursor + 1 : header[k] = key[cursor + k - 1]
      BY <2>1, <3>1, DigitsPart
    <3>3. e - cursor + 1 = HeaderWidth
      BY <1>1, <1>2, <2>1
    <3>4. PICK d : d = Digits(m, HeaderWidth)
      OBVIOUS
    <3>5. d \in Seq(Nat) /\ Len(d) = HeaderWidth
      BY <1>2, <3>4, DigitsFacts
    <3>6. ASSUME NEW i \in 1 .. HeaderWidth PROVE header[i] = d[i]
      <4>1. i \in 1 .. HeaderWidth + l /\ cursor + i - 1 <= n
        BY <1>1, <1>2, <1>4, <1>7
      <4>2. header[i] = key[cursor + i - 1]
        BY <3>2, <3>3
      <4> QED
        BY <1>4, <1>5, <3>4, <4>1, <4>2
    <3>7. header = d
      BY <3>2, <3>3, <3>5, <3>6, SeqEqual
    <3> QED
      BY <3>4, <3>7
  <2>3. Number(header) = {m}
    <3>1. Quotients(m, HeaderWidth)[HeaderWidth] = 0
      BY <1>1 DEF Fits
    <3> QED
      BY <1>2, <2>2, <3>1, NumberComesBack
  <2>4. PICK end : end = body + l
    OBVIOUS
  <2>5. EndsAt(key, cursor) = {f \in {end} : f <= n + 1}
    <3>1. EndsAt(key, cursor) = {f \in {body + 2 * k : k \in Number(header)} : f <= n + 1}
      <4>1. ~(body > n + 1)
        BY <1>2, <1>7
      <4> QED
        BY <1>1, <2>1, <4>1 DEF EndsAt
    <3>2. {body + 2 * k : k \in Number(header)} = {end}
      BY <1>3, <2>3, <2>4
    <3> QED
      BY <3>1, <3>2
  <2>6. end = cursor + Len(Frame(s))
    BY <1>1, <1>2, <1>4, <2>4
  <2>7. ASSUME end <= n + 1 PROVE SegmentsAt(key, cursor, end) = {s}
    <3>1. PICK bytes, f : bytes = SubSeq(key, body, f) /\ f = end - 1
      OBVIOUS
    <3>2. bytes = Hex(s)
      <4>1. body \in 1 .. Len(key) + 1 /\ f \in body - 1 .. Len(key)
        BY <1>1, <1>2, <1>4, <1>7, <2>4, <2>7, <3>1
      <4>2. /\ bytes \in Seq(Nat) /\ Len(bytes) = f - body + 1
            /\ \A k \in 1 .. f - body + 1 : bytes[k] = key[body + k - 1]
        BY <3>1, <4>1, DigitsPart
      <4>3. f - body + 1 = l
        BY <1>2, <1>4, <2>4, <3>1
      <4>4. PICK h : h = Hex(s)
        OBVIOUS
      <4>5. h \in Seq(Nat) /\ Len(h) = l
        BY <1>1, <1>3, <4>4, HexFacts
      <4>6. ASSUME NEW i \in 1 .. l PROVE bytes[i] = h[i]
        <5>1. PICK j : j = HeaderWidth + i
          OBVIOUS
        <5>2. j \in 1 .. HeaderWidth + l /\ cursor + j - 1 <= n /\ cursor + j - 1 = body + i - 1
          BY <1>1, <1>2, <1>4, <2>4, <2>7, <5>1
        <5>3. bytes[i] = key[body + i - 1]
          BY <4>2, <4>3
        <5> QED
          BY <1>4, <1>5, <4>4, <5>1, <5>2, <5>3
      <4>7. bytes = h
        BY <4>2, <4>3, <4>5, <4>6, SeqEqual
      <4> QED
        BY <4>4, <4>7
    <3>3. Unhex(bytes) = {s}
      BY <3>2, DigitsComeBack
    <3> QED
      BY <1>1, <3>1, <3>3 DEF SegmentsAt
  <2> QED
    BY <1>1, <2>5, <2>6, <2>7
<1> QED
  BY <1>2, <1>6, <1>7

(* A part of a sequence begins with its first element.                     *)
LEMMA PartBegins ==
    ASSUME NEW S, NEW s \in Seq(S), NEW a \in 1 .. Len(s), NEW b \in a .. Len(s)
    PROVE  SubSeq(s, a, b) = <<s[a]>> \o SubSeq(s, a + 1, b)
<1>1. Len(s) \in Nat /\ s[a] \in S
  BY LenProperties, ElementOfSeq
<1>2. PICK whole, c, rest, first :
         whole = SubSeq(s, a, b) /\ c = a + 1 /\ rest = SubSeq(s, c, b) /\ first = <<s[a]>>
  OBVIOUS
<1>3. /\ whole \in Seq(S) /\ Len(whole) = b - a + 1
      /\ \A k \in 1 .. b - a + 1 : whole[k] = s[a + k - 1]
  <2>1. a \in 1 .. Len(s) + 1 /\ b \in a - 1 .. Len(s)
    BY <1>1
  <2> QED
    BY <1>2, <2>1, PartFacts
<1>4. /\ rest \in Seq(S) /\ Len(rest) = b - a
      /\ \A k \in 1 .. b - a : rest[k] = s[a + k]
  <2>1. c \in 1 .. Len(s) + 1 /\ b \in c - 1 .. Len(s) /\ b - c + 1 = b - a
    BY <1>1, <1>2
  <2>2. /\ rest \in Seq(S) /\ Len(rest) = b - c + 1
        /\ \A k \in 1 .. b - c + 1 : rest[k] = s[c + k - 1]
    BY <1>2, <2>1, PartFacts
  <2>3. \A k \in 1 .. b - a : c + k - 1 = a + k
    BY <1>1, <1>2
  <2> QED
    BY <2>1, <2>2, <2>3
<1>5. first \in Seq(S) /\ Len(first) = 1 /\ first[1] = s[a]
  BY <1>1, <1>2, ShortTexts
<1>6. PICK both : both = first \o rest
  OBVIOUS
<1>7. /\ both \in Seq(S) /\ Len(both) = 1 + (b - a)
      /\ both[1] = s[a]
      /\ \A k \in 1 .. b - a : both[1 + k] = rest[k]
  <2>1. /\ both \in Seq(S) /\ Len(both) = Len(first) + Len(rest)
        /\ \A k \in 1 .. Len(first) : both[k] = first[k]
        /\ \A k \in 1 .. Len(rest) : both[Len(first) + k] = rest[k]
    <3>1. /\ first \o rest \in Seq(S) /\ Len(first \o rest) = Len(first) + Len(rest)
          /\ \A k \in 1 .. Len(first) : (first \o rest)[k] = first[k]
          /\ \A k \in 1 .. Len(rest) : (first \o rest)[Len(first) + k] = rest[k]
      <4>1. first \in Seq(S) /\ rest \in Seq(S)
        BY <1>4, <1>5
      <4> QED
        BY <4>1, TogetherFacts
    <3> QED
      BY <1>6, <3>1, Zenon
  <2> QED
    BY <1>4, <1>5, <2>1
<1>8. ASSUME NEW k \in 1 .. b - a + 1 PROVE whole[k] = both[k]
  <2>1. whole[k] = s[a + k - 1]
    BY <1>3
  <2>2. CASE k = 1
    BY <1>1, <1>7, <2>1, <2>2
  <2>3. CASE k # 1
    <3>1. PICK j : j = k - 1
      OBVIOUS
    <3>2. j \in 1 .. b - a /\ k = 1 + j /\ a + k - 1 = a + j
      BY <1>1, <2>3, <3>1
    <3> QED
      BY <1>4, <1>7, <2>1, <3>2
  <2> QED
    BY <2>2, <2>3
<1>9. whole = both
  <2>1. b - a + 1 = 1 + (b - a)
    BY <1>1
  <2> QED
    BY <1>3, <1>7, <1>8, <2>1, SeqEqual
<1> QED
  BY <1>2, <1>6, <1>9

\* The places in the segments a key that ends there frames.
Wholes(segments, k, cut) == {j \in k .. Len(segments) : Begins(segments, j) = cut + 1}

(* A key, whole or cut short, frames its segments up to the cut, and       *)
(* nothing if the cut is inside a frame.                                   *)
LEMMA CutKeyFrames ==
    ASSUME NEW segments \in Seq(Text), \A k \in 1 .. Len(segments) : Fits(Len(segments[k])),
           NEW key, key = Written(segments)[Len(segments)],
           NEW cut \in 1 .. Len(key)
    PROVE  FramedFrom(SubSeq(key, 1, cut))[2]
              = {SubSeq(segments, 1, j) : j \in Wholes(segments, 0, cut)}
<1>1. PICK m, part, framed, at :
         /\ m = Len(segments) /\ part = SubSeq(key, 1, cut) /\ framed = FramedFrom(part)
         /\ at = [k \in 0 .. m |-> Begins(segments, k)]
  OBVIOUS
<1>2. m \in Nat /\ \A k \in 1 .. m : segments[k] \in Text
  BY <1>1, LenProperties, ElementOfSeq
<1>3. /\ key \in Seq(Nat) /\ Len(key) \in Nat /\ Len(key) = at[m] - 1
      /\ \A k \in 1 .. m : \A i \in 1 .. Len(Frame(segments[k])) :
            key[at[k - 1] + i - 1] = Frame(segments[k])[i]
  <2>1. m \in 0 .. Len(segments) /\ m \in 0 .. m
    BY <1>1, <1>2
  <2>2. key \in Seq(Nat) /\ Len(key) = at[m] - 1
    BY <1>1, <2>1, KeyReads
  <2>3. \A k \in 1 .. m : k - 1 \in 0 .. m
    BY <1>2
  <2>4. \A k \in 1 .. m : \A i \in 1 .. Len(Frame(segments[k])) :
            key[at[k - 1] + i - 1] = Frame(segments[k])[i]
    BY <1>1, <2>1, <2>3, KeyReads
  <2> QED
    BY <2>2, <2>4, LenProperties
<1>4. /\ part \in Seq(Nat) /\ Len(part) = cut /\ cut \in Nat /\ cut >= 1
      /\ \A i \in 1 .. cut : part[i] = key[i]
  <2>1. 1 \in 1 .. Len(key) + 1 /\ cut \in 1 - 1 .. Len(key)
    BY <1>3
  <2>2. /\ part \in Seq(Nat) /\ Len(part) = cut - 1 + 1
        /\ \A i \in 1 .. cut - 1 + 1 : part[i] = key[1 + i - 1]
    BY <1>1, <1>3, <2>1, DigitsPart
  <2>3. cut \in Nat /\ cut >= 1 /\ cut - 1 + 1 = cut /\ \A i \in 1 .. cut : 1 + i - 1 = i
    BY <1>3
  <2> QED
    BY <2>2, <2>3
<1>5. /\ framed[cut + 1] = {<<>>}
      /\ \A cursor \in 2 .. cut :
            framed[cursor] = UNION {Prepend(SegmentsAt(part, cursor, end), framed[end]) :
                                       end \in EndsAt(part, cursor)}
  <2>1. part \in Seq(Nat) /\ Len(part) >= 1
    BY <1>4
  <2>2. /\ FramedFrom(part)[Len(part) + 1] = {<<>>}
        /\ \A cursor \in 2 .. Len(part) :
              FramedFrom(part)[cursor] = UNION {Prepend(SegmentsAt(part, cursor, end), FramedFrom(part)[end]) :
                                                   end \in EndsAt(part, cursor)}
    BY <2>1, FramedFacts
  <2> QED
    BY <1>1, <1>4, <2>2
<1>6. /\ \A k \in 0 .. m : at[k] \in Nat
      /\ at[0] = 2
      /\ \A k \in 1 .. m : at[k] = at[k - 1] + Len(Frame(segments[k]))
      /\ \A j \in 0 .. m : \A k \in j + 1 .. m : at[j] < at[k]
  <2>1. /\ \A k \in 1 .. m : k \in 0 .. m /\ k - 1 \in 0 .. m
        /\ \A j \in 0 .. m : \A k \in j + 1 .. m : k \in 0 .. m
        /\ 0 \in 0 .. m
    BY <1>2
  <2>2. \A k \in 0 .. m : at[k] = Begins(segments, k)
    BY <1>1
  <2>3. ASSUME NEW k \in 1 .. m PROVE at[k] = at[k - 1] + Len(Frame(segments[k]))
    <3>1. PICK l : l = 2 * Len(segments[k])
      OBVIOUS
    <3>2. at[k] = at[k - 1] + HeaderWidth + l
      BY <1>1, <2>1, <2>2, <3>1, BeginsFacts
    <3>3. Len(Frame(segments[k])) = HeaderWidth + l /\ l \in Nat /\ HeaderWidth \in Nat
      <4>1. PICK s : s = segments[k]
        OBVIOUS
      <4>2. s \in Text
        BY <1>2, <4>1
      <4>3. Len(Frame(s)) = HeaderWidth + 2 * Len(s) /\ Len(s) \in Nat
        BY <4>2, FrameFacts, TextFacts
      <4> QED
        BY <3>1, <4>1, <4>3, BytesAssumption
    <3>4. at[k - 1] \in Nat
      BY <1>1, <2>1, <2>2, BeginsFacts
    <3> QED
      BY <3>2, <3>3, <3>4
  <2>4. \A k \in 0 .. m : at[k] \in Nat
    BY <1>1, <2>2, BeginsFacts
  <2>5. \A j \in 0 .. m : \A k \in j + 1 .. m : at[j] < at[k]
    BY <1>1, <2>1, <2>2, BeginsFacts
  <2> QED
    BY <2>1, <2>2, <2>3, <2>4, <2>5, BeginsFacts
<1>7. \A k \in 0 .. m : Wholes(segments, k, cut) = {j \in k .. m : at[j] = cut + 1}
  <2>1. \A k \in 0 .. m : \A j \in k .. m : at[j] = Begins(segments, j)
    BY <1>1, <1>2
  <2> QED
    BY <1>1, <2>1 DEF Wholes
<1> DEFINE T == {k \in 0 .. m :
                    at[k] <= cut + 1 =>
                       framed[at[k]] = {SubSeq(segments, k + 1, j) : j \in Wholes(segments, k, cut)}}
<1>8. ASSUME NEW k \in 0 .. m, at[k] = cut + 1 PROVE k \in T
  <2>1. Wholes(segments, k, cut) = {k}
    <3>1. ASSUME NEW j \in k .. m, at[j] = cut + 1 PROVE j = k
      <4>1. j # k => j \in k + 1 .. m
        BY <1>2
      <4> QED
        BY <1>6, <1>8, <3>1, <4>1
    <3>2. k \in k .. m
      BY <1>2
    <3> QED
      BY <1>7, <1>8, <3>1, <3>2
  <2>2. SubSeq(segments, k + 1, k) = <<>>
    <3>1. PICK none, c : c = k + 1 /\ none = SubSeq(segments, c, k)
      OBVIOUS
    <3>2. c \in 1 .. Len(segments) + 1 /\ k \in c - 1 .. Len(segments) /\ k - c + 1 = 0
      BY <1>1, <1>2, <3>1
    <3>3. none \in Seq(Text) /\ Len(none) = 0
      BY <3>1, <3>2, PartFacts
    <3> QED
      BY <3>1, <3>3
  <2>3. {SubSeq(segments, k + 1, j) : j \in {k}} = {<<>>}
    BY <2>2
  <2>4. framed[at[k]] = {<<>>}
    BY <1>5, <1>8
  <2>5. k \in 0 .. m
    OBVIOUS
  <2> QED
    BY <2>1, <2>3, <2>4, <2>5
<1>9. m \in T
  <2>1. m \in 0 .. m
    BY <1>2
  <2>2. PICK a, n : a = at[m] /\ n = Len(key)
    OBVIOUS
  <2>3. a \in Nat /\ n \in Nat /\ n = a - 1 /\ cut \in 1 .. n
    BY <1>3, <1>6, <2>1, <2>2
  <2>4. a <= cut + 1 => a = cut + 1
    BY <2>3
  <2> QED
    BY <1>8, <2>1, <2>2, <2>4
<1>10. ASSUME NEW k \in 0 .. m - 1, k + 1 \in T PROVE k \in T
  <2>1. PICK h, s, cursor, next : /\ h = k + 1 /\ s = segments[h] /\ cursor = at[k]
                                  /\ next = cursor + Len(Frame(s))
    OBVIOUS
  <2>2. /\ h \in 1 .. m /\ h \in 0 .. m /\ k \in 0 .. m /\ h - 1 = k /\ s \in Text
        /\ Fits(Len(s)) /\ next = at[h] /\ cursor \in Nat /\ next \in Nat /\ cursor < next
    <3>1. h \in 1 .. m /\ h \in 0 .. m /\ k \in 0 .. m /\ h - 1 = k
      BY <1>2, <2>1
    <3>2. k \in 0 .. m /\ h \in k + 1 .. m
      BY <1>2, <2>1
    <3>3. cursor < at[h]
      BY <1>6, <2>1, <3>2
    <3> QED
      BY <1>1, <1>2, <1>6, <2>1, <3>1, <3>3
  <2> SUFFICES ASSUME at[k] <= cut + 1
               PROVE  framed[cursor] = {SubSeq(segments, k + 1, j) : j \in Wholes(segments, k, cut)}
    BY <2>1, <2>2
  <2>3. CASE at[k] = cut + 1
    BY <1>8, <2>1, <2>2, <2>3
  <2>4. CASE at[k] # cut + 1
    <3>1. cursor \in 2 .. cut
      <4>1. k # 0 => 0 \in 0 .. m /\ k \in 0 + 1 .. m
        BY <1>2
      <4>2. cursor >= 2
        BY <1>6, <2>1, <2>2, <4>1
      <4>3. cursor \in Nat /\ cursor <= cut + 1 /\ cursor # cut + 1
        BY <2>1, <2>2, <2>4
      <4>4. cut \in Nat
        BY <1>4
      <4> QED
        BY <4>2, <4>3, <4>4
    <3>2. \A i \in 1 .. Len(Frame(s)) :
             cursor + i - 1 <= Len(part) => part[cursor + i - 1] = Frame(s)[i]
      <4>1. \A i \in 1 .. Len(Frame(s)) : key[cursor + i - 1] = Frame(s)[i]
        BY <1>3, <2>1, <2>2
      <4>2. ASSUME NEW i \in 1 .. Len(Frame(s)), cursor + i - 1 <= cut
            PROVE  part[cursor + i - 1] = key[cursor + i - 1]
        <5>1. PICK l : l = Len(Frame(s))
          OBVIOUS
        <5>2. l \in Nat
          BY <2>2, <5>1, FrameFacts, LenProperties
        <5>3. cursor + i - 1 \in 1 .. cut
          BY <1>4, <3>1, <4>2, <5>1, <5>2
        <5> QED
          BY <1>4, <5>3
      <4> QED
        BY <1>4, <4>1, <4>2
    <3>3. /\ EndsAt(part, cursor) = {end \in {next} : end <= cut + 1}
          /\ next <= cut + 1 => SegmentsAt(part, cursor, next) = {s}
      <4>1. cursor \in 2 .. Len(part)
        BY <1>4, <3>1
      <4>2. /\ EndsAt(part, cursor) = {end \in {cursor + Len(Frame(s))} : end <= Len(part) + 1}
            /\ cursor + Len(Frame(s)) <= Len(part) + 1 =>
                  SegmentsAt(part, cursor, cursor + Len(Frame(s))) = {s}
        BY <1>4, <2>2, <3>2, <4>1, FrameComesBack
      <4> QED
        BY <1>4, <2>1, <4>2
    <3>4. framed[cursor] = UNION {Prepend(SegmentsAt(part, cursor, end), framed[end]) :
                                     end \in EndsAt(part, cursor)}
      BY <1>5, <3>1
    <3>5. Wholes(segments, k, cut) = Wholes(segments, h, cut)
      <4>1. \A j \in k .. m : j = k \/ j \in h .. m
        BY <1>2, <2>1
      <4>2. \A j \in h .. m : j \in k .. m
        BY <1>2, <2>1
      <4> QED
        BY <1>7, <2>2, <2>4, <4>1, <4>2
    <3>6. CASE ~(next <= cut + 1)
      <4>1. Wholes(segments, h, cut) = {}
        <5>1. ASSUME NEW j \in h .. m PROVE at[j] # cut + 1
          <6>1. j = h \/ j \in h + 1 .. m
            BY <1>2, <2>1
          <6>2. j \in 0 .. m
            BY <1>2, <2>1
          <6>3. at[h] <= at[j]
            BY <1>6, <2>2, <6>1, <6>2
          <6> QED
            BY <1>4, <1>6, <2>2, <3>6, <6>2, <6>3
        <5> QED
          BY <1>7, <2>2, <5>1
      <4>2. framed[cursor] = {}
        BY <3>3, <3>4, <3>6
      <4> QED
        BY <3>5, <4>1, <4>2
    <3>7. CASE next <= cut + 1
      <4>1. framed[cursor] = Prepend({s}, framed[next])
        <5>1. EndsAt(part, cursor) = {next}
          BY <3>3, <3>7
        <5>2. SegmentsAt(part, cursor, next) = {s}
          BY <3>3, <3>7
        <5>3. framed[cursor] = Prepend(SegmentsAt(part, cursor, next), framed[next])
          BY <3>4, <5>1
        <5> QED
          BY <5>2, <5>3
      <4>2. framed[next] = {SubSeq(segments, h + 1, j) : j \in Wholes(segments, h, cut)}
        BY <1>10, <2>1, <2>2, <3>7
      <4>3. ASSUME NEW j \in Wholes(segments, h, cut)
            PROVE  SubSeq(segments, h, j) = <<s>> \o SubSeq(segments, h + 1, j)
        <5>1. j \in h .. Len(segments) /\ h \in 1 .. Len(segments)
          BY <1>1, <2>2 DEF Wholes
        <5> QED
          BY <2>1, <5>1, PartBegins
      <4>4. Prepend({s}, framed[next]) = {SubSeq(segments, h, j) : j \in Wholes(segments, h, cut)}
        <5>1. Prepend({s}, framed[next]) = {<<s>> \o rest : rest \in framed[next]}
          BY PrependOne
        <5>2. {<<s>> \o rest : rest \in framed[next]}
                 = {<<s>> \o SubSeq(segments, h + 1, j) : j \in Wholes(segments, h, cut)}
          BY <4>2
        <5>3. {<<s>> \o SubSeq(segments, h + 1, j) : j \in Wholes(segments, h, cut)}
                 = {SubSeq(segments, h, j) : j \in Wholes(segments, h, cut)}
          BY <4>3
        <5> QED
          BY <5>1, <5>2, <5>3
      <4> QED
        BY <2>1, <3>5, <4>1, <4>4
    <3> QED
      BY <3>6, <3>7
  <2> QED
    BY <2>3, <2>4
<1>11. \A k \in 0 .. m : k \in T
  <2> HIDE DEF T
  <2> QED
    BY <1>2, <1>9, <1>10, CountingDown
<1>12. framed[2] = {SubSeq(segments, 1, j) : j \in Wholes(segments, 0, cut)}
  <2>1. 0 \in 0 .. m /\ at[0] = 2 /\ 2 <= cut + 1 /\ 0 + 1 = 1
    BY <1>2, <1>4, <1>6
  <2>2. 0 \in T
    BY <1>11, <2>1
  <2> QED
    BY <2>1, <2>2
<1> QED
  BY <1>1, <1>12

(* The path after each of some segments.                                   *)
LEMMA JoinsFacts ==
    ASSUME NEW segments \in Seq(Text)
    PROVE  /\ \A k \in 1 .. Len(segments) : Joins(segments)[k] \in Text
           /\ Len(segments) >= 1 => Joins(segments)[1] = segments[1]
           /\ \A k \in 2 .. Len(segments) :
                 Joins(segments)[k] = Join(Joins(segments)[k - 1], segments[k])
<1>1. PICK m : m = Len(segments)
  OBVIOUS
<1>2. m \in Nat /\ \A k \in 1 .. m : segments[k] \in Text
  BY <1>1, LenProperties, ElementOfSeq
<1>3. CASE m = 0
  BY <1>1, <1>3
<1>4. CASE m >= 1
  <2> DEFINE turn(g, k) == IF k = 1 THEN segments[1] ELSE Join(g[k - 1], segments[k])
             Solves(g) == g = [k \in 1 .. Len(segments) |-> turn(g, k)]
  <2>1. PICK step : step = [k \in 1 .. m |->
                              [p \in Text |-> IF k = 1 THEN segments[1] ELSE Join(p, segments[k])]]
    OBVIOUS
  <2>2. 1 \in 1 .. m /\ segments[1] \in Text
    BY <1>2, <1>4
  <2>3. \A k \in 1 .. m : \A p \in Text : step[k][p] \in Text
    <3>1. \A k \in 1 .. m : \A p \in Text : Join(p, segments[k]) \in Text
      BY <1>2, JoinFacts
    <3> QED
      BY <2>1, <2>2, <3>1
  <2>4. PICK f : Iterates(f, m, Text, segments[1], step)
    BY <1>2, <2>2, <2>3, Iteration
  <2>5. f \in [0 .. m -> Text] /\ \A k \in 1 .. m : f[k] = step[k][f[k - 1]]
    BY <2>4 DEF Iterates
  <2>6. PICK g : g = [k \in 1 .. m |-> f[k]]
    OBVIOUS
  <2>7. \A k \in 1 .. m : g[k] = turn(g, k)
    <3>1. ASSUME NEW k \in 1 .. m PROVE g[k] = turn(g, k)
      <4>1. k - 1 \in 0 .. m
        BY <1>2
      <4>2. f[k - 1] \in Text
        BY <2>5, <4>1
      <4>3. g[k] = IF k = 1 THEN segments[1] ELSE Join(f[k - 1], segments[k])
        BY <2>1, <2>5, <2>6, <4>2
      <4>4. k # 1 => k - 1 \in 1 .. m
        BY <1>2
      <4>5. k # 1 => g[k - 1] = f[k - 1]
        BY <2>6, <4>4
      <4> QED
        BY <4>3, <4>5
    <3> QED
      BY <3>1
  <2>8. Solves(g)
    <3> HIDE DEF turn
    <3>1. g = [k \in 1 .. m |-> g[k]]
      BY <2>6
    <3> QED
      BY <1>1, <2>7, <3>1
  <2>9. PICK v : v = Joins(segments)
    OBVIOUS
  <2>10. v = CHOOSE h : Solves(h)
    BY <2>9 DEF Joins
  <2>11. Solves(v)
    <3> HIDE DEF Solves
    <3> QED
      BY <2>8, <2>10
  <2>12. \A k \in 1 .. m : v[k] = turn(v, k)
    <3> HIDE DEF turn
    <3> QED
      BY <1>1, <2>11
  <2>13. v[1] = segments[1]
    BY <2>2, <2>12
  <2>14. \A k \in 2 .. m : v[k] = Join(v[k - 1], segments[k])
    <3>1. \A k \in 2 .. m : k \in 1 .. m /\ k # 1
      BY <1>2
    <3> QED
      BY <2>12, <3>1
  <2> DEFINE T == {n \in 0 .. m : n = 0 \/ v[n] \in Text}
  <2>15. 0 \in T
    BY <1>2
  <2>16. ASSUME NEW n \in 0 .. m - 1, n \in T PROVE n + 1 \in T
    <3>1. PICK k : k = n + 1
      OBVIOUS
    <3>2. k \in 1 .. m /\ k \in 0 .. m /\ k - 1 = n /\ (n = 0 => k = 1) /\ (n # 0 => k \in 2 .. m)
      BY <1>2, <3>1
    <3>3. n = 0 => v[k] \in Text
      BY <2>2, <2>13, <3>2
    <3>4. n # 0 => v[k] \in Text
      <4> SUFFICES ASSUME n # 0 PROVE v[k] \in Text
        OBVIOUS
      <4>1. v[n] \in Text /\ segments[k] \in Text /\ v[k] = Join(v[n], segments[k])
        BY <1>2, <2>14, <2>16, <3>2
      <4> QED
        BY <4>1, JoinFacts
    <3> QED
      BY <3>1, <3>2, <3>3, <3>4
  <2>17. \A n \in 0 .. m : n \in T
    <3> HIDE DEF T
    <3> QED
      BY <1>2, <2>15, <2>16, CountingUp
  <2>18. \A k \in 1 .. m : v[k] \in Text
    <3>1. \A k \in 1 .. m : k \in 0 .. m /\ k # 0
      BY <1>2
    <3> QED
      BY <2>17, <3>1
  <2> QED
    BY <1>1, <2>9, <2>13, <2>14, <2>18
<1> QED
  BY <1>2, <1>3, <1>4

(* The path after some segments depends on those alone.                    *)
LEMMA JoinsAgree ==
    ASSUME NEW s \in Seq(Text), NEW u \in Seq(Text), NEW j \in 1 .. Len(s), j <= Len(u),
           \A k \in 1 .. j : s[k] = u[k]
    PROVE  Joins(s)[j] = Joins(u)[j]
<1>1. PICK v, w : v = Joins(s) /\ w = Joins(u)
  OBVIOUS
<1>2. Len(s) \in Nat /\ Len(u) \in Nat /\ j \in Nat /\ j >= 1 /\ j <= Len(s)
  BY LenProperties
<1>3. /\ v[1] = s[1] /\ \A k \in 2 .. j : v[k] = Join(v[k - 1], s[k])
      /\ w[1] = u[1] /\ \A k \in 2 .. j : w[k] = Join(w[k - 1], u[k])
  <2>1. /\ Len(s) >= 1 /\ Len(u) >= 1
        /\ \A k \in 2 .. j : k \in 2 .. Len(s) /\ k \in 2 .. Len(u)
    BY <1>2
  <2> QED
    BY <1>1, <2>1, JoinsFacts
<1> DEFINE T == {n \in 0 .. j : n = 0 \/ v[n] = w[n]}
<1>4. 0 \in T
  BY <1>2
<1>5. ASSUME NEW n \in 0 .. j - 1, n \in T PROVE n + 1 \in T
  <2>1. PICK k : k = n + 1
    OBVIOUS
  <2>2. k \in 1 .. j /\ k \in 0 .. j /\ k - 1 = n /\ (n = 0 => k = 1) /\ (n # 0 => k \in 2 .. j)
    BY <1>2, <2>1
  <2>3. n = 0 => v[k] = w[k]
    BY <1>3, <2>2
  <2>4. n # 0 => v[k] = w[k]
    BY <1>3, <1>5, <2>2
  <2> QED
    BY <2>1, <2>2, <2>3, <2>4
<1>6. \A n \in 0 .. j : n \in T
  <2> HIDE DEF T
  <2> QED
    BY <1>2, <1>4, <1>5, CountingUp
<1> QED
  BY <1>1, <1>2, <1>6

(* Joining twice is joining once.                                          *)
LEMMA JoinTwice ==
    ASSUME NEW p \in Text, NEW q \in Text, NEW r \in Text
    PROVE  Join(Join(p, q), r) = Join(p, Join(q, r))
<1>1. PICK n, m, l, a, b, x, y : /\ n = Len(p) /\ m = Len(q) /\ l = Len(r)
                                 /\ a = Join(p, q) /\ x = Join(a, r)
                                 /\ b = Join(q, r) /\ y = Join(p, b)
  OBVIOUS
<1>2. n \in Nat /\ m \in Nat /\ l \in Nat
  BY <1>1, TextFacts
<1>3. /\ a \in Text /\ Len(a) = n + 1 + m
      /\ \A k \in 1 .. n : a[k] = p[k]
      /\ a[n + 1] = Slash
      /\ \A k \in 1 .. m : a[n + 1 + k] = q[k]
  <2>1. /\ Join(p, q) \in Text
        /\ Len(Join(p, q)) = Len(p) + 1 + Len(q)
        /\ \A k \in 1 .. Len(p) : Join(p, q)[k] = p[k]
        /\ Join(p, q)[Len(p) + 1] = Slash
        /\ \A k \in 1 .. Len(q) : Join(p, q)[Len(p) + 1 + k] = q[k]
    BY JoinFacts, Zenon
  <2> QED
    BY <1>1, <2>1
<1>4. /\ b \in Text /\ Len(b) = m + 1 + l
      /\ \A k \in 1 .. m : b[k] = q[k]
      /\ b[m + 1] = Slash
      /\ \A k \in 1 .. l : b[m + 1 + k] = r[k]
  <2>1. /\ Join(q, r) \in Text
        /\ Len(Join(q, r)) = Len(q) + 1 + Len(r)
        /\ \A k \in 1 .. Len(q) : Join(q, r)[k] = q[k]
        /\ Join(q, r)[Len(q) + 1] = Slash
        /\ \A k \in 1 .. Len(r) : Join(q, r)[Len(q) + 1 + k] = r[k]
    BY JoinFacts, Zenon
  <2> QED
    BY <1>1, <2>1
<1>5. /\ x \in Text /\ Len(x) = n + m + l + 2
      /\ \A k \in 1 .. n + 1 + m : x[k] = a[k]
      /\ x[n + m + 2] = Slash
      /\ \A k \in 1 .. l : x[n + m + 2 + k] = r[k]
  <2>1. /\ x \in Text /\ Len(x) = Len(a) + 1 + Len(r)
        /\ \A k \in 1 .. Len(a) : x[k] = a[k]
        /\ x[Len(a) + 1] = Slash
        /\ \A k \in 1 .. Len(r) : x[Len(a) + 1 + k] = r[k]
    <3>1. a \in Text /\ r \in Text /\ x = Join(a, r)
      BY <1>1, <1>3
    <3>2. /\ Join(a, r) \in Text /\ Len(Join(a, r)) = Len(a) + 1 + Len(r)
          /\ \A k \in 1 .. Len(a) : Join(a, r)[k] = a[k]
          /\ Join(a, r)[Len(a) + 1] = Slash
          /\ \A k \in 1 .. Len(r) : Join(a, r)[Len(a) + 1 + k] = r[k]
      BY <3>1, JoinFacts, Zenon
    <3> QED
      BY <3>1, <3>2
  <2>2. n + 1 + m + 1 = n + m + 2 /\ n + 1 + m + 1 + l = n + m + l + 2
    BY <1>2
  <2> QED
    BY <1>1, <1>3, <2>1, <2>2
<1>6. /\ y \in Text /\ Len(y) = n + m + l + 2
      /\ \A k \in 1 .. n : y[k] = p[k]
      /\ y[n + 1] = Slash
      /\ \A k \in 1 .. m + 1 + l : y[n + 1 + k] = b[k]
  <2>1. /\ y \in Text /\ Len(y) = Len(p) + 1 + Len(b)
        /\ \A k \in 1 .. Len(p) : y[k] = p[k]
        /\ y[Len(p) + 1] = Slash
        /\ \A k \in 1 .. Len(b) : y[Len(p) + 1 + k] = b[k]
    <3>1. p \in Text /\ b \in Text /\ y = Join(p, b)
      BY <1>1, <1>4
    <3>2. /\ Join(p, b) \in Text /\ Len(Join(p, b)) = Len(p) + 1 + Len(b)
          /\ \A k \in 1 .. Len(p) : Join(p, b)[k] = p[k]
          /\ Join(p, b)[Len(p) + 1] = Slash
          /\ \A k \in 1 .. Len(b) : Join(p, b)[Len(p) + 1 + k] = b[k]
      BY <3>1, JoinFacts, Zenon
    <3> QED
      BY <3>1, <3>2
  <2>2. n + 1 + (m + 1 + l) = n + m + l + 2
    BY <1>2
  <2> QED
    BY <1>1, <1>4, <2>1, <2>2
<1>7. ASSUME NEW k \in 1 .. n + m + l + 2 PROVE x[k] = y[k]
  <2>1. CASE k <= n
    <3>1. k \in 1 .. n /\ k \in 1 .. n + 1 + m
      BY <1>2, <2>1
    <3> QED
      BY <1>3, <1>5, <1>6, <3>1
  <2>2. CASE k = n + 1
    <3>1. n + 1 \in 1 .. n + 1 + m
      BY <1>2
    <3> QED
      BY <1>3, <1>5, <1>6, <2>2, <3>1
  <2>3. CASE k > n + 1 /\ k <= n + 1 + m
    <3>1. PICK j : j = k - n - 1
      OBVIOUS
    <3>2. k = n + 1 + j /\ j \in 1 .. m /\ j \in 1 .. m + 1 + l /\ k \in 1 .. n + 1 + m
      BY <1>2, <2>3, <3>1
    <3>3. x[k] = q[j]
      BY <1>3, <1>5, <3>2
    <3>4. y[k] = q[j]
      BY <1>4, <1>6, <3>2
    <3> QED
      BY <3>3, <3>4
  <2>4. CASE k = n + m + 2
    <3>1. n + m + 2 = n + 1 + (m + 1) /\ m + 1 \in 1 .. m + 1 + l
      BY <1>2
    <3>2. y[n + 1 + (m + 1)] = Slash
      BY <1>4, <1>6, <3>1
    <3> QED
      BY <1>5, <2>4, <3>1, <3>2
  <2>5. CASE k > n + m + 2
    <3>1. PICK j, i : j = k - n - m - 2 /\ i = m + 1 + j
      OBVIOUS
    <3>2. k = n + m + 2 + j /\ j \in 1 .. l /\ k = n + 1 + i /\ i \in 1 .. m + 1 + l
      BY <1>2, <2>5, <3>1
    <3>3. x[k] = r[j]
      BY <1>5, <3>2
    <3>4. y[k] = r[j]
      BY <1>4, <1>6, <3>1, <3>2
    <3> QED
      BY <3>3, <3>4
  <2> QED
    BY <1>2, <2>1, <2>2, <2>3, <2>4, <2>5
<1>8. x = y
  <2>1. x \in Seq(Chars) /\ y \in Seq(Chars) /\ Len(x) = Len(y)
    BY <1>5, <1>6 DEF Text
  <2> QED
    BY <1>5, <1>7, <2>1, SeqEqual
<1> QED
  BY <1>1, <1>8

(* A path stands under the path after any but the last of its segments.    *)
LEMMA JoinsUnder ==
    ASSUME NEW s \in Seq(Text), NEW j \in 1 .. Len(s) - 1
    PROVE  \E q \in Text : Joins(s)[Len(s)] = Join(Joins(s)[j], q)
<1>1. PICK v, m : v = Joins(s) /\ m = Len(s)
  OBVIOUS
<1>2. m \in Nat /\ j \in Nat /\ j >= 1 /\ j <= m - 1 /\ \A k \in 1 .. m : s[k] \in Text
  BY <1>1, LenProperties, ElementOfSeq
<1>3. /\ \A k \in 1 .. m : v[k] \in Text
      /\ \A k \in 2 .. m : v[k] = Join(v[k - 1], s[k])
  BY <1>1, JoinsFacts
<1> DEFINE T == {d \in 0 .. m - j - 1 : \E q \in Text : v[j + 1 + d] = Join(v[j], q)}
<1>4. m - j - 1 \in Nat /\ 0 \in 0 .. m - j - 1
  BY <1>2
<1>5. 0 \in T
  <2>1. j + 1 \in 2 .. m /\ (j + 1) - 1 = j /\ j + 1 + 0 = j + 1 /\ j + 1 \in 1 .. m
    BY <1>2
  <2>2. v[j + 1 + 0] = Join(v[j], s[j + 1]) /\ s[j + 1] \in Text
    BY <1>2, <1>3, <2>1
  <2> QED
    BY <1>4, <2>2
<1>6. ASSUME NEW d \in 0 .. (m - j - 1) - 1, d \in T PROVE d + 1 \in T
  <2>1. PICK k, e : k = j + 1 + d /\ e = d + 1
    OBVIOUS
  <2>2. k + 1 \in 2 .. m /\ (k + 1) - 1 = k /\ j + 1 + e = k + 1 /\ k + 1 \in 1 .. m
        /\ e \in 0 .. m - j - 1 /\ j \in 1 .. m
    BY <1>2, <2>1
  <2>3. PICK q \in Text : v[k] = Join(v[j], q)
    BY <1>6, <2>1
  <2>4. v[k + 1] = Join(v[k], s[k + 1]) /\ s[k + 1] \in Text /\ v[j] \in Text
    BY <1>2, <1>3, <2>2
  <2>5. v[k + 1] = Join(v[j], Join(q, s[k + 1])) /\ Join(q, s[k + 1]) \in Text
    <3>1. PICK p, r : p = v[j] /\ r = s[k + 1]
      OBVIOUS
    <3>2. p \in Text /\ r \in Text /\ v[k + 1] = Join(Join(p, q), r)
      BY <2>3, <2>4, <3>1
    <3>3. Join(Join(p, q), r) = Join(p, Join(q, r)) /\ Join(q, r) \in Text
      BY <3>2, JoinTwice, JoinFacts
    <3> QED
      BY <3>1, <3>2, <3>3
  <2>6. \E r \in Text : v[j + 1 + e] = Join(v[j], r)
    BY <2>2, <2>5
  <2> QED
    BY <2>1, <2>2, <2>6
<1>7. \A d \in 0 .. m - j - 1 : d \in T
  <2> HIDE DEF T
  <2> QED
    BY <1>4, <1>5, <1>6, CountingUp
<1>8. PICK d : d = m - j - 1
  OBVIOUS
<1>9. d \in 0 .. m - j - 1 /\ j + 1 + d = m
  BY <1>2, <1>8
<1>10. d \in T
  BY <1>7, <1>9
<1> QED
  BY <1>1, <1>9, <1>10

(* The segments of a text, joined, are the text.                           *)
LEMMA SegmentsJoin ==
    ASSUME NEW t \in Text
    PROVE  Joins(Segments(t))[Len(Segments(t))] = t
<1> DEFINE Whole(x) == Joins(Segments(x))[Len(Segments(x))] = x
           T == {n \in 0 .. Len(t) : \A x \in Text : Len(x) <= n => Whole(x)}
<1>1. Len(t) \in Nat
  BY TextFacts
<1>2. ASSUME NEW x \in Text, \A i \in 1 .. Len(x) : x[i] # Slash PROVE Whole(x)
  <2>1. PICK s : s = <<x>>
    OBVIOUS
  <2>2. Segments(x) = s
    BY <1>2, <2>1, WholePiece
  <2>3. s \in Seq(Text) /\ Len(s) = 1 /\ s[1] = x
    BY <2>1
  <2>4. Joins(s)[1] = x
    BY <2>3, JoinsFacts
  <2> QED
    BY <2>2, <2>3, <2>4
<1>3. 0 \in T
  <2>1. ASSUME NEW x \in Text, Len(x) <= 0 PROVE \A i \in 1 .. Len(x) : x[i] # Slash
    BY <2>1, TextFacts
  <2>2. 0 \in 0 .. Len(t)
    BY <1>1
  <2> HIDE DEF Whole
  <2> QED
    BY <1>2, <2>1, <2>2
<1>4. ASSUME NEW n \in 0 .. Len(t) - 1, n \in T PROVE n + 1 \in T
  <2>1. ASSUME NEW x \in Text, Len(x) <= n + 1 PROVE Whole(x)
    <3>1. PICK l : l = Len(x)
      OBVIOUS
    <3>2. l \in Nat /\ l <= n + 1 /\ n \in Nat
      BY <1>1, <2>1, <3>1, TextFacts
    <3> DEFINE slashes == {i \in 0 .. l : i >= 1 /\ x[i] = Slash}
    <3>3. CASE slashes = {}
      <4>1. \A i \in 1 .. l : i \in 0 .. l /\ i >= 1
        BY <3>2
      <4>2. \A i \in 1 .. Len(x) : x[i] # Slash
        BY <3>1, <3>3, <4>1
      <4> QED
        BY <1>2, <4>2
    <3>4. CASE slashes # {}
      <4>1. PICK i \in slashes : \A k \in slashes : k <= i
        <5>1. slashes \in SUBSET (0 .. l)
          OBVIOUS
        <5> HIDE DEF slashes
        <5> QED
          BY <3>2, <3>4, <5>1, GreatestNumber
      <4>2. PICK h, a, p, q : /\ h = i - 1 /\ a = i + 1
                              /\ p = SubSeq(x, 1, h) /\ q = SubSeq(x, a, l)
        OBVIOUS
      <4>3. h \in 0 .. Len(x) - 1 /\ h + 1 = i /\ h + 2 = a /\ x[h + 1] = Slash
        BY <3>1, <3>2, <4>1, <4>2
      <4>4. p \in Text /\ q \in Text /\ x = Join(p, q)
        BY <3>1, <4>2, <4>3, CutAtSlash
      <4>5. Len(p) <= n /\ Len(p) \in Nat /\ Len(q) \in Nat /\ l = Len(p) + 1 + Len(q)
        <5>1. Len(p) \in Nat /\ Len(q) \in Nat /\ l = Len(p) + 1 + Len(q)
          BY <3>1, <4>4, JoinFacts, TextFacts
        <5> QED
          BY <3>2, <5>1
      <4>6. Whole(p)
        <5> HIDE DEF Whole
        <5> QED
          BY <1>4, <4>4, <4>5
      <4>7. \A k \in 1 .. Len(q) : q[k] # Slash
        <5>1. /\ Len(q) = l - a + 1 /\ \A k \in 1 .. l - a + 1 : q[k] = x[a + k - 1]
          <6>1. x \in Seq(Chars) /\ a \in 1 .. Len(x) + 1 /\ l \in a - 1 .. Len(x)
            BY <3>1, <3>2, <4>2, <4>3 DEF Text
          <6> QED
            BY <4>2, <6>1, PartFacts
        <5>2. ASSUME NEW k \in 1 .. Len(q) PROVE q[k] # Slash
          <6>1. PICK z : z = a + k - 1
            OBVIOUS
          <6>2. z \in 0 .. l /\ z >= 1 /\ ~(z <= i)
            BY <3>2, <4>1, <4>2, <5>1, <6>1
          <6>3. x[z] # Slash
            BY <4>1, <6>2
          <6> QED
            BY <5>1, <6>1, <6>3
        <5> QED
          BY <5>2
      <4>8. PICK s, u, one : s = Segments(x) /\ u = Segments(p) /\ one = <<q>>
        OBVIOUS
      <4>9. s = u \o one /\ u \in Seq(Text) /\ one \in Seq(Text) /\ Len(one) = 1 /\ one[1] = q
        <5>1. s = Segments(p) \o Segments(q)
          BY <4>4, <4>8, JoinedSegments
        <5>2. Segments(q) = one
          BY <4>4, <4>7, <4>8, WholePiece
        <5>3. u \in Seq(Text)
          BY <4>4, <4>8, SegmentsMeaning
        <5>4. one \in Seq(Text) /\ Len(one) = 1 /\ one[1] = q
          BY <4>4, <4>8
        <5> QED
          BY <4>8, <5>1, <5>2, <5>3, <5>4
      <4>10. PICK m : m = Len(u)
        OBVIOUS
      <4>11. m \in Nat /\ m >= 1
        BY <4>4, <4>8, <4>9, <4>10, OnlySegment, LenProperties
      <4>12. s \in Seq(Text) /\ Len(s) = m + 1 /\ s[m + 1] = q /\ \A k \in 1 .. m : s[k] = u[k]
        <5>1. /\ u \o one \in Seq(Text) /\ Len(u \o one) = Len(u) + Len(one)
              /\ \A k \in 1 .. Len(u) : (u \o one)[k] = u[k]
              /\ \A k \in 1 .. Len(one) : (u \o one)[Len(u) + k] = one[k]
          <6>1. u \in Seq(Text) /\ one \in Seq(Text)
            BY <4>9
          <6> QED
            BY <6>1, TogetherFacts
        <5>2. 1 \in 1 .. Len(one)
          BY <4>9
        <5>3. /\ s \in Seq(Text) /\ Len(s) = m + 1 /\ \A k \in 1 .. m : s[k] = u[k]
          BY <4>9, <4>10, <5>1
        <5>4. s[m + 1] = one[1]
          BY <4>9, <4>10, <5>1, <5>2
        <5> QED
          BY <4>9, <5>3, <5>4
      <4>13. Joins(s)[m] = p
        <5>1. m \in 1 .. Len(s) /\ m <= Len(u)
          BY <4>10, <4>11, <4>12
        <5>2. Joins(s)[m] = Joins(u)[m]
          BY <4>9, <4>12, <5>1, JoinsAgree
        <5> QED
          BY <4>6, <4>8, <4>10, <5>2
      <4>14. Joins(s)[m + 1] = Join(Joins(s)[m], s[m + 1])
        <5>1. m + 1 \in 2 .. Len(s) /\ (m + 1) - 1 = m
          BY <4>11, <4>12
        <5> QED
          BY <4>12, <5>1, JoinsFacts
      <4>15. Joins(s)[m + 1] = x
        BY <4>4, <4>12, <4>13, <4>14
      <4> QED
        BY <4>8, <4>12, <4>15
    <3> QED
      BY <3>3, <3>4
  <2>2. n + 1 \in 0 .. Len(t)
    BY <1>1
  <2> HIDE DEF Whole
  <2> QED
    BY <2>1, <2>2
<1>5. \A n \in 0 .. Len(t) : n \in T
  <2> HIDE DEF T
  <2> QED
    BY <1>1, <1>3, <1>4, CountingUp
<1>6. Len(t) \in T /\ Len(t) <= Len(t)
  <2>1. PICK n : n = Len(t)
    OBVIOUS
  <2>2. n \in 0 .. Len(t) /\ n <= n
    BY <1>1, <2>1
  <2> HIDE DEF T
  <2> QED
    BY <1>5, <2>1, <2>2
<1>7. Whole(t)
  <2> HIDE DEF Whole
  <2> QED
    BY <1>6
<1> QED
  BY <1>7

(* What a key, whole or cut short, decodes to.                             *)
LEMMA CutKeyDecodes ==
    ASSUME NEW t \in Text, NEW s, s = Segments(t), \A k \in 1 .. Len(s) : Fits(Len(s[k])),
           NEW key, key = Written(s)[Len(s)], NEW cut \in 1 .. Len(key)
    PROVE  Decode(SubSeq(key, 1, cut))
              = {path \in {Joins(s)[j] : j \in Wholes(s, 1, cut)} : IsPath(path)}
<1>1. PICK m, part : m = Len(s) /\ part = SubSeq(key, 1, cut)
  OBVIOUS
<1>2. s \in Seq(Text) /\ m \in Nat /\ m >= 1
  BY <1>1, SegmentsMeaning, OnlySegment, LenProperties
<1>3. key \in Seq(Nat) /\ key[1] = Marker /\ Len(key) \in Nat
  <2>1. m \in 0 .. Len(s)
    BY <1>1, <1>2
  <2> QED
    BY <1>1, <1>2, <2>1, KeyReads, LenProperties
<1>4. Len(part) >= 1 /\ part[1] = Marker /\ part # <<>>
  <2>1. 1 \in 1 .. Len(key) + 1 /\ cut \in 1 - 1 .. Len(key) /\ 1 \in 1 .. cut - 1 + 1
    BY <1>3
  <2>2. /\ part \in Seq(Nat) /\ Len(part) = cut - 1 + 1
        /\ \A i \in 1 .. cut - 1 + 1 : part[i] = key[1 + i - 1]
    BY <1>1, <1>3, <2>1, DigitsPart
  <2>3. part[1] = key[1] /\ Len(part) >= 1
    BY <1>3, <2>1, <2>2
  <2> QED
    BY <1>3, <2>3
<1>5. FramedFrom(part)[2] = {SubSeq(s, 1, j) : j \in Wholes(s, 0, cut)}
  BY <1>1, <1>2, CutKeyFrames
<1>6. ASSUME NEW j \in Wholes(s, 0, cut)
      PROVE  IF j = 0 THEN SubSeq(s, 1, j) = <<>>
             ELSE /\ SubSeq(s, 1, j) # <<>> /\ j \in Wholes(s, 1, cut)
                  /\ Joins(SubSeq(s, 1, j))[Len(SubSeq(s, 1, j))] = Joins(s)[j]
  <2>1. j \in 0 .. m /\ Begins(s, j) = cut + 1
    BY <1>1 DEF Wholes
  <2>2. PICK u : u = SubSeq(s, 1, j)
    OBVIOUS
  <2>3. u \in Seq(Text) /\ Len(u) = j /\ \A k \in 1 .. j : u[k] = s[k]
    <3>1. 1 \in 1 .. Len(s) + 1 /\ j \in 1 - 1 .. Len(s)
      BY <1>1, <1>2, <2>1
    <3>2. /\ u \in Seq(Text) /\ Len(u) = j - 1 + 1
          /\ \A k \in 1 .. j - 1 + 1 : u[k] = s[1 + k - 1]
      BY <1>2, <2>2, <3>1, PartFacts
    <3>3. j - 1 + 1 = j /\ \A k \in 1 .. j : 1 + k - 1 = k
      BY <2>1
    <3> QED
      BY <3>2, <3>3
  <2>4. CASE j = 0
    BY <2>2, <2>3, <2>4
  <2>5. CASE j # 0
    <3>1. j \in 1 .. Len(u) /\ j <= Len(s) /\ j \in 1 .. m
      BY <1>1, <1>2, <2>1, <2>3, <2>5
    <3>2. Joins(u)[j] = Joins(s)[j]
      BY <1>2, <2>3, <3>1, JoinsAgree
    <3>3. j \in Wholes(s, 1, cut)
      BY <1>1, <2>1, <3>1 DEF Wholes
    <3>4. u # <<>>
      BY <2>3, <2>5
    <3> QED
      BY <2>2, <2>3, <2>5, <3>2, <3>3, <3>4
  <2> QED
    BY <2>4, <2>5
<1>7. Wholes(s, 1, cut) \subseteq Wholes(s, 0, cut) /\ 0 \notin Wholes(s, 1, cut)
  <2>1. \A j \in 1 .. m : j \in 0 .. m /\ j # 0
    BY <1>2
  <2> QED
    BY <1>1, <2>1 DEF Wholes
<1> DEFINE runs == {SubSeq(s, 1, j) : j \in Wholes(s, 0, cut)} \ {<<>>}
           Path(run) == Joins(run)[Len(run)]
<1>8. {Path(run) : run \in runs} = {Joins(s)[j] : j \in Wholes(s, 1, cut)}
  <2>1. ASSUME NEW run \in runs PROVE Path(run) \in {Joins(s)[j] : j \in Wholes(s, 1, cut)}
    <3>1. PICK j \in Wholes(s, 0, cut) : run = SubSeq(s, 1, j)
      OBVIOUS
    <3>2. j \in Wholes(s, 1, cut) /\ Path(run) = Joins(s)[j]
      BY <1>6, <2>1, <3>1
    <3> QED
      BY <3>2
  <2>2. ASSUME NEW j \in Wholes(s, 1, cut) PROVE Joins(s)[j] \in {Path(run) : run \in runs}
    <3>1. j \in Wholes(s, 0, cut) /\ j # 0
      BY <1>7
    <3>2. PICK run : run = SubSeq(s, 1, j)
      OBVIOUS
    <3>3. run \in runs /\ Path(run) = Joins(s)[j]
      BY <1>6, <3>1, <3>2
    <3> QED
      BY <3>3
  <2> HIDE DEF runs, Path
  <2> QED
    BY <2>1, <2>2
<1>9. Decode(part) = {path \in {Path(run) : run \in runs} : IsPath(path)}
  BY <1>4, <1>5 DEF Decode
<1> QED
  BY <1>1, <1>8, <1>9

(* A path comes back out of its key, and out of a key cut short comes an   *)
(* ancestor of the path or nothing.                                        *)
LEMMA KeyComesBack ==
    ASSUME NEW t \in Text, IsPath(t), NEW key \in Encode(t)
    PROVE  /\ Decode(key) = {t}
           /\ \A i \in 0 .. Len(key) - 1 : \A path \in Decode(SubSeq(key, 1, i)) : IsUnder(t, path)
<1>1. PICK s, m : s = Segments(t) /\ m = Len(s)
  OBVIOUS
<1>2. key = Written(s)[m] /\ \A k \in 1 .. m : Fits(Len(s[k]))
  BY <1>1 DEF Encode
<1>3. s \in Seq(Text) /\ m \in Nat /\ m >= 1 /\ Joins(s)[m] = t
  BY <1>1, SegmentsMeaning, OnlySegment, SegmentsJoin, LenProperties
<1>4. /\ key \in Seq(Nat) /\ Len(key) \in Nat /\ Len(key) = Begins(s, m) - 1
  <2>1. m \in 0 .. Len(s)
    BY <1>1, <1>3
  <2> QED
    BY <1>1, <1>2, <1>3, <2>1, KeyReads, LenProperties
<1>5. /\ \A j \in 0 .. m : Begins(s, j) \in Nat
      /\ Begins(s, 0) = 2
      /\ \A j \in 0 .. m : \A k \in j + 1 .. m : Begins(s, j) < Begins(s, k)
  BY <1>1, <1>3, BeginsFacts
<1>6. Len(key) >= 1 /\ \A j \in 1 .. m - 1 : Begins(s, j) # Len(key) + 1
  <2>1. PICK at : at = [k \in 0 .. m |-> Begins(s, k)]
    OBVIOUS
  <2>2. 0 \in 0 .. m /\ m \in 0 + 1 .. m /\ m \in 0 .. m
    BY <1>3
  <2>3. at[0] < at[m] /\ at[0] = 2 /\ at[m] = Len(key) + 1
    BY <1>4, <1>5, <2>1, <2>2
  <2>4. ASSUME NEW j \in 1 .. m - 1 PROVE Begins(s, j) # Len(key) + 1
    <3>1. j \in 0 .. m /\ m \in j + 1 .. m
      BY <1>3
    <3>2. at[j] < at[m] /\ at[j] \in Nat /\ at[j] = Begins(s, j)
      BY <1>5, <2>1, <2>2, <3>1
    <3> QED
      BY <1>4, <2>3, <3>2
  <2> QED
    BY <1>4, <2>3, <2>4
<1>7. Decode(key) = {t}
  <2>1. PICK n : n = Len(key)
    OBVIOUS
  <2>2. Wholes(s, 1, n) = {m}
    <3>1. ASSUME NEW j \in 1 .. m, Begins(s, j) = n + 1 PROVE j = m
      <4>1. j # m => j \in 1 .. m - 1
        BY <1>3
      <4> QED
        BY <1>6, <2>1, <3>1, <4>1
    <3>2. m \in 1 .. m /\ Begins(s, m) = n + 1
      <4>1. m \in 1 .. m /\ m \in 0 .. m
        BY <1>3
      <4> QED
        BY <1>4, <1>5, <2>1, <4>1
    <3> QED
      BY <1>1, <3>1, <3>2 DEF Wholes
  <2>3. SubSeq(key, 1, n) = key
    <3>1. PICK part : part = SubSeq(key, 1, n)
      OBVIOUS
    <3>2. 1 \in 1 .. Len(key) + 1 /\ n \in 1 - 1 .. Len(key)
      BY <1>4, <2>1
    <3>3. /\ part \in Seq(Nat) /\ Len(part) = n - 1 + 1
          /\ \A i \in 1 .. n - 1 + 1 : part[i] = key[1 + i - 1]
      BY <1>4, <3>1, <3>2, DigitsPart
    <3>4. n - 1 + 1 = n /\ \A i \in 1 .. n : 1 + i - 1 = i
      BY <1>4, <2>1
    <3>5. part = key
      BY <1>4, <2>1, <3>3, <3>4, SeqEqual
    <3> QED
      BY <3>1, <3>5
  <2>4. n \in 1 .. Len(key)
    BY <1>4, <1>6, <2>1
  <2>5. Decode(key) = {path \in {Joins(s)[j] : j \in Wholes(s, 1, n)} : IsPath(path)}
    <3>1. Decode(SubSeq(key, 1, n)) = {path \in {Joins(s)[j] : j \in Wholes(s, 1, n)} : IsPath(path)}
      BY <1>1, <1>2, <2>4, CutKeyDecodes
    <3> QED
      BY <2>3, <3>1
  <2>6. {Joins(s)[j] : j \in {m}} = {t}
    BY <1>3
  <2> QED
    BY <2>2, <2>5, <2>6
<1>8. ASSUME NEW i \in 0 .. Len(key) - 1, NEW path \in Decode(SubSeq(key, 1, i))
      PROVE  IsUnder(t, path)
  <2>1. CASE i = 0
    <3>1. SubSeq(key, 1, 0) = <<>>
      BY <1>4
    <3> QED
      BY <1>8, <2>1, <3>1 DEF Decode
  <2>2. CASE i # 0
    <3>1. i \in 1 .. Len(key) /\ i + 1 < Begins(s, m)
      <4>1. PICK n, b : n = Len(key) /\ b = Begins(s, m)
        OBVIOUS
      <4>2. m \in 0 .. m
        BY <1>3
      <4>3. n \in Nat /\ b \in Nat /\ n = b - 1 /\ i \in 0 .. n - 1
        BY <1>4, <1>5, <4>1, <4>2
      <4>4. i \in 1 .. n /\ i + 1 < b
        BY <2>2, <4>3
      <4> QED
        BY <4>1, <4>4
    <3>2. PICK j \in Wholes(s, 1, i) : path = Joins(s)[j]
      <4>1. path \in {Joins(s)[j] : j \in Wholes(s, 1, i)}
        <5>1. Decode(SubSeq(key, 1, i)) = {p \in {Joins(s)[j] : j \in Wholes(s, 1, i)} : IsPath(p)}
          BY <1>1, <1>2, <3>1, CutKeyDecodes
        <5> QED
          BY <1>8, <5>1
      <4> QED
        BY <4>1
    <3>3. j \in 1 .. m - 1
      <4>1. j \in 1 .. m /\ Begins(s, j) = i + 1
        BY <1>1 DEF Wholes
      <4>2. m \in 0 .. m
        BY <1>3
      <4>3. j # m
        BY <1>5, <3>1, <4>1, <4>2
      <4> QED
        BY <1>3, <4>1, <4>3
    <3>4. PICK q \in Text : t = Join(path, q)
      BY <1>1, <1>3, <3>2, <3>3, JoinsUnder
    <3>5. path \in Text
      <4>1. j \in 1 .. m
        BY <1>3, <3>3
      <4> QED
        BY <1>1, <1>3, <3>2, <4>1, JoinsFacts
    <3>6. Suffix(t, path) = {q}
      BY <3>4, <3>5, JoinedComesBack
    <3> QED
      BY <3>6 DEF IsUnder
  <2> QED
    BY <2>1, <2>2
<1> QED
  BY <1>7, <1>8

(* An entity comes back out of the index under its own name, whatever the  *)
(* lengths of its segments, the radix and the width of a header.           *)
THEOREM KeysComeBack == Spec => []KeysDecode
<1>1. IsText => KeysDecode
  <2> SUFFICES ASSUME IsText, IsPath(text), NEW key \in Encode(text)
               PROVE  /\ Decode(key) = {text}
                      /\ \A i \in 0 .. Len(key) - 1 : \A path \in Decode(SubSeq(key, 1, i)) :
                            IsUnder(text, path)
    BY DEF KeysDecode
  <2>1. text \in Text
    BY DEF IsText
  <2> QED
    BY <2>1, KeyComesBack
<1> QED
  BY Typed, <1>1, PTL

(* Each entity has a row of its own: no two paths have the same key.       *)
THEOREM PathsHaveTheirOwnRow ==
    \A p, q \in Text : IsPath(p) /\ IsPath(q) /\ Encode(p) \cap Encode(q) # {} => p = q
<1> SUFFICES ASSUME NEW p \in Text, NEW q \in Text, IsPath(p), IsPath(q),
                    NEW key \in Encode(p), key \in Encode(q)
             PROVE  p = q
  OBVIOUS
<1>1. Decode(key) = {p}
  BY KeyComesBack
<1>2. Decode(key) = {q}
  BY KeyComesBack
<1> QED
  BY <1>1, <1>2
=============================================================================
