--------------------------- MODULE CommitsProofs ----------------------------
(***************************************************************************)
(* Facts about publication histories (Commits.tla): what writing a commit  *)
(* adds, what a prefix keeps, and when the tombstones of a history go on   *)
(* naming the documents beneath them.  The theorems about the entity       *)
(* operations cite them by name.                                           *)
(***************************************************************************)
EXTENDS Commits, SequenceTheorems, TLAPS

(* A commit written on a parent is a history that ends in the publication  *)
(* and has exactly the parent beneath it (store.rs, write_commit).         *)
LEMMA WriteCommitFacts ==
    ASSUME NEW h \in History, NEW e \in Entry
    PROVE  LET c == WriteCommit(e, h) IN
           /\ c \in History
           /\ c # Absent
           /\ Len(c) = Len(h) + 1
           /\ \A i \in 1 .. Len(h) : c[i] = h[i]
           /\ Last(c) = e
           /\ Front(c) = h
<1> DEFINE c == WriteCommit(e, h)
<1>1. /\ c \in History
      /\ c # Absent
      /\ Len(c) = Len(h) + 1
      /\ \A i \in 1 .. Len(h) : c[i] = h[i]
      /\ c[Len(h) + 1] = e
  BY AppendProperties DEF History, WriteCommit, Absent
<1>2. Len(h) \in Nat
  BY LenProperties DEF History
<1>3. Last(c) = e
  BY <1>1 DEF Last
<1>4. Front(c) = h
  <2>1. Front(c) = SubSeq(c, 1, Len(h))
    BY <1>1, <1>2 DEF Front
  <2>2. /\ SubSeq(c, 1, Len(h)) \in History
        /\ Len(SubSeq(c, 1, Len(h))) = Len(h)
        /\ \A i \in 1 .. Len(h) : SubSeq(c, 1, Len(h))[i] = c[i]
    <3>1. \A i \in 1 .. Len(h) : c[i] \in Entry
      BY <1>1, ElementOfSeq DEF History
    <3>2. /\ SubSeq(c, 1, Len(h)) \in Seq(Entry)
          /\ Len(SubSeq(c, 1, Len(h))) = IF 1 <= Len(h) THEN Len(h) - 1 + 1 ELSE 0
          /\ \A i \in 1 .. Len(h) - 1 + 1 : SubSeq(c, 1, Len(h))[i] = c[1 + i - 1]
      BY <1>2, <3>1, SubSeqProperties
    <3> QED
      BY <1>2, <3>2 DEF History
  <2> HIDE DEF c
  <2>3. SubSeq(c, 1, Len(h)) = h
    BY <1>1, <2>2, SeqEqual DEF History
  <2> QED
    BY <2>1, <2>3
<1> QED
  BY <1>1, <1>3, <1>4

(* Every history but the empty one is its last publication written on the  *)
(* commit beneath it.                                                      *)
LEMMA FrontFacts ==
    ASSUME NEW h \in History, h # Absent
    PROVE  /\ Len(h) \in Nat \ {0}
           /\ Last(h) \in Entry
           /\ Front(h) \in History
           /\ h = WriteCommit(Last(h), Front(h))
<1>1. PICK s \in Seq(Entry), e \in Entry : h = Append(s, e)
  BY SequenceEmptyOrAppend DEF History, Absent
<1>2. Last(h) = e /\ Front(h) = s
  BY <1>1, WriteCommitFacts DEF WriteCommit, History
<1>3. Len(h) \in Nat \ {0}
  BY EmptySeq DEF History, Absent
<1> QED
  BY <1>1, <1>2, <1>3 DEF WriteCommit, History

(* A prefix relates two histories entry by entry.                          *)
LEMMA PrefixMeaning ==
    ASSUME NEW g \in History, NEW h \in History
    PROVE  IsPrefix(g, h) <=>
             /\ Len(g) <= Len(h)
             /\ \A i \in 1 .. Len(g) : g[i] = h[i]
<1>1. Len(g) \in Nat /\ Len(h) \in Nat
  BY LenProperties DEF History
<1>2. SubSeq(g, 1, Len(g)) = g
  BY SubSeqFull DEF History
<1>3. ASSUME Len(g) <= Len(h)
      PROVE  /\ SubSeq(h, 1, Len(g)) \in Seq(Entry)
             /\ Len(SubSeq(h, 1, Len(g))) = Len(g)
             /\ \A i \in 1 .. Len(g) : SubSeq(h, 1, Len(g))[i] = h[i]
  <2>1. \A i \in 1 .. Len(g) : h[i] \in Entry
    BY <1>1, <1>3, ElementOfSeq DEF History
  <2>2. /\ SubSeq(h, 1, Len(g)) \in Seq(Entry)
        /\ Len(SubSeq(h, 1, Len(g))) = IF 1 <= Len(g) THEN Len(g) - 1 + 1 ELSE 0
        /\ \A i \in 1 .. Len(g) - 1 + 1 : SubSeq(h, 1, Len(g))[i] = h[1 + i - 1]
    BY <1>1, <2>1, SubSeqProperties
  <2> QED
    BY <1>1, <2>2
<1>4. CASE Len(g) <= Len(h)
  <2>1. ASSUME \A i \in 1 .. Len(g) : g[i] = h[i]
        PROVE  g = SubSeq(h, 1, Len(g))
    BY <1>3, <1>4, <2>1, SeqEqual DEF History
  <2> QED
    BY <1>2, <1>3, <1>4, <2>1 DEF IsPrefix
<1>5. CASE ~(Len(g) <= Len(h))
  BY <1>5 DEF IsPrefix
<1> QED
  BY <1>4, <1>5

(* A commit is in its own history.                                         *)
LEMMA PrefixReflexive ==
    ASSUME NEW h \in History
    PROVE  IsPrefix(h, h)
<1>1. Len(h) \in Nat
  BY LenProperties DEF History
<1> QED
  BY <1>1, PrefixMeaning

(* What is in the history of an ancestor is in the history.                *)
LEMMA PrefixTransitive ==
    ASSUME NEW f \in History, NEW g \in History, NEW h \in History,
           IsPrefix(f, g), IsPrefix(g, h)
    PROVE  IsPrefix(f, h)
<1>1. Len(f) \in Nat /\ Len(g) \in Nat /\ Len(h) \in Nat
  BY LenProperties DEF History
<1> QED
  BY <1>1, PrefixMeaning

(* Writing a commit keeps its parent reachable.                            *)
LEMMA ParentIsPrefix ==
    ASSUME NEW h \in History, NEW e \in Entry
    PROVE  IsPrefix(h, WriteCommit(e, h))
<1>1. Len(h) \in Nat
  BY LenProperties DEF History
<1> QED
  BY <1>1, WriteCommitFacts, PrefixMeaning

(* What a caller may hold of a ref is a history its tip extends.           *)
LEMMA PrefixesFacts ==
    ASSUME NEW h \in History, NEW p \in Prefixes(h)
    PROVE  /\ p \in History
           /\ Len(p) <= Len(h)
           /\ \A i \in 1 .. Len(p) : p[i] = h[i]
<1>1. Len(h) \in Nat
  BY LenProperties DEF History
<1>2. PICK l \in 0 .. Len(h) : p = SubSeq(h, 1, l)
  BY DEF Prefixes
<1>3. \A i \in 1 .. l : h[i] \in Entry
  BY <1>1, ElementOfSeq DEF History
<1>4. /\ SubSeq(h, 1, l) \in Seq(Entry)
      /\ Len(SubSeq(h, 1, l)) = IF 1 <= l THEN l - 1 + 1 ELSE 0
      /\ \A i \in 1 .. l - 1 + 1 : SubSeq(h, 1, l)[i] = h[1 + i - 1]
  BY <1>1, <1>3, SubSeqProperties
<1> QED
  BY <1>1, <1>2, <1>4 DEF History

-----------------------------------------------------------------------------
(* Tombstones *)

(* No publication, no tombstone.                                           *)
LEMMA AbsentTombstones == Absent \in History /\ TombstonesName(Absent)
<1>1. Absent \in History /\ Len(Absent) = 0
  BY EmptySeq DEF Absent, History
<1> QED
  BY <1>1 DEF TombstonesName

(* The tombstones of a prefix still name what lies beneath them.           *)
LEMMA PrefixTombstones ==
    ASSUME NEW h \in History, NEW p \in Prefixes(h), TombstonesName(h)
    PROVE  TombstonesName(p)
<1>1. Len(h) \in Nat /\ Len(p) \in Nat
  BY PrefixesFacts, LenProperties DEF History
<1>2. SUFFICES ASSUME NEW i \in 1 .. Len(p), p[i].dead
               PROVE  i > 1 /\ ~p[i - 1].dead /\ p[i - 1].doc = p[i].doc
  BY DEF TombstonesName
<1>3. i \in 1 .. Len(h) /\ p[i] = h[i] /\ h[i].dead
  BY <1>1, <1>2, PrefixesFacts
<1>4. i > 1 /\ ~h[i - 1].dead /\ h[i - 1].doc = h[i].doc
  BY <1>3 DEF TombstonesName
<1>5. p[i - 1] = h[i - 1]
  BY <1>1, <1>4, PrefixesFacts
<1> QED
  BY <1>3, <1>4, <1>5

(* A publication disturbs no tombstone, and a tombstone that names a live  *)
(* tip names what lies beneath it.                                         *)
LEMMA WriteTombstones ==
    ASSUME NEW h \in History, NEW e \in Entry, TombstonesName(h),
           e.dead => Present(h) /\ Last(h).doc = e.doc
    PROVE  TombstonesName(WriteCommit(e, h))
<1> DEFINE c == WriteCommit(e, h)
<1>1. Len(h) \in Nat
  BY LenProperties DEF History
<1>2. /\ Len(c) = Len(h) + 1
      /\ \A i \in 1 .. Len(h) : c[i] = h[i]
      /\ Last(c) = e
  BY WriteCommitFacts
<1>3. c[Len(h) + 1] = e
  BY <1>2 DEF Last
<1> HIDE DEF c
<1>4. SUFFICES ASSUME NEW i \in 1 .. Len(c), c[i].dead
               PROVE  i > 1 /\ ~c[i - 1].dead /\ c[i - 1].doc = c[i].doc
  BY DEF TombstonesName, c
<1>5. CASE i \in 1 .. Len(h)
  <2>1. h[i].dead
    BY <1>2, <1>4, <1>5
  <2>2. i > 1 /\ ~h[i - 1].dead /\ h[i - 1].doc = h[i].doc
    BY <1>5, <2>1 DEF TombstonesName
  <2> QED
    BY <1>1, <1>2, <1>5, <2>2
<1>6. CASE i = Len(h) + 1
  <2>1. Present(h) /\ Last(h).doc = e.doc
    BY <1>3, <1>4, <1>6
  <2>2. Len(h) > 0
    BY <2>1, FrontFacts DEF Present
  <2> QED
    BY <1>1, <1>2, <1>3, <1>6, <2>1, <2>2 DEF Present, Last
<1> QED
  BY <1>1, <1>2, <1>4, <1>5, <1>6

-----------------------------------------------------------------------------
(* Moves *)

(* A ref that moves goes from one history to another, and its tombstones   *)
(* go on naming what they deleted.                                         *)
LEMMA MoveKeepsTombstones ==
    ASSUME NEW old \in History, NEW new, NEW graftable, NEW prunable,
           TombstonesName(old), Moves(old, new, graftable, prunable)
    PROVE  new \in History /\ TombstonesName(new)
<1>1. new \in History
  BY DEF Moves
<1>2. CASE new = Absent
  BY <1>2, AbsentTombstones
<1>3. CASE new # Absent
  <2>1. /\ Last(new) \in Entry
        /\ Front(new) \in History
        /\ new = WriteCommit(Last(new), Front(new))
    BY <1>1, <1>3, FrontFacts
  <2>2. TombstonesName(Front(new))
    BY <1>3 DEF Moves, Publishes, Tombstones, Regrafts, Prunes
  <2>3. Last(new).dead => Present(Front(new)) /\ Last(Front(new)).doc = Last(new).doc
    BY <1>3 DEF Moves, Publishes, Tombstones, Regrafts, Prunes, Present
  <2> QED
    BY <1>1, <2>1, <2>2, <2>3, WriteTombstones
<1> QED
  BY <1>2, <1>3

(* A ref that is neither pruned nor grafted only gains publications.       *)
LEMMA MoveExtends ==
    ASSUME NEW old \in History, NEW new, Moves(old, new, FALSE, FALSE)
    PROVE  new \in History /\ IsPrefix(old, new)
<1>1. new \in History /\ new # Absent /\ Front(new) = old
  BY DEF Moves, Publishes, Tombstones, Present, Deleted
<1>2. Last(new) \in Entry /\ new = WriteCommit(Last(new), old)
  BY <1>1, FrontFacts
<1> QED
  BY <1>1, <1>2, ParentIsPrefix
=============================================================================
