--------------------------- MODULE CommandsProofs ---------------------------
(***************************************************************************)
(* What the commands of git-store promise, for every set of invocations,   *)
(* kinds, names and trees and every value codec: Commands.tla keeps its    *)
(* types, a commit that was printed stays in its history, a document is    *)
(* pinned to a schema its kind had while it was made, only bound documents *)
(* are published, and a line of output is about one publication.  Two more *)
(* are about single steps: what "not found" means, and what get shows.     *)
(***************************************************************************)
EXTENDS Commands, SequenceTheorems, WellFoundedInduction, TLAPS

-----------------------------------------------------------------------------
(* Sequences *)

(* Every nonempty set of numbers has a least one.                          *)
LEMMA LeastNumber ==
    ASSUME NEW T \in SUBSET Nat, T # {}
    PROVE  \E i \in T : \A j \in T : i <= j
<1>1. PICK x \in T : \A y \in T : ~ (<<y, x>> \in OpToRel(<, Nat))
  BY NatLessThanWellFounded, WFMin
<1>2. \A y \in T : <<y, x>> \in OpToRel(<, Nat) <=> y < x
  BY DEF OpToRel
<1>3. \A y \in T : y \in Nat /\ ~(y < x)
  BY <1>1, <1>2
<1>4. \A y \in T : x <= y
  BY <1>3
<1> QED
  BY <1>4

(* The last element of a nonempty sequence is one of its elements.         *)
LEMMA LastFacts ==
    ASSUME NEW S, NEW s \in Seq(S), s # <<>>
    PROVE  /\ Len(s) \in Nat \ {0}
           /\ Last(s) = s[Len(s)]
           /\ Last(s) \in S
BY DEF Last

(* What appending one element to a history does to it.                     *)
LEMMA AppendFacts ==
    ASSUME NEW S, NEW s \in Seq(S), NEW e \in S
    PROVE  /\ Append(s, e) \in Seq(S)
           /\ Append(s, e) # <<>>
           /\ Len(Append(s, e)) = Len(s) + 1
           /\ Last(Append(s, e)) = e
           /\ \A i \in 1 .. Len(s) : Append(s, e)[i] = s[i]
<1>1. /\ Append(s, e) \in Seq(S)
      /\ Len(Append(s, e)) = Len(s) + 1
      /\ \A i \in 1 .. Len(s) : Append(s, e)[i] = s[i]
      /\ Append(s, e)[Len(s) + 1] = e
      /\ Append(s, e) # <<>>
  BY AppendProperties
<1>2. Last(Append(s, e)) = e
  BY <1>1 DEF Last
<1> QED
  BY <1>1, <1>2

(* A sequence over a set is one over a larger set.                         *)
LEMMA SeqWider ==
    ASSUME NEW S, NEW T, S \subseteq T, NEW s \in Seq(S)
    PROVE  s \in Seq(T)
OBVIOUS

(* A prefix relates two sequences element by element.                      *)
LEMMA PrefixMeaning ==
    ASSUME NEW S, NEW s \in Seq(S), NEW t \in Seq(S)
    PROVE  IsPrefix(s, t) <=> /\ Len(s) <= Len(t)
                              /\ \A i \in 1 .. Len(s) : s[i] = t[i]
<1>1. Len(s) \in Nat /\ Len(t) \in Nat /\ SubSeq(s, 1, Len(s)) = s
  BY LenProperties, SubSeqFull
<1>2. ASSUME Len(s) <= Len(t)
      PROVE  /\ SubSeq(t, 1, Len(s)) \in Seq(S)
             /\ Len(SubSeq(t, 1, Len(s))) = Len(s)
             /\ \A i \in 1 .. Len(s) : SubSeq(t, 1, Len(s))[i] = t[i]
  <2>1. \A i \in 1 .. Len(s) : t[i] \in S
    BY <1>1, <1>2, ElementOfSeq
  <2>2. /\ SubSeq(t, 1, Len(s)) \in Seq(S)
        /\ Len(SubSeq(t, 1, Len(s))) = IF 1 <= Len(s) THEN Len(s) - 1 + 1 ELSE 0
        /\ \A i \in 1 .. Len(s) - 1 + 1 : SubSeq(t, 1, Len(s))[i] = t[1 + i - 1]
    BY <1>1, <2>1, SubSeqProperties
  <2> QED
    BY <1>1, <2>2
<1>3. ASSUME IsPrefix(s, t)
      PROVE  Len(s) <= Len(t) /\ \A i \in 1 .. Len(s) : s[i] = t[i]
  BY <1>1, <1>2, <1>3 DEF IsPrefix
<1>4. ASSUME Len(s) <= Len(t), \A i \in 1 .. Len(s) : s[i] = t[i]
      PROVE  IsPrefix(s, t)
  <2>1. SubSeq(t, 1, Len(s)) = s
    BY <1>2, <1>4, SeqEqual
  <2> QED
    BY <1>1, <1>4, <2>1 DEF IsPrefix
<1> QED
  BY <1>3, <1>4

(* A history extends itself.                                               *)
LEMMA PrefixReflexive ==
    ASSUME NEW S, NEW s \in Seq(S)
    PROVE  IsPrefix(s, s)
BY PrefixMeaning, LenProperties

(* Extending an extension extends.                                         *)
LEMMA PrefixTransitive ==
    ASSUME NEW S, NEW s \in Seq(S), NEW t \in Seq(S), NEW u \in Seq(S),
           IsPrefix(s, t), IsPrefix(t, u)
    PROVE  IsPrefix(s, u)
<1>1. Len(s) \in Nat /\ Len(t) \in Nat /\ Len(u) \in Nat
  BY LenProperties
<1>2. Len(s) <= Len(t) /\ \A i \in 1 .. Len(s) : s[i] = t[i]
  BY PrefixMeaning
<1>3. Len(t) <= Len(u) /\ \A i \in 1 .. Len(t) : t[i] = u[i]
  BY PrefixMeaning
<1>4. Len(s) <= Len(u) /\ \A i \in 1 .. Len(s) : s[i] = u[i]
  BY <1>1, <1>2, <1>3
<1> QED
  BY <1>4, PrefixMeaning

(* A new commit extends the history it was put on.                         *)
LEMMA PrefixOfAppend ==
    ASSUME NEW S, NEW s \in Seq(S), NEW e \in S
    PROVE  IsPrefix(s, Append(s, e))
<1>1. Len(s) \in Nat
  BY LenProperties
<1>2. /\ Append(s, e) \in Seq(S)
      /\ Len(Append(s, e)) = Len(s) + 1
      /\ \A i \in 1 .. Len(s) : Append(s, e)[i] = s[i]
  BY AppendFacts
<1>3. Len(s) <= Len(Append(s, e)) /\ \A i \in 1 .. Len(s) : s[i] = Append(s, e)[i]
  BY <1>1, <1>2
<1> QED
  BY <1>2, <1>3, PrefixMeaning

(* The first elements of a sequence are a prefix of it.                    *)
LEMMA PrefixOfFirst ==
    ASSUME NEW S, NEW s \in Seq(S), NEW i \in 1 .. Len(s)
    PROVE  /\ SubSeq(s, 1, i) \in Seq(S)
           /\ SubSeq(s, 1, i) # <<>>
           /\ IsPrefix(SubSeq(s, 1, i), s)
<1>1. Len(s) \in Nat /\ i \in Nat /\ 1 <= i /\ i <= Len(s)
  BY LenProperties
<1>2. \A j \in 1 .. i : s[j] \in S
  BY <1>1, ElementOfSeq
<1>3. /\ SubSeq(s, 1, i) \in Seq(S)
      /\ Len(SubSeq(s, 1, i)) = IF 1 <= i THEN i - 1 + 1 ELSE 0
      /\ \A j \in 1 .. i - 1 + 1 : SubSeq(s, 1, i)[j] = s[1 + j - 1]
  BY <1>1, <1>2, SubSeqProperties
<1>4. Len(SubSeq(s, 1, i)) = i /\ \A j \in 1 .. i : SubSeq(s, 1, i)[j] = s[j]
  BY <1>1, <1>3
<1>5. SubSeq(s, 1, i) # <<>>
  BY <1>1, <1>4
<1> QED
  BY <1>1, <1>3, <1>4, <1>5, PrefixMeaning

-----------------------------------------------------------------------------
(* Exits and documents (Documents.tla) *)

(* A chain of checks succeeds if all of them do, and fails with a failure  *)
(* of one of them.                                                         *)
LEMMA FailureFacts ==
    ASSUME NEW n \in Nat, NEW exits \in [1 .. n -> Exits]
    PROVE  /\ FirstFailure(exits) \in Exits
           /\ FirstFailure(exits) = "ok" => \A i \in 1 .. n : exits[i] = "ok"
<1> DEFINE bad == {i \in 1 .. n : exits[i] # "ok"}
           first == CHOOSE i \in bad : \A j \in bad : i <= j
<1>0. exits \in Seq(Exits) /\ Len(exits) = n
  OBVIOUS
<1>1. CASE bad = {}
  BY <1>0, <1>1 DEF FirstFailure, Exits
<1>2. CASE bad # {}
  <2>1. bad \in SUBSET Nat
    OBVIOUS
  <2>2. first \in bad
    <3>1. PICK i \in bad : \A j \in bad : i <= j
      BY <1>2, <2>1, LeastNumber
    <3> QED
      BY <3>1
  <2>3. FirstFailure(exits) = exits[first]
    BY <1>0, <1>2 DEF FirstFailure
  <2>4. exits[first] \in Exits /\ exits[first] # "ok"
    BY <2>2
  <2> QED
    BY <2>3, <2>4
<1> QED
  BY <1>1, <1>2

(* A series of checks ends as one of them does, or succeeds.               *)
LEMMA FailureIsListed ==
    ASSUME NEW S, NEW n \in Nat, NEW exits \in [1 .. n -> S]
    PROVE  FirstFailure(exits) \in S \cup {"ok"}
<1> DEFINE bad == {i \in 1 .. n : exits[i] # "ok"}
           first == CHOOSE i \in bad : \A j \in bad : i <= j
<1>0. exits \in Seq(S) /\ Len(exits) = n
  OBVIOUS
<1>1. CASE bad = {}
  BY <1>0, <1>1 DEF FirstFailure
<1>2. CASE bad # {}
  <2>1. bad \in SUBSET Nat
    OBVIOUS
  <2>2. first \in bad
    <3>1. PICK i \in bad : \A j \in bad : i <= j
      BY <1>2, <2>1, LeastNumber
    <3> QED
      BY <3>1
  <2>3. FirstFailure(exits) = exits[first]
    BY <1>0, <1>2 DEF FirstFailure
  <2> QED
    BY <2>2, <2>3
<1> QED
  BY <1>1, <1>2

(* Two checks, one after the other.                                        *)
LEMMA TwoChecks ==
    ASSUME NEW x \in Exits, NEW y \in Exits
    PROVE  /\ FirstFailure(<<x, y>>) \in Exits
           /\ FirstFailure(<<x, y>>) = "ok" => x = "ok" /\ y = "ok"
<1>1. <<x, y>> \in [1 .. 2 -> Exits]
  OBVIOUS
<1>2. /\ FirstFailure(<<x, y>>) \in Exits
      /\ FirstFailure(<<x, y>>) = "ok" => \A i \in 1 .. 2 : <<x, y>>[i] = "ok"
  BY <1>1, FailureFacts
<1> QED
  BY <1>2

(* The same of three checks, for the callers that have three.              *)
LEMMA ThreeChecks ==
    ASSUME NEW x \in Exits, NEW y \in Exits, NEW z \in Exits
    PROVE  /\ FirstFailure(<<x, y, z>>) \in Exits
           /\ FirstFailure(<<x, y, z>>) = "ok" => x = "ok" /\ y = "ok" /\ z = "ok"
<1>1. <<x, y, z>> \in [1 .. 3 -> Exits]
  OBVIOUS
<1>2. /\ FirstFailure(<<x, y, z>>) \in Exits
      /\ FirstFailure(<<x, y, z>>) = "ok" => \A i \in 1 .. 3 : <<x, y, z>>[i] = "ok"
  BY <1>1, FailureFacts
<1> QED
  BY <1>2

(* The same of four checks, for the items of a publication.                *)
LEMMA FourChecks ==
    ASSUME NEW w \in Exits, NEW x \in Exits, NEW y \in Exits, NEW z \in Exits
    PROVE  /\ FirstFailure(<<w, x, y, z>>) \in Exits
           /\ FirstFailure(<<w, x, y, z>>) = "ok" =>
                  w = "ok" /\ x = "ok" /\ y = "ok" /\ z = "ok"
<1>1. <<w, x, y, z>> \in [1 .. 4 -> Exits]
  OBVIOUS
<1>2. /\ FirstFailure(<<w, x, y, z>>) \in Exits
      /\ FirstFailure(<<w, x, y, z>>) = "ok" => \A i \in 1 .. 4 : <<w, x, y, z>>[i] = "ok"
  BY <1>1, FailureFacts
<1> QED
  BY <1>2

(* Every error of the library has a class.                                 *)
LEMMA ErrorsAreFailures == \A error : ExitOf(error) \in Classes
BY Zenon DEF ExitOf, Classes

(* A class of failures is an exit, and not the successful one.             *)
LEMMA FailureIsNoSuccess == Classes \subseteq Exits /\ "ok" \in Exits /\ "ok" \notin Classes
BY DEF Exits, Classes

(* A root that can be split is one inspection calls bound: the two ways to *)
(* publish admit the same documents.                                       *)
LEMMA SplitIsBound ==
    ASSUME NEW root \in Roots, SplitExit(root) = "ok"
    PROVE  Inspect(root) = "bound"
<1>1. root.schema \notin {NoEntry, "file"} /\ root.bare # NoValue
  BY ErrorsAreFailures, FailureIsNoSuccess, Zenon DEF SplitExit
<1>2. root.schema # "mislabelled"
  BY <1>1, ErrorsAreFailures, FailureIsNoSuccess, Zenon DEF SplitExit
<1>3. root.schema # "missing"
  BY <1>1, <1>2, ErrorsAreFailures, FailureIsNoSuccess, Zenon DEF SplitExit
<1>4. root.schema \notin Odd \ {"junk"}
  BY <1>1, <1>2, <1>3 DEF Odd
<1> QED
  BY <1>1, <1>4, Zenon DEF Inspect

(* Every check of a document ends in an exit.                              *)
LEMMA ChecksExit ==
    ASSUME NEW root, NEW schema, NEW value
    PROVE  /\ SplitExit(root) \in Exits
           /\ SchemaExit(schema) \in Exits
           /\ RootExit(schema) \in Exits
           /\ EncodeExit(value, schema) \in Exits
           /\ ReadBareExit(root, schema) \in Exits
<1>1. \A error : ExitOf(error) \in Exits
  BY ErrorsAreFailures, FailureIsNoSuccess
<1>2. SplitExit(root) \in Exits
  BY <1>1, FailureIsNoSuccess, Zenon DEF SplitExit
<1> QED
  BY <1>1, <1>2, FailureIsNoSuccess DEF SchemaExit, RootExit, EncodeExit, ReadBareExit

(* Reading, binding and compiling end in an exit, on any tree.             *)
LEMMA DocumentsExit ==
    ASSUME NEW root, NEW schema, NEW value
    PROVE  /\ DecodeExit(root) \in Exits
           /\ BindExit(root, schema) \in Exits
           /\ CompileExit(value, schema) \in Exits
<1> DEFINE part == ReadBareExit(Root(root.bare, NoEntry), root.schema)
<1>1. part \in Exits
  BY ChecksExit
<1>2. FirstFailure(<<SchemaExit(root.schema), RootExit(root.schema), part>>) \in Exits
  <2>1. SchemaExit(root.schema) \in Exits /\ RootExit(root.schema) \in Exits
    BY ChecksExit
  <2> HIDE DEF part
  <2> QED
    BY <1>1, <2>1, ThreeChecks
<1>3. DecodeExit(root) \in Exits
  BY <1>2, ChecksExit DEF DecodeExit
<1>4. BindExit(root, schema) \in Exits
  BY ChecksExit, ThreeChecks DEF BindExit
<1>5. CompileExit(value, schema) \in Exits
  BY ChecksExit, TwoChecks DEF CompileExit
<1> QED
  BY <1>3, <1>4, <1>5

(* A context changes a failure into a failure only.                        *)
LEMMA WithinExits ==
    ASSUME NEW exit \in Exits, NEW context \in Classes
    PROVE  /\ Within(exit, context) \in Exits
           /\ Within(exit, context) = "ok" => exit = "ok"
BY FailureIsNoSuccess DEF Within, Prefer

(* What is read under a schema is a value, and what is encoded is bare.    *)
LEMMA CodecTypes ==
    ASSUME NEW bare, NEW schema, NEW value
    PROVE  /\ Decode(bare, schema) \subseteq Values
           /\ Encode(value, schema) \subseteq Bare
BY EncodingAssumption DEF Decode, Encode

(* A value that was bound to a schema reads back as itself.                *)
LEMMA BoundReadsBack ==
    ASSUME NEW value, NEW schema \in Schemas, NEW root \in Bound(value, schema)
    PROVE  /\ root \in Roots
           /\ Root(root.bare, NoEntry) \in Roots
           /\ root.schema = schema
           /\ ValueOf(root) = {value}
<1>1. PICK bare \in Encode(value, schema) : root = Root(bare, schema)
  BY DEF Bound
<1>2. root.bare = bare /\ root.schema = schema
  BY <1>1 DEF Root
<1>3. bare \in Bare
  BY CodecTypes
<1>4. root \in Roots /\ Root(bare, NoEntry) \in Roots
  BY <1>1, <1>3 DEF Root, Roots
<1>5. PICK x \in Encoding : x[1] = value /\ x[2] = schema /\ x[3] = bare
  BY DEF Encode
<1>6. value \in Decode(bare, schema)
  BY <1>5 DEF Decode
<1>7. \A v \in Decode(bare, schema) : v = value
  BY <1>5, EncodingAssumption DEF Decode
<1> QED
  BY <1>2, <1>4, <1>6, <1>7 DEF ValueOf

-----------------------------------------------------------------------------
(* The invariant *)

\* What a published document may be, and the histories a ref may have.
Publishable == {root \in objects : Inspect(root) = "bound"}
History(r) == IF r \in Kinds THEN Seq(Universe) ELSE Seq(Publishable)

StoreOK ==
    /\ DOMAIN refs = Refs
    /\ objects \subseteq Roots
    /\ \A r \in Refs : refs[r] \in History(r)

RequestsOK == DOMAIN ask = Runs /\ \A c \in Runs : IsRequest(ask[c])

\* The parts of LinesAgree and of ShownCommitsStay that are about one line.
Agrees(line) ==
    line.ref # NoRef =>
        /\ line.trees \subseteq {Last(line.commit)}
        /\ line.values # {} => line.values = ValueOf(Last(line.commit))
Held(line) ==
    line.ref # NoRef =>
        /\ line.commit \in History(line.ref)
        /\ line.ref \notin Grafted => IsPrefix(line.commit, refs[line.ref])
Shown(line) == line \in Lines /\ Agrees(line) /\ Held(line)

\* A line that waits for the batch it is about.
Pending(c, line) ==
    \E i \in DOMAIN job[c].edits :
        line.ref = job[c].edits[i].name /\ line.commit = job[c].edits[i].new

Pinned(c, root) ==
    /\ ValueOf(root) = {ask[c].text}
    /\ \E i \in DOMAIN refs[ask[c].kind] :
          i >= job[c].since /\ refs[ask[c].kind][i] = root.schema
PinnedLines(c, lines) ==
    Verb(c) \in {"compile", "put"} =>
        \A line \in lines : \A root \in line.trees : Pinned(c, root)

PlanItems == [name : Names, root : Roots, token : SUBSET Seq(Roots), parent : SUBSET Seq(Roots)]
Edits == [name : Names, old : Seq(Roots), new : Seq(Roots)]
Jobs == [since : Nat, seen : Seq(Schemas \cup Roots), found : Roots, plan : Seq(PlanItems),
         next : Nat \ {0}, edits : Seq(Edits), lines : SUBSET Lines, left : SUBSET Refs,
         moved : BOOLEAN]

PlanOK(c) ==
    \A i \in DOMAIN job[c].plan :
        /\ job[c].plan[i].root \in objects
        /\ job[c].plan[i].parent \subseteq Seq(Publishable)
        /\ job[c].plan[i].parent # {} => job[c].plan[i].name \in Grafted
        /\ Verb(c) \in {"compile", "put"} => Pinned(c, job[c].plan[i].root)
EditsOK(c) ==
    /\ Verb(c) \in {"schema show all", "ref list"} => job[c].edits = <<>>
    /\ \A i \in DOMAIN job[c].edits :
          /\ job[c].edits[i].new \in Seq(Publishable) \ {Absent}
          /\ job[c].edits[i].name \notin Grafted =>
                 IsPrefix(job[c].edits[i].old, job[c].edits[i].new)
LinesOK(c) ==
    /\ \A line \in job[c].lines : Agrees(line) /\ (Held(line) \/ Pending(c, line))
    /\ PinnedLines(c, job[c].lines)
SinceOK(c) ==
    Verb(c) \in {"compile", "put"} => job[c].since <= Len(refs[ask[c].kind])
JobOK(c) == job[c] \in Jobs /\ PlanOK(c) /\ EditsOK(c) /\ LinesOK(c) /\ SinceOK(c)

\* Between the two steps of schema put, and between those of entity resolve;
\* nothing is planned before the value is there.
PhaseOK(c) ==
    /\ At(c, {"compile", "put"}, "start") => job[c].plan = <<>> /\ job[c].lines = {}
    /\ At(c, {"schema put"}, "forward") => ask[c].text \in Universe
    /\ At(c, {"entity resolve"}, "show") =>
           Shown(Line(ask[c].name, job[c].seen, {TreeRead(c)}, {}))

AnswerOK(c) ==
    /\ answer[c].exit \in Exits \cup {"none"}
    /\ answer[c].exit = "none" <=> step[c] # "done"
    /\ answer[c].exit = "none" => answer[c].lines = {}
    /\ \A line \in answer[c].lines : Shown(line)
    /\ PinnedLines(c, answer[c].lines)

RunOK(c) == step[c] \in Steps /\ JobOK(c) /\ PhaseOK(c) /\ AnswerOK(c)

\* The inductive invariant.
IInv ==
    /\ StoreOK
    /\ RequestsOK
    /\ step \in [Runs -> Steps] /\ DOMAIN job = Runs /\ DOMAIN answer = Runs
    /\ \A c \in Runs : RunOK(c)

\* What no step undoes: objects stay, histories without explicit parents grow.
Grows ==
    /\ StoreOK'
    /\ ask' = ask
    /\ objects \subseteq objects'
    /\ \A r \in Refs \ Grafted : IsPrefix(refs[r], refs'[r])

-----------------------------------------------------------------------------
(* What growth keeps *)

(* What a ref may hold: schemas or documents, all of them in the store.    *)
LEMMA HistoryFacts ==
    ASSUME StoreOK, NEW r \in Refs
    PROVE  /\ refs[r] \in History(r)
           /\ History(r) \subseteq Seq(Schemas \cup Roots)
           /\ r \in Kinds => History(r) = Seq(Universe)
           /\ r \in Names => History(r) = Seq(Publishable) /\ refs[r] \in Seq(Roots)
<1>1. Universe \subseteq Schemas
  BY SchemasAssumption
<1>2. Publishable \subseteq Roots
  BY DEF StoreOK, Publishable
<1>3. Seq(Universe) \subseteq Seq(Schemas \cup Roots)
  BY <1>1, SeqWider
<1>4. Seq(Publishable) \subseteq Seq(Roots) /\ Seq(Publishable) \subseteq Seq(Schemas \cup Roots)
  BY <1>2, SeqWider
<1>5. refs[r] \in History(r)
  BY DEF StoreOK
<1>6. r \in Names => r \notin Kinds
  BY RefsAssumption
<1> QED
  BY <1>3, <1>4, <1>5, <1>6 DEF History

(* Only entities are published with explicit parents, so schemas never are.*)
LEMMA GraftedFacts == Grafted \subseteq Names /\ \A k \in Kinds : k \in Refs \ Grafted
BY RefsAssumption DEF Grafted, Refs

(* When the store grows, so does what a ref may hold.                      *)
LEMMA GrowthFacts ==
    ASSUME StoreOK, Grows
    PROVE  /\ Grafted' = Grafted
           /\ Publishable \subseteq Publishable'
           /\ \A r \in Refs : History(r) \subseteq History(r)'
<1>1. Grafted' = Grafted
  BY DEF Grows, Grafted, Verb
<1>2. Publishable \subseteq Publishable'
  BY DEF Grows, Publishable
<1>3. Seq(Publishable) \subseteq Seq(Publishable')
  BY <1>2, SeqWider
<1> QED
  BY <1>1, <1>2, <1>3 DEF History

(* The parts of a printed line have their types.                           *)
LEMMA LineFields ==
    ASSUME NEW line \in Lines
    PROVE  /\ line.ref \in Refs \cup {NoRef}
           /\ line.commit \in Seq(Schemas \cup Roots)
           /\ line.ref = NoRef <=> line.commit = Absent
BY DEF Lines

(* A line that was right stays right.                                      *)
LEMMA ShownStays ==
    ASSUME StoreOK, Grows, NEW line \in Lines
    PROVE  /\ Held(line) => Held(line)'
           /\ Shown(line) => Shown(line)'
<1>1. ASSUME Held(line), line.ref # NoRef
      PROVE  /\ line.commit \in History(line.ref)'
             /\ line.ref \notin Grafted => IsPrefix(line.commit, refs'[line.ref])
  <2>1. line.ref \in Refs
    BY <1>1, LineFields
  <2>2. line.commit \in History(line.ref)'
    BY <1>1, <2>1, GrowthFacts DEF Held
  <2>3. ASSUME line.ref \notin Grafted
        PROVE  IsPrefix(line.commit, refs'[line.ref])
    <3> DEFINE before == refs[line.ref]
               after == refs'[line.ref]
    <3>1. IsPrefix(line.commit, before) /\ IsPrefix(before, after)
      BY <1>1, <2>1, <2>3 DEF Held, Grows
    <3>2. after \in History(line.ref)' /\ before \in History(line.ref)'
      BY <2>1, GrowthFacts DEF Grows, StoreOK
    <3>3. PICK S : History(line.ref)' = Seq(S)
      BY DEF History
    <3> HIDE DEF before, after
    <3>4. IsPrefix(line.commit, after)
      BY <2>2, <3>1, <3>2, <3>3, PrefixTransitive
    <3> QED
      BY <3>4 DEF after
  <2> QED
    BY <2>2, <2>3
<1>2. Held(line) => Held(line)'
  BY <1>1, GrowthFacts DEF Held
<1>3. Agrees(line) => Agrees(line)'
  BY DEF Agrees
<1> QED
  BY <1>2, <1>3 DEF Shown

(* A document stays pinned to a schema that its kind has had.              *)
LEMMA PinnedStays ==
    ASSUME StoreOK, RequestsOK, Grows, NEW c \in Runs, NEW root,
           Verb(c) \in {"compile", "put"}, job'[c].since = job[c].since, Pinned(c, root)
    PROVE  Pinned(c, root)'
<1> DEFINE before == refs[ask[c].kind]
           after == refs'[ask[c].kind]
<1>1. ask[c].kind \in Kinds
  BY DEF RequestsOK, IsRequest, Verb
<1>2. ask[c].kind \in Refs /\ IsPrefix(before, after)
  BY <1>1, GraftedFacts DEF Grows
<1>3. before \in Seq(Universe) /\ after \in Seq(Universe)
  BY <1>1, <1>2, HistoryFacts DEF Grows, StoreOK, History
<1>4. Len(before) <= Len(after) /\ \A i \in 1 .. Len(before) : before[i] = after[i]
  BY <1>2, <1>3, PrefixMeaning
<1>5. PICK i \in DOMAIN before : i >= job[c].since /\ before[i] = root.schema
  BY DEF Pinned
<1>6. Len(before) \in Nat /\ Len(after) \in Nat
  BY <1>3, LenProperties
<1>7. i \in DOMAIN after /\ after[i] = root.schema
  <2>1. DOMAIN before = 1 .. Len(before) /\ DOMAIN after = 1 .. Len(after)
    BY <1>3, LenProperties
  <2> HIDE DEF before, after
  <2>2. 1 .. Len(before) \subseteq 1 .. Len(after)
    BY <1>4, <1>6
  <2> QED
    BY <1>4, <1>5, <2>1, <2>2
<1>8. ask'[c].kind = ask[c].kind /\ ask'[c].text = ask[c].text
  BY DEF Grows
<1> QED
  BY <1>5, <1>7, <1>8 DEF Pinned

(* What an invocation has in hand stays right while others go on, and      *)
(* while it goes on itself without changing it: its plan,                  *)
LEMMA PlanStays ==
    ASSUME IInv, Grows, NEW c \in Runs,
           job'[c].since = job[c].since, job'[c].plan = job[c].plan
    PROVE  PlanOK(c)'
<1>0. /\ StoreOK /\ RequestsOK /\ JobOK(c) /\ job[c] \in Jobs
      /\ Verb(c)' = Verb(c) /\ Grafted' = Grafted
  BY GrowthFacts DEF IInv, RunOK, JobOK, Grows, Verb
<1> SUFFICES ASSUME NEW i \in DOMAIN job[c].plan
             PROVE  LET item == job[c].plan[i]
                    IN  /\ item.root \in objects'
                        /\ item.parent \subseteq Seq(Publishable')
                        /\ item.parent # {} => item.name \in Grafted'
                        /\ Verb(c) \in {"compile", "put"} => Pinned(c, item.root)'
  BY <1>0 DEF PlanOK
<1>1. PICK item : item = job[c].plan[i]
  OBVIOUS
<1>2. /\ item.root \in objects
      /\ item.parent \subseteq Seq(Publishable)
      /\ item.parent # {} => item.name \in Grafted
      /\ Verb(c) \in {"compile", "put"} => Pinned(c, item.root)
  BY <1>0, <1>1 DEF JobOK, PlanOK
<1>3. item.root \in objects' /\ item.parent \subseteq Seq(Publishable')
  BY <1>0, <1>2, GrowthFacts, SeqWider DEF Grows
<1>4. ASSUME Verb(c) \in {"compile", "put"} PROVE Pinned(c, item.root)'
  <2>1. PICK root : root = item.root
    OBVIOUS
  <2>2. Pinned(c, root)'
    BY <1>0, <1>2, <1>4, <2>1, PinnedStays
  <2> QED
    BY <2>1, <2>2
<1> QED
  BY <1>0, <1>1, <1>2, <1>3, <1>4

(* its edits,                                                              *)
LEMMA EditsStay ==
    ASSUME IInv, Grows, NEW c \in Runs, job'[c].edits = job[c].edits
    PROVE  EditsOK(c)'
<1>0. /\ StoreOK /\ RequestsOK /\ JobOK(c) /\ job[c] \in Jobs
      /\ Verb(c)' = Verb(c) /\ Grafted' = Grafted
  BY GrowthFacts DEF IInv, RunOK, JobOK, Grows, Verb
<1> SUFFICES ASSUME NEW i \in DOMAIN job[c].edits
             PROVE  /\ job[c].edits[i].new \in Seq(Publishable') \ {Absent}
                    /\ job[c].edits[i].name \notin Grafted =>
                           IsPrefix(job[c].edits[i].old, job[c].edits[i].new)
  BY <1>0 DEF EditsOK, JobOK
<1>1. /\ job[c].edits[i].new \in Seq(Publishable) \ {Absent}
      /\ job[c].edits[i].name \notin Grafted =>
             IsPrefix(job[c].edits[i].old, job[c].edits[i].new)
  BY <1>0 DEF EditsOK, JobOK
<1> QED
  BY <1>0, <1>1, GrowthFacts, SeqWider

(* the lines it will print,                                                *)
LEMMA LinesStay ==
    ASSUME IInv, Grows, NEW c \in Runs, job'[c].since = job[c].since,
           job'[c].edits = job[c].edits, job'[c].lines = job[c].lines
    PROVE  LinesOK(c)'
<1>0. /\ StoreOK /\ RequestsOK /\ JobOK(c) /\ job[c] \in Jobs
      /\ Verb(c)' = Verb(c) /\ Grafted' = Grafted
  BY GrowthFacts DEF IInv, RunOK, JobOK, Grows, Verb
<1>1. ASSUME NEW line \in job[c].lines
      PROVE  Agrees(line)' /\ (Held(line)' \/ Pending(c, line)')
  <2>1. line \in Lines /\ Agrees(line) /\ (Held(line) \/ Pending(c, line))
    BY <1>0 DEF Jobs, JobOK, LinesOK
  <2>2. Agrees(line)'
    BY <2>1 DEF Agrees
  <2>3. Held(line) => Held(line)'
    BY <1>0, <2>1, ShownStays
  <2>4. Pending(c, line) => Pending(c, line)'
    BY DEF Pending
  <2> QED
    BY <2>1, <2>2, <2>3, <2>4
<1>2. ASSUME Verb(c) \in {"compile", "put"}, NEW line \in job[c].lines, NEW root \in line.trees
      PROVE  Pinned(c, root)'
  BY <1>0, <1>2, PinnedStays DEF JobOK, LinesOK, PinnedLines
<1> QED
  BY <1>0, <1>1, <1>2 DEF LinesOK, PinnedLines

(* and the schema it has seen first.                                       *)
LEMMA SinceStays ==
    ASSUME IInv, Grows, NEW c \in Runs, job'[c].since = job[c].since
    PROVE  SinceOK(c)'
<1>0. /\ StoreOK /\ RequestsOK /\ JobOK(c) /\ job[c] \in Jobs
      /\ Verb(c)' = Verb(c) /\ Grafted' = Grafted
  BY GrowthFacts DEF IInv, RunOK, JobOK, Grows, Verb
<1> SUFFICES ASSUME Verb(c) \in {"compile", "put"}
             PROVE  job[c].since <= Len(refs'[ask[c].kind])
  BY <1>0 DEF SinceOK, Grows
<1> DEFINE before == refs[ask[c].kind]
           after == refs'[ask[c].kind]
<1>1. ask[c].kind \in Kinds
  BY <1>0 DEF RequestsOK, IsRequest, Verb
<1>2. IsPrefix(before, after) /\ before \in Seq(Universe) /\ after \in Seq(Universe)
  BY <1>0, <1>1, GraftedFacts, HistoryFacts DEF Grows, StoreOK, History
<1>3. Len(before) <= Len(after) /\ Len(before) \in Nat /\ Len(after) \in Nat
  BY <1>2, PrefixMeaning, LenProperties
<1>4. job[c].since <= Len(before) /\ job[c].since \in Nat
  BY <1>0 DEF JobOK, SinceOK, Jobs
<1> QED
  BY <1>3, <1>4

(* Local variables that a step leaves alone stay right as the store grows. *)
LEMMA JobStays ==
    ASSUME IInv, Grows, NEW c \in Runs, job'[c] \in Jobs,
           job'[c].since = job[c].since, job'[c].plan = job[c].plan,
           job'[c].edits = job[c].edits, job'[c].lines = job[c].lines
    PROVE  JobOK(c)'
BY PlanStays, EditsStay, LinesStay, SinceStays DEF JobOK

(* An invocation that does not step stays right as the store grows.        *)
LEMMA OutputStays ==
    ASSUME IInv, Grows, NEW c \in Runs, step'[c] = step[c],
           answer'[c] = answer[c], job'[c].since = job[c].since, job'[c].seen = job[c].seen,
           job'[c].plan = job[c].plan, job'[c].lines = job[c].lines
    PROVE  step'[c] \in Steps /\ PhaseOK(c)' /\ AnswerOK(c)'
<1>0. /\ StoreOK /\ RequestsOK /\ PhaseOK(c) /\ AnswerOK(c)
      /\ Verb(c)' = Verb(c) /\ ask'[c] = ask[c]
  BY DEF IInv, RunOK, Grows, Verb
<1>1. step'[c] \in Steps
  BY DEF IInv, RunOK
<1>2. PhaseOK(c)'
  <2>1. /\ At(c, {"schema put"}, "forward")' => ask'[c].text \in Universe
        /\ At(c, {"compile", "put"}, "start")' => job'[c].plan = <<>> /\ job'[c].lines = {}
    BY <1>0 DEF PhaseOK, At
  <2>2. ASSUME At(c, {"entity resolve"}, "show")'
        PROVE  Shown(Line(ask[c].name, job[c].seen, {TreeRead(c)}, {}))'
    <3>1. PICK line : line = Line(ask[c].name, job[c].seen, {TreeRead(c)}, {})
      OBVIOUS
    <3>2. line' = Line(ask[c].name, job[c].seen, {TreeRead(c)}, {})'
      BY <1>0, <3>1 DEF TreeRead
    <3>3. Shown(line)
      BY <1>0, <2>2, <3>1 DEF PhaseOK, At
    <3>4. Shown(line)'
      BY <1>0, <3>3, ShownStays DEF Shown
    <3> QED
      BY <3>2, <3>4
  <2> QED
    BY <2>1, <2>2 DEF PhaseOK
<1>3. AnswerOK(c)'
  <2>1. /\ answer'[c].exit \in Exits \cup {"none"}
        /\ answer'[c].exit = "none" <=> step'[c] # "done"
        /\ answer'[c].exit = "none" => answer'[c].lines = {}
    BY <1>0 DEF AnswerOK
  <2>2. \A line \in answer'[c].lines : Shown(line)'
    BY <1>0, ShownStays DEF AnswerOK, Shown
  <2>3. ASSUME Verb(c) \in {"compile", "put"}, NEW line \in answer[c].lines, NEW root \in line.trees
        PROVE  Pinned(c, root)'
    BY <1>0, <2>3, PinnedStays DEF AnswerOK, PinnedLines
  <2>4. PinnedLines(c, answer[c].lines)'
    BY <1>0, <2>3 DEF PinnedLines
  <2> QED
    BY <2>1, <2>2, <2>4 DEF AnswerOK
<1> QED
  BY <1>1, <1>2, <1>3

(* A step of one invocation leaves the others as they are, but that their  *)
(* batches may have been overtaken.                                        *)
LEMMA OthersStay ==
    ASSUME IInv, Grows, NEW c \in Runs, RunOK(c)',
           step' \in [Runs -> Steps], DOMAIN job' = Runs, DOMAIN answer' = Runs,
           \A d \in Runs \ {c} :
               /\ step'[d] = step[d]
               /\ answer'[d] = answer[d]
               /\ job'[d] \in {job[d], [job[d] EXCEPT !.moved = TRUE]}
    PROVE  IInv'
<1>1. ASSUME NEW d \in Runs \ {c}
      PROVE  RunOK(d)'
  <2>1. job[d] \in Jobs
    BY DEF IInv, RunOK, JobOK
  <2>2. /\ job'[d] \in Jobs
        /\ job'[d].since = job[d].since /\ job'[d].plan = job[d].plan
        /\ job'[d].edits = job[d].edits /\ job'[d].lines = job[d].lines
        /\ job'[d].seen = job[d].seen
    <3>1. CASE job'[d] = job[d]
      BY <2>1, <3>1
    <3>2. CASE job'[d] = [job[d] EXCEPT !.moved = TRUE]
      BY <2>1, <3>2 DEF Jobs
    <3> QED
      BY <3>1, <3>2
  <2>3. JobOK(d)'
    BY <2>2, JobStays
  <2>4. step'[d] \in Steps /\ PhaseOK(d)' /\ AnswerOK(d)'
    BY <2>2, OutputStays
  <2> QED
    BY <2>3, <2>4 DEF RunOK
<1>2. StoreOK' /\ RequestsOK'
  BY DEF Grows, IInv, RequestsOK
<1> QED
  BY <1>1, <1>2 DEF IInv

(* Steps that touch no ref and take no object away are growth.             *)
LEMMA ObjectsGrow ==
    ASSUME IInv, ask' = ask, refs' = refs, objects \subseteq objects', objects' \subseteq Roots
    PROVE  Grows
<1>1. StoreOK
  BY DEF IInv
<1>2. Publishable \subseteq Publishable'
  BY DEF Publishable
<1>3. \A r \in Refs : History(r) \subseteq History(r)'
  BY <1>2, SeqWider DEF History
<1>4. StoreOK'
  BY <1>1, <1>3 DEF StoreOK
<1>5. ASSUME NEW r \in Refs PROVE IsPrefix(refs[r], refs'[r])
  BY <1>1, HistoryFacts, PrefixReflexive
<1> QED
  BY <1>4, <1>5 DEF Grows

(* An invocation that ends has printed what it should.                     *)
LEMMA EndKeeps ==
    ASSUME IInv, Grows, NEW c \in Runs, NEW exit \in Exits, NEW lines,
           Exit(c, exit, lines), DOMAIN job' = Runs, JobOK(c)',
           \A d \in Runs \ {c} : job'[d] \in {job[d], [job[d] EXCEPT !.moved = TRUE]},
           \A line \in lines : Shown(line)',
           PinnedLines(c, lines)'
    PROVE  IInv'
<1>0. step \in [Runs -> Steps] /\ DOMAIN answer = Runs
  BY DEF IInv
<1>1. /\ step'[c] = "done" /\ step' \in [Runs -> Steps]
      /\ answer'[c] = [exit |-> exit, lines |-> lines] /\ DOMAIN answer' = Runs
      /\ \A d \in Runs \ {c} : step'[d] = step[d] /\ answer'[d] = answer[d]
  BY <1>0 DEF Exit, Goto, Steps
<1>2. AnswerOK(c)'
  <2>1. exit # "none"
    BY DEF Exits, Classes
  <2>2. answer'[c].exit = exit /\ answer'[c].lines = lines
    BY <1>1
  <2> QED
    BY <1>1, <2>1, <2>2 DEF AnswerOK
<1>3. PhaseOK(c)' /\ step'[c] \in Steps
  BY <1>1 DEF PhaseOK, At, Steps
<1>4. RunOK(c)'
  BY <1>2, <1>3 DEF RunOK
<1> QED
  BY <1>1, <1>4, OthersStay

(* Most commands only read and make objects; what they print was right     *)
(* before they ended.                                                      *)
LEMMA ReadKeeps ==
    ASSUME IInv, NEW c \in Runs, NEW exit \in Exits, NEW lines,
           Exit(c, exit, lines), UNCHANGED <<refs, ask, job>>,
           objects \subseteq objects', objects' \subseteq Roots,
           \A line \in lines : Shown(line),
           Verb(c) \notin {"compile", "put"} \/ lines = {}
    PROVE  IInv'
<1>1. Grows
  BY ObjectsGrow
<1>2. \A line \in lines : Shown(line)'
  BY <1>1, ShownStays DEF Shown, IInv
<1>3. PinnedLines(c, lines)'
  BY DEF PinnedLines, Verb
<1>4. DOMAIN job' = Runs /\ job'[c] \in Jobs /\ \A d \in Runs \ {c} : job'[d] = job[d]
  BY DEF IInv, RunOK, JobOK
<1>5. JobOK(c)'
  BY <1>1, <1>4, JobStays
<1> QED
  BY <1>1, <1>2, <1>3, <1>4, <1>5, EndKeeps

(* A command that fails prints nothing.                                    *)
LEMMA FailKeeps ==
    ASSUME IInv, NEW c \in Runs, NEW exit \in Exits, Exit(c, exit, {}),
           UNCHANGED <<refs, objects, ask, job>>
    PROVE  IInv'
<1>1. objects \subseteq objects' /\ objects' \subseteq Roots
  BY DEF IInv, StoreOK
<1> QED
  BY <1>1, ReadKeeps

(* An invocation that goes on has the right things in hand.                *)
LEMMA MoveKeeps ==
    ASSUME IInv, Grows, NEW c \in Runs, step[c] # "done", UNCHANGED answer,
           step' \in [Runs -> Steps], step'[c] \in Steps \ {"done"},
           DOMAIN job' = Runs, JobOK(c)', PhaseOK(c)',
           \A d \in Runs \ {c} : step'[d] = step[d] /\ job'[d] = job[d]
    PROVE  IInv'
<1>0. DOMAIN answer = Runs /\ AnswerOK(c)
  BY DEF IInv, RunOK
<1>1. AnswerOK(c)'
  <2>1. answer[c].exit = "none" /\ answer[c].lines = {}
    BY <1>0 DEF AnswerOK
  <2> QED
    BY <2>1 DEF AnswerOK, PinnedLines
<1>2. RunOK(c)'
  BY <1>1 DEF RunOK
<1> QED
  BY <1>0, <1>2, OthersStay

(* Going to another step changes nobody else's.                            *)
LEMMA GotoFacts ==
    ASSUME IInv, NEW c \in Runs, NEW label \in Steps, Goto(c, label)
    PROVE  step' \in [Runs -> Steps] /\ step'[c] = label /\ \A d \in Runs \ {c} : step'[d] = step[d]
BY DEF IInv, Goto

(* A command that prints one line if it succeeds.                          *)
LEMMA PrintKeeps ==
    ASSUME IInv, NEW c \in Runs, NEW exit \in Exits, NEW line,
           ExitWith(c, exit, {line}), UNCHANGED <<refs, objects, ask, job>>,
           exit = "ok" => Shown(line),
           Verb(c) \notin {"compile", "put"}
    PROVE  IInv'
<1>1. objects \subseteq objects' /\ objects' \subseteq Roots
  BY DEF IInv, StoreOK
<1>2. CASE exit = "ok"
  <2>1. Exit(c, exit, {line}) /\ \A l \in {line} : Shown(l)
    BY <1>2 DEF ExitWith
  <2> QED
    BY <1>1, <2>1, ReadKeeps
<1>3. CASE exit # "ok"
  BY <1>3, FailKeeps DEF ExitWith
<1> QED
  BY <1>2, <1>3

-----------------------------------------------------------------------------
(* Lines of output *)

(* A line about a commit may show the tree and the values of that commit.  *)
LEMMA LineParts ==
    ASSUME NEW r \in Refs, NEW commit \in Seq(Schemas \cup Roots), commit # Absent,
           NEW trees \in SUBSET {Last(commit)}, NEW values \in SUBSET Values,
           values # {} => values = ValueOf(Last(commit))
    PROVE  /\ Line(r, commit, trees, values) \in Lines
           /\ Agrees(Line(r, commit, trees, values))
<1>1. Last(commit) \in Schemas \cup Roots
  BY LastFacts DEF Absent
<1>2. r # NoRef
  BY RefsAssumption
<1>3. Line(r, commit, trees, values) \in Lines
  BY <1>1, <1>2 DEF Line, Lines
<1>4. Agrees(Line(r, commit, trees, values))
  BY DEF Line, Agrees
<1> QED
  BY <1>3, <1>4

(* A line about a commit that a ref holds, or has held.                    *)
LEMMA TipLine ==
    ASSUME StoreOK, NEW r \in Refs, NEW commit \in History(r), commit # Absent,
           r \notin Grafted => IsPrefix(commit, refs[r]),
           NEW trees \in SUBSET {Last(commit)}, NEW values \in SUBSET Values,
           values # {} => values = ValueOf(Last(commit))
    PROVE  Shown(Line(r, commit, trees, values))
<1>1. commit \in Seq(Schemas \cup Roots)
  BY HistoryFacts
<1>2. Held(Line(r, commit, trees, values))
  BY DEF Line, Held
<1> QED
  BY <1>1, <1>2, LineParts DEF Shown

(* A line about the commit a ref holds now may be printed.                 *)
LEMMA RefLine ==
    ASSUME StoreOK, NEW r \in Refs, refs[r] # Absent,
           NEW trees \in SUBSET {Last(refs[r])}, NEW values \in SUBSET Values,
           values # {} => values = ValueOf(Last(refs[r]))
    PROVE  Shown(Line(r, refs[r], trees, values))
<1>1. refs[r] \in History(r) /\ History(r) \subseteq Seq(Schemas \cup Roots)
  BY HistoryFacts
<1>2. IsPrefix(refs[r], refs[r])
  BY <1>1, PrefixReflexive
<1> QED
  BY <1>1, <1>2, TipLine

(* A line about no ref.                                                    *)
LEMMA BareLine ==
    ASSUME NEW trees \in SUBSET (Kinds \cup Schemas \cup Roots), NEW values \in SUBSET Values
    PROVE  Shown(Line(NoRef, Absent, trees, values))
<1>1. Line(NoRef, Absent, trees, values) \in Lines
  BY DEF Line, Lines, Absent
<1>2. Agrees(Line(NoRef, Absent, trees, values)) /\ Held(Line(NoRef, Absent, trees, values))
  BY DEF Line, Agrees, Held
<1> QED
  BY <1>1, <1>2 DEF Shown

-----------------------------------------------------------------------------
(* The commands that read by name *)

(* The invariant, opened once for every step that needs it.                *)
LEMMA InHand == IInv => /\ StoreOK /\ RequestsOK
                        /\ step \in [Runs -> Steps] /\ DOMAIN job = Runs /\ DOMAIN answer = Runs
                        /\ \A c \in Runs : IsRequest(ask[c]) /\ job[c] \in Jobs
                                           /\ JobOK(c) /\ PhaseOK(c)
BY DEF IInv, RequestsOK, RunOK, JobOK

(* The exits, named one by one.                                            *)
LEMMA SomeExits == {"ok", "cas", "notfound", "schema", "invalid", "other"} = Exits
BY DEF Exits, Classes

(* Reading by name succeeds only at a ref that exists.                     *)
LEMMA NameFacts ==
    ASSUME StoreOK, NEW n \in Names
    PROVE  /\ NamedExit(n) \in Exits
           /\ NamedExit(n) = "ok" => refs[n] # Absent
<1>1. DecodeExit(Root(Last(refs[n]).bare, SchemaRead(n, Last(refs[n])))) \in Exits
  BY DocumentsExit
<1>2. "other" \in Exits /\ "notfound" \in Exits /\ "notfound" # "ok"
  BY SomeExits
<1>3. NamedExit(n) \in Exits
  BY <1>1, <1>2, Zenon DEF NamedExit
<1>4. NamedExit(n) = "ok" => refs[n] # Absent
  BY <1>2, Zenon DEF NamedExit
<1> QED
  BY <1>3, <1>4

(* One lemma for each command: its step keeps the invariant.               *)
LEMMA GetKeeps == ASSUME IInv, NEW c \in Runs, Get(c) PROVE IInv'
<1> DEFINE name == ask[c].name
           line == Line(name, refs[name], {},
                        Decode(Last(refs[name]).bare, SchemaRead(name, Last(refs[name]))))
<1>1. StoreOK /\ name \in Names /\ Verb(c) = "get"
  BY InHand DEF Get, At, Verb, IsRequest
<1>2. name \in Refs
  BY <1>1 DEF Refs
<1>3. ASSUME NamedExit(name) = "ok"
      PROVE  Shown(line)
  <2>1. refs[name] # Absent
    BY <1>1, <1>3, NameFacts
  <2>2. Decode(Last(refs[name]).bare, SchemaRead(name, Last(refs[name]))) = ValueOf(Last(refs[name]))
    BY DEF SchemaRead, ValueOf
  <2> QED
    BY <1>1, <1>2, <2>1, <2>2, CodecTypes, RefLine
<1>4. ExitWith(c, NamedExit(name), {line}) /\ UNCHANGED <<refs, objects, ask, job>>
  BY DEF Get
<1> HIDE DEF line
<1> QED
  BY <1>1, <1>3, <1>4, NameFacts, PrintKeeps

LEMMA ReadNameKeeps == ASSUME IInv, NEW c \in Runs, ReadName(c) PROVE IInv'
<1> DEFINE name == ask[c].name
<1>1. /\ StoreOK /\ name \in Names /\ name \in Refs /\ Verb(c) = "entity resolve"
      /\ step[c] = "start"
  BY InHand DEF ReadName, At, Verb, IsRequest, Refs
<1>2. CASE NamedExit(name) # "ok"
  BY <1>1, <1>2, NameFacts, FailKeeps DEF ReadName
<1>3. CASE NamedExit(name) = "ok"
  <2>1. /\ job' = [job EXCEPT ![c].seen = refs[name]]
        /\ Goto(c, "show") /\ UNCHANGED answer /\ UNCHANGED <<refs, objects, ask>>
    BY <1>3 DEF ReadName
  <2>2. refs[name] \in Seq(Schemas \cup Roots)
    BY <1>1, HistoryFacts
  <2>3. /\ DOMAIN job' = Runs /\ job'[c] \in Jobs /\ \A d \in Runs \ {c} : job'[d] = job[d]
        /\ job'[c].since = job[c].since /\ job'[c].plan = job[c].plan
        /\ job'[c].edits = job[c].edits /\ job'[c].lines = job[c].lines
        /\ job'[c].seen = refs[name]
    BY <2>1, <2>2, InHand DEF Jobs
  <2>4. Grows
    BY <1>1, <2>1, ObjectsGrow DEF StoreOK
  <2>5. JobOK(c)'
    BY <2>3, <2>4, JobStays
  <2>6. step' \in [Runs -> Steps] /\ step'[c] = "show" /\ \A d \in Runs \ {c} : step'[d] = step[d]
    BY <2>1, GotoFacts DEF Steps
  <2>7. PhaseOK(c)'
    <3>1. PICK line : line = Line(name, refs[name], {Last(refs[name])}, {})
      OBVIOUS
    <3>2. refs[name] # Absent
      BY <1>1, <1>3, NameFacts
    <3>3. Shown(line)
      BY <1>1, <3>1, <3>2, RefLine
    <3>4. Shown(line)'
      BY <1>1, <2>4, <3>3, ShownStays DEF Shown
    <3>5. line = Line(name, job[c].seen, {TreeRead(c)}, {})'
      BY <2>1, <2>3, <3>1 DEF TreeRead
    <3>6. Verb(c)' = "entity resolve"
      BY <1>1, <2>1 DEF Verb
    <3> QED
      BY <2>1, <2>6, <3>4, <3>5, <3>6 DEF PhaseOK, At
  <2> QED
    BY <1>1, <2>1, <2>3, <2>4, <2>5, <2>6, <2>7, MoveKeeps DEF Steps
<1> QED
  BY <1>2, <1>3

LEMMA ShowNameKeeps == ASSUME IInv, NEW c \in Runs, ShowName(c) PROVE IInv'
<1>1. Shown(Line(ask[c].name, job[c].seen, {TreeRead(c)}, {}))
  BY InHand DEF ShowName, PhaseOK
<1>2. /\ objects \subseteq objects' /\ objects' \subseteq Roots
      /\ Verb(c) \notin {"compile", "put"} /\ "ok" \in Exits
  BY InHand, SomeExits DEF ShowName, StoreOK, At
<1> QED
  BY <1>1, <1>2, ReadKeeps DEF ShowName

LEMMA ResolveRefKeeps == ASSUME IInv, NEW c \in Runs, ResolveRef(c) PROVE IInv'
<1> DEFINE r == ask[c].ref
           exit == IF refs[r] = Absent THEN "notfound" ELSE "ok"
<1>1. StoreOK /\ r \in Refs /\ Verb(c) = "ref resolve"
  BY InHand DEF ResolveRef, At, Verb, IsRequest
<1>2. exit \in Exits
  BY SomeExits
<1>3. refs[r] # Absent => Shown(Line(r, refs[r], {}, {}))
  BY <1>1, RefLine
<1>4. /\ ExitWith(c, exit, {Line(r, refs[r], {}, {})})
      /\ UNCHANGED <<refs, objects, ask, job>>
  BY DEF ResolveRef
<1> QED
  BY <1>1, <1>2, <1>3, <1>4, PrintKeeps

LEMMA ShowSchemaKeeps == ASSUME IInv, NEW c \in Runs, ShowSchema(c) PROVE IInv'
<1> DEFINE r == ask[c].ref
           exit == IF refs[r] = Absent THEN ExitOf("NoSchema") ELSE "ok"
<1>1. StoreOK /\ r \in Kinds /\ r \in Refs /\ Verb(c) = "schema show"
  BY InHand DEF ShowSchema, At, Verb, IsRequest, Refs
<1>2. exit \in Exits /\ (exit = "ok" => refs[r] # Absent)
  BY ErrorsAreFailures, FailureIsNoSuccess
<1>3. ASSUME refs[r] # Absent
      PROVE  Shown(Line(r, Snapshot(c), {Last(Snapshot(c))}, {}))
  <2>1. refs[r] \in Seq(Universe) /\ History(r) = Seq(Universe)
    BY <1>1, HistoryFacts
  <2>2. 1 \in 1 .. Len(refs[r])
    BY <1>3, <2>1, LastFacts DEF Absent
  <2>3. /\ SubSeq(refs[r], 1, 1) \in Seq(Universe) /\ SubSeq(refs[r], 1, 1) # Absent
        /\ IsPrefix(SubSeq(refs[r], 1, 1), refs[r])
    BY <2>1, <2>2, PrefixOfFirst DEF Absent
  <2>4. IsPrefix(refs[r], refs[r])
    BY <2>1, PrefixReflexive
  <2>5. Snapshot(c) \in History(r) /\ Snapshot(c) # Absent /\ IsPrefix(Snapshot(c), refs[r])
    BY <1>3, <2>1, <2>3, <2>4 DEF Snapshot
  <2> HIDE DEF r
  <2> QED
    BY <1>1, <2>5, TipLine
<1>4. /\ ExitWith(c, exit, {Line(r, Snapshot(c), {Last(Snapshot(c))}, {})})
      /\ UNCHANGED <<refs, objects, ask, job>>
  BY DEF ShowSchema
<1> HIDE DEF exit
<1> QED
  BY <1>1, <1>2, <1>3, <1>4, PrintKeeps

LEMMA ShowLogKeeps == ASSUME IInv, NEW c \in Runs, ShowLog(c) PROVE IInv'
<1> DEFINE r == ask[c].ref
           lines == {Line(r, SubSeq(refs[r], 1, i), {}, {}) : i \in DOMAIN refs[r]}
<1>1. StoreOK /\ r \in Refs /\ Verb(c) = "log" /\ "ok" \in Exits
  BY InHand, SomeExits DEF ShowLog, At, Verb, IsRequest
<1>2. ASSUME NEW i \in DOMAIN refs[r]
      PROVE  Shown(Line(r, SubSeq(refs[r], 1, i), {}, {}))
  <2>1. PICK S : History(r) = Seq(S) /\ refs[r] \in Seq(S)
    BY <1>1, HistoryFacts DEF History
  <2>2. i \in 1 .. Len(refs[r])
    BY <2>1
  <2>3. /\ SubSeq(refs[r], 1, i) \in History(r) /\ SubSeq(refs[r], 1, i) # Absent
        /\ IsPrefix(SubSeq(refs[r], 1, i), refs[r])
    BY <2>1, <2>2, PrefixOfFirst DEF Absent
  <2> HIDE DEF r
  <2> QED
    BY <1>1, <2>3, TipLine
<1>3. \A l \in lines : Shown(l)
  BY <1>2
<1>4. Exit(c, "ok", lines) /\ UNCHANGED <<refs, objects, ask, job>>
  BY DEF ShowLog
<1>5. objects \subseteq objects' /\ objects' \subseteq Roots
  BY <1>1, <1>4 DEF StoreOK
<1> HIDE DEF lines
<1> QED
  BY <1>1, <1>3, <1>4, <1>5, ReadKeeps

-----------------------------------------------------------------------------
(* The commands that list refs *)

(* When neither the refs nor the objects move.                             *)
LEMMA QuietGrows ==
    ASSUME IInv, UNCHANGED <<refs, objects, ask>>
    PROVE  Grows
BY ObjectsGrow DEF IInv, StoreOK

(* Both listings begin alike.                                              *)
LEMMA StartListKeeps ==
    ASSUME IInv, NEW c \in Runs, NEW verb \in {"schema show all", "ref list"},
           NEW left \in SUBSET Refs, StartList(c, verb, left)
    PROVE  IInv'
<1>1. /\ job' = [job EXCEPT ![c].left = left] /\ Goto(c, "list")
      /\ UNCHANGED <<refs, objects, ask, answer>>
      /\ step[c] = "start" /\ Verb(c) = verb
  BY DEF StartList, At
<1>2. Grows
  BY <1>1, QuietGrows
<1>3. /\ DOMAIN job' = Runs /\ job'[c] \in Jobs /\ \A d \in Runs \ {c} : job'[d] = job[d]
      /\ job'[c].since = job[c].since /\ job'[c].plan = job[c].plan
      /\ job'[c].edits = job[c].edits /\ job'[c].lines = job[c].lines
  BY <1>1, InHand DEF Jobs
<1>4. JobOK(c)'
  BY <1>2, <1>3, JobStays
<1>5. step' \in [Runs -> Steps] /\ step'[c] = "list" /\ \A d \in Runs \ {c} : step'[d] = step[d]
  BY <1>1, GotoFacts DEF Steps
<1>6. PhaseOK(c)'
  BY <1>5 DEF PhaseOK, At
<1> QED
  BY <1>1, <1>2, <1>3, <1>4, <1>5, <1>6, MoveKeeps DEF Steps

LEMMA ListNextKeeps == ASSUME IInv, NEW c \in Runs, ListNext(c) PROVE IInv'
<1>1. PICK r \in job[c].left :
          job' = [job EXCEPT
             ![c].left = @ \ {r},
             ![c].lines = IF refs[r] = Absent THEN @ ELSE @ \cup {Listed(c, r)}]
  BY DEF ListNext
<1>2. /\ UNCHANGED <<refs, objects, ask, step, answer>> /\ step[c] = "list"
      /\ Verb(c) \in {"schema show all", "ref list"}
  BY DEF ListNext, At
<1>3. /\ StoreOK /\ job[c] \in Jobs /\ r \in Refs
      /\ DOMAIN job = Runs /\ step \in [Runs -> Steps] /\ LinesOK(c)
  BY InHand DEF Jobs, JobOK
<1>4. Grows
  BY <1>2, QuietGrows
<1>5. refs[r] # Absent => Shown(Listed(c, r))
  BY <1>3, RefLine DEF Listed
<1>6. PICK lines : lines = IF refs[r] = Absent THEN job[c].lines
                                               ELSE job[c].lines \cup {Listed(c, r)}
  OBVIOUS
<1>7. \A line \in lines : line \in job[c].lines \/ Shown(line)
  BY <1>5, <1>6
<1>8. lines \in SUBSET Lines
  BY <1>3, <1>7 DEF Shown, Jobs
<1>9. job' = [job EXCEPT ![c].left = job[c].left \ {r}, ![c].lines = lines]
  BY <1>1, <1>6
<1>10. /\ DOMAIN job' = Runs /\ job'[c] \in Jobs /\ \A d \in Runs \ {c} : job'[d] = job[d]
       /\ job'[c].since = job[c].since /\ job'[c].plan = job[c].plan
       /\ job'[c].edits = job[c].edits /\ job'[c].lines = lines
  BY <1>3, <1>8, <1>9 DEF Jobs
<1>11. LinesOK(c)'
  <2>1. Verb(c)' = Verb(c)
    BY <1>2 DEF Verb
  <2>2. ASSUME NEW line \in lines
        PROVE  Agrees(line)' /\ (Held(line)' \/ Pending(c, line)')
    <3>1. /\ line \in Lines /\ Agrees(line)
          /\ Held(line) \/ Pending(c, line)
      BY <1>3, <1>7, <1>8 DEF LinesOK, Shown
    <3>2. Agrees(line)'
      BY <3>1 DEF Agrees
    <3>3. Held(line) => Held(line)'
      BY <1>3, <1>4, <3>1, ShownStays
    <3>4. Pending(c, line) => Pending(c, line)'
      BY <1>10 DEF Pending
    <3> QED
      BY <3>1, <3>2, <3>3, <3>4
  <2> QED
    BY <1>2, <1>10, <2>1, <2>2 DEF LinesOK, PinnedLines
<1>12. JobOK(c)'
  BY <1>4, <1>10, <1>11, PlanStays, EditsStay, SinceStays DEF JobOK
<1>13. PhaseOK(c)'
  BY <1>2 DEF PhaseOK, At
<1> QED
  BY <1>2, <1>3, <1>4, <1>10, <1>12, <1>13, MoveKeeps DEF Steps

LEMMA ShowListKeeps == ASSUME IInv, NEW c \in Runs, ShowList(c) PROVE IInv'
<1>1. Verb(c) \in {"schema show all", "ref list"} /\ StoreOK /\ "ok" \in Exits
  BY InHand, SomeExits DEF ShowList, At
<1>2. ASSUME NEW line \in job[c].lines
      PROVE  Shown(line)
  <2>1. job[c].edits = <<>> /\ line \in Lines
    BY <1>1, InHand DEF JobOK, EditsOK, Jobs
  <2>2. ~Pending(c, line)
    BY <2>1 DEF Pending
  <2> QED
    BY <2>1, <2>2, InHand DEF JobOK, LinesOK, Shown
<1>3. objects \subseteq objects' /\ objects' \subseteq Roots
  BY <1>1 DEF ShowList, StoreOK
<1> QED
  BY <1>1, <1>2, <1>3, ReadKeeps DEF ShowList

LEMMA ListKindsKeeps == ASSUME IInv, NEW c \in Runs, ListKinds(c) PROVE IInv'
<1>1. StoreOK /\ Verb(c) = "kinds" /\ "ok" \in Exits
  BY InHand, SomeExits DEF ListKinds, At
<1>2. HasSchema \in SUBSET (Kinds \cup Schemas \cup Roots)
  BY DEF HasSchema
<1>3. Shown(Line(NoRef, Absent, HasSchema, {}))
  BY <1>2, BareLine
<1>4. objects \subseteq objects' /\ objects' \subseteq Roots
  BY <1>1 DEF ListKinds, StoreOK
<1> QED
  BY <1>1, <1>3, <1>4, ReadKeeps DEF ListKinds

LEMMA ListingKeeps ==
    ASSUME IInv, NEW c \in Runs, ShowSchemas(c) \/ ListRefs(c)
    PROVE  IInv'
<1>1. CASE ShowSchemas(c)
  <2>1. HasSchema \in SUBSET Refs
    BY DEF HasSchema, Refs
  <2> QED
    BY <1>1, <2>1, StartListKeeps DEF ShowSchemas
<1>2. CASE ListRefs(c)
  <2>1. ask[c].under \in SUBSET Refs
    BY <1>2, InHand DEF ListRefs, At, Verb, IsRequest
  <2> QED
    BY <1>2, <2>1, StartListKeeps DEF ListRefs
<1> QED
  BY <1>1, <1>2

-----------------------------------------------------------------------------
(* The commands about trees *)

(* A tree that was found is in the object database.                        *)
LEMMA TreeFacts ==
    ASSUME StoreOK, NEW spec \in Trees
    PROVE  /\ TreeExit(spec) \in Exits
           /\ TreeExit(spec) = "ok" => RootAt(spec) \in objects /\ RootAt(spec) \in Roots
<1>0. "ok" \in Exits /\ "notfound" \in Exits /\ "invalid" \in Exits
  BY SomeExits
<1>1. CASE spec.by = "object" /\ spec \in [by : {"object"}, root : Roots]
  <2>1. TreeExit(spec) = IF spec.root \in objects THEN "ok" ELSE "notfound"
    BY <1>1, Zenon DEF TreeExit
  <2>2. RootAt(spec) = spec.root /\ spec.root \in Roots
    BY <1>1 DEF RootAt
  <2> QED
    BY <1>0, <2>1, <2>2
<1>2. CASE spec.by = "name" /\ spec \in [by : {"name"}, name : Names]
  <2>1. TreeExit(spec) = IF refs[spec.name] = Absent THEN "notfound" ELSE "ok"
    BY <1>2, Zenon DEF TreeExit
  <2>2. RootAt(spec) = Last(refs[spec.name]) /\ spec.name \in Names /\ spec.name \in Refs
    BY <1>2 DEF RootAt, Refs
  <2>3. refs[spec.name] \in Seq(Publishable)
    BY <2>2, HistoryFacts
  <2>4. refs[spec.name] # Absent => Last(refs[spec.name]) \in Publishable
    BY <2>3, LastFacts DEF Absent
  <2> QED
    BY <1>0, <2>1, <2>2, <2>4 DEF Publishable, StoreOK
<1>3. CASE spec.by = "blob"
  <2>1. TreeExit(spec) = "invalid"
    BY <1>3, Zenon DEF TreeExit
  <2> QED
    BY <1>0, <2>1
<1> QED
  BY <1>1, <1>2, <1>3 DEF Trees

LEMMA ShowTreeKeeps == ASSUME IInv, NEW c \in Runs, ShowTree(c) PROVE IInv'
<1> DEFINE spec == ask[c].spec
<1>1. /\ StoreOK /\ spec \in Trees /\ Verb(c) \notin {"compile", "put"}
      /\ ExitWith(c, TreeExit(spec), {Line(NoRef, Absent, {RootAt(spec)}, {})})
      /\ UNCHANGED <<refs, objects, ask, job>>
  BY InHand DEF ShowTree, At, Verb, IsRequest
<1>2. TreeExit(spec) = "ok" => Shown(Line(NoRef, Absent, {RootAt(spec)}, {}))
  BY <1>1, TreeFacts, BareLine
<1> QED
  BY <1>1, <1>2, TreeFacts, PrintKeeps

LEMMA CatKeeps == ASSUME IInv, NEW c \in Runs, Cat(c) PROVE IInv'
<1> DEFINE spec == ask[c].spec
           exit == IF TreeExit(spec) # "ok" THEN TreeExit(spec)
                   ELSE Within(DecodeExit(RootAt(spec)), "schema")
           line == Line(NoRef, Absent, {RootAt(spec)}, ValueOf(RootAt(spec)))
<1>1. /\ StoreOK /\ spec \in Trees /\ Verb(c) \notin {"compile", "put"}
      /\ ExitWith(c, exit, {line})
      /\ UNCHANGED <<refs, objects, ask, job>>
  BY InHand DEF Cat, At, Verb, IsRequest
<1>2. exit \in Exits /\ (exit = "ok" => TreeExit(spec) = "ok")
  BY <1>1, TreeFacts, DocumentsExit, WithinExits DEF Classes
<1>3. ValueOf(RootAt(spec)) \in SUBSET Values
  BY CodecTypes DEF ValueOf
<1>4. exit = "ok" => Shown(line)
  BY <1>1, <1>2, <1>3, TreeFacts, BareLine
<1> HIDE DEF exit, line
<1> QED
  BY <1>1, <1>2, <1>4, PrintKeeps

LEMMA FindTreeKeeps == ASSUME IInv, NEW c \in Runs, FindTree(c) PROVE IInv'
<1> DEFINE spec == ask[c].spec
<1>1. StoreOK /\ spec \in Trees /\ step[c] = "start" /\ Verb(c) \notin {"compile", "put"}
      /\ Verb(c) \in {"value decode", "document bind", "check"}
  BY InHand DEF FindTree, At, Verb, IsRequest
<1>2. CASE TreeExit(spec) # "ok"
  <2>1. Exit(c, TreeExit(spec), {}) /\ UNCHANGED <<refs, objects, ask, job>>
    BY <1>2 DEF FindTree
  <2> QED
    BY <1>1, <2>1, TreeFacts, FailKeeps
<1>3. CASE TreeExit(spec) = "ok"
  <2>1. /\ job' = [job EXCEPT ![c].found = RootAt(spec)]
        /\ Goto(c, "schema") /\ UNCHANGED answer /\ UNCHANGED <<refs, objects, ask>>
    BY <1>3 DEF FindTree
  <2>2. RootAt(spec) \in Roots
    BY <1>1, <1>3, TreeFacts
  <2>3. /\ DOMAIN job' = Runs /\ job'[c] \in Jobs /\ \A d \in Runs \ {c} : job'[d] = job[d]
        /\ job'[c].since = job[c].since /\ job'[c].plan = job[c].plan
        /\ job'[c].edits = job[c].edits /\ job'[c].lines = job[c].lines
    BY <2>1, <2>2, InHand DEF Jobs
  <2>4. Grows
    BY <2>1, QuietGrows
  <2>5. JobOK(c)'
    BY <2>3, <2>4, JobStays
  <2>6. step' \in [Runs -> Steps] /\ step'[c] = "schema" /\ \A d \in Runs \ {c} : step'[d] = step[d]
    BY <2>1, GotoFacts DEF Steps
  <2>7. PhaseOK(c)'
    BY <2>6 DEF PhaseOK, At
  <2> QED
    BY <1>1, <2>1, <2>3, <2>4, <2>5, <2>6, <2>7, MoveKeeps DEF Steps
<1> QED
  BY <1>2, <1>3

(* The commands that resolve a schema last end alike.                      *)
LEMMA UseSchemaKeeps ==
    ASSUME IInv, NEW c \in Runs, NEW verb, verb \notin {"compile", "put"},
           NEW exit \in Exits, NEW line,
           exit = "ok" => Shown(line) /\ line.trees \subseteq Roots,
           UseSchema(c, verb, exit, line)
    PROVE  IInv'
<1> DEFINE result == IF SchemaAtExit(ask[c].schema) = "ok" THEN exit
                     ELSE SchemaAtExit(ask[c].schema)
<1>1. result \in Exits /\ (result = "ok" => exit = "ok")
  BY SomeExits DEF SchemaAtExit
<1>2. /\ ExitWith(c, result, {line}) /\ Verb(c) = verb
      /\ objects' = IF result = "ok" THEN objects \cup line.trees ELSE objects
      /\ UNCHANGED <<refs, ask, job>>
  BY DEF UseSchema, At
<1>3. objects \subseteq objects' /\ objects' \subseteq Roots
  BY <1>1, <1>2, InHand DEF StoreOK
<1>4. CASE result = "ok"
  <2>1. Exit(c, result, {line}) /\ \A l \in {line} : Shown(l)
    BY <1>1, <1>2, <1>4 DEF ExitWith
  <2> HIDE DEF result
  <2> QED
    BY <1>1, <1>2, <1>3, <2>1, ReadKeeps
<1>5. CASE result # "ok"
  <2>1. Exit(c, result, {}) /\ UNCHANGED objects
    BY <1>2, <1>5 DEF ExitWith
  <2> HIDE DEF result
  <2> QED
    BY <1>1, <1>2, <2>1, FailKeeps
<1> QED
  BY <1>4, <1>5

(* A tree a schema can be read from is a schema.                           *)
LEMMA SchemaIsRead ==
    ASSUME NEW root \in Roots, NEW schema, ReadBareExit(root, schema) = "ok"
    PROVE  schema \in Schemas
<1>1. SchemaExit(schema) = "ok"
  BY DEF ReadBareExit
<1> QED
  BY <1>1, ErrorsAreFailures, FailureIsNoSuccess DEF SchemaExit

LEMMA DecodeValueKeeps == ASSUME IInv, NEW c \in Runs, DecodeValue(c) PROVE IInv'
<1> DEFINE root == job[c].found
           schema == SchemaAt(ask[c].schema)
           exit == ReadBareExit(root, schema)
           line == Line(NoRef, Absent, {root}, Decode(root.bare, schema))
<1>1. root \in Roots /\ exit \in Exits
  BY InHand, ChecksExit DEF Jobs
<1>2. Shown(line) /\ line.trees = {root}
  BY <1>1, CodecTypes, BareLine DEF Line
<1>3. UseSchema(c, "value decode", exit, line)
  BY DEF DecodeValue
<1> HIDE DEF exit, line
<1> QED
  BY <1>1, <1>2, <1>3, UseSchemaKeeps

LEMMA BindValueKeeps == ASSUME IInv, NEW c \in Runs, BindValue(c) PROVE IInv'
<1> DEFINE root == job[c].found
           schema == SchemaAt(ask[c].schema)
           exit == BindExit(root, schema)
           line == Line(NoRef, Absent, {Root(root.bare, schema)}, {})
<1>1. root \in Roots /\ exit \in Exits
  BY InHand, DocumentsExit DEF Jobs
<1>2. ASSUME exit = "ok"
      PROVE  Shown(line) /\ line.trees \subseteq Roots
  <2>1. ReadBareExit(root, schema) = "ok"
    BY <1>2, ChecksExit, ThreeChecks DEF BindExit
  <2>2. schema \in Schemas
    BY <1>1, <2>1, SchemaIsRead
  <2>3. Root(root.bare, schema) \in Roots
    BY <1>1, <2>2 DEF Root, Roots
  <2>4. Shown(line)
    BY <2>3, BareLine
  <2>5. line.trees = {Root(root.bare, schema)}
    BY DEF Line
  <2> QED
    BY <2>3, <2>4, <2>5
<1>3. UseSchema(c, "document bind", exit, line)
  BY DEF BindValue
<1> HIDE DEF exit, line
<1> QED
  BY <1>1, <1>2, <1>3, UseSchemaKeeps

LEMMA CheckValueKeeps == ASSUME IInv, NEW c \in Runs, CheckValue(c) PROVE IInv'
<1> DEFINE root == job[c].found
           exit == Within(ReadBareExit(root, SchemaAt(ask[c].schema)), "schema")
           line == Line(NoRef, Absent, {root}, {})
<1>1. root \in Roots /\ exit \in Exits
  BY InHand, ChecksExit, WithinExits DEF Jobs, Classes
<1>2. Shown(line) /\ line.trees = {root}
  BY <1>1, BareLine DEF Line
<1>3. UseSchema(c, "check", exit, line)
  BY DEF CheckValue
<1> HIDE DEF exit, line
<1> QED
  BY <1>1, <1>2, <1>3, UseSchemaKeeps

LEMMA EncodeTextKeeps == ASSUME IInv, NEW c \in Runs, EncodeText(c) PROVE IInv'
<1> DEFINE schema == SchemaAt(ask[c].schema)
           text == ask[c].text
           first == SchemaAtExit(ask[c].schema)
           exit == FirstFailure(<<first, Parsed(text)>>)
           result == IF exit = "ok" THEN EncodeExit(text, schema) ELSE exit
           trees == IF result = "ok" THEN {Root(bare, NoEntry) : bare \in Encode(text, schema)}
                    ELSE {}
           lines == {Line(NoRef, Absent, {tree}, {}) : tree \in trees}
<1>1. first \in Exits /\ Parsed(text) \in Exits
  BY SomeExits DEF SchemaAtExit, Parsed
<1>2. exit \in Exits
  <2> HIDE DEF first
  <2> QED
    BY <1>1, TwoChecks
<1>3. result \in Exits
  BY <1>2, ChecksExit
<1>4. trees \subseteq Roots
  <2>1. \A bare \in Encode(text, schema) : Root(bare, NoEntry) \in Roots
    BY CodecTypes DEF Root, Roots
  <2> HIDE DEF result, text, schema
  <2> QED
    BY <2>1
<1>5. \A l \in lines : Shown(l)
  <2> HIDE DEF trees
  <2>1. \A tree \in trees : Shown(Line(NoRef, Absent, {tree}, {}))
    BY <1>4, BareLine
  <2> QED
    BY <2>1
<1>6. /\ objects' = objects \cup trees /\ Exit(c, result, lines)
      /\ UNCHANGED <<refs, ask, job>> /\ Verb(c) = "value encode"
  BY DEF EncodeText, At
<1> HIDE DEF trees, lines, result
<1>7. objects \subseteq objects' /\ objects' \subseteq Roots
  BY <1>4, <1>6, InHand DEF StoreOK
<1> QED
  BY <1>3, <1>5, <1>6, <1>7, ReadKeeps

-----------------------------------------------------------------------------
(* schema put *)

(* A schema that is not refused is in the identity normal form.            *)
LEMMA PutSchemaFacts ==
    ASSUME NEW c \in Runs, IsRequest(ask[c]), Verb(c) = "schema put"
    PROVE  /\ PutSchemaExit(c) \in Exits
           /\ PutSchemaExit(c) = "ok" => ask[c].text \in Universe
<1>1. SchemaTextExit(ask[c].text) \in Exits /\ UniverseExit(ask[c].text) \in Exits
  BY SomeExits, ErrorsAreFailures, FailureIsNoSuccess DEF SchemaTextExit, UniverseExit
<1>2. /\ PutSchemaExit(c) \in Exits
      /\ PutSchemaExit(c) = "ok" =>
             SchemaTextExit(ask[c].text) = "ok" /\ UniverseExit(ask[c].text) = "ok"
  BY <1>1, TwoChecks DEF PutSchemaExit
<1>3. ask[c].text \in Schemas \cup {Garbled}
  BY DEF IsRequest, Verb
<1>4. SchemaTextExit(ask[c].text) = "ok" => ask[c].text \in Schemas
  BY <1>3 DEF SchemaTextExit
<1>5. UniverseExit(ask[c].text) = "ok" => ask[c].text \notin Schemas \ Universe
  BY ErrorsAreFailures, FailureIsNoSuccess DEF UniverseExit
<1> QED
  BY <1>2, <1>4, <1>5

LEMMA RefuseSchemaKeeps == ASSUME IInv, NEW c \in Runs, RefuseSchema(c) PROVE IInv'
<1>1. PutSchemaExit(c) \in Exits
  BY InHand, PutSchemaFacts DEF RefuseSchema, At
<1> QED
  BY <1>1, FailKeeps DEF RefuseSchema

LEMMA ReadSchemaTipKeeps == ASSUME IInv, NEW c \in Runs, ReadSchemaTip(c) PROVE IInv'
<1>1. /\ job' = [job EXCEPT ![c].seen = refs[ask[c].kind]] /\ Goto(c, "forward")
      /\ UNCHANGED <<refs, objects, ask, answer>>
      /\ Verb(c) = "schema put" /\ step[c] = "start" /\ PutSchemaExit(c) = "ok"
  BY DEF ReadSchemaTip, At
<1>2. ask[c].kind \in Refs /\ ask[c].text \in Universe
  BY <1>1, InHand, PutSchemaFacts DEF IsRequest, Verb, Refs
<1>3. refs[ask[c].kind] \in Seq(Schemas \cup Roots)
  BY <1>2, InHand, HistoryFacts
<1>4. /\ DOMAIN job' = Runs /\ job'[c] \in Jobs /\ \A d \in Runs \ {c} : job'[d] = job[d]
      /\ job'[c].since = job[c].since /\ job'[c].plan = job[c].plan
      /\ job'[c].edits = job[c].edits /\ job'[c].lines = job[c].lines
  BY <1>1, <1>3, InHand DEF Jobs
<1>5. Grows
  BY <1>1, QuietGrows
<1>6. JobOK(c)'
  BY <1>4, <1>5, JobStays
<1>7. step' \in [Runs -> Steps] /\ step'[c] = "forward" /\ \A d \in Runs \ {c} : step'[d] = step[d]
  BY <1>1, GotoFacts DEF Steps
<1>8. PhaseOK(c)'
  BY <1>1, <1>2, <1>7 DEF PhaseOK, At
<1> QED
  BY <1>1, <1>4, <1>5, <1>6, <1>7, <1>8, MoveKeeps DEF Steps

(* A registration extends the tip it was compared with.                    *)
LEMMA RegisterWinsKeeps == ASSUME IInv, NEW c \in Runs, RegisterWins(c) PROVE IInv' /\ Grows
<1>0. PICK k : k = ask[c].kind
  OBVIOUS
<1>1. PICK commit : commit = Append(refs[k], ask[c].text)
  OBVIOUS
<1>2. /\ refs' = [refs EXCEPT ![k] = commit]
      /\ Exit(c, "ok", {Line(k, commit, {}, {})})
      /\ UNCHANGED <<objects, ask, job>>
      /\ Verb(c) = "schema put" /\ ask[c].text \in Universe
  BY <1>0, <1>1, InHand DEF RegisterWins, PhaseOK, At
<1>3. k \in Kinds /\ k \in Refs /\ StoreOK
  BY <1>0, <1>2, InHand DEF IsRequest, Verb, Refs
<1>4. refs[k] \in Seq(Universe) /\ History(k) = Seq(Universe)
  BY <1>3, HistoryFacts
<1>5. commit \in Seq(Universe) /\ commit # Absent /\ IsPrefix(refs[k], commit)
  BY <1>1, <1>2, <1>4, AppendFacts, PrefixOfAppend DEF Absent
<1>6. DOMAIN refs' = Refs /\ refs'[k] = commit /\ \A r \in Refs \ {k} : refs'[r] = refs[r]
  BY <1>2, <1>3 DEF StoreOK
<1>7. \A r \in Refs : History(r)' = History(r)
  BY <1>2 DEF History, Publishable
<1>8. StoreOK'
  BY <1>2, <1>3, <1>4, <1>5, <1>6, <1>7 DEF StoreOK
<1>9. \A r \in Refs : IsPrefix(refs[r], refs'[r])
  BY <1>3, <1>5, <1>6, HistoryFacts, PrefixReflexive
<1>10. Grows
  BY <1>2, <1>8, <1>9 DEF Grows
<1>11. PICK line : line = Line(k, commit, {}, {})
  OBVIOUS
<1>12. Shown(line)'
  <2>1. commit \in Seq(Schemas \cup Roots)
    BY <1>5, SchemasAssumption, SeqWider
  <2>2. line \in Lines /\ Agrees(line)
    BY <1>3, <1>5, <1>11, <2>1, LineParts
  <2>3. Agrees(line)'
    BY <2>2 DEF Agrees
  <2>4. line.ref = k /\ line.commit = commit
    BY <1>11 DEF Line
  <2>5. IsPrefix(commit, commit)
    BY <1>5, PrefixReflexive
  <2>6. commit \in History(k)'
    BY <1>3, <1>4, <1>5, <1>7
  <2>7. Held(line)'
    BY <1>6, <2>4, <2>5, <2>6 DEF Held
  <2> QED
    BY <2>2, <2>3, <2>7 DEF Shown
<1>13. DOMAIN job' = Runs /\ job'[c] \in Jobs /\ \A d \in Runs \ {c} : job'[d] = job[d]
  BY <1>2, InHand
<1>14. JobOK(c)'
  BY <1>2, <1>10, <1>13, JobStays
<1>15. PinnedLines(c, {line})'
  BY <1>2 DEF PinnedLines, Verb
<1>16. IInv'
  BY <1>2, <1>10, <1>11, <1>12, <1>13, <1>14, <1>15, SomeExits, EndKeeps
<1> QED
  BY <1>10, <1>16

LEMMA RegisterLosesKeeps == ASSUME IInv, NEW c \in Runs, RegisterLoses(c) PROVE IInv'
<1>1. /\ UNCHANGED <<refs, objects, ask, job, answer>> /\ Goto(c, "start")
      /\ step[c] = "forward" /\ Verb(c) = "schema put"
  BY DEF RegisterLoses, At
<1>2. Grows
  BY <1>1, QuietGrows
<1>3. DOMAIN job' = Runs /\ job'[c] \in Jobs /\ \A d \in Runs \ {c} : job'[d] = job[d]
  BY <1>1, InHand
<1>4. JobOK(c)'
  BY <1>1, <1>2, <1>3, JobStays
<1>5. step' \in [Runs -> Steps] /\ step'[c] = "start" /\ \A d \in Runs \ {c} : step'[d] = step[d]
  BY <1>1, GotoFacts DEF Steps
<1>6. PhaseOK(c)'
  BY <1>1, <1>5 DEF PhaseOK, At, Verb
<1> QED
  BY <1>1, <1>2, <1>3, <1>4, <1>5, <1>6, MoveKeeps DEF Steps

-----------------------------------------------------------------------------
(* compile and put *)

(* A request to compile or put, and how gathering its text may end.        *)
LEMMA ComposeFacts ==
    ASSUME StoreOK, NEW c \in Runs, IsRequest(ask[c]), Verb(c) \in {"compile", "put"}
    PROVE  /\ ask[c].kind \in Kinds /\ ask[c].kind \in Refs /\ ask[c].name \in Names
           /\ refs[ask[c].kind] \in Seq(Universe)
           /\ GatherExits(c) \subseteq Exits
<1> DEFINE tip == refs[ask[c].kind]
           text == ask[c].text
<1>1. ask[c].kind \in Kinds /\ ask[c].kind \in Refs /\ ask[c].name \in Names
  BY DEF IsRequest, Verb, Refs
<1>2. tip \in Seq(Universe)
  BY <1>1, HistoryFacts
<1>3. Parsed(text) \in Exits /\ ExitOf("NoSchema") \in Exits
      /\ "other" \in Exits /\ "ok" \in Exits
  BY SomeExits, ErrorsAreFailures, FailureIsNoSuccess DEF Parsed
<1>4. EditedExits(text, tip) \subseteq Exits /\ PromptedExits(text, tip) \subseteq Exits
  BY <1>3 DEF EditedExits, PromptedExits
<1>5. ask[c].from \in {"both", "given", "editor", "prompt"}
  BY DEF IsRequest, Verb
<1>6. GatherExits(c) \in {{"other"}, {Parsed(text)}, EditedExits(text, tip),
                          PromptedExits(text, tip)}
  BY <1>5, Zenon DEF GatherExits
<1> HIDE DEF tip, text
<1>7. GatherExits(c) \subseteq Exits
  BY <1>3, <1>4, <1>6
<1> QED
  BY <1>1, <1>2, <1>7 DEF tip

LEMMA GatherKeeps == ASSUME IInv, NEW c \in Runs, Gather(c) PROVE IInv'
<1> DEFINE tip == refs[ask[c].kind]
<1>1. /\ Verb(c) \in {"compile", "put"} /\ step[c] = "start"
      /\ job' = [job EXCEPT ![c].since = Len(tip)]
      /\ UNCHANGED <<refs, objects, ask>>
  BY DEF Gather, At
<1>2. PICK exit \in GatherExits(c) :
          IF exit = "ok" THEN Goto(c, "compile") /\ UNCHANGED answer
                         ELSE Exit(c, exit, {})
  BY DEF Gather
<1>3. exit \in Exits /\ tip \in Seq(Universe)
  BY <1>1, InHand, ComposeFacts
<1>4. Grows
  BY <1>1, QuietGrows
<1>5. job[c].plan = <<>> /\ job[c].lines = {} /\ StoreOK
  BY <1>1, InHand DEF PhaseOK, At
<1>6. /\ DOMAIN job' = Runs /\ job'[c] \in Jobs /\ \A d \in Runs \ {c} : job'[d] = job[d]
      /\ job'[c].since = Len(tip) /\ job'[c].plan = <<>>
      /\ job'[c].edits = job[c].edits /\ job'[c].lines = {}
  <2>1. PICK len : len = Len(tip)
    OBVIOUS
  <2>2. len \in Nat /\ job' = [job EXCEPT ![c].since = len]
    BY <1>1, <1>3, <2>1, LenProperties
  <2>3. /\ DOMAIN job' = Runs /\ job'[c] \in Jobs /\ \A d \in Runs \ {c} : job'[d] = job[d]
        /\ job'[c].since = len /\ job'[c].plan = job[c].plan
        /\ job'[c].edits = job[c].edits /\ job'[c].lines = job[c].lines
    BY <2>2, InHand DEF Jobs
  <2> QED
    BY <1>5, <2>1, <2>3
<1>7. JobOK(c)'
  <2>1. PlanOK(c)'
    BY <1>6 DEF PlanOK
  <2>2. LinesOK(c)'
    BY <1>6 DEF LinesOK, PinnedLines
  <2>3. SinceOK(c)'
    BY <1>1, <1>3, <1>6, LenProperties DEF SinceOK
  <2> QED
    BY <1>4, <1>6, <2>1, <2>2, <2>3, EditsStay DEF JobOK
<1>8. CASE exit = "ok"
  <2>1. step' \in [Runs -> Steps] /\ step'[c] = "compile" /\ \A d \in Runs \ {c} : step'[d] = step[d]
    BY <1>2, <1>8, GotoFacts DEF Steps
  <2>2. PhaseOK(c)'
    BY <2>1 DEF PhaseOK, At
  <2>3. UNCHANGED answer
    BY <1>2, <1>8
  <2> QED
    BY <1>1, <1>4, <1>6, <1>7, <2>1, <2>2, <2>3, MoveKeeps DEF Steps
<1>9. CASE exit # "ok"
  <2>1. Exit(c, exit, {})
    BY <1>2, <1>9
  <2>2. PinnedLines(c, {})'
    BY DEF PinnedLines
  <2> QED
    BY <1>3, <1>4, <1>6, <1>7, <2>1, <2>2, EndKeeps
<1> QED
  BY <1>8, <1>9

(* The document is pinned to the schema at the tip, which is no older than *)
(* the one the command has begun with.                                     *)
LEMMA CompiledIsPinned ==
    ASSUME IInv, NEW c \in Runs, Verb(c) \in {"compile", "put"},
           refs[ask[c].kind] # Absent, NEW root \in Compiled(ask[c].text, refs[ask[c].kind])
    PROVE  /\ root \in Roots /\ Root(root.bare, NoEntry) \in Roots
           /\ Pinned(c, root)
<1> DEFINE tip == refs[ask[c].kind]
<1>1. tip \in Seq(Universe) /\ job[c].since <= Len(tip) /\ job[c].since \in Nat
  BY InHand, ComposeFacts DEF JobOK, SinceOK, Jobs
<1>2. Len(tip) \in Nat \ {0} /\ Last(tip) = tip[Len(tip)] /\ Last(tip) \in Universe
  BY <1>1, LastFacts DEF Absent
<1>3. Last(tip) \in Schemas
  BY <1>2, SchemasAssumption
<1>4. /\ root \in Roots /\ Root(root.bare, NoEntry) \in Roots
      /\ root.schema = Last(tip) /\ ValueOf(root) = {ask[c].text}
  BY <1>3, BoundReadsBack DEF Compiled
<1>5. Len(tip) \in DOMAIN tip
  BY <1>1, <1>2
<1> QED
  BY <1>1, <1>2, <1>4, <1>5 DEF Pinned

LEMMA CompileKeeps == ASSUME IInv, NEW c \in Runs, Compile(c) PROVE IInv'
<1> DEFINE tip == refs[ask[c].kind]
           exit == IF tip = Absent THEN ExitOf("NoSchema") ELSE CompileExit(ask[c].text, Last(tip))
<1>1. /\ Verb(c) \in {"compile", "put"} /\ step[c] = "compile"
      /\ UNCHANGED <<refs, ask>> /\ StoreOK
  BY InHand DEF Compile, At
<1>2. exit \in Exits /\ (exit = "ok" => tip # Absent)
  BY ErrorsAreFailures, FailureIsNoSuccess, DocumentsExit
<1>3. CASE exit # "ok"
  <2>1. Exit(c, exit, {}) /\ UNCHANGED <<objects, job>>
    BY <1>3 DEF Compile
  <2> HIDE DEF exit
  <2> QED
    BY <1>1, <1>2, <2>1, FailKeeps
<1>4. CASE exit = "ok"
  <2>1. PICK root \in Compiled(ask[c].text, tip) :
            /\ objects' = objects \cup {root, Root(root.bare, NoEntry)}
            /\ \/ /\ Verb(c) = "compile"
                  /\ Exit(c, "ok", {Line(NoRef, Absent, {root}, {})})
                  /\ UNCHANGED job
               \/ /\ Verb(c) = "put"
                  /\ job' = [job EXCEPT ![c].plan =
                        <<[name |-> ask[c].name, root |-> root, token |-> {}, parent |-> {}]>>]
                  /\ Goto(c, "resolve")
                  /\ UNCHANGED answer
    BY <1>4 DEF Compile
  <2>2. root \in Roots /\ Root(root.bare, NoEntry) \in Roots /\ Pinned(c, root)
    BY <1>1, <1>2, <1>4, <2>1, CompiledIsPinned
  <2>3. Grows
    BY <1>1, <2>1, <2>2, ObjectsGrow DEF StoreOK
  <2>4. CASE /\ Verb(c) = "compile"
             /\ Exit(c, "ok", {Line(NoRef, Absent, {root}, {})})
             /\ UNCHANGED job
    <3>1. DOMAIN job' = Runs /\ job'[c] \in Jobs /\ \A d \in Runs \ {c} : job'[d] = job[d]
      BY <2>4, InHand
    <3>2. JobOK(c)'
      BY <2>3, <2>4, <3>1, JobStays
    <3>3. PICK line : line = Line(NoRef, Absent, {root}, {})
      OBVIOUS
    <3>4. Shown(line)
      BY <2>2, <3>3, BareLine
    <3>5. Shown(line)'
      BY <1>1, <2>3, <3>4, ShownStays DEF Shown
    <3>6. Pinned(c, root)'
      BY <1>1, <2>2, <2>3, <2>4, InHand, PinnedStays
    <3>7. line.trees = {root}
      BY <3>3 DEF Line
    <3>8. PinnedLines(c, {line})'
      BY <3>6, <3>7 DEF PinnedLines
    <3> QED
      BY <2>3, <2>4, <3>1, <3>2, <3>3, <3>5, <3>8, SomeExits, EndKeeps
  <2>5. CASE /\ Verb(c) = "put"
             /\ job' = [job EXCEPT ![c].plan =
                   <<[name |-> ask[c].name, root |-> root, token |-> {}, parent |-> {}]>>]
             /\ Goto(c, "resolve")
             /\ UNCHANGED answer
    <3>1. PICK item : item = [name |-> ask[c].name, root |-> root, token |-> {}, parent |-> {}]
      OBVIOUS
    <3>2. item \in PlanItems /\ item.root = root /\ item.parent = {}
      BY <1>1, <2>2, <3>1, InHand, ComposeFacts DEF PlanItems
    <3>3. <<item>> \in Seq(PlanItems)
      BY <3>2
    <3>4. /\ DOMAIN job' = Runs /\ job'[c] \in Jobs /\ \A d \in Runs \ {c} : job'[d] = job[d]
          /\ job'[c].since = job[c].since /\ job'[c].plan = <<item>>
          /\ job'[c].edits = job[c].edits /\ job'[c].lines = job[c].lines
      BY <2>5, <3>1, <3>3, InHand DEF Jobs
    <3>5. Pinned(c, root)'
      BY <1>1, <2>2, <2>3, <3>4, InHand, PinnedStays
    <3>6. PlanOK(c)'
      <4>1. \A i \in DOMAIN <<item>> : <<item>>[i] = item
        OBVIOUS
      <4>2. root \in objects'
        BY <2>1
      <4> QED
        BY <3>2, <3>4, <3>5, <4>1, <4>2 DEF PlanOK
    <3>7. JobOK(c)'
      BY <2>3, <3>4, <3>6, EditsStay, LinesStay, SinceStays DEF JobOK
    <3>8. step' \in [Runs -> Steps] /\ step'[c] = "resolve" /\ \A d \in Runs \ {c} : step'[d] = step[d]
      BY <2>5, GotoFacts DEF Steps
    <3>9. PhaseOK(c)'
      BY <3>8 DEF PhaseOK, At
    <3> QED
      BY <1>1, <2>3, <2>5, <3>4, <3>7, <3>8, <3>9, MoveKeeps DEF Steps
  <2> QED
    BY <2>1, <2>4, <2>5
<1> QED
  BY <1>3, <1>4

-----------------------------------------------------------------------------
(* document publish *)

(* An explicit parent that is accepted is a name with a tip.               *)
LEMMA ParentFacts ==
    ASSUME NEW parent \in Parents
    PROVE  /\ ParentExit(parent) \in Exits
           /\ ParentExit(parent) = "ok" =>
                  \/ parent.by = "tip"
                  \/ parent.by = "name" /\ parent.name \in Names
<1>0. "ok" \in Exits /\ "notfound" \in Exits /\ "invalid" \in Exits
  BY SomeExits
<1>1. CASE parent.by = "tip"
  <2>1. ParentExit(parent) = "ok"
    BY <1>1, Zenon DEF ParentExit
  <2> QED
    BY <1>0, <1>1, <2>1
<1>2. CASE parent.by = "name" /\ parent.name \in Names
  <2>1. ParentExit(parent) = IF refs[parent.name] = Absent THEN "notfound" ELSE "ok"
    BY <1>2, Zenon DEF ParentExit
  <2> QED
    BY <1>0, <1>2, <2>1
<1>3. CASE parent.by = "blob"
  <2>1. ParentExit(parent) = "invalid"
    BY <1>3, Zenon DEF ParentExit
  <2> QED
    BY <1>0, <2>1
<1> QED
  BY <1>1, <1>2, <1>3 DEF Parents

(* An item that is accepted has a tree and a parent.                       *)
LEMMA ItemFacts ==
    ASSUME StoreOK, NEW c \in Runs, NEW item \in Items, item.spec \in Trees
    PROVE  /\ ItemExit(c, item) \in Exits
           /\ ItemExit(c, item) = "ok" =>
                  TreeExit(item.spec) = "ok" /\ ParentExit(item.parent) = "ok"
<1> DEFINE tree == TreeExit(item.spec)
           shape == IF ~ask[c].batch /\ tree = "ok" /\ Inspect(RootAt(item.spec)) # "bound"
                    THEN "schema" ELSE "ok"
           expect == IF item.expect = "garbled" THEN "invalid" ELSE "ok"
           parent == ParentExit(item.parent)
<1>1. tree \in Exits
  BY TreeFacts
<1>2. shape \in Exits /\ expect \in Exits
  BY SomeExits
<1>3. parent \in Exits
  BY ParentFacts DEF Items
<1>4. ItemExit(c, item) = FirstFailure(<<tree, shape, expect, parent>>)
  BY DEF ItemExit
<1>5. /\ ItemExit(c, item) \in Exits
      /\ ItemExit(c, item) = "ok" => tree = "ok" /\ parent = "ok"
  <2> HIDE DEF tree, shape, expect, parent
  <2> QED
    BY <1>1, <1>2, <1>3, <1>4, FourChecks
<1> QED
  BY <1>5

(* The plan of an accepted item names a document that is in the store.     *)
LEMMA PlannedFacts ==
    ASSUME IInv, NEW c \in Runs, Verb(c) = "publish",
           NEW i \in DOMAIN ask[c].items, ask[c].items[i] \in Items,
           ask[c].items[i].spec \in Trees, ItemExit(c, ask[c].items[i]) = "ok"
    PROVE  LET planned == Planned(ask[c].items[i])
           IN  /\ planned \in PlanItems
               /\ planned.root \in objects
               /\ planned.parent \subseteq Seq(Publishable)
               /\ planned.parent # {} => planned.name \in Grafted
<1>1. PICK item \in Items : item = ask[c].items[i]
  OBVIOUS
<1>2. /\ StoreOK /\ item.spec \in Trees /\ item.name \in Names /\ item.parent \in Parents
      /\ item.name \in Refs
  BY <1>1, InHand DEF Items, Refs
<1>3. RootAt(item.spec) \in objects /\ RootAt(item.spec) \in Roots
  BY <1>1, <1>2, ItemFacts, TreeFacts
<1>4. PICK token : token = {Token(item)}
  OBVIOUS
<1>5. token \in SUBSET Seq(Roots)
  <2>1. refs[item.name] \in Seq(Roots) /\ Absent \in Seq(Roots)
    BY <1>2, HistoryFacts DEF Absent
  <2> QED
    BY <1>4, <2>1 DEF Token
<1>6. PICK parent : parent = IF item.parent.by = "tip" THEN {} ELSE {refs[item.parent.name]}
  OBVIOUS
<1>7. /\ parent \subseteq Seq(Publishable) /\ parent \subseteq Seq(Roots)
      /\ parent # {} => item.parent.by # "tip"
  <2>1. CASE item.parent.by = "tip"
    BY <1>6, <2>1
  <2>2. CASE item.parent.by # "tip"
    <3>1. item.parent.name \in Names /\ item.parent.name \in Refs
      BY <1>1, <1>2, <2>2, ItemFacts, ParentFacts DEF Refs
    <3>2. refs[item.parent.name] \in Seq(Publishable) /\ refs[item.parent.name] \in Seq(Roots)
      BY <1>2, <3>1, HistoryFacts
    <3> QED
      BY <1>6, <2>2, <3>2
  <2> QED
    BY <2>1, <2>2
<1>8. item.parent.by # "tip" => item.name \in Grafted
  BY <1>1, <1>2 DEF Grafted
<1>9. Planned(item) = [name |-> item.name, root |-> RootAt(item.spec), token |-> token,
                       parent |-> parent]
  BY <1>4, <1>6 DEF Planned
<1>10. Planned(item) \in PlanItems
  BY <1>2, <1>3, <1>5, <1>7, <1>9 DEF PlanItems
<1>11. /\ Planned(item).root = RootAt(item.spec) /\ Planned(item).parent = parent
       /\ Planned(item).name = item.name
  BY <1>9
<1> QED
  BY <1>1, <1>3, <1>7, <1>8, <1>10, <1>11

(* The items of a publication have their types.                            *)
LEMMA PublishRequest ==
    ASSUME NEW q, IsRequest(q), q.verb = "publish"
    PROVE  /\ q.items \in Seq(Items) /\ DOMAIN q.items = 1 .. Len(q.items) /\ Len(q.items) \in Nat
           /\ \A i \in DOMAIN q.items :
                  /\ q.items[i] \in Items
                  /\ ~q.batch => q.items[i].spec.by # "garbled"
<1>1. /\ q.items \in Seq(Items)
      /\ \A i \in DOMAIN q.items : ~q.batch => q.items[i].spec.by # "garbled"
  BY DEF IsRequest
<1>2. DOMAIN q.items = 1 .. Len(q.items) /\ Len(q.items) \in Nat
  BY <1>1, LenProperties
<1>3. \A i \in DOMAIN q.items : q.items[i] \in Items
  BY <1>1, <1>2, ElementOfSeq
<1> QED
  BY <1>1, <1>2, <1>3

(* A publication plans its items, or is refused before it touches a ref.   *)
LEMMA PublishKeeps == ASSUME IInv, NEW c \in Runs, Publish(c) PROVE IInv'
<1> DEFINE items == ask[c].items
           exits == [i \in DOMAIN items |-> ItemExit(c, items[i])]
           exit == IF Unreadable(c) THEN "invalid" ELSE FirstFailure(exits)
<1>1. /\ StoreOK /\ Verb(c) = "publish" /\ step[c] = "start" /\ UNCHANGED <<refs, objects, ask>>
  BY InHand DEF Publish, At
<1>2. /\ items \in Seq(Items) /\ DOMAIN items = 1 .. Len(items) /\ Len(items) \in Nat
      /\ \A i \in DOMAIN items :
             /\ items[i] \in Items
             /\ ~ask[c].batch => items[i].spec.by # "garbled"
  BY <1>1, InHand, PublishRequest DEF Verb
<1>3. ASSUME ~Unreadable(c), NEW i \in DOMAIN items
      PROVE  items[i].spec \in Trees
  <2>1. items[i].spec.by # "garbled"
    BY <1>2, <1>3 DEF Unreadable
  <2>2. items[i].spec \in Trees \cup [by : {"garbled"}]
    BY <1>2 DEF Items
  <2> QED
    BY <2>1, <2>2
<1>4. ASSUME ~Unreadable(c)
      PROVE  /\ FirstFailure(exits) \in Exits
             /\ FirstFailure(exits) = "ok" =>
                    \A i \in DOMAIN items : ItemExit(c, items[i]) = "ok"
  <2>1. \A i \in DOMAIN items : ItemExit(c, items[i]) \in Exits
    BY <1>1, <1>2, <1>3, <1>4, ItemFacts
  <2>2. exits \in [1 .. Len(items) -> Exits]
    BY <1>2, <2>1
  <2>3. /\ FirstFailure(exits) \in Exits
        /\ FirstFailure(exits) = "ok" => \A i \in 1 .. Len(items) : exits[i] = "ok"
    <3> HIDE DEF exits, items
    <3> QED
      BY <1>2, <2>2, FailureFacts
  <2>4. \A i \in DOMAIN items : exits[i] = ItemExit(c, items[i])
    OBVIOUS
  <2> HIDE DEF exits
  <2> QED
    BY <1>2, <2>3, <2>4
<1>5. exit \in Exits
  BY <1>4, SomeExits
<1>6. CASE exit # "ok"
  <2>1. Exit(c, exit, {}) /\ UNCHANGED job
    BY <1>6 DEF Publish
  <2> HIDE DEF exit
  <2> QED
    BY <1>1, <1>5, <2>1, FailKeeps
<1>7. CASE exit = "ok"
  <2>1. PICK plan : plan = [i \in DOMAIN items |-> Planned(items[i])]
    OBVIOUS
  <2>2. /\ job' = [job EXCEPT ![c].plan = plan] /\ Goto(c, "resolve") /\ UNCHANGED answer
    BY <1>7, <2>1 DEF Publish
  <2>3. ~Unreadable(c) /\ \A i \in DOMAIN items : ItemExit(c, items[i]) = "ok"
    BY <1>4, <1>7
  <2>4. ASSUME NEW i \in DOMAIN items
        PROVE  /\ plan[i] \in PlanItems
               /\ plan[i].root \in objects
               /\ plan[i].parent \subseteq Seq(Publishable)
               /\ plan[i].parent # {} => plan[i].name \in Grafted
    <3>1. plan[i] = Planned(items[i])
      BY <2>1
    <3> QED
      BY <1>1, <1>2, <1>3, <2>3, <3>1, PlannedFacts
  <2>5. plan \in Seq(PlanItems) /\ DOMAIN plan = DOMAIN items
    <3>1. plan \in [1 .. Len(items) -> PlanItems] /\ DOMAIN plan = DOMAIN items
      BY <1>2, <2>1, <2>4
    <3> HIDE DEF items
    <3> QED
      BY <1>2, <3>1
  <2>6. /\ DOMAIN job' = Runs /\ job'[c] \in Jobs /\ \A d \in Runs \ {c} : job'[d] = job[d]
        /\ job'[c].since = job[c].since /\ job'[c].plan = plan
        /\ job'[c].edits = job[c].edits /\ job'[c].lines = job[c].lines
    BY <2>2, <2>5, InHand DEF Jobs
  <2>7. Grows
    BY <1>1, QuietGrows
  <2>8. PlanOK(c)'
    <3>1. Publishable' = Publishable /\ Grafted' = Grafted /\ Verb(c)' = Verb(c)
      BY <1>1, <2>7, GrowthFacts DEF Publishable, Verb
    <3> QED
      BY <1>1, <2>4, <2>5, <2>6, <3>1 DEF PlanOK
  <2>9. JobOK(c)'
    BY <2>6, <2>7, <2>8, EditsStay, LinesStay, SinceStays DEF JobOK
  <2>10. step' \in [Runs -> Steps] /\ step'[c] = "resolve" /\ \A d \in Runs \ {c} : step'[d] = step[d]
    BY <2>2, GotoFacts DEF Steps
  <2>11. PhaseOK(c)'
    BY <2>10 DEF PhaseOK, At
  <2> QED
    BY <1>1, <2>2, <2>6, <2>7, <2>9, <2>10, <2>11, MoveKeeps DEF Steps
<1> QED
  BY <1>6, <1>7

-----------------------------------------------------------------------------
(* The resolution of a batch *)

(* A resolved document is published by a commit that ends in it, and that  *)
(* goes on from the tip unless a parent was given.                         *)
LEMMA CommitFacts ==
    ASSUME IInv, NEW c \in Runs, NEW i \in DOMAIN job[c].plan,
           job[c].plan[i] \in PlanItems,
           ResolveExit(c, job[c].plan[i], refs[job[c].plan[i].name]) = "ok"
    PROVE  LET item == job[c].plan[i]
               tip == refs[item.name]
               commit == CommitOf(item, tip)
           IN  /\ commit \in Seq(Publishable) /\ commit # Absent
               /\ Last(commit) = item.root
               /\ item.name \notin Grafted => IsPrefix(tip, commit)
<1>1. PICK item \in PlanItems : item = job[c].plan[i]
  OBVIOUS
<1>2. PICK tip : tip = refs[item.name]
  OBVIOUS
<1>3. /\ item.name \in Names /\ item.name \in Refs /\ item.root \in Roots
      /\ item.root \in objects /\ item.parent \subseteq Seq(Publishable)
      /\ item.parent # {} => item.name \in Grafted
      /\ StoreOK
  BY <1>1, InHand DEF JobOK, PlanOK, PlanItems, Refs
<1>4. tip \in Seq(Publishable)
  BY <1>2, <1>3, HistoryFacts
<1>5. item.root \in Publishable
  <2>1. SplitExit(item.root) = "ok"
    BY <1>1 DEF ResolveExit
  <2> QED
    BY <1>3, <2>1, SplitIsBound DEF Publishable
<1>6. PICK commit : commit = CommitOf(item, tip)
  OBVIOUS
<1>7. CASE tip # Absent /\ Last(tip) = item.root
  <2>1. commit = tip
    BY <1>6, <1>7 DEF CommitOf
  <2>2. IsPrefix(tip, tip)
    BY <1>4, PrefixReflexive
  <2> QED
    BY <1>1, <1>2, <1>4, <1>6, <1>7, <2>1, <2>2
<1>8. CASE ~(tip # Absent /\ Last(tip) = item.root)
  <2>1. PICK base : base = IF item.parent = {} THEN tip ELSE CHOOSE h \in item.parent : TRUE
    OBVIOUS
  <2>2. base \in Seq(Publishable) /\ (item.name \notin Grafted => base = tip)
    BY <1>3, <1>4, <2>1
  <2>3. commit = Append(base, item.root)
    BY <1>6, <1>8, <2>1 DEF CommitOf
  <2>4. /\ commit \in Seq(Publishable) /\ commit # Absent /\ Last(commit) = item.root
        /\ IsPrefix(base, commit)
    BY <1>5, <2>2, <2>3, AppendFacts, PrefixOfAppend DEF Absent
  <2> QED
    BY <1>1, <1>2, <1>6, <2>2, <2>4
<1> QED
  BY <1>7, <1>8

(* Resolving a document ends in an exit.                                   *)
LEMMA ResolveExits ==
    ASSUME NEW c, NEW item, NEW tip
    PROVE  ResolveExit(c, item, tip) \in Exits
BY SomeExits, ChecksExit DEF ResolveExit

(* What one more edit does to the batch.                                   *)
LEMMA EditsAppend ==
    ASSUME NEW S, NEW s \in Seq(S), NEW e \in S
    PROVE  /\ Append(s, e) \in Seq(S)
           /\ Len(s) + 1 \in DOMAIN Append(s, e) /\ Append(s, e)[Len(s) + 1] = e
           /\ \A i \in DOMAIN s : i \in DOMAIN Append(s, e) /\ Append(s, e)[i] = s[i]
           /\ \A i \in DOMAIN Append(s, e) :
                  \/ Append(s, e)[i] = e
                  \/ i \in DOMAIN s /\ Append(s, e)[i] = s[i]
OBVIOUS

LEMMA ResolveKeeps == ASSUME IInv, NEW c \in Runs, Resolve(c) PROVE IInv'
<1>1. /\ Verb(c) \in {"put", "publish"} /\ step[c] = "resolve" /\ UNCHANGED <<refs, objects, ask>>
      /\ job[c].next <= Len(job[c].plan) /\ StoreOK
      /\ job[c].plan \in Seq(PlanItems) /\ job[c].next \in Nat \ {0} /\ job[c] \in Jobs
  BY InHand DEF Resolve, At, Jobs
<1>2. job[c].next \in DOMAIN job[c].plan
  BY <1>1, LenProperties
<1>3. PICK item \in PlanItems : item = job[c].plan[job[c].next]
  BY <1>1, <1>2, ElementOfSeq
<1>4. PICK tip : tip = refs[item.name]
  OBVIOUS
<1>5. PICK exit \in Exits : exit = ResolveExit(c, item, tip)
  BY ResolveExits
<1>6. PICK commit : commit = CommitOf(item, tip)
  OBVIOUS
<1>7. CASE exit # "ok"
  <2>1. Exit(c, exit, {}) /\ UNCHANGED job
    BY <1>3, <1>4, <1>5, <1>7 DEF Resolve
  <2> QED
    BY <1>1, <2>1, FailKeeps
<1>8. CASE exit = "ok"
  <2>1. PICK line : line = Line(item.name, commit, {item.root}, {})
    OBVIOUS
  <2>2. PICK edit : edit = Edit(item.name, tip, commit)
    OBVIOUS
  <2>3. PICK edits : edits = IF commit = tip THEN job[c].edits ELSE Append(job[c].edits, edit)
    OBVIOUS
  <2>4. /\ job' = [job EXCEPT ![c].next = job[c].next + 1, ![c].edits = edits,
                              ![c].lines = job[c].lines \cup {line}]
        /\ UNCHANGED <<step, answer>>
    BY <1>3, <1>4, <1>5, <1>6, <1>8, <2>1, <2>2, <2>3 DEF Resolve
  <2>5. /\ commit \in Seq(Publishable) /\ commit # Absent /\ Last(commit) = item.root
        /\ item.name \notin Grafted => IsPrefix(tip, commit)
    BY <1>2, <1>3, <1>4, <1>5, <1>6, <1>8, CommitFacts
  <2>6. /\ item.name \in Names /\ item.name \in Refs /\ History(item.name) = Seq(Publishable)
        /\ tip \in Seq(Publishable) /\ tip \in Seq(Roots)
        /\ commit \in Seq(Roots) /\ commit \in Seq(Schemas \cup Roots)
    BY <1>1, <1>4, <2>5, HistoryFacts, SeqWider DEF PlanItems, Refs, Publishable, StoreOK
  <2>7. edit \in Edits /\ edit.name = item.name /\ edit.old = tip /\ edit.new = commit
    BY <2>2, <2>6 DEF Edit, Edits
  <2>8. job[c].edits \in Seq(Edits)
    BY <1>1 DEF Jobs
  <2>9. /\ edits \in Seq(Edits)
        /\ commit # tip => \E i \in DOMAIN edits : edits[i] = edit
        /\ \A i \in DOMAIN job[c].edits : i \in DOMAIN edits /\ edits[i] = job[c].edits[i]
        /\ \A i \in DOMAIN edits :
               \/ edits[i] = edit
               \/ i \in DOMAIN job[c].edits /\ edits[i] = job[c].edits[i]
    BY <2>3, <2>7, <2>8, EditsAppend
  <2>10. /\ line \in Lines /\ Agrees(line)
         /\ line.ref = item.name /\ line.commit = commit /\ line.trees = {item.root}
    BY <2>1, <2>5, <2>6, LineParts DEF Line
  <2>11. /\ DOMAIN job' = Runs /\ job'[c] \in Jobs /\ \A d \in Runs \ {c} : job'[d] = job[d]
         /\ job'[c].since = job[c].since /\ job'[c].plan = job[c].plan
         /\ job'[c].edits = edits /\ job'[c].lines = job[c].lines \cup {line}
    <3>1. PICK lines \in SUBSET Lines : lines = job[c].lines \cup {line}
      BY <1>1, <2>10 DEF Jobs
    <3>2. PICK next \in Nat \ {0} : next = job[c].next + 1
      BY <1>1
    <3>3. job' = [job EXCEPT ![c].next = next, ![c].edits = edits, ![c].lines = lines]
      BY <2>4, <3>1, <3>2
    <3>4. /\ DOMAIN job' = Runs /\ \A d \in Runs \ {c} : job'[d] = job[d]
          /\ job'[c] = [job[c] EXCEPT !.next = next, !.edits = edits, !.lines = lines]
      BY <3>3, InHand
    <3>5. /\ job'[c].since = job[c].since /\ job'[c].plan = job[c].plan
          /\ job'[c].edits = edits /\ job'[c].lines = lines
      BY <1>1, <3>4 DEF Jobs
    <3>6. job'[c] \in Jobs
      BY <1>1, <2>9, <3>4 DEF Jobs
    <3> QED
      BY <3>1, <3>4, <3>5, <3>6
  <2>12. Grows
    BY <1>1, QuietGrows
  <2>13. /\ Publishable' = Publishable /\ Grafted' = Grafted /\ Verb(c)' = Verb(c)
    BY <1>1, <2>12, GrowthFacts DEF Publishable, Verb
  <2>14. EditsOK(c)'
    <3>1. ASSUME NEW i \in DOMAIN edits
          PROVE  /\ edits[i].new \in Seq(Publishable) \ {Absent}
                 /\ edits[i].name \notin Grafted => IsPrefix(edits[i].old, edits[i].new)
      BY <2>5, <2>7, <2>9, InHand DEF JobOK, EditsOK
    <3> QED
      BY <1>1, <2>11, <2>13, <3>1 DEF EditsOK
  <2>15. LinesOK(c)'
    <3>1. ASSUME NEW l \in job[c].lines \cup {line}
          PROVE  Agrees(l)' /\ (Held(l)' \/ Pending(c, l)')
      <4>1. CASE l = line
        <5>1. Agrees(l)'
          BY <2>10, <4>1 DEF Agrees
        <5>2. CASE commit = tip
          <6>1. IsPrefix(tip, tip)
            BY <2>6, PrefixReflexive
          <6>2. Held(l)
            BY <1>4, <2>6, <2>10, <4>1, <5>2, <6>1 DEF Held
          <6> QED
            BY <1>1, <2>10, <2>12, <4>1, <5>1, <6>2, ShownStays
        <5>3. CASE commit # tip
          <6>1. Pending(c, l)'
            BY <2>7, <2>9, <2>10, <2>11, <4>1, <5>3 DEF Pending
          <6> QED
            BY <5>1, <6>1
        <5> QED
          BY <5>2, <5>3
      <4>2. CASE l \in job[c].lines
        <5>1. l \in Lines /\ Agrees(l) /\ (Held(l) \/ Pending(c, l))
          BY <1>1, <4>2, InHand DEF JobOK, LinesOK, Jobs
        <5>2. Agrees(l)'
          BY <5>1 DEF Agrees
        <5>3. Held(l) => Held(l)'
          BY <1>1, <2>12, <5>1, ShownStays
        <5>4. Pending(c, l) => Pending(c, l)'
          BY <2>9, <2>11 DEF Pending
        <5> QED
          BY <5>1, <5>2, <5>3, <5>4
      <4> QED
        BY <4>1, <4>2
    <3>2. ASSUME Verb(c) \in {"compile", "put"}, NEW l \in job[c].lines \cup {line},
                 NEW root \in l.trees
          PROVE  Pinned(c, root)'
      <4>1. Pinned(c, root)
        BY <1>2, <1>3, <2>10, <3>2, InHand DEF JobOK, LinesOK, PinnedLines, PlanOK
      <4> QED
        BY <1>1, <2>11, <2>12, <3>2, <4>1, InHand, PinnedStays
    <3> QED
      BY <2>11, <2>13, <3>1, <3>2 DEF LinesOK, PinnedLines
  <2>16. JobOK(c)'
    BY <2>11, <2>12, <2>14, <2>15, PlanStays, SinceStays DEF JobOK
  <2>17. step' \in [Runs -> Steps] /\ step'[c] = "resolve" /\ \A d \in Runs \ {c} : step'[d] = step[d]
    BY <1>1, <2>4, InHand
  <2>18. PhaseOK(c)'
    BY <2>17 DEF PhaseOK, At
  <2> QED
    BY <1>1, <2>4, <2>11, <2>12, <2>16, <2>17, <2>18, MoveKeeps DEF Steps
<1> QED
  BY <1>7, <1>8

-----------------------------------------------------------------------------
(* rm, and the end of a batch *)

LEMMA BuryKeeps == ASSUME IInv, NEW c \in Runs, Bury(c) PROVE IInv'
<1>1. /\ Verb(c) = "rm" /\ step[c] = "start" /\ UNCHANGED <<refs, ask>> /\ StoreOK
      /\ job[c] \in Jobs
  BY InHand DEF Bury, At
<1>2. PICK name \in Names : name = ask[c].name
  BY <1>1, InHand DEF IsRequest, Verb
<1>3. PICK tip \in Seq(Publishable) : tip = refs[name]
  BY <1>1, HistoryFacts DEF Refs
<1>4. PICK exit \in Exits :
          /\ exit = IF tip = Absent THEN "notfound" ELSE DecodeExit(Last(tip))
          /\ exit = "ok" => tip # Absent
  BY SomeExits, DocumentsExit
<1>5. name \in Refs /\ History(name) = Seq(Publishable)
  BY <1>1, HistoryFacts DEF Refs
<1>6. CASE exit # "ok" \/ Deleted(tip)
  <2>1. ExitWith(c, exit, {Line(name, tip, {}, {})}) /\ UNCHANGED <<objects, job>>
    BY <1>2, <1>3, <1>4, <1>6 DEF Bury
  <2>2. exit = "ok" => Shown(Line(name, tip, {}, {}))
    BY <1>1, <1>3, <1>4, <1>5, RefLine
  <2> QED
    BY <1>1, <2>1, <2>2, PrintKeeps
<1>7. CASE exit = "ok" /\ ~Deleted(tip)
  <2>1. PICK commit : commit = Append(tip, Tombstone)
    OBVIOUS
  <2>2. PICK edit : edit = Edit(name, tip, commit)
    OBVIOUS
  <2>3. PICK line : line = Line(name, commit, {}, {})
    OBVIOUS
  <2>4. /\ objects' = objects \cup {Tombstone}
        /\ job' = [job EXCEPT ![c].edits = <<edit>>, ![c].lines = {line}]
        /\ Goto(c, "resolve") /\ UNCHANGED answer
    BY <1>2, <1>3, <1>4, <1>7, <2>1, <2>2, <2>3 DEF Bury
  <2>5. Grows
    BY <1>1, <2>4, RootsAssumption, ObjectsGrow DEF StoreOK
  <2>6. Tombstone \in Publishable' /\ tip \in Seq(Publishable')
    BY <1>1, <2>4, <2>5, TombstoneAssumption, GrowthFacts, SeqWider DEF Publishable
  <2>7. /\ commit \in Seq(Publishable') /\ commit # Absent /\ IsPrefix(tip, commit)
    BY <2>1, <2>6, AppendFacts, PrefixOfAppend DEF Absent
  <2>8. tip \in Seq(Roots) /\ commit \in Seq(Roots) /\ commit \in Seq(Schemas \cup Roots)
    <3>1. Publishable' \subseteq Roots
      BY <2>5 DEF Publishable, Grows, StoreOK
    <3> QED
      BY <2>6, <2>7, <3>1, SeqWider
  <2>9. edit \in Edits /\ edit.name = name /\ edit.old = tip /\ edit.new = commit
    BY <2>2, <2>8 DEF Edit, Edits
  <2>10. /\ line \in Lines /\ Agrees(line) /\ line.ref = name /\ line.commit = commit
    BY <1>5, <2>3, <2>7, <2>8, LineParts DEF Line
  <2>11. /\ DOMAIN job' = Runs /\ job'[c] \in Jobs /\ \A d \in Runs \ {c} : job'[d] = job[d]
         /\ job'[c].since = job[c].since /\ job'[c].plan = job[c].plan
         /\ job'[c].edits = <<edit>> /\ job'[c].lines = {line}
    <3>0. <<edit>> \in Seq(Edits)
      BY <2>9
    <3>1. PICK edits \in Seq(Edits) : edits = <<edit>>
      BY <3>0
    <3>2. PICK lines \in SUBSET Lines : lines = {line}
      BY <2>10
    <3>3. job' = [job EXCEPT ![c].edits = edits, ![c].lines = lines]
      BY <2>4, <3>1, <3>2
    <3>4. /\ DOMAIN job' = Runs /\ \A d \in Runs \ {c} : job'[d] = job[d]
          /\ job'[c] \in Jobs
          /\ job'[c].since = job[c].since /\ job'[c].plan = job[c].plan
          /\ job'[c].edits = edits /\ job'[c].lines = lines
      BY <1>1, <3>3, InHand DEF Jobs
    <3> QED
      BY <3>1, <3>2, <3>4
  <2>12. \A i \in DOMAIN <<edit>> : <<edit>>[i] = edit
    OBVIOUS
  <2>13. Verb(c)' = "rm"
    BY <1>1 DEF Verb
  <2>14. EditsOK(c)'
    BY <2>7, <2>9, <2>11, <2>12, <2>13 DEF EditsOK
  <2>15. LinesOK(c)'
    <3>1. Agrees(line)'
      BY <2>10 DEF Agrees
    <3>2. 1 \in DOMAIN <<edit>> /\ <<edit>>[1] = edit
      OBVIOUS
    <3>3. Pending(c, line)'
      BY <2>9, <2>10, <2>11, <3>2 DEF Pending
    <3> QED
      BY <2>11, <2>13, <3>1, <3>3 DEF LinesOK, PinnedLines
  <2>16. JobOK(c)'
    BY <2>5, <2>11, <2>14, <2>15, PlanStays, SinceStays DEF JobOK
  <2>17. step' \in [Runs -> Steps] /\ step'[c] = "resolve" /\ \A d \in Runs \ {c} : step'[d] = step[d]
    BY <2>4, GotoFacts DEF Steps
  <2>18. PhaseOK(c)'
    BY <2>17 DEF PhaseOK, At
  <2> QED
    BY <1>1, <2>4, <2>5, <2>11, <2>16, <2>17, <2>18, MoveKeeps DEF Steps
<1> QED
  BY <1>6, <1>7

(* A batch that lands moves each of its refs from the commit it was        *)
(* resolved against to the new one, and no other.                          *)
LEMMA LandGrows ==
    ASSUME IInv, NEW c \in Runs, Land(c)
    PROVE  /\ Grows
           /\ \A i \in DOMAIN job[c].edits :
                  refs'[job[c].edits[i].name] = job[c].edits[i].new
<1>1. StoreOK /\ UNCHANGED <<objects, ask>> /\ refs' = Landed(c) /\ Current(c) /\ Once(c)
  BY InHand DEF Land
<1>2. PICK edits \in Seq(Edits) : edits = job[c].edits
  BY InHand DEF Jobs
<1>3. ASSUME NEW i \in DOMAIN edits
      PROVE  /\ edits[i].name \in Names /\ edits[i].name \in Refs
             /\ refs'[edits[i].name] = edits[i].new
             /\ refs[edits[i].name] = edits[i].old
             /\ edits[i].new \in Seq(Publishable)
             /\ edits[i].name \notin Grafted => IsPrefix(edits[i].old, edits[i].new)
  <2>1. edits[i] \in Edits
    BY <1>2, ElementOfSeq, LenProperties
  <2>2. PICK name : name = edits[i].name
    OBVIOUS
  <2>3. name \in Names /\ name \in Refs /\ name \in Changed(c)
    BY <1>2, <2>1, <2>2 DEF Edits, Refs, Changed
  <2>4. refs'[name] = edits[CHOOSE j \in DOMAIN edits : edits[j].name = name].new
    BY <1>1, <1>2, <2>3 DEF Landed
  <2>5. PICK j \in DOMAIN edits :
            j = (CHOOSE k \in DOMAIN edits : edits[k].name = name) /\ edits[j].name = name
    BY <2>2
  <2>6. j = i
    BY <1>1, <1>2, <2>2, <2>5 DEF Once
  <2>7. refs[name] = edits[i].old
    BY <1>1, <1>2, <2>2 DEF Current
  <2> QED
    BY <1>2, <2>2, <2>3, <2>4, <2>5, <2>6, <2>7, InHand DEF JobOK, EditsOK
<1>4. ASSUME NEW r \in Refs, r \notin Changed(c)
      PROVE  refs'[r] = refs[r]
  BY <1>1, <1>4 DEF Landed
<1>5. \A r \in Changed(c) : \E i \in DOMAIN edits : edits[i].name = r
  BY <1>2 DEF Changed
<1>6. \A r \in Refs : History(r)' = History(r)
  BY <1>1 DEF History, Publishable
<1>7. StoreOK'
  <2>1. DOMAIN refs' = Refs
    BY <1>1 DEF Landed
  <2>2. ASSUME NEW r \in Refs PROVE refs'[r] \in History(r)
    <3>1. CASE r \in Changed(c)
      BY <1>1, <1>3, <1>5, <3>1, HistoryFacts
    <3>2. CASE r \notin Changed(c)
      BY <1>1, <1>4, <3>2, HistoryFacts
    <3> QED
      BY <3>1, <3>2
  <2> QED
    BY <1>1, <1>6, <2>1, <2>2 DEF StoreOK
<1>8. ASSUME NEW r \in Refs \ Grafted PROVE IsPrefix(refs[r], refs'[r])
  <2>1. CASE r \in Changed(c)
    BY <1>3, <1>5, <2>1
  <2>2. CASE r \notin Changed(c)
    BY <1>1, <1>4, <2>2, HistoryFacts, PrefixReflexive
  <2> QED
    BY <2>1, <2>2
<1>9. Grows
  BY <1>1, <1>7, <1>8 DEF Grows
<1> QED
  BY <1>2, <1>3, <1>9

(* A batch that lands extends what each ref held, and prints what it wrote.*)
LEMMA LandKeeps == ASSUME IInv, NEW c \in Runs, Land(c) PROVE IInv'
<1>1. /\ Exit(c, "ok", job[c].lines) /\ StoreOK /\ UNCHANGED <<objects, ask>>
      /\ Verb(c) \in {"put", "publish", "rm"} /\ job[c] \in Jobs
  BY InHand DEF Land, Ready, At
<1>2. Grows
  BY LandGrows
<1>3. /\ DOMAIN job' = Runs
      /\ \A d \in Runs : job'[d] \in {job[d], [job[d] EXCEPT !.moved = TRUE]}
      /\ job'[c] = job[c]
  BY DEF Land
<1>4. JobOK(c)'
  BY <1>1, <1>2, <1>3, JobStays
<1>5. ASSUME NEW line \in job[c].lines
      PROVE  Shown(line)'
  <2>1. line \in Lines /\ Agrees(line) /\ (Held(line) \/ Pending(c, line))
    BY <1>1, InHand DEF JobOK, LinesOK, Jobs
  <2>2. Agrees(line)'
    BY <2>1 DEF Agrees
  <2>3. CASE Held(line)
    BY <1>1, <1>2, <2>1, <2>2, <2>3, ShownStays DEF Shown
  <2>4. CASE Pending(c, line)
    <3>1. PICK i \in DOMAIN job[c].edits :
              line.ref = job[c].edits[i].name /\ line.commit = job[c].edits[i].new
      BY <2>4 DEF Pending
    <3>2. refs'[line.ref] = line.commit
      BY <3>1, LandGrows
    <3>3. line.ref # NoRef => line.ref \in Refs
      BY <2>1, LineFields
    <3>4. line.ref # NoRef => line.commit \in History(line.ref)'
      BY <1>2, <3>2, <3>3 DEF Grows, StoreOK
    <3>5. IsPrefix(line.commit, line.commit)
      BY <2>1, LineFields, PrefixReflexive
    <3>6. Held(line)'
      BY <3>2, <3>4, <3>5 DEF Held
    <3> QED
      BY <2>1, <2>2, <3>6 DEF Shown
  <2> QED
    BY <2>1, <2>3, <2>4
<1>6. ASSUME Verb(c) \in {"compile", "put"}, NEW line \in job[c].lines, NEW root \in line.trees
      PROVE  Pinned(c, root)'
  BY <1>1, <1>2, <1>3, <1>6, InHand, PinnedStays DEF JobOK, LinesOK, PinnedLines
<1>7. PICK lines : lines = job[c].lines
  OBVIOUS
<1>8. PinnedLines(c, lines)'
  <2>1. Verb(c)' = Verb(c)
    BY <1>1 DEF Verb
  <2> QED
    BY <1>6, <1>7, <2>1 DEF PinnedLines
<1> QED
  BY <1>1, <1>2, <1>3, <1>4, <1>5, <1>7, <1>8, SomeExits, EndKeeps

LEMMA GiveUpKeeps == ASSUME IInv, NEW c \in Runs, GiveUp(c) PROVE IInv'
BY SomeExits, FailKeeps DEF GiveUp

(* The local variables at the beginning of another attempt.                *)
LEMMA ResetJob ==
    ASSUME NEW j \in Jobs, NEW edits \in Seq(Edits), NEW lines \in SUBSET Lines
    PROVE  [j EXCEPT !.next = 1, !.edits = edits, !.lines = lines, !.moved = FALSE] \in Jobs
<1>0. PICK first \in Nat \ {0} : first = 1
  <2>1. 1 \in Nat \ {0}
    OBVIOUS
  <2> QED
    BY <2>1
<1>1. PICK j1 \in Jobs : j1 = [j EXCEPT !.next = first]
  BY DEF Jobs
<1>2. PICK j2 \in Jobs : j2 = [j1 EXCEPT !.edits = edits]
  BY DEF Jobs
<1>3. PICK j3 \in Jobs : j3 = [j2 EXCEPT !.lines = lines]
  BY DEF Jobs
<1>4. PICK j4 \in Jobs : j4 = [j3 EXCEPT !.moved = FALSE]
  BY DEF Jobs
<1> QED
  BY <1>0, <1>1, <1>2, <1>3, <1>4

LEMMA TryAgainKeeps == ASSUME IInv, NEW c \in Runs, TryAgain(c) PROVE IInv'
<1>1. PICK label : label = IF Verb(c) = "rm" THEN "start" ELSE "resolve"
  OBVIOUS
<1>2. /\ step[c] = "resolve" /\ UNCHANGED <<refs, objects, ask, answer>> /\ Goto(c, label)
      /\ job' = [job EXCEPT ![c].next = 1, ![c].edits = <<>>, ![c].lines = {}, ![c].moved = FALSE]
  BY <1>1 DEF TryAgain, Ready, At
<1>3. label \in Steps /\ label # "done" /\ (label = "start" => Verb(c) = "rm")
  BY <1>1 DEF Steps
<1>4. Grows
  BY <1>2, QuietGrows
<1>5. /\ DOMAIN job' = Runs /\ \A d \in Runs \ {c} : job'[d] = job[d]
      /\ job'[c].since = job[c].since /\ job'[c].plan = job[c].plan
      /\ job'[c].edits = <<>> /\ job'[c].lines = {}
  BY <1>2, InHand DEF Jobs
<1>6. job'[c] \in Jobs
  <2>1. PICK lines \in SUBSET Lines : lines = {}
    OBVIOUS
  <2>2. PICK edits \in Seq(Edits) : edits = <<>>
    <3>1. <<>> \in Seq(Edits)
      OBVIOUS
    <3> QED
      BY <3>1
  <2>3. job'[c] = [job[c] EXCEPT !.next = 1, !.edits = edits, !.lines = lines, !.moved = FALSE]
    BY <1>2, <2>1, <2>2, InHand
  <2> QED
    <3>1. job[c] \in Jobs
      BY InHand
    <3>2. [job[c] EXCEPT !.next = 1, !.edits = edits, !.lines = lines, !.moved = FALSE] \in Jobs
      BY <3>1, ResetJob
    <3> QED
      BY <2>3, <3>2
<1>7. JobOK(c)'
  <2>1. EditsOK(c)' /\ LinesOK(c)'
    BY <1>5 DEF EditsOK, LinesOK, PinnedLines
  <2> QED
    BY <1>4, <1>5, <1>6, <2>1, PlanStays, SinceStays DEF JobOK
<1>8. step' \in [Runs -> Steps] /\ step'[c] = label /\ \A d \in Runs \ {c} : step'[d] = step[d]
  BY <1>2, <1>3, GotoFacts
<1>9. PhaseOK(c)'
  <2>1. label \notin {"forward", "show"}
    BY <1>1
  <2>2. Verb(c)' = Verb(c)
    BY <1>2 DEF Verb
  <2> QED
    BY <1>3, <1>8, <2>1, <2>2 DEF PhaseOK, At
<1> QED
  BY <1>2, <1>3, <1>4, <1>5, <1>6, <1>7, <1>8, <1>9, MoveKeeps

-----------------------------------------------------------------------------
(* The specification *)

(* What earlier invocations left behind is well formed.                    *)
LEMMA StartFacts ==
    ASSUME Init
    PROVE  StoreOK /\ RequestsOK
<1>1. PICK s \in Scenarios : refs = s.refs /\ ask = s.ask
  BY DEF Init
<1>2. IsStart(refs) /\ DOMAIN ask = Runs /\ \A c \in Runs : IsRequest(ask[c])
  BY <1>1, ScenariosAssumption
<1>3. objects = Foreign \cup Written(refs)
  BY DEF Init
<1> DEFINE roots == UNION {ToSet(refs[n]) : n \in Names}
<1>4. ASSUME NEW n \in Names
      PROVE  /\ refs[n] \in Seq(Roots)
             /\ \A i \in DOMAIN refs[n] : refs[n][i] \in roots /\ Inspect(refs[n][i]) = "bound"
  <2>1. refs[n] \in Seq(Roots) /\ \A i \in DOMAIN refs[n] : Inspect(refs[n][i]) = "bound"
    BY <1>2 DEF IsStart
  <2>2. \A i \in DOMAIN refs[n] : refs[n][i] \in ToSet(refs[n])
    BY DEF ToSet
  <2> QED
    BY <2>1, <2>2
<1>5. roots \subseteq Roots
  <2> SUFFICES ASSUME NEW n \in Names PROVE ToSet(refs[n]) \subseteq Roots
    OBVIOUS
  <2>1. refs[n] \in Seq(Roots)
    BY <1>4
  <2> QED
    BY <2>1 DEF ToSet
<1>6. {Root(root.bare, NoEntry) : root \in roots} \subseteq Roots
  BY <1>5 DEF Root, Roots
<1>7. objects \subseteq Roots /\ roots \subseteq objects
  BY <1>3, <1>5, <1>6, RootsAssumption DEF Written
<1>8. ASSUME NEW n \in Names
      PROVE  refs[n] \in Seq(Publishable)
  <2> HIDE DEF roots
  <2>1. /\ refs[n] \in Seq(Roots) /\ DOMAIN refs[n] = 1 .. Len(refs[n])
        /\ \A i \in DOMAIN refs[n] : refs[n][i] \in Publishable
    BY <1>4, <1>7, LenProperties DEF Publishable
  <2> QED
    BY <2>1
<1>9. \A k \in Kinds : refs[k] \in Seq(Universe)
  BY <1>2 DEF IsStart
<1>10. StoreOK
  BY <1>2, <1>7, <1>8, <1>9, RefsAssumption DEF StoreOK, History, IsStart, Refs
<1> QED
  BY <1>2, <1>10 DEF RequestsOK

(* The invariant holds at the start.                                       *)
LEMMA IInvInit == Init => IInv
<1> SUFFICES ASSUME Init PROVE IInv
  OBVIOUS
<1>1. StoreOK /\ RequestsOK
  BY StartFacts
<1>2. /\ step = [c \in Runs |-> "start"] /\ job = [c \in Runs |-> NoJob]
      /\ answer = [c \in Runs |-> [exit |-> "none", lines |-> {}]]
  BY DEF Init
<1>3. NoJob \in Jobs
  <2>1. /\ Tombstone \in Roots /\ <<>> \in Seq(Schemas \cup Roots)
        /\ <<>> \in Seq(PlanItems) /\ <<>> \in Seq(Edits) /\ 1 \in Nat \ {0} /\ 0 \in Nat
    BY RootsAssumption
  <2> QED
    BY <2>1 DEF NoJob, Jobs, Absent
<1>4. ASSUME NEW c \in Runs PROVE RunOK(c)
  <2>1. /\ step[c] = "start" /\ job[c] = NoJob /\ answer[c].exit = "none" /\ answer[c].lines = {}
    BY <1>2
  <2>2. /\ job[c].plan = <<>> /\ job[c].edits = <<>> /\ job[c].lines = {} /\ job[c].since = 0
    BY <2>1 DEF NoJob
  <2>3. PlanOK(c) /\ EditsOK(c) /\ LinesOK(c)
    BY <2>2 DEF PlanOK, EditsOK, LinesOK, PinnedLines
  <2>4. SinceOK(c)
    <3> SUFFICES ASSUME Verb(c) \in {"compile", "put"} PROVE 0 <= Len(refs[ask[c].kind])
      BY <2>2 DEF SinceOK
    <3>1. refs[ask[c].kind] \in Seq(Universe)
      BY <1>1, ComposeFacts DEF RequestsOK
    <3> QED
      BY <3>1, LenProperties
  <2>5. PhaseOK(c)
    BY <2>1, <2>2 DEF PhaseOK, At
  <2>6. AnswerOK(c)
    BY <2>1 DEF AnswerOK, PinnedLines
  <2> QED
    BY <1>3, <2>1, <2>3, <2>4, <2>5, <2>6 DEF RunOK, JobOK, Steps
<1>5. step \in [Runs -> Steps] /\ DOMAIN job = Runs /\ DOMAIN answer = Runs
  BY <1>2 DEF Steps
<1> QED
  BY <1>1, <1>4, <1>5 DEF IInv

(* A step of nobody keeps the invariant.                                   *)
LEMMA StutterKeeps == ASSUME IInv, UNCHANGED vars PROVE IInv'
<1>1. \A c \in Runs : RunOK(c)'
  <2> TAKE c \in Runs
  <2>1. Grows
    BY QuietGrows DEF vars
  <2>2. JobOK(c)'
    BY <2>1, InHand, JobStays DEF vars
  <2>3. step'[c] \in Steps /\ PhaseOK(c)' /\ AnswerOK(c)'
    BY <2>1, OutputStays DEF vars
  <2> QED
    BY <2>2, <2>3 DEF RunOK
<1>2. StoreOK' /\ RequestsOK'
  BY QuietGrows DEF vars, Grows, IInv, RequestsOK
<1> QED
  BY <1>1, <1>2 DEF IInv, vars

(* Every step keeps the invariant.                                         *)
LEMMA IInvStep == IInv /\ [Next]_vars => IInv'
<1> SUFFICES ASSUME IInv, [Next]_vars PROVE IInv'
  OBVIOUS
<1>1. CASE Done \/ UNCHANGED vars
  BY <1>1, StutterKeeps DEF Done
<1>2. ASSUME NEW c \in Runs, Run(c) PROVE IInv'
  <2>1. CASE RefuseSchema(c) \/ ReadSchemaTip(c) \/ RegisterWins(c) \/ RegisterLoses(c)
    BY <2>1, RefuseSchemaKeeps, ReadSchemaTipKeeps, RegisterWinsKeeps, RegisterLosesKeeps
  <2>2. CASE Gather(c) \/ Compile(c)
    BY <2>2, GatherKeeps, CompileKeeps
  <2>3. CASE Publish(c) \/ Resolve(c) \/ Bury(c) \/ Land(c) \/ GiveUp(c) \/ TryAgain(c)
    BY <2>3, PublishKeeps, ResolveKeeps, BuryKeeps, LandKeeps, GiveUpKeeps, TryAgainKeeps
  <2>4. CASE Get(c) \/ ReadName(c) \/ ShowName(c) \/ ShowSchema(c) \/ ShowLog(c) \/ ResolveRef(c)
    BY <2>4, GetKeeps, ReadNameKeeps, ShowNameKeeps, ShowSchemaKeeps, ShowLogKeeps,
       ResolveRefKeeps
  <2>5. CASE ListKinds(c) \/ ShowSchemas(c) \/ ListRefs(c) \/ ListNext(c) \/ ShowList(c)
    BY <2>5, ListKindsKeeps, ListingKeeps, ListNextKeeps, ShowListKeeps
  <2>6. CASE \/ ShowTree(c) \/ Cat(c) \/ FindTree(c) \/ DecodeValue(c) \/ BindValue(c)
             \/ CheckValue(c) \/ EncodeText(c)
    BY <2>6, ShowTreeKeeps, CatKeeps, FindTreeKeeps, DecodeValueKeeps, BindValueKeeps,
       CheckValueKeeps, EncodeTextKeeps
  <2> QED
    BY <1>2, <2>1, <2>2, <2>3, <2>4, <2>5, <2>6 DEF Run
<1> QED
  BY <1>1, <1>2 DEF Next

(* The invariant holds throughout.                                         *)
LEMMA IInvHolds == Spec => []IInv
BY IInvInit, IInvStep, PTL DEF Spec

-----------------------------------------------------------------------------
(* Exit code 3 *)

(* Only a subtree that is missing makes the reading of a document fail as  *)
(* something that was not found.                                           *)
LEMMA MissingFacts ==
    ASSUME NEW root \in Roots
    PROVE  DecodeExit(root) = "notfound" <=> root.schema = "missing" /\ root.bare # NoValue
<1>1. /\ ExitOf("Deserialize") = "other" /\ ExitOf("SchemaRead") = "schema"
      /\ ExitOf("DocumentRootNotStruct") = "invalid" /\ ExitOf("NotSubtreeBound") = "schema"
      /\ ExitOf("NotATree") = "invalid" /\ ExitOf("SubtreeMissing") = "notfound"
  BY Zenon DEF ExitOf
<1>2. NoEntry \notin {"missing", "mislabelled", "file"}
  BY DEF NoEntry
<1>3. CASE root.bare = NoValue
  <2>1. SplitExit(root) = "schema"
    BY <1>1, <1>3 DEF SplitExit
  <2> QED
    BY <1>3, <2>1 DEF DecodeExit
<1>4. CASE root.bare # NoValue /\ root.schema = "missing"
  <2>1. root.schema \notin {NoEntry, "file"} /\ root.schema # "mislabelled"
    BY <1>2, <1>4
  <2>2. SplitExit(root) = "notfound"
    BY <1>1, <1>4, <2>1, Zenon DEF SplitExit
  <2> QED
    BY <1>4, <2>2 DEF DecodeExit
<1>5. CASE root.bare # NoValue /\ root.schema # "missing"
  <2>1. SplitExit(root) \in {"schema", "invalid", "ok"}
    BY <1>1, <1>5, Zenon DEF SplitExit
  <2> DEFINE x == SchemaExit(root.schema)
             y == RootExit(root.schema)
             z == ReadBareExit(Root(root.bare, NoEntry), root.schema)
             S == {"ok", "other", "invalid", "schema"}
  <2>2. x \in S /\ y \in S /\ z \in S
    BY <1>1 DEF SchemaExit, RootExit, ReadBareExit
  <2>3. DecodeExit(root) = SplitExit(root) \/ DecodeExit(root) = FirstFailure(<<x, y, z>>)
    BY DEF DecodeExit
  <2>4. FirstFailure(<<x, y, z>>) \in S \cup {"ok"}
    <3> HIDE DEF x, y, z, S
    <3>1. <<x, y, z>> \in [1 .. 3 -> S]
      BY <2>2
    <3> QED
      BY <3>1, FailureIsListed
  <2> QED
    BY <1>5, <2>1, <2>3, <2>4
<1> QED
  BY <1>3, <1>4, <1>5

(* Reading a bound document finds everything.                              *)
LEMMA NamedFacts ==
    ASSUME StoreOK, NEW n \in Names
    PROVE  /\ NamedExit(n) = "notfound" <=> refs[n] = Absent
           /\ refs[n] # Absent => DecodeExit(Last(refs[n])) # "notfound"
           /\ Lacks([by |-> "name", name |-> n]) <=> refs[n] = Absent
<1> DEFINE root == Last(refs[n])
<1>1. n \in Refs /\ refs[n] \in Seq(Publishable)
  BY HistoryFacts DEF Refs
<1>2. ASSUME refs[n] # Absent
      PROVE  root \in Roots /\ root.schema # "missing" /\ root.schema # NoEntry
  <2>1. root \in Publishable
    BY <1>1, <1>2, LastFacts DEF Absent
  <2>2. root \in Roots /\ Inspect(root) = "bound"
    BY <2>1 DEF Publishable, StoreOK
  <2>3. ASSUME root.schema = NoEntry PROVE Inspect(root) = "legacy_value_root"
    <3>1. NoEntry \notin Odd \ {"junk"}
      BY DEF NoEntry, Odd
    <3>2. root.schema \notin Odd \ {"junk"}
      BY <2>3, <3>1
    <3> QED
      BY <2>3, <3>2, Zenon DEF Inspect
  <2>4. root.schema = "missing" => root.schema \in Odd \ {"junk"} /\ root.schema # NoEntry
    BY DEF Odd, NoEntry
  <2>5. root.schema \in Odd \ {"junk"} /\ root.schema # NoEntry => Inspect(root) = "malformed"
    BY Zenon DEF Inspect
  <2> QED
    BY <2>2, <2>3, <2>4, <2>5
<1>3. refs[n] # Absent => DecodeExit(root) # "notfound"
  BY <1>2, MissingFacts
<1>4. ASSUME refs[n] # Absent PROVE NamedExit(n) # "notfound"
  <2>1. Root(root.bare, SchemaRead(n, root)) = root
    BY <1>2, <1>4 DEF Root, Roots, SchemaRead
  <2>2. CASE Deleted(refs[n])
    <3>1. NamedExit(n) = "other"
      BY <1>4, <2>2, Zenon DEF NamedExit
    <3> QED
      BY <3>1
  <2>3. CASE ~Deleted(refs[n])
    <3>1. NamedExit(n) = DecodeExit(Root(Last(refs[n]).bare, SchemaRead(n, Last(refs[n]))))
      BY <1>4, <2>3, Zenon DEF NamedExit
    <3>2. DecodeExit(root) # "notfound"
      BY <1>3, <1>4
    <3> QED
      BY <2>1, <3>1, <3>2
  <2> QED
    BY <2>2, <2>3
<1>5. ASSUME refs[n] = Absent PROVE NamedExit(n) = "notfound"
  <2>1. ~Deleted(refs[n])
    BY <1>5 DEF Deleted
  <2> QED
    BY <1>5, <2>1, Zenon DEF NamedExit
<1>6. Lacks([by |-> "name", name |-> n]) <=> refs[n] = Absent
  <2>1. RootAt([by |-> "name", name |-> n]) = root
    BY DEF RootAt
  <2>2. Lacks([by |-> "name", name |-> n])
           <=> refs[n] = Absent \/ (root.schema = "missing" /\ root.bare # NoValue)
    <3> DEFINE spec == [by |-> "name", name |-> n]
    <3>1. spec.by = "name" /\ spec.name = n
      OBVIOUS
    <3> HIDE DEF spec, root
    <3>2. RootAt(spec) = root
      BY <2>1 DEF spec
    <3>3. Lacks(spec) <=> refs[n] = Absent \/ (root.schema = "missing" /\ root.bare # NoValue)
      BY <3>1, <3>2 DEF Lacks
    <3> QED
      BY <3>3 DEF spec
  <2> HIDE DEF root
  <2> QED
    BY <1>2, <2>2
<1> QED
  BY <1>3, <1>4, <1>5, <1>6

(* An invocation ends by its own steps, and by those its command has.      *)
LEMMA OwnSteps ==
    ASSUME IInv, NEW d \in Runs, Run(d), NEW c \in Runs, Ends(c)
    PROVE  /\ c = d
           /\ Verb(c) = "get" => Get(c)
           /\ Verb(c) = "entity resolve" => ReadName(c) \/ ShowName(c)
           /\ Verb(c) = "rm" => Bury(c) \/ Land(c)
           /\ Verb(c) = "cat" => Cat(c)
<1>1. CASE RefuseSchema(d) \/ ReadSchemaTip(d) \/ RegisterWins(d) \/ RegisterLoses(d)
  BY <1>1, InHand DEF RefuseSchema, ReadSchemaTip, RegisterWins, RegisterLoses, Exit, Goto, At, Ends
<1>2. CASE Gather(d) \/ Compile(d)
  BY <1>2, InHand DEF Gather, Compile, Exit, Goto, At, Ends
<1>3. CASE Publish(d) \/ Resolve(d) \/ GiveUp(d) \/ TryAgain(d)
  BY <1>3, InHand DEF Publish, Resolve, GiveUp, TryAgain, Ready, Exit, Goto, At, Ends
<1>4. CASE Bury(d)
  BY <1>4, InHand DEF Bury, Exit, ExitWith, Goto, At, Ends
<1>10. CASE Land(d)
  <2>1. Ready(d) /\ Exit(d, "ok", job[d].lines)
    BY <1>10 DEF Land
  <2> QED
    BY <1>10, <2>1, InHand DEF Ready, Exit, Goto, At, Ends
<1>5. CASE Get(d) \/ ReadName(d) \/ ShowName(d)
  BY <1>5, InHand DEF Get, ReadName, ShowName, Exit, ExitWith, Goto, At, Ends
<1>6. CASE ShowSchema(d) \/ ShowLog(d) \/ ResolveRef(d)
  BY <1>6, InHand DEF ShowSchema, ShowLog, ResolveRef, Exit, ExitWith, Goto, At, Ends
<1>7. CASE ListKinds(d) \/ ShowSchemas(d) \/ ListRefs(d) \/ ListNext(d) \/ ShowList(d)
  BY <1>7, InHand DEF ListKinds, ShowSchemas, ListRefs, StartList, ListNext, ShowList, Exit, Goto,
     At, Ends
<1>8. CASE ShowTree(d) \/ Cat(d) \/ FindTree(d) \/ EncodeText(d)
  BY <1>8, InHand DEF ShowTree, Cat, FindTree, EncodeText, Exit, ExitWith, Goto, At, Ends
<1>9. CASE DecodeValue(d) \/ BindValue(d) \/ CheckValue(d)
  BY <1>9, InHand DEF DecodeValue, BindValue, CheckValue, UseSchema, Exit, ExitWith, Goto, At, Ends
<1> QED
  BY <1>1, <1>2, <1>3, <1>4, <1>5, <1>6, <1>7, <1>8, <1>9, <1>10 DEF Run

(* The exit of an invocation is the one it ends with.                      *)
LEMMA EndsWith ==
    ASSUME IInv, NEW c \in Runs, NEW exit, NEW lines, ExitWith(c, exit, lines)
    PROVE  answer'[c].exit = exit
BY InHand DEF ExitWith, Exit

(* Exit code 3 is for a ref, an object or a subtree that is missing, and   *)
(* only for that, whatever the failure is wrapped in on its way to main    *)
(* and whatever the other commands do meanwhile.                           *)
THEOREM NotFoundIsExact == Spec => NotFoundMeansMissing
<1> DEFINE Named(c) == answer'[c].exit = "notfound"
                          <=> step[c] = "start" /\ Lacks([by |-> "name", name |-> ask[c].name])
           Told(c) == answer'[c].exit = "notfound" <=> Lacks(ask[c].spec)
           Right(c) == Ends(c) => /\ Verb(c) \in {"get", "entity resolve", "rm"} => Named(c)
                                  /\ Verb(c) = "cat" => Told(c)
<1>1. ASSUME IInv, NEW c \in Runs, Get(c)
      PROVE  Named(c)
  <2>1. StoreOK /\ ask[c].name \in Names /\ step[c] = "start"
    BY <1>1, InHand DEF Get, At, Verb, IsRequest
  <2>2. answer'[c].exit = NamedExit(ask[c].name)
    BY <1>1, EndsWith DEF Get
  <2> QED
    BY <2>1, <2>2, NamedFacts
<1>2. ASSUME IInv, NEW c \in Runs, ReadName(c) \/ ShowName(c), Ends(c)
      PROVE  Named(c)
  <2>1. CASE ReadName(c)
    <3>1. StoreOK /\ ask[c].name \in Names /\ step[c] = "start"
      BY <1>2, <2>1, InHand DEF ReadName, At, Verb, IsRequest
    <3>2. NamedExit(ask[c].name) # "ok"
      BY <1>2, <2>1, InHand DEF ReadName, Goto, Ends
    <3>3. answer'[c].exit = NamedExit(ask[c].name)
      <4>1. Exit(c, NamedExit(ask[c].name), {})
        BY <2>1, <3>2 DEF ReadName
      <4> QED
        BY <1>2, <4>1, InHand DEF Exit
    <3> QED
      BY <3>1, <3>3, NamedFacts
  <2>2. CASE ShowName(c)
    <3>1. step[c] = "show" /\ answer'[c].exit = "ok"
      BY <1>2, <2>2, InHand DEF ShowName, At, Exit
    <3> QED
      BY <3>1
  <2> QED
    BY <1>2, <2>1, <2>2
<1>3. ASSUME IInv, NEW c \in Runs, Bury(c) \/ Land(c), Ends(c)
      PROVE  Named(c)
  <2>1. CASE Bury(c)
    <3>1. StoreOK /\ ask[c].name \in Names /\ step[c] = "start"
      BY <1>3, <2>1, InHand DEF Bury, At, Verb, IsRequest
    <3>2. PICK tip : tip = refs[ask[c].name]
      OBVIOUS
    <3>3. PICK exit : exit = IF tip = Absent THEN "notfound" ELSE DecodeExit(Last(tip))
      OBVIOUS
    <3>4. exit = "notfound" <=> tip = Absent
      BY <3>1, <3>2, <3>3, NamedFacts
    <3>5. ExitWith(c, exit, {Line(ask[c].name, tip, {}, {})})
      BY <1>3, <2>1, <3>2, <3>3, InHand DEF Bury, Goto, Ends
    <3>6. answer'[c].exit = exit
      BY <1>3, <3>5, EndsWith
    <3> QED
      BY <3>1, <3>2, <3>4, <3>6, NamedFacts
  <2>2. CASE Land(c)
    <3>1. step[c] = "resolve" /\ Exit(c, "ok", job[c].lines)
      BY <2>2 DEF Land, Ready, At
    <3>2. answer'[c].exit = "ok"
      BY <1>3, <3>1, InHand DEF Exit
    <3> QED
      BY <3>1, <3>2
  <2> QED
    BY <1>3, <2>1, <2>2
<1>4. ASSUME IInv, NEW c \in Runs, Cat(c)
      PROVE  Told(c)
  <2>1. PICK spec \in Trees : spec = ask[c].spec
    BY <1>4, InHand DEF Cat, At, Verb, IsRequest
  <2>2. StoreOK
    BY <1>4, InHand
  <2>3. PICK inner : inner = DecodeExit(RootAt(spec))
    OBVIOUS
  <2>4. PICK exit : exit = IF TreeExit(spec) # "ok" THEN TreeExit(spec) ELSE Within(inner, "schema")
    OBVIOUS
  <2>5. answer'[c].exit = exit
    BY <1>4, <2>1, <2>3, <2>4, EndsWith DEF Cat
  <2>6. inner \in Exits
    BY <2>3, DocumentsExit
  <2>7. Within(inner, "schema") = "notfound" <=> inner = "notfound"
    BY <2>6 DEF Within, Prefer, Rank, Exits, Classes
  <2>8. CASE spec.by = "blob"
    <3>1. TreeExit(spec) = "invalid"
      BY <2>8, Zenon DEF TreeExit
    <3>2. ~Lacks(spec)
      BY <2>8 DEF Lacks
    <3> QED
      BY <2>1, <2>4, <2>5, <3>1, <3>2
  <2>9. CASE spec.by = "object"
    <3>1. spec.root \in Roots /\ RootAt(spec) = spec.root
      BY <2>1, <2>9 DEF Trees, RootAt
    <3>2. TreeExit(spec) = IF spec.root \in objects THEN "ok" ELSE "notfound"
      BY <2>9, Zenon DEF TreeExit
    <3>3. inner = "notfound" <=> RootAt(spec).schema = "missing" /\ RootAt(spec).bare # NoValue
      BY <2>3, <3>1, MissingFacts
    <3>4. Lacks(spec) <=> spec.root \notin objects \/ inner = "notfound"
      BY <2>9, <3>3 DEF Lacks
    <3> QED
      BY <2>1, <2>4, <2>5, <2>7, <3>2, <3>4
  <2>10. CASE spec.by = "name"
    <3>1. spec.name \in Names /\ spec = [by |-> "name", name |-> spec.name]
      BY <2>1, <2>10 DEF Trees
    <3>2. TreeExit(spec) = IF refs[spec.name] = Absent THEN "notfound" ELSE "ok"
      BY <2>10, Zenon DEF TreeExit
    <3>3. Lacks(spec) <=> refs[spec.name] = Absent
      BY <2>2, <3>1, NamedFacts
    <3>4. refs[spec.name] # Absent => inner # "notfound"
      BY <2>2, <2>3, <2>10, <3>1, NamedFacts DEF RootAt
    <3> QED
      BY <2>1, <2>4, <2>5, <2>7, <3>2, <3>3, <3>4
  <2> QED
    BY <2>1, <2>8, <2>9, <2>10 DEF Trees
<1>5. IInv /\ [Next]_vars => [\A c \in Runs : Right(c)]_vars
  <2> SUFFICES ASSUME IInv, Next, NEW c \in Runs, Ends(c)
               PROVE  /\ Verb(c) \in {"get", "entity resolve", "rm"} => Named(c)
                      /\ Verb(c) = "cat" => Told(c)
    OBVIOUS
  <2> HIDE DEF Named, Told
  <2>1. PICK d \in Runs : Run(d)
    BY DEF Next, Done, Ends, vars
  <2>2. /\ Verb(c) = "get" => Get(c)
        /\ Verb(c) = "entity resolve" => ReadName(c) \/ ShowName(c)
        /\ Verb(c) = "rm" => Bury(c) \/ Land(c)
        /\ Verb(c) = "cat" => Cat(c)
    BY <2>1, OwnSteps
  <2> QED
    BY <1>1, <1>2, <1>3, <1>4, <2>2
<1>6. IInv /\ [Next]_vars => [\A c \in Runs :
          Ends(c) =>
              /\ Verb(c) \in {"get", "entity resolve", "rm"} =>
                    (answer'[c].exit = "notfound"
                        <=> step[c] = "start" /\ Lacks([by |-> "name", name |-> ask[c].name]))
              /\ Verb(c) = "cat" => (answer'[c].exit = "notfound" <=> Lacks(ask[c].spec))]_vars
  BY <1>5
<1> QED
  BY <1>6, IInvHolds, PTL DEF Spec, NotFoundMeansMissing

-----------------------------------------------------------------------------
(* Live documents stay readable by name *)

\* A document in the object database that other tools did not write decodes.
Readable(root) == Inspect(root) = "bound" => root \in Foreign \/ DecodeExit(root) = "ok"
AllReadable == \A root \in objects : Readable(root)

(* A tree that reads as a value of a struct schema still does once it is   *)
(* bound to that schema: what bind and compile make can be read.           *)
LEMMA BoundDecodes ==
    ASSUME NEW bare, NEW schema \in StructSchemas, Decode(bare, schema) # {}
    PROVE  DecodeExit(Root(bare, schema)) = "ok"
<1> DEFINE root == Root(bare, schema)
<1>1. root.bare = bare /\ root.schema = schema
  BY DEF Root
<1>2. bare # NoValue
  BY EncodingAssumption, MarksAssumption DEF Decode
<1>3. schema \in Schemas /\ schema \notin {NoEntry, "file"} /\ schema \notin {"mislabelled", "missing"}
  BY SchemasAssumption, MarksAssumption DEF Odd
<1>4. SplitExit(root) = "ok"
  <2> HIDE DEF root
  <2>1. schema # "mislabelled" /\ schema # "missing"
    BY <1>3
  <2> QED
    BY <1>1, <1>2, <1>3, <2>1, Zenon DEF SplitExit
<1>5. SchemaExit(schema) = "ok" /\ RootExit(schema) = "ok"
  BY <1>3 DEF SchemaExit, RootExit
<1>6. ReadBareExit(Root(bare, NoEntry), schema) = "ok"
  BY <1>5 DEF ReadBareExit, Root
<1>7. FirstFailure(<<"ok", "ok", "ok">>) = "ok"
  <2>1. \A i \in 1 .. 3 : <<"ok", "ok", "ok">>[i] = "ok"
    OBVIOUS
  <2>2. {i \in 1 .. Len(<<"ok", "ok", "ok">>) : <<"ok", "ok", "ok">>[i] # "ok"} = {}
    BY <2>1
  <2> QED
    BY <2>2 DEF FirstFailure
<1>8. DecodeExit(root) = "ok"
  <2> HIDE DEF root
  <2> QED
    BY <1>1, <1>4, <1>5, <1>6, <1>7 DEF DecodeExit
<1> QED
  BY <1>8

(* A bare value is no document.                                            *)
LEMMA BareIsUnbound ==
    ASSUME NEW root, root.schema = NoEntry
    PROVE  Readable(root)
<1>1. root.schema \notin Odd \ {"junk"}
  BY DEF NoEntry, Odd
<1>2. Inspect(root) = "legacy_value_root"
  BY <1>1, Zenon DEF Inspect
<1> QED
  BY <1>2 DEF Readable

LEMMA ReadableInit == Init => AllReadable
<1> SUFFICES ASSUME Init, NEW root \in objects PROVE Readable(root)
  BY DEF AllReadable
<1>1. PICK s \in Scenarios : refs = s.refs
  BY DEF Init
<1>2. IsStart(refs)
  BY <1>1, ScenariosAssumption
<1> DEFINE roots == UNION {ToSet(refs[n]) : n \in Names}
<1>3. objects = Foreign \cup roots \cup {Root(r.bare, NoEntry) : r \in roots}
  BY DEF Init, Written
<1>4. CASE root \in Foreign
  BY <1>4 DEF Readable
<1>5. CASE root \in roots
  <2>1. PICK n \in Names : root \in ToSet(refs[n])
    BY <1>5
  <2>2. PICK i \in DOMAIN refs[n] : root = refs[n][i]
    BY <2>1 DEF ToSet
  <2> QED
    BY <1>2, <2>2 DEF IsStart, Readable
<1>6. CASE root \in {Root(r.bare, NoEntry) : r \in roots}
  <2>1. root.schema = NoEntry
    BY <1>6 DEF Root
  <2> QED
    BY <2>1, BareIsUnbound
<1> QED
  BY <1>3, <1>4, <1>5, <1>6

(* Whatever a command adds to the object database is bare, or can be read. *)
LEMMA AddedReadable ==
    ASSUME IInv, NEW c \in Runs, Run(c), NEW root \in objects' \ objects
    PROVE  Readable(root)
<1>1. CASE RefuseSchema(c) \/ ReadSchemaTip(c) \/ RegisterWins(c) \/ RegisterLoses(c)
  BY <1>1 DEF RefuseSchema, ReadSchemaTip, RegisterWins, RegisterLoses
<1>2. CASE Gather(c) \/ Publish(c) \/ Resolve(c) \/ Land(c) \/ GiveUp(c) \/ TryAgain(c)
  BY <1>2 DEF Gather, Publish, Resolve, Land, GiveUp, TryAgain
<1>3. CASE Get(c) \/ ReadName(c) \/ ShowName(c) \/ ShowSchema(c) \/ ShowLog(c) \/ ResolveRef(c)
  BY <1>3 DEF Get, ReadName, ShowName, ShowSchema, ShowLog, ResolveRef
<1>4. CASE ListKinds(c) \/ ShowSchemas(c) \/ ListRefs(c) \/ ListNext(c) \/ ShowList(c)
  BY <1>4 DEF ListKinds, ShowSchemas, ListRefs, StartList, ListNext, ShowList
<1>5. CASE ShowTree(c) \/ Cat(c) \/ FindTree(c)
  BY <1>5 DEF ShowTree, Cat, FindTree
<1>6. CASE Bury(c)
  <2>1. root = Tombstone
    BY <1>6 DEF Bury
  <2> QED
    BY <2>1, TombstoneAssumption DEF Readable
<1>7. CASE Compile(c)
  <2> DEFINE tip == refs[ask[c].kind]
  <2>1. CompileExit(ask[c].text, Last(tip)) = "ok"
    <3>1. ExitOf("NoSchema") # "ok"
      BY ErrorsAreFailures, FailureIsNoSuccess
    <3>2. (IF tip = Absent THEN ExitOf("NoSchema") ELSE CompileExit(ask[c].text, Last(tip))) = "ok"
      BY <1>7 DEF Compile
    <3> QED
      BY <3>1, <3>2
  <2>2. PICK r \in Compiled(ask[c].text, tip) : root \in {r, Root(r.bare, NoEntry)}
    BY <1>7 DEF Compile
  <2>3. Last(tip) \in StructSchemas
    <3>1. RootExit(Last(tip)) = "ok"
      BY <2>1, ChecksExit, TwoChecks DEF CompileExit
    <3> QED
      BY <3>1, ErrorsAreFailures, FailureIsNoSuccess DEF RootExit
  <2>4. PICK bare \in Encode(ask[c].text, Last(tip)) : r = Root(bare, Last(tip))
    BY <2>2 DEF Compiled, Bound
  <2>5. Decode(bare, Last(tip)) # {}
    BY <2>4 DEF Encode, Decode
  <2>6. DecodeExit(r) = "ok"
    BY <2>3, <2>4, <2>5, BoundDecodes
  <2>7. CASE root = r
    BY <2>6, <2>7 DEF Readable
  <2>8. CASE root = Root(r.bare, NoEntry)
    BY <2>8, BareIsUnbound DEF Root
  <2> QED
    BY <2>2, <2>7, <2>8
<1>8. CASE DecodeValue(c) \/ CheckValue(c)
  <2> DEFINE found == job[c].found
             schema == SchemaAt(ask[c].schema)
  <2>1. root = found /\ ReadBareExit(found, schema) = "ok"
    <3>1. CASE DecodeValue(c)
      <4> DEFINE line == Line(NoRef, Absent, {found}, Decode(found.bare, schema))
      <4>1. UseSchema(c, "value decode", ReadBareExit(found, schema), line)
        BY <3>1 DEF DecodeValue
      <4>2. line.trees = {found}
        BY DEF Line
      <4> HIDE DEF line, found, schema
      <4> QED
        BY <4>1, <4>2 DEF UseSchema
    <3>2. CASE CheckValue(c)
      <4> DEFINE line == Line(NoRef, Absent, {found}, {})
                 exit == Within(ReadBareExit(found, schema), "schema")
      <4>1. UseSchema(c, "check", exit, line)
        BY <3>2 DEF CheckValue
      <4>2. line.trees = {found}
        BY DEF Line
      <4>3. exit = "ok" => ReadBareExit(found, schema) = "ok"
        BY ChecksExit, WithinExits DEF Classes
      <4> HIDE DEF line, found, schema, exit
      <4> QED
        BY <4>1, <4>2, <4>3 DEF UseSchema
    <3> QED
      BY <1>8, <3>1, <3>2
  <2>2. found.schema = NoEntry
    BY <2>1, ErrorsAreFailures, FailureIsNoSuccess DEF ReadBareExit
  <2> QED
    BY <2>1, <2>2, BareIsUnbound
<1>9. CASE BindValue(c)
  <2> DEFINE found == job[c].found
             schema == SchemaAt(ask[c].schema)
             line == Line(NoRef, Absent, {Root(found.bare, schema)}, {})
  <2>1. UseSchema(c, "document bind", BindExit(found, schema), line)
    BY <1>9 DEF BindValue
  <2>2. line.trees = {Root(found.bare, schema)}
    BY DEF Line
  <2>3. root = Root(found.bare, schema) /\ BindExit(found, schema) = "ok"
    <3> HIDE DEF line, found, schema
    <3> QED
      BY <2>1, <2>2 DEF UseSchema
  <2>4. RootExit(schema) = "ok" /\ ReadBareExit(found, schema) = "ok"
    BY <2>3, ChecksExit, ThreeChecks DEF BindExit
  <2>5. schema \in StructSchemas /\ Decode(found.bare, schema) # {}
    BY <2>4, ErrorsAreFailures, FailureIsNoSuccess DEF RootExit, ReadBareExit
  <2> QED
    BY <2>3, <2>5, BoundDecodes DEF Readable
<1>10. CASE EncodeText(c)
  <2>1. PICK schema : root \in {Root(bare, NoEntry) : bare \in Encode(ask[c].text, schema)}
    BY <1>10 DEF EncodeText
  <2>2. root.schema = NoEntry
    BY <2>1 DEF Root
  <2> QED
    BY <2>2, BareIsUnbound
<1> QED
  BY <1>1, <1>2, <1>3, <1>4, <1>5, <1>6, <1>7, <1>8, <1>9, <1>10 DEF Run

LEMMA ReadableStep == IInv /\ AllReadable /\ [Next]_vars => AllReadable'
<1> SUFFICES ASSUME IInv, AllReadable, [Next]_vars, NEW root \in objects' PROVE Readable(root)
  BY DEF AllReadable, Readable
<1>1. CASE root \in objects
  BY <1>1 DEF AllReadable
<1>2. CASE root \notin objects
  <2>1. PICK c \in Runs : Run(c)
    BY <1>2 DEF Next, Done, vars
  <2> QED
    BY <1>2, <2>1, AddedReadable
<1> QED
  BY <1>1, <1>2

(* A live document that a command of the store has made is read by name as *)
(* the value it was made of, whatever became of the schema of its kind     *)
(* (kind.rs, read).                                                        *)
THEOREM NamesAreReadable == Spec => NamesStayReadable
<1> DEFINE Shows(c) ==
               LET tip == refs[ask[c].name]
               IN  tip # Absent /\ Last(tip) \notin Foreign \cup {Tombstone} =>
                       LET shown == Line(ask[c].name, tip, {}, ValueOf(Last(tip)))
                       IN  answer'[c] = [exit |-> "ok", lines |-> {shown}]
<1>1. ASSUME IInv, AllReadable, NEW c \in Runs, Get(c) PROVE Shows(c)
  <2> DEFINE name == ask[c].name
             tip == refs[name]
             root == Last(tip)
  <2>1. StoreOK /\ name \in Names
    BY <1>1, InHand DEF Get, At, Verb, IsRequest
  <2> SUFFICES ASSUME tip # Absent, root \notin Foreign \cup {Tombstone}
               PROVE  answer'[c] = [exit |-> "ok", lines |-> {Line(name, tip, {}, ValueOf(root))}]
    OBVIOUS
  <2>2. root \in Publishable
    <3>1. tip \in Seq(Publishable)
      BY <2>1, HistoryFacts DEF Refs
    <3> QED
      BY <3>1, LastFacts DEF Absent
  <2>3. root \in Roots /\ DecodeExit(root) = "ok"
    BY <1>1, <2>1, <2>2 DEF Publishable, StoreOK, AllReadable, Readable
  <2>4. Root(root.bare, SchemaRead(name, root)) = root
    BY <2>3 DEF Root, Roots, SchemaRead
  <2>5. NamedExit(name) = "ok"
    <3>1. ~Deleted(tip)
      BY DEF Deleted
    <3>2. NamedExit(name) = DecodeExit(Root(root.bare, SchemaRead(name, root)))
      BY <3>1, Zenon DEF NamedExit
    <3> QED
      BY <2>3, <2>4, <3>2
  <2>6. Decode(root.bare, SchemaRead(name, root)) = ValueOf(root)
    BY DEF SchemaRead, ValueOf
  <2>7. Exit(c, "ok", {Line(name, tip, {}, ValueOf(root))})
    BY <1>1, <2>5, <2>6 DEF Get, ExitWith
  <2> HIDE DEF root, tip, name
  <2> QED
    BY <1>1, <2>7, InHand DEF Exit
<1>2. IInv /\ AllReadable /\ [Next]_vars => [\A c \in Runs : Verb(c) = "get" /\ Ends(c) => Shows(c)]_vars
  <2> SUFFICES ASSUME IInv, AllReadable, Next, NEW c \in Runs, Verb(c) = "get", Ends(c)
               PROVE  Shows(c)
    OBVIOUS
  <2> HIDE DEF Shows
  <2>1. PICK d \in Runs : Run(d)
    BY DEF Next, Done, Ends, vars
  <2>2. Get(c)
    BY <2>1, OwnSteps
  <2> QED
    BY <1>1, <2>2
<1>3. Spec => []AllReadable
  BY IInvHolds, ReadableInit, ReadableStep, PTL DEF Spec
<1> QED
  BY <1>2, <1>3, IInvHolds, PTL DEF Spec, NamesStayReadable

-----------------------------------------------------------------------------
(* The theorems *)

(* The invariant implies each of the properties.                           *)
LEMMA IInvMeans ==
    ASSUME IInv
    PROVE  CommandsTypeOK /\ ShownCommitsStay /\ DocumentsPinned /\ PublishedAreBound /\ LinesAgree
<1>1. /\ StoreOK /\ RequestsOK
      /\ step \in [Runs -> Steps] /\ DOMAIN answer = Runs
      /\ \A c \in Runs : step[c] \in Steps /\ AnswerOK(c)
  BY DEF IInv, RunOK
<1>2. \A c \in Runs : \A line \in answer[c].lines : line \in Lines /\ Agrees(line) /\ Held(line)
  BY <1>1 DEF AnswerOK, Shown
<1>3. \A n \in Names : refs[n] \in Seq(Publishable)
  BY <1>1, HistoryFacts DEF Refs
<1>4. CommandsTypeOK
  <2>1. \A k \in Kinds : refs[k] \in Seq(Universe)
    BY <1>1, HistoryFacts DEF Refs
  <2>2. \A n \in Names : refs[n] \in Seq(objects)
    BY <1>3, SeqWider DEF Publishable
  <2>3. step \in [Runs -> Steps]
    BY <1>1
  <2> QED
    BY <1>1, <1>2, <2>1, <2>2, <2>3 DEF CommandsTypeOK, StoreOK, AnswerOK
<1>5. ShownCommitsStay
  BY <1>2 DEF ShownCommitsStay, Held
<1>6. DocumentsPinned
  BY <1>1 DEF DocumentsPinned, AnswerOK, PinnedLines, Pinned
<1>7. PublishedAreBound
  <2> SUFFICES ASSUME NEW n \in Names, NEW i \in DOMAIN refs[n]
               PROVE  Inspect(refs[n][i]) = "bound"
    BY DEF PublishedAreBound
  <2>1. refs[n][i] \in Publishable
    BY <1>3
  <2> QED
    BY <2>1 DEF Publishable
<1>8. LinesAgree
  BY <1>2 DEF LinesAgree, Agrees
<1> QED
  BY <1>4, <1>5, <1>6, <1>7, <1>8

(* The commands keep the types of the store and of what they print, and    *)
(* publish nothing whose tree is not in the object database.               *)
THEOREM CommandsTyped == Spec => []CommandsTypeOK
BY IInvHolds, IInvMeans, PTL

(* A commit that a command has printed stays in the history of its ref:    *)
(* no racing schema put, put, publish or rm overwrites what another has    *)
(* acknowledged.                                                           *)
THEOREM ShownCommitsAreKept == Spec => []ShownCommitsStay
BY IInvHolds, IInvMeans, PTL

(* The document that compile and put print reads back as the value that    *)
(* was given, under a schema that its kind had while the command ran.      *)
THEOREM DocumentsArePinned == Spec => []DocumentsPinned
BY IInvHolds, IInvMeans, PTL

(* Only bound documents are published, whether by the path that inspects   *)
(* them first or by the batch, which only splits them.                     *)
THEOREM PublicationsAreBound == Spec => []PublishedAreBound
BY IInvHolds, IInvMeans, PTL

(* The trees and values printed beside a commit are those of that commit.  *)
THEOREM LinesAreCoherent == Spec => []LinesAgree
BY IInvHolds, IInvMeans, PTL
=============================================================================
