--------------------------- MODULE ReadersProofs ----------------------------
(***************************************************************************)
(* What readers are shown, for every set of readers, queries, writers,     *)
(* names and kinds: ReadTypeOK, RowsWereHeld, ListingsAgree and            *)
(* VersionsBelong.                                                         *)
(*                                                                         *)
(* A listing reads its refs one by one, so it is no snapshot.  What is     *)
(* true of it is said of each name: because branches only grow, the        *)
(* commits a branch name has held since the call began only gain members   *)
(* while the call runs (HeldOnlyGrows).  So what a scan has found of a     *)
(* name, a commit or an absence, stays among what the name has held,       *)
(* however the writers go on.                                              *)
(***************************************************************************)
EXTENDS Readers, EntitiesProofs

Fields == {"query", "pinned", "found", "live", "todo", "rows", "from"}

Listings == {"list", "entries", "rows", "listing"}

\* What a branch name has held since the call with locals j began, when the
\* refs are s.
HeldBy(j, s, n) ==
    IF n \in DOMAIN j.pinned THEN {j.pinned[n]}
    ELSE {p \in Prefixes(s[n]) : IsPrefix(j.from[n], p)}

LookOK(j) ==
    /\ DOMAIN j = Fields
    /\ j.query \in Queries
    /\ j.found \in History
    /\ j.live \subseteq Names
    /\ j.todo \subseteq Names
    /\ DOMAIN j.rows \subseteq Names
    /\ \A n \in DOMAIN j.rows : j.rows[n] \in History \ {Absent}
    /\ j.from \in [Names -> History]

\* The call began with what the refs held, and branches have grown since.
FromOK(j, s) ==
    /\ j.pinned \in [j.query.viewed -> History]
    /\ \A n \in BranchNames \ j.query.viewed : IsPrefix(j.from[n], s[n])

RowsOK(j, s) == \A n \in BranchNames \cap DOMAIN j.rows : j.rows[n] \in HeldBy(j, s, n)

\* What the scan has passed without a row did not exist.
GapsOK(j, s) ==
    \A n \in BranchNames :
        KindOf[n] = j.query.kind /\ n \notin j.todo /\ n \notin DOMAIN j.rows
            => Absent \in HeldBy(j, s, n)

\* The names the first listing of the command found live, and the others.
LiveOK(j, s) ==
    \A n \in BranchNames :
        KindOf[n] = j.query.kind =>
            \E p \in HeldBy(j, s, n) : n \in j.live <=> Present(p)

AgreeOK(j, s) ==
    \A n \in BranchNames \cap j.query.group :
        IF n \in DOMAIN j.rows
        THEN j.query.op # "rows" => \E p \in HeldBy(j, s, n) : Present(p)
        ELSE \E p \in HeldBy(j, s, n) :
                IF j.query.op = "rows" THEN p = Absent ELSE ~Present(p)

\* The commit is a version of the name, if that is a branch.
IsVersion(s, n, commit) == n \in BranchNames => commit \in Prefixes(s[n])

\* What holds of a reader at label l with locals j when the refs are s.
ReaderOK(l, j, s) ==
    /\ l \in {"idle"} \cup RWorking \cup RReturned
    /\ LookOK(j)
    /\ l # "idle" => FromOK(j, s)
    /\ l \in {"scan", "again", "validate"} =>
           j.query.op \in Listings /\ RowsOK(j, s) /\ GapsOK(j, s)
    /\ l = "again" => j.query.op = "listing"
    /\ l = "validate" =>
           /\ j.todo = {} /\ j.query.op # "list"
           /\ j.query.op = "entries" => j.query.group = Scanned(j.query.kind)
    /\ l \in {"again", "validate"} /\ j.query.op = "listing" => LiveOK(j, s)
    /\ l = "fetch" => j.query.op = "read"
    /\ l \in {"resolve", "belongs", "stray"} => j.query.op \in {"version", "commit"}
    /\ l \in {"belongs", "stray"} /\ j.query.op = "version" =>
           IsVersion(s, j.query.name, j.found)
    /\ l = "stray" => ~(j.query.name \in BranchNames /\ j.query.op = "version")
    /\ l = "shown" /\ j.query.op \in Listings => AgreeOK(j, s)
    /\ l = "shown" /\ j.query.op \notin {"version", "commit"} => RowsOK(j, s)
    /\ l = "shown" /\ j.query.op \in {"version", "commit"} =>
           \A m \in DOMAIN j.rows : IsVersion(s, j.query.name, j.rows[m])

RInv ==
    /\ IInv
    /\ rpc \in [Readers -> {"idle"} \cup RWorking \cup RReturned]
    /\ DOMAIN look = Readers
    /\ \A r \in Readers : ReaderOK(rpc[r], look[r], refs)

-----------------------------------------------------------------------------
(* Histories *)

(* The prefixes of a history are its commits.                              *)
LEMMA PrefixesAre ==
    ASSUME NEW h \in History, NEW p
    PROVE  p \in Prefixes(h) <=> p \in History /\ IsPrefix(p, h)
<1>1. Len(h) \in Nat
  BY LenProperties DEF History
<1>2. ASSUME p \in Prefixes(h)
      PROVE  p \in History /\ IsPrefix(p, h)
  BY <1>2, PrefixesFacts, PrefixMeaning
<1>3. ASSUME p \in History, IsPrefix(p, h)
      PROVE  p \in Prefixes(h)
  <2>1. Len(p) \in 0 .. Len(h)
    BY <1>1, <1>3, PrefixMeaning, LenProperties DEF History
  <2>2. p = SubSeq(h, 1, Len(p))
    BY <1>3, SubSeqFull DEF History, IsPrefix
  <2> QED
    BY <2>1, <2>2 DEF Prefixes
<1> QED
  BY <1>2, <1>3

(* What a name has held since a call began it still has.                   *)
LEMMA HeldOnlyGrows ==
    ASSUME IInv, [Next]_vars, NEW j, NEW n \in BranchNames
    PROVE  HeldBy(j, refs, n) \subseteq HeldBy(j, refs', n)
<1>1. refs[n] \in History /\ refs'[n] \in History /\ IsPrefix(refs[n], refs'[n])
  BY RefsGrow
<1>2. Prefixes(refs[n]) \subseteq Prefixes(refs'[n])
  BY <1>1, PrefixesAre, PrefixTransitive
<1> QED
  BY <1>2 DEF HeldBy

(* A reader keeps what it knows while writers go on.                       *)
LEMMA ReaderWaits ==
    ASSUME IInv, [Next]_vars, NEW l, NEW j, ReaderOK(l, j, refs)
    PROVE  ReaderOK(l, j, refs')
<1>1. \A n \in BranchNames : HeldBy(j, refs, n) \subseteq HeldBy(j, refs', n)
  BY HeldOnlyGrows
<1>2. \A n \in BranchNames : n \in Names /\ refs[n] \in History /\ refs'[n] \in History
  BY RefsGrow DEF BranchNames
<1>3. \A n \in BranchNames, p \in History : IsPrefix(p, refs[n]) => IsPrefix(p, refs'[n])
  BY PrefixGrows, CallsGrow
<1>4. FromOK(j, refs) /\ LookOK(j) => FromOK(j, refs')
  BY <1>2, <1>3 DEF FromOK, LookOK
<1>5. RowsOK(j, refs) => RowsOK(j, refs')
  BY <1>1 DEF RowsOK
<1>6. GapsOK(j, refs) => GapsOK(j, refs')
  BY <1>1 DEF GapsOK
<1>7. LiveOK(j, refs) => LiveOK(j, refs')
  BY <1>1 DEF LiveOK
<1>8. AgreeOK(j, refs) => AgreeOK(j, refs')
  BY <1>1 DEF AgreeOK
<1>9. \A n, p : IsVersion(refs, n, p) => IsVersion(refs', n, p)
  BY <1>2, <1>3, PrefixesAre DEF IsVersion
<1> QED
  BY <1>4, <1>5, <1>6, <1>7, <1>8, <1>9 DEF ReaderOK
-----------------------------------------------------------------------------
(* Readers *)

(* A reader steps and nobody else does.                                    *)
LEMMA OneReads ==
    ASSUME RInv, NEW r \in Readers, UNCHANGED vars,
           UNCHANGED rpc \/ \E l : RGoto(r, l), DOMAIN look' = Readers,
           \A q \in Readers \ {r} : look'[q] = look[q],
           ReaderOK(rpc'[r], look'[r], refs)
    PROVE  RInv'
<1>1. IInv'
  BY InvNext DEF RInv
<1>2. \A q \in Readers \ {r} : rpc'[q] = rpc[q]
  BY DEF RInv, RGoto
<1>3. \A q \in Readers : ReaderOK(rpc'[q], look'[q], refs)
  BY <1>2 DEF RInv
<1>4. rpc' \in [Readers -> {"idle"} \cup RWorking \cup RReturned]
  <2>1. rpc'[r] \in {"idle"} \cup RWorking \cup RReturned
    BY DEF ReaderOK
  <2>2. rpc \in [Readers -> {"idle"} \cup RWorking \cup RReturned]
    BY DEF RInv
  <2>3. CASE UNCHANGED rpc
    BY <2>2, <2>3
  <2>4. ASSUME NEW l, RGoto(r, l)
        PROVE  rpc' \in [Readers -> {"idle"} \cup RWorking \cup RReturned]
    <3>1. rpc' = [rpc EXCEPT ![r] = l]
      BY <2>4 DEF RGoto
    <3> QED
      BY <2>1, <2>2, <3>1
  <2> QED
    BY <2>3, <2>4
<1>5. refs' = refs
  BY DEF vars
<1> QED
  BY <1>1, <1>3, <1>4, <1>5 DEF RInv

(* What a reader sees at a ref, in the store or in its view.               *)
LEMMA TipFacts ==
    ASSUME RInv, NEW r \in Readers, rpc[r] # "idle", NEW n \in Names
    PROVE  /\ ViewTip(r, n) \in History
           /\ n \in BranchNames => ViewTip(r, n) \in HeldBy(look[r], refs, n)
<1> DEFINE j == look[r]
<1>1. /\ LookOK(j) /\ j.pinned \in [j.query.viewed -> History]
      /\ \A m \in BranchNames \ j.query.viewed : IsPrefix(j.from[m], refs[m])
  BY DEF RInv, ReaderOK, FromOK
<1>2. refs[n] \in History
  BY DEF RInv, IInv, TypeOK
<1>3. refs[n] \in Prefixes(refs[n])
  BY <1>2, PrefixesAre, PrefixReflexive
<1>4. CASE n \in DOMAIN j.pinned
  BY <1>1, <1>4 DEF ViewTip, HeldBy
<1>5. CASE n \notin DOMAIN j.pinned
  <2>1. ViewTip(r, n) = refs[n]
    BY <1>5 DEF ViewTip
  <2>2. n \in BranchNames => IsPrefix(j.from[n], refs[n])
    BY <1>1, <1>5
  <2> QED
    BY <1>2, <1>3, <1>5, <2>1, <2>2 DEF HeldBy
<1> QED
  BY <1>4, <1>5

(* A call begins.                                                          *)
LEMMA ReadStartKeeps == ASSUME RInv, NEW r \in Readers, ReadStart(r) PROVE RInv'
<1>1. PICK q \in Queries :
        \E pins \in [q.viewed -> AllTokens] :
          /\ \A n \in q.viewed : pins[n] \in Tokens(n)
          /\ look' = [look EXCEPT ![r] =
                [query |-> q, pinned |-> pins, found |-> Absent, live |-> {},
                 todo |-> Scanned(q.kind), rows |-> NoRows,
                 from |-> [n \in Names |->
                              IF n \in q.viewed THEN pins[n] ELSE refs[n]]]]
          /\ RGoto(r, IF q.op = "read" THEN "fetch"
                      ELSE IF q.op \in {"version", "commit"} THEN "resolve" ELSE "scan")
  BY DEF ReadStart
<1>2. PICK pins \in [q.viewed -> AllTokens] :
          /\ look' = [look EXCEPT ![r] =
                [query |-> q, pinned |-> pins, found |-> Absent, live |-> {},
                 todo |-> Scanned(q.kind), rows |-> NoRows,
                 from |-> [n \in Names |->
                              IF n \in q.viewed THEN pins[n] ELSE refs[n]]]]
          /\ RGoto(r, IF q.op = "read" THEN "fetch"
                      ELSE IF q.op \in {"version", "commit"} THEN "resolve" ELSE "scan")
  BY <1>1
<1>3. PICK l : l = IF q.op = "read" THEN "fetch"
                   ELSE IF q.op \in {"version", "commit"} THEN "resolve" ELSE "scan"
  OBVIOUS
<1>4. PICK j : j = [query |-> q, pinned |-> pins, found |-> Absent, live |-> {},
                    todo |-> Scanned(q.kind), rows |-> NoRows,
                    from |-> [n \in Names |->
                                 IF n \in q.viewed THEN pins[n] ELSE refs[n]]]
  OBVIOUS
<1>5. /\ look' = [look EXCEPT ![r] = j] /\ rpc' = [rpc EXCEPT ![r] = l] /\ UNCHANGED vars
  BY <1>2, <1>3, <1>4 DEF RGoto, ReadStart
<1>6. /\ q.op \in ReadOps /\ q.viewed \subseteq Names
  BY QueriesAssumption
<1>7. \/ l = "fetch" /\ q.op = "read"
      \/ l = "resolve" /\ q.op \in {"version", "commit"}
      \/ l = "scan" /\ q.op \in Listings
  BY <1>3, <1>6 DEF ReadOps, Listings
<1>8. AllTokens \subseteq History
  BY PrefixesAre DEF AllTokens, Tokens, RInv, IInv, TypeOK
<1>9. Absent \in History
  BY AbsentTombstones
<1>10. \A n \in Names : refs[n] \in History
  BY DEF RInv, IInv, TypeOK
<1>11. DOMAIN NoRows = {} /\ Scanned(q.kind) \subseteq Names
  BY DEF NoRows, Scanned
<1>12. LookOK(j)
  <2>1. j.from \in [Names -> History]
    BY <1>4, <1>6, <1>8, <1>10
  <2> QED
    BY <1>4, <1>9, <1>11, <2>1 DEF LookOK, Fields
<1>13. FromOK(j, refs)
  <2>1. \A n \in BranchNames \ q.viewed : j.from[n] = refs[n] /\ IsPrefix(refs[n], refs[n])
    BY <1>4, <1>10, PrefixReflexive DEF BranchNames
  <2> QED
    BY <1>4, <1>8, <2>1 DEF FromOK
<1>14. RowsOK(j, refs) /\ GapsOK(j, refs)
  <2>1. RowsOK(j, refs)
    BY <1>4, <1>11 DEF RowsOK
  <2>2. GapsOK(j, refs)
    BY <1>4 DEF GapsOK, Scanned, BranchNames
  <2> QED
    BY <2>1, <2>2
<1>15. ReaderOK(l, j, refs)
  <2>1. j.query = q
    BY <1>4
  <2> QED
    BY <1>7, <1>12, <1>13, <1>14, <2>1 DEF ReaderOK, RWorking, RReturned, Listings
<1>16. /\ DOMAIN rpc' = Readers /\ DOMAIN look' = Readers /\ rpc'[r] = l /\ look'[r] = j
       /\ \A d \in Readers \ {r} : rpc'[d] = rpc[d] /\ look'[d] = look[d]
  BY <1>5 DEF RInv
<1> QED
  BY <1>2, <1>3, <1>5, <1>15, <1>16, OneReads

(* A listing looks at one more ref.                                        *)
LEMMA ScanRefKeeps == ASSUME RInv, NEW r \in Readers, ScanRef(r) PROVE RInv'
<1>1. PICK n \in look[r].todo :
          look' = [look EXCEPT
             ![r].todo = @ \ {n},
             ![r].rows = IF ViewTip(r, n) = Absent THEN @
                         ELSE [m \in DOMAIN @ \cup {n} |->
                                  IF m = n THEN ViewTip(r, n) ELSE @[m]]]
  BY DEF ScanRef
<1>2. /\ rpc[r] \in {"scan", "again"} /\ UNCHANGED <<vars, rpc>>
      /\ ReaderOK(rpc[r], look[r], refs) /\ DOMAIN rpc = Readers /\ DOMAIN look = Readers
  BY DEF ScanRef, RInv
<1>3. LookOK(look[r]) /\ n \in Names
  BY <1>2 DEF ReaderOK, LookOK
<1>4. PICK tip \in History : tip = ViewTip(r, n)
  BY <1>2, <1>3, TipFacts
<1>5. PICK j : j = look'[r]
  OBVIOUS
<1>6. /\ DOMAIN look' = Readers /\ \A d \in Readers \ {r} : look'[d] = look[d]
      /\ DOMAIN j = Fields /\ j.query = look[r].query /\ j.pinned = look[r].pinned
      /\ j.found = look[r].found /\ j.live = look[r].live /\ j.from = look[r].from
      /\ j.todo = look[r].todo \ {n}
      /\ tip = Absent => j.rows = look[r].rows
      /\ tip # Absent => j.rows = [m \in DOMAIN look[r].rows \cup {n} |->
                                      IF m = n THEN tip ELSE look[r].rows[m]]
  BY <1>1, <1>2, <1>3, <1>4, <1>5 DEF LookOK, Fields
<1>7. \A m : HeldBy(j, refs, m) = HeldBy(look[r], refs, m)
  BY <1>6 DEF HeldBy
<1>8. n \in BranchNames => tip \in HeldBy(j, refs, n)
  BY <1>2, <1>3, <1>4, <1>7, TipFacts
<1>9. /\ FromOK(look[r], refs) /\ RowsOK(look[r], refs) /\ GapsOK(look[r], refs)
      /\ look[r].query.op \in Listings
      /\ rpc[r] = "again" => look[r].query.op = "listing" /\ LiveOK(look[r], refs)
  BY <1>2 DEF ReaderOK
<1>10. LookOK(j)
  <2>1. CASE tip = Absent
    BY <1>3, <1>6, <2>1 DEF LookOK
  <2>2. CASE tip # Absent
    BY <1>3, <1>6, <2>2 DEF LookOK
  <2> QED
    BY <2>1, <2>2
<1>11. FromOK(j, refs)
  BY <1>6, <1>9 DEF FromOK
<1>12. RowsOK(j, refs)
  <2>1. CASE tip = Absent
    BY <1>6, <1>7, <1>9, <2>1 DEF RowsOK
  <2>2. CASE tip # Absent
    BY <1>6, <1>7, <1>8, <1>9, <2>2 DEF RowsOK
  <2> QED
    BY <2>1, <2>2
<1>13. GapsOK(j, refs)
  <2>1. CASE tip = Absent
    BY <1>6, <1>7, <1>8, <1>9, <2>1 DEF GapsOK
  <2>2. CASE tip # Absent
    BY <1>6, <1>7, <1>9, <2>2 DEF GapsOK
  <2> QED
    BY <2>1, <2>2
<1>14. LiveOK(look[r], refs) => LiveOK(j, refs)
  BY <1>6, <1>7 DEF LiveOK
<1>15. ReaderOK(rpc[r], j, refs)
  BY <1>2, <1>6, <1>9, <1>10, <1>11, <1>12, <1>13, <1>14 DEF ReaderOK
<1> QED
  BY <1>2, <1>5, <1>6, <1>15, OneReads

(* The names that stay, and their rows.                                    *)
LEMMA OnlyFacts ==
    ASSUME NEW rows, NEW names
    PROVE  /\ DOMAIN Only(rows, names) = DOMAIN rows \cap names
           /\ \A n \in DOMAIN rows \cap names : Only(rows, names)[n] = rows[n]
BY DEF Only

LEMMA LiveFacts ==
    ASSUME NEW rows
    PROVE  /\ DOMAIN LiveRows(rows) = {n \in DOMAIN rows : Present(rows[n])}
           /\ \A n \in DOMAIN LiveRows(rows) : LiveRows(rows)[n] = rows[n]
<1>1. PICK live : live = {n \in DOMAIN rows : Present(rows[n])}
  OBVIOUS
<1>2. LiveRows(rows) = Only(rows, live)
  BY <1>1 DEF LiveRows
<1>3. DOMAIN rows \cap live = live /\ live \subseteq DOMAIN rows
  BY <1>1
<1>4. LiveRows(rows) = [n \in live |-> rows[n]]
  BY <1>2, <1>3 DEF Only
<1> QED
  BY <1>1, <1>3, <1>4

(* A reader drops rows of what it has scanned and returns.                 *)
LEMMA ShowKeeps ==
    ASSUME RInv, NEW r \in Readers, rpc[r] \in {"scan", "again", "validate"},
           look[r].todo = {},
           NEW rows, DOMAIN rows \subseteq DOMAIN look[r].rows,
           \A n \in DOMAIN rows : rows[n] = look[r].rows[n],
           look' = [look EXCEPT ![r].rows = rows], RGoto(r, "shown"), UNCHANGED vars,
           AgreeOK(look'[r], refs)
    PROVE  RInv'
<1>1. PICK j : j = look'[r]
  OBVIOUS
<1>2. /\ ReaderOK(rpc[r], look[r], refs) /\ DOMAIN rpc = Readers /\ DOMAIN look = Readers
  BY DEF RInv
<1>3. LookOK(look[r]) /\ FromOK(look[r], refs) /\ RowsOK(look[r], refs)
      /\ look[r].query.op \in Listings
  BY <1>2 DEF ReaderOK
<1>4. /\ DOMAIN look' = Readers /\ \A d \in Readers \ {r} : look'[d] = look[d]
      /\ DOMAIN rpc' = Readers /\ \A d \in Readers \ {r} : rpc'[d] = rpc[d]
      /\ rpc'[r] = "shown"
      /\ DOMAIN j = Fields /\ j.query = look[r].query /\ j.pinned = look[r].pinned
      /\ j.found = look[r].found /\ j.live = look[r].live /\ j.from = look[r].from
      /\ j.todo = look[r].todo /\ j.rows = rows
  BY <1>1, <1>2, <1>3 DEF LookOK, Fields, RGoto
<1>5. LookOK(j)
  BY <1>3, <1>4 DEF LookOK
<1>6. FromOK(j, refs)
  BY <1>3, <1>4 DEF FromOK
<1>7. RowsOK(j, refs)
  BY <1>3, <1>4 DEF RowsOK, HeldBy
<1>8. ReaderOK("shown", j, refs)
  BY <1>1, <1>3, <1>4, <1>5, <1>6, <1>7 DEF ReaderOK, RReturned, RWorking, Listings
<1> QED
  BY <1>1, <1>4, <1>8, OneReads

(* A listing is done.                                                      *)
LEMMA GroupDoneKeeps == ASSUME RInv, NEW r \in Readers, GroupDone(r) PROVE RInv'
<1>1. PICK rows : rows = LiveRows(Only(look[r].rows, look[r].query.group))
  OBVIOUS
<1>2. /\ rpc[r] = "scan" /\ look[r].todo = {} /\ look[r].query.op \in {"list", "entries"}
      /\ look' = [look EXCEPT ![r].rows = rows] /\ RGoto(r, "shown") /\ UNCHANGED vars
  BY <1>1 DEF GroupDone
<1>3. /\ ReaderOK(rpc[r], look[r], refs) /\ DOMAIN look = Readers /\ LookOK(look[r])
      /\ RowsOK(look[r], refs) /\ GapsOK(look[r], refs)
  BY <1>2 DEF RInv, ReaderOK
<1>4. PICK group : group = look[r].query.group
  OBVIOUS
<1>5. /\ DOMAIN rows = {n \in DOMAIN look[r].rows \cap group : Present(look[r].rows[n])}
      /\ \A n \in DOMAIN rows : rows[n] = look[r].rows[n]
  <2>1. PICK some : some = Only(look[r].rows, group)
    OBVIOUS
  <2>2. /\ DOMAIN some = DOMAIN look[r].rows \cap group
        /\ \A n \in DOMAIN some : some[n] = look[r].rows[n]
    BY <2>1 DEF Only
  <2>3. /\ DOMAIN rows = {n \in DOMAIN some : Present(some[n])}
        /\ \A n \in DOMAIN rows : rows[n] = some[n]
    BY <1>1, <1>4, <2>1, LiveFacts
  <2> QED
    BY <2>2, <2>3
<1>6. \A n \in group : KindOf[n] = look[r].query.kind
  BY <1>3, <1>4, ViewsAssumption DEF LookOK
<1>7. PICK j : j = look'[r]
  OBVIOUS
<1>8. j.query = look[r].query /\ j.pinned = look[r].pinned /\ j.from = look[r].from /\ j.rows = rows
  BY <1>2, <1>3, <1>7 DEF LookOK, Fields
<1>9. \A m : HeldBy(j, refs, m) = HeldBy(look[r], refs, m)
  BY <1>8 DEF HeldBy
<1>10. ASSUME NEW n \in BranchNames \cap group
       PROVE  IF n \in DOMAIN rows
              THEN \E p \in HeldBy(j, refs, n) : Present(p)
              ELSE \E p \in HeldBy(j, refs, n) : ~Present(p)
  <2>1. CASE n \in DOMAIN look[r].rows
    <3>1. look[r].rows[n] \in HeldBy(j, refs, n)
      BY <1>3, <1>9, <2>1 DEF RowsOK
    <3> QED
      BY <1>5, <2>1, <3>1
  <2>2. CASE n \notin DOMAIN look[r].rows
    <3>1. Absent \in HeldBy(j, refs, n)
      BY <1>2, <1>3, <1>6, <1>9, <2>2 DEF GapsOK
    <3>2. ~Present(Absent)
      BY DEF Present
    <3> QED
      BY <1>5, <2>2, <3>1, <3>2
  <2> QED
    BY <2>1, <2>2
<1>11. AgreeOK(j, refs)
  <2>1. j.query.op # "rows" /\ j.query.group = group
    BY <1>2, <1>4, <1>8
  <2> QED
    BY <1>8, <1>10, <2>1 DEF AgreeOK
<1> QED
  BY <1>2, <1>5, <1>7, <1>11, ShowKeeps

(* The command lists a second time.                                        *)
LEMMA ListAgainKeeps == ASSUME RInv, NEW r \in Readers, ListAgain(r) PROVE RInv'
<1>1. PICK live : live = DOMAIN LiveRows(look[r].rows)
  OBVIOUS
<1>2. /\ rpc[r] = "scan" /\ look[r].todo = {} /\ look[r].query.op = "listing"
      /\ look' = [look EXCEPT ![r].live = live, ![r].todo = Scanned(look[r].query.kind),
                              ![r].rows = NoRows]
      /\ RGoto(r, "again") /\ UNCHANGED vars
  BY <1>1 DEF ListAgain
<1>3. /\ ReaderOK(rpc[r], look[r], refs) /\ DOMAIN rpc = Readers /\ DOMAIN look = Readers
      /\ LookOK(look[r]) /\ FromOK(look[r], refs)
      /\ RowsOK(look[r], refs) /\ GapsOK(look[r], refs)
  BY <1>2 DEF RInv, ReaderOK
<1>4. PICK j : j = look'[r]
  OBVIOUS
<1>5. /\ DOMAIN look' = Readers /\ \A d \in Readers \ {r} : look'[d] = look[d]
      /\ DOMAIN rpc' = Readers /\ \A d \in Readers \ {r} : rpc'[d] = rpc[d]
      /\ rpc'[r] = "again"
      /\ DOMAIN j = Fields /\ j.query = look[r].query /\ j.pinned = look[r].pinned
      /\ j.found = look[r].found /\ j.live = live /\ j.from = look[r].from
      /\ j.todo = Scanned(look[r].query.kind) /\ j.rows = NoRows
  BY <1>2, <1>3, <1>4 DEF LookOK, Fields, RGoto
<1>6. live = {n \in DOMAIN look[r].rows : Present(look[r].rows[n])}
  BY <1>1, LiveFacts
<1>7. DOMAIN NoRows = {} /\ Scanned(look[r].query.kind) \subseteq Names
  BY DEF NoRows, Scanned
<1>8. LookOK(j)
  BY <1>3, <1>5, <1>6, <1>7 DEF LookOK
<1>9. FromOK(j, refs)
  BY <1>3, <1>5 DEF FromOK
<1>10. RowsOK(j, refs)
  BY <1>5, <1>7 DEF RowsOK
<1>11. GapsOK(j, refs)
  BY <1>5 DEF GapsOK, Scanned, BranchNames
<1>12. \A m : HeldBy(j, refs, m) = HeldBy(look[r], refs, m)
  BY <1>5 DEF HeldBy
<1>13. LiveOK(j, refs)
  <2> SUFFICES ASSUME NEW n \in BranchNames, KindOf[n] = j.query.kind
               PROVE  \E p \in HeldBy(j, refs, n) : n \in j.live <=> Present(p)
    BY DEF LiveOK
  <2>1. CASE n \in DOMAIN look[r].rows
    <3>1. look[r].rows[n] \in HeldBy(j, refs, n)
      BY <1>3, <1>12, <2>1 DEF RowsOK
    <3> QED
      BY <1>5, <1>6, <2>1, <3>1
  <2>2. CASE n \notin DOMAIN look[r].rows
    <3>1. Absent \in HeldBy(j, refs, n)
      BY <1>2, <1>3, <1>5, <1>12, <2>2 DEF GapsOK
    <3>2. ~Present(Absent)
      BY DEF Present
    <3> QED
      BY <1>5, <1>6, <2>2, <3>1, <3>2
  <2> QED
    BY <2>1, <2>2
<1>14. ReaderOK("again", j, refs)
  BY <1>2, <1>5, <1>8, <1>9, <1>10, <1>11, <1>13 DEF ReaderOK, RReturned, RWorking, Listings
<1> QED
  BY <1>2, <1>4, <1>5, <1>14, OneReads

(* A listing has its source entries.                                       *)
LEMMA ScanDoneKeeps == ASSUME RInv, NEW r \in Readers, ScanDone(r) PROVE RInv'
<1>1. /\ look[r].todo = {} /\ RGoto(r, "validate") /\ UNCHANGED <<vars, look>>
      /\ \/ rpc[r] = "scan" /\ look[r].query.op = "rows"
         \/ rpc[r] = "scan" /\ look[r].query.op = "entries" /\ WholeKind(r)
         \/ rpc[r] = "again"
  BY DEF ScanDone
<1>2. ReaderOK(rpc[r], look[r], refs) /\ DOMAIN rpc = Readers /\ DOMAIN look = Readers
  BY DEF RInv
<1>3. look[r].query.op = "entries" => look[r].query.group = Scanned(look[r].query.kind)
  BY <1>1, <1>2 DEF WholeKind, ReaderOK
<1>4. ReaderOK("validate", look[r], refs)
  BY <1>1, <1>2, <1>3 DEF ReaderOK, RWorking, RReturned, Listings
<1>5. UNCHANGED vars /\ look' = look /\ rpc' = [rpc EXCEPT ![r] = "validate"]
  BY <1>1 DEF RGoto
<1> QED
  BY <1>1, <1>2, <1>4, <1>5, OneReads

(* The index is read, and believed only if it says what the refs said.     *)
LEMMA ValidateIndexKeeps == ASSUME RInv, NEW r \in Readers, ValidateIndex(r) PROVE RInv'
<1>1. PICK rows : rows = Shown(r, look[r].rows)
  OBVIOUS
<1>2. /\ rpc[r] = "validate" /\ RGoto(r, "shown") /\ UNCHANGED vars
      /\ look' = [look EXCEPT ![r].rows = rows]
  BY <1>1 DEF ValidateIndex, Validated
<1>3. /\ ReaderOK(rpc[r], look[r], refs) /\ DOMAIN look = Readers /\ LookOK(look[r])
      /\ RowsOK(look[r], refs) /\ GapsOK(look[r], refs) /\ look[r].todo = {}
      /\ look[r].query.op \in {"entries", "rows", "listing"}
      /\ look[r].query.op = "listing" => LiveOK(look[r], refs)
  BY <1>2 DEF RInv, ReaderOK, Listings
<1>4. /\ look[r].query.op = "entries" => rows = LiveRows(look[r].rows)
      /\ look[r].query.op = "listing" => rows = Only(look[r].rows, look[r].live)
      /\ look[r].query.op = "rows" => rows = look[r].rows
  <2>1. CASE look[r].query.op = "entries"
    <3>1. look[r].query.op # "listing" /\ look[r].query.op # "rows"
      BY <2>1
    <3>2. Shown(r, look[r].rows) = LiveRows(look[r].rows)
      BY <2>1, <3>1, Zenon DEF Shown
    <3> QED
      BY <1>1, <3>1, <3>2
  <2>2. CASE look[r].query.op = "listing"
    <3>1. look[r].query.op # "entries" /\ look[r].query.op # "rows"
      BY <2>2
    <3>2. Shown(r, look[r].rows) = Only(look[r].rows, look[r].live)
      BY <2>2, <3>1, Zenon DEF Shown
    <3> QED
      BY <1>1, <3>1, <3>2
  <2>3. CASE look[r].query.op = "rows"
    <3>1. look[r].query.op # "entries" /\ look[r].query.op # "listing"
      BY <2>3
    <3>2. Shown(r, look[r].rows) = look[r].rows
      BY <3>1, Zenon DEF Shown
    <3> QED
      BY <1>1, <3>1, <3>2
  <2> QED
    BY <1>3, <2>1, <2>2, <2>3
<1>5. /\ look[r].query.op = "entries" =>
             DOMAIN rows = {n \in DOMAIN look[r].rows : Present(look[r].rows[n])}
      /\ look[r].query.op = "listing" => DOMAIN rows = DOMAIN look[r].rows \cap look[r].live
      /\ look[r].query.op = "rows" => DOMAIN rows = DOMAIN look[r].rows
      /\ \A n \in DOMAIN rows : rows[n] = look[r].rows[n]
  <2>1. CASE look[r].query.op = "entries"
    BY <1>4, <2>1, LiveFacts
  <2>2. CASE look[r].query.op = "listing"
    <3>1. PICK found, live : found = look[r].rows /\ live = look[r].live
      OBVIOUS
    <3>2. rows = Only(found, live)
      BY <1>4, <2>2, <3>1
    <3>3. DOMAIN rows = DOMAIN found \cap live /\ \A n \in DOMAIN rows : rows[n] = found[n]
      BY <3>2, OnlyFacts
    <3> QED
      BY <2>2, <3>1, <3>3
  <2>3. CASE look[r].query.op = "rows"
    BY <1>4, <2>3
  <2> QED
    BY <1>3, <2>1, <2>2, <2>3
<1>6. DOMAIN rows \subseteq DOMAIN look[r].rows
  BY <1>3, <1>5
<1>7. PICK j : j = look'[r]
  OBVIOUS
<1>8. /\ j.query = look[r].query /\ j.pinned = look[r].pinned /\ j.from = look[r].from
      /\ j.rows = rows
  BY <1>2, <1>3, <1>7 DEF LookOK, Fields
<1>9. \A m : HeldBy(j, refs, m) = HeldBy(look[r], refs, m)
  BY <1>8 DEF HeldBy
<1>10. \A n \in look[r].query.group : KindOf[n] = look[r].query.kind
  BY <1>3, ViewsAssumption DEF LookOK
<1>11. AgreeOK(j, refs)
  <2> SUFFICES ASSUME NEW n \in BranchNames \cap look[r].query.group
               PROVE  IF n \in DOMAIN rows
                      THEN look[r].query.op # "rows" => \E p \in HeldBy(j, refs, n) : Present(p)
                      ELSE \E p \in HeldBy(j, refs, n) :
                              IF look[r].query.op = "rows" THEN p = Absent ELSE ~Present(p)
    BY <1>8 DEF AgreeOK
  <2>1. ~Present(Absent)
    BY DEF Present
  <2>2. n \in DOMAIN look[r].rows => look[r].rows[n] \in HeldBy(j, refs, n)
    BY <1>3, <1>9 DEF RowsOK
  <2>3. n \notin DOMAIN look[r].rows => Absent \in HeldBy(j, refs, n)
    BY <1>3, <1>9, <1>10 DEF GapsOK
  <2>4. CASE look[r].query.op = "entries"
    BY <1>5, <2>1, <2>2, <2>3, <2>4
  <2>5. CASE look[r].query.op = "rows"
    BY <1>5, <2>3, <2>5
  <2>6. CASE look[r].query.op = "listing"
    <3>1. PICK p \in HeldBy(j, refs, n) : n \in look[r].live <=> Present(p)
      BY <1>3, <1>9, <1>10, <2>6 DEF LiveOK
    <3> QED
      BY <1>5, <2>1, <2>3, <2>6, <3>1
  <2> QED
    BY <1>3, <2>4, <2>5, <2>6
<1> QED
  BY <1>2, <1>3, <1>5, <1>6, <1>7, <1>11, ShowKeeps

(* One name is read.                                                       *)
LEMMA FetchNameKeeps == ASSUME RInv, NEW r \in Readers, FetchName(r) PROVE RInv'
<1>1. PICK n : n = look[r].query.name
  OBVIOUS
<1>2. PICK rows : rows = LiveRows([m \in {n} |-> ViewTip(r, n)])
  OBVIOUS
<1>3. /\ rpc[r] = "fetch" /\ UNCHANGED vars /\ RGoto(r, "shown")
      /\ look' = [look EXCEPT ![r].rows = rows, ![r].todo = {}]
  BY <1>1, <1>2 DEF FetchName
<1>4. /\ ReaderOK(rpc[r], look[r], refs) /\ DOMAIN rpc = Readers /\ DOMAIN look = Readers
      /\ LookOK(look[r]) /\ FromOK(look[r], refs) /\ look[r].query.op = "read"
  BY <1>3 DEF RInv, ReaderOK
<1>5. n \in Names
  BY <1>1, <1>4, QueriesAssumption DEF LookOK
<1>6. PICK tip \in History : tip = ViewTip(r, n)
  BY <1>3, <1>5, TipFacts
<1>7. /\ DOMAIN rows \subseteq {n}
      /\ \A m \in DOMAIN rows : m = n /\ rows[m] = tip /\ Present(tip)
  <2>1. PICK one : one = [m \in {n} |-> tip]
    OBVIOUS
  <2>2. rows = LiveRows(one)
    BY <1>2, <1>6, <2>1
  <2>3. DOMAIN one = {n} /\ one[n] = tip
    BY <2>1
  <2> QED
    BY <2>2, <2>3, LiveFacts
<1>8. PICK j : j = look'[r]
  OBVIOUS
<1>9. /\ DOMAIN look' = Readers /\ \A d \in Readers \ {r} : look'[d] = look[d]
      /\ DOMAIN rpc' = Readers /\ \A d \in Readers \ {r} : rpc'[d] = rpc[d]
      /\ rpc'[r] = "shown"
      /\ DOMAIN j = Fields /\ j.query = look[r].query /\ j.pinned = look[r].pinned
      /\ j.found = look[r].found /\ j.live = look[r].live /\ j.from = look[r].from
      /\ j.todo = {} /\ j.rows = rows
  BY <1>3, <1>4, <1>8 DEF LookOK, Fields, RGoto
<1>10. LookOK(j)
  BY <1>4, <1>5, <1>7, <1>9 DEF LookOK, Present
<1>11. FromOK(j, refs)
  BY <1>4, <1>9 DEF FromOK
<1>12. RowsOK(j, refs)
  <2>1. n \in BranchNames => tip \in HeldBy(look[r], refs, n)
    BY <1>3, <1>5, <1>6, TipFacts
  <2> QED
    BY <1>7, <1>9, <2>1 DEF RowsOK, HeldBy
<1>13. ReaderOK("shown", j, refs)
  BY <1>4, <1>9, <1>10, <1>11, <1>12 DEF ReaderOK, RReturned, RWorking, Listings
<1> QED
  BY <1>3, <1>8, <1>9, <1>13, OneReads

(* A revision is resolved.                                                 *)
LEMMA ResolveRevisionKeeps ==
    ASSUME RInv, NEW r \in Readers, ResolveRevision(r) PROVE RInv'
<1>1. PICK commit \in IF look[r].query.op = "version"
                      THEN Tokens(look[r].query.name) \ {Absent}
                      ELSE AllTokens \ {Absent} :
          look' = [look EXCEPT ![r].found = commit, ![r].todo = {}]
  BY DEF ResolveRevision
<1>2. rpc[r] = "resolve" /\ UNCHANGED vars /\ RGoto(r, "belongs")
  BY DEF ResolveRevision
<1>3. /\ ReaderOK(rpc[r], look[r], refs) /\ DOMAIN rpc = Readers /\ DOMAIN look = Readers
      /\ LookOK(look[r]) /\ FromOK(look[r], refs)
      /\ look[r].query.op \in {"version", "commit"}
  BY <1>2 DEF RInv, ReaderOK
<1>4. look[r].query.name \in Names /\ \A n \in Names : refs[n] \in History
  BY <1>3, QueriesAssumption DEF LookOK, RInv, IInv, TypeOK
<1>5. /\ commit \in History
      /\ look[r].query.op = "version" => commit \in Prefixes(refs[look[r].query.name])
  BY <1>1, <1>4, PrefixesAre DEF AllTokens, Tokens
<1>6. PICK j : j = look'[r]
  OBVIOUS
<1>7. /\ DOMAIN look' = Readers /\ \A d \in Readers \ {r} : look'[d] = look[d]
      /\ DOMAIN rpc' = Readers /\ \A d \in Readers \ {r} : rpc'[d] = rpc[d]
      /\ rpc'[r] = "belongs"
      /\ DOMAIN j = Fields /\ j.query = look[r].query /\ j.pinned = look[r].pinned
      /\ j.found = commit /\ j.live = look[r].live /\ j.from = look[r].from
      /\ j.todo = {} /\ j.rows = look[r].rows
  BY <1>1, <1>2, <1>3, <1>6 DEF LookOK, Fields, RGoto
<1>8. LookOK(j)
  BY <1>3, <1>5, <1>7 DEF LookOK
<1>9. FromOK(j, refs)
  BY <1>3, <1>7 DEF FromOK
<1>10. ReaderOK("belongs", j, refs)
  BY <1>3, <1>5, <1>7, <1>8, <1>9 DEF ReaderOK, IsVersion, RReturned, RWorking, Listings
<1> QED
  BY <1>2, <1>6, <1>7, <1>10, OneReads

(* There is no such revision, or it is not one of the entity.              *)
LEMMA RefusesKeep ==
    ASSUME RInv, NEW r \in Readers, NoRevision(r) \/ StrayVersion(r) PROVE RInv'
<1>1. ReaderOK(rpc[r], look[r], refs) /\ DOMAIN rpc = Readers /\ DOMAIN look = Readers
  BY DEF RInv
<1>2. UNCHANGED vars /\ look' = look /\ \E d : RGoto(r, d)
  BY DEF NoRevision, StrayVersion
<1>3. PICK l : l = rpc'[r]
  OBVIOUS
<1>4. /\ DOMAIN rpc' = Readers /\ \A d \in Readers \ {r} : rpc'[d] = rpc[d]
      /\ \/ l = "missing" /\ rpc[r] = "resolve"
         \/ l = "stray" /\ rpc[r] = "belongs"
  BY <1>1, <1>3 DEF NoRevision, StrayVersion, RGoto
<1>5. l = "stray" => ~(look[r].query.name \in BranchNames /\ look[r].query.op = "version")
  <2>1. rpc[r] = "belongs" => look[r].found \notin Prefixes(refs[look[r].query.name])
    BY DEF NoRevision, StrayVersion, Belongs, Tokens
  <2> QED
    BY <1>1, <1>4, <2>1 DEF ReaderOK, IsVersion
<1>6. ReaderOK(l, look[r], refs)
  BY <1>1, <1>4, <1>5 DEF ReaderOK, RReturned, RWorking, Listings
<1> QED
  BY <1>1, <1>2, <1>3, <1>4, <1>6, OneReads

(* The revision is a version of the entity.                                *)
LEMMA ReadVersionKeeps == ASSUME RInv, NEW r \in Readers, ReadVersion(r) PROVE RInv'
<1>1. PICK n : n = look[r].query.name
  OBVIOUS
<1>2. PICK rows : rows = LiveRows([m \in {n} |-> look[r].found])
  OBVIOUS
<1>3. /\ rpc[r] = "belongs" /\ UNCHANGED vars /\ RGoto(r, "shown")
      /\ look' = [look EXCEPT ![r].rows = rows] /\ look[r].found \in Prefixes(refs[n])
  BY <1>1, <1>2 DEF ReadVersion, Belongs, Tokens
<1>4. /\ ReaderOK(rpc[r], look[r], refs) /\ DOMAIN rpc = Readers /\ DOMAIN look = Readers
      /\ LookOK(look[r]) /\ FromOK(look[r], refs)
      /\ look[r].query.op \in {"version", "commit"}
  BY <1>3 DEF RInv, ReaderOK
<1>5. n \in Names
  BY <1>1, <1>4, QueriesAssumption DEF LookOK
<1>6. PICK tip \in History : tip = look[r].found
  BY <1>4 DEF LookOK
<1>7. /\ DOMAIN rows \subseteq {n}
      /\ \A m \in DOMAIN rows : m = n /\ rows[m] = tip /\ Present(tip)
  <2>1. PICK one : one = [m \in {n} |-> tip]
    OBVIOUS
  <2>2. rows = LiveRows(one)
    BY <1>2, <1>6, <2>1
  <2>3. DOMAIN one = {n} /\ one[n] = tip
    BY <2>1
  <2> QED
    BY <2>2, <2>3, LiveFacts
<1>8. PICK j : j = look'[r]
  OBVIOUS
<1>9. /\ DOMAIN look' = Readers /\ \A d \in Readers \ {r} : look'[d] = look[d]
      /\ DOMAIN rpc' = Readers /\ \A d \in Readers \ {r} : rpc'[d] = rpc[d]
      /\ rpc'[r] = "shown"
      /\ DOMAIN j = Fields /\ j.query = look[r].query /\ j.pinned = look[r].pinned
      /\ j.found = look[r].found /\ j.live = look[r].live /\ j.from = look[r].from
      /\ j.todo = look[r].todo /\ j.rows = rows
  BY <1>3, <1>4, <1>8 DEF LookOK, Fields, RGoto
<1>10. LookOK(j)
  BY <1>4, <1>5, <1>7, <1>9 DEF LookOK, Present
<1>11. FromOK(j, refs)
  BY <1>4, <1>9 DEF FromOK
<1>12. \A m \in DOMAIN j.rows : IsVersion(refs, j.query.name, j.rows[m])
  BY <1>1, <1>3, <1>6, <1>7, <1>9 DEF IsVersion
<1>13. ReaderOK("shown", j, refs)
  BY <1>4, <1>9, <1>10, <1>11, <1>12 DEF ReaderOK, RReturned, RWorking, Listings
<1> QED
  BY <1>3, <1>8, <1>9, <1>13, OneReads

-----------------------------------------------------------------------------
(* The invariant *)

(* Nobody has called yet.                                                  *)
LEMMA RInvInit == ReadInit => RInv
<1> SUFFICES ASSUME ReadInit PROVE RInv
  OBVIOUS
<1>1. IInv
  BY InvInit DEF ReadInit
<1>2. PICK q \in Queries : q = CHOOSE x \in Queries : TRUE
  BY QueriesAssumption
<1>3. ASSUME NEW r \in Readers
      PROVE  ReaderOK(rpc[r], look[r], refs)
  <2>1. PICK j : j = look[r]
    OBVIOUS
  <2>2. j = [query |-> q, pinned |-> NoRows, found |-> Absent, live |-> {},
             todo |-> {}, rows |-> NoRows, from |-> [n \in Names |-> Absent]]
    BY <1>2, <1>3, <2>1 DEF ReadInit
  <2>3. DOMAIN NoRows = {} /\ Absent \in History
    BY AbsentTombstones DEF NoRows
  <2>4. j.from \in [Names -> History]
    BY <2>2, <2>3
  <2>5. LookOK(j)
    BY <2>2, <2>3, <2>4 DEF LookOK, Fields
  <2>6. rpc[r] = "idle"
    BY DEF ReadInit
  <2> QED
    BY <2>1, <2>5, <2>6 DEF ReaderOK
<1> QED
  BY <1>1, <1>3 DEF RInv, ReadInit

(* Every step keeps it.                                                    *)
LEMMA RInvNext == RInv /\ [ReadNext]_<<vars, rvars>> => RInv'
<1> SUFFICES ASSUME RInv, [ReadNext]_<<vars, rvars>> PROVE RInv'
  OBVIOUS
<1>1. CASE [Next]_vars /\ UNCHANGED rvars
  <2>1. IInv'
    BY <1>1, InvNext DEF RInv
  <2>2. \A r \in Readers : ReaderOK(rpc[r], look[r], refs')
    BY <1>1, ReaderWaits DEF RInv
  <2>3. rpc' = rpc /\ look' = look
    BY <1>1 DEF rvars
  <2> QED
    BY <2>1, <2>2, <2>3 DEF RInv
<1>2. ASSUME NEW r \in Readers, ReadStep(r)
      PROVE  RInv'
  BY <1>2, ReadStartKeeps, ScanRefKeeps, GroupDoneKeeps, ListAgainKeeps, ScanDoneKeeps,
     ValidateIndexKeeps, FetchNameKeeps, ResolveRevisionKeeps, RefusesKeep,
     ReadVersionKeeps DEF ReadStep
<1>3. CASE WriterStep /\ UNCHANGED rvars
  <2>1. Next
    BY <1>3 DEF WriterStep, Next
  <2> QED
    BY <1>1, <1>3, <2>1
<1>4. CASE ReadFinished \/ UNCHANGED <<vars, rvars>>
  <2>1. UNCHANGED vars /\ UNCHANGED rvars
    BY <1>4 DEF ReadFinished
  <2> QED
    BY <1>1, <2>1
<1> QED
  BY <1>2, <1>3, <1>4 DEF ReadNext

(* It holds throughout.                                                    *)
LEMMA ReadersInvariant == ReadSpec => []RInv
BY RInvInit, RInvNext, PTL DEF ReadSpec

(* What has been held, in the words of the model.                          *)
LEMMA HeldIs == ASSUME NEW r, NEW n PROVE HeldSince(r, n) = HeldBy(look[r], refs, n)
BY DEF HeldSince, HeldBy

(* The invariant implies each of the properties.                           *)
LEMMA RInvMeans == RInv => ReadTypeOK /\ RowsWereHeld /\ ListingsAgree /\ VersionsBelong
<1> SUFFICES ASSUME RInv
             PROVE  ReadTypeOK /\ RowsWereHeld /\ ListingsAgree /\ VersionsBelong
  OBVIOUS
<1>1. ASSUME NEW r \in Readers
      PROVE  ReaderOK(rpc[r], look[r], refs) /\ LookOK(look[r])
             /\ (rpc[r] # "idle" => look[r].pinned \in [look[r].query.viewed -> History])
  BY DEF RInv, ReaderOK, FromOK
<1>2. ReadTypeOK
  <2>1. rpc \in [Readers -> {"idle"} \cup RWorking \cup RReturned]
    BY DEF RInv
  <2> QED
    BY <1>1, <2>1 DEF ReadTypeOK, LookOK
<1>3. RowsWereHeld
  BY <1>1, HeldIs DEF RowsWereHeld, ReaderOK, RowsOK
<1>4. ListingsAgree
  BY <1>1, HeldIs DEF ListingsAgree, ReaderOK, AgreeOK, Listings
<1>5. VersionsBelong
  BY <1>1 DEF VersionsBelong, ReaderOK, IsVersion, Tokens
<1> QED
  BY <1>2, <1>3, <1>4, <1>5

(* The readers keep the types of what they hold, and a row is a commit.    *)
THEOREM ReadersTyped == ReadSpec => []ReadTypeOK
BY ReadersInvariant, RInvMeans, PTL

(* Every row a listing or a read shows is a commit that its name held      *)
(* while the call ran, in the store or in the view (list, entries,         *)
(* list_entries, read): no listing goes back to a commit replaced before.  *)
THEOREM RowsWereHeldByTheirNames == ReadSpec => []RowsWereHeld
BY ReadersInvariant, RInvMeans, PTL

(* A listing, though it takes no snapshot, neither misses an entity that   *)
(* was live all the while it ran nor shows one that never was.             *)
THEOREM ListingsMissNothing == ReadSpec => []ListingsAgree
BY ReadersInvariant, RInvMeans, PTL

(* A revision counted back from a branch is not refused as foreign between *)
(* the two reads of the ref, and what is shown is a version of the entity. *)
THEOREM VersionsAreTheEntitys == ReadSpec => []VersionsBelong
BY ReadersInvariant, RInvMeans, PTL
=============================================================================
