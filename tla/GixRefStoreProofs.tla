------------------------- MODULE GixRefStoreProofs --------------------------
(***************************************************************************)
(* What holds of the git backend for any writers, refs and batches: its    *)
(* lock discipline, that no update is lost, and that apply_batch is the    *)
(* atomic batch of RefStore.tla as long as no writer is cut short.         *)
(***************************************************************************)
EXTENDS GixRefStore, WellFoundedInduction, TLAPS

(* What a writer holds: the locks it has passed, then all of its batch. *)
Locked(w) ==
    /\ pc[w] = "idle" => Held(w) = {}
    /\ pc[w] = "locking" => Held(w) = DOMAIN batch[w] \ todo[w]
    /\ pc[w] \in {"checking", "preparing", "publishing"} =>
           Held(w) = DOMAIN batch[w]
    /\ pc[w] = "releasing" => Held(w) \subseteq DOMAIN batch[w]

(* What a writer waits for lies above all it holds. *)
Ascending(w) ==
    pc[w] = "locking" => \A r \in todo[w] : \A s \in Held(w) : s < r

(* What a writer has checked still holds, until it moves the ref itself. *)
Checked(w, r) ==
    \/ pc[w] = "preparing"
    \/ pc[w] = "checking" /\ r \notin todo[w]
    \/ pc[w] = "publishing" /\ r \in todo[w]

Confirmed(w) ==
    \A r \in DOMAIN batch[w] : Checked(w, r) => refs[r] = batch[w][r].expected

(* A phase starts with the whole batch; only a call that is ending has a   *)
(* result; and only a breakable writer is ever cut short.                  *)
Orderly(w) ==
    /\ pc[w] = "preparing" => todo[w] = DOMAIN batch[w]
    /\ result[w] # "none" <=> pc[w] = "releasing"
    /\ pc[w] = "dead" => w \in Breakable

WriterInv(w) == Locked(w) /\ Ascending(w) /\ Confirmed(w) /\ Orderly(w)

IInv == TypeOK /\ \A w \in Writers : WriterInv(w)

-----------------------------------------------------------------------------
(* The empty batch touches no ref. *)
LEMMA NoEditsFacts == DOMAIN NoEdits = {}
  BY DEF NoEdits

(* Every batch a writer can hold is a set of edits of refs of the store. *)
LEMMA BatchFacts ==
    ASSUME NEW b \in Batches \cup {NoEdits}
    PROVE  /\ DOMAIN b \subseteq Refs
           /\ \A r \in DOMAIN b : /\ b[r].expected \in Objects
                                  /\ b[r].new \in Objects
                                  /\ b[r] = Edit(b[r].expected, b[r].new)
<1>1. CASE b = NoEdits
  BY <1>1, NoEditsFacts
<1>2. CASE b \in Batches
  <2>1. DOMAIN b \subseteq Refs /\ \A r \in DOMAIN b : b[r] \in RefEditRecords
    BY <1>2, BatchesAssumption
  <2>2. ASSUME NEW r \in DOMAIN b
        PROVE  /\ b[r].expected \in Objects /\ b[r].new \in Objects
               /\ b[r] = Edit(b[r].expected, b[r].new)
    <3>1. PICK e \in Objects, n \in Objects : b[r] = Edit(e, n)
      BY <2>1, <2>2 DEF RefEditRecords
    <3> QED BY <3>1 DEF Edit
  <2> QED BY <2>1, <2>2
<1> QED BY <1>1, <1>2

(* A batch other than the empty one touches some ref. *)
LEMMA EditsTouch ==
    ASSUME NEW b \in Batches \ {NoEdits}
    PROVE  DOMAIN b # {}
<1> SUFFICES ASSUME DOMAIN b = {} PROVE FALSE
  OBVIOUS
<1>1. b = [r \in DOMAIN b |-> b[r]]
  BY BatchesAssumption
<1>2. b = NoEdits
  BY <1>1 DEF NoEdits
<1> QED BY <1>2

(* A writer keeps its part of the invariant through any step that leaves   *)
(* its own variables alone, touches no lock it holds and gives it none,    *)
(* and moves no ref it has locked.                                         *)
LEMMA OthersKeep ==
    ASSUME IInv, TypeOK', NEW v \in Writers,
           pc'[v] = pc[v], batch'[v] = batch[v], todo'[v] = todo[v],
           result'[v] = result[v],
           \A r \in Refs : owner'[r] = v <=> owner[r] = v,
           \A r \in Refs : owner[r] = v => refs'[r] = refs[r]
    PROVE  WriterInv(v)'
<1>1. WriterInv(v)
  BY DEF IInv
<1>2. Held(v)' = Held(v)
  BY DEF Held
<1>3. Locked(v)'
  BY <1>1, <1>2 DEF WriterInv, Locked
<1>4. Ascending(v)'
  BY <1>1, <1>2 DEF WriterInv, Ascending
<1>5. Confirmed(v)'
  <2> SUFFICES ASSUME NEW r \in DOMAIN batch[v], Checked(v, r)
               PROVE  refs'[r] = batch[v][r].expected
    BY DEF Confirmed, Checked
  <2>1. batch[v] \in Batches \cup {NoEdits}
    BY DEF IInv, TypeOK
  <2>2. r \in Refs
    BY <2>1, BatchFacts
  <2>3. owner[r] = v
    BY <1>1, <2>2 DEF WriterInv, Locked, Checked, Held
  <2> QED BY <1>1, <2>2, <2>3 DEF WriterInv, Confirmed
<1>6. Orderly(v)'
  BY <1>1 DEF WriterInv, Orderly
<1> QED BY <1>3, <1>4, <1>5, <1>6 DEF WriterInv

(* The invariant holds before any call. *)
LEMMA InvInit == Init => IInv
<1> SUFFICES ASSUME Init PROVE IInv
  OBVIOUS
<1>1. TypeOK
  BY NoEditsFacts DEF Init, TypeOK, Objects, Phases, Results, Busy
<1>2. ASSUME NEW w \in Writers PROVE WriterInv(w)
  BY NobodyAssumption, NoEditsFacts, <1>2
     DEF Init, WriterInv, Locked, Ascending, Confirmed, Checked, Orderly, Held
<1> QED BY <1>1, <1>2 DEF IInv

-----------------------------------------------------------------------------
(* A writer that takes a lock or confirms an edit, and what is left to do. *)
LEMMA AdvanceFacts ==
    ASSUME IInv, NEW w \in Writers, NEW r \in todo[w], NEW label \in Busy,
           Advance(w, todo[w] \ {r}, label)
    PROVE  /\ todo' \in [Writers -> SUBSET Refs]
           /\ pc' \in [Writers -> Phases]
           /\ \A v \in Writers \ {w} : todo'[v] = todo[v] /\ pc'[v] = pc[v]
           /\ \/ /\ todo[w] # {r}
                 /\ todo'[w] = todo[w] \ {r} /\ pc'[w] = pc[w]
              \/ /\ todo[w] = {r}
                 /\ todo'[w] = DOMAIN batch[w] /\ pc'[w] = label
           /\ todo'[w] # {} /\ todo'[w] \subseteq DOMAIN batch[w]
<1>1. TypeOK
  BY DEF IInv
<1>2. r \in Refs /\ todo[w] \subseteq DOMAIN batch[w] /\ DOMAIN batch[w] \subseteq Refs
  BY <1>1, BatchFacts DEF TypeOK
<1>3. todo' \in [Writers -> SUBSET Refs]
  BY <1>1, <1>2 DEF Advance, TypeOK
<1>4. pc' \in [Writers -> Phases]
  BY <1>1 DEF Advance, Goto, TypeOK, Busy, Phases
<1>5. \A v \in Writers \ {w} : todo'[v] = todo[v] /\ pc'[v] = pc[v]
  BY <1>1 DEF Advance, Goto, TypeOK
<1>6. \/ /\ todo[w] # {r}
         /\ todo'[w] = todo[w] \ {r} /\ pc'[w] = pc[w]
      \/ /\ todo[w] = {r}
         /\ todo'[w] = DOMAIN batch[w] /\ pc'[w] = label
  BY <1>1 DEF Advance, Goto, TypeOK
<1> QED BY <1>2, <1>3, <1>4, <1>5, <1>6

(* A call that ends keeps its locks and leaves the refs to the step.       *)
LEMMA EndFacts ==
    ASSUME IInv, NEW w \in Writers, NEW how \in Results, End(w, how)
    PROVE  /\ todo' \in [Writers -> SUBSET Refs] /\ todo'[w] = {}
           /\ pc' \in [Writers -> Phases] /\ pc'[w] = "releasing"
           /\ result' \in [Writers -> Results] /\ result'[w] = how
           /\ \A v \in Writers \ {w} :
                  todo'[v] = todo[v] /\ pc'[v] = pc[v] /\ result'[v] = result[v]
  BY DEF IInv, TypeOK, End, Goto, Phases

(* Submitting a batch keeps the invariant. *)
LEMMA SubmitKeeps ==
    ASSUME IInv, NEW w \in Writers, Submit(w)
    PROVE  IInv'
<1>1. TypeOK /\ WriterInv(w)
  BY DEF IInv
<1>2. PICK edits \in Batches \ {NoEdits} :
          /\ batch' = [batch EXCEPT ![w] = edits]
          /\ todo' = [todo EXCEPT ![w] = DOMAIN edits]
  BY DEF Submit
<1>3. DOMAIN edits \subseteq Refs /\ DOMAIN edits # {}
  BY BatchFacts, EditsTouch
<1>4. TypeOK'
  BY <1>1, <1>2, <1>3 DEF TypeOK, Submit, Goto, Phases, Busy
<1>5. WriterInv(w)'
  BY <1>1, <1>2, <1>3, <1>4
     DEF TypeOK, Submit, Goto, WriterInv, Locked, Ascending, Confirmed,
         Checked, Orderly, Held
<1>6. ASSUME NEW v \in Writers \ {w} PROVE WriterInv(v)'
  BY <1>1, <1>2, <1>4, OthersKeep DEF TypeOK, Submit, Goto
<1> QED BY <1>4, <1>5, <1>6 DEF IInv

(* So does an empty batch. *)
LEMMA SubmitNothingKeeps ==
    ASSUME IInv, NEW w \in Writers, SubmitNothing(w)
    PROVE  IInv'
<1>1. TypeOK /\ WriterInv(w)
  BY DEF IInv
<1>2. End(w, "ok") /\ "ok" \in Results
  BY DEF SubmitNothing, Results
<1>3. TypeOK'
  BY <1>1, <1>2, EndFacts DEF TypeOK, SubmitNothing, Busy
<1>4. WriterInv(w)'
  BY <1>1, <1>2, <1>3, EndFacts
     DEF SubmitNothing, WriterInv, Locked, Ascending, Confirmed, Checked,
         Orderly, Held
<1>5. ASSUME NEW v \in Writers \ {w} PROVE WriterInv(v)'
  BY <1>1, <1>2, <1>3, EndFacts, OthersKeep DEF SubmitNothing
<1> QED BY <1>3, <1>4, <1>5 DEF IInv

(* Taking the next lock keeps the invariant: it is above those held. *)
LEMMA LockKeeps ==
    ASSUME IInv, NEW w \in Writers, NEW r \in Refs, Lock(w, r)
    PROVE  IInv'
<1>1. TypeOK /\ WriterInv(w)
  BY DEF IInv
<1>2. r \in todo[w] /\ \A s \in todo[w] : r <= s
  BY DEF Lock, IsNext
<1>3. Advance(w, todo[w] \ {r}, "checking") /\ "checking" \in Busy
  BY DEF Lock, Busy
<1>4. TypeOK'
  BY <1>1, <1>2, <1>3, AdvanceFacts DEF TypeOK, Lock, Busy
<1>5. Held(w)' = Held(w) \cup {r}
  BY <1>1 DEF TypeOK, Lock, Held
<1>6. Held(w) = DOMAIN batch[w] \ todo[w]
  BY <1>1 DEF Lock, WriterInv, Locked
<1>11. \/ /\ todo[w] # {r}
          /\ todo'[w] = todo[w] \ {r} /\ pc'[w] = pc[w]
       \/ /\ todo[w] = {r}
          /\ todo'[w] = DOMAIN batch[w] /\ pc'[w] = "checking"
  BY <1>2, <1>3, AdvanceFacts
<1>7. Locked(w)'
  <2>1. r \in DOMAIN batch[w] /\ batch'[w] = batch[w] /\ pc[w] = "locking"
    BY <1>1, <1>2 DEF TypeOK, Lock
  <2>2. Held(w)' = DOMAIN batch[w] \ (todo[w] \ {r})
    BY <1>2, <1>5, <1>6, <2>1
  <2> QED BY <1>11, <2>1, <2>2 DEF Locked
<1>8. Ascending(w)'
  <2> SUFFICES ASSUME pc'[w] = "locking",
                      NEW s \in todo'[w], NEW t \in Held(w)'
               PROVE  t < s
    BY DEF Ascending
  <2>1. s \in todo[w] \ {r} /\ s \in Nat /\ r \in Nat /\ t \in Nat
    <3>1. s \in todo[w] \ {r}
      BY <1>11
    <3>2. {s, r, t} \subseteq Refs
      BY <1>1, <3>1 DEF TypeOK, Held
    <3> QED BY <3>1, <3>2, RefsOrdered
  <2>2. t \in Held(w) => t < s
    BY <1>1, <2>1 DEF WriterInv, Ascending, Lock
  <2> QED BY <1>2, <1>5, <2>1, <2>2
<1>9. Confirmed(w)' /\ Orderly(w)'
  BY <1>1, <1>2, <1>3, AdvanceFacts
     DEF Lock, WriterInv, Confirmed, Checked, Orderly
<1>10. ASSUME NEW v \in Writers \ {w} PROVE WriterInv(v)'
  <2>1. w # Nobody /\ v # Nobody
    BY NobodyAssumption
  <2>2. \A s \in Refs : owner'[s] = v <=> owner[s] = v
    BY <1>1, <2>1 DEF TypeOK, Lock
  <2> QED BY <1>2, <1>3, <1>4, <2>2, AdvanceFacts, OthersKeep DEF Lock
<1> QED BY <1>4, <1>7, <1>8, <1>9, <1>10 DEF IInv, WriterInv

(* Confirming one more edit keeps the invariant. *)
LEMMA CheckHoldsKeeps ==
    ASSUME IInv, NEW w \in Writers, NEW r \in Refs, CheckHolds(w, r)
    PROVE  IInv'
<1>1. TypeOK /\ WriterInv(w)
  BY DEF IInv
<1>2. r \in todo[w] /\ refs[r] = batch[w][r].expected
  BY DEF CheckHolds
<1>3. Advance(w, todo[w] \ {r}, "preparing") /\ "preparing" \in Busy
  BY DEF CheckHolds, Busy
<1>4. TypeOK'
  <2>1. /\ UNCHANGED <<refs, owner, batch, result>>
        /\ todo' \in [Writers -> SUBSET Refs] /\ pc' \in [Writers -> Phases]
    BY <1>2, <1>3, AdvanceFacts DEF CheckHolds
  <2>2. ASSUME NEW v \in Writers
        PROVE  /\ todo'[v] \subseteq DOMAIN batch[v]
               /\ todo'[v] # {} <=> pc'[v] \in Busy
    <3>1. CASE v = w
      <4>1. todo'[w] # {} /\ todo'[w] \subseteq DOMAIN batch[w]
        BY <1>2, <1>3, AdvanceFacts
      <4>2. pc'[w] \in {"checking", "preparing"}
        BY <1>2, <1>3, AdvanceFacts DEF CheckHolds
      <4> QED
        BY <3>1, <4>1, <4>2 DEF Busy
    <3>2. CASE v # w
      <4>1. todo'[v] = todo[v] /\ pc'[v] = pc[v]
        BY <1>2, <1>3, <3>2, AdvanceFacts
      <4> QED
        BY <1>1, <4>1 DEF TypeOK
    <3> QED
      BY <3>1, <3>2
  <2> QED
    BY <1>1, <2>1, <2>2 DEF TypeOK
<1>11. \/ /\ todo[w] # {r}
          /\ todo'[w] = todo[w] \ {r} /\ pc'[w] = pc[w]
       \/ /\ todo[w] = {r}
          /\ todo'[w] = DOMAIN batch[w] /\ pc'[w] = "preparing"
  BY <1>2, <1>3, AdvanceFacts
<1>5. Locked(w)' /\ Ascending(w)' /\ Orderly(w)'
  BY <1>1, <1>11
     DEF CheckHolds, WriterInv, Locked, Ascending, Orderly, Held
<1>6. Confirmed(w)'
  BY <1>1, <1>2, <1>11 DEF CheckHolds, WriterInv, Confirmed, Checked
<1>7. ASSUME NEW v \in Writers \ {w} PROVE WriterInv(v)'
  BY <1>2, <1>3, <1>4, AdvanceFacts, OthersKeep DEF CheckHolds
<1> QED BY <1>4, <1>5, <1>6, <1>7 DEF IInv, WriterInv

(* A call may end at any of its phases but the first and last. *)
LEMMA EndKeeps ==
    ASSUME IInv, NEW w \in Writers, NEW how \in Results \ {"none"},
           pc[w] \in Busy, End(w, how), UNCHANGED <<refs, owner, batch>>
    PROVE  IInv'
<1>1. TypeOK /\ WriterInv(w)
  BY DEF IInv
<1>2. TypeOK'
  BY <1>1, EndFacts DEF TypeOK, Busy
<1>3. WriterInv(w)'
  BY <1>1, EndFacts
     DEF Busy, WriterInv, Locked, Ascending, Confirmed, Checked, Orderly, Held
<1>4. ASSUME NEW v \in Writers \ {w} PROVE WriterInv(v)'
  BY <1>2, EndFacts, OthersKeep
<1> QED BY <1>2, <1>3, <1>4 DEF IInv

(* A prepared transaction keeps the invariant. *)
LEMMA PrepareKeeps ==
    ASSUME IInv, NEW w \in Writers, Prepare(w)
    PROVE  IInv'
<1>1. TypeOK /\ WriterInv(w)
  BY DEF IInv
<1>2. TypeOK'
  BY <1>1 DEF TypeOK, Prepare, Goto, Busy, Phases
<1>3. WriterInv(w)'
  BY <1>1 DEF TypeOK, Prepare, Goto, WriterInv, Locked, Ascending, Confirmed,
              Checked, Orderly, Held
<1>4. ASSUME NEW v \in Writers \ {w} PROVE WriterInv(v)'
  BY <1>1, <1>2, OthersKeep DEF TypeOK, Prepare, Goto
<1> QED BY <1>2, <1>3, <1>4 DEF IInv

(* Moving a ref keeps the invariant: its lock keeps the others from it. *)
LEMMA PublishKeeps ==
    ASSUME IInv, NEW w \in Writers, NEW r \in Refs, Publish(w, r)
    PROVE  IInv'
<1>1. TypeOK /\ WriterInv(w)
  BY DEF IInv
<1>2. r \in DOMAIN batch[w] /\ batch[w] \in Batches \cup {NoEdits}
  BY <1>1 DEF TypeOK, Publish
<1>3. batch[w][r].new \in Objects
  BY <1>2, BatchFacts
<1>4. owner[r] = w
  BY <1>1, <1>2 DEF Publish, WriterInv, Locked, Held
<1>5. \A v \in Writers \ {w} :
          todo'[v] = todo[v] /\ pc'[v] = pc[v] /\ result'[v] = result[v]
  BY <1>1, EndFacts DEF TypeOK, Publish, Results
<1>6. /\ TypeOK'
      /\ WriterInv(w)'
  <2>1. CASE todo[w] = {r}
    <3>1. End(w, "ok") /\ "ok" \in Results
      BY <2>1 DEF Publish, Results
    <3>2. TypeOK'
      BY <1>1, <1>3, <3>1, EndFacts DEF TypeOK, Publish, Busy
    <3>3. WriterInv(w)'
      BY <1>1, <3>1, <3>2, EndFacts
         DEF Publish, WriterInv, Locked, Ascending, Confirmed, Checked,
             Orderly, Held
    <3> QED BY <3>2, <3>3
  <2>2. CASE todo[w] # {r}
    <3>1. /\ todo' = [todo EXCEPT ![w] = @ \ {r}]
          /\ UNCHANGED <<pc, result, owner, batch>>
      BY <2>2 DEF Publish
    <3>2. TypeOK'
      BY <1>1, <1>3, <2>2, <3>1 DEF TypeOK, Publish, Busy
    <3>3. WriterInv(w)'
      BY <1>1, <3>1, <3>2
         DEF TypeOK, Publish, WriterInv, Locked, Ascending, Confirmed,
             Checked, Orderly, Held
    <3> QED BY <3>2, <3>3
  <2> QED BY <2>1, <2>2
<1>7. ASSUME NEW v \in Writers \ {w} PROVE WriterInv(v)'
  <2>1. \A s \in Refs : owner[s] = v => refs'[s] = refs[s]
    BY <1>1, <1>4 DEF TypeOK, Publish
  <2> QED BY <1>5, <1>6, <2>1, OthersKeep DEF Publish
<1> QED BY <1>6, <1>7 DEF IInv

(* Dropping a lock keeps the invariant. *)
LEMMA ReleaseKeeps ==
    ASSUME IInv, NEW w \in Writers, NEW r \in Refs, Release(w, r)
    PROVE  IInv'
<1>1. TypeOK /\ WriterInv(w)
  BY DEF IInv
<1>2. TypeOK'
  BY <1>1 DEF TypeOK, Release
<1>3. \A v \in Writers : Held(v)' = Held(v) \ {r}
  BY <1>1, NobodyAssumption DEF TypeOK, Release, Held
<1>4. WriterInv(w)'
  BY <1>1, <1>3
     DEF Release, WriterInv, Locked, Ascending, Confirmed, Checked, Orderly
<1>5. ASSUME NEW v \in Writers \ {w} PROVE WriterInv(v)'
  <2>1. owner[r] = w
    BY DEF Release, Held
  <2>2. \A s \in Refs : owner'[s] = v <=> owner[s] = v
    BY <1>1, <2>1, NobodyAssumption DEF TypeOK, Release
  <2> QED BY <1>2, <2>2, OthersKeep DEF Release
<1> QED BY <1>2, <1>4, <1>5 DEF IInv

(* Returning keeps the invariant: no lock is left. *)
LEMMA ReturnKeeps ==
    ASSUME IInv, NEW w \in Writers, Return(w)
    PROVE  IInv'
<1>1. TypeOK /\ WriterInv(w)
  BY DEF IInv
<1>2. TypeOK'
  BY <1>1, NoEditsFacts DEF TypeOK, Return, Goto, Busy, Phases, Results
<1>3. WriterInv(w)'
  BY <1>1, <1>2, NoEditsFacts
     DEF TypeOK, Return, Goto, WriterInv, Locked, Ascending, Confirmed,
         Checked, Orderly, Held
<1>4. ASSUME NEW v \in Writers \ {w} PROVE WriterInv(v)'
  BY <1>1, <1>2, OthersKeep DEF TypeOK, Return, Goto
<1> QED BY <1>2, <1>3, <1>4 DEF IInv

(* A writer that is gone keeps the invariant, whether its locks stay or go. *)
LEMMA GoneKeeps ==
    ASSUME IInv, NEW w \in Writers, Kill(w) \/ Interrupt(w)
    PROVE  IInv'
<1>1. TypeOK /\ WriterInv(w)
  BY DEF IInv
<1>2. Gone(w)
  BY DEF Kill, Interrupt
<1>3. TypeOK'
  BY <1>1, <1>2, NoEditsFacts
     DEF TypeOK, Kill, Interrupt, Gone, Goto, Busy, Phases, Results
<1>4. WriterInv(w)'
  BY <1>1, <1>2, <1>3, NoEditsFacts
     DEF TypeOK, Gone, Goto, WriterInv, Locked, Ascending, Confirmed,
         Checked, Orderly
<1>5. ASSUME NEW v \in Writers \ {w} PROVE WriterInv(v)'
  <2>1. \A s \in Refs : owner'[s] = v <=> owner[s] = v
    BY <1>1, NobodyAssumption DEF TypeOK, Kill, Interrupt
  <2> QED BY <1>1, <1>2, <1>3, <2>1, OthersKeep DEF TypeOK, Gone, Goto
<1> QED BY <1>3, <1>4, <1>5 DEF IInv

-----------------------------------------------------------------------------
(* Every step keeps the invariant. *)
LEMMA InvNext == IInv /\ [Next]_vars => IInv'
<1> SUFFICES ASSUME IInv, [Next]_vars PROVE IInv'
  OBVIOUS
<1>1. CASE UNCHANGED vars
  BY <1>1 DEF IInv, TypeOK, WriterInv, Locked, Ascending, Confirmed, Checked,
              Orderly, Held, vars
<1>2. CASE Next
  <2>1. PICK w \in Writers :
            Submit(w) \/ SubmitNothing(w) \/ Step(w) \/ Break(w)
    BY <1>2 DEF Next
  <2>2. CASE Submit(w)
    BY <2>2, SubmitKeeps
  <2>3. CASE SubmitNothing(w)
    BY <2>3, SubmitNothingKeeps
  <2>4. CASE \E r \in Refs : Lock(w, r)
    BY <2>4, LockKeeps
  <2>5. CASE \E r \in Refs : LockTimesOut(w, r)
    BY <2>5, EndKeeps DEF LockTimesOut, Busy, Results
  <2>6. CASE \E r \in Refs : CheckHolds(w, r)
    BY <2>6, CheckHoldsKeeps
  <2>7. CASE \E r \in Refs : CheckFails(w, r)
    BY <2>7, EndKeeps DEF CheckFails, Busy, Results
  <2>8. CASE \E r \in Refs : Publish(w, r)
    BY <2>8, PublishKeeps
  <2>9. CASE \E r \in Refs : Release(w, r)
    BY <2>9, ReleaseKeeps
  <2>10. CASE Prepare(w)
    BY <2>10, PrepareKeeps
  <2>11. CASE PrepareRefused(w)
    <3>1. PICK how \in {"contended", "failed"} : End(w, how)
      BY <2>11 DEF PrepareRefused
    <3> QED BY <2>11, <3>1, EndKeeps DEF PrepareRefused, Busy, Results
  <2>12. CASE Return(w)
    BY <2>12, ReturnKeeps
  <2>13. CASE PublishBreaks(w)
    BY <2>13, EndKeeps DEF PublishBreaks, Busy, Results
  <2>14. CASE Kill(w) \/ Interrupt(w)
    BY <2>14, GoneKeeps
  <2> QED BY <2>1, <2>2, <2>3, <2>4, <2>5, <2>6, <2>7, <2>8, <2>9, <2>10,
             <2>11, <2>12, <2>13, <2>14 DEF Step, Break
<1> QED BY <1>1, <1>2

(* The lock discipline of the git backend is an invariant.                 *)
THEOREM Invariant == Spec => []IInv
BY InvInit, InvNext, PTL DEF Spec

(* The git backend is type-correct, and no phase outlives its last ref.    *)
THEOREM TypeCorrect == Spec => []TypeOK
<1>1. IInv => TypeOK
  BY DEF IInv
<1> QED BY <1>1, Invariant, PTL

(* A lock file outlives its batch only if its writer was killed.           *)
THEOREM LocksAreInUse == Spec => []LocksInUse
<1>1. ASSUME IInv, NEW r \in Refs, owner[r] # Nobody
      PROVE  pc[owner[r]] = "dead" \/ r \in DOMAIN batch[owner[r]]
  <2>1. PICK w \in Writers : owner[r] = w
    BY <1>1 DEF IInv, TypeOK
  <2>2. pc[w] \in Phases /\ r \in Held(w) /\ Locked(w)
    BY <1>1, <2>1 DEF IInv, TypeOK, WriterInv, Held
  <2> QED BY <2>1, <2>2 DEF Locked, Phases
<1>2. IInv => LocksInUse
  BY <1>1 DEF LocksInUse
<1> QED BY <1>2, Invariant, PTL

(* No update is lost, whoever is killed, interrupted or fails to write: a  *)
(* ref moves only from the object the edit that moves it expected.         *)
THEOREM NoUpdateLost == Spec => CompareAndSwap
<1> DEFINE Swaps ==
      \A r \in Refs :
        refs'[r] # refs[r] =>
            \E w \in Writers :
                /\ pc[w] = "publishing" /\ r \in DOMAIN batch[w]
                /\ batch[w][r] = Edit(refs[r], refs'[r])
<1>1. ASSUME IInv, NEW w \in Writers, NEW r \in Refs, Publish(w, r)
      PROVE  Swaps
  <2>1. TypeOK /\ Confirmed(w)
    BY <1>1 DEF IInv, WriterInv
  <2>2. r \in DOMAIN batch[w] /\ batch[w] \in Batches \cup {NoEdits}
    BY <1>1, <2>1 DEF TypeOK, Publish
  <2>3. refs[r] = batch[w][r].expected
    BY <1>1, <2>1, <2>2 DEF Confirmed, Checked, Publish
  <2>4. batch[w][r] = Edit(batch[w][r].expected, batch[w][r].new)
    BY <2>2, BatchFacts
  <2>5. refs' = [refs EXCEPT ![r] = batch[w][r].new] /\ pc[w] = "publishing"
    BY <1>1 DEF Publish
  <2> QED BY <2>1, <2>2, <2>3, <2>4, <2>5 DEF TypeOK
<1>2. ASSUME IInv, Next PROVE Swaps
  <2>1. CASE \E w \in Writers, r \in Refs : Publish(w, r)
    BY <1>1, <1>2, <2>1
  <2>2. CASE ~\E w \in Writers, r \in Refs : Publish(w, r)
    <3>1. refs' = refs
      BY <1>2, <2>2
         DEF Next, Step, Break, Submit, SubmitNothing, Lock, LockTimesOut,
             CheckHolds, CheckFails, Prepare, PrepareRefused, Release, Return,
             PublishBreaks, Kill, Interrupt, Gone
    <3> QED BY <3>1
  <2> QED BY <2>1, <2>2
<1>3. IInv /\ [Next]_vars => [Swaps]_vars
  BY <1>2
<1> QED BY <1>3, Invariant, PTL DEF Spec, CompareAndSwap

(* A set of ref names that is not empty has a last one.                    *)
LEMMA LastRef ==
    ASSUME NEW bound \in Nat, NEW S, S \subseteq 0 .. bound, S # {}
    PROVE  \E m \in S : \A s \in S : s <= m
<1> DEFINE Gaps == {n \in Nat : bound - n \in S}
<1>1. PICK s \in S : TRUE
  OBVIOUS
<1>2. \A t \in S : t \in Nat /\ bound - t \in Gaps
  OBVIOUS
<1>3. Gaps \subseteq Nat /\ \A n \in Gaps : bound - n \in S
  OBVIOUS
<1> HIDE DEF Gaps
<1>4. PICK n \in Gaps : \A g \in Gaps : <<g, n>> \notin OpToRel(<, Nat)
  BY <1>1, <1>2, <1>3, NatLessThanWellFounded, WFMin
<1>5. \A g \in Gaps : ~(g < n)
  BY <1>3, <1>4 DEF OpToRel
<1>6. ASSUME NEW t \in S PROVE t <= bound - n
  <2>1. bound - t \in Gaps /\ t \in Nat /\ n \in Nat
    BY <1>2, <1>3
  <2>2. ~(bound - t < n)
    BY <1>5, <2>1
  <2> QED BY <2>1, <2>2
<1> QED BY <1>3, <1>6

(* Overlapping batches cannot deadlock: of any writers, whoever holds the  *)
(* last ref that one of them waits for waits for none of them.             *)
THEOREM NoDeadlock ==
    ASSUME NEW bound \in Nat, Refs \subseteq 0 .. bound
    PROVE  Spec => []NoCircularWait
<1>1. ASSUME IInv, NEW ws \in SUBSET Writers, ws # {}
      PROVE  \E w \in ws : \A v \in ws : ~WaitsFor(w, v)
  <2> DEFINE Wanted == {r \in Refs : \E w \in ws : pc[w] = "locking" /\ IsNext(w, r)}
  <2>1. CASE Wanted = {}
    BY <1>1, <2>1 DEF WaitsFor
  <2>2. CASE Wanted # {}
    <3>1. PICK m \in Wanted : \A r \in Wanted : r <= m
      <4>1. Wanted \subseteq 0 .. bound
        OBVIOUS
      <4> HIDE DEF Wanted
      <4> QED BY <2>2, <4>1, LastRef
    <3>2. PICK w \in ws : pc[w] = "locking" /\ IsNext(w, m)
      BY <3>1
    <3>3. CASE \A v \in ws : ~WaitsFor(w, v)
      BY <3>3
    <3>4. ASSUME NEW v \in ws, WaitsFor(w, v)
          PROVE  \A u \in ws : ~WaitsFor(v, u)
      <4>1. owner[m] = v /\ m \in Refs
        <5>1. PICK s \in Refs : IsNext(w, s) /\ owner[s] = v
          BY <3>4 DEF WaitsFor
        <5>2. m \in Nat /\ s \in Nat /\ m <= s /\ s <= m
          BY <3>1, <3>2, <5>1, RefsOrdered DEF IsNext
        <5> QED BY <5>1, <5>2
      <4> SUFFICES ASSUME NEW r \in Refs, pc[v] = "locking", IsNext(v, r)
                   PROVE  FALSE
        BY DEF WaitsFor
      <4>2. m < r
        BY <1>1, <4>1 DEF IInv, WriterInv, Ascending, Held, IsNext
      <4>3. r \in Wanted /\ r \in Nat /\ m \in Nat
        BY <4>1, RefsOrdered
      <4> QED BY <3>1, <4>2, <4>3
    <3> QED BY <3>3, <3>4
  <2> QED BY <2>1, <2>2
<1>2. IInv => NoCircularWait
  BY <1>1 DEF NoCircularWait
<1> QED BY <1>2, Invariant, PTL

-----------------------------------------------------------------------------
(* Refinement: what each step of the git backend is to RefStore.tla.       *)

(* The empty batch is the same at both levels. *)
LEMMA AtomicNoEdits == Atomic!NoEdits = NoEdits
  BY DEF Atomic!NoEdits, NoEdits, Atomic!Edit, Edit

(* Only the writer that takes a step can change how its own call stands.   *)
LEMMA AbstractLocals ==
    ASSUME IInv, IInv', NEW w \in Writers,
           \A v \in Writers \ {w} :
               pc'[v] = pc[v] /\ batch'[v] = batch[v] /\ result'[v] = result[v]
    PROVE  /\ Statuses' = [Statuses EXCEPT ![w] = Status(w)']
           /\ OpenBatches' = [OpenBatches EXCEPT ![w] =
                                 IF Open(w)' THEN batch'[w] ELSE NoEdits]
  BY DEF Statuses, Status, OpenBatches, Open

(* A step of a writer that does not publish moves no ref, settled or not.  *)
LEMMA SettledSame ==
    ASSUME IInv, IInv', NEW w \in Writers, refs' = refs,
           pc[w] # "publishing", pc'[w] # "publishing",
           \A v \in Writers \ {w} :
               pc'[v] = pc[v] /\ batch'[v] = batch[v] /\ todo'[v] = todo[v],
           \A r \in Refs : owner'[r] # owner[r] =>
               {owner[r], owner'[r]} \subseteq {w, Nobody}
    PROVE  SettledRefs' = SettledRefs
<1>1. ASSUME NEW r \in Refs PROVE Settled(r)' = Settled(r)
  <2>1. owner[r] \in Writers \cup {Nobody} /\ owner'[r] \in Writers \cup {Nobody}
    BY DEF IInv, TypeOK
  <2>2. CASE owner'[r] = owner[r]
    BY <2>1, <2>2 DEF Settled
  <2>3. CASE owner'[r] # owner[r]
    BY <2>1, <2>3 DEF Settled
  <2> QED BY <2>2, <2>3
<1> QED BY <1>1 DEF SettledRefs

(* The refs a writer has locked and not begun to publish are settled.      *)
LEMMA LockedSettled ==
    ASSUME IInv, NEW w \in Writers, pc[w] \in {"checking", "preparing"},
           NEW r \in DOMAIN batch[w]
    PROVE  r \in Refs /\ owner[r] = w /\ SettledRefs[r] = refs[r]
<1>1. batch[w] \in Batches \cup {NoEdits} /\ Held(w) = DOMAIN batch[w]
  BY DEF IInv, TypeOK, WriterInv, Locked
<1>2. r \in Refs /\ owner[r] = w
  BY <1>1, BatchFacts DEF Held
<1> QED BY <1>2 DEF SettledRefs, Settled

(* A call that ends without publishing closes its batch and lands nothing. *)
LEMMA EndCloses ==
    ASSUME IInv, IInv', NEW w \in Writers, NEW how \in Results,
           Open(w), End(w, how), UNCHANGED <<refs, owner, batch>>
    PROVE  Atomic!Close(w, how) /\ SettledRefs' = SettledRefs
<1>1. SettledRefs' = SettledRefs
  BY EndFacts, SettledSame DEF Open
<1>2. Statuses[w] = "open"
  BY DEF Statuses, Status
<1>3. Status(w)' = how /\ ~Open(w)'
  BY EndFacts DEF Status, Open
<1>4. /\ Statuses' = [Statuses EXCEPT ![w] = how]
      /\ OpenBatches' = [OpenBatches EXCEPT ![w] = NoEdits]
  BY <1>3, EndFacts, AbstractLocals
<1> QED BY <1>1, <1>2, <1>4, AtomicNoEdits DEF Atomic!Close

(* Submitting maps to submitting. *)
LEMMA SubmitMaps ==
    ASSUME IInv, IInv', NEW w \in Writers, Submit(w)
    PROVE  Atomic!Submit(w)
<1>1. PICK edits \in Batches \ {NoEdits} :
          /\ batch' = [batch EXCEPT ![w] = edits]
          /\ todo' = [todo EXCEPT ![w] = DOMAIN edits]
  BY DEF Submit
<1>2. /\ pc[w] = "idle" /\ pc'[w] = "locking" /\ batch'[w] = edits
      /\ result[w] = "none"
      /\ \A v \in Writers \ {w} :
             /\ pc'[v] = pc[v] /\ batch'[v] = batch[v]
             /\ todo'[v] = todo[v] /\ result'[v] = result[v]
  BY <1>1 DEF IInv, TypeOK, WriterInv, Orderly, Submit, Goto
<1>3. SettledRefs' = SettledRefs
  BY <1>2, SettledSame DEF Submit
<1>4. Statuses[w] = "none" /\ Status(w)' = "open" /\ Open(w)'
  BY <1>2 DEF Statuses, Status, Open
<1>5. /\ Statuses' = [Statuses EXCEPT ![w] = "open"]
      /\ OpenBatches' = [OpenBatches EXCEPT ![w] = edits]
  BY <1>2, <1>4, AbstractLocals
<1> QED BY <1>3, <1>4, <1>5, AtomicNoEdits DEF Atomic!Submit

(* So does an empty batch. *)
LEMMA SubmitNothingMaps ==
    ASSUME IInv, IInv', NEW w \in Writers, SubmitNothing(w)
    PROVE  Atomic!SubmitNothing(w)
<1>1. /\ pc[w] = "idle" /\ result[w] = "none" /\ batch'[w] = batch[w]
      /\ End(w, "ok") /\ "ok" \in Results
  BY DEF IInv, WriterInv, Orderly, SubmitNothing, Results
<1>2. SettledRefs' = SettledRefs
  BY <1>1, EndFacts, SettledSame DEF SubmitNothing
<1>3. /\ Statuses[w] = "none" /\ Status(w)' = "ok"
      /\ ~Open(w) /\ ~Open(w)'
  BY <1>1, EndFacts DEF Statuses, Status, Open
<1>4. /\ Statuses' = [Statuses EXCEPT ![w] = "ok"]
      /\ OpenBatches' = [OpenBatches EXCEPT ![w] = NoEdits]
  BY <1>1, <1>3, EndFacts, AbstractLocals DEF SubmitNothing
<1>5. OpenBatches' = OpenBatches
  BY <1>3, <1>4 DEF OpenBatches
<1> QED BY <1>2, <1>3, <1>4, <1>5 DEF Atomic!SubmitNothing

(* Taking a lock, confirming an edit and dropping a lock are the backend's *)
(* own business.                                                           *)
LEMMA QuietSteps ==
    ASSUME IInv, IInv', NEW w \in Writers, NEW r \in Refs,
           \/ Lock(w, r)
           \/ CheckHolds(w, r)
           \/ Release(w, r)
    PROVE  UNCHANGED Atomic!vars
<1>1. /\ refs' = refs /\ batch' = batch /\ result' = result
      /\ pc[w] # "publishing"
      /\ pc'[w] # "publishing"
      /\ Open(w)' <=> Open(w)
      /\ \A v \in Writers \ {w} : pc'[v] = pc[v] /\ todo'[v] = todo[v]
  <2>1. CASE Lock(w, r)
    BY <2>1, AdvanceFacts DEF Lock, IsNext, Busy, Open
  <2>2. CASE CheckHolds(w, r)
    BY <2>2, AdvanceFacts DEF CheckHolds, Busy, Open
  <2>3. CASE Release(w, r)
    BY <2>3 DEF Release, Open
  <2> QED BY <2>1, <2>2, <2>3
<1>2. \A s \in Refs : owner'[s] # owner[s] =>
          {owner[s], owner'[s]} \subseteq {w, Nobody}
  BY DEF IInv, TypeOK, Lock, CheckHolds, Release, Held
<1>3. SettledRefs' = SettledRefs
  BY <1>1, <1>2, SettledSame
<1>4. \A v \in Writers : (Open(v)' <=> Open(v)) /\ Status(v)' = Status(v)
  BY <1>1 DEF Open, Status
<1>5. Statuses' = Statuses /\ OpenBatches' = OpenBatches
  BY <1>1, <1>4 DEF Statuses, OpenBatches
<1> QED BY <1>3, <1>5 DEF Atomic!vars

(* An expectation that does not hold loses the batch.                      *)
LEMMA CheckFailsMaps ==
    ASSUME IInv, IInv', NEW w \in Writers, NEW r \in Refs, CheckFails(w, r)
    PROVE  Atomic!Lose(w)
<1>1. Atomic!Close(w, "lost") /\ SettledRefs' = SettledRefs
  BY EndCloses DEF CheckFails, Open, Results
<1>2. /\ r \in DOMAIN batch[w] /\ pc[w] = "checking"
      /\ refs[r] # batch[w][r].expected
  BY DEF CheckFails, IInv, TypeOK
<1>3. SettledRefs[r] # batch[w][r].expected /\ OpenBatches[w] = batch[w]
  BY <1>2, LockedSettled DEF OpenBatches, Open
<1>4. ~ExpectationsHold(SettledRefs, OpenBatches[w])
  BY <1>2, <1>3 DEF ExpectationsHold
<1> QED BY <1>1, <1>4 DEF Atomic!Lose, Atomic!ExpectationsHold, ExpectationsHold

(* The batch wins when gix has prepared it.                                *)
LEMMA PrepareMaps ==
    ASSUME IInv, IInv', NEW w \in Writers, Prepare(w)
    PROVE  Atomic!Win(w)
<1>1. /\ pc[w] = "preparing" /\ pc'[w] = "publishing"
      /\ UNCHANGED <<refs, owner, batch, todo, result>>
      /\ \A v \in Writers \ {w} : pc'[v] = pc[v]
      /\ todo[w] = DOMAIN batch[w]
  BY DEF Prepare, Goto, IInv, TypeOK, WriterInv, Orderly
<1>2. /\ Statuses[w] = "open" /\ Status(w)' = "ok"
      /\ ~Open(w)' /\ OpenBatches[w] = batch[w]
  BY <1>1 DEF Statuses, Status, Open, OpenBatches
<1>3. /\ Statuses' = [Statuses EXCEPT ![w] = "ok"]
      /\ OpenBatches' = [OpenBatches EXCEPT ![w] = NoEdits]
  BY <1>1, <1>2, AbstractLocals
<1>4. \A r \in DOMAIN batch[w] :
          SettledRefs[r] = batch[w][r].expected /\ owner[r] = w /\ r \in Refs
  BY <1>1, LockedSettled DEF IInv, WriterInv, Confirmed, Checked
<1>5. ASSUME NEW r \in Refs
      PROVE  Settled(r)' = IF r \in DOMAIN batch[w] THEN batch[w][r].new
                                                     ELSE SettledRefs[r]
  <2>1. CASE r \in DOMAIN batch[w]
    BY <1>1, <1>4, <2>1, NobodyAssumption DEF Settled
  <2>2. CASE r \notin DOMAIN batch[w]
    <3>1. owner[r] # w /\ owner[r] \in Writers \cup {Nobody}
      BY <1>1, <2>2 DEF IInv, TypeOK, WriterInv, Locked, Held
    <3> QED BY <1>1, <2>2, <3>1 DEF SettledRefs, Settled
  <2> QED BY <2>1, <2>2
<1>6. SettledRefs' = Landed(SettledRefs, batch[w])
  BY <1>5 DEF SettledRefs, Landed
<1> QED BY <1>2, <1>3, <1>4, <1>6, AtomicNoEdits
        DEF Atomic!Win, Atomic!Close, Atomic!ExpectationsHold, Atomic!Landed,
            Landed

(* Moving a ref of a batch that has won shows nothing new.                 *)
LEMMA PublishMaps ==
    ASSUME IInv, IInv', NEW w \in Writers, NEW r \in Refs, Publish(w, r)
    PROVE  UNCHANGED Atomic!vars
<1>1. /\ pc[w] = "publishing" /\ r \in todo[w] /\ r \in DOMAIN batch[w]
      /\ refs' = [refs EXCEPT ![r] = batch[w][r].new]
      /\ UNCHANGED <<owner, batch>>
      /\ todo[w] \subseteq DOMAIN batch[w]
  BY DEF Publish, IInv, TypeOK
<1>2. owner[r] = w /\ \A s \in Refs : s \in todo[w] => owner[s] = w
  BY <1>1 DEF IInv, WriterInv, Locked, Held
<1>3. \/ pc'[w] = "publishing" /\ result'[w] = result[w]
      \/ pc'[w] = "releasing" /\ result'[w] = "ok" /\ todo[w] = {r}
  BY <1>1, EndFacts DEF Publish, Results
<1>4. \A v \in Writers \ {w} :
          pc'[v] = pc[v] /\ todo'[v] = todo[v] /\ result'[v] = result[v]
  BY EndFacts DEF Publish, Results, IInv, TypeOK
<1>5. todo'[w] = todo[w] \ {r}
  <2>1. CASE todo[w] = {r}
    BY <2>1, EndFacts DEF Publish, Results
  <2>2. CASE todo[w] # {r}
    BY <2>2 DEF Publish, IInv, TypeOK
  <2> QED BY <2>1, <2>2
<1>6. ASSUME NEW s \in Refs PROVE Settled(s)' = Settled(s)
  <2>1. owner[s] \in Writers \cup {Nobody} /\ refs \in [Refs -> Objects]
    BY DEF IInv, TypeOK
  <2>2. CASE s = r
    BY <1>1, <1>2, <1>5, <2>1, <2>2, NobodyAssumption DEF Settled
  <2>3. CASE s # r /\ owner[s] = w
    <3>1. refs'[s] = refs[s] /\ (s \in todo'[w] <=> s \in todo[w])
      BY <1>1, <1>5, <2>1, <2>3
    <3>2. s \in todo[w] => pc'[w] = "publishing"
      BY <1>3, <2>3
    <3> QED BY <1>1, <2>3, <3>1, <3>2 DEF Settled
  <2>4. CASE s # r /\ owner[s] # w
    BY <1>1, <1>4, <2>1, <2>4 DEF Settled
  <2> QED BY <2>2, <2>3, <2>4
<1>7. SettledRefs' = SettledRefs
  BY <1>6 DEF SettledRefs
<1>8. \A v \in Writers : (Open(v)' <=> Open(v)) /\ Status(v)' = Status(v)
  BY <1>1, <1>3, <1>4 DEF Open, Status
<1>9. Statuses' = Statuses /\ OpenBatches' = OpenBatches
  BY <1>1, <1>8 DEF Statuses, OpenBatches
<1> QED BY <1>7, <1>9 DEF Atomic!vars

(* Returning maps to returning. *)
LEMMA ReturnMaps ==
    ASSUME IInv, IInv', NEW w \in Writers, Return(w)
    PROVE  Atomic!Return(w)
<1>1. /\ pc[w] = "releasing" /\ pc'[w] = "idle" /\ result'[w] = "none"
      /\ result[w] \in Results \ {"none"}
      /\ \A v \in Writers \ {w} :
             /\ pc'[v] = pc[v] /\ batch'[v] = batch[v]
             /\ todo'[v] = todo[v] /\ result'[v] = result[v]
  BY DEF Return, Goto, IInv, TypeOK, WriterInv, Orderly
<1>2. SettledRefs' = SettledRefs
  BY <1>1, SettledSame DEF Return
<1>3. /\ Statuses[w] \notin {"none", "open"} /\ Status(w)' = "none"
      /\ ~Open(w) /\ ~Open(w)'
  BY <1>1 DEF Statuses, Status, Open, Results
<1>4. /\ Statuses' = [Statuses EXCEPT ![w] = "none"]
      /\ OpenBatches' = [OpenBatches EXCEPT ![w] = NoEdits]
  BY <1>1, <1>3, AbstractLocals
<1>5. OpenBatches' = OpenBatches
  BY <1>3, <1>4 DEF OpenBatches
<1> QED BY <1>2, <1>3, <1>4, <1>5 DEF Atomic!Return

(* While no writer is cut short, apply_batch of the git backend is the     *)
(* atomic batch of the RefStore trait: to the other writers it lands       *)
(* whole, and one that did not win changed nothing.                        *)
THEOREM Refinement ==
    ASSUME Breakable = {}
    PROVE  Spec => ImplementsRefStore
<1>1. Init => Atomic!Init
  BY NoEditsFacts
     DEF Init, Atomic!Init, Atomic!NoEdits, NoEdits, Atomic!Edit, Edit,
         SettledRefs, Settled, OpenBatches, Open, Statuses, Status
<1>2. ASSUME IInv, IInv', [Next]_vars
      PROVE  [Atomic!Next]_Atomic!vars
  <2>1. CASE UNCHANGED vars
    BY <2>1 DEF vars, Atomic!vars, SettledRefs, Settled, OpenBatches, Open,
                Statuses, Status
  <2>2. ASSUME NEW w \in Writers,
               Submit(w) \/ SubmitNothing(w) \/ Step(w) \/ Break(w)
        PROVE  [Atomic!Next]_Atomic!vars
    <3>1. CASE Submit(w)
      BY <1>2, <3>1, SubmitMaps DEF Atomic!Next
    <3>2. CASE SubmitNothing(w)
      BY <1>2, <3>2, SubmitNothingMaps DEF Atomic!Next
    <3>3. CASE \E r \in Refs : Lock(w, r) \/ CheckHolds(w, r) \/ Release(w, r)
      BY <1>2, <3>3, QuietSteps
    <3>4. CASE \E r \in Refs : LockTimesOut(w, r)
      <4>1. Atomic!Close(w, "failed") /\ SettledRefs' = SettledRefs
        BY <1>2, <3>4, EndCloses DEF LockTimesOut, Open, Results
      <4> QED BY <4>1 DEF Atomic!Next, Atomic!Fail
    <3>5. CASE \E r \in Refs : CheckFails(w, r)
      BY <1>2, <3>5, CheckFailsMaps DEF Atomic!Next
    <3>6. CASE Prepare(w)
      BY <1>2, <3>6, PrepareMaps DEF Atomic!Next
    <3>7. CASE PrepareRefused(w)
      <4>1. PICK how \in {"contended", "failed"} : End(w, how)
        BY <3>7 DEF PrepareRefused
      <4>2. Atomic!Close(w, how) /\ SettledRefs' = SettledRefs
        BY <1>2, <3>7, <4>1, EndCloses DEF PrepareRefused, Open, Results
      <4> QED BY <4>2 DEF Atomic!Next, Atomic!Fail
    <3>8. CASE \E r \in Refs : Publish(w, r)
      BY <1>2, <3>8, PublishMaps
    <3>9. CASE Return(w)
      BY <1>2, <3>9, ReturnMaps DEF Atomic!Next
    <3>10. ~Break(w)
      BY DEF Break, PublishBreaks, Kill, Interrupt, Gone
    <3> QED BY <2>2, <3>1, <3>2, <3>3, <3>4, <3>5, <3>6, <3>7, <3>8, <3>9,
               <3>10 DEF Step
  <2> QED BY <1>2, <2>1, <2>2 DEF Next
<1>3. Spec => Atomic!Spec
  BY <1>1, <1>2, Invariant, PTL DEF Spec, Atomic!Spec
<1> QED BY <1>3 DEF ImplementsRefStore
-----------------------------------------------------------------------------
(* With broken writers: what each step is to TornStore.tla.                *)

LEMMA TornNoEdits == Torn!NoEdits = NoEdits
  BY DEF Torn!NoEdits, NoEdits, Torn!Edit, Edit

(* Only the writer that takes a step changes what shows of a call.         *)
LEMMA TornLocals ==
    ASSUME IInv, IInv', NEW w \in Writers,
           \A v \in Writers \ {w} :
               /\ pc'[v] = pc[v] /\ batch'[v] = batch[v]
               /\ todo'[v] = todo[v] /\ result'[v] = result[v]
    PROVE  /\ TornStatuses' = [TornStatuses EXCEPT ![w] = TornStatuses'[w]]
           /\ TornBatches' = [TornBatches EXCEPT ![w] = TornBatches'[w]]
           /\ Left' = [Left EXCEPT ![w] = Left'[w]]
<1>1. ASSUME NEW v \in Writers \ {w}
      PROVE  /\ TornStatuses'[v] = TornStatuses[v]
             /\ TornBatches'[v] = TornBatches[v] /\ Left'[v] = Left[v]
  BY <1>1 DEF TornStatuses, TornStatus, TornBatches, Left, Open
<1>2. TornStatuses' = [TornStatuses EXCEPT ![w] = TornStatuses'[w]]
  BY <1>1 DEF TornStatuses
<1>3. /\ TornBatches = [v \in Writers |-> TornBatches[v]]
      /\ TornBatches' = [v \in Writers |-> TornBatches'[v]]
  BY Zenon DEF TornBatches
<1>4. TornBatches' = [TornBatches EXCEPT ![w] = TornBatches'[w]]
  BY <1>1, <1>3
<1>5. /\ Left = [v \in Writers |-> Left[v]]
      /\ Left' = [v \in Writers |-> Left'[v]]
  BY Zenon DEF Left
<1>6. Left' = [Left EXCEPT ![w] = Left'[w]]
  BY <1>1, <1>5
<1> QED BY <1>2, <1>4, <1>6

(* What shows of a writer, phase by phase.                                 *)
LEMMA TornShows ==
    ASSUME NEW w \in Writers
    PROVE  /\ Open(w) => /\ TornStatuses[w] = "open"
                         /\ TornBatches[w] = batch[w] /\ Left[w] = {}
           /\ pc[w] = "publishing" => /\ TornStatuses[w] = "landing"
                                      /\ TornBatches[w] = batch[w]
                                      /\ Left[w] = todo[w]
           /\ pc[w] = "dead" => /\ TornStatuses[w] = "dead"
                                /\ TornBatches[w] = NoEdits /\ Left[w] = {}
           /\ pc[w] \in {"idle", "releasing"} => /\ TornStatuses[w] = result[w]
                                                 /\ TornBatches[w] = NoEdits
                                                 /\ Left[w] = {}
  BY DEF TornStatuses, TornStatus, TornBatches, Left, Open

(* A call that ends leaves: its batch is closed and nothing is left.       *)
LEMMA EndLeaves ==
    ASSUME IInv, IInv', NEW w \in Writers, NEW how \in Results,
           End(w, how), UNCHANGED batch
    PROVE  Torn!Leave(w, how)
<1>1. /\ pc'[w] = "releasing" /\ result'[w] = how
      /\ \A v \in Writers \ {w} :
             /\ pc'[v] = pc[v] /\ batch'[v] = batch[v]
             /\ todo'[v] = todo[v] /\ result'[v] = result[v]
  BY EndFacts
<1>2. TornStatuses'[w] = how /\ TornBatches'[w] = NoEdits /\ Left'[w] = {}
  BY <1>1 DEF TornStatuses, TornStatus, TornBatches, Left, Open
<1> QED BY <1>1, <1>2, TornLocals, TornNoEdits DEF Torn!Leave

(* Before it publishes, a call that ends lands nothing.                    *)
LEMMA EndClosesTorn ==
    ASSUME IInv, IInv', NEW w \in Writers, NEW how \in Results,
           Open(w), End(w, how), UNCHANGED batch
    PROVE  Torn!Close(w, how) /\ Left' = Left
<1>1. Torn!Leave(w, how)
  BY EndLeaves
<1>2. TornStatuses[w] = "open" /\ Left[w] = {}
  BY TornShows
<1>3. Left' = Left
  BY <1>1, <1>2 DEF Torn!Leave, Left
<1> QED BY <1>1, <1>2, <1>3 DEF Torn!Leave, Torn!Close

LEMMA SubmitTorn ==
    ASSUME IInv, IInv', NEW w \in Writers, Submit(w)
    PROVE  Torn!Submit(w) /\ Left' = Left
<1>1. PICK edits \in Batches \ {NoEdits} :
          /\ batch' = [batch EXCEPT ![w] = edits]
          /\ todo' = [todo EXCEPT ![w] = DOMAIN edits]
  BY DEF Submit
<1>2. /\ pc[w] = "idle" /\ pc'[w] = "locking" /\ batch'[w] = edits
      /\ result[w] = "none"
      /\ \A v \in Writers \ {w} :
             /\ pc'[v] = pc[v] /\ batch'[v] = batch[v]
             /\ todo'[v] = todo[v] /\ result'[v] = result[v]
  BY <1>1 DEF IInv, TypeOK, WriterInv, Orderly, Submit, Goto
<1>3. TornStatuses[w] = "none" /\ Left[w] = {}
  BY <1>2, TornShows
<1>4. TornStatuses'[w] = "open" /\ TornBatches'[w] = edits /\ Left'[w] = {}
  BY <1>2 DEF TornStatuses, TornStatus, TornBatches, Left, Open
<1>5. /\ TornStatuses' = [TornStatuses EXCEPT ![w] = "open"]
      /\ TornBatches' = [TornBatches EXCEPT ![w] = edits]
      /\ Left' = [Left EXCEPT ![w] = {}]
  BY <1>2, <1>4, TornLocals
<1>6. Left' = Left
  BY <1>3, <1>5 DEF Left
<1>7. edits \in Batches \ {Torn!NoEdits}
  BY TornNoEdits
<1> QED BY <1>3, <1>5, <1>6, <1>7 DEF Torn!Submit, Submit

LEMMA SubmitNothingTorn ==
    ASSUME IInv, IInv', NEW w \in Writers, SubmitNothing(w)
    PROVE  Torn!SubmitNothing(w) /\ Left' = Left
<1>1. /\ pc[w] = "idle" /\ result[w] = "none" /\ "ok" \in Results
      /\ End(w, "ok") /\ UNCHANGED <<refs, batch>>
  BY DEF IInv, WriterInv, Orderly, SubmitNothing, Results
<1>2. Torn!Leave(w, "ok")
  BY <1>1, EndLeaves
<1>3. TornStatuses[w] = "none" /\ TornBatches[w] = NoEdits /\ Left[w] = {}
  BY <1>1, TornShows
<1>4. TornBatches' = TornBatches /\ Left' = Left
  BY <1>2, <1>3, TornNoEdits DEF Torn!Leave, TornBatches, Left
<1> QED BY <1>1, <1>2, <1>3, <1>4 DEF Torn!Leave, Torn!SubmitNothing

(* Taking a lock, confirming an edit and dropping a lock show nothing.     *)
LEMMA QuietTorn ==
    ASSUME IInv, IInv', NEW w \in Writers, NEW r \in Refs,
           Lock(w, r) \/ CheckHolds(w, r) \/ Release(w, r)
    PROVE  UNCHANGED Torn!tornVars
<1>1. /\ refs' = refs /\ batch' = batch /\ result' = result
      /\ (Open(w) /\ Open(w)') \/ (pc[w] = "releasing" /\ pc'[w] = "releasing")
      /\ \A v \in Writers \ {w} : pc'[v] = pc[v] /\ todo'[v] = todo[v]
  <2>1. CASE Lock(w, r)
    BY <2>1, AdvanceFacts DEF Lock, IsNext, Busy, Open
  <2>2. CASE CheckHolds(w, r)
    BY <2>2, AdvanceFacts DEF CheckHolds, Busy, Open
  <2>3. CASE Release(w, r)
    BY <2>3 DEF Release
  <2> QED BY <2>1, <2>2, <2>3
<1>2. /\ TornStatuses'[w] = TornStatuses[w]
      /\ TornBatches'[w] = TornBatches[w] /\ Left'[w] = Left[w]
  BY <1>1 DEF TornStatuses, TornStatus, TornBatches, Left, Open
<1>3. /\ TornStatuses' = [TornStatuses EXCEPT ![w] = TornStatuses[w]]
      /\ TornBatches' = [TornBatches EXCEPT ![w] = TornBatches[w]]
      /\ Left' = [Left EXCEPT ![w] = Left[w]]
  BY <1>1, <1>2, TornLocals
<1>4. TornStatuses' = TornStatuses
  BY <1>3 DEF TornStatuses
<1>5. TornBatches' = TornBatches
  BY <1>3 DEF TornBatches
<1>6. Left' = Left
  BY <1>3 DEF Left
<1> QED BY <1>1, <1>4, <1>5, <1>6 DEF Torn!tornVars

LEMMA CheckFailsTorn ==
    ASSUME IInv, IInv', NEW w \in Writers, NEW r \in Refs, CheckFails(w, r)
    PROVE  Torn!Lose(w) /\ Left' = Left
<1>1. /\ r \in DOMAIN batch[w] /\ Open(w) /\ refs' = refs
      /\ refs[r] # batch[w][r].expected
      /\ End(w, "lost") /\ "lost" \in Results /\ batch' = batch
  BY DEF CheckFails, Open, Results, IInv, TypeOK
<1>2. Torn!Close(w, "lost") /\ Left' = Left
  BY <1>1, EndClosesTorn
<1>3. ~Torn!ExpectationsHold(refs, TornBatches[w])
  BY <1>1, TornShows DEF Torn!ExpectationsHold
<1> QED BY <1>1, <1>2, <1>3 DEF Torn!Lose

(* A writer that is done checking and one that publishes hold the locks of *)
(* their batches, so no ref is in both.                                    *)
LEMMA PublishersApart ==
    ASSUME IInv, NEW w \in Writers, NEW v \in Writers,
           pc[w] = "preparing", pc[v] = "publishing"
    PROVE  DOMAIN batch[v] \cap DOMAIN batch[w] = {}
<1>1. Held(w) = DOMAIN batch[w] /\ Held(v) = DOMAIN batch[v]
  BY DEF IInv, WriterInv, Locked
<1> QED BY <1>1 DEF Held

(* The batch wins when gix has prepared it.                                *)
LEMMA PrepareTorn ==
    ASSUME IInv, IInv', NEW w \in Writers, Prepare(w)
    PROVE  Torn!WinTorn(w)
<1>1. /\ pc[w] = "preparing" /\ pc'[w] = "publishing"
      /\ UNCHANGED <<refs, owner, batch, todo, result>>
      /\ \A v \in Writers \ {w} : pc'[v] = pc[v]
      /\ todo[w] = DOMAIN batch[w]
  BY DEF Prepare, Goto, IInv, TypeOK, WriterInv, Orderly
<1>2. TornStatuses[w] = "open" /\ TornBatches[w] = batch[w]
  BY <1>1, TornShows DEF Open
<1>3. /\ TornStatuses'[w] = "landing" /\ TornBatches'[w] = batch[w]
      /\ Left'[w] = DOMAIN batch[w]
  BY <1>1 DEF TornStatuses, TornStatus, TornBatches, Left, Open
<1>4. /\ TornStatuses' = [TornStatuses EXCEPT ![w] = "landing"]
      /\ TornBatches' = [TornBatches EXCEPT ![w] = batch[w]]
      /\ Left' = [Left EXCEPT ![w] = DOMAIN batch[w]]
  BY <1>1, <1>3, TornLocals
<1>5. TornBatches' = TornBatches
  BY <1>2, <1>4 DEF TornBatches
<1>6. Torn!ExpectationsHold(refs, TornBatches[w])
  BY <1>1, <1>2
     DEF IInv, WriterInv, Confirmed, Checked, Torn!ExpectationsHold
<1>7. ASSUME NEW v \in Writers, Torn!Landing(v)
      PROVE  DOMAIN TornBatches[v] \cap DOMAIN TornBatches[w] = {}
  <2>1. pc[v] = "publishing"
    BY <1>7
       DEF Torn!Landing, TornStatuses, TornStatus, Open, IInv, TypeOK, Results
  <2> QED BY <1>1, <1>2, <2>1, PublishersApart, TornShows
<1> QED BY <1>1, <1>2, <1>4, <1>5, <1>6, <1>7 DEF Torn!WinTorn

(* Every ref that is moved is one of a batch that has won.                 *)
LEMMA PublishTorn ==
    ASSUME IInv, IInv', NEW w \in Writers, NEW r \in Refs, Publish(w, r)
    PROVE  Torn!Land(w, r)
<1>1. /\ pc[w] = "publishing" /\ r \in todo[w]
      /\ refs' = [refs EXCEPT ![r] = batch[w][r].new]
      /\ batch' = batch
  BY DEF Publish
<1>2. /\ Torn!Landing(w) /\ TornBatches[w] = batch[w] /\ Left[w] = todo[w]
      /\ TornStatuses[w] = "landing"
  BY <1>1, TornShows DEF Torn!Landing
<1>3. CASE todo[w] = {r}
  <2>1. Torn!Leave(w, "ok")
    BY <1>1, <1>3, EndLeaves DEF Publish, Results
  <2> QED BY <1>1, <1>2, <1>3, <2>1 DEF Torn!Land
<1>4. CASE todo[w] # {r}
  <2>1. /\ todo' = [todo EXCEPT ![w] = @ \ {r}]
        /\ UNCHANGED <<pc, result>>
    BY <1>4 DEF Publish
  <2>2. /\ pc'[w] = "publishing" /\ todo'[w] = todo[w] \ {r}
        /\ \A v \in Writers \ {w} :
               /\ pc'[v] = pc[v] /\ batch'[v] = batch[v]
               /\ todo'[v] = todo[v] /\ result'[v] = result[v]
    BY <1>1, <2>1 DEF IInv, TypeOK
  <2>3. /\ TornStatuses'[w] = "landing" /\ TornBatches'[w] = batch[w]
        /\ Left'[w] = todo[w] \ {r}
    BY <1>1, <2>2 DEF TornStatuses, TornStatus, TornBatches, Left, Open
  <2>4. /\ TornStatuses' = [TornStatuses EXCEPT ![w] = "landing"]
        /\ TornBatches' = [TornBatches EXCEPT ![w] = batch[w]]
        /\ Left' = [Left EXCEPT ![w] = todo[w] \ {r}]
    BY <2>2, <2>3, TornLocals
  <2>5. TornStatuses' = TornStatuses /\ TornBatches' = TornBatches
    BY <1>2, <2>4 DEF TornStatuses, TornBatches
  <2> QED BY <1>1, <1>2, <1>4, <2>4, <2>5 DEF Torn!Land
<1> QED BY <1>3, <1>4

LEMMA ReturnTorn ==
    ASSUME IInv, IInv', NEW w \in Writers, Return(w)
    PROVE  Torn!TornReturn(w) /\ Left' = Left
<1>1. /\ pc[w] = "releasing" /\ pc'[w] = "idle" /\ result'[w] = "none"
      /\ result[w] \in Results \ {"none"} /\ refs' = refs
      /\ \A v \in Writers \ {w} :
             /\ pc'[v] = pc[v] /\ batch'[v] = batch[v]
             /\ todo'[v] = todo[v] /\ result'[v] = result[v]
  BY DEF Return, Goto, IInv, TypeOK, WriterInv, Orderly
<1>2. TornStatuses[w] = result[w] /\ TornBatches[w] = NoEdits /\ Left[w] = {}
  BY <1>1, TornShows
<1>3. /\ TornStatuses'[w] = "none" /\ TornBatches'[w] = NoEdits
      /\ Left'[w] = {}
  BY <1>1 DEF TornStatuses, TornStatus, TornBatches, Left, Open
<1>4. /\ TornStatuses' = [TornStatuses EXCEPT ![w] = "none"]
      /\ TornBatches' = [TornBatches EXCEPT ![w] = NoEdits]
      /\ Left' = [Left EXCEPT ![w] = {}]
  BY <1>1, <1>3, TornLocals
<1>5. TornBatches' = TornBatches
  BY <1>2, <1>4 DEF TornBatches
<1>6. Left' = Left
  BY <1>2, <1>4 DEF Left
<1>7. TornStatuses[w] \notin {"none", "open", "landing", "dead"}
  BY <1>1, <1>2 DEF Results
<1> QED BY <1>1, <1>4, <1>5, <1>6, <1>7 DEF Torn!TornReturn, Torn!Return

(* A failed write tears the batch, and so does the end of the process.     *)
LEMMA BreakTorn ==
    ASSUME IInv, IInv', NEW w \in Writers, Break(w)
    PROVE  Torn!Tear(w) \/ Torn!Die(w)
<1>1. CASE PublishBreaks(w)
  <2>1. /\ w \in Breakable /\ pc[w] = "publishing" /\ End(w, "failed")
        /\ "failed" \in Results /\ UNCHANGED <<refs, batch>>
    BY <1>1 DEF PublishBreaks, Results
  <2>2. Torn!Leave(w, "failed")
    BY <2>1, EndLeaves
  <2>3. Torn!Landing(w)
    BY <2>1, TornShows DEF Torn!Landing
  <2> QED BY <2>1, <2>2, <2>3 DEF Torn!Tear
<1>2. CASE Kill(w) \/ Interrupt(w)
  <2>1. Gone(w)
    BY <1>2 DEF Kill, Interrupt
  <2>2. /\ w \in Breakable /\ pc[w] \in Phases \ {"idle", "dead"}
        /\ pc'[w] = "dead" /\ refs' = refs
        /\ \A v \in Writers \ {w} :
               /\ pc'[v] = pc[v] /\ batch'[v] = batch[v]
               /\ todo'[v] = todo[v] /\ result'[v] = result[v]
    BY <2>1 DEF Gone, Goto, IInv, TypeOK
  <2>3. TornStatuses[w] \notin {"none", "dead"}
    <3>1. pc[w] = "releasing" => result[w] \in Results \ {"none"}
      BY DEF IInv, TypeOK, WriterInv, Orderly
    <3> QED BY <2>2, <3>1 DEF TornStatuses, TornStatus, Open, Phases, Results
  <2>4. /\ TornStatuses'[w] = "dead" /\ TornBatches'[w] = NoEdits
        /\ Left'[w] = {}
    BY <2>2 DEF TornStatuses, TornStatus, TornBatches, Left, Open
  <2>5. Torn!Leave(w, "dead")
    BY <2>2, <2>4, TornLocals, TornNoEdits DEF Torn!Leave
  <2> QED BY <2>2, <2>3, <2>5 DEF Torn!Die
<1> QED BY <1>1, <1>2 DEF Break

(* Whoever is killed, interrupted or fails to write, apply_batch of the    *)
(* git backend is the batch of TornStore: refused, it has landed nothing;  *)
(* confirmed, it has landed whole; won, it shares no ref with another that *)
(* is landing; and only a breakable writer leaves one half landed.         *)
THEOREM TornRefinement == Spec => ImplementsTornStore
<1>1. Init => Torn!TornInit
  BY NoEditsFacts
     DEF Init, Torn!TornInit, Torn!Init, Torn!NoEdits, NoEdits, Torn!Edit, Edit,
         TornBatches, TornStatuses, TornStatus, Left, Open
<1>2. ASSUME IInv, IInv', [Next]_vars
      PROVE  [Torn!TornNext]_Torn!tornVars
  <2>1. CASE UNCHANGED vars
    BY <2>1 DEF vars, Torn!tornVars, TornBatches, TornStatuses, TornStatus,
                Left, Open
  <2>2. ASSUME NEW w \in Writers,
               Submit(w) \/ SubmitNothing(w) \/ Step(w) \/ Break(w)
        PROVE  [Torn!TornNext]_Torn!tornVars
    <3>1. CASE Submit(w)
      BY <1>2, <3>1, SubmitTorn DEF Torn!TornNext
    <3>2. CASE SubmitNothing(w)
      BY <1>2, <3>2, SubmitNothingTorn DEF Torn!TornNext
    <3>3. CASE \E r \in Refs : Lock(w, r) \/ CheckHolds(w, r) \/ Release(w, r)
      BY <1>2, <3>3, QuietTorn
    <3>4. CASE \E r \in Refs : LockTimesOut(w, r)
      <4>1. Torn!Close(w, "failed") /\ Left' = Left /\ refs' = refs
        BY <1>2, <3>4, EndClosesTorn DEF LockTimesOut, Open, Results
      <4> QED BY <4>1 DEF Torn!TornNext, Torn!Fail
    <3>5. CASE \E r \in Refs : CheckFails(w, r)
      BY <1>2, <3>5, CheckFailsTorn DEF Torn!TornNext
    <3>6. CASE Prepare(w)
      BY <1>2, <3>6, PrepareTorn DEF Torn!TornNext
    <3>7. CASE PrepareRefused(w)
      <4>1. PICK how \in {"contended", "failed"} : End(w, how)
        BY <3>7 DEF PrepareRefused
      <4>2. Torn!Close(w, how) /\ Left' = Left /\ refs' = refs
        BY <1>2, <3>7, <4>1, EndClosesTorn DEF PrepareRefused, Open, Results
      <4> QED BY <4>2 DEF Torn!TornNext, Torn!Fail
    <3>8. CASE \E r \in Refs : Publish(w, r)
      BY <1>2, <3>8, PublishTorn DEF Torn!TornNext
    <3>9. CASE Return(w)
      BY <1>2, <3>9, ReturnTorn DEF Torn!TornNext
    <3>10. CASE Break(w)
      BY <1>2, <3>10, BreakTorn DEF Torn!TornNext
    <3> QED BY <2>2, <3>1, <3>2, <3>3, <3>4, <3>5, <3>6, <3>7, <3>8, <3>9,
               <3>10 DEF Step
  <2> QED BY <1>2, <2>1, <2>2 DEF Next
<1>3. Spec => Torn!TornSpec
  BY <1>1, <1>2, Invariant, PTL DEF Spec, Torn!TornSpec
<1> QED BY <1>3 DEF ImplementsTornStore
=============================================================================
