------------------------------ MODULE RefEdits ------------------------------
(***************************************************************************)
(* The compare-and-swap edit: the one primitive every write of git-store   *)
(* goes through (crates/gix-refstore/src/edit.rs) and the rule for a batch *)
(* of them (store.rs, memory.rs).                                          *)
(*                                                                         *)
(* A ref store is a function from ref names to the object each ref points  *)
(* at.  A ref that does not exist points at the caller's Absent value.  A  *)
(* batch is a function from the refs it touches to one edit each, so the   *)
(* three constructors of RefEdit are one record:                           *)
(*   Create(name, new)            name :> Edit(Absent, new)                *)
(*   Update(name, expected, new)  name :> Edit(expected, new)              *)
(*   Delete(name, expected)       name :> Edit(expected, Absent)           *)
(* A batch with two edits of one ref is not represented.                   *)
(***************************************************************************)

Edit(expected, new) == [expected |-> expected, new |-> new]

NoEdits == [r \in {} |-> Edit({}, {})]

\* `batch` with one more edit.
WithEdit(batch, ref, edit) ==
    [r \in DOMAIN batch \cup {ref} |-> IF r = ref THEN edit ELSE batch[r]]

\* A plausible bug: only some expectation of the batch is looked at.
SomeExpectationHolds(refs, batch) ==
    \E r \in DOMAIN batch : refs[r] = batch[r].expected

\* Every edit's expectation is checked against the refs before any edit lands.
ExpectationsHold(refs, batch) ==
    \A r \in DOMAIN batch : refs[r] = batch[r].expected

\* The refs once all edits of the batch have landed.
Landed(refs, batch) ==
    [r \in DOMAIN refs |-> IF r \in DOMAIN batch THEN batch[r].new ELSE refs[r]]
=============================================================================
