--------------------------- MODULE TransactionLog ---------------------------
(***************************************************************************)
(* What Transaction::commit promises (crates/git-store/src/transaction.rs) *)
(* seen at the entity refs: in one step, every staged operation that would *)
(* change what its caller expected to find is done, each on top of exactly *)
(* that, or nothing is.  A staged operation that asks for what its caller  *)
(* expected to find already does nothing, and is not looked at again.      *)
(* Other writers move one ref at a time, as branches do.                   *)
(***************************************************************************)
EXTENDS Commits

CONSTANTS
  Names,
  Pruned,    \* names some caller prunes
  Grafted,   \* names some caller publishes at with an explicit parent
  Txns,      \* transactions
  Staged     \* the operations each transaction stages

VARIABLES
  log,       \* the history each entity ref points at
  expect,    \* what the caller of each transaction expected to find
  outcome    \* how the commit of each transaction stands

vars == <<log, expect, outcome>>

\* The staged operation has nothing to do at a ref that holds `commit`.
Idle(op, commit) ==
    IF op.op = "publish" THEN Carries(commit, op.doc) ELSE ~Present(commit)

\* The staged operation moves its ref from `old` to `new`.
Does(op, old, new) ==
    /\ new # Absent /\ Front(new) = old
    /\ Last(new).doc = op.doc
    /\ Last(new).dead <=> op.op = "delete"

Init ==
    /\ log = [n \in Names |-> Absent]
    /\ expect = [t \in Txns |-> <<>>]
    /\ outcome = [t \in Txns |-> "none"]

Begin(t) ==
    /\ outcome[t] = "none"
    /\ outcome' = [outcome EXCEPT ![t] = "open"]
    /\ expect' = [expect EXCEPT ![t] = expect'[t]]
    /\ DOMAIN expect'[t] = DOMAIN Staged[t]
    /\ UNCHANGED log

Commit(t) ==
    /\ outcome[t] = "open"
    /\ outcome' = [outcome EXCEPT ![t] = "ok"]
    /\ DOMAIN log' = Names
    /\ \A n \in Names :
          \/ log'[n] = log[n]
          \/ \E i \in DOMAIN Staged[t] : Staged[t][i].name = n
    /\ \A i \in DOMAIN Staged[t] :
          LET op == Staged[t][i]
          IN  IF Idle(op, expect[t][i])
              THEN log'[op.name] = log[op.name]
              ELSE /\ log[op.name] = expect[t][i]
                   /\ Does(op, log[op.name], log'[op.name])
    /\ UNCHANGED expect

Fail(t) ==
    /\ outcome[t] = "open"
    /\ outcome' = [outcome EXCEPT ![t] = "failed"]
    /\ UNCHANGED <<log, expect>>

Elsewhere(n) ==
    /\ log' = [log EXCEPT ![n] = log'[n]]
    /\ Moves(log[n], log'[n], n \in Grafted, n \in Pruned)
    /\ UNCHANGED <<expect, outcome>>

Next ==
    \/ \E t \in Txns : Begin(t) \/ Commit(t) \/ Fail(t)
    \/ \E n \in Names : Elsewhere(n)

Spec == Init /\ [][Next]_vars
=============================================================================
