-------------------------- MODULE EntityLogProofs ---------------------------
(***************************************************************************)
(* What follows from the promise that an entity ref is a branch, whatever  *)
(* the names, the documents and the number of steps.                       *)
(***************************************************************************)
EXTENDS EntityLog, CommitsProofs

-----------------------------------------------------------------------------
IInv == LogTypeOK /\ TombstonesNamePredecessor

(* No ref exists at first, so no tombstone does.                           *)
LEMMA LogInit == Init => IInv
BY AbsentTombstones DEF Init, IInv, LogTypeOK, TombstonesNamePredecessor

(* Every move keeps tombstones naming what they buried.                    *)
LEMMA LogStep == IInv /\ [Next]_log => IInv'
<1> SUFFICES ASSUME IInv, [Next]_log
             PROVE  IInv'
  OBVIOUS
<1>1. CASE UNCHANGED log
  BY <1>1 DEF IInv, LogTypeOK, TombstonesNamePredecessor
<1>2. ASSUME NEW n \in Names, Move(n)
      PROVE  IInv'
  <2>1. /\ log' = [log EXCEPT ![n] = log'[n]]
        /\ Moves(log[n], log'[n], n \in Grafted, n \in Pruned)
    BY <1>2 DEF Move
  <2>2. log'[n] \in History /\ TombstonesName(log'[n])
    BY <2>1, MoveKeepsTombstones DEF IInv, LogTypeOK, TombstonesNamePredecessor
  <2> QED
    BY <2>1, <2>2 DEF IInv, LogTypeOK, TombstonesNamePredecessor
<1> QED
  BY <1>1, <1>2 DEF Next

(* Every tombstone names the live document directly beneath it, forever:   *)
(* a deletion records what it deleted and is never deleted again           *)
(* (kind.rs, delete_name).                                                 *)
THEOREM TombstonesAlwaysName == Spec => []TombstonesNamePredecessor
BY LogInit, LogStep, PTL DEF Spec, IInv

(* What a name ever held stays in its history, unless some caller prunes   *)
(* or grafts it (kind.rs, resolve_publish).                                *)
THEOREM HistoryOnlyGrows ==
    Spec => [][\A n \in Names \ (Pruned \cup Grafted) :
                  IsPrefix(log[n], log'[n])]_log
<1>1. IInv /\ [Next]_log
        => [\A n \in Names \ (Pruned \cup Grafted) : IsPrefix(log[n], log'[n])]_log
  <2> SUFFICES ASSUME IInv, NEW m \in Names, Move(m),
                      NEW n \in Names \ (Pruned \cup Grafted)
               PROVE  IsPrefix(log[n], log'[n])
    BY DEF Next
  <2>1. /\ log' = [log EXCEPT ![m] = log'[m]]
        /\ Moves(log[m], log'[m], m \in Grafted, m \in Pruned)
    BY DEF Move
  <2>2. CASE n = m
    <3>1. Moves(log[n], log'[n], FALSE, FALSE)
      BY <2>1, <2>2 DEF Moves
    <3> QED
      BY <3>1, MoveExtends DEF IInv, LogTypeOK
  <2>3. CASE n # m
    BY <2>1, <2>3, PrefixReflexive DEF IInv, LogTypeOK
  <2> QED
    BY <2>2, <2>3
<1> QED
  BY LogInit, LogStep, <1>1, PTL DEF Spec
=============================================================================
