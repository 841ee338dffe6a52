----------------------------- MODULE BlockLife ------------------------------
(***************************************************************************)
(* What a cache promises about each line of memory, with no ways, tags,    *)
(* policies or counters: a block is absent, in flight or resident; it      *)
(* becomes in flight only while an MSHR is free, becomes resident only     *)
(* from in flight, and leaves only when a block of the same set takes its  *)
(* place in a full set.                                                    *)
(***************************************************************************)
EXTENDS Integers, FiniteSets

CONSTANTS Blocks, NumSets, Assoc, MaxInflight

VARIABLE where

States == {"absent", "inflight", "resident"}

In(state) == {b \in Blocks : where[b] = state}
Residents(s) == {b \in In("resident") : b % NumSets = s}

LifeInit == where = [b \in Blocks |-> "absent"]

Allocate(b) ==
  /\ where[b] = "absent"
  /\ Cardinality(In("inflight")) < MaxInflight
  /\ where' = [where EXCEPT ![b] = "inflight"]

CompleteInFreeWay(b) ==
  /\ where[b] = "inflight"
  /\ Cardinality(Residents(b % NumSets)) < Assoc
  /\ where' = [where EXCEPT ![b] = "resident"]

CompleteByEviction(b, victim) ==
  /\ where[b] = "inflight"
  /\ victim \in Residents(b % NumSets)
  /\ Cardinality(Residents(b % NumSets)) = Assoc
  /\ where' = [where EXCEPT ![b] = "resident", ![victim] = "absent"]

LifeNext == \E b \in Blocks : \/ Allocate(b)
                              \/ CompleteInFreeWay(b)
                              \/ \E v \in Blocks : CompleteByEviction(b, v)

LifeSpec == LifeInit /\ [][LifeNext]_where
=============================================================================
