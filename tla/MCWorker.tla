------------------------------ MODULE MCWorker ------------------------------
(***************************************************************************)
(* Small instances of DurableWorker.  Each slot is a daemon of its own, so *)
(* that a daemon can start, and recover leases, while the other daemon's   *)
(* slot is still executing.                                                *)
(***************************************************************************)
EXTENDS DurableWorker, TLC

CONSTANTS r1, r2, g1, rel1, s1, s2

OneRelease  == [r \in Runs |-> rel1]
UnitCost    == [r \in Runs |-> 1]
CoversAll   == [g \in Grants |-> Runs]
TwoRunsEach == [g \in Grants |-> 2]
BudgetTwo   == [g \in Grants |-> 2]
OwnDaemon   == [s \in Slots |-> s]

(* Runs with equal parameters, and slots, are interchangeable. *)
RunsAndSlots == Permutations(Runs) \cup Permutations(Slots)
=============================================================================
