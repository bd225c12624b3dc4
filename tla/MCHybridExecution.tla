-------------------------- MODULE MCHybridExecution --------------------------
(* Finite instances of HybridExecution. *)
EXTENDS HybridExecution, TLC

CONSTANTS j1, j2, j3, n1, n2

Limit1  == [j \in Jobs |-> 1]
Limit2  == [j \in Jobs |-> 2]

AllSupport == [j \in Jobs |-> Nodes]

SlotSymmetry == Permutations(Requests)
FullSymmetry == Permutations(Requests) \cup Permutations(Nodes)
CapacitySymmetry == Permutations(Requests) \cup Permutations(Jobs)
=============================================================================
