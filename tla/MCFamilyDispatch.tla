-------------------------- MODULE MCFamilyDispatch --------------------------
(* Finite instances of FamilyDispatch. *)
EXTENDS FamilyDispatch, TLC

CONSTANTS j1, j2, j3

Code    == [j \in Jobs |-> 10]   \* codeTimeoutMs, in minutes
General == [j \in Jobs |-> 3]    \* generalTimeoutMs

OneLane == [j \in Jobs |-> "codex"]
OwnKey  == [j \in Jobs |-> j]
Single  == [j \in Jobs |-> 1]
Double  == [j \in Jobs |-> 2]
Two     == [d \in Devices |-> 2]

SlotSymmetry == Permutations(Requests)
JobSymmetry  == Permutations(Requests) \cup Permutations(Jobs)
=============================================================================
