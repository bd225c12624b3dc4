------------------------- MODULE MCOrchestratorTasks -------------------------
(* Finite instances of OrchestratorTasks. *)
EXTENDS OrchestratorTasks

CONSTANTS a1, a2

\* One caller that submits, one that does everything else.
Split == [q \in Desks |-> IF q = a1 THEN {"submit"} ELSE {"poll", "cancel", "approve", "complete"}]
=============================================================================
