------------------------- MODULE MCScheduledRelease -------------------------
(* Finite instances of ScheduledRelease. *)
EXTENDS ScheduledRelease

CONSTANTS e1, e2, e3

ById == [e \in Editions |-> CASE e = e1 -> 1 [] e = e2 -> 2 [] e = e3 -> 3]
=============================================================================
