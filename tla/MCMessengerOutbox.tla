------------------------- MODULE MCMessengerOutbox -------------------------
(* Finite instances of MessengerOutbox. *)
EXTENDS MessengerOutbox

CONSTANTS ask1, sms1, t1

Kinds   == [e \in Events |-> IF e = ask1 THEN "assistant" ELSE "channel"]
OneTalk == [e \in Events |-> t1]
ById    == [e \in Events |-> IF e = ask1 THEN 1 ELSE 2]
=============================================================================
