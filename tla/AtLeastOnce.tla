----------------------------- MODULE AtLeastOnce -----------------------------
(***************************************************************************)
(* What an outbox promises to those who post to it, with nothing said of   *)
(* drains, locks, attempts or clocks.  A posted item is copied out and its *)
(* delivery recorded, or it is given up.  A mishap (a worker that dies or  *)
(* is too slow, an answer that is lost) may cost one more copy and may     *)
(* bring an item back that had ended; nothing else does.                   *)
(***************************************************************************)
EXTENDS Naturals

CONSTANT Items

VARIABLES
  phase,     \* phase[i]: absent, waiting, delivered or dead
  copies,    \* copies[i]: the copies made of i
  mishaps,   \* mishaps[i]: the mishaps i has met
  spared     \* items left uncopied on purpose

all == <<phase, copies, mishaps, spared>>

ItemsTypeOK ==
  /\ phase \in [Items -> {"absent", "waiting", "delivered", "dead"}]
  /\ copies \in [Items -> Nat] /\ mishaps \in [Items -> Nat]
  /\ spared \subseteq Items

Init ==
  /\ phase = [i \in Items |-> "absent"]
  /\ copies = [i \in Items |-> 0] /\ mishaps = [i \in Items |-> 0]
  /\ spared = {}

Posted(i) == phase[i] # "absent"

\* An item that met no mishap is not touched again once it has ended.
Pliable(i) == phase[i] = "waiting" \/ (Posted(i) /\ mishaps[i] > 0)

Post(i) ==
  /\ ~ Posted(i)
  /\ phase' = [phase EXCEPT ![i] = "waiting"]
  /\ UNCHANGED <<copies, mishaps, spared>>

\* A copy is made; nobody may ever learn of it.
Copy(i) ==
  /\ Posted(i) /\ copies[i] <= mishaps[i]
  /\ copies' = [copies EXCEPT ![i] = @ + 1]
  /\ mishaps' \in {mishaps, [mishaps EXCEPT ![i] = @ + 1]}
  /\ UNCHANGED <<phase, spared>>

Mishap(i) ==
  /\ Posted(i)
  /\ mishaps' = [mishaps EXCEPT ![i] = @ + 1]
  /\ UNCHANGED <<phase, copies, spared>>

Spare(i) ==
  /\ Posted(i)
  /\ spared' = spared \cup {i}
  /\ UNCHANGED <<phase, copies, mishaps>>

\* The record of it may be what meets the mishap.
Becomes(i, end) ==
  /\ Pliable(i)
  /\ phase' = [phase EXCEPT ![i] = end]
  /\ mishaps' \in {mishaps, [mishaps EXCEPT ![i] = @ + 1]}
  /\ UNCHANGED <<copies, spared>>

Deliver(i) == (copies[i] > 0 \/ i \in spared) /\ Becomes(i, "delivered")
GiveUp(i)  == Becomes(i, "dead")

\* What had ended waits again.
Reopen(i)  == Becomes(i, "waiting")

Next ==
  \E i \in Items :
    Post(i) \/ Copy(i) \/ Mishap(i) \/ Spare(i) \/ Deliver(i) \/ GiveUp(i) \/ Reopen(i)

Spec == Init /\ [][Next]_all
=============================================================================
