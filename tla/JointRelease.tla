---------------------------- MODULE JointRelease ----------------------------
(***************************************************************************)
(* What the release of a book promises to its readers, with nothing said   *)
(* of ledgers, revisions, scheduler runs or lost answers.  A storefront is *)
(* made ready, then armed, and none is armed before all are ready.  A book *)
(* is released once, when all storefronts are armed and its time has come, *)
(* or it is cancelled; only a released book is shown.                      *)
(***************************************************************************)

CONSTANTS
  Books,
  Storefronts

VARIABLES
  fate,     \* fate[b]: "open", "released" or "cancelled"
  stage,    \* stage[c][b]: "none", "prepared" or "activated"
  due,      \* the books whose time has come
  shown     \* <<c, b>>: storefront c has leave to show book b

vars == <<fate, stage, due, shown>>

ReleaseTypeOK ==
  /\ fate \in [Books -> {"open", "released", "cancelled"}]
  /\ stage \in [Storefronts -> [Books -> {"none", "prepared", "activated"}]]
  /\ due \subseteq Books
  /\ shown \subseteq Storefronts \X Books

Init ==
  /\ fate = [b \in Books |-> "open"]
  /\ stage = [c \in Storefronts |-> [b \in Books |-> "none"]]
  /\ due = {}
  /\ shown = {}

Prepare(c, b) ==
  /\ stage[c][b] = "none"
  /\ stage' = [stage EXCEPT ![c][b] = "prepared"]
  /\ UNCHANGED <<fate, due, shown>>

Activate(c, b) ==
  /\ stage[c][b] = "prepared"
  /\ \A d \in Storefronts : stage[d][b] # "none"
  /\ stage' = [stage EXCEPT ![c][b] = "activated"]
  /\ UNCHANGED <<fate, due, shown>>

Release(b) ==
  /\ fate[b] = "open" /\ b \in due
  /\ \A c \in Storefronts : stage[c][b] = "activated"
  /\ fate' = [fate EXCEPT ![b] = "released"]
  /\ UNCHANGED <<stage, due, shown>>

\* A cancelled book has no time any more.
Cancel(b) ==
  /\ fate[b] = "open"
  /\ fate' = [fate EXCEPT ![b] = "cancelled"]
  /\ due' = due \ {b}
  /\ UNCHANGED <<stage, shown>>

\* Time passes and books are scheduled anew, but not those already released.
Reschedule ==
  /\ due' \subseteq Books
  /\ \A b \in due : fate[b] = "released" => b \in due'
  /\ UNCHANGED <<fate, stage, shown>>

Show(c, b) ==
  /\ fate[b] = "released"
  /\ shown' = shown \cup {<<c, b>>}
  /\ UNCHANGED <<fate, stage, due>>

Hide(c, b) ==
  /\ shown' = shown \ {<<c, b>>}
  /\ UNCHANGED <<fate, stage, due>>

Next ==
  \/ \E c \in Storefronts, b \in Books : Prepare(c, b) \/ Activate(c, b) \/ Show(c, b) \/ Hide(c, b)
  \/ \E b \in Books : Release(b) \/ Cancel(b)
  \/ Reschedule

Spec == Init /\ [][Next]_vars

\* A book that is shown is released, its time has come, and every storefront is
\* armed: none shows a book that another could not show at the same moment.
ShownJointly ==
  \A t \in shown : /\ fate[t[2]] = "released" /\ t[2] \in due
                   /\ \A c \in Storefronts : stage[c][t[2]] = "activated"

\* A fate, once settled, stays; an armed storefront stays armed, and a book made
\* ready anywhere stays ready there.
NothingTakenBack ==
  [][/\ \A b \in Books : fate[b] # "open" => fate'[b] = fate[b]
     /\ \A c \in Storefronts, b \in Books :
          /\ stage[c][b] = "activated" => stage'[c][b] = "activated"
          /\ stage[c][b] # "none" => stage'[c][b] # "none"]_vars
=============================================================================
