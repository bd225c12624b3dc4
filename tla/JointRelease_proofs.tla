------------------------ MODULE JointRelease_proofs ------------------------
(***************************************************************************)
(* What the abstract release promises, for every set of books and every    *)
(* set of storefronts.  ScheduledRelease is proved to implement it in      *)
(* ScheduledRelease_proofs.                                                *)
(***************************************************************************)
EXTENDS JointRelease, TLAPS

\* A released book is due and armed everywhere, a shown book is released, and
\* where one storefront is armed all are ready.
JInv ==
  /\ ReleaseTypeOK
  /\ \A b \in Books : fate[b] = "released" =>
       b \in due /\ \A c \in Storefronts : stage[c][b] = "activated"
  /\ \A t \in shown : fate[t[2]] = "released"
  /\ \A b \in Books, c, d \in Storefronts : stage[c][b] = "activated" => stage[d][b] # "none"

\* One storefront moves on for one book.
LEMMA StageMoves ==
  ASSUME JInv, NEW c \in Storefronts, NEW b \in Books, Prepare(c, b) \/ Activate(c, b)
  PROVE  /\ JInv'
         /\ \A d \in Storefronts, a \in Books :
              /\ stage[d][a] = "activated" => stage'[d][a] = "activated"
              /\ stage[d][a] # "none" => stage'[d][a] # "none"
  <1>1. PICK new \in {"prepared", "activated"} :
          /\ stage' = [stage EXCEPT ![c][b] = new]
          /\ stage[c][b] # "activated"
          /\ new = "activated" => \A d \in Storefronts : stage[d][b] # "none"
    BY DEF Prepare, Activate
  <1>2. UNCHANGED <<fate, due, shown>>
    BY DEF Prepare, Activate
  <1>3. /\ stage' \in [Storefronts -> [Books -> {"none", "prepared", "activated"}]]
        /\ stage'[c][b] = new
        /\ \A d \in Storefronts, a \in Books : d # c \/ a # b => stage'[d][a] = stage[d][a]
    BY <1>1 DEF JInv, ReleaseTypeOK
  <1>4. \A d \in Storefronts, a \in Books :
          /\ stage[d][a] = "activated" => stage'[d][a] = "activated"
          /\ stage[d][a] # "none" => stage'[d][a] # "none"
    BY <1>1, <1>3
  <1>5. \A a \in Books, d, f \in Storefronts : stage'[d][a] = "activated" => stage'[f][a] # "none"
    BY <1>1, <1>3, <1>4 DEF JInv
  <1>6. ReleaseTypeOK'
    BY <1>2, <1>3 DEF JInv, ReleaseTypeOK
  <1> QED BY <1>2, <1>4, <1>5, <1>6 DEF JInv

\* A fate is settled, or the time of a book not released changes.
LEMMA FateMoves ==
  ASSUME JInv, (\E b \in Books : Release(b) \/ Cancel(b)) \/ Reschedule
  PROVE  JInv' /\ \A a \in Books : fate[a] # "open" => fate'[a] = fate[a]
  <1>1. CASE \E b \in Books : Release(b) \/ Cancel(b)
    <2>1. PICK b \in Books : Release(b) \/ Cancel(b)
      BY <1>1
    <2>2. PICK end \in {"released", "cancelled"} :
            /\ fate[b] = "open" /\ fate' = [fate EXCEPT ![b] = end]
            /\ end = "released" => b \in due /\ \A c \in Storefronts : stage[c][b] = "activated"
            /\ due' = due \/ (end = "cancelled" /\ due' = due \ {b})
            /\ UNCHANGED <<stage, shown>>
      BY <2>1 DEF Release, Cancel
    <2>3. /\ fate' \in [Books -> {"open", "released", "cancelled"}] /\ fate'[b] = end
          /\ \A a \in Books \ {b} : fate'[a] = fate[a]
      BY <2>2 DEF JInv, ReleaseTypeOK
    <2>4. ReleaseTypeOK'
      BY <2>2, <2>3 DEF JInv, ReleaseTypeOK
    <2>5. \A t \in shown' : fate'[t[2]] = "released"
      <3>1. \A t \in shown : t[2] \in Books /\ t[2] # b
        BY <2>2 DEF JInv, ReleaseTypeOK
      <3> QED BY <2>2, <2>3, <3>1 DEF JInv
    <2> QED BY <2>2, <2>3, <2>4, <2>5 DEF JInv
  <1>2. CASE Reschedule
    BY <1>2 DEF Reschedule, JInv, ReleaseTypeOK
  <1> QED BY <1>1, <1>2

LEMMA ShowMoves ==
  ASSUME JInv, NEW c \in Storefronts, NEW b \in Books, Show(c, b) \/ Hide(c, b)
  PROVE  JInv'
  BY DEF Show, Hide, JInv, ReleaseTypeOK

\* Every step keeps the invariant and takes nothing back.
LEMMA ReleaseStep ==
  ASSUME JInv, [Next]_vars
  PROVE  /\ JInv'
         /\ \A b \in Books : fate[b] # "open" => fate'[b] = fate[b]
         /\ \A c \in Storefronts, b \in Books :
              /\ stage[c][b] = "activated" => stage'[c][b] = "activated"
              /\ stage[c][b] # "none" => stage'[c][b] # "none"
  <1>1. CASE UNCHANGED vars
    BY <1>1 DEF vars, JInv, ReleaseTypeOK
  <1>2. ASSUME NEW c \in Storefronts, NEW b \in Books, Prepare(c, b) \/ Activate(c, b)
        PROVE  fate' = fate
    BY <1>2 DEF Prepare, Activate
  <1>3. ASSUME NEW c \in Storefronts, NEW b \in Books, Show(c, b) \/ Hide(c, b)
        PROVE  fate' = fate /\ stage' = stage
    BY <1>3 DEF Show, Hide
  <1>4. (\E b \in Books : Release(b) \/ Cancel(b)) \/ Reschedule => stage' = stage
    BY DEF Release, Cancel, Reschedule
  <1> QED BY <1>1, <1>2, <1>3, <1>4, StageMoves, FateMoves, ShowMoves DEF Next

\* Released books are due and armed everywhere; only released books are shown.
THEOREM ReleaseInvariant == Spec => []JInv
  <1>1. Init => JInv
    BY DEF Init, JInv, ReleaseTypeOK
  <1> QED BY <1>1, ReleaseStep, PTL DEF Spec

\* A book is shown by no storefront before every storefront could show it.
THEOREM ShowsJointly == Spec => []ShownJointly
  <1>1. JInv => ShownJointly
    <2> SUFFICES ASSUME JInv, NEW t \in shown
                 PROVE  /\ fate[t[2]] = "released" /\ t[2] \in due
                        /\ \A c \in Storefronts : stage[c][t[2]] = "activated"
      BY DEF ShownJointly
    <2>1. t[2] \in Books /\ fate[t[2]] = "released"
      BY DEF JInv, ReleaseTypeOK
    <2> QED BY <2>1 DEF JInv
  <1> QED BY <1>1, ReleaseInvariant, PTL

\* No release or cancellation is undone and no storefront is set back.
THEOREM TakesNothingBack == Spec => NothingTakenBack
  <1>1. JInv /\ [Next]_vars =>
          /\ \A b \in Books : fate[b] # "open" => fate'[b] = fate[b]
          /\ \A c \in Storefronts, b \in Books :
               /\ stage[c][b] = "activated" => stage'[c][b] = "activated"
               /\ stage[c][b] # "none" => stage'[c][b] # "none"
    BY ReleaseStep
  <1> QED BY <1>1, ReleaseInvariant, PTL DEF Spec, NothingTakenBack
=============================================================================
