-------------------------- MODULE JobQueue_proofs --------------------------
(***************************************************************************)
(* What the abstract queue promises, for every set of jobs and workers.    *)
(* The implementations of the queue (HybridExecution, FamilyDispatch) are  *)
(* proved to implement it in their own proof modules; what is proved here  *)
(* is what a reader may conclude about each of them from the queue alone.  *)
(***************************************************************************)
EXTENDS JobQueue, TLAPS

\* An entry: its runner, and how often it was started, agree with its phase.
EntryOK(j) ==
  LET q == queue[j] IN
  /\ q.runner \in Workers \/ q.phase # "running"
  /\ q.runner = Nobody \/ q.phase = "running"
  /\ q.phase \in {"running", "done"} => q.starts > 0
  /\ q.phase = "absent" => q.starts = 0
  /\ j \in OneShot => q.starts <= 1

QInv == QueueTypeOK /\ \A j \in Jobs : EntryOK(j)

\* Every move leads from a good entry to a good one.
LEMMA MoveOK ==
  ASSUME QInv, QueueTypeOK', NEW j \in Jobs, Move(j) PROVE EntryOK(j)'
  <1>1. /\ queue[j] \in Entry /\ queue'[j] \in Entry /\ EntryOK(j)
        /\ queue[j].starts \in Nat
    BY DEF QInv, QueueTypeOK, Entry
  <1>2. CASE Submit(j) \/ Retry(j) \/ Finish(j) \/ GiveUp(j) \/ Cancel(j)
    <2>1. PICK phase \in Phases \ {"running", "absent"} :
            /\ queue'[j] = Unheld(j, phase)
            /\ phase = "done" => queue[j].phase = "running"
      BY <1>2 DEF Submit, Retry, Finish, GiveUp, Cancel, Phases, Resting
    <2>2. /\ queue'[j].phase = phase /\ queue'[j].runner = Nobody
          /\ queue'[j].starts = queue[j].starts
      BY <2>1 DEF Unheld
    <2> QED BY <1>1, <2>1, <2>2 DEF EntryOK
  <1>3. CASE \E w \in Workers : Start(j, w)
    <2>1. PICK w \in Workers : Start(j, w)
      BY <1>3
    <2>2. /\ queue'[j].phase = "running" /\ queue'[j].runner = w
          /\ queue'[j].starts = queue[j].starts + 1
          /\ j \in OneShot => queue[j].starts = 0
      BY <2>1 DEF Start
    <2> QED BY <1>1, <2>2 DEF EntryOK
  <1> QED BY <1>2, <1>3 DEF Move

LEMMA QueueGoesOn == ASSUME QInv, [Next]_queue PROVE QInv'
  <1>1. CASE queue' = queue
    BY <1>1 DEF QInv, QueueTypeOK, EntryOK
  <1>2. CASE Next
    <2>1. QueueTypeOK'
      BY <1>2 DEF Next, QueueTypeOK
    <2>2. ASSUME NEW j \in Jobs PROVE EntryOK(j)'
      BY <1>2, <2>1, MoveOK DEF Next, QInv, EntryOK
    <2> QED BY <2>1, <2>2 DEF QInv
  <1> QED BY <1>1, <1>2

\* Phases, runners and numbers of starts agree in every reachable state.
THEOREM QueueInvariant == Spec => []QInv
  <1>1. Init => QInv
    <2> SUFFICES ASSUME Init PROVE QInv
      OBVIOUS
    <2>1. queue = [j \in Jobs |-> [phase |-> "absent", runner |-> Nobody, starts |-> 0]]
      BY DEF Init
    <2>2. [phase |-> "absent", runner |-> Nobody, starts |-> 0] \in Entry
      BY DEF Entry, Phases
    <2> QED BY <2>1, <2>2 DEF QInv, QueueTypeOK, EntryOK
  <1> QED BY <1>1, QueueGoesOn, PTL DEF Spec

\* A job has a runner exactly while it runs, and nothing is done that was not started.
THEOREM QueueRunners == Spec => []RunnerIffRunning
  <1>1. QInv => RunnerIffRunning
    BY DEF QInv, EntryOK, RunnerIffRunning
  <1> QED BY <1>1, QueueInvariant, PTL

\* A one-shot job is started at most once.
THEOREM QueueStartsOnce == Spec => []OneShotStartedOnce
  <1>1. QInv => OneShotStartedOnce
    BY DEF QInv, EntryOK, OneShotStartedOnce
  <1> QED BY <1>1, QueueInvariant, PTL

\* A job comes to rest once.
THEOREM QueueRests == Spec => RestIsFinal
  <1>1. [Next]_queue => \A j \in Jobs : queue[j].phase \in Resting => queue'[j] = queue[j]
    BY DEF Next, Move, Submit, Start, Retry, Finish, GiveUp, Cancel, Resting
  <1> QED BY <1>1, PTL DEF Spec, RestIsFinal
=============================================================================
