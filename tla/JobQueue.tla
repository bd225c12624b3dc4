------------------------------ MODULE JobQueue ------------------------------
(***************************************************************************)
(* What a durable job queue of the platform promises to the code that      *)
(* submits work to it, with nothing said about assignment, leases, polls   *)
(* or clocks.  A job waits, is run by one worker at a time, goes back to   *)
(* waiting when a run is given up, and comes to rest exactly once.  A job  *)
(* in OneShot is started at most once, whatever happens to its run.        *)
(*                                                                         *)
(* Several jobs may move in one step: one statement of an implementation   *)
(* may put many rows back into the queue.                                  *)
(***************************************************************************)
EXTENDS Naturals

CONSTANTS
  Jobs,       \* the jobs that may ever be submitted
  Workers,    \* who may run them
  OneShot,    \* the jobs that may be started only once
  Nobody      \* the runner of a job that is not running

VARIABLE
  queue       \* queue[j]: the phase of j, its runner, how often it was started

Resting == {"done", "failed", "cancelled"}
Phases  == {"absent", "waiting", "running"} \cup Resting

Entry == [phase: Phases, runner: Workers \cup {Nobody}, starts: Nat]

QueueTypeOK == queue \in [Jobs -> Entry]

Init == queue = [j \in Jobs |-> [phase |-> "absent", runner |-> Nobody, starts |-> 0]]

\* The entry of j in a phase in which nobody runs it.
Unheld(j, phase) == [phase |-> phase, runner |-> Nobody, starts |-> queue[j].starts]

Submit(j) ==
  /\ queue[j].phase = "absent"
  /\ queue'[j] = Unheld(j, "waiting")

Start(j, w) ==
  /\ queue[j].phase = "waiting"
  /\ j \in OneShot => queue[j].starts = 0
  /\ queue'[j] = [phase |-> "running", runner |-> w, starts |-> queue[j].starts + 1]

Retry(j) ==
  /\ queue[j].phase = "running"
  /\ j \notin OneShot
  /\ queue'[j] = Unheld(j, "waiting")

Finish(j) ==
  /\ queue[j].phase = "running"
  /\ queue'[j] = Unheld(j, "done")

GiveUp(j) ==
  /\ queue[j].phase \in {"waiting", "running"}
  /\ queue'[j] = Unheld(j, "failed")

Cancel(j) ==
  /\ queue[j].phase = "waiting"
  /\ queue'[j] = Unheld(j, "cancelled")

Move(j) ==
  \/ Submit(j)
  \/ \E w \in Workers : Start(j, w)
  \/ Retry(j)
  \/ Finish(j)
  \/ GiveUp(j)
  \/ Cancel(j)

Next ==
  /\ queue' \in [Jobs -> Entry]
  /\ \A j \in Jobs : Move(j) \/ queue'[j] = queue[j]

Spec == Init /\ [][Next]_queue

-----------------------------------------------------------------------------
\* A job has a runner exactly while it runs, and has been started before it is
\* run or done: what a lease of a queue means (hybrid_jobs, family rows).
RunnerIffRunning ==
  \A j \in Jobs : /\ queue[j].runner \in Workers \/ queue[j].phase # "running"
                  /\ queue[j].runner = Nobody \/ queue[j].phase = "running"
                  /\ queue[j].phase \in {"running", "done"} => queue[j].starts > 0

\* A job whose effects must not be repeated (one attempt: a dispatched question,
\* a slide job) is started at most once.
OneShotStartedOnce == \A j \in OneShot \cap Jobs : queue[j].starts <= 1

\* A job that is completed, failed or cancelled stays as it is, whatever request
\* or sweep comes late.
RestIsFinal == [][\A j \in Jobs : queue[j].phase \in Resting => queue'[j] = queue[j]]_queue
=============================================================================
