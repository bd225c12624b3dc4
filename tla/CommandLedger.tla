----------------------------- MODULE CommandLedger -----------------------------
(***************************************************************************)
(* The durable command ledger and the queue pass over it.  A pulse leaves  *)
(* an event and a task; passes started by the cron, by the control API and *)
(* by the orchestrator recover lapsed leases, claim one waiting task,      *)
(* consult the gateway about it and settle it.  Each statement is a step   *)
(* of its own, none of those that settle names the lease or the attempt it *)
(* settles, and a pass may stall past its lease or die at any step.  Time  *)
(* appears as the two comparisons the statements make: whether a lease has *)
(* run out and whether a retry is due.                                     *)
(***************************************************************************)
EXTENDS Naturals, FiniteSets, Sequences

CONSTANTS
  Tasks,
  Gated,        \* tasks whose pulse asks for a human decision
  Handoff,      \* tasks of a deployment, with its branch
  Delegated,    \* tasks whose pulse carries a standing delegation
  Runners,      \* requests that can run a pass
  MaxAttempts,  \* attempts of a task: two unless the pulse says otherwise, three at most
  Faults,       \* crashes and refused statements (a bound)
  NoTask

ASSUME LedgerAssumption ==
  /\ IsFiniteSet(Tasks) /\ Gated \subseteq Tasks /\ Handoff \subseteq Tasks /\ Delegated \subseteq Tasks
  /\ NoTask \notin Tasks /\ MaxAttempts \in 1 .. 3 /\ Faults \in Nat

VARIABLES
  task,      \* ai_command_tasks
  pulse,     \* ai_pulse_events: the state of the event of each task
  line,      \* the tasks by created_at
  run,       \* passes and ingestions under way
  proven,    \* tasks for which some consultation ended verified
  reopened,  \* reopened[t]: late results and approvals that may put t back
  faults     \* faults left

ledger == <<task, pulse, line, run, proven, reopened, faults>>

Results == {"verified", "degraded", "failed", "human_gate", "auto_blocked", "core_only", "executor_ready"}
States  == {"absent", "queued", "running", "retry", "ignored"} \cup Results
Waiting == {"queued", "retry"}
Ended   == {"verified", "ignored", "failed"}

Row == [state: States, attempt: Nat, due: BOOLEAN, lease: {"free", "held", "lapsed"}]

Steps == {"idle", "event", "insert", "gate", "recover", "choose", "claim", "read",
          "work", "settle", "echo", "thrown"}

Run == [at: Steps, task: Tasks \cup {NoTask}, named: BOOLEAN,
        attempt: Nat, result: Results \cup {"retry", "none"}]

NoRun == [at |-> "idle", task |-> NoTask, named |-> FALSE, attempt |-> 0, result |-> "none"]

\* The types.  Only a running task holds a lease, a task that was claimed has an
\* attempt to show for it, and every task made by a pulse stands in line.
LedgerTypeOK ==
  /\ task \in [Tasks -> Row]
  /\ \A t \in Tasks : task[t].lease # "free" => task[t].state = "running" /\ task[t].attempt > 0
  /\ \A t \in Tasks : task[t].state # "absent" => \E i \in DOMAIN line : line[i] = t
  /\ pulse \in [Tasks -> States \cup {"observed"}]
  /\ line \in Seq(Tasks)
  /\ run \in [Runners -> Run]
  /\ proven \subseteq Tasks
  /\ reopened \in [Tasks -> Nat]
  /\ faults \in Nat

LedgerInit ==
  /\ task = [t \in Tasks |-> [state |-> "absent", attempt |-> 0, due |-> FALSE, lease |-> "free"]]
  /\ pulse = [t \in Tasks |-> "absent"]
  /\ line = <<>>
  /\ run = [r \in Runners |-> NoRun]
  /\ proven = {} /\ reopened = [t \in Tasks |-> 0]
  /\ faults = Faults

Fault == faults > 0 /\ faults' = faults - 1
Goes(r, s) == run' = [run EXCEPT ![r].at = s]
Over(r) == run' = [run EXCEPT ![r] = NoRun]

-----------------------------------------------------------------------------
(* Ingesting a pulse. *)

\* What a caller starts: an ingestion, one that is to be executed now, a pass over
\* one task, a pass over the line.
Observation(t) == [NoRun EXCEPT !.at = "event", !.task = t]
Order(t)       == [Observation(t) EXCEPT !.named = TRUE]
PassOver(t)    == [NoRun EXCEPT !.at = "recover", !.task = t, !.named = TRUE]
Pass           == [NoRun EXCEPT !.at = "recover"]

\* The task is in: the request is over, or runs it.
Ingested(r) == IF run[r].named THEN Goes(r, "recover") ELSE Over(r)

InsertEvent(r) ==
  /\ run[r].at = "event"
  /\ pulse' = [pulse EXCEPT ![run[r].task] = IF @ = "absent" THEN "observed" ELSE @]
  /\ Goes(r, "insert")
  /\ UNCHANGED <<task, line, proven, reopened, faults>>

\* Mutation: every task is queued, and the gate left to the event.
AdmittedFreely(t) == "queued"

\* The state a task starts in.
Admitted(t) == IF t \in Gated THEN "human_gate" ELSE "queued"

\* A pulse told twice finds its task, in whatever state, and leaves it.
InsertTask(r) ==
  LET t == run[r].task IN
  /\ run[r].at = "insert"
  /\ IF task[t].state # "absent" THEN UNCHANGED <<task, line>>
     ELSE /\ task' = [task EXCEPT ![t] =
                [state |-> Admitted(t), attempt |-> 0, due |-> TRUE, lease |-> "free"]]
          /\ line' = Append(line, t)
  /\ IF t \in Gated THEN Goes(r, "gate") ELSE Ingested(r)
  /\ UNCHANGED <<pulse, proven, reopened, faults>>

GateEvent(r) ==
  /\ run[r].at = "gate"
  /\ pulse' = [pulse EXCEPT ![run[r].task] = "human_gate"]
  /\ Ingested(r)
  /\ UNCHANGED <<task, line, proven, reopened, faults>>

-----------------------------------------------------------------------------
(* Claiming. *)

\* Mutation: leases are never recovered.
RecoveredNever(t) == task[t]

\* What becomes of a task whose lease has run out.
Recovered(t) ==
  CASE task[t].state = "core_only" /\ t \in Handoff -> [task[t] EXCEPT !.state = "executor_ready"]
    [] task[t].lease = "lapsed" /\ task[t].attempt >= MaxAttempts ->
         [task[t] EXCEPT !.state = "failed", !.lease = "free"]
    [] task[t].lease = "lapsed" /\ task[t].attempt < MaxAttempts ->
         [task[t] EXCEPT !.state = "retry", !.lease = "free", !.due = TRUE]
    [] OTHER -> task[t]

Recover(r) ==
  /\ run[r].at = "recover"
  /\ task' = [t \in Tasks |-> Recovered(t)]
  /\ Goes(r, IF run[r].named THEN "claim" ELSE "choose")
  /\ UNCHANGED <<pulse, line, proven, reopened, faults>>

Eligible(t) == task[t].state \in Waiting /\ task[t].due

\* The oldest task that waits and is due; the pass ends where there is none.
Choose(r) ==
  /\ run[r].at = "choose"
  /\ \/ \E i \in DOMAIN line :
          /\ Eligible(line[i])
          /\ \A j \in 1 .. i - 1 : ~ Eligible(line[j])
          /\ run' = [run EXCEPT ![r].at = "claim", ![r].task = line[i]]
     \/ (\A i \in DOMAIN line : ~ Eligible(line[i])) /\ Over(r)
  /\ UNCHANGED <<task, pulse, line, proven, reopened, faults>>

\* A pass over the line does not look again whether the task it chose is due.
Claimable(r, t) ==
  /\ task[t].state \in Waiting /\ task[t].lease # "held"
  /\ run[r].named => task[t].due

Claim(r) ==
  LET t == run[r].task IN
  /\ run[r].at = "claim"
  /\ IF Claimable(r, t)
     THEN /\ task' = [task EXCEPT ![t].state = "running", ![t].attempt = @ + 1, ![t].lease = "held"]
          /\ Goes(r, "read")
     ELSE Over(r) /\ UNCHANGED task
  /\ UNCHANGED <<pulse, line, proven, reopened, faults>>

\* The claim is an UPDATE; the attempt it made is read by another statement.
ReadClaim(r) ==
  /\ run[r].at = "read"
  /\ run' = [run EXCEPT ![r].at = "work", ![r].attempt = task[run[r].task].attempt]
  /\ UNCHANGED <<task, pulse, line, proven, reopened, faults>>

-----------------------------------------------------------------------------
(* Consulting and settling. *)

\* What the gateway, and the receipt of its consultation, can come to; a
\* verified result without the evidence its capability requires is failed.
Outcomes(t) ==
  IF t \notin Delegated THEN {"auto_blocked", "failed"}
  ELSE {"verified", "degraded", "failed", "human_gate"}
         \cup (IF t \in Handoff THEN {"executor_ready"} ELSE {"core_only"})

Work(r) ==
  /\ run[r].at = "work"
  /\ \E o \in Outcomes(run[r].task) :
       /\ run' = [run EXCEPT ![r].at = "settle", ![r].result = o]
       /\ proven' = IF o = "verified" THEN proven \cup {run[r].task} ELSE proven
  /\ UNCHANGED <<task, pulse, line, reopened, faults>>

\* Mutation: a failure is always good for another attempt.
VerdictEver(r) == IF run[r].result \in {"degraded", "failed"} THEN "retry" ELSE run[r].result

\* What a result makes of its task: another attempt, if the run knows of one.
Verdict(r) ==
  IF run[r].result \in {"degraded", "failed"} /\ run[r].attempt < MaxAttempts THEN "retry" ELSE run[r].result

\* The run is late: its lease was taken from it, and what it settles is not its own.
Late(r) ==
  LET t == run[r].task IN task[t].state # "running" \/ task[t].attempt # run[r].attempt

Settle(r) ==
  LET t == run[r].task IN
  /\ run[r].at = "settle"
  /\ task' = [task EXCEPT ![t].state = Verdict(r), ![t].due = Verdict(r) # "retry", ![t].lease = "free"]
  /\ reopened' = IF Late(r) /\ Verdict(r) = "retry" THEN [reopened EXCEPT ![t] = @ + 1] ELSE reopened
  /\ run' = [run EXCEPT ![r].at = "echo", ![r].result = Verdict(r)]
  /\ UNCHANGED <<pulse, line, proven, faults>>

\* The run, its evidence and the state of the event follow the task; a pass over
\* the line may go on with another task.
Echo(r) ==
  /\ run[r].at = "echo"
  /\ pulse' = [pulse EXCEPT ![run[r].task] = IF run[r].result = "retry" THEN "queued" ELSE run[r].result]
  /\ \/ Over(r)
     \/ ~ run[r].named /\ run' = [run EXCEPT ![r] = Pass]
  /\ UNCHANGED <<task, line, proven, reopened, faults>>

-----------------------------------------------------------------------------
(* Time, faults, and the requests that are nothing but ledger work. *)

Lapse(t) ==
  /\ task[t].lease = "held"
  /\ task' = [task EXCEPT ![t].lease = "lapsed"]
  /\ UNCHANGED <<pulse, line, run, proven, reopened, faults>>

Ripen(t) ==
  /\ task[t].state = "retry" /\ ~ task[t].due
  /\ task' = [task EXCEPT ![t].due = TRUE]
  /\ UNCHANGED <<pulse, line, run, proven, reopened, faults>>

\* A statement is refused and the request sees an error.
Throw(r) ==
  /\ run[r].at \notin {"idle", "thrown", "work"}
  /\ Fault
  /\ Goes(r, "thrown")
  /\ UNCHANGED <<task, pulse, line, proven, reopened>>

\* The worker dies.
Die(r) ==
  /\ run[r].at # "idle"
  /\ Fault
  /\ Over(r)
  /\ UNCHANGED <<task, pulse, line, proven, reopened>>

Starts(r, what) ==
  /\ run[r].at = "idle"
  /\ run' = [run EXCEPT ![r] = what]
  /\ UNCHANGED <<task, pulse, line, proven, reopened, faults>>

Drop(r) == run[r].at = "thrown" /\ Over(r) /\ UNCHANGED <<task, pulse, line, proven, reopened, faults>>

RunStep(r) ==
  \/ InsertEvent(r) \/ InsertTask(r) \/ GateEvent(r)
  \/ Recover(r) \/ Choose(r) \/ Claim(r) \/ ReadClaim(r)
  \/ Work(r) \/ Settle(r) \/ Echo(r)

Mishap(r) == Throw(r) \/ Die(r)

Clock == \E t \in Tasks : Lapse(t) \/ Ripen(t)

-----------------------------------------------------------------------------
(* Properties. *)

\* AttemptsBounded.  A task is claimed no more than MaxAttempts times, once more
\* for each late result and each approval that found it: the claim itself
\* never looks at max_attempts, only settling and recovering do.
AttemptsBounded == \A t \in Tasks : task[t].attempt <= MaxAttempts + reopened[t]

\* EndedUnlessLate.  A task that is verified, ignored or failed is written to only
\* by a run that lost its lease: nothing else takes it up again.
EndedUnlessLate ==
  [][\A t \in Tasks : task[t].state \in Ended /\ task'[t] # task[t] =>
       \E r \in Runners : run[r].at = "settle" /\ run[r].task = t /\ Late(r)]_ledger

\* EveryTaskRests.  Every task comes to rest, whatever stalls or dies over it, or
\* waits for a human.
AtRest(t) == task[t].state \notin {"absent", "queued", "running", "retry"}
EveryTaskRests == \A t \in Tasks : task[t].state # "absent" ~> AtRest(t)
=============================================================================
