--------------------------- MODULE OrchestratorTasks ---------------------------
(***************************************************************************)
(* The orchestrator over the command ledger.  An outside assistant submits *)
(* a task and gets a row of its own; the work is done by the ledger's task *)
(* of the same id.  The two rows are kept together by the requests: a      *)
(* submission makes the one and then the other and runs it, a status poll  *)
(* copies the ledger's state, an approval opens both, a cancellation       *)
(* closes both, and the evidence of a production release completes both.   *)
(* Each is a series of statements any other may run between.               *)
(***************************************************************************)
EXTENDS CommandLedger

CONSTANTS
  Orders,      \* tasks submitted through the orchestrator; the others come from pulses
  Desks,       \* requests to the orchestrator; each runs its passes itself
  Role,        \* Role[q]: what q may be asked
  Cron,        \* the scheduled pass
  Asks         \* requests and pulses altogether (a bound)

ASSUME OrchestratorAssumption ==
  /\ Orders \subseteq Tasks /\ Desks \subseteq Runners /\ Cron \in Runners \ Desks
  /\ Role \in [Desks -> SUBSET {"submit", "poll", "cancel", "approve", "complete"}]
  /\ Asks \in Nat

VARIABLES
  orch,      \* ekodi_orchestrator_tasks
  receipt,   \* tasks with an approval receipt among their events
  desk,      \* requests under way
  asks       \* requests and pulses left

vars == <<ledger, orch, receipt, desk, asks>>
rows == <<orch, receipt>>

OrchStates == {"absent", "received", "assigned", "executing", "production_verifying",
               "completed", "blocked", "failed", "cancelled"}
Terminal   == {"completed", "blocked", "failed", "cancelled"}

NoDesk == [at |-> "idle", task |-> NoTask, approves |-> FALSE, seen |-> "absent", next |-> "absent", version |-> 0]

DeskSteps == {"idle", "ingest", "note", "queue", "fail", "look", "sync", "void",
              "admit", "receipt", "resume", "apply", "unqueue", "reblock", "close"}

\* The types.  A request that waits for the ledger is the one whose ingestion or
\* pass is under way, and works on the same task.
TypeOK ==
  /\ LedgerTypeOK
  /\ orch \in [Orders -> [state: OrchStates, version: Nat, proof: BOOLEAN]]
  /\ receipt \subseteq Orders
  /\ desk \in [Desks -> [at: DeskSteps, task: Orders \cup {NoTask}, approves: BOOLEAN,
                         seen: OrchStates, next: OrchStates, version: Nat]]
  /\ \A q \in Desks : run[q].at # "idle" =>
       desk[q].at \in {"ingest", "queue"} /\ run[q].task = desk[q].task
  /\ asks \in Nat

Init ==
  /\ LedgerInit
  /\ orch = [t \in Orders |-> [state |-> "absent", version |-> 1, proof |-> FALSE]]
  /\ receipt = {}
  /\ desk = [q \in Desks |-> NoDesk]
  /\ asks = Asks

-----------------------------------------------------------------------------
Turns(q, s) == desk' = [desk EXCEPT ![q].at = s]
Ends(q)     == desk' = [desk EXCEPT ![q] = NoDesk]

\* The row of t passes to s, if its state is one of `from`.
Moves(t, from, s) ==
  orch' = IF orch[t].state \in from
          THEN [orch EXCEPT ![t].state = s, ![t].version = @ + 1] ELSE orch

May(q, what) ==
  /\ what \in Role[q] /\ desk[q].at = "idle"
  /\ asks > 0 /\ asks' = asks - 1
Opens(q, t, s) == desk' = [desk EXCEPT ![q] = [NoDesk EXCEPT !.at = s, !.task = t]]

Calls(q, what) == run' = [run EXCEPT ![q] = what]
Returned(q)    == run[q].at = "idle"

-----------------------------------------------------------------------------
(* Submitting. *)

Submit(q, t) ==
  /\ May(q, "submit") /\ orch[t].state = "absent"
  /\ orch' = [orch EXCEPT ![t].state = "received"]
  /\ Opens(q, t, "ingest") /\ Calls(q, Observation(t))
  /\ UNCHANGED <<task, pulse, line, proven, reopened, faults, receipt>>

Assign(q) ==
  /\ desk[q].at = "ingest" /\ Returned(q)
  /\ Moves(desk[q].task, {"received"}, "assigned")
  /\ Turns(q, "note")
  /\ UNCHANGED <<ledger, receipt, asks>>

\* The event is appended, and the task is run at once; two requests that append to
\* the same task at once may collide on the number of the event.
Dispatch(q) ==
  /\ desk[q].at = "note"
  /\ \/ Turns(q, "queue") /\ Calls(q, PassOver(desk[q].task)) /\ UNCHANGED faults
     \/ Fault /\ Turns(q, "fail") /\ UNCHANGED run
  /\ UNCHANGED <<task, pulse, line, proven, reopened, rows, asks>>

\* An error of the ingestion or of the pass reaches the submission; an approval
\* swallows it.
Caught(q) ==
  /\ desk[q].at \in {"ingest", "queue"} /\ run[q].at = "thrown"
  /\ Turns(q, IF desk[q].approves THEN "look" ELSE "fail")
  /\ Over(q)
  /\ UNCHANGED <<task, pulse, line, proven, reopened, faults, rows, asks>>

\* The error path of a submission looks at no state.
FailTask(q) ==
  /\ desk[q].at = "fail"
  /\ Moves(desk[q].task, OrchStates, "failed")
  /\ Turns(q, "look")
  /\ UNCHANGED <<ledger, receipt, asks>>

Executed(q) ==
  /\ desk[q].at = "queue" /\ Returned(q)
  /\ Turns(q, "look")
  /\ UNCHANGED <<ledger, rows, asks>>

-----------------------------------------------------------------------------
(* Copying the ledger's state. *)

Poll(q, t) ==
  /\ May(q, "poll") /\ orch[t].state # "absent"
  /\ Opens(q, t, "look")
  /\ UNCHANGED <<ledger, rows>>

\* The state an orchestrator row takes from its command; an absent or blocked
\* command says nothing.
CommandStates ==
  [s \in States \ {"absent", "auto_blocked"} |->
     CASE s \in {"queued", "retry", "executor_ready", "core_only"} -> "assigned"
       [] s \in {"human_gate", "degraded"} -> "blocked"
       [] s = "running"  -> "executing"
       [] s = "verified" -> "completed"
       [] s = "ignored"  -> "cancelled"
       [] s = "failed"   -> "failed"]

\* Mutation: a verified command completes its task, deployment or not.
MappedAtOnce(t) == CommandStates[task[t].state]

\* A delegated deployment is complete only with the evidence of production.
Mapped(t) ==
  LET s == CommandStates[task[t].state] IN
  IF s = "completed" /\ t \in Handoff /\ ~ orch[t].proof THEN "production_verifying" ELSE s

Look(q) ==
  LET t == desk[q].task IN
  /\ desk[q].at = "look"
  /\ IF orch[t].state \in Terminal \/ task[t].state \notin DOMAIN CommandStates
     THEN Ends(q)
     ELSE desk' = [desk EXCEPT ![q].at = "sync", ![q].seen = orch[t].state, ![q].next = Mapped(t)]
  /\ UNCHANGED <<ledger, rows, asks>>

\* Mutation: the copy is made on whatever the row has become.
SyncAnyhow(q) ==
  /\ desk[q].at = "sync"
  /\ Moves(desk[q].task, OrchStates, desk[q].next)
  /\ Ends(q)
  /\ UNCHANGED <<ledger, receipt, asks>>

\* The copy is made only if the row is still the one that was looked at.
Sync(q) ==
  LET t == desk[q].task IN
  /\ desk[q].at = "sync"
  /\ IF desk[q].next = desk[q].seen THEN UNCHANGED orch
     ELSE Moves(t, {desk[q].seen}, desk[q].next)
  /\ Ends(q)
  /\ UNCHANGED <<ledger, receipt, asks>>

-----------------------------------------------------------------------------
(* Cancelling and completing. *)

Cancel(q, t) ==
  /\ May(q, "cancel") /\ orch[t].state \in {"received", "assigned"}
  /\ Moves(t, {"received", "assigned"}, "cancelled")
  /\ Opens(q, t, "void")
  /\ UNCHANGED <<ledger, receipt>>

\* Mutation: the command is closed whatever it has become.
VoidAnyhow(q) ==
  LET t == desk[q].task IN
  /\ desk[q].at = "void"
  /\ task' = IF task[t].state # "absent"
             THEN [task EXCEPT ![t].state = "ignored", ![t].lease = "free"] ELSE task
  /\ Ends(q)
  /\ UNCHANGED <<pulse, line, run, proven, reopened, faults, rows, asks>>

\* The command follows, unless it has been claimed meanwhile.
Void(q) ==
  LET t == desk[q].task IN
  /\ desk[q].at = "void"
  /\ task' = IF task[t].state \in Waiting
             THEN [task EXCEPT ![t].state = "ignored", ![t].lease = "free"] ELSE task
  /\ Ends(q)
  /\ UNCHANGED <<pulse, line, run, proven, reopened, faults, rows, asks>>

\* The release is merged, deployed and live, and its evidence checked.
Complete(q, t) ==
  /\ May(q, "complete") /\ t \in Handoff
  /\ orch[t].state \notin Terminal \cup {"absent"}
  /\ orch' = [orch EXCEPT ![t] = [state |-> "completed", version |-> @.version + 1, proof |-> TRUE]]
  /\ Opens(q, t, "close")
  /\ UNCHANGED <<ledger, receipt>>

CloseCommand(q) ==
  LET t == desk[q].task IN
  /\ desk[q].at = "close"
  /\ task' = IF task[t].state \in Ended \cup {"absent"} THEN task
             ELSE [task EXCEPT ![t].state = "verified", ![t].lease = "free"]
  /\ Ends(q)
  /\ UNCHANGED <<pulse, line, run, proven, reopened, faults, rows, asks>>

-----------------------------------------------------------------------------
(* Approving. *)

Approve(q, t) ==
  /\ May(q, "approve")
  /\ orch[t].state = "blocked" /\ task[t].state = "human_gate"
  /\ desk' = [desk EXCEPT ![q] = [NoDesk EXCEPT !.at = "admit", !.task = t, !.approves = TRUE,
                                                 !.version = orch[t].version]]
  /\ UNCHANGED <<ledger, rows>>

Admit(q) ==
  LET t == desk[q].task IN
  /\ desk[q].at = "admit"
  /\ IF orch[t].version = desk[q].version
     THEN Moves(t, {"blocked"}, "assigned") /\ Turns(q, "receipt")
     ELSE Ends(q) /\ UNCHANGED orch
  /\ UNCHANGED <<ledger, receipt, asks>>

Record(q) ==
  /\ desk[q].at = "receipt"
  /\ \/ receipt' = receipt \cup {desk[q].task} /\ Turns(q, "resume") /\ UNCHANGED faults
     \/ Fault /\ Turns(q, "reblock") /\ UNCHANGED receipt
  /\ UNCHANGED <<task, pulse, line, run, proven, reopened, orch, asks>>

Resume(q) ==
  LET t == desk[q].task IN
  /\ desk[q].at = "resume"
  /\ IF task[t].state = "human_gate"
     THEN /\ task' = [task EXCEPT ![t].state = "queued", ![t].due = TRUE, ![t].lease = "free"]
          /\ reopened' = [reopened EXCEPT ![t] = @ + 1]
          /\ Turns(q, "apply")
     ELSE Turns(q, "reblock") /\ UNCHANGED <<task, reopened>>
  /\ UNCHANGED <<pulse, line, run, proven, faults, rows, asks>>

\* The second event; without it the command is taken back, if nobody claimed it.
Apply(q) ==
  /\ desk[q].at = "apply"
  /\ \/ Turns(q, "queue") /\ Calls(q, PassOver(desk[q].task)) /\ UNCHANGED faults
     \/ Fault /\ Turns(q, "unqueue") /\ UNCHANGED run
  /\ UNCHANGED <<task, pulse, line, proven, reopened, rows, asks>>

Unqueue(q) ==
  LET t == desk[q].task IN
  /\ desk[q].at = "unqueue"
  /\ task' = IF task[t].state = "queued"
             THEN [task EXCEPT ![t].state = "human_gate", ![t].due = TRUE, ![t].lease = "free"] ELSE task
  /\ Turns(q, "reblock")
  /\ UNCHANGED <<pulse, line, run, proven, reopened, faults, rows, asks>>

Reblock(q) ==
  /\ desk[q].at = "reblock"
  /\ Moves(desk[q].task, {"assigned"}, "blocked")
  /\ Ends(q)
  /\ UNCHANGED <<ledger, receipt, asks>>

-----------------------------------------------------------------------------
\* A request's own next statement.
DeskStep(q) ==
  \/ Assign(q) \/ Dispatch(q) \/ Caught(q) \/ FailTask(q) \/ Executed(q)
  \/ Look(q) \/ Sync(q) \/ Void(q) \/ CloseCommand(q)
  \/ Admit(q) \/ Record(q) \/ Resume(q) \/ Apply(q) \/ Unqueue(q) \/ Reblock(q)

Asked(q, t) ==
  Submit(q, t) \/ Poll(q, t) \/ Cancel(q, t) \/ Complete(q, t) \/ Approve(q, t)

\* A request dies with the ledger work it is doing.
Abandon(q) ==
  /\ desk[q].at # "idle"
  /\ Fault
  /\ Ends(q) /\ Over(q)
  /\ UNCHANGED <<task, pulse, line, proven, reopened, rows, asks>>

Kept == UNCHANGED <<rows, desk, asks>>

\* The other requests: the scheduled pass, and a pulse told by the cron or by an
\* administrator, perhaps to be run at once; of a submitted task only again.
Tell(r, t) ==
  /\ asks > 0 /\ asks' = asks - 1
  /\ t \in Orders => task[t].state # "absent"
  /\ Starts(r, Observation(t)) \/ Starts(r, Order(t))
  /\ UNCHANGED <<rows, desk>>

Others(r) ==
  \/ (Starts(r, Pass) \/ Drop(r) \/ Die(r)) /\ Kept
  \/ \E t \in Tasks : Tell(r, t)

Next ==
  \/ \E q \in Desks : DeskStep(q) \/ Abandon(q) \/ \E t \in Orders : Asked(q, t)
  \/ \E r \in Runners : (RunStep(r) \/ Throw(r)) /\ Kept
  \/ \E r \in Runners \ Desks : Others(r)
  \/ Clock /\ Kept

\* The cron runs a pass over and over and its pass goes on; leases run out and
\* retries come due.  Nothing is assumed of any other request.
Fairness ==
  /\ WF_vars((RunStep(Cron) \/ Drop(Cron)) /\ Kept)
  /\ WF_vars(Starts(Cron, Pass) /\ Kept)
  /\ \A t \in Tasks : WF_vars(Lapse(t) /\ Kept) /\ WF_vars(Ripen(t) /\ Kept)

Spec     == Init /\ [][Next]_vars
FairSpec == Spec /\ Fairness

-----------------------------------------------------------------------------
(* Properties. *)

\* GateHolds.  A task whose risk asks for a human is claimed by no pass before an
\* approval of it is on record, however approvals fail and are taken back.
GateHolds == \A t \in Orders \cap Gated : task[t].attempt > 0 => t \in receipt

\* ClosedIsProven.  Nothing is reported done that was not: the command and its
\* pulse are verified only if a consultation was, or the release was shown to be
\* in production, and a task completes with that evidence where it is a
\* deployment, with a verified consultation where it is not.
ClosedIsProven ==
  /\ \A t \in Tasks : pulse[t] = "verified" => t \in proven
  /\ \A t \in Tasks : task[t].state = "verified" => t \in proven \/ (t \in Orders /\ orch[t].proof)
  /\ \A t \in Orders : orch[t].state = "completed" => IF t \in Handoff THEN orch[t].proof ELSE t \in proven

\* FinalIsFinal.  A task that completed, failed or was cancelled stays so; only the
\* submission that made it, if it runs into an error, still overwrites it.
FinalIsFinal ==
  [][\A t \in Orders : orch[t].state \in Terminal \ {"blocked"} /\ orch'[t].state # orch[t].state =>
       \E q \in Desks : desk[q].at = "fail" /\ desk[q].task = t]_vars

\* CancelsOnlyPending.  A task is cancelled only while its command has not entered
\* execution: what the cancel_task tool says of itself.
CancelsOnlyPending ==
  [][\A q \in Desks, t \in Orders : Cancel(q, t) => task[t].state # "running"]_vars
=============================================================================
