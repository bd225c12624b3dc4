----------------------- MODULE OrchestratorTasks_proofs -----------------------
(***************************************************************************)
(* Theorems about OrchestratorTasks and the command ledger under it, for   *)
(* every set of tasks and requests and every bound.                        *)
(*                                                                         *)
(* The inductive invariant IInv says what each row may be (Good), and what *)
(* a pass (RunOK) and a request (DeskOK) may believe of the rows between   *)
(* two of their statements.  Only facts that later steps cannot undo are   *)
(* of use there: Widens lists what every step leaves standing.             *)
(***************************************************************************)
EXTENDS OrchestratorTasks, TLAPS

InLine(t) == \E i \in DOMAIN line : line[i] = t

OrchRow == [state: OrchStates, version: Nat, proof: BOOLEAN]
Desk    == [at: DeskSteps, task: Orders \cup {NoTask}, approves: BOOLEAN,
            seen: OrchStates, next: OrchStates, version: Nat]

\* A row of the ledger as it may be: with room for an attempt if it waits, proven
\* if it is verified, and untouched while its gate is closed.
Good(t, x) ==
  /\ x.lease # "free" => x.state = "running" /\ x.attempt > 0
  /\ x.attempt > 0 => x.state # "absent"
  /\ x.state # "absent" => InLine(t)
  /\ x.attempt <= MaxAttempts + reopened[t]
  /\ x.state \in Waiting => x.attempt < MaxAttempts + reopened[t]
  /\ x.state = "verified" => t \in proven \/ (t \in Orders /\ orch[t].proof)
  /\ t \in Orders \cap Gated /\ t \notin receipt =>
       x.attempt = 0 /\ x.state \in {"absent", "human_gate", "verified", "ignored"}

Bound == {"event", "insert", "gate", "claim", "read", "work", "settle", "echo"}
Held  == {"read", "work", "settle", "echo"}

\* A pass under way: it holds a task that was claimed, and a verified result of it
\* is on record.  A request of the orchestrator runs no pass over the line.
RunOK(r, x) ==
  /\ x.at \in Bound => x.task \in Tasks
  /\ x.at = "recover" /\ x.named => x.task \in Tasks
  /\ x.at \in Held => task[x.task].attempt > 0
  /\ x.at = "settle" => x.result \in Results
  /\ x.at = "echo" => x.result \in Results \cup {"retry"}
  /\ x.at \in {"settle", "echo"} /\ x.result = "verified" => x.task \in proven
  /\ r \in Desks => /\ x.at # "choose"
                    /\ x.at \in {"recover", "claim"} \cup Held => x.named

OrchOK(t, o) ==
  /\ o.proof => t \in Handoff
  /\ o.state = "completed" => IF t \in Handoff THEN o.proof ELSE t \in proven

\* A request under way: what it is about to write has its ground.
DeskOK(d) ==
  /\ d.at # "idle" => d.task \in Orders
  /\ d.at = "sync" => /\ d.seen \notin Terminal
                      /\ d.next = "completed" =>
                           IF d.task \in Handoff THEN orch[d.task].proof ELSE d.task \in proven
  /\ d.at = "resume" => d.task \in receipt
  /\ d.at = "close" => orch[d.task].proof

Linked(q) ==
  run[q].at # "idle" => desk[q].at \in {"ingest", "queue"} /\ run[q].task = desk[q].task

LedgerOK ==
  /\ task \in [Tasks -> Row] /\ pulse \in [Tasks -> States \cup {"observed"}]
  /\ line \in Seq(Tasks) /\ proven \subseteq Tasks /\ reopened \in [Tasks -> Nat] /\ faults \in Nat
  /\ \A t \in Tasks : Good(t, task[t]) /\ (pulse[t] = "verified" => t \in proven)

RunsOK  == run \in [Runners -> Run] /\ \A r \in Runners : RunOK(r, run[r])
OrchsOK == orch \in [Orders -> OrchRow] /\ receipt \subseteq Orders /\ \A t \in Orders : OrchOK(t, orch[t])
DesksOK == desk \in [Desks -> Desk] /\ asks \in Nat /\ \A q \in Desks : DeskOK(desk[q]) /\ Linked(q)

IInv == LedgerOK /\ RunsOK /\ OrchsOK /\ DesksOK

\* What every step leaves standing.
Widens ==
  /\ line' \in Seq(Tasks) /\ \A t \in Tasks : InLine(t) => InLine(t)'
  /\ proven \subseteq proven' /\ proven' \subseteq Tasks
  /\ receipt \subseteq receipt' /\ receipt' \subseteq Orders
  /\ reopened' \in [Tasks -> Nat] /\ \A t \in Tasks : reopened[t] <= reopened'[t]
  /\ task' \in [Tasks -> Row] /\ \A t \in Tasks : task[t].attempt <= task'[t].attempt
  /\ orch' \in [Orders -> OrchRow] /\ \A t \in Orders : orch[t].proof => orch'[t].proof

\* What a step may do to a row that has ended.
EndedMoves(t) ==
  task[t].state \in Ended /\ task'[t] # task[t] =>
    \E r \in Runners : run[r].at = "settle" /\ run[r].task = t /\ Late(r)

FinalMoves(t) ==
  orch[t].state \in Terminal \ {"blocked"} /\ orch'[t].state # orch[t].state =>
    \E q \in Desks : desk[q].at = "fail" /\ desk[q].task = t

Step == IInv' /\ (\A t \in Tasks : EndedMoves(t)) /\ (\A t \in Orders : FinalMoves(t))

USE LedgerAssumption, OrchestratorAssumption

-----------------------------------------------------------------------------
(* What a step leaves alone stays as it should be. *)

LEMMA SameTask ==
  ASSUME IInv, Widens, NEW t \in Tasks, task'[t] = task[t] PROVE Good(t, task[t])'
  <1>1. Good(t, task[t]) /\ task[t] \in Row /\ reopened[t] \in Nat /\ reopened'[t] \in Nat
    BY DEF IInv, LedgerOK, Widens
  <1>2. /\ InLine(t) => InLine(t)'
        /\ t \in proven => t \in proven'
        /\ t \in receipt => t \in receipt'
        /\ reopened[t] <= reopened'[t]
        /\ t \in Orders => (orch[t].proof => orch'[t].proof)
    BY DEF Widens
  <1>3. MaxAttempts \in Nat /\ task[t].attempt \in Nat
    BY <1>1 DEF Row
  <1> QED BY <1>1, <1>2, <1>3 DEF Good

LEMMA SameRun ==
  ASSUME IInv, Widens, NEW r \in Runners, run'[r] = run[r] PROVE RunOK(r, run[r])'
  <1>1. RunOK(r, run[r])
    BY DEF IInv, RunsOK
  <1>2. run[r].task \in Tasks =>
           /\ task[run[r].task].attempt > 0 => task'[run[r].task].attempt > 0
           /\ run[r].task \in proven => run[r].task \in proven'
    BY DEF Widens, IInv, LedgerOK, Row
  <1> QED BY <1>1, <1>2 DEF RunOK, Bound, Held

LEMMA SameOrch ==
  ASSUME IInv, Widens, NEW t \in Orders, orch'[t] = orch[t] PROVE OrchOK(t, orch[t])'
  BY DEF IInv, OrchsOK, OrchOK, Widens

LEMMA SameDesk ==
  ASSUME IInv, Widens, NEW q \in Desks, desk'[q] = desk[q] PROVE DeskOK(desk[q])'
  BY DEF IInv, DesksOK, DeskOK, Widens

LEMMA Assemble ==
  ASSUME IInv, Widens,
         \A t \in Tasks : task'[t] = task[t] \/ (Good(t, task[t])' /\ EndedMoves(t)),
         pulse' \in [Tasks -> States \cup {"observed"}],
         \A t \in Tasks : pulse'[t] = pulse[t] \/ (pulse'[t] = "verified" => t \in proven'),
         run' \in [Runners -> Run], \A r \in Runners : run'[r] = run[r] \/ RunOK(r, run[r])',
         \A t \in Orders : orch'[t] = orch[t] \/ (OrchOK(t, orch[t])' /\ FinalMoves(t)),
         desk' \in [Desks -> Desk], \A q \in Desks : desk'[q] = desk[q] \/ DeskOK(desk[q])',
         \A q \in Desks : (run'[q] = run[q] /\ desk'[q] = desk[q]) \/ Linked(q)',
         faults' \in Nat, asks' \in Nat
  PROVE  Step
  <1>1. LedgerOK'
    <2>1. ASSUME NEW t \in Tasks PROVE Good(t, task[t])' /\ (pulse'[t] = "verified" => t \in proven')
      BY SameTask DEF IInv, LedgerOK, Widens
    <2> QED BY <2>1 DEF LedgerOK, Widens
  <1>2. RunsOK'
    BY SameRun DEF RunsOK
  <1>3. OrchsOK'
    BY SameOrch DEF OrchsOK, Widens
  <1>4. DesksOK'
    <2>1. ASSUME NEW q \in Desks PROVE Linked(q)'
      BY DEF IInv, DesksOK, Linked
    <2> QED BY <2>1, SameDesk DEF DesksOK
  <1>5. (\A t \in Tasks : EndedMoves(t)) /\ (\A t \in Orders : FinalMoves(t))
    BY DEF EndedMoves, FinalMoves
  <1> QED BY <1>1, <1>2, <1>3, <1>4, <1>5 DEF Step, IInv

\* Nothing is written but the processes' own memory.
LEMMA Narrow ==
  ASSUME IInv, UNCHANGED <<task, line, proven, reopened, orch, receipt>> PROVE Widens
  BY DEF IInv, LedgerOK, OrchsOK, Widens, InLine, Row

LEMMA FaultOK == ASSUME IInv, Fault \/ UNCHANGED faults PROVE faults' \in Nat
  BY DEF IInv, LedgerOK, Fault

-----------------------------------------------------------------------------
(* A pass moves on. *)

\* The run of r becomes x; the request it belongs to waits for the same task.
LEMMA ByRun ==
  ASSUME IInv, Widens, NEW r \in Runners, NEW x \in Run, run' = [run EXCEPT ![r] = x],
         RunOK(r, x)', run[r].at # "idle", x.at = "idle" \/ x.task = run[r].task \/ r \notin Desks,
         \A t \in Tasks : task'[t] = task[t] \/ (Good(t, task[t])' /\ EndedMoves(t)),
         pulse' \in [Tasks -> States \cup {"observed"}],
         \A t \in Tasks : pulse'[t] = pulse[t] \/ (pulse'[t] = "verified" => t \in proven'),
         UNCHANGED <<orch, receipt, desk, asks>>, faults' \in Nat
  PROVE  Step
  <1>1. run' \in [Runners -> Run] /\ run'[r] = x /\ \A u \in Runners \ {r} : run'[u] = run[u]
    BY DEF IInv, RunsOK
  <1>2. \A u \in Runners : run'[u] = run[u] \/ RunOK(u, run[u])'
    BY <1>1
  <1>3. ASSUME NEW q \in Desks PROVE (run'[q] = run[q] /\ desk'[q] = desk[q]) \/ Linked(q)'
    BY <1>1 DEF IInv, DesksOK, Linked
  <1> QED BY <1>1, <1>2, <1>3, Assemble DEF IInv, OrchsOK, DesksOK

LEMMA GoesOK ==
  ASSUME IInv, NEW r \in Runners, NEW s \in Steps, Goes(r, s)
  PROVE  \E x \in Run : /\ run' = [run EXCEPT ![r] = x] /\ x.at = s /\ x.task = run[r].task
                        /\ x.named = run[r].named /\ x.attempt = run[r].attempt /\ x.result = run[r].result
  <1> DEFINE x == [run[r] EXCEPT !.at = s]
  <1>1. run[r] \in Run
    BY DEF IInv, RunsOK
  <1>2. /\ x \in Run /\ x.at = s /\ x.task = run[r].task
        /\ x.named = run[r].named /\ x.attempt = run[r].attempt /\ x.result = run[r].result
    BY <1>1 DEF Run
  <1>3. run' = [run EXCEPT ![r] = x]
    BY DEF Goes
  <1> HIDE DEF x
  <1> QED BY <1>2, <1>3

LEMMA OverOK ==
  ASSUME IInv, NEW r \in Runners, Over(r)
  PROVE  \E x \in Run : run' = [run EXCEPT ![r] = x] /\ x = NoRun /\ x.at = "idle"
  <1>1. NoRun \in Run /\ NoRun.at = "idle"
    BY DEF NoRun, Run, Steps
  <1> QED BY <1>1 DEF Over

\* A run that is over, or that was refused, believes nothing.
LEMMA Rests == ASSUME NEW r, NEW x \in Run, x.at \in {"idle", "thrown"} PROVE RunOK(r, x)'
  BY DEF RunOK, Bound, Held

\* A step of a pass that writes no row.
LEMMA Quietly ==
  ASSUME IInv, NEW r \in Runners, NEW x \in Run, run' = [run EXCEPT ![r] = x],
         run[r].at # "idle", x.at = "idle" \/ x.task = run[r].task \/ r \notin Desks,
         UNCHANGED <<task, pulse, line, proven, reopened>>, Fault \/ UNCHANGED faults, Kept,
         RunOK(r, x)
  PROVE  Step
  <1>1. Widens
    BY Narrow DEF Kept, rows
  <1>2. RunOK(r, x)'
    BY DEF RunOK
  <1>3. pulse' \in [Tasks -> States \cup {"observed"}]
    BY DEF IInv, LedgerOK
  <1> QED BY <1>1, <1>2, <1>3, ByRun, FaultOK DEF Kept, rows

LEMMA InsertEventStep == ASSUME IInv, NEW r \in Runners, InsertEvent(r), Kept PROVE Step
  <1>1. PICK x \in Run : run' = [run EXCEPT ![r] = x] /\ x.at = "insert" /\ x.task = run[r].task
    BY GoesOK DEF InsertEvent, Steps
  <1>2. RunOK(r, run[r]) /\ run[r].at = "event"
    BY DEF IInv, RunsOK, InsertEvent
  <1>3. RunOK(r, x)'
    BY <1>1, <1>2 DEF RunOK, Bound, Held
  <1>4. Widens
    BY Narrow DEF InsertEvent, Kept, rows
  <1>5. /\ pulse' \in [Tasks -> States \cup {"observed"}]
        /\ \A t \in Tasks : pulse'[t] = pulse[t] \/ (pulse'[t] = "verified" => t \in proven')
    BY DEF InsertEvent, IInv, LedgerOK
  <1> QED BY <1>1, <1>2, <1>3, <1>4, <1>5, ByRun DEF InsertEvent, Kept, rows, IInv, LedgerOK

\* The ingestion hands its task on to a pass, or ends.
LEMMA IngestedOK ==
  ASSUME IInv, NEW r \in Runners, Ingested(r), run[r].at \in {"insert", "gate"}
  PROVE  \E x \in Run : /\ run' = [run EXCEPT ![r] = x]
                        /\ x.at = "idle" \/ (x.at = "recover" /\ x.task = run[r].task /\ x.named)
                        /\ RunOK(r, x)'
  <1>1. RunOK(r, run[r])
    BY DEF IInv, RunsOK
  <1>2. CASE run[r].named
    <2>1. PICK x \in Run : /\ run' = [run EXCEPT ![r] = x] /\ x.at = "recover"
                           /\ x.task = run[r].task /\ x.named = run[r].named
      BY <1>2, GoesOK, ZenonT(60) DEF Ingested, Steps
    <2> QED BY <1>1, <1>2, <2>1 DEF RunOK, Bound, Held
  <1>3. CASE ~ run[r].named
    BY <1>3, OverOK, Rests DEF Ingested
  <1> QED BY <1>2, <1>3

LEMMA InsertTaskStep == ASSUME IInv, NEW r \in Runners, InsertTask(r), Kept PROVE Step
  <1>1. run[r].at = "insert" /\ RunOK(r, run[r])
    BY DEF InsertTask, IInv, RunsOK
  <1>2. PICK t \in Tasks : t = run[r].task
    BY <1>1 DEF RunOK, Bound
  <1>3. PICK x \in Run : /\ run' = [run EXCEPT ![r] = x]
                         /\ x.at = "idle" \/ x.task = run[r].task
                         /\ RunOK(r, x)'
    <2>1. CASE run[r].task \in Gated
      <3>1. PICK x \in Run : run' = [run EXCEPT ![r] = x] /\ x.at = "gate" /\ x.task = run[r].task
        BY <2>1, GoesOK DEF InsertTask, Steps
      <3> QED BY <3>1, <1>2 DEF RunOK, Bound, Held
    <2>2. CASE run[r].task \notin Gated
      BY <1>1, <2>2, IngestedOK DEF InsertTask
    <2> QED BY <2>1, <2>2
  <1>4. Widens /\ \A u \in Tasks : task'[u] = task[u] \/ (Good(u, task[u])' /\ EndedMoves(u))
    <2>1. CASE task[t].state # "absent"
      <3>1. Widens
        BY <1>2, <2>1, Narrow DEF InsertTask, Kept, rows
      <3> QED BY <1>2, <2>1, <3>1 DEF InsertTask
    <2>2. CASE task[t].state = "absent"
      <3> DEFINE y == [state |-> Admitted(t), attempt |-> 0, due |-> TRUE, lease |-> "free"]
      <3>1. y \in Row /\ y.state = Admitted(t) /\ y.attempt = 0 /\ y.lease = "free"
        BY DEF Row, States, Results, Admitted
      <3>2. task' = [task EXCEPT ![t] = y] /\ line' = Append(line, t)
        BY <1>2, <2>2 DEF InsertTask
      <3> HIDE DEF y
      <3>3. task' \in [Tasks -> Row] /\ task'[t] = y /\ \A u \in Tasks \ {t} : task'[u] = task[u]
        BY <3>1, <3>2 DEF IInv, LedgerOK
      <3>4. /\ line' \in Seq(Tasks) /\ InLine(t)' /\ \A u \in Tasks : InLine(u) => InLine(u)'
        <4>1. line \in Seq(Tasks)
          BY DEF IInv, LedgerOK
        <4>2. /\ line' \in Seq(Tasks) /\ DOMAIN line \subseteq DOMAIN line'
              /\ \A i \in DOMAIN line : line'[i] = line[i]
              /\ Len(line) + 1 \in DOMAIN line' /\ line'[Len(line) + 1] = t
          BY <3>2, <4>1
        <4> QED BY <4>2 DEF InLine
      <3>5. task[t].attempt = 0
        BY <2>2 DEF IInv, LedgerOK, Good, Row
      <3>6. Widens
        BY <3>1, <3>3, <3>4, <3>5, SMTT(30) DEF Widens, InsertTask, Kept, rows, IInv, LedgerOK, OrchsOK, Row
      <3>7. Good(t, y)'
        BY <3>1, <3>4, <3>6 DEF Good, Widens, Admitted, Waiting
      <3> QED BY <2>2, <3>3, <3>6, <3>7 DEF EndedMoves, Ended
    <2> QED BY <2>1, <2>2
  <1>5. pulse' \in [Tasks -> States \cup {"observed"}] /\ UNCHANGED pulse
    BY DEF InsertTask, IInv, LedgerOK
  <1> QED BY <1>1, <1>3, <1>4, <1>5, ByRun DEF InsertTask, Kept, rows, IInv, LedgerOK

LEMMA GateEventStep == ASSUME IInv, NEW r \in Runners, GateEvent(r), Kept PROVE Step
  <1>1. run[r].at = "gate" /\ RunOK(r, run[r])
    BY DEF GateEvent, IInv, RunsOK
  <1>2. PICK x \in Run : /\ run' = [run EXCEPT ![r] = x]
                         /\ x.at = "idle" \/ x.task = run[r].task
                         /\ RunOK(r, x)'
    BY <1>1, IngestedOK DEF GateEvent
  <1>3. Widens
    BY Narrow DEF GateEvent, Kept, rows
  <1>4. /\ pulse' \in [Tasks -> States \cup {"observed"}]
        /\ \A t \in Tasks : pulse'[t] = pulse[t] \/ (pulse'[t] = "verified" => t \in proven')
    BY DEF GateEvent, IInv, LedgerOK, States, Results
  <1> QED BY <1>1, <1>2, <1>3, <1>4, ByRun DEF GateEvent, Kept, rows, IInv, LedgerOK

\* A lease that has run out is given back with room for an attempt, or is the last.
LEMMA RecoveredOK ==
  ASSUME IInv, NEW t \in Tasks, Recovered(t) # task[t]
  PROVE  LET y == Recovered(t) IN
         /\ y \in Row /\ y.attempt = task[t].attempt /\ y.lease = "free"
         /\ task[t].state \in {"running", "core_only"}
         /\ y.state \in {"executor_ready", "failed"} \/ (y.state = "retry" /\ y.attempt < MaxAttempts)
         /\ t \in Orders \cap Gated => t \in receipt
  <1>1. Good(t, task[t]) /\ task[t] \in Row
    BY DEF IInv, LedgerOK
  <1>2. task[t].lease = "lapsed" => task[t].state = "running" /\ task[t].attempt > 0
    BY <1>1 DEF Good
  <1>3. task[t].state = "core_only" => task[t].lease = "free"
    BY <1>1 DEF Good, Row
  <1>4. CASE task[t].state = "core_only" /\ t \in Handoff
    <2>1. Recovered(t) = [task[t] EXCEPT !.state = "executor_ready"]
      BY <1>3, <1>4 DEF Recovered
    <2> QED BY <1>1, <1>3, <1>4, <2>1 DEF Good, Row, States, Results
  <1>5. CASE task[t].lease = "lapsed" /\ task[t].attempt >= MaxAttempts
    <2>1. Recovered(t) = [task[t] EXCEPT !.state = "failed", !.lease = "free"]
      BY <1>1, <1>2, <1>5 DEF Recovered, Row
    <2> QED BY <1>1, <1>2, <1>5, <2>1 DEF Good, Row, States, Results
  <1>6. CASE task[t].lease = "lapsed" /\ task[t].attempt < MaxAttempts
    <2>1. Recovered(t) = [task[t] EXCEPT !.state = "retry", !.lease = "free", !.due = TRUE]
      BY <1>2, <1>6 DEF Recovered, Row
    <2> QED BY <1>1, <1>2, <1>6, <2>1 DEF Good, Row, States, Results
  <1> QED BY <1>1, <1>4, <1>5, <1>6 DEF Recovered, Row

LEMMA RecoverStep == ASSUME IInv, NEW r \in Runners, Recover(r), Kept PROVE Step
  <1>1. run[r].at = "recover" /\ RunOK(r, run[r])
    BY DEF Recover, IInv, RunsOK
  <1>2. PICK x \in Run : /\ run' = [run EXCEPT ![r] = x] /\ x.task = run[r].task /\ x.named = run[r].named
                         /\ x.at = IF run[r].named THEN "claim" ELSE "choose"
    BY GoesOK DEF Recover, Steps
  <1>3. RunOK(r, x)'
    BY <1>1, <1>2 DEF RunOK, Bound, Held
  <1>4. /\ task' \in [Tasks -> Row]
        /\ \A t \in Tasks : task'[t] = Recovered(t) /\ task'[t].attempt = task[t].attempt
    BY RecoveredOK DEF Recover, IInv, LedgerOK
  <1>5. Widens
    BY <1>4 DEF Widens, Recover, Kept, rows, IInv, LedgerOK, OrchsOK, InLine, Row
  <1>6. ASSUME NEW t \in Tasks, task'[t] # task[t] PROVE Good(t, task[t])' /\ EndedMoves(t)
    <2> PICK y \in Row : y = task'[t]
      BY <1>4
    <2>1. /\ y.attempt = task[t].attempt /\ y.lease = "free"
          /\ task[t].state \in {"running", "core_only"}
          /\ y.state \in {"executor_ready", "failed"} \/ (y.state = "retry" /\ y.attempt < MaxAttempts)
          /\ t \in Orders \cap Gated => t \in receipt
      BY <1>4, <1>6, RecoveredOK
    <2>2. Good(t, task[t]) /\ reopened[t] \in Nat /\ y.attempt \in Nat
      BY DEF IInv, LedgerOK, Row
    <2>3. y.attempt <= MaxAttempts + reopened[t] /\ InLine(t)' /\ (t \in receipt => t \in receipt')
      BY <2>1, <2>2, <1>5 DEF Good, Widens
    <2>4. Good(t, y)'
      BY <2>1, <2>2, <2>3 DEF Good, Waiting, Recover
    <2> QED BY <2>1, <2>4 DEF EndedMoves, Ended
  <1>7. pulse' \in [Tasks -> States \cup {"observed"}] /\ UNCHANGED pulse
    BY DEF Recover, IInv, LedgerOK
  <1> QED BY <1>1, <1>2, <1>3, <1>5, <1>6, <1>7, ByRun DEF Recover, Kept, rows, IInv, LedgerOK

LEMMA ChooseStep == ASSUME IInv, NEW r \in Runners, Choose(r), Kept PROVE Step
  <1>1. run[r].at = "choose" /\ RunOK(r, run[r]) /\ run[r] \in Run
    BY DEF Choose, IInv, RunsOK
  <1>2. r \notin Desks
    BY <1>1 DEF RunOK
  <1>3. CASE Over(r)
    BY <1>1, <1>3, OverOK, Rests, Quietly DEF Choose, RunOK, Bound, Held
  <1>4. ASSUME NEW i \in DOMAIN line, run' = [run EXCEPT ![r].at = "claim", ![r].task = line[i]]
        PROVE  Step
    <2>1. line[i] \in Tasks
      BY DEF IInv, LedgerOK
    <2> DEFINE x == [run[r] EXCEPT !.at = "claim", !.task = line[i]]
    <2>2. x \in Run /\ x.at = "claim" /\ x.task = line[i]
      BY <1>1, <2>1 DEF Run, Steps
    <2>3. run' = [run EXCEPT ![r] = x]
      BY <1>4
    <2> HIDE DEF x
    <2>4. RunOK(r, x)
      BY <1>2, <2>1, <2>2 DEF RunOK, Bound, Held
    <2> QED BY <1>1, <1>2, <2>2, <2>3, <2>4, Quietly DEF Choose
  <1> QED BY <1>3, <1>4 DEF Choose

\* A row that waits has room for the attempt, and its gate is open.
LEMMA ClaimStep == ASSUME IInv, NEW r \in Runners, Claim(r), Kept PROVE Step
  <1>1. run[r].at = "claim" /\ RunOK(r, run[r])
    BY DEF Claim, IInv, RunsOK
  <1>2. PICK t \in Tasks : t = run[r].task
    BY <1>1 DEF RunOK, Bound
  <1>3. CASE ~ Claimable(r, t)
    <2>1. Over(r) /\ UNCHANGED task
      BY <1>2, <1>3 DEF Claim
    <2>2. PICK x \in Run : run' = [run EXCEPT ![r] = x] /\ x.at = "idle"
      BY <2>1, OverOK
    <2> QED BY <1>1, <2>1, <2>2, Quietly DEF Claim, RunOK, Bound, Held
  <1>4. CASE Claimable(r, t)
    <2>1. /\ Goes(r, "read")
          /\ task' = [task EXCEPT ![t].state = "running", ![t].attempt = @ + 1, ![t].lease = "held"]
      BY <1>2, <1>4 DEF Claim
    <2>2. PICK x \in Run : /\ run' = [run EXCEPT ![r] = x] /\ x.at = "read" /\ x.task = t
                           /\ x.named = run[r].named
      BY <1>2, <2>1, GoesOK DEF Steps
    <2>3. task[t] \in Row /\ Good(t, task[t]) /\ reopened[t] \in Nat
      BY DEF IInv, LedgerOK
    <2> DEFINE claimed == [task[t] EXCEPT !.state = "running", !.attempt = task[t].attempt + 1, !.lease = "held"]
    <2>4. /\ claimed \in Row /\ claimed.state = "running" /\ claimed.lease = "held"
          /\ claimed.attempt = task[t].attempt + 1
      <3>1. task[t].attempt + 1 \in Nat /\ "running" \in States
        BY <2>3 DEF Row, States
      <3> QED BY <2>3, <3>1 DEF Row
    <2>5. task' = [task EXCEPT ![t] = claimed]
      BY <2>1, <2>3 DEF IInv, LedgerOK, Row
    <2> HIDE DEF claimed
    <2>6. PICK y \in Row : /\ y = claimed /\ y.state = "running" /\ y.lease = "held"
                           /\ y.attempt = task[t].attempt + 1
      BY <2>4
    <2>7. task' \in [Tasks -> Row] /\ task'[t] = y /\ \A u \in Tasks \ {t} : task'[u] = task[u]
      BY <2>6, <2>5 DEF IInv, LedgerOK
    <2>8. task[t].attempt \in Nat /\ \A u \in Tasks : task[u].attempt \in Nat
      BY DEF IInv, LedgerOK, Row
    <2>9. Widens
      <3>1. \A u \in Tasks : task[u].attempt <= task'[u].attempt
        BY <2>6, <2>7, <2>8
      <3>2. UNCHANGED <<line, proven, reopened, orch, receipt>>
        BY DEF Claim, Kept, rows
      <3> QED BY <2>7, <3>1, <3>2 DEF Widens, IInv, LedgerOK, OrchsOK, InLine
    <2>10. y.attempt <= MaxAttempts + reopened[t] /\ y.attempt > 0 /\ task[t].state \in Waiting
      BY <1>4, <2>3, <2>6, <2>8 DEF Good, Claimable
    <2>11. InLine(t)' /\ (t \in Orders \cap Gated => t \in receipt')
      BY <2>3, <2>9, <2>10 DEF Good, Widens, Waiting
    <2>12. Good(t, y)'
      <3>1. UNCHANGED reopened /\ "running" \notin Waiting
        BY DEF Claim, Waiting
      <3> QED BY <2>6, <2>10, <2>11, <3>1 DEF Good
    <2>13. EndedMoves(t)
      BY <2>10 DEF EndedMoves, Waiting, Ended
    <2>14. RunOK(r, x)'
      BY <1>1, <2>2, <2>7, <2>10 DEF RunOK, Bound, Held
    <2>15. pulse' \in [Tasks -> States \cup {"observed"}] /\ UNCHANGED pulse
      BY DEF Claim, IInv, LedgerOK
    <2> QED BY <1>1, <1>2, <2>2, <2>7, <2>9, <2>12, <2>13, <2>14, <2>15, ByRun, ZenonT(60)
        DEF Claim, Kept, rows, IInv, LedgerOK
  <1> QED BY <1>3, <1>4

LEMMA ReadClaimStep == ASSUME IInv, NEW r \in Runners, ReadClaim(r), Kept PROVE Step
  <1>1. run[r].at = "read" /\ RunOK(r, run[r]) /\ run[r] \in Run
    BY DEF ReadClaim, IInv, RunsOK
  <1>2. run[r].task \in Tasks /\ task[run[r].task].attempt \in Nat
    BY <1>1 DEF RunOK, Bound, IInv, LedgerOK, Row
  <1> DEFINE reads == [run[r] EXCEPT !.at = "work", !.attempt = task[run[r].task].attempt]
  <1>3. reads \in Run /\ reads.at = "work" /\ reads.task = run[r].task /\ reads.named = run[r].named
    BY <1>1, <1>2 DEF Run, Steps
  <1>4. run' = [run EXCEPT ![r] = reads]
    BY DEF ReadClaim
  <1> HIDE DEF reads
  <1>5. PICK x \in Run : x = reads /\ x.at = "work" /\ x.task = run[r].task /\ x.named = run[r].named
    BY <1>3
  <1>6. RunOK(r, x)
    BY <1>1, <1>5 DEF RunOK, Bound, Held
  <1> QED BY <1>1, <1>4, <1>5, <1>6, Quietly DEF ReadClaim

LEMMA OutcomesAreResults == \A t : Outcomes(t) \subseteq Results
  BY DEF Outcomes, Results

LEMMA WorkStep == ASSUME IInv, NEW r \in Runners, Work(r), Kept PROVE Step
  <1>1. run[r].at = "work" /\ RunOK(r, run[r]) /\ run[r] \in Run
    BY DEF Work, IInv, RunsOK
  <1>2. PICK o \in Results :
          /\ run' = [run EXCEPT ![r].at = "settle", ![r].result = o]
          /\ proven' = IF o = "verified" THEN proven \cup {run[r].task} ELSE proven
    BY OutcomesAreResults DEF Work
  <1> DEFINE worked == [run[r] EXCEPT !.at = "settle", !.result = o]
  <1>3. /\ worked \in Run /\ worked.at = "settle" /\ worked.task = run[r].task
        /\ worked.named = run[r].named /\ worked.result = o
    BY <1>1, <1>2 DEF Run, Steps
  <1>4. run' = [run EXCEPT ![r] = worked]
    BY <1>2
  <1> HIDE DEF worked
  <1>5. PICK x \in Run : /\ x = worked /\ x.at = "settle" /\ x.task = run[r].task
                         /\ x.named = run[r].named /\ x.result = o
    BY <1>3
  <1>6. run[r].task \in Tasks
    BY <1>1 DEF RunOK, Bound
  <1>7. RunOK(r, x)'
    BY <1>1, <1>2, <1>5 DEF RunOK, Bound, Held, Work
  <1>8. Widens
    BY <1>2, <1>6 DEF Widens, Work, Kept, rows, IInv, LedgerOK, OrchsOK, InLine, Row
  <1>9. pulse' \in [Tasks -> States \cup {"observed"}] /\ UNCHANGED <<pulse, task>>
    BY DEF Work, IInv, LedgerOK
  <1> QED BY <1>1, <1>4, <1>5, <1>7, <1>8, <1>9, ByRun DEF Work, Kept, rows, IInv, LedgerOK

LEMMA VerdictOK ==
  ASSUME IInv, NEW r \in Runners, run[r].at = "settle"
  PROVE  /\ Verdict(r) \in Results \cup {"retry"}
         /\ Verdict(r) = "retry" => run[r].attempt < MaxAttempts
         /\ Verdict(r) = "verified" => run[r].task \in proven
  <1>1. run[r].result \in Results /\ (run[r].result = "verified" => run[r].task \in proven)
    BY DEF IInv, RunsOK, RunOK
  <1> QED BY <1>1 DEF Verdict, Results

\* A late result that asks for another attempt is allowed one; a run that is not late
\* knows the attempt it settles.
LEMMA SettleStep == ASSUME IInv, NEW r \in Runners, Settle(r), Kept PROVE Step
  <1>1. run[r].at = "settle" /\ RunOK(r, run[r]) /\ run[r] \in Run
    BY DEF Settle, IInv, RunsOK
  <1>2. PICK t \in Tasks : t = run[r].task
    BY <1>1 DEF RunOK, Bound
  <1>3. PICK v \in Results \cup {"retry"} :
          /\ v = Verdict(r)
          /\ v = "retry" => run[r].attempt < MaxAttempts
          /\ v = "verified" => t \in proven
    BY <1>1, <1>2, VerdictOK
  <1>4. task[t] \in Row /\ Good(t, task[t]) /\ reopened[t] \in Nat /\ task[t].attempt > 0
    BY <1>1, <1>2 DEF IInv, LedgerOK, RunOK, Held
  <1>5. PICK y \in Row :
          /\ task' = [task EXCEPT ![t] = y]
          /\ y.state = v /\ y.attempt = task[t].attempt /\ y.lease = "free"
    <2> DEFINE settled == [task[t] EXCEPT !.state = v, !.due = v # "retry", !.lease = "free"]
    <2>1. /\ settled \in Row /\ settled.state = v /\ settled.attempt = task[t].attempt
          /\ settled.lease = "free"
      BY <1>3, <1>4 DEF Row, States
    <2>2. task' = [task EXCEPT ![t] = settled]
      BY <1>2, <1>3 DEF Settle
    <2> HIDE DEF settled
    <2> QED BY <2>1, <2>2
  <1>6. task' \in [Tasks -> Row] /\ task'[t] = y /\ \A u \in Tasks \ {t} : task'[u] = task[u]
    BY <1>5 DEF IInv, LedgerOK
  <1>7. /\ reopened' \in [Tasks -> Nat] /\ \A u \in Tasks : reopened[u] <= reopened'[u]
        /\ Late(r) /\ v = "retry" => reopened'[t] = reopened[t] + 1
    <2>1. CASE Late(r) /\ v = "retry"
      <3>1. reopened' = [reopened EXCEPT ![t] = reopened[t] + 1]
        BY <1>2, <1>3, <2>1 DEF Settle
      <3> QED BY <3>1 DEF IInv, LedgerOK
    <2>2. CASE ~ (Late(r) /\ v = "retry")
      <3>1. reopened' = reopened
        BY <1>3, <2>2 DEF Settle
      <3> QED BY <2>2, <3>1 DEF IInv, LedgerOK
    <2> QED BY <2>1, <2>2
  <1>8. Widens
    <2>1. \A u \in Tasks : task[u].attempt <= task'[u].attempt
      BY <1>5, <1>6 DEF IInv, LedgerOK, Row
    <2>2. UNCHANGED <<line, proven, orch, receipt>>
      BY DEF Settle, Kept, rows
    <2> QED BY <1>6, <1>7, <2>1, <2>2 DEF Widens, IInv, LedgerOK, OrchsOK, InLine
  <1>9. Good(t, y)'
    <2>1. MaxAttempts \in Nat /\ reopened[t] \in Nat /\ reopened'[t] \in Nat /\ y.attempt \in Nat
      BY <1>4, <1>7 DEF Row
    <2>2. y.attempt <= MaxAttempts + reopened'[t]
      BY <1>4, <1>5, <1>7, <2>1 DEF Good
    <2>3. v = "retry" => y.attempt < MaxAttempts + reopened'[t]
      <3>1. CASE Late(r)
        BY <1>4, <1>5, <1>7, <2>1, <3>1 DEF Good
      <3>2. CASE ~ Late(r)
        <4>1. y.attempt = run[r].attempt
          BY <1>2, <1>5, <3>2 DEF Late
        <4> QED BY <1>3, <2>1, <4>1
      <3> QED BY <3>1, <3>2
    <2>4. v # "absent" /\ (v \in Waiting => v = "retry")
      BY DEF Results, Waiting
    <2>5. InLine(t)' /\ (t \in Orders \cap Gated => t \in receipt') /\ (v = "verified" => t \in proven')
      BY <1>3, <1>4, <1>8 DEF Good, Widens
    <2> QED BY <1>5, <2>2, <2>3, <2>4, <2>5 DEF Good
  <1>10. EndedMoves(t)
    BY <1>1, <1>2 DEF EndedMoves, Late, Ended
  <1>11. PICK x \in Run :
           /\ run' = [run EXCEPT ![r] = x] /\ x.at = "echo" /\ x.task = t /\ x.named = run[r].named
           /\ x.result = v
    <2> DEFINE told == [run[r] EXCEPT !.at = "echo", !.result = v]
    <2>1. /\ told \in Run /\ told.at = "echo" /\ told.task = t /\ told.named = run[r].named
          /\ told.result = v
      BY <1>1, <1>2, <1>3 DEF Run, Steps
    <2>2. run' = [run EXCEPT ![r] = told]
      BY <1>3 DEF Settle
    <2> HIDE DEF told
    <2> QED BY <2>1, <2>2
  <1>12. RunOK(r, x)'
    <2>1. task'[t].attempt > 0 /\ (v = "verified" => t \in proven')
      BY <1>3, <1>4, <1>5, <1>6, <1>8 DEF Widens
    <2> QED BY <1>1, <1>11, <2>1 DEF RunOK, Bound, Held
  <1>13. pulse' \in [Tasks -> States \cup {"observed"}] /\ UNCHANGED pulse
    BY DEF Settle, IInv, LedgerOK
  <1>14. \A u \in Tasks : task'[u] = task[u] \/ (Good(u, task[u])' /\ EndedMoves(u))
    BY <1>6, <1>9, <1>10
  <1>15. UNCHANGED <<orch, receipt, desk, asks>> /\ faults' \in Nat
    BY DEF Settle, Kept, rows, IInv, LedgerOK
  <1> QED BY <1>1, <1>2, <1>8, <1>11, <1>12, <1>13, <1>14, <1>15, ByRun

LEMMA EchoStep == ASSUME IInv, NEW r \in Runners, Echo(r), Kept PROVE Step
  <1>1. run[r].at = "echo" /\ RunOK(r, run[r])
    BY DEF Echo, IInv, RunsOK
  <1>2. PICK x \in Run : /\ run' = [run EXCEPT ![r] = x] /\ RunOK(r, x)'
                         /\ x.at = "idle" \/ r \notin Desks
    <2>1. CASE Over(r)
      BY <2>1, OverOK, Rests
    <2>2. CASE ~ run[r].named /\ run' = [run EXCEPT ![r] = Pass]
      <3>1. r \notin Desks
        BY <1>1, <2>2 DEF RunOK, Held
      <3>2. Pass \in Run /\ Pass.at = "recover" /\ ~ Pass.named
        BY DEF Pass, NoRun, Run, Steps
      <3>3. PICK x \in Run : x = Pass /\ x.at = "recover" /\ ~ x.named
        BY <3>2
      <3> QED BY <2>2, <3>1, <3>3 DEF RunOK, Bound, Held
    <2> QED BY <2>1, <2>2 DEF Echo
  <1>3. Widens
    BY Narrow DEF Echo, Kept, rows
  <1>4. /\ pulse' \in [Tasks -> States \cup {"observed"}]
        /\ \A t \in Tasks : pulse'[t] = pulse[t] \/ (pulse'[t] = "verified" => t \in proven')
    BY <1>1 DEF Echo, IInv, LedgerOK, RunOK, Bound, States
  <1>5. UNCHANGED task /\ faults' \in Nat
    BY DEF Echo, IInv, LedgerOK
  <1> QED BY <1>1, <1>2, <1>3, <1>4, <1>5, ByRun DEF Kept, rows

\* A process that ends or fails believes nothing more.
LEMMA FailStep ==
  ASSUME IInv, NEW r \in Runners, Throw(r) \/ Die(r) \/ Drop(r), Kept PROVE Step
  <1>1. PICK x \in Run : /\ run' = [run EXCEPT ![r] = x] /\ x.at \in {"idle", "thrown"}
                         /\ x.at = "idle" \/ x.task = run[r].task
    BY GoesOK, OverOK DEF Throw, Die, Drop, Steps
  <1>2. RunOK(r, x)
    BY <1>1 DEF RunOK, Bound, Held
  <1> QED BY <1>1, <1>2, Quietly DEF Throw, Die, Drop

\* A request outside the orchestrator starts.
LEMMA Started ==
  ASSUME IInv, NEW r \in Runners \ Desks, NEW x \in Run, Starts(r, x), RunOK(r, x),
         UNCHANGED <<orch, receipt, desk>>, asks' \in Nat
  PROVE  Step
  <1>1. run' = [run EXCEPT ![r] = x] /\ UNCHANGED <<task, pulse, line, proven, reopened, faults>>
    BY DEF Starts
  <1>2. run' \in [Runners -> Run] /\ run'[r] = x /\ \A u \in Runners \ {r} : run'[u] = run[u]
    BY <1>1 DEF IInv, RunsOK
  <1>3. Widens
    BY <1>1, Narrow
  <1>4. RunOK(r, x)'
    BY <1>1 DEF RunOK
  <1>5. /\ pulse' \in [Tasks -> States \cup {"observed"}] /\ faults' \in Nat
        /\ desk' \in [Desks -> Desk]
    BY <1>1 DEF IInv, LedgerOK, DesksOK
  <1> QED BY <1>1, <1>2, <1>3, <1>4, <1>5, Assemble

LEMMA OthersStep == ASSUME IInv, NEW r \in Runners \ Desks, Others(r) PROVE Step
  <1>1. CASE (Drop(r) \/ Die(r)) /\ Kept
    BY <1>1, FailStep
  <1>2. CASE Starts(r, Pass) /\ Kept
    <2>1. Pass \in Run /\ Pass.at = "recover" /\ ~ Pass.named
      BY DEF Pass, NoRun, Run, Steps
    <2>2. PICK x \in Run : x = Pass /\ x.at = "recover" /\ ~ x.named
      BY <2>1
    <2>3. RunOK(r, x)
      BY <2>2 DEF RunOK, Bound, Held
    <2> QED BY <1>2, <2>2, <2>3, Started DEF Kept, rows, IInv, DesksOK
  <1>3. ASSUME NEW t \in Tasks, Tell(r, t) PROVE Step
    <2>1. /\ Observation(t) \in Run /\ Observation(t).at = "event" /\ Observation(t).task = t
          /\ Order(t) \in Run /\ Order(t).at = "event" /\ Order(t).task = t
      BY DEF Observation, Order, NoRun, Run, Steps
    <2>2. PICK x \in Run : Starts(r, x) /\ x.at = "event" /\ x.task = t
      BY <1>3, <2>1 DEF Tell
    <2>3. RunOK(r, x)
      BY <2>2 DEF RunOK, Bound, Held
    <2>4. asks' \in Nat
      BY <1>3 DEF Tell, IInv, DesksOK
    <2> QED BY <1>3, <2>2, <2>3, <2>4, Started DEF Tell, rows
  <1> QED BY <1>1, <1>2, <1>3 DEF Others

LEMMA ClockStep == ASSUME IInv, Clock, Kept PROVE Step
  <1>1. PICK t \in Tasks : Lapse(t) \/ Ripen(t)
    BY DEF Clock
  <1>2. task[t] \in Row /\ Good(t, task[t])
    BY DEF IInv, LedgerOK
  <1>3. PICK y \in Row : /\ task' = [task EXCEPT ![t] = y] /\ y.state = task[t].state
                         /\ y.attempt = task[t].attempt
                         /\ y.lease # "free" => task[t].lease # "free"
                         /\ task[t].state \notin Ended
    <2> DEFINE lapsed == [task[t] EXCEPT !.lease = "lapsed"]
               ripe   == [task[t] EXCEPT !.due = TRUE]
    <2>1. /\ lapsed \in Row /\ lapsed.state = task[t].state /\ lapsed.attempt = task[t].attempt
          /\ ripe \in Row /\ ripe.state = task[t].state /\ ripe.attempt = task[t].attempt
          /\ ripe.lease = task[t].lease
      BY <1>2 DEF Row
    <2>2. (Lapse(t) => task' = [task EXCEPT ![t] = lapsed]) /\ (Ripen(t) => task' = [task EXCEPT ![t] = ripe])
      BY DEF Lapse, Ripen
    <2> HIDE DEF lapsed, ripe
    <2>3. task[t].state \notin Ended /\ (Lapse(t) => task[t].lease # "free")
      BY <1>1, <1>2 DEF Lapse, Ripen, Good, Ended
    <2> QED BY <1>1, <2>1, <2>2, <2>3
  <1>4. task' \in [Tasks -> Row] /\ task'[t] = y /\ \A u \in Tasks \ {t} : task'[u] = task[u]
    BY <1>3 DEF IInv, LedgerOK
  <1>5. UNCHANGED <<pulse, line, run, proven, reopened, faults, orch, receipt, desk, asks>>
    BY <1>1 DEF Lapse, Ripen, Kept, rows
  <1>6. Widens
    <2>1. \A u \in Tasks : task[u].attempt <= task'[u].attempt
      BY <1>3, <1>4 DEF IInv, LedgerOK, Row
    <2> QED BY <1>4, <1>5, <2>1 DEF Widens, IInv, LedgerOK, OrchsOK, InLine
  <1>7. Good(t, y)'
    BY <1>2, <1>3, <1>5 DEF Good, InLine
  <1>8. EndedMoves(t)
    BY <1>3 DEF EndedMoves
  <1>9. /\ pulse' \in [Tasks -> States \cup {"observed"}] /\ run' \in [Runners -> Run]
        /\ desk' \in [Desks -> Desk] /\ faults' \in Nat /\ asks' \in Nat
    BY <1>5 DEF IInv, LedgerOK, RunsOK, DesksOK
  <1> QED BY <1>4, <1>5, <1>6, <1>7, <1>8, <1>9, Assemble

-----------------------------------------------------------------------------
(* A request moves on. *)

\* The request q becomes d and its pass is u; what it writes is sound.
LEMMA ByDesk ==
  ASSUME IInv, Widens, NEW q \in Desks, NEW d \in Desk, desk' = [desk EXCEPT ![q] = d], DeskOK(d)',
         run' \in [Runners -> Run], \A r \in Runners \ {q} : run'[r] = run[r],
         run'[q] = run[q] \/ RunOK(q, run[q])',
         run'[q].at # "idle" => d.at \in {"ingest", "queue"} /\ run'[q].task = d.task,
         \A t \in Tasks : task'[t] = task[t] \/ (Good(t, task[t])' /\ EndedMoves(t)),
         \A t \in Orders : orch'[t] = orch[t] \/ (OrchOK(t, orch[t])' /\ FinalMoves(t)),
         UNCHANGED pulse, faults' \in Nat, asks' \in Nat
  PROVE  Step
  <1>1. desk' \in [Desks -> Desk] /\ desk'[q] = d /\ \A p \in Desks \ {q} : desk'[p] = desk[p]
    BY DEF IInv, DesksOK
  <1>2. \A r \in Runners : run'[r] = run[r] \/ RunOK(r, run[r])'
    OBVIOUS
  <1>3. \A p \in Desks : desk'[p] = desk[p] \/ DeskOK(desk[p])'
    BY <1>1
  <1>4. \A p \in Desks : (run'[p] = run[p] /\ desk'[p] = desk[p]) \/ Linked(p)'
    BY <1>1 DEF Linked
  <1>5. pulse' \in [Tasks -> States \cup {"observed"}]
    BY DEF IInv, LedgerOK
  <1> QED BY <1>1, <1>2, <1>3, <1>4, <1>5, Assemble

LEMMA TurnsOK ==
  ASSUME IInv, NEW q \in Desks, NEW s \in DeskSteps, Turns(q, s)
  PROVE  \E d \in Desk : /\ desk' = [desk EXCEPT ![q] = d] /\ d.at = s /\ d.task = desk[q].task
                         /\ d.seen = desk[q].seen /\ d.next = desk[q].next
  <1> DEFINE d == [desk[q] EXCEPT !.at = s]
  <1>1. desk[q] \in Desk
    BY DEF IInv, DesksOK
  <1>2. d \in Desk /\ d.at = s /\ d.task = desk[q].task /\ d.seen = desk[q].seen /\ d.next = desk[q].next
    BY <1>1 DEF Desk
  <1>3. desk' = [desk EXCEPT ![q] = d]
    BY DEF Turns
  <1> HIDE DEF d
  <1> QED BY <1>2, <1>3

LEMMA EndsOK ==
  ASSUME IInv, NEW q \in Desks, Ends(q)
  PROVE  \E d \in Desk : desk' = [desk EXCEPT ![q] = d] /\ d.at = "idle" /\ DeskOK(d)'
  <1>1. NoDesk \in Desk /\ NoDesk.at = "idle"
    BY DEF NoDesk, Desk, DeskSteps, OrchStates
  <1>2. PICK d \in Desk : d = NoDesk /\ d.at = "idle"
    BY <1>1
  <1>3. DeskOK(d)'
    BY <1>2 DEF DeskOK
  <1> QED BY <1>2, <1>3 DEF Ends

LEMMA OpensOK ==
  ASSUME IInv, NEW q \in Desks, NEW t \in Orders, NEW s \in DeskSteps, Opens(q, t, s)
  PROVE  \E d \in Desk : desk' = [desk EXCEPT ![q] = d] /\ d.at = s /\ d.task = t
  <1> DEFINE d == [NoDesk EXCEPT !.at = s, !.task = t]
  <1>1. d \in Desk /\ d.at = s /\ d.task = t
    BY DEF NoDesk, Desk, OrchStates
  <1>2. desk' = [desk EXCEPT ![q] = d]
    BY DEF Opens
  <1> HIDE DEF d
  <1> QED BY <1>1, <1>2

\* Between the calls of a request none of its passes is under way.
LEMMA Alone ==
  ASSUME IInv, NEW q \in Desks, desk[q].at \notin {"ingest", "queue"} \/ Returned(q)
  PROVE  run[q].at = "idle"
  BY DEF IInv, DesksOK, Linked, Returned

LEMMA DeskHas ==
  ASSUME IInv, NEW q \in Desks
  PROVE  /\ desk[q] \in Desk /\ DeskOK(desk[q])
         /\ desk[q].at # "idle" => desk[q].task \in Orders
  BY DEF IInv, DesksOK, DeskOK

\* A request that only turns, ends or opens, with no pass under way.
LEMMA Turning ==
  ASSUME IInv, Widens, NEW q \in Desks, NEW d \in Desk, desk' = [desk EXCEPT ![q] = d], DeskOK(d)',
         run[q].at = "idle", UNCHANGED <<run, pulse>>, Fault \/ UNCHANGED faults, asks' \in Nat,
         \A t \in Tasks : task'[t] = task[t] \/ (Good(t, task[t])' /\ EndedMoves(t)),
         \A t \in Orders : orch'[t] = orch[t] \/ (OrchOK(t, orch[t])' /\ FinalMoves(t))
  PROVE  Step
  <1>1. run' \in [Runners -> Run] /\ faults' \in Nat
    BY FaultOK DEF IInv, RunsOK
  <1> QED BY <1>1, ByDesk

\* What moving the row of an order does.
LEMMA MovesOK ==
  ASSUME IInv, NEW t \in Orders, NEW from \in SUBSET OrchStates, NEW s \in OrchStates, Moves(t, from, s),
         UNCHANGED <<task, line, proven, reopened>>, receipt \subseteq receipt', receipt' \subseteq Orders,
         s = "completed" => IF t \in Handoff THEN orch[t].proof ELSE t \in proven,
         from \cap Terminal \subseteq {"blocked"} \/ \E q \in Desks : desk[q].at = "fail" /\ desk[q].task = t
  PROVE  Widens /\ \A u \in Orders : orch'[u] = orch[u] \/ (OrchOK(u, orch[u])' /\ FinalMoves(u))
  <1>1. CASE orch[t].state \notin from
    <2>1. orch' = orch
      BY <1>1 DEF Moves
    <2> QED BY <2>1 DEF Widens, IInv, LedgerOK, OrchsOK, InLine, Row
  <1>2. CASE orch[t].state \in from
    <2>1. orch[t] \in OrchRow /\ OrchOK(t, orch[t])
      BY DEF IInv, OrchsOK
    <2>2. PICK o \in OrchRow : orch' = [orch EXCEPT ![t] = o] /\ o.state = s /\ o.proof = orch[t].proof
      <3> DEFINE o == [orch[t] EXCEPT !.state = s, !.version = orch[t].version + 1]
      <3>1. o \in OrchRow /\ o.state = s /\ o.proof = orch[t].proof
        <4>1. orch[t].version + 1 \in Nat
          BY <2>1 DEF OrchRow
        <4> QED BY <2>1, <4>1 DEF OrchRow
      <3>2. orch' = [orch EXCEPT ![t] = o]
        BY <1>2 DEF Moves
      <3> HIDE DEF o
      <3> QED BY <3>1, <3>2
    <2>3. orch' \in [Orders -> OrchRow] /\ orch'[t] = o /\ \A u \in Orders \ {t} : orch'[u] = orch[u]
      BY <2>2 DEF IInv, OrchsOK
    <2>4. Widens
      BY <2>2, <2>3 DEF Widens, IInv, LedgerOK, InLine, Row
    <2>5. OrchOK(t, o)'
      BY <2>1, <2>2, <2>4 DEF OrchOK, Widens
    <2>6. FinalMoves(t)
      BY <1>2 DEF FinalMoves
    <2> QED BY <2>3, <2>4, <2>5, <2>6
  <1> QED BY <1>1, <1>2

\* What a request may make of a row of the ledger that has not ended.
LEMMA WritesOK ==
  ASSUME IInv, NEW t \in Tasks, NEW y \in Row, task' = [task EXCEPT ![t] = y],
         y.attempt = task[t].attempt, y.lease = "free", y.state \notin {"absent", "retry"},
         task[t].state \notin Ended \cup {"absent"},
         UNCHANGED <<line, proven, orch, receipt>>,
         UNCHANGED reopened \/ reopened' = [reopened EXCEPT ![t] = @ + 1],
         y.state = "queued" => reopened'[t] = reopened[t] + 1,
         y.state = "verified" => t \in Orders /\ orch[t].proof,
         t \in Orders \cap Gated /\ t \notin receipt => y.state \in {"human_gate", "verified", "ignored"}
  PROVE  Widens /\ \A u \in Tasks : task'[u] = task[u] \/ (Good(u, task[u])' /\ EndedMoves(u))
  <1>1. task' \in [Tasks -> Row] /\ task'[t] = y /\ \A u \in Tasks \ {t} : task'[u] = task[u]
    BY DEF IInv, LedgerOK
  <1>2. reopened' \in [Tasks -> Nat] /\ \A u \in Tasks : reopened[u] <= reopened'[u]
    <2>1. reopened \in [Tasks -> Nat]
      BY DEF IInv, LedgerOK
    <2>2. CASE reopened' = [reopened EXCEPT ![t] = @ + 1]
      BY <2>1, <2>2
    <2>3. CASE UNCHANGED reopened
      BY <2>1, <2>3
    <2> QED BY <2>2, <2>3
  <1>3. Widens
    <2>1. \A u \in Tasks : task[u].attempt <= task'[u].attempt
      BY <1>1 DEF IInv, LedgerOK, Row
    <2> QED BY <1>1, <1>2, <2>1 DEF Widens, IInv, LedgerOK, OrchsOK, InLine
  <1>4. Good(t, y)'
    <2>1. Good(t, task[t]) /\ reopened[t] \in Nat /\ reopened'[t] \in Nat /\ y.attempt \in Nat /\ MaxAttempts \in Nat
      <3>1. Good(t, task[t]) /\ reopened[t] \in Nat /\ reopened'[t] \in Nat
        BY <1>2 DEF IInv, LedgerOK
      <3>2. y.attempt \in Nat
        BY DEF Row
      <3> QED BY <3>1, <3>2
    <2>2. y.attempt <= MaxAttempts + reopened'[t]
      BY <1>2, <2>1 DEF Good
    <2>3. y.state \in Waiting => y.attempt < MaxAttempts + reopened'[t]
      BY <2>1 DEF Good, Waiting
    <2>4. InLine(t)'
      BY <1>3, <2>1 DEF Good, Widens
    <2>5. t \in Orders \cap Gated /\ t \notin receipt' =>
            y.attempt = 0 /\ y.state \in {"absent", "human_gate", "verified", "ignored"}
      BY <2>1 DEF Good
    <2> QED BY <2>2, <2>3, <2>4, <2>5 DEF Good
  <1> QED BY <1>1, <1>3, <1>4 DEF EndedMoves

LEMMA AssignStep == ASSUME IInv, NEW q \in Desks, Assign(q) PROVE Step
  <1>1. desk[q].task \in Orders /\ run[q].at = "idle"
    BY Alone, DeskHas DEF Assign
  <1>2. PICK d \in Desk : desk' = [desk EXCEPT ![q] = d] /\ d.at = "note" /\ d.task = desk[q].task
    BY TurnsOK DEF Assign, DeskSteps
  <1>3. DeskOK(d)'
    BY <1>1, <1>2 DEF DeskOK
  <1>4. Widens /\ \A u \in Orders : orch'[u] = orch[u] \/ (OrchOK(u, orch[u])' /\ FinalMoves(u))
    <2>1. {"received"} \in SUBSET OrchStates /\ "assigned" \in OrchStates /\ {"received"} \cap Terminal = {}
      BY DEF OrchStates, Terminal
    <2> QED BY <1>1, <2>1, MovesOK DEF Assign, ledger, IInv, OrchsOK
  <1> QED BY <1>1, <1>2, <1>3, <1>4, Turning DEF Assign, ledger, IInv, DesksOK

LEMMA FailTaskStep == ASSUME IInv, NEW q \in Desks, FailTask(q) PROVE Step
  <1>1. desk[q].task \in Orders /\ run[q].at = "idle"
    BY Alone, DeskHas DEF FailTask
  <1>2. PICK d \in Desk : desk' = [desk EXCEPT ![q] = d] /\ d.at = "look" /\ d.task = desk[q].task
    BY TurnsOK DEF FailTask, DeskSteps
  <1>3. DeskOK(d)'
    BY <1>1, <1>2 DEF DeskOK
  <1>4. Widens /\ \A u \in Orders : orch'[u] = orch[u] \/ (OrchOK(u, orch[u])' /\ FinalMoves(u))
    <2>1. OrchStates \in SUBSET OrchStates /\ "failed" \in OrchStates
      BY DEF OrchStates
    <2> QED BY <1>1, <2>1, MovesOK DEF FailTask, ledger, IInv, OrchsOK
  <1> QED BY <1>1, <1>2, <1>3, <1>4, Turning DEF FailTask, ledger, IInv, DesksOK

LEMMA ReblockStep == ASSUME IInv, NEW q \in Desks, Reblock(q) PROVE Step
  <1>1. desk[q].task \in Orders /\ run[q].at = "idle"
    BY Alone, DeskHas DEF Reblock
  <1>2. PICK d \in Desk : desk' = [desk EXCEPT ![q] = d] /\ DeskOK(d)'
    BY EndsOK DEF Reblock
  <1>3. Widens /\ \A u \in Orders : orch'[u] = orch[u] \/ (OrchOK(u, orch[u])' /\ FinalMoves(u))
    <2>1. {"assigned"} \in SUBSET OrchStates /\ "blocked" \in OrchStates /\ {"assigned"} \cap Terminal = {}
      BY DEF OrchStates, Terminal
    <2> QED BY <1>1, <2>1, MovesOK DEF Reblock, ledger, IInv, OrchsOK
  <1> QED BY <1>1, <1>2, <1>3, Turning DEF Reblock, ledger, IInv, DesksOK

\* The copy is written over the row that was looked at alone.
LEMMA SyncStep == ASSUME IInv, NEW q \in Desks, Sync(q) PROVE Step
  <1>1. /\ desk[q].task \in Orders /\ run[q].at = "idle" /\ DeskOK(desk[q])
        /\ desk[q].seen \in OrchStates /\ desk[q].next \in OrchStates
    BY Alone, DeskHas DEF Sync, Desk
  <1>2. PICK d \in Desk : desk' = [desk EXCEPT ![q] = d] /\ DeskOK(d)'
    BY EndsOK DEF Sync
  <1>3. Widens /\ \A u \in Orders : orch'[u] = orch[u] \/ (OrchOK(u, orch[u])' /\ FinalMoves(u))
    <2>1. CASE UNCHANGED orch
      BY <2>1, Narrow DEF Sync, ledger
    <2>2. CASE Moves(desk[q].task, {desk[q].seen}, desk[q].next)
      <3>1. {desk[q].seen} \in SUBSET OrchStates /\ {desk[q].seen} \cap Terminal = {}
        BY <1>1 DEF DeskOK, Sync
      <3>2. desk[q].next = "completed" =>
              IF desk[q].task \in Handoff THEN orch[desk[q].task].proof ELSE desk[q].task \in proven
        BY <1>1 DEF DeskOK, Sync
      <3> QED BY <1>1, <2>2, <3>1, <3>2, MovesOK DEF Sync, ledger, IInv, OrchsOK
    <2> QED BY <2>1, <2>2 DEF Sync
  <1> QED BY <1>1, <1>2, <1>3, Turning DEF Sync, ledger, IInv, DesksOK

\* The submission starts an ingestion, and later a pass over its task.
LEMMA CallsOK ==
  ASSUME IInv, NEW q \in Desks, NEW t \in Orders,
         Calls(q, Observation(t)) \/ Calls(q, PassOver(t))
  PROVE  \E x \in Run : /\ run' = [run EXCEPT ![q] = x] /\ x.task = t /\ RunOK(q, x)'
                        /\ run' \in [Runners -> Run] /\ run'[q] = x
                        /\ \A r \in Runners \ {q} : run'[r] = run[r]
  <1>1. /\ Observation(t) \in Run /\ Observation(t).at = "event" /\ Observation(t).task = t
        /\ PassOver(t) \in Run /\ PassOver(t).at = "recover" /\ PassOver(t).task = t /\ PassOver(t).named
    BY DEF Observation, PassOver, NoRun, Run, Steps
  <1>2. PICK x \in Run : /\ run' = [run EXCEPT ![q] = x] /\ x.task = t
                         /\ x.at = "event" \/ (x.at = "recover" /\ x.named)
    BY <1>1 DEF Calls
  <1>3. RunOK(q, x)'
    BY <1>2 DEF RunOK, Bound, Held
  <1> QED BY <1>2, <1>3 DEF IInv, RunsOK

LEMMA SubmitStep == ASSUME IInv, NEW q \in Desks, NEW t \in Orders, Submit(q, t) PROVE Step
  <1>1. PICK d \in Desk : desk' = [desk EXCEPT ![q] = d] /\ d.at = "ingest" /\ d.task = t
    BY OpensOK DEF Submit, DeskSteps
  <1>2. DeskOK(d)'
    BY <1>1 DEF DeskOK
  <1>3. PICK x \in Run : /\ x.task = t /\ RunOK(q, x)' /\ run' \in [Runners -> Run] /\ run'[q] = x
                         /\ \A r \in Runners \ {q} : run'[r] = run[r]
    BY CallsOK DEF Submit
  <1>4. orch[t] \in OrchRow /\ OrchOK(t, orch[t]) /\ orch[t].state = "absent"
    BY DEF Submit, IInv, OrchsOK
  <1>5. PICK o \in OrchRow : orch' = [orch EXCEPT ![t] = o] /\ o.state = "received" /\ o.proof = orch[t].proof
    <2> DEFINE o == [orch[t] EXCEPT !.state = "received"]
    <2>1. o \in OrchRow /\ o.state = "received" /\ o.proof = orch[t].proof
      BY <1>4 DEF OrchRow, OrchStates
    <2>2. orch' = [orch EXCEPT ![t] = o]
      BY DEF Submit
    <2> HIDE DEF o
    <2> QED BY <2>1, <2>2
  <1>6. orch' \in [Orders -> OrchRow] /\ orch'[t] = o /\ \A u \in Orders \ {t} : orch'[u] = orch[u]
    BY <1>5 DEF IInv, OrchsOK
  <1>7. Widens
    BY <1>5, <1>6 DEF Widens, Submit, IInv, LedgerOK, OrchsOK, InLine, Row
  <1>8. OrchOK(t, o)' /\ FinalMoves(t)
    BY <1>4, <1>5 DEF OrchOK, FinalMoves, Terminal
  <1>9. faults' \in Nat /\ asks' \in Nat
    BY DEF Submit, May, IInv, LedgerOK, DesksOK
  <1> QED BY <1>1, <1>2, <1>3, <1>6, <1>7, <1>8, <1>9, ByDesk, ZenonT(60) DEF Submit

\* A request appends its event and starts its pass, or fails to.
LEMMA QueueStep == ASSUME IInv, NEW q \in Desks, Dispatch(q) \/ Apply(q) PROVE Step
  <1>1. desk[q].task \in Orders /\ run[q].at = "idle"
    BY Alone, DeskHas DEF Dispatch, Apply
  <1>2. PICK t \in Orders : t = desk[q].task
    BY <1>1
  <1>3. Widens
    BY Narrow DEF Dispatch, Apply, rows
  <1>4. CASE Turns(q, "queue") /\ Calls(q, PassOver(t))
    <2>1. PICK d \in Desk : desk' = [desk EXCEPT ![q] = d] /\ d.at = "queue" /\ d.task = t
      BY <1>2, <1>4, TurnsOK DEF DeskSteps
    <2>2. PICK x \in Run : /\ x.task = t /\ RunOK(q, x)' /\ run' \in [Runners -> Run] /\ run'[q] = x
                           /\ \A r \in Runners \ {q} : run'[r] = run[r]
      BY <1>4, CallsOK
    <2>3. DeskOK(d)'
      BY <2>1 DEF DeskOK
    <2>4. faults' \in Nat /\ asks' \in Nat /\ UNCHANGED <<task, orch, pulse>>
      BY FaultOK DEF Dispatch, Apply, rows, IInv, DesksOK
    <2> QED BY <1>3, <2>1, <2>2, <2>3, <2>4, ByDesk
  <1>5. ASSUME NEW s \in {"fail", "unqueue"}, Fault, Turns(q, s), UNCHANGED run PROVE Step
    <2>1. PICK d \in Desk : desk' = [desk EXCEPT ![q] = d] /\ d.at = s /\ d.task = t
      BY <1>2, <1>5, TurnsOK DEF DeskSteps
    <2>2. DeskOK(d)'
      BY <2>1 DEF DeskOK
    <2>3. asks' \in Nat /\ UNCHANGED <<task, orch, pulse>>
      BY DEF Dispatch, Apply, rows, IInv, DesksOK
    <2> QED BY <1>1, <1>3, <1>5, <2>1, <2>2, <2>3, Turning
  <1> QED BY <1>2, <1>4, <1>5 DEF Dispatch, Apply

LEMMA LetGo == ASSUME IInv, NEW q \in Desks, Over(q) PROVE
    run' \in [Runners -> Run] /\ run'[q].at = "idle" /\ RunOK(q, run[q])' /\ \A r \in Runners \ {q} : run'[r] = run[r]
  <1>1. PICK x \in Run : run' = [run EXCEPT ![q] = x] /\ x.at = "idle"
    BY OverOK
  <1>2. run' \in [Runners -> Run] /\ run'[q] = x /\ \A r \in Runners \ {q} : run'[r] = run[r]
    BY <1>1 DEF IInv, RunsOK
  <1> QED BY <1>1, <1>2, Rests

LEMMA CaughtStep == ASSUME IInv, NEW q \in Desks, Caught(q) PROVE Step
  <1>1. desk[q].task \in Orders
    BY DeskHas DEF Caught
  <1>2. PICK d \in Desk : desk' = [desk EXCEPT ![q] = d] /\ d.at \in {"look", "fail"} /\ d.task = desk[q].task
    BY TurnsOK DEF Caught, DeskSteps
  <1>3. DeskOK(d)'
    BY <1>1, <1>2 DEF DeskOK
  <1>4. Widens
    BY Narrow DEF Caught, rows
  <1>5. faults' \in Nat /\ asks' \in Nat
    BY DEF Caught, IInv, LedgerOK, DesksOK
  <1> QED BY <1>2, <1>3, <1>4, <1>5, LetGo, ByDesk DEF Caught, rows

LEMMA AbandonStep == ASSUME IInv, NEW q \in Desks, Abandon(q) PROVE Step
  <1>1. PICK d \in Desk : desk' = [desk EXCEPT ![q] = d] /\ d.at = "idle" /\ DeskOK(d)'
    BY EndsOK DEF Abandon
  <1>2. Widens
    BY Narrow DEF Abandon, rows
  <1>3. faults' \in Nat /\ asks' \in Nat
    BY FaultOK DEF Abandon, IInv, DesksOK
  <1> QED BY <1>1, <1>2, <1>3, LetGo, ByDesk DEF Abandon, rows

\* A request that turns or opens and writes no row.
LEMMA TurnsStep ==
  ASSUME IInv, NEW q \in Desks, Executed(q) \/ \E t \in Orders : Poll(q, t)
  PROVE  Step
  <1>1. run[q].at = "idle"
    BY Alone DEF Executed, Poll, May
  <1>2. PICK d \in Desk : desk' = [desk EXCEPT ![q] = d] /\ d.at = "look" /\ d.task \in Orders
    BY TurnsOK, OpensOK, DeskHas DEF Executed, Poll, DeskSteps
  <1>3. DeskOK(d)'
    BY <1>2 DEF DeskOK
  <1>4. Widens
    BY Narrow DEF Executed, Poll, rows, ledger
  <1>5. asks' \in Nat
    BY DEF Executed, Poll, May, IInv, DesksOK
  <1> QED BY <1>1, <1>2, <1>3, <1>4, <1>5, Turning DEF Executed, Poll, rows, ledger

\* A command that is verified has its ground, and so has the copy made of it.
LEMMA MappedOK ==
  ASSUME IInv, NEW t \in Orders, task[t].state \in DOMAIN CommandStates
  PROVE  /\ Mapped(t) \in OrchStates
         /\ Mapped(t) = "completed" => IF t \in Handoff THEN orch[t].proof ELSE t \in proven
  <1>1. task[t].state \in States \ {"absent", "auto_blocked"} /\ Good(t, task[t]) /\ OrchOK(t, orch[t])
    BY DEF CommandStates, IInv, LedgerOK, OrchsOK
  <1>2. /\ CommandStates[task[t].state] \in OrchStates
        /\ CommandStates[task[t].state] = "completed" => task[t].state = "verified"
    BY <1>1 DEF CommandStates, OrchStates, States, Results
  <1> QED BY <1>1, <1>2 DEF Mapped, OrchStates, Good, OrchOK

LEMMA LookStep == ASSUME IInv, NEW q \in Desks, Look(q) PROVE Step
  <1>1. run[q].at = "idle" /\ desk[q] \in Desk /\ desk[q].task \in Orders
    BY Alone, DeskHas DEF Look
  <1>2. PICK t \in Orders : t = desk[q].task
    BY <1>1
  <1>3. Widens
    BY Narrow DEF Look, rows, ledger
  <1>4. PICK d \in Desk : desk' = [desk EXCEPT ![q] = d] /\ DeskOK(d)'
    <2>1. CASE Ends(q)
      BY <2>1, EndsOK
    <2>2. CASE /\ orch[t].state \notin Terminal /\ task[t].state \in DOMAIN CommandStates
               /\ desk' = [desk EXCEPT ![q].at = "sync", ![q].seen = orch[t].state, ![q].next = Mapped(t)]
      <3> DEFINE d == [desk[q] EXCEPT !.at = "sync", !.seen = orch[t].state, !.next = Mapped(t)]
      <3>1. orch[t].state \in OrchStates /\ Mapped(t) \in OrchStates
        BY <2>2, MappedOK DEF IInv, OrchsOK, OrchRow
      <3>2. d \in Desk /\ d.at = "sync" /\ d.task = t /\ d.seen = orch[t].state /\ d.next = Mapped(t)
        BY <1>1, <1>2, <3>1 DEF Desk, DeskSteps
      <3>3. desk' = [desk EXCEPT ![q] = d]
        BY <2>2
      <3> HIDE DEF d
      <3>4. PICK e \in Desk : e = d /\ e.at = "sync" /\ e.task = t /\ e.seen = orch[t].state /\ e.next = Mapped(t)
        BY <3>2
      <3>5. DeskOK(e)'
        <4>1. e.seen \notin Terminal
          BY <2>2, <3>4
        <4>2. e.next = "completed" => IF t \in Handoff THEN orch'[t].proof ELSE t \in proven'
          BY <2>2, <3>4, <1>3, MappedOK DEF Widens
        <4> QED BY <3>4, <4>1, <4>2 DEF DeskOK
      <3> QED BY <3>3, <3>4, <3>5
    <2> QED BY <1>2, <2>1, <2>2 DEF Look
  <1> QED BY <1>1, <1>3, <1>4, Turning DEF Look, rows, ledger, IInv, DesksOK

LEMMA CancelStep == ASSUME IInv, NEW q \in Desks, NEW t \in Orders, Cancel(q, t) PROVE Step
  <1>1. run[q].at = "idle"
    BY Alone DEF Cancel, May
  <1>2. PICK d \in Desk : desk' = [desk EXCEPT ![q] = d] /\ d.at = "void" /\ d.task = t
    BY OpensOK DEF Cancel, DeskSteps
  <1>3. DeskOK(d)'
    BY <1>2 DEF DeskOK
  <1>4. Widens /\ \A u \in Orders : orch'[u] = orch[u] \/ (OrchOK(u, orch[u])' /\ FinalMoves(u))
    <2>1. /\ {"received", "assigned"} \in SUBSET OrchStates /\ "cancelled" \in OrchStates
          /\ {"received", "assigned"} \cap Terminal = {}
      BY DEF OrchStates, Terminal
    <2> QED BY <2>1, MovesOK DEF Cancel, ledger, IInv, OrchsOK
  <1>5. asks' \in Nat
    BY DEF Cancel, May, IInv, DesksOK
  <1> QED BY <1>1, <1>2, <1>3, <1>4, <1>5, Turning DEF Cancel, ledger

LEMMA CompleteStep == ASSUME IInv, NEW q \in Desks, NEW t \in Orders, Complete(q, t) PROVE Step
  <1>1. run[q].at = "idle"
    BY Alone DEF Complete, May
  <1>2. PICK d \in Desk : desk' = [desk EXCEPT ![q] = d] /\ d.at = "close" /\ d.task = t
    BY OpensOK DEF Complete, DeskSteps
  <1>3. PICK o \in OrchRow : orch' = [orch EXCEPT ![t] = o] /\ o.proof
    <2> DEFINE o == [state |-> "completed", version |-> orch[t].version + 1, proof |-> TRUE]
    <2>1. o \in OrchRow /\ o.proof
      <3>1. orch[t].version + 1 \in Nat
        BY DEF IInv, OrchsOK, OrchRow
      <3> QED BY <3>1 DEF OrchRow, OrchStates
    <2>2. orch' = [orch EXCEPT ![t] = o]
      BY DEF Complete
    <2> HIDE DEF o
    <2> QED BY <2>1, <2>2
  <1>4. orch' \in [Orders -> OrchRow] /\ orch'[t] = o /\ \A u \in Orders \ {t} : orch'[u] = orch[u]
    BY <1>3 DEF IInv, OrchsOK
  <1>5. Widens
    BY <1>3, <1>4 DEF Widens, Complete, ledger, IInv, LedgerOK, OrchsOK, InLine, Row
  <1>6. OrchOK(t, o)' /\ FinalMoves(t) /\ DeskOK(d)'
    BY <1>2, <1>3, <1>4 DEF OrchOK, FinalMoves, Complete, DeskOK
  <1>7. asks' \in Nat
    BY DEF Complete, May, IInv, DesksOK
  <1> QED BY <1>1, <1>2, <1>4, <1>5, <1>6, <1>7, Turning DEF Complete, ledger

LEMMA ApproveStep == ASSUME IInv, NEW q \in Desks, NEW t \in Orders, Approve(q, t) PROVE Step
  <1>1. run[q].at = "idle"
    BY Alone DEF Approve, May
  <1>2. PICK d \in Desk : desk' = [desk EXCEPT ![q] = d] /\ d.at = "admit" /\ d.task = t
    <2> DEFINE d == [NoDesk EXCEPT !.at = "admit", !.task = t, !.approves = TRUE, !.version = orch[t].version]
    <2>1. d \in Desk /\ d.at = "admit" /\ d.task = t
      <3>1. orch[t].version \in Nat
        BY DEF IInv, OrchsOK, OrchRow
      <3> QED BY <3>1 DEF NoDesk, Desk, DeskSteps, OrchStates
    <2>2. desk' = [desk EXCEPT ![q] = d]
      BY DEF Approve
    <2> HIDE DEF d
    <2> QED BY <2>1, <2>2
  <1>3. DeskOK(d)'
    BY <1>2 DEF DeskOK
  <1>4. Widens
    BY Narrow DEF Approve, rows, ledger
  <1>5. asks' \in Nat
    BY DEF Approve, May, IInv, DesksOK
  <1> QED BY <1>1, <1>2, <1>3, <1>4, <1>5, Turning DEF Approve, rows, ledger

LEMMA AdmitStep == ASSUME IInv, NEW q \in Desks, Admit(q) PROVE Step
  <1>1. desk[q].task \in Orders /\ run[q].at = "idle"
    BY Alone, DeskHas DEF Admit
  <1>2. PICK d \in Desk : desk' = [desk EXCEPT ![q] = d] /\ DeskOK(d)'
    <2>1. CASE Ends(q)
      BY <2>1, EndsOK
    <2>2. CASE Turns(q, "receipt")
      <3>1. PICK d \in Desk : desk' = [desk EXCEPT ![q] = d] /\ d.at = "receipt" /\ d.task = desk[q].task
        BY <2>2, TurnsOK DEF DeskSteps
      <3> QED BY <1>1, <3>1 DEF DeskOK
    <2> QED BY <2>1, <2>2 DEF Admit
  <1>3. Widens /\ \A u \in Orders : orch'[u] = orch[u] \/ (OrchOK(u, orch[u])' /\ FinalMoves(u))
    <2>1. {"blocked"} \in SUBSET OrchStates /\ "assigned" \in OrchStates
      BY DEF OrchStates
    <2>2. CASE UNCHANGED orch
      BY <2>2, Narrow DEF Admit, ledger
    <2>3. CASE Moves(desk[q].task, {"blocked"}, "assigned")
      BY <1>1, <2>1, <2>3, MovesOK DEF Admit, ledger, IInv, OrchsOK
    <2> QED BY <2>2, <2>3 DEF Admit
  <1> QED BY <1>1, <1>2, <1>3, Turning DEF Admit, ledger, IInv, DesksOK

LEMMA RecordStep == ASSUME IInv, NEW q \in Desks, Record(q) PROVE Step
  <1>1. desk[q].task \in Orders /\ run[q].at = "idle"
    BY Alone, DeskHas DEF Record
  <1>2. /\ UNCHANGED <<task, pulse, line, run, proven, reopened, orch, asks>>
        /\ Fault \/ UNCHANGED faults
        /\ receipt \subseteq receipt' /\ receipt' \subseteq Orders
    BY <1>1 DEF Record, IInv, OrchsOK
  <1>3. Widens
    BY <1>2 DEF Widens, IInv, LedgerOK, OrchsOK, InLine, Row
  <1>4. PICK d \in Desk : desk' = [desk EXCEPT ![q] = d] /\ DeskOK(d)'
    <2>1. PICK d \in Desk : /\ desk' = [desk EXCEPT ![q] = d] /\ d.task = desk[q].task
                            /\ d.at = "reblock" \/ (d.at = "resume" /\ d.task \in receipt')
      BY TurnsOK DEF Record, DeskSteps
    <2> QED BY <1>1, <2>1 DEF DeskOK
  <1> QED BY <1>1, <1>2, <1>3, <1>4, Turning DEF IInv, DesksOK

Opened(t, s) == [task EXCEPT ![t].state = s, ![t].due = TRUE, ![t].lease = "free"]

LEMMA OpenedRow ==
  ASSUME IInv, NEW t \in Tasks, NEW s \in States,
         task' = Opened(t, s)
  PROVE  \E y \in Row : /\ task' = [task EXCEPT ![t] = y] /\ y.state = s /\ y.lease = "free"
                        /\ y.attempt = task[t].attempt
  <1> DEFINE y == [task[t] EXCEPT !.state = s, !.due = TRUE, !.lease = "free"]
  <1>1. task[t] \in Row
    BY DEF IInv, LedgerOK
  <1>2. y \in Row /\ y.state = s /\ y.lease = "free" /\ y.attempt = task[t].attempt
    BY <1>1 DEF Row
  <1>3. task' = [task EXCEPT ![t] = y]
    BY DEF Opened
  <1> HIDE DEF y
  <1> QED BY <1>2, <1>3

LEMMA ClosedRow ==
  ASSUME IInv, NEW t \in Tasks, NEW s \in States,
         task' = [task EXCEPT ![t].state = s, ![t].lease = "free"]
  PROVE  \E y \in Row : /\ task' = [task EXCEPT ![t] = y] /\ y.state = s /\ y.lease = "free"
                        /\ y.attempt = task[t].attempt
  <1> DEFINE y == [task[t] EXCEPT !.state = s, !.lease = "free"]
  <1>1. task[t] \in Row
    BY DEF IInv, LedgerOK
  <1>2. y \in Row /\ y.state = s /\ y.lease = "free" /\ y.attempt = task[t].attempt
    BY <1>1 DEF Row
  <1>3. task' = [task EXCEPT ![t] = y]
    OBVIOUS
  <1> HIDE DEF y
  <1> QED BY <1>2, <1>3

\* A command is closed where it waits, or with the evidence of production.
LEMMA CloseStep == ASSUME IInv, NEW q \in Desks, Void(q) \/ CloseCommand(q) PROVE Step
  <1>1. desk[q].task \in Orders /\ run[q].at = "idle" /\ DeskOK(desk[q])
    BY Alone, DeskHas DEF Void, CloseCommand
  <1>2. PICK t \in Orders : t = desk[q].task
    BY <1>1
  <1>3. PICK d \in Desk : desk' = [desk EXCEPT ![q] = d] /\ DeskOK(d)'
    BY EndsOK DEF Void, CloseCommand
  <1>4. /\ UNCHANGED <<pulse, line, run, proven, reopened, faults, orch, receipt, asks>>
        /\ asks' \in Nat
    BY DEF Void, CloseCommand, rows, IInv, DesksOK
  <1>5. Widens /\ \A u \in Tasks : task'[u] = task[u] \/ (Good(u, task[u])' /\ EndedMoves(u))
    <2>1. CASE UNCHANGED task
      BY <1>4, <2>1, Narrow
    <2>2. ASSUME NEW s \in {"ignored", "verified"}, task[t].state \notin Ended \cup {"absent"},
                 s = "verified" => orch[t].proof,
                 task' = [task EXCEPT ![t].state = s, ![t].lease = "free"]
          PROVE  Widens /\ \A u \in Tasks : task'[u] = task[u] \/ (Good(u, task[u])' /\ EndedMoves(u))
      <3>1. t \in Tasks /\ s \in States
        BY DEF States, Results
      <3>2. PICK y \in Row : /\ task' = [task EXCEPT ![t] = y] /\ y.state = s /\ y.lease = "free"
                             /\ y.attempt = task[t].attempt
        BY <2>2, <3>1, ClosedRow
      <3> QED BY <1>4, <2>2, <3>1, <3>2, WritesOK
    <2>3. CASE Void(q)
      BY <1>2, <2>1, <2>2, <2>3 DEF Void, Waiting, Ended
    <2>4. CASE CloseCommand(q)
      <3>1. orch[t].proof
        BY <1>1, <1>2, <2>4 DEF CloseCommand, DeskOK
      <3> QED BY <1>2, <2>1, <2>2, <2>4, <3>1 DEF CloseCommand
    <2> QED BY <2>3, <2>4
  <1> QED BY <1>1, <1>3, <1>4, <1>5, Turning

\* The approval is on record before the command is let through its gate.
LEMMA ReopenStep == ASSUME IInv, NEW q \in Desks, Resume(q) \/ Unqueue(q) PROVE Step
  <1>1. desk[q].task \in Orders /\ run[q].at = "idle" /\ DeskOK(desk[q])
    BY Alone, DeskHas DEF Resume, Unqueue
  <1>2. PICK t \in Orders : t = desk[q].task
    BY <1>1
  <1>3. PICK d \in Desk : desk' = [desk EXCEPT ![q] = d] /\ DeskOK(d)'
    <2>1. PICK d \in Desk : /\ desk' = [desk EXCEPT ![q] = d] /\ d.at \in {"apply", "reblock"}
                            /\ d.task = desk[q].task
      <3>1. Turns(q, "apply") \/ Turns(q, "reblock")
        BY DEF Resume, Unqueue
      <3> QED BY <3>1, TurnsOK DEF DeskSteps
    <2> QED BY <1>1, <2>1 DEF DeskOK
  <1>4. /\ UNCHANGED <<pulse, line, run, proven, faults, orch, receipt, asks>>
        /\ asks' \in Nat
    BY DEF Resume, Unqueue, rows, IInv, DesksOK
  <1>5. t \in Tasks /\ reopened[t] \in Nat
    BY DEF IInv, LedgerOK
  <1>6. Widens /\ \A u \in Tasks : task'[u] = task[u] \/ (Good(u, task[u])' /\ EndedMoves(u))
    <2>1. CASE UNCHANGED <<task, reopened>>
      BY <1>4, <2>1, Narrow
    <2>2. CASE Resume(q) /\ task[t].state = "human_gate"
      <3>1. PICK s \in States : s = "queued"
        BY DEF States
      <3>2. /\ task' = Opened(t, s)
            /\ reopened' = [reopened EXCEPT ![t] = @ + 1] /\ t \in receipt
        BY <1>1, <1>2, <2>2, <3>1 DEF Resume, DeskOK, Opened
      <3>3. PICK y \in Row : /\ task' = [task EXCEPT ![t] = y] /\ y.state = s /\ y.lease = "free"
                             /\ y.attempt = task[t].attempt
        BY <1>5, <3>2, OpenedRow
      <3>4. reopened'[t] = reopened[t] + 1
        BY <1>5, <3>2 DEF IInv, LedgerOK
      <3> QED BY <1>4, <1>5, <2>2, <3>1, <3>2, <3>3, <3>4, WritesOK DEF Ended
    <2>3. CASE Unqueue(q) /\ task[t].state = "queued"
      <3>1. PICK s \in States : s = "human_gate"
        BY DEF States, Results
      <3>2. /\ task' = Opened(t, s)
            /\ UNCHANGED reopened
        BY <1>2, <2>3, <3>1 DEF Unqueue, Opened
      <3>3. PICK y \in Row : /\ task' = [task EXCEPT ![t] = y] /\ y.state = s /\ y.lease = "free"
                             /\ y.attempt = task[t].attempt
        BY <1>5, <3>2, OpenedRow
      <3> QED BY <1>4, <1>5, <2>3, <3>1, <3>2, <3>3, WritesOK DEF Ended
    <2> QED BY <1>2, <2>1, <2>2, <2>3 DEF Resume, Unqueue
  <1> QED BY <1>1, <1>3, <1>4, <1>6, Turning

LEMMA StutterStep == ASSUME IInv, UNCHANGED vars PROVE Step
  <1>1. UNCHANGED <<task, pulse, line, run, proven, reopened, faults, orch, receipt, desk, asks>>
    BY DEF vars, ledger
  <1>2. Widens
    BY <1>1, Narrow
  <1> QED BY <1>1, <1>2, Assemble DEF IInv, LedgerOK, RunsOK, DesksOK

-----------------------------------------------------------------------------
(* The invariant. *)

LEMMA Initially == Init => IInv
  <1> SUFFICES ASSUME Init PROVE IInv
    OBVIOUS
  <1> USE DEF Init, LedgerInit
  <1>1. LedgerOK
    <2>1. task \in [Tasks -> Row]
      BY DEF Row, States
    <2>2. \A t \in Tasks : Good(t, task[t])
      BY DEF Good, Waiting
    <2> QED BY <2>1, <2>2 DEF LedgerOK, States
  <1>2. RunsOK
    <2>1. NoRun \in Run /\ NoRun.at = "idle"
      BY DEF NoRun, Run, Steps
    <2> QED BY <2>1 DEF RunsOK, RunOK, Bound, Held
  <1>3. OrchsOK
    BY DEF OrchsOK, OrchRow, OrchStates, OrchOK
  <1>4. DesksOK
    <2>1. NoDesk \in Desk /\ NoDesk.at = "idle" /\ NoRun.at = "idle"
      BY DEF NoDesk, Desk, DeskSteps, OrchStates, NoRun
    <2> QED BY <2>1 DEF DesksOK, DeskOK, Linked
  <1> QED BY <1>1, <1>2, <1>3, <1>4 DEF IInv

LEMMA NextStep == ASSUME IInv, [Next]_vars PROVE Step
  <1>1. ASSUME NEW q \in Desks, DeskStep(q) PROVE Step
    BY <1>1, AssignStep, QueueStep, CaughtStep, FailTaskStep, TurnsStep, LookStep, SyncStep, CloseStep,
       AdmitStep, RecordStep, ReopenStep, ReblockStep DEF DeskStep
  <1>2. ASSUME NEW q \in Desks, Abandon(q) PROVE Step
    BY <1>2, AbandonStep
  <1>3. ASSUME NEW q \in Desks, NEW t \in Orders, Asked(q, t) PROVE Step
    BY <1>3, SubmitStep, TurnsStep, CancelStep, CompleteStep, ApproveStep DEF Asked
  <1>4. ASSUME NEW r \in Runners, RunStep(r) \/ Throw(r), Kept PROVE Step
    BY <1>4, InsertEventStep, InsertTaskStep, GateEventStep, RecoverStep, ChooseStep, ClaimStep,
       ReadClaimStep, WorkStep, SettleStep, EchoStep, FailStep DEF RunStep
  <1>5. ASSUME NEW r \in Runners \ Desks, Others(r) PROVE Step
    BY <1>5, OthersStep
  <1>6. CASE Clock /\ Kept
    BY <1>6, ClockStep
  <1>7. CASE UNCHANGED vars
    BY <1>7, StutterStep
  <1> QED BY <1>1, <1>2, <1>3, <1>4, <1>5, <1>6, <1>7 DEF Next

\* What rows may be and what passes and requests may believe holds at all times.
THEOREM InductiveInvariant == Spec => []IInv
  <1>1. IInv /\ [Next]_vars => IInv'
    BY NextStep DEF Step
  <1> QED BY <1>1, Initially, PTL DEF Spec

\* TypeOK, with the link between a request and its pass, holds for all constants.
THEOREM TypeCorrect == Spec => []TypeOK
  <1>1. IInv => TypeOK
    <2> SUFFICES ASSUME IInv PROVE TypeOK
      OBVIOUS
    <2>1. LedgerTypeOK
      BY DEF IInv, LedgerOK, RunsOK, Good, InLine, LedgerTypeOK
    <2> QED BY <2>1 DEF IInv, OrchsOK, DesksOK, OrchRow, Desk, Linked, TypeOK
  <1> QED BY <1>1, InductiveInvariant, PTL

\* No gated task is claimed before an approval of it is on record.
THEOREM GateIsHeld == Spec => []GateHolds
  <1>1. IInv => GateHolds
    BY DEF IInv, LedgerOK, Good, GateHolds, Row
  <1> QED BY <1>1, InductiveInvariant, PTL

\* Nothing is reported done that was neither verified nor shown to be in production.
THEOREM DoneIsProven == Spec => []ClosedIsProven
  <1>1. IInv => ClosedIsProven
    BY DEF IInv, LedgerOK, Good, OrchsOK, OrchOK, ClosedIsProven
  <1> QED BY <1>1, InductiveInvariant, PTL

\* Late results and approvals are the only source of further attempts.
THEOREM AttemptsAreBounded == Spec => []AttemptsBounded
  <1>1. IInv => AttemptsBounded
    BY DEF IInv, LedgerOK, Good, AttemptsBounded
  <1> QED BY <1>1, InductiveInvariant, PTL

\* Only the error path of a submission writes over a task that has ended.
THEOREM FinalStays == Spec => FinalIsFinal
  <1>1. IInv /\ [Next]_vars =>
          \A t \in Orders : orch[t].state \in Terminal \ {"blocked"} /\ orch'[t].state # orch[t].state =>
            \E q \in Desks : desk[q].at = "fail" /\ desk[q].task = t
    BY NextStep DEF Step, FinalMoves
  <1> QED BY <1>1, InductiveInvariant, PTL DEF Spec, FinalIsFinal

\* Only a late result writes over a command that has ended.
THEOREM EndedStays == Spec => EndedUnlessLate
  <1>1. IInv /\ [Next]_vars =>
          [\A t \in Tasks : task[t].state \in Ended /\ task'[t] # task[t] =>
             \E r \in Runners : run[r].at = "settle" /\ run[r].task = t /\ Late(r)]_ledger
    BY NextStep DEF Step, EndedMoves
  <1> QED BY <1>1, InductiveInvariant, PTL DEF Spec, EndedUnlessLate
=============================================================================
