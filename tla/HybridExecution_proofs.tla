------------------------ MODULE HybridExecution_proofs ------------------------
(***************************************************************************)
(* Theorems about HybridExecution, for every set of jobs, devices and      *)
(* requests and every value of the other constants.                        *)
(*                                                                         *)
(* Everything rests on one inductive invariant, IInv: the types, what the  *)
(* columns of a row say about each other, and what a request that is about *)
(* to write may still rely on of the row it read.                          *)
(***************************************************************************)
EXTENDS HybridExecution, FiniteSetTheorems, TLAPS

\* The columns of a row agree; a lease counts as an attempt; a one-shot job
\* has been attempted at most once, and once attempted it never waits again.
RowOK(j, row) ==
  /\ row \in JobRow
  /\ row.status \in Active => row.dev \in Nodes /\ row.lease # "none"
  /\ row.status \in {"absent", "pending", "cancelled"} => row.dev = NoNode /\ row.lease = "none"
  /\ row.status = "completed" => row.dev \in Nodes /\ row.lease = "none"
  /\ row.status = "leased" => row.attempts >= 1
  /\ j \in OneShot => row.attempts <= 1
  /\ j \in OneShot /\ row.attempts = 1 => row.status \in {"leased", "completed", "failed"}

\* The job a request has read is there, its attempt_count has not fallen since,
\* a result belongs to a counted attempt, and only a corrupt payload is voided.
RequestOK(r) ==
  LET q == req[r] IN
  /\ q.pc \in {"lease", "void", "report"} => q.job \in Jobs
  /\ q.pc \in {"lease", "report"} => q.attempt <= job[q.job].attempts
  /\ q.pc = "report" => q.attempt >= 1 /\ q.verdict # "none"
  /\ q.pc = "void" => q.job \in Corrupt
  /\ q.pc = "requeue" => q.todo \subseteq Jobs \X {NoNode}

RowsOK == job \in [Jobs -> JobRow] /\ \A j \in Jobs : RowOK(j, job[j])

RequestsOK == req \in [Requests -> Request] /\ \A r \in Requests : RequestOK(r)

SettingsOK == fabric \in BOOLEAN /\ node \in [Nodes -> NodeRow] /\ deferred \subseteq Jobs

IInv == SettingsOK /\ RowsOK /\ RequestsOK

\* Every row of the next state is good and has no fewer attempts.
RowsStep ==
  /\ job' \in [Jobs -> JobRow]
  /\ \A j \in Jobs : \E row \in JobRow :
       job'[j] = row /\ RowOK(j, row) /\ job[j].attempts <= row.attempts

-----------------------------------------------------------------------------
(* Requests and rows one at a time. *)

LEMMA IdleOK ==
  /\ Idle \in Request
  /\ \A dev \in Nodes \cup {NoNode}, pc \in {"idle", "open", "nodes", "counts", "claim", "drain"} :
       [Idle EXCEPT !.pc = pc, !.dev = dev] \in Request
  <1>1. Idle \in Request
    BY DEF Idle, Request, MAX_ATTEMPTS
  <1>2. ASSUME NEW dev \in Nodes \cup {NoNode},
               NEW pc \in {"idle", "open", "nodes", "counts", "claim", "drain"}
        PROVE  [Idle EXCEPT !.pc = pc, !.dev = dev] \in Request
    BY <1>1 DEF Request
  <1> QED BY <1>1, <1>2

LEMMA RequeuedOK ==
  ASSUME NEW j \in Jobs, NEW row \in JobRow, RowOK(j, row), row.status \in Active,
         \/ row.status = "assigned"
         \/ row.attempts < MaxAttempts[j]
         \/ j \notin OneShot
  PROVE  RowOK(j, Requeued(row)) /\ Requeued(row).attempts = row.attempts
  <1> DEFINE new == Requeued(row)
  <1>1. /\ new \in JobRow
        /\ new.status = "pending" /\ new.dev = NoNode /\ new.lease = "none"
        /\ new.attempts = row.attempts
    BY DEF JobRow, Requeued, Status
  <1>2. j \in OneShot => row.attempts # 1
    BY HybridAssumption DEF RowOK, JobRow, OneShot, Active
  <1> HIDE DEF new
  <1>3. RowOK(j, new)
    BY <1>1, <1>2 DEF RowOK, Active
  <1> QED BY <1>1, <1>3 DEF new

LEMMA ReleasedOK ==
  ASSUME NEW j \in Jobs, NEW row \in JobRow, RowOK(j, row), NEW status,
         \/ status = "failed" /\ row.status \in Active
         \/ status = "cancelled" /\ row.status \in {"pending", "assigned"}
  PROVE  RowOK(j, Released(row, status)) /\ Released(row, status).attempts = row.attempts
  <1> DEFINE new == Released(row, status)
  <1>1. /\ new \in JobRow
        /\ new.status = status /\ new.dev = NoNode /\ new.lease = "none"
        /\ new.attempts = row.attempts
    BY DEF JobRow, Released, Status, Terminal
  <1> HIDE DEF new
  <1>2. RowOK(j, new)
    BY <1>1 DEF RowOK, Active
  <1> QED BY <1>1, <1>2 DEF new

LEMMA AssignedOK ==
  ASSUME NEW j \in Jobs, NEW row \in JobRow, RowOK(j, row), row.status = "pending", NEW n \in Nodes
  PROVE  LET new == [row EXCEPT !.status = "assigned", !.dev = n, !.lease = "live"]
         IN  new \in JobRow /\ RowOK(j, new) /\ row.attempts <= new.attempts
  <1> DEFINE new == [row EXCEPT !.status = "assigned", !.dev = n, !.lease = "live"]
  <1>1. /\ new \in JobRow
        /\ new.status = "assigned" /\ new.dev = n /\ new.lease = "live"
        /\ new.attempts = row.attempts
    BY DEF JobRow, Status, Active
  <1> HIDE DEF new
  <1>2. RowOK(j, new)
    BY <1>1 DEF RowOK, Active
  <1>3. row.attempts <= new.attempts
    BY <1>1 DEF JobRow, MAX_ATTEMPTS
  <1> QED BY <1>1, <1>2, <1>3 DEF new

\* A lease taken on an assigned row; a one-shot row was never attempted before.
LEMMA LeasedOK ==
  ASSUME NEW j \in Jobs, NEW row \in JobRow, RowOK(j, row), row.status = "assigned",
         row.attempts < MAX_ATTEMPTS
  PROVE  LET new == [row EXCEPT !.status = "leased", !.lease = "live", !.attempts = @ + 1]
         IN  new \in JobRow /\ RowOK(j, new) /\ row.attempts <= new.attempts
  <1> DEFINE new == [row EXCEPT !.status = "leased", !.lease = "live", !.attempts = @ + 1]
  <1>0. row.attempts \in 0 .. MAX_ATTEMPTS /\ row.attempts + 1 \in 0 .. MAX_ATTEMPTS
    BY DEF JobRow, MAX_ATTEMPTS
  <1>1. /\ new \in JobRow
        /\ new.status = "leased" /\ new.dev = row.dev /\ new.lease = "live"
        /\ new.attempts = row.attempts + 1
    BY <1>0 DEF JobRow, Status, Active
  <1> HIDE DEF new
  <1>2. RowOK(j, new)
    BY <1>0, <1>1 DEF RowOK, Active, MAX_ATTEMPTS
  <1>3. row.attempts <= new.attempts
    BY <1>0, <1>1 DEF MAX_ATTEMPTS
  <1> QED BY <1>1, <1>2, <1>3 DEF new

\* A status written in place: a claim that ends at once, or a success.
LEMMA EndedOK ==
  ASSUME NEW j \in Jobs, NEW row \in JobRow, RowOK(j, row), row.status \in Active
  PROVE  /\ LET new == [row EXCEPT !.status = "failed"]
            IN  new \in JobRow /\ RowOK(j, new) /\ row.attempts <= new.attempts
         /\ row.status = "leased" =>
              LET new == [row EXCEPT !.status = "completed", !.lease = "none"]
              IN  new \in JobRow /\ RowOK(j, new) /\ row.attempts <= new.attempts
  <1> DEFINE failed == [row EXCEPT !.status = "failed"]
             done == [row EXCEPT !.status = "completed", !.lease = "none"]
  <1>0. row.attempts \in Nat
    BY DEF JobRow, MAX_ATTEMPTS
  <1>1. failed \in JobRow /\ failed.status = "failed" /\ failed.attempts = row.attempts
    BY DEF JobRow, Status, Terminal
  <1>2. /\ done \in JobRow
        /\ done.status = "completed" /\ done.dev = row.dev /\ done.lease = "none"
        /\ done.attempts = row.attempts
    BY DEF JobRow, Status, Terminal
  <1> HIDE DEF failed, done
  <1>3. RowOK(j, failed) /\ row.attempts <= failed.attempts
    BY <1>0, <1>1 DEF RowOK, Active
  <1>4. RowOK(j, done) /\ row.attempts <= done.attempts
    BY <1>0, <1>2 DEF RowOK, Active
  <1> QED BY <1>1, <1>2, <1>3, <1>4 DEF failed, done

LEMMA RecoveredOK ==
  ASSUME NEW j \in Jobs, RowOK(j, job[j])
  PROVE  RowOK(j, Recovered(j)) /\ Recovered(j).attempts = job[j].attempts
  <1> DEFINE row == job[j]
  <1>1. row \in JobRow /\ MaxAttempts[j] \in Nat /\ row.attempts \in Nat
    BY HybridAssumption DEF RowOK, JobRow, MAX_ATTEMPTS
  <1>2. CASE row.lease # "lapsed" \/ row.status \notin Active
    BY <1>2 DEF Recovered
  <1>3. CASE row.lease = "lapsed" /\ row.status \in Active
    <2>1. CASE row.status = "leased" /\ row.attempts >= MaxAttempts[j]
      BY <1>1, <1>3, <2>1, ReleasedOK DEF Recovered
    <2>2. CASE row.status = "assigned" \/ row.attempts < MaxAttempts[j]
      <3>1. Recovered(j) = Requeued(row)
        BY <1>1, <1>3, <2>2 DEF Recovered
      <3> QED BY <1>1, <1>3, <2>2, <3>1, RequeuedOK
    <2> QED BY <1>1, <1>3, <2>1, <2>2 DEF Active
  <1> QED BY <1>2, <1>3

\* A step that replaces one row by a good one.
LEMMA OneRow ==
  ASSUME RowsOK, NEW j \in Jobs, NEW row \in JobRow, RowOK(j, row), job[j].attempts <= row.attempts,
         job' = [job EXCEPT ![j] = row]
  PROVE  RowsStep
  <1>1. job' \in [Jobs -> JobRow]
    BY DEF RowsOK
  <1>2. ASSUME NEW k \in Jobs
        PROVE  \E new \in JobRow : job'[k] = new /\ RowOK(k, new) /\ job[k].attempts <= new.attempts
    <2>1. CASE k = j
      BY <2>1 DEF RowsOK
    <2>2. CASE k # j
      <3>1. job'[k] = job[k] /\ job[k] \in JobRow /\ RowOK(k, job[k]) /\ job[k].attempts <= job[k].attempts
        BY <2>2 DEF RowsOK, JobRow, MAX_ATTEMPTS
      <3> QED BY <3>1
    <2> QED BY <2>1, <2>2
  <1> QED BY <1>1, <1>2 DEF RowsStep

LEMMA NoRow == ASSUME RowsOK, UNCHANGED job PROVE RowsStep
  <1>1. \A k \in Jobs : job'[k] = job[k] /\ job[k] \in JobRow /\ RowOK(k, job[k])
                        /\ job[k].attempts <= job[k].attempts
    BY DEF RowsOK, JobRow, MAX_ATTEMPTS
  <1> QED BY <1>1 DEF RowsStep, RowsOK

LEMMA RowsStepOK == ASSUME RowsStep PROVE RowsOK'
  BY DEF RowsStep, RowsOK, RowOK

\* A step that replaces one request by a good one, whatever it does to rows.
LEMMA OneRequest ==
  ASSUME RowsOK, RequestsOK, RowsStep, NEW r \in Requests, NEW q \in Request,
         q.pc \in {"lease", "void", "report"} => q.job \in Jobs,
         q.pc \in {"lease", "report"} => q.attempt <= job'[q.job].attempts,
         q.pc = "report" => q.attempt >= 1 /\ q.verdict # "none",
         q.pc = "void" => q.job \in Corrupt,
         q.pc = "requeue" => q.todo \subseteq Jobs \X {NoNode},
         req' = [req EXCEPT ![r] = q]
  PROVE  RequestsOK'
  <1>1. req' \in [Requests -> Request]
    BY DEF RequestsOK
  <1>2. ASSUME NEW s \in Requests PROVE RequestOK(s)'
    <2>1. CASE s = r
      BY <2>1 DEF RequestsOK, RequestOK
    <2>2. CASE s # r
      <3>1. req'[s] = req[s] /\ req[s] \in Request /\ RequestOK(s)
        BY <2>2 DEF RequestsOK
      <3>2. req[s].pc \in {"lease", "report"} => req[s].attempt <= job'[req[s].job].attempts
        BY <3>1 DEF RowsStep, RowsOK, RequestOK, Request, JobRow, MAX_ATTEMPTS
      <3> QED BY <3>1, <3>2 DEF RequestOK
    <2> QED BY <2>1, <2>2
  <1> QED BY <1>1, <1>2 DEF RequestsOK

LEMMA NoRequest ==
  ASSUME RowsOK, RequestsOK, RowsStep, UNCHANGED req
  PROVE  RequestsOK'
  <1>1. ASSUME NEW s \in Requests PROVE RequestOK(s)'
    <2>1. req'[s] = req[s] /\ req[s] \in Request /\ RequestOK(s)
      BY DEF RequestsOK
    <2>2. req[s].pc \in {"lease", "report"} => req[s].attempt <= job'[req[s].job].attempts
      BY <2>1 DEF RowsStep, RowsOK, RequestOK, Request, JobRow, MAX_ATTEMPTS
    <2> QED BY <2>1, <2>2 DEF RequestOK
  <1> QED BY <1>1 DEF RequestsOK
-----------------------------------------------------------------------------
LEMMA InitIInv == Init => IInv
  BY HybridAssumption
  DEF Init, IInv, SettingsOK, RowsOK, RequestsOK, RowOK, RequestOK, OneShot,
      JobRow, NodeRow, Request, Idle, Status, Active, Terminal, MAX_ATTEMPTS

\* A request that holds no row asks nothing of the job table.
LEMMA QuietRequest ==
  ASSUME RowsOK, RequestsOK, RowsStep, NEW r \in Requests, NEW q \in Request,
         q.pc \in {"idle", "open", "nodes", "counts", "jobs", "assign", "claim", "drain"},
         req' = [req EXCEPT ![r] = q]
  PROVE  RequestsOK'
  BY OneRequest

LEMMA GotoOK ==
  ASSUME RequestsOK, NEW r \in Requests, NEW pc \in {"nodes", "claim"}, Goto(r, pc)
  PROVE  \E q \in Request : q.pc = pc /\ req' = [req EXCEPT ![r] = q]
  <1>1. req[r].dev \in Nodes \cup {NoNode}
    BY DEF RequestsOK, Request
  <1>2. [Idle EXCEPT !.pc = pc, !.dev = req[r].dev] \in Request
    BY <1>1, IdleOK
  <1> QED BY <1>2 DEF Goto, Request, Idle

LEMMA EndPassOK ==
  ASSUME RequestsOK, NEW r \in Requests, EndPass(r)
  PROVE  \E q \in Request : q.pc \in {"idle", "claim"} /\ req' = [req EXCEPT ![r] = q]
  <1>1. CASE req[r].dev = NoNode
    BY <1>1, IdleOK DEF EndPass, Idle
  <1>2. CASE req[r].dev # NoNode
    BY <1>2, GotoOK DEF EndPass
  <1> QED BY <1>1, <1>2

LEMMA PassOK ==
  ASSUME NEW dev \in Nodes \cup {NoNode} PROVE Pass(dev) \in Request /\ Pass(dev).pc = "open"
  <1>1. Pass(dev) \in Request
    BY IdleOK DEF Pass
  <1>2. Pass(dev).pc = "open"
    BY DEF Pass, Idle
  <1> QED BY <1>1, <1>2

\* A new request takes an idle slot.
LEMMA ArriveOK ==
  ASSUME RowsOK, RequestsOK, RowsStep, NEW r \in Requests, NEW q \in Request,
         q.pc \in {"open", "drain"}, Arrive(r, q)
  PROVE  RequestsOK'
  BY QuietRequest DEF Arrive

-----------------------------------------------------------------------------
(* The steps of a scheduling pass. *)

LEMMA OpenStep == ASSUME IInv, NEW r \in Requests, Open(r) PROVE IInv'
  <1> USE DEF Open, IInv
  <1>1. RowsStep /\ RowsOK'
    BY NoRow, RowsStepOK
  <1>2. SettingsOK'
    BY DEF SettingsOK
  <1> DEFINE q == [req[r] EXCEPT !.pc = "requeue", !.todo = Lapsed \X {NoNode}]
  <1>3. q \in Request /\ q.pc = "requeue" /\ q.todo \subseteq Jobs \X {NoNode}
    BY ZenonT(60) DEF RequestsOK, Request, Lapsed
  <1>4. req' = [req EXCEPT ![r] = q]
    BY DEF RequestsOK
  <1> HIDE DEF q
  <1>5. RequestsOK'
    BY <1>1, <1>3, <1>4, OneRequest
  <1> QED BY <1>1, <1>2, <1>5

LEMMA RequeueStep == ASSUME IInv, NEW r \in Requests, Requeue(r) PROVE IInv'
  <1> USE DEF IInv
  <1>1. PICK t \in req[r].todo : PutBack(t[1]) /\ req' = [req EXCEPT ![r].todo = @ \ {t}]
    BY DEF Requeue
  <1>2. t[1] \in Jobs
    BY DEF RequestsOK, RequestOK, Requeue
  <1>3. RowsStep /\ RowsOK'
    <2>1. RowOK(t[1], Recovered(t[1])) /\ Recovered(t[1]).attempts = job[t[1]].attempts
      BY <1>2, RecoveredOK DEF RowsOK
    <2>2. Recovered(t[1]) \in JobRow /\ job[t[1]].attempts <= Recovered(t[1]).attempts
      BY <1>2, <2>1 DEF RowOK, RowsOK, JobRow, MAX_ATTEMPTS
    <2> QED BY <1>1, <1>2, <2>1, <2>2, OneRow, RowsStepOK DEF PutBack
  <1>4. SettingsOK'
    BY DEF SettingsOK, Requeue
  <1> DEFINE q == [req[r] EXCEPT !.todo = @ \ {t}]
  <1>5. q \in Request /\ q.pc = "requeue" /\ q.todo \subseteq Jobs \X {NoNode}
    BY SMTT(30) DEF RequestsOK, RequestOK, Request, Requeue
  <1>6. req' = [req EXCEPT ![r] = q]
    BY <1>1 DEF RequestsOK
  <1> HIDE DEF q
  <1>7. RequestsOK'
    BY <1>3, <1>5, <1>6, OneRequest
  <1> QED BY <1>3, <1>4, <1>7

LEMMA GateStep == ASSUME IInv, NEW r \in Requests, Gate(r) PROVE IInv'
  <1> USE DEF IInv
  <1>1. RowsStep /\ RowsOK'
    BY NoRow, RowsStepOK DEF Gate
  <1>2. SettingsOK'
    BY DEF SettingsOK, Gate
  <1>3. RequestsOK'
    BY <1>1, GotoOK, EndPassOK, QuietRequest DEF Gate
  <1> QED BY <1>1, <1>2, <1>3

LEMMA ReadNodesStep == ASSUME IInv, NEW r \in Requests, ReadNodes(r) PROVE IInv'
  <1> USE DEF IInv
  <1>1. RowsStep /\ RowsOK'
    BY NoRow, RowsStepOK DEF ReadNodes
  <1>2. SettingsOK'
    BY DEF SettingsOK, ReadNodes
  <1> DEFINE free == [n \in Nodes |-> IF Ready(n) THEN node[n].conc ELSE 0]
             q == [req[r] EXCEPT !.pc = "counts", !.free = free]
  <1>3. CASE req' = [req EXCEPT ![r].pc = "counts", ![r].free = free]
    <2>1. free \in [Nodes -> Nat]
      BY HybridAssumption DEF SettingsOK, NodeRow
    <2> HIDE DEF free
    <2>2. q \in Request /\ q.pc = "counts"
      BY <2>1, ZenonT(60) DEF RequestsOK, Request
    <2>3. req' = [req EXCEPT ![r] = q]
      BY <1>3 DEF RequestsOK
    <2> HIDE DEF q
    <2> QED BY <1>1, <1>2, <2>2, <2>3, QuietRequest
  <1>4. CASE EndPass(r)
    BY <1>1, <1>2, <1>4, EndPassOK, QuietRequest
  <1> QED BY <1>3, <1>4 DEF ReadNodes

LEMMA LessOK == ASSUME NEW cap \in Nat, NEW used \in Nat PROVE Less(cap, used) \in Nat
  BY DEF Less

LEMMA ReadCountsStep == ASSUME IInv, NEW r \in Requests, ReadCounts(r) PROVE IInv'
  <1> USE DEF IInv
  <1>1. RowsStep /\ RowsOK'
    BY NoRow, RowsStepOK DEF ReadCounts
  <1> DEFINE free == [n \in Nodes |-> Less(req[r].free[n], Cardinality(ActiveOn(n)))]
             q == [req[r] EXCEPT !.pc = "jobs", !.free = free]
  <1>2. free \in [Nodes -> Nat]
    <2>1. ASSUME NEW n \in Nodes PROVE Less(req[r].free[n], Cardinality(ActiveOn(n))) \in Nat
      <3>1. Cardinality(ActiveOn(n)) \in Nat
        BY HybridAssumption, FS_Subset, FS_CardinalityType DEF ActiveOn
      <3>2. req[r].free[n] \in Nat
        BY DEF RequestsOK, Request
      <3> QED BY <3>1, <3>2, LessOK
    <2> QED BY <2>1
  <1>3. req' = [req EXCEPT ![r] = q]
    BY DEF ReadCounts, RequestsOK
  <1> HIDE DEF free
  <1>4. q \in Request /\ q.pc = "jobs"
    BY <1>2, ZenonT(60) DEF RequestsOK, Request
  <1> HIDE DEF q
  <1> QED BY <1>1, <1>3, <1>4, QuietRequest DEF SettingsOK, ReadCounts

LEMMA ReadJobsStep == ASSUME IInv, NEW r \in Requests, ReadJobs(r) PROVE IInv'
  <1> USE DEF IInv
  <1>1. RowsStep /\ RowsOK'
    BY NoRow, RowsStepOK DEF ReadJobs
  <1>2. SettingsOK'
    BY DEF SettingsOK, ReadJobs
  <1> DEFINE due  == {j \in Jobs \ deferred : job[j].status = "pending"}
             todo == Placeable({<<j, job[j].last>> : j \in due}, req[r].free)
             q == [req[r] EXCEPT !.pc = "assign", !.todo = todo]
  <1>3. CASE req' = [req EXCEPT ![r].pc = "assign", ![r].todo = todo]
    <2>1. todo \in SUBSET (Jobs \X (Nodes \cup {NoNode}))
      BY DEF Placeable, RowsOK, JobRow
    <2> HIDE DEF todo
    <2>2. q \in Request /\ q.pc = "assign"
      BY <2>1, ZenonT(60) DEF RequestsOK, Request
    <2>3. req' = [req EXCEPT ![r] = q]
      BY <1>3 DEF RequestsOK
    <2> HIDE DEF q
    <2> QED BY <1>1, <1>2, <2>2, <2>3, QuietRequest
  <1>4. CASE EndPass(r)
    BY <1>1, <1>2, <1>4, EndPassOK, QuietRequest
  <1> QED BY <1>3, <1>4 DEF ReadJobs

\* Assign once its job and its device are chosen.
AssignTo(r, t, n) ==
  LET j     == t[1]
      taken == job[j].status = "pending"
      free  == IF taken THEN [req[r].free EXCEPT ![n] = @ - 1] ELSE req[r].free
      todo  == Placeable(req[r].todo \ {t}, free)
  IN
  /\ job' = IF taken
            THEN [job EXCEPT ![j].status = "assigned", ![j].dev = n, ![j].lease = "live"]
            ELSE job
  /\ IF todo = {}
     THEN EndPass(r)
     ELSE req' = [req EXCEPT ![r].free = free, ![r].todo = todo]

LEMMA AssignStep == ASSUME IInv, NEW r \in Requests, Assign(r) PROVE IInv'
  <1> USE DEF IInv
  <1>0. PICK t \in req[r].todo : \E n \in Preferred(t[1], t[2], req[r].free) : AssignTo(r, t, n)
    BY DEF Assign, AssignTo
  <1>1. PICK n \in Preferred(t[1], t[2], req[r].free) : AssignTo(r, t, n)
    BY <1>0
  <1> DEFINE j     == t[1]
             taken == job[j].status = "pending"
             free  == IF taken THEN [req[r].free EXCEPT ![n] = @ - 1] ELSE req[r].free
             todo  == Placeable(req[r].todo \ {t}, free)
             row   == [job[j] EXCEPT !.status = "assigned", !.dev = n, !.lease = "live"]
             q     == [req[r] EXCEPT !.free = free, !.todo = todo]
  <1>2. j \in Jobs
    BY DEF RequestsOK, Request
  <1>3. n \in Nodes /\ req[r].free[n] > 0
    BY <1>2, HybridAssumption DEF Preferred, Candidates
  <1>4. SettingsOK'
    BY DEF SettingsOK, Assign
  <1>5. RowsStep /\ RowsOK'
    <2>1. CASE taken
      <3>1. job' = [job EXCEPT ![j] = row]
        BY <1>1, <1>2, <2>1 DEF RowsOK, AssignTo
      <3>2. RowOK(j, job[j]) /\ job[j] \in JobRow
        BY <1>2 DEF RowsOK
      <3> HIDE DEF j
      <3>3. row \in JobRow /\ RowOK(j, row) /\ job[j].attempts <= row.attempts
        BY <1>2, <1>3, <2>1, <3>2, AssignedOK
      <3> HIDE DEF row
      <3> QED BY <1>2, <3>1, <3>3, OneRow, RowsStepOK
    <2>2. CASE ~taken
      BY <1>1, <2>2, NoRow, RowsStepOK DEF AssignTo
    <2> QED BY <2>1, <2>2
  <1>6. CASE EndPass(r)
    BY <1>4, <1>5, <1>6, EndPassOK, QuietRequest
  <1>7. CASE req' = [req EXCEPT ![r].free = free, ![r].todo = todo]
    <2>1. free \in [Nodes -> Nat]
      BY <1>3 DEF RequestsOK, Request
    <2>2. todo \in SUBSET (Jobs \X (Nodes \cup {NoNode}))
      BY DEF Placeable, RequestsOK, Request
    <2> HIDE DEF free, todo
    <2>5. req[r] \in Request /\ req[r].pc = "assign"
      BY DEF RequestsOK, Assign
    <2>3. q \in Request /\ q.pc = "assign"
      BY <2>1, <2>2, <2>5 DEF Request
    <2>4. req' = [req EXCEPT ![r] = q]
      BY <1>7 DEF RequestsOK
    <2> HIDE DEF q
    <2> QED BY <1>4, <1>5, <2>3, <2>4, QuietRequest
  <1> QED BY <1>1, <1>6, <1>7 DEF AssignTo

-----------------------------------------------------------------------------
(* The steps of polls and results. *)

LEMMA PollStep == ASSUME IInv, NEW r \in Requests, NEW n \in Nodes, Poll(r, n) PROVE IInv'
  <1> USE DEF IInv
  <1>1. RowsStep /\ RowsOK'
    BY NoRow, RowsStepOK DEF Poll
  <1>2. RequestsOK'
    BY <1>1, PassOK, ArriveOK DEF Poll
  <1> QED BY <1>1, <1>2 DEF SettingsOK, Poll

LEMMA ClaimStep == ASSUME IInv, NEW r \in Requests, Claim(r) PROVE IInv'
  <1> USE DEF IInv
  <1>1. RowsStep /\ RowsOK'
    BY NoRow, RowsStepOK DEF Claim
  <1>2. SettingsOK'
    BY DEF SettingsOK, Claim
  <1>3. CASE req' = [req EXCEPT ![r] = Idle]
    BY <1>1, <1>2, <1>3, IdleOK, QuietRequest DEF Idle
  <1>4. ASSUME NEW j \in Jobs, req' = [req EXCEPT ![r].pc = "lease", ![r].job = j,
                                                  ![r].attempt = job[j].attempts]
        PROVE  IInv'
    <2> DEFINE q == [req[r] EXCEPT !.pc = "lease", !.job = j, !.attempt = job[j].attempts]
    <2>1. req[r] \in Request /\ job[j].attempts \in 0 .. MAX_ATTEMPTS /\ job'[j] = job[j]
      BY DEF RequestsOK, RowsOK, JobRow, Claim
    <2>2. q \in Request /\ q.pc = "lease" /\ q.job = j /\ q.attempt = job[j].attempts
      BY <2>1 DEF Request
    <2>3. req' = [req EXCEPT ![r] = q]
      BY <1>4 DEF RequestsOK
    <2> HIDE DEF q
    <2>4. q.attempt <= job'[q.job].attempts
      BY <2>1, <2>2 DEF MAX_ATTEMPTS
    <2> QED BY <1>1, <1>2, <2>2, <2>3, <2>4, OneRequest
  <1> QED BY <1>3, <1>4 DEF Claim, ActiveOn

LEMMA ExhaustedStep == ASSUME IInv, NEW r \in Requests, ExhaustedWrite(r) PROVE IInv'
  <1> USE DEF IInv
  <1> DEFINE j == req[r].job
             row == [job[j] EXCEPT !.status = "failed"]
  <1>1. j \in Jobs /\ job[j] \in JobRow /\ RowOK(j, job[j])
    BY DEF RequestsOK, RequestOK, RowsOK, ExhaustedWrite
  <1>2. CASE job[j].status = "assigned"
    <2>1. job' = [job EXCEPT ![j] = row]
      BY <1>1, <1>2 DEF ExhaustedWrite, RowsOK
    <2> HIDE DEF j
    <2>2. row \in JobRow /\ RowOK(j, row) /\ job[j].attempts <= row.attempts
      BY <1>1, <1>2, EndedOK DEF Active
    <2> HIDE DEF row
    <2>3. RowsStep /\ RowsOK'
      BY <1>1, <2>1, <2>2, OneRow, RowsStepOK
    <2> QED BY <2>3, IdleOK, QuietRequest DEF ExhaustedWrite, Idle, SettingsOK
  <1>3. CASE job[j].status # "assigned"
    <2>1. RowsStep /\ RowsOK'
      BY <1>3, NoRow, RowsStepOK DEF ExhaustedWrite
    <2> QED BY <2>1, IdleOK, QuietRequest DEF ExhaustedWrite, Idle, SettingsOK
  <1> QED BY <1>2, <1>3

LEMMA LeaseStep == ASSUME IInv, NEW r \in Requests, LeaseWrite(r) PROVE IInv'
  <1> USE DEF IInv
  <1> DEFINE j == req[r].job
             row == [job[j] EXCEPT !.status = "leased", !.lease = "live", !.attempts = @ + 1]
             q == [req[r] EXCEPT !.pc = "void"]
             granted == /\ job[j].status = "assigned"
                        /\ job[j].dev = req[r].dev
                        /\ job[j].attempts < MAX_ATTEMPTS
  <1>1. j \in Jobs /\ job[j] \in JobRow /\ RowOK(j, job[j]) /\ req[r] \in Request
    BY DEF RequestsOK, RequestOK, RowsOK, LeaseWrite
  <1>2. SettingsOK'
    BY DEF SettingsOK, LeaseWrite
  <1>3. RowsStep /\ RowsOK'
    <2>1. CASE granted
      <3>1. job' = [job EXCEPT ![j] = row]
        BY <1>1, <2>1 DEF LeaseWrite, RowsOK
      <3> HIDE DEF j
      <3>2. row \in JobRow /\ RowOK(j, row) /\ job[j].attempts <= row.attempts
        BY <1>1, <2>1, LeasedOK
      <3> HIDE DEF row
      <3> QED BY <1>1, <3>1, <3>2, OneRow, RowsStepOK
    <2>2. CASE ~granted
      BY <2>2, NoRow, RowsStepOK DEF LeaseWrite
    <2> QED BY <2>1, <2>2
  <1>4. CASE req' = [req EXCEPT ![r] = Idle]
    BY <1>2, <1>3, <1>4, IdleOK, QuietRequest DEF Idle
  <1>5. CASE granted /\ j \in Corrupt /\ req' = [req EXCEPT ![r].pc = "void"]
    <2>1. q \in Request /\ q.pc = "void" /\ q.job = j
      BY <1>1 DEF Request
    <2>2. req' = [req EXCEPT ![r] = q]
      BY <1>5 DEF RequestsOK
    <2> HIDE DEF q
    <2> QED BY <1>1, <1>2, <1>3, <1>5, <2>1, <2>2, OneRequest
  <1> QED BY <1>4, <1>5 DEF LeaseWrite

LEMMA VoidStep == ASSUME IInv, NEW r \in Requests, VoidWrite(r) PROVE IInv'
  <1> USE DEF IInv
  <1> DEFINE j == req[r].job
             row == [job[j] EXCEPT !.status = "failed"]
  <1>1. j \in Jobs /\ job[j] \in JobRow /\ RowOK(j, job[j])
    BY DEF RequestsOK, RequestOK, RowsOK, VoidWrite
  <1>2. CASE job[j].status = "leased" /\ job[j].dev = req[r].dev
    <2>1. job' = [job EXCEPT ![j] = row]
      BY <1>1, <1>2 DEF VoidWrite, RowsOK
    <2> HIDE DEF j
    <2>2. row \in JobRow /\ RowOK(j, row) /\ job[j].attempts <= row.attempts
      BY <1>1, <1>2, EndedOK DEF Active
    <2> HIDE DEF row
    <2>3. RowsStep /\ RowsOK'
      BY <1>1, <2>1, <2>2, OneRow, RowsStepOK
    <2> QED BY <2>3, IdleOK, QuietRequest DEF VoidWrite, Idle, SettingsOK
  <1>3. CASE ~(job[j].status = "leased" /\ job[j].dev = req[r].dev)
    <2>1. RowsStep /\ RowsOK'
      BY <1>3, NoRow, RowsStepOK DEF VoidWrite
    <2> QED BY <2>1, IdleOK, QuietRequest DEF VoidWrite, Idle, SettingsOK
  <1> QED BY <1>2, <1>3

LEMMA ReportStep ==
  ASSUME IInv, NEW r \in Requests, NEW n \in Nodes, NEW j \in Jobs,
         NEW verdict \in {"success", "failure", "invalid"}, Report(r, n, j, verdict)
  PROVE  IInv'
  <1> USE DEF IInv
  <1> DEFINE q == [Idle EXCEPT !.pc = "report", !.dev = n, !.job = j,
                               !.attempt = job[j].attempts, !.verdict = verdict]
  <1>1. RowsStep /\ RowsOK'
    BY NoRow, RowsStepOK DEF Report
  <1>2. /\ job[j].attempts \in 0 .. MAX_ATTEMPTS /\ job[j].attempts >= 1 /\ job'[j] = job[j]
        /\ Idle \in Request
    BY IdleOK DEF RowsOK, RowOK, JobRow, Report
  <1>3. q \in Request /\ q.pc = "report" /\ q.job = j /\ q.attempt = job[j].attempts
        /\ q.verdict = verdict
    BY <1>2 DEF Request
  <1>4. req' = [req EXCEPT ![r] = q]
    BY DEF Report, Arrive
  <1> HIDE DEF q
  <1>5. q.attempt <= job'[q.job].attempts /\ q.attempt >= 1 /\ q.verdict # "none"
    BY <1>2, <1>3 DEF MAX_ATTEMPTS
  <1>6. RequestsOK'
    BY <1>1, <1>3, <1>4, <1>5, OneRequest
  <1> QED BY <1>1, <1>6 DEF SettingsOK, Report

LEMMA ReportWriteStep == ASSUME IInv, NEW r \in Requests, ReportWrite(r) PROVE IInv'
  <1> USE DEF IInv
  <1> DEFINE j == req[r].job
             row == Settled(r, job[j])
             held == job[j].status = "leased" /\ job[j].dev = req[r].dev
  <1>1. /\ j \in Jobs /\ job[j] \in JobRow /\ RowOK(j, job[j]) /\ req[r] \in Request
        /\ req[r].attempt >= 1 /\ MaxAttempts[j] \in 1 .. MAX_ATTEMPTS
    BY HybridAssumption DEF RequestsOK, RequestOK, RowsOK, ReportWrite
  <1>2. SettingsOK'
    BY DEF SettingsOK, ReportWrite
  <1>3. RowsStep /\ RowsOK'
    <2>1. CASE held
      <3>1. job' = [job EXCEPT ![j] = row]
        BY <1>1, <2>1 DEF ReportWrite, RowsOK
      <3>2. job[j].attempts \in Nat
        BY <1>1 DEF JobRow, MAX_ATTEMPTS
      <3>3. Retried(r) => job[j].attempts < MaxAttempts[j] \/ j \notin OneShot
        BY <1>1 DEF Retried, OneShot, Request, MAX_ATTEMPTS
      <3>4. row \in JobRow /\ RowOK(j, row) /\ job[j].attempts <= row.attempts
        <4>1. CASE req[r].verdict = "success"
          BY <1>1, <2>1, <4>1, EndedOK DEF Settled, Active
        <4>2. CASE req[r].verdict # "success" /\ ~Retried(r)
          <5>1. row = Released(job[j], "failed")
            BY <4>2 DEF Settled
          <5> HIDE DEF row, j
          <5>2. RowOK(j, row) /\ row.attempts = job[j].attempts
            BY <1>1, <2>1, <5>1, ReleasedOK DEF Active
          <5> QED BY <3>2, <5>2 DEF RowOK
        <4>3. CASE req[r].verdict # "success" /\ Retried(r)
          <5>1. row = Requeued(job[j])
            BY <4>3 DEF Settled
          <5> HIDE DEF row, j
          <5>2. RowOK(j, row) /\ row.attempts = job[j].attempts
            BY <1>1, <2>1, <3>3, <4>3, <5>1, RequeuedOK DEF Active
          <5> QED BY <3>2, <5>2 DEF RowOK
        <4> QED BY <4>1, <4>2, <4>3
      <3> HIDE DEF row, j
      <3> QED BY <1>1, <3>1, <3>4, OneRow, RowsStepOK
    <2>2. CASE ~held
      BY <2>2, NoRow, RowsStepOK DEF ReportWrite
    <2> QED BY <2>1, <2>2
  <1>4. CASE req' = [req EXCEPT ![r] = Idle]
    BY <1>2, <1>3, <1>4, IdleOK, QuietRequest DEF Idle
  <1>5. CASE req' = [req EXCEPT ![r] = Pass(NoNode)]
    BY <1>2, <1>3, <1>5, PassOK, QuietRequest
  <1> QED BY <1>4, <1>5 DEF ReportWrite

-----------------------------------------------------------------------------
(* The steps of administrators and of the environment. *)

LEMMA SubmitStep ==
  ASSUME IInv, NEW r \in Requests, NEW j \in Jobs, Submit(r, j) PROVE IInv'
  <1> USE DEF IInv
  <1> DEFINE row == [job[j] EXCEPT !.status = "pending"]
  <1>1. /\ job[j] \in JobRow /\ RowOK(j, job[j]) /\ job[j].status = "absent"
        /\ job' = [job EXCEPT ![j] = row]
    BY DEF RowsOK, Submit
  <1>2. /\ row \in JobRow
        /\ row.status = "pending" /\ row.dev = job[j].dev /\ row.lease = job[j].lease
        /\ row.attempts = job[j].attempts
    BY <1>1 DEF JobRow, Status
  <1> HIDE DEF row
  <1>3. RowOK(j, row) /\ job[j].attempts <= row.attempts
    BY <1>1, <1>2 DEF RowOK, JobRow, Active, MAX_ATTEMPTS
  <1>4. RowsStep /\ RowsOK'
    BY <1>1, <1>2, <1>3, OneRow, RowsStepOK
  <1>5. RequestsOK'
    BY <1>4, PassOK, ArriveOK DEF Submit
  <1>6. SettingsOK'
    BY DEF SettingsOK, Submit
  <1> QED BY <1>4, <1>5, <1>6

LEMMA CancelStep == ASSUME IInv, NEW j \in Jobs, Cancel(j) PROVE IInv'
  <1> USE DEF IInv
  <1> DEFINE row == Released(job[j], "cancelled")
  <1>1. /\ job[j] \in JobRow /\ RowOK(j, job[j]) /\ job[j].status \in {"pending", "assigned"}
        /\ job' = [job EXCEPT ![j] = row]
    BY DEF RowsOK, Cancel
  <1> HIDE DEF row
  <1>2. RowOK(j, row) /\ row.attempts = job[j].attempts
    BY <1>1, ReleasedOK DEF row
  <1>3. row \in JobRow /\ job[j].attempts <= row.attempts
    BY <1>1, <1>2 DEF RowOK, JobRow, MAX_ATTEMPTS
  <1>4. RowsStep /\ RowsOK'
    BY <1>1, <1>2, <1>3, OneRow, RowsStepOK
  <1> QED BY <1>4, NoRequest DEF SettingsOK, Cancel

LEMMA DashboardStep == ASSUME IInv, NEW j \in Jobs, Dashboard(j) PROVE IInv'
  <1> USE DEF IInv
  <1>1. RowOK(j, Recovered(j)) /\ Recovered(j).attempts = job[j].attempts
    BY RecoveredOK DEF RowsOK
  <1>2. Recovered(j) \in JobRow /\ job[j].attempts <= Recovered(j).attempts
    BY <1>1 DEF RowOK, RowsOK, JobRow, MAX_ATTEMPTS
  <1>3. RowsStep /\ RowsOK'
    BY <1>1, <1>2, OneRow, RowsStepOK DEF Dashboard, PutBack
  <1> QED BY <1>3, NoRequest DEF SettingsOK, Dashboard

LEMMA PauseStep == ASSUME IInv, NEW r \in Requests, Pause(r) PROVE IInv'
  <1> USE DEF IInv
  <1>1. RowsStep /\ RowsOK'
    BY NoRow, RowsStepOK DEF Pause
  <1> DEFINE q == [Idle EXCEPT !.pc = "drain"]
  <1>2. q \in Request /\ q.pc = "drain"
    BY DEF Idle, Request, MAX_ATTEMPTS
  <1>3. Arrive(r, q)
    BY DEF Pause
  <1> HIDE DEF q
  <1> QED BY <1>1, <1>2, <1>3, ArriveOK DEF SettingsOK, Pause

LEMMA ResumeStep == ASSUME IInv, NEW r \in Requests, Resume(r) PROVE IInv'
  <1> USE DEF IInv
  <1>1. RowsStep /\ RowsOK'
    BY NoRow, RowsStepOK DEF Resume
  <1> QED BY <1>1, PassOK, ArriveOK DEF SettingsOK, Resume

LEMMA PatchNodeStep ==
  ASSUME IInv, NEW r \in Requests, NEW n \in Nodes, NEW accepting \in BOOLEAN,
         NEW conc \in Concurrency, PatchNode(r, n, accepting, conc)
  PROVE  IInv'
  <1> USE DEF IInv
  <1>1. RowsStep /\ RowsOK'
    BY NoRow, RowsStepOK DEF PatchNode
  <1>2. SettingsOK'
    BY DEF SettingsOK, PatchNode, NodeRow
  <1> DEFINE q == [Idle EXCEPT !.pc = "drain", !.dev = n]
  <1>3. q \in Request /\ q.pc = "drain"
    <2>1. q \in Request
      BY IdleOK
    <2>2. q.pc = "drain"
      BY DEF Idle
    <2> QED BY <2>1, <2>2
  <1>4. Arrive(r, q) \/ Arrive(r, Pass(NoNode))
    BY DEF PatchNode
  <1> HIDE DEF q
  <1> QED BY <1>1, <1>2, <1>3, <1>4, PassOK, ArriveOK

LEMMA DrainStep == ASSUME IInv, NEW r \in Requests, Drain(r) PROVE IInv'
  <1> USE DEF IInv
  <1>1. ASSUME NEW j \in Jobs
        PROVE  \E row \in JobRow :
                 job'[j] = row /\ RowOK(j, row) /\ job[j].attempts <= row.attempts
    <2>1. job[j] \in JobRow /\ RowOK(j, job[j]) /\ job[j].attempts \in Nat
      BY DEF RowsOK, JobRow, MAX_ATTEMPTS
    <2>2. \/ job'[j] = job[j]
          \/ job'[j] = Requeued(job[j]) /\ job[j].status = "assigned"
      BY DEF Drain
    <2>3. CASE job'[j] = job[j]
      BY <2>1, <2>3
    <2>4. CASE job'[j] = Requeued(job[j]) /\ job[j].status = "assigned"
      <3>1. RowOK(j, Requeued(job[j])) /\ Requeued(job[j]).attempts = job[j].attempts
        BY <2>1, <2>4, RequeuedOK DEF Active
      <3>2. Requeued(job[j]) \in JobRow
        BY <3>1 DEF RowOK
      <3> QED BY <2>1, <2>4, <3>1, <3>2
    <2> QED BY <2>2, <2>3, <2>4
  <1>2. job' \in [Jobs -> JobRow]
    <2> DEFINE new(j) == IF job[j].status = "assigned"
                            /\ (req[r].dev = NoNode \/ job[j].dev = req[r].dev)
                         THEN Requeued(job[j]) ELSE job[j]
    <2>1. job' = [j \in Jobs |-> new(j)]
      BY DEF Drain
    <2>2. \A j \in Jobs : new(j) \in JobRow
      BY <1>1, <2>1
    <2> HIDE DEF new
    <2> QED BY <2>1, <2>2
  <1>3. RowsStep /\ RowsOK'
    BY <1>1, <1>2, RowsStepOK DEF RowsStep
  <1>4. CASE req' = [req EXCEPT ![r] = Idle]
    BY <1>3, <1>4, IdleOK, QuietRequest DEF Idle, SettingsOK, Drain
  <1>5. CASE req' = [req EXCEPT ![r] = Pass(NoNode)]
    BY <1>3, <1>5, PassOK, QuietRequest DEF SettingsOK, Drain
  <1> QED BY <1>4, <1>5 DEF Drain

LEMMA LapseStep == ASSUME IInv, NEW j \in Jobs, Lapse(j) PROVE IInv'
  <1> USE DEF IInv
  <1> DEFINE row == [job[j] EXCEPT !.lease = "lapsed"]
  <1>1. /\ job[j] \in JobRow /\ RowOK(j, job[j]) /\ job[j].status \in Active
        /\ job' = [job EXCEPT ![j] = row]
    BY DEF RowsOK, Lapse
  <1>2. /\ row \in JobRow
        /\ row.status = job[j].status /\ row.dev = job[j].dev /\ row.lease = "lapsed"
        /\ row.attempts = job[j].attempts
    BY <1>1 DEF JobRow, Status
  <1> HIDE DEF row
  <1>3. RowOK(j, row) /\ job[j].attempts <= row.attempts
    BY <1>1, <1>2 DEF RowOK, JobRow, Active, MAX_ATTEMPTS
  <1>4. RowsStep /\ RowsOK'
    BY <1>1, <1>2, <1>3, OneRow, RowsStepOK
  <1> QED BY <1>4, NoRequest DEF SettingsOK, Lapse

LEMMA OtherSteps ==
  ASSUME IInv,
         \/ \E j \in Jobs : FallDue(j)
         \/ \E n \in Nodes : FallSilent(n) \/ Reconnect(n) \/ Revoke(n)
         \/ UNCHANGED vars
  PROVE  IInv'
  <1> USE DEF IInv
  <1>1. UNCHANGED <<job, req>>
    BY DEF FallDue, FallSilent, Reconnect, Revoke, SetContact, vars
  <1>2. RowsStep /\ RowsOK'
    BY <1>1, NoRow, RowsStepOK
  <1>3. RequestsOK'
    BY <1>1, <1>2, NoRequest
  <1>4. SettingsOK'
    BY DEF SettingsOK, NodeRow, FallDue, FallSilent, Reconnect, Revoke, SetContact, vars
  <1> QED BY <1>2, <1>3, <1>4

LEMMA CrashStep == ASSUME IInv, NEW r \in Requests, Crash(r) PROVE IInv'
  <1> USE DEF IInv
  <1>1. RowsStep /\ RowsOK'
    BY NoRow, RowsStepOK DEF Crash
  <1> QED BY <1>1, IdleOK, QuietRequest DEF Crash, Idle, SettingsOK

-----------------------------------------------------------------------------
LEMMA NextIInv == IInv /\ [Next]_vars => IInv'
  <1> SUFFICES ASSUME IInv, [Next]_vars PROVE IInv'
    OBVIOUS
  <1>1. ASSUME NEW r \in Requests, NewRequest(r) PROVE IInv'
    BY <1>1, PollStep, ReportStep, SubmitStep, PauseStep, ResumeStep, PatchNodeStep
    DEF NewRequest
  <1>2. ASSUME NEW r \in Requests, Continue(r) PROVE IInv'
    BY <1>2, OpenStep, RequeueStep, GateStep, ReadNodesStep, ReadCountsStep, ReadJobsStep, AssignStep,
       ClaimStep, ExhaustedStep, LeaseStep, VoidStep, ReportWriteStep, DrainStep
    DEF Continue
  <1>3. ASSUME NEW r \in Requests, Crash(r) PROVE IInv'
    BY <1>3, CrashStep
  <1>4. ASSUME NEW j \in Jobs, Cancel(j) \/ Dashboard(j) \/ Lapse(j) PROVE IInv'
    BY <1>4, CancelStep, DashboardStep, LapseStep
  <1> QED BY <1>1, <1>2, <1>3, <1>4, OtherSteps DEF Next

\* The invariant the theorems below rest on.
THEOREM InductiveInvariant == Spec => []IInv
  BY InitIInv, NextIInv, PTL DEF Spec

\* Every variable keeps its type; in particular the counts a pass works with
\* never go negative and attempt_count stays within the table's CHECK.
THEOREM TypeCorrect == Spec => []TypeOK
  <1>1. IInv => TypeOK
    BY DEF IInv, TypeOK, SettingsOK, RowsOK, RequestsOK
  <1> QED BY <1>1, InductiveInvariant, PTL

\* A row's status, holder and lease agree, so that no row is lost to the queries
\* of requeueExpired and assignPending.
THEOREM RowsAreCoherent == Spec => []RowsCoherent
  <1>1. IInv => RowsCoherent
    BY DEF IInv, RowsOK, RowOK, RowsCoherent
  <1> QED BY <1>1, InductiveInvariant, PTL

\* A job with max_attempts 1 is leased at most once, whatever its requests read
\* before they write and however often its result is reported.
THEOREM OneShotSafe == Spec => []OneShotRunsOnce
  <1>1. IInv => OneShotRunsOnce
    BY DEF IInv, RowsOK, RowOK, OneShotRunsOnce, OneShot
  <1> QED BY <1>1, InductiveInvariant, PTL

-----------------------------------------------------------------------------
(* What a step may never do. *)

\* A step writes a row only from a status that is not terminal.
LEMMA TerminalStep ==
  ASSUME IInv, [Next]_vars, NEW j \in Jobs, job[j].status \in Terminal
  PROVE  job'[j].status = job[j].status
  <1> USE DEF IInv
  <1>0. job \in [Jobs -> JobRow] /\ job[j].status \notin Active \cup {"absent", "pending"}
    BY DEF RowsOK, Terminal, Active
  <1>1. ASSUME NEW r \in Requests, NewRequest(r) PROVE job'[j].status = job[j].status
    BY <1>0, <1>1 DEF NewRequest, Poll, Report, Submit, Pause, Resume, PatchNode
  <1>2. ASSUME NEW r \in Requests, Requeue(r) PROVE job'[j].status = job[j].status
    <2>1. PICK t \in req[r].todo : PutBack(t[1])
      BY <1>2 DEF Requeue
    <2> QED BY <1>0, <2>1 DEF PutBack, Recovered
  <1>3. ASSUME NEW r \in Requests, Assign(r) PROVE job'[j].status = job[j].status
    <2>1. PICK t \in req[r].todo : \E n \in Preferred(t[1], t[2], req[r].free) : AssignTo(r, t, n)
      BY <1>3 DEF Assign, AssignTo
    <2> QED BY <1>0, <2>1 DEF AssignTo
  <1>4. ASSUME NEW r \in Requests,
               ExhaustedWrite(r) \/ LeaseWrite(r) \/ VoidWrite(r) \/ ReportWrite(r) \/ Drain(r)
        PROVE  job'[j].status = job[j].status
    BY <1>0, <1>4 DEF ExhaustedWrite, LeaseWrite, VoidWrite, ReportWrite, Drain, Active
  <1>5. ASSUME NEW r \in Requests, Open(r) \/ Gate(r) \/ ReadNodes(r) \/ ReadCounts(r) \/ ReadJobs(r) \/ Claim(r)
        PROVE  job'[j].status = job[j].status
    BY <1>5 DEF Open, Gate, ReadNodes, ReadCounts, ReadJobs, Claim
  <1>6. ASSUME NEW k \in Jobs, Cancel(k) \/ Dashboard(k) \/ Lapse(k) \/ FallDue(k)
        PROVE  job'[j].status = job[j].status
    BY <1>0, <1>6 DEF Cancel, Dashboard, Lapsed, Lapse, FallDue, PutBack, Recovered, Active
  <1>7. CASE UNCHANGED job
    BY <1>7
  <1>8. (\E r \in Requests : Crash(r)) \/ (\E n \in Nodes : FallSilent(n) \/ Reconnect(n) \/ Revoke(n))
        \/ UNCHANGED vars => UNCHANGED job
    BY DEF Crash, FallSilent, Reconnect, Revoke, SetContact, vars
  <1> QED BY <1>1, <1>2, <1>3, <1>4, <1>5, <1>6, <1>7, <1>8 DEF Next, Continue

\* Terminal rows are never written again.
THEOREM TerminalStays == Spec => TerminalIsFinal
  <1>1. IInv /\ [Next]_vars
          => [\A j \in Jobs : job[j].status \in Terminal => job'[j].status = job[j].status]_vars
    BY TerminalStep
  <1> QED BY <1>1, InductiveInvariant, PTL DEF Spec, TerminalIsFinal

\* The request that ends a lease before its time reports or voids that lease.
LEMMA LiveLeaseStep ==
  ASSUME IInv, [Next]_vars, NEW j \in Jobs,
         job[j].status = "leased", job[j].lease = "live", job'[j].status # "leased"
  PROVE  \E r \in Requests : /\ req[r].pc \in {"report", "void"}
                             /\ req[r].job = j /\ req[r].dev = job[j].dev
                             /\ req'[r] # req[r]
  <1> USE DEF IInv
  <1>0. job \in [Jobs -> JobRow] /\ req \in [Requests -> Request]
    BY DEF RowsOK, RequestsOK
  <1>1. ASSUME NEW r \in Requests, NewRequest(r) PROVE FALSE
    BY <1>0, <1>1 DEF NewRequest, Poll, Report, Submit, Pause, Resume, PatchNode
  <1>2. ASSUME NEW r \in Requests, Requeue(r) PROVE FALSE
    <2>1. PICK t \in req[r].todo : PutBack(t[1])
      BY <1>2 DEF Requeue
    <2> QED BY <1>0, <2>1 DEF PutBack, Recovered
  <1>3. ASSUME NEW r \in Requests, Assign(r) PROVE FALSE
    <2>1. PICK t \in req[r].todo : \E n \in Preferred(t[1], t[2], req[r].free) : AssignTo(r, t, n)
      BY <1>3 DEF Assign, AssignTo
    <2> QED BY <1>0, <2>1 DEF AssignTo
  <1>4. ASSUME NEW r \in Requests, ExhaustedWrite(r) \/ LeaseWrite(r) \/ Drain(r) PROVE FALSE
    BY <1>0, <1>4 DEF ExhaustedWrite, LeaseWrite, Drain
  <1>5. ASSUME NEW r \in Requests, Open(r) \/ Gate(r) \/ ReadNodes(r) \/ ReadCounts(r) \/ ReadJobs(r) \/ Claim(r)
        PROVE  FALSE
    BY <1>5 DEF Open, Gate, ReadNodes, ReadCounts, ReadJobs, Claim
  <1>6. ASSUME NEW k \in Jobs, Cancel(k) \/ Dashboard(k) \/ Lapse(k) \/ FallDue(k) PROVE FALSE
    BY <1>0, <1>6 DEF Cancel, Dashboard, Lapsed, Lapse, FallDue, PutBack, Recovered, JobRow
  <1>7. ASSUME NEW r \in Requests, VoidWrite(r) \/ ReportWrite(r)
        PROVE  /\ req[r].pc \in {"report", "void"}
               /\ req[r].job = j /\ req[r].dev = job[j].dev
               /\ req'[r] # req[r]
    <2>1. Idle.pc = "idle" /\ Pass(NoNode).pc = "open"
      BY PassOK DEF Idle
    <2>2. req'[r].pc \in {"idle", "open"} /\ req[r].pc \in {"report", "void"}
      BY <1>0, <1>7, <2>1 DEF VoidWrite, ReportWrite
    <2>3. req[r].job = j /\ req[r].dev = job[j].dev
      BY <1>0, <1>7 DEF VoidWrite, ReportWrite
    <2> QED BY <2>2, <2>3
  <1>8. (\E r \in Requests : Crash(r)) \/ (\E n \in Nodes : FallSilent(n) \/ Reconnect(n) \/ Revoke(n))
        \/ UNCHANGED vars => UNCHANGED job
    BY DEF Crash, FallSilent, Reconnect, Revoke, SetContact, vars
  <1> QED BY <1>1, <1>2, <1>3, <1>4, <1>5, <1>6, <1>7, <1>8 DEF Next, Continue

\* Pausing, cancelling, switching a device off, revoking it and the results of
\* other devices all leave a live lease alone.
THEOREM LiveLeaseProtected == Spec => LiveLeaseEndsByHolder
  <1>1. IInv /\ [Next]_vars
          => [\A j \in Jobs :
                job[j].status = "leased" /\ job[j].lease = "live" /\ job'[j].status # "leased"
                  => \E r \in Requests : /\ req[r].pc \in {"report", "void"}
                                         /\ req[r].job = j /\ req[r].dev = job[j].dev
                                         /\ req'[r] # req[r]]_vars
    BY LiveLeaseStep
  <1> QED BY <1>1, InductiveInvariant, PTL DEF Spec, LiveLeaseEndsByHolder

\* A row is failed out of attempts, for a corrupt payload or for a rejected proof.
LEMMA FailureStep ==
  ASSUME IInv, [Next]_vars, NEW j \in Jobs, job[j].status # "failed", job'[j].status = "failed"
  PROVE  \/ job[j].attempts >= MaxAttempts[j]
         \/ j \in Corrupt
         \/ \E r \in Requests : req[r].pc = "report" /\ req[r].job = j /\ req[r].verdict = "invalid"
  <1> USE DEF IInv
  <1> DEFINE Cause == \/ job[j].attempts >= MaxAttempts[j]
                      \/ j \in Corrupt
                      \/ \E r \in Requests : req[r].pc = "report" /\ req[r].job = j
                                             /\ req[r].verdict = "invalid"
  <1>0. /\ job \in [Jobs -> JobRow] /\ req \in [Requests -> Request]
        /\ job[j].attempts \in Nat /\ MaxAttempts[j] \in Nat
    BY HybridAssumption DEF RowsOK, RequestsOK, JobRow, MAX_ATTEMPTS
  <1>1. ASSUME NEW r \in Requests, NewRequest(r) PROVE FALSE
    BY <1>0, <1>1 DEF NewRequest, Poll, Report, Submit, Pause, Resume, PatchNode, JobRow
  <1>2. ASSUME NEW r \in Requests, Requeue(r) PROVE Cause
    <2>1. PICK t \in req[r].todo : PutBack(t[1])
      BY <1>2 DEF Requeue
    <2>2. job'[j] = Recovered(j)
      BY <1>0, <2>1 DEF PutBack
    <2> QED BY <1>0, <2>2 DEF Recovered, Requeued, JobRow
  <1>3. ASSUME NEW r \in Requests, Assign(r) PROVE FALSE
    <2>1. PICK t \in req[r].todo : \E n \in Preferred(t[1], t[2], req[r].free) : AssignTo(r, t, n)
      BY <1>3 DEF Assign, AssignTo
    <2> QED BY <1>0, <2>1 DEF AssignTo
  <1>4. ASSUME NEW r \in Requests, LeaseWrite(r) \/ Drain(r) PROVE FALSE
    <2>1. Requeued(job[j]).status # "failed"
      BY <1>0 DEF Requeued, JobRow
    <2> QED BY <1>0, <1>4, <2>1 DEF LeaseWrite, Drain, JobRow
  <1>5. ASSUME NEW r \in Requests, Open(r) \/ Gate(r) \/ ReadNodes(r) \/ ReadCounts(r) \/ ReadJobs(r) \/ Claim(r)
        PROVE  FALSE
    BY <1>5 DEF Open, Gate, ReadNodes, ReadCounts, ReadJobs, Claim
  <1>6. ASSUME NEW k \in Jobs, Cancel(k) \/ Lapse(k) \/ FallDue(k) PROVE FALSE
    <2>1. Released(job[j], "cancelled").status = "cancelled"
      BY <1>0 DEF Released, JobRow
    <2> QED BY <1>0, <1>6, <2>1 DEF Cancel, Lapse, FallDue, JobRow
  <1>7. ASSUME NEW k \in Jobs, Dashboard(k) PROVE Cause
    <2>1. job'[j] = Recovered(j)
      BY <1>0, <1>7 DEF Dashboard, PutBack
    <2> QED BY <1>0, <2>1 DEF Recovered, Requeued, JobRow
  <1>8. ASSUME NEW r \in Requests, ExhaustedWrite(r) PROVE Cause
    <2>1. req[r].job = j /\ req[r].attempt >= MaxAttempts[j] /\ req[r].attempt <= job[j].attempts
      BY <1>0, <1>8 DEF ExhaustedWrite, RequestsOK, RequestOK
    <2>2. req[r].attempt \in Nat
      BY <1>0 DEF Request, MAX_ATTEMPTS
    <2> QED BY <1>0, <2>1, <2>2
  <1>9. ASSUME NEW r \in Requests, VoidWrite(r) PROVE Cause
    BY <1>0, <1>9 DEF VoidWrite, RequestsOK, RequestOK
  <1>10. ASSUME NEW r \in Requests, ReportWrite(r) PROVE Cause
    <2>1. req[r].pc = "report" /\ req[r].job = j /\ job'[j] = Settled(r, job[j])
      BY <1>0, <1>10 DEF ReportWrite
    <2>2. req[r].attempt \in Nat /\ req[r].attempt <= job[j].attempts /\ req[r].verdict # "none"
      BY <1>0, <2>1 DEF RequestsOK, RequestOK, Request, MAX_ATTEMPTS
    <2>3. req[r].verdict # "success" /\ ~Retried(r)
      BY <1>0, <2>1 DEF Settled, Requeued, JobRow
    <2>4. req[r].verdict = "invalid" \/ req[r].attempt >= MaxAttempts[j]
      BY <1>0, <2>1, <2>2, <2>3 DEF Retried, Request
    <2> QED BY <1>0, <2>1, <2>2, <2>4
  <1>11. (\E r \in Requests : Crash(r)) \/ (\E n \in Nodes : FallSilent(n) \/ Reconnect(n) \/ Revoke(n))
         \/ UNCHANGED vars => UNCHANGED job
    BY DEF Crash, FallSilent, Reconnect, Revoke, SetContact, vars
  <1> QED BY <1>1, <1>2, <1>3, <1>4, <1>5, <1>6, <1>7, <1>8, <1>9, <1>10, <1>11 DEF Next, Continue

\* No job is failed with attempts left, but for those two causes.
THEOREM FailuresHaveCause == Spec => FailsOnlyForCause
  <1>1. IInv /\ [Next]_vars
          => [\A j \in Jobs :
                job[j].status # "failed" /\ job'[j].status = "failed"
                  => \/ job[j].attempts >= MaxAttempts[j]
                     \/ j \in Corrupt
                     \/ \E r \in Requests : req[r].pc = "report" /\ req[r].job = j
                                            /\ req[r].verdict = "invalid"]_vars
    BY FailureStep
  <1> QED BY <1>1, InductiveInvariant, PTL DEF Spec, FailsOnlyForCause

-----------------------------------------------------------------------------
(* The fabric implements JobQueue. *)

\* What a step may do to a row, as far as the queue can see it.
RowMoves(j) ==
  LET old == job[j]
      new == job'[j]
  IN
  \/ /\ new.status = old.status /\ new.attempts = old.attempts
     /\ old.status = "leased" => new.dev = old.dev
  \/ /\ {old.status, new.status} \subseteq {"pending", "assigned"} /\ new.attempts = old.attempts
  \/ old.status = "absent" /\ new.status = "pending" /\ new.attempts = old.attempts
  \/ old.status = "assigned" /\ new.status = "leased" /\ new.attempts = old.attempts + 1
  \/ old.status = "leased" /\ new.status \in {"pending", "completed"} /\ new.attempts = old.attempts
  \/ old.status \in Active /\ new.status = "failed" /\ new.attempts = old.attempts
  \/ old.status \in {"pending", "assigned"} /\ new.status = "cancelled" /\ new.attempts = old.attempts

LEMMA WholeRows ==
  ASSUME NEW row \in JobRow
  PROVE  /\ Requeued(row).status = "pending" /\ Requeued(row).attempts = row.attempts
         /\ \A status \in {"failed", "cancelled"} :
              Released(row, status).status = status /\ Released(row, status).attempts = row.attempts
  BY DEF Requeued, Released, JobRow

LEMMA RecoveredMoves ==
  ASSUME IInv, NEW j \in Jobs, job'[j] = Recovered(j)
  PROVE  RowMoves(j)
  <1>1. job[j] \in JobRow
    BY DEF IInv, RowsOK
  <1> QED BY <1>1, WholeRows DEF RowMoves, Recovered, Active

LEMMA EveryRowMoves == ASSUME IInv, [Next]_vars, NEW j \in Jobs PROVE RowMoves(j)
  <1> USE DEF IInv
  <1>0. /\ job \in [Jobs -> JobRow] /\ job[j] \in JobRow
        /\ req \in [Requests -> Request]
    BY DEF RowsOK, RequestsOK
  <1>1. CASE job'[j] = job[j]
    BY <1>1 DEF RowMoves
  <1>2. ASSUME NEW r \in Requests, NewRequest(r) PROVE RowMoves(j)
    <2>1. CASE \E k \in Jobs : Submit(r, k)
      BY <1>0, <2>1 DEF Submit, RowMoves, JobRow
    <2>2. CASE ~\E k \in Jobs : Submit(r, k)
      BY <1>1, <1>2, <2>2 DEF NewRequest, Poll, Report, Pause, Resume, PatchNode
    <2> QED BY <2>1, <2>2
  <1>3. ASSUME NEW r \in Requests, Requeue(r) PROVE RowMoves(j)
    <2>1. PICK t \in req[r].todo : PutBack(t[1])
      BY <1>3 DEF Requeue
    <2>2. job'[j] = job[j] \/ job'[j] = Recovered(j)
      BY <1>0, <2>1 DEF PutBack
    <2> QED BY <1>1, <2>2, RecoveredMoves
  <1>4. ASSUME NEW r \in Requests, Assign(r) PROVE RowMoves(j)
    <2>1. PICK t \in req[r].todo : \E n \in Preferred(t[1], t[2], req[r].free) : AssignTo(r, t, n)
      BY <1>4 DEF Assign, AssignTo
    <2> QED BY <1>0, <2>1 DEF AssignTo, RowMoves, JobRow
  <1>5. ASSUME NEW r \in Requests, LeaseWrite(r) PROVE RowMoves(j)
    BY <1>0, <1>5 DEF LeaseWrite, RowMoves, JobRow
  <1>6. ASSUME NEW r \in Requests, ExhaustedWrite(r) \/ VoidWrite(r) PROVE RowMoves(j)
    BY <1>0, <1>6 DEF ExhaustedWrite, VoidWrite, RowMoves, JobRow, Active
  <1>7. ASSUME NEW r \in Requests, ReportWrite(r) PROVE RowMoves(j)
    <2>1. \/ job'[j] = job[j]
          \/ job[j].status = "leased" /\ job'[j] = Settled(r, job[j])
      BY <1>0, <1>7 DEF ReportWrite
    <2>2. CASE job[j].status = "leased" /\ job'[j] = Settled(r, job[j])
      BY <1>0, <2>2, WholeRows DEF Settled, RowMoves, JobRow, Active
    <2> QED BY <1>1, <2>1, <2>2
  <1>8. ASSUME NEW r \in Requests, Drain(r) PROVE RowMoves(j)
    <2>1. \/ job'[j] = job[j]
          \/ job[j].status = "assigned" /\ job'[j] = Requeued(job[j])
      BY <1>8 DEF Drain
    <2> QED BY <1>0, <1>1, <2>1, WholeRows DEF RowMoves
  <1>9. ASSUME NEW r \in Requests, Open(r) \/ Gate(r) \/ ReadNodes(r) \/ ReadCounts(r) \/ ReadJobs(r) \/ Claim(r)
        PROVE  RowMoves(j)
    BY <1>1, <1>9 DEF Open, Gate, ReadNodes, ReadCounts, ReadJobs, Claim
  <1>10. ASSUME NEW k \in Jobs, Cancel(k) PROVE RowMoves(j)
    <2>1. \/ job'[j] = job[j]
          \/ job[j].status \in {"pending", "assigned"} /\ job'[j] = Released(job[j], "cancelled")
      BY <1>0, <1>10 DEF Cancel
    <2> QED BY <1>0, <1>1, <2>1, WholeRows DEF RowMoves
  <1>11. ASSUME NEW k \in Jobs, Dashboard(k) PROVE RowMoves(j)
    <2>1. job'[j] = job[j] \/ job'[j] = Recovered(j)
      BY <1>0, <1>11 DEF Dashboard, PutBack
    <2> QED BY <1>1, <2>1, RecoveredMoves
  <1>12. ASSUME NEW k \in Jobs, Lapse(k) PROVE RowMoves(j)
    BY <1>0, <1>12 DEF Lapse, RowMoves, JobRow
  <1>13. (\E k \in Jobs : FallDue(k)) \/ (\E r \in Requests : Crash(r))
         \/ (\E n \in Nodes : FallSilent(n) \/ Reconnect(n) \/ Revoke(n)) \/ UNCHANGED vars
           => job'[j] = job[j]
    BY DEF FallDue, Crash, FallSilent, Reconnect, Revoke, SetContact, vars
  <1> QED BY <1>1, <1>2, <1>3, <1>4, <1>5, <1>6, <1>7, <1>8, <1>9, <1>10, <1>11, <1>12, <1>13
          DEF Next, Continue

\* The image of a row is an entry of the queue.
LEMMA QueueEntry ==
  ASSUME NEW j \in Jobs, NEW row \in JobRow, RowOK(j, row)
  PROVE  [phase |-> Phase(row), starts |-> row.attempts,
          runner |-> IF row.status = "leased" THEN row.dev ELSE NoNode] \in Queue!Entry
  <1>1. row.status = "leased" => row.dev \in Nodes
    BY DEF RowOK, Active
  <1>2. Phase(row) \in {"absent", "waiting", "running", "done", "failed", "cancelled"}
    BY DEF Phase, JobRow, Status, Active, Terminal
  <1>3. row.attempts \in Nat
    BY DEF JobRow, MAX_ATTEMPTS
  <1> QED BY <1>1, <1>2, <1>3 DEF Queue!Entry, Queue!Phases, Queue!Resting

\* What a row may do is what the queue lets an entry do.
LEMMA EveryEntryMoves ==
  ASSUME IInv, IInv', [Next]_vars, NEW j \in Jobs
  PROVE  Queue!Move(j) \/ AsQueue'[j] = AsQueue[j]
  <1> DEFINE old == job[j]
             new == job'[j]
  <1>1. /\ AsQueue[j] = [phase |-> Phase(old), starts |-> old.attempts,
                         runner |-> IF old.status = "leased" THEN old.dev ELSE NoNode]
        /\ AsQueue'[j] = [phase |-> Phase(new), starts |-> new.attempts,
                          runner |-> IF new.status = "leased" THEN new.dev ELSE NoNode]
    BY DEF AsQueue, Phase
  <1>2. RowMoves(j)
    BY EveryRowMoves
  <1>3. /\ old.attempts \in Nat /\ new.attempts \in Nat
        /\ new.status = "leased" => new.dev \in Nodes
        /\ j \in OneShot => new.attempts <= 1
        /\ j \in OneShot /\ new.status = "pending" => new.attempts # 1
        /\ old.status = "leased" => old.attempts >= 1
        /\ old.status \in Status
    BY DEF IInv, RowsOK, RowOK, JobRow, MAX_ATTEMPTS, Active
  <1>4. CASE /\ Phase(old) = Phase(new) /\ new.attempts = old.attempts
             /\ (old.status = "leased") = (new.status = "leased")
             /\ old.status = "leased" => new.dev = old.dev
    BY <1>1, <1>4
  <1>5. CASE old.status = "absent" /\ new.status = "pending" /\ new.attempts = old.attempts
    <2>1. Queue!Submit(j)
      BY <1>1, <1>3, <1>5 DEF Queue!Submit, Queue!Unheld, Phase
    <2> QED BY <2>1 DEF Queue!Move
  <1>6. CASE old.status = "assigned" /\ new.status = "leased" /\ new.attempts = old.attempts + 1
    <2>1. j \in OneShot => old.attempts = 0
      BY <1>3, <1>6
    <2>2. Queue!Start(j, new.dev)
      BY <1>1, <1>6, <2>1 DEF Queue!Start, Phase
    <2> QED BY <1>3, <1>6, <2>2 DEF Queue!Move
  <1>7. CASE old.status = "leased" /\ new.status = "pending" /\ new.attempts = old.attempts
    <2>1. Queue!Retry(j)
      BY <1>1, <1>3, <1>7 DEF Queue!Retry, Queue!Unheld, Phase
    <2> QED BY <2>1 DEF Queue!Move
  <1>8. CASE old.status = "leased" /\ new.status = "completed" /\ new.attempts = old.attempts
    <2>1. Queue!Finish(j)
      BY <1>1, <1>3, <1>8 DEF Queue!Finish, Queue!Unheld, Phase
    <2> QED BY <2>1 DEF Queue!Move
  <1>9. CASE old.status \in Active /\ new.status = "failed" /\ new.attempts = old.attempts
    <2>1. Queue!GiveUp(j)
      BY <1>1, <1>3, <1>9 DEF Queue!GiveUp, Queue!Unheld, Phase, Active
    <2> QED BY <2>1 DEF Queue!Move
  <1>10. CASE /\ old.status \in {"pending", "assigned"} /\ new.status = "cancelled"
              /\ new.attempts = old.attempts
    <2>1. Queue!Cancel(j)
      BY <1>1, <1>3, <1>10 DEF Queue!Cancel, Queue!Unheld, Phase
    <2> QED BY <2>1 DEF Queue!Move
  <1>11. \/ /\ new.status = old.status /\ new.attempts = old.attempts
            /\ old.status = "leased" => new.dev = old.dev
         \/ /\ {old.status, new.status} \subseteq {"pending", "assigned"}
            /\ new.attempts = old.attempts
         => /\ Phase(old) = Phase(new) /\ new.attempts = old.attempts
            /\ (old.status = "leased") = (new.status = "leased")
            /\ old.status = "leased" => new.dev = old.dev
    BY DEF Phase
  <1> QED BY <1>2, <1>4, <1>5, <1>6, <1>7, <1>8, <1>9, <1>10, <1>11 DEF RowMoves

LEMMA QueueInit == Init => Queue!Init
  BY DEF Init, Queue!Init, AsQueue, Phase

LEMMA QueueStep == IInv /\ IInv' /\ [Next]_vars => [Queue!Next]_AsQueue
  <1> SUFFICES ASSUME IInv, IInv', [Next]_vars PROVE Queue!Next
    OBVIOUS
  <1>1. AsQueue' \in [Jobs -> Queue!Entry]
    <2>1. ASSUME NEW j \in Jobs
          PROVE  [phase |-> Phase(job'[j]), starts |-> job'[j].attempts,
                  runner |-> IF job'[j].status = "leased" THEN job'[j].dev ELSE NoNode]
                   \in Queue!Entry
      <3>1. PICK row \in JobRow : job'[j] = row /\ RowOK(j, row)
        BY DEF IInv, RowsOK, RowOK
      <3>2. Phase(job'[j]) = Phase(row)
        BY <3>1 DEF Phase
      <3> QED BY <3>1, <3>2, QueueEntry DEF Phase
    <2> QED BY <2>1 DEF AsQueue, Phase
  <1>2. \A j \in Jobs : Queue!Move(j) \/ AsQueue'[j] = AsQueue[j]
    BY EveryEntryMoves
  <1> QED BY <1>1, <1>2 DEF Queue!Next

\* The fabric implements the queue it stands for.
THEOREM FabricImplementsQueue == Spec => ImplementsJobQueue
  <1> QED BY QueueInit, QueueStep, InductiveInvariant, PTL DEF Spec, Queue!Spec, ImplementsJobQueue

-----------------------------------------------------------------------------
(* How far a device can be overrun.  Room(n) holds one token for each         *)
(* assignment some pass may still make to n on the count it read.  A pass that *)
(* counts gains at most the tokens that, with the active jobs, make one        *)
(* complement; an assignment spends one; nothing else adds a job or a token.   *)

Tokens == Requests \X (1 .. MostSlots)

Room(n) ==
  {t \in Tokens : req[t[1]].pc \in {"jobs", "assign"} /\ t[2] <= req[t[1]].free[n]}

FreeOK ==
  \A r \in Requests : req[r].pc \in {"counts", "jobs", "assign"}
                        => \A n \in Nodes : req[r].free[n] <= MostSlots

CapOK(n) ==
  Cardinality(ActiveOn(n)) + Cardinality(Room(n)) <= MostSlots * Cardinality(Requests)

CapInv == FreeOK /\ \A n \in Nodes : CapOK(n)

\* A bounded set of numbers has a largest one.
LEMMA MostSlotsOK == MostSlots \in Nat \ {0} /\ \A c \in Concurrency : c <= MostSlots
  <1> DEFINE Largest(c) == c \in Concurrency /\ \A d \in Concurrency : d <= c
  <1>1. Concurrency \subseteq Nat \ {0} /\ Concurrency # {} /\ \A c \in Concurrency : c <= 8
    BY HybridAssumption DEF MAX_CONCURRENCY
  <1>2. \E c \in Concurrency : Largest(c)
    <2> DEFINE Within(k) == \A d \in Concurrency : d <= k
    <2>1. ASSUME NEW k \in Nat, Within(k + 1) PROVE Largest(k + 1) \/ Within(k)
      BY <1>1, <2>1
    <2>2. Within(8) /\ ~Within(0)
      <3>1. PICK d \in Concurrency : d \in Nat \ {0}
        BY <1>1
      <3>2. ~(d <= 0)
        BY <3>1
      <3> QED BY <1>1, <3>1, <3>2
    <2> HIDE DEF Within, Largest
    <2>3. /\ Within(8) => Largest(8) \/ Within(7)
          /\ Within(7) => Largest(7) \/ Within(6)
          /\ Within(6) => Largest(6) \/ Within(5)
          /\ Within(5) => Largest(5) \/ Within(4)
      BY <2>1, 7 + 1 = 8, 6 + 1 = 7, 5 + 1 = 6, 4 + 1 = 5
    <2>4. /\ Within(4) => Largest(4) \/ Within(3)
          /\ Within(3) => Largest(3) \/ Within(2)
          /\ Within(2) => Largest(2) \/ Within(1)
          /\ Within(1) => Largest(1) \/ Within(0)
      BY <2>1, 3 + 1 = 4, 2 + 1 = 3, 1 + 1 = 2, 0 + 1 = 1
    <2>5. \E c : Largest(c)
      BY <2>2, <2>3, <2>4
    <2> QED BY <2>5 DEF Largest
  <1>3. MostSlots \in Concurrency /\ \A d \in Concurrency : d <= MostSlots
    BY <1>2 DEF MostSlots
  <1> QED BY <1>1, <1>3

LEMMA SlotsFinite ==
  /\ Cardinality(Requests) \in Nat
  /\ \A R \in SUBSET Requests : \A k \in Nat :
       /\ IsFiniteSet(R \X (1 .. k))
       /\ Cardinality(R) \in Nat
       /\ Cardinality(R \X (1 .. k)) = Cardinality(R) * k
  <1>1. IsFiniteSet(Requests) /\ Cardinality(Requests) \in Nat
    BY HybridAssumption, FS_CardinalityType
  <1>2. ASSUME NEW R \in SUBSET Requests, NEW k \in Nat
        PROVE  /\ IsFiniteSet(R \X (1 .. k))
               /\ Cardinality(R) \in Nat
               /\ Cardinality(R \X (1 .. k)) = Cardinality(R) * k
    <2>1. IsFiniteSet(R) /\ Cardinality(R) \in Nat
      BY <1>1, FS_Subset, FS_CardinalityType
    <2>2. IsFiniteSet(1 .. k) /\ Cardinality(1 .. k) = k
      BY FS_Interval
    <2> QED BY <2>1, <2>2, FS_Product
  <1> QED BY <1>1, <1>2

LEMMA ActiveFinite ==
  ASSUME NEW n \in Nodes
  PROVE  /\ IsFiniteSet(ActiveOn(n)) /\ Cardinality(ActiveOn(n)) \in Nat
         /\ IsFiniteSet(ActiveOn(n)') /\ Cardinality(ActiveOn(n)') \in Nat
  BY HybridAssumption, FS_Subset, FS_CardinalityType DEF ActiveOn

LEMMA RoomFinite ==
  ASSUME NEW n \in Nodes
  PROVE  /\ IsFiniteSet(Room(n)) /\ Cardinality(Room(n)) \in Nat
         /\ IsFiniteSet(Room(n)') /\ Cardinality(Room(n)') \in Nat
  <1>1. IsFiniteSet(Tokens)
    BY MostSlotsOK, SlotsFinite DEF Tokens
  <1>2. Room(n) \subseteq Tokens /\ Room(n)' \subseteq Tokens
    BY DEF Room
  <1> QED BY <1>1, <1>2, FS_Subset, FS_CardinalityType

\* Fewer jobs and fewer tokens.
LEMMA Shrinks ==
  ASSUME NEW n \in Nodes, CapOK(n),
         ActiveOn(n)' \subseteq ActiveOn(n), Room(n)' \subseteq Room(n)
  PROVE  CapOK(n)'
  <1>1. Cardinality(ActiveOn(n)') <= Cardinality(ActiveOn(n))
    BY ActiveFinite, FS_Subset
  <1>2. Cardinality(Room(n)') <= Cardinality(Room(n))
    BY RoomFinite, FS_Subset
  <1>3. MostSlots * Cardinality(Requests) \in Nat
    BY MostSlotsOK, SlotsFinite
  <1> QED BY <1>1, <1>2, <1>3, ActiveFinite, RoomFinite DEF CapOK

\* What a step other than a count and an assignment does to a request.
CalmRequest(r) ==
  \/ req'[r] = req[r]
  \/ req'[r].pc \notin {"counts", "jobs", "assign"}
  \/ req[r].pc = "jobs" /\ req'[r].pc = "assign" /\ req'[r].free = req[r].free
  \/ req'[r].pc = "counts" /\ \A n \in Nodes : req'[r].free[n] <= MostSlots

CalmRow(j) ==
  \/ job'[j].status \notin Active
  \/ job[j].status \in Active /\ job'[j].dev = job[j].dev

Calm == (\A r \in Requests : CalmRequest(r)) /\ (\A j \in Jobs : CalmRow(j))

LEMMA CalmKeeps == ASSUME CapInv, Calm PROVE CapInv'
  <1>1. FreeOK'
    BY DEF CapInv, FreeOK, Calm, CalmRequest
  <1>2. ASSUME NEW n \in Nodes PROVE CapOK(n)'
    <2>1. ActiveOn(n)' \subseteq ActiveOn(n)
      BY DEF Calm, CalmRow, ActiveOn
    <2>2. Room(n)' \subseteq Room(n)
      BY DEF Calm, CalmRequest, Room, Tokens
    <2> QED BY <1>2, <2>1, <2>2, Shrinks DEF CapInv
  <1> QED BY <1>1, <1>2 DEF CapInv

LEMMA CalmSame == ASSUME IInv, NEW j \in Jobs, job'[j] = job[j] PROVE CalmRow(j)
  BY DEF CalmRow

\* A request replaced by one that holds no count.
LEMMA CalmOne ==
  ASSUME IInv, NEW r \in Requests, NEW q, req' = [req EXCEPT ![r] = q],
         q.pc \notin {"counts", "jobs", "assign"}
  PROVE  \A s \in Requests : CalmRequest(s)
  BY DEF IInv, RequestsOK, CalmRequest

LEMMA CalmNoRequest == ASSUME UNCHANGED req PROVE \A s \in Requests : CalmRequest(s)
  BY DEF CalmRequest

LEMMA CalmRecovered ==
  ASSUME IInv, NEW j \in Jobs, job'[j] = Recovered(j) PROVE CalmRow(j)
  <1>1. job[j] \in JobRow
    BY DEF IInv, RowsOK
  <1> QED BY <1>1, WholeRows DEF CalmRow, Recovered, Active

\* Rows: only an assignment makes a job active on a device.
LEMMA CalmRows ==
  ASSUME IInv, [Next]_vars, ~\E r \in Requests : Assign(r), NEW j \in Jobs
  PROVE  CalmRow(j)
  <1> USE DEF IInv
  <1>0. /\ job \in [Jobs -> JobRow] /\ job[j] \in JobRow
        /\ req \in [Requests -> Request]
    BY DEF RowsOK, RequestsOK
  <1>1. CASE job'[j] = job[j]
    BY <1>1, CalmSame
  <1>2. ASSUME NEW r \in Requests, NewRequest(r) PROVE CalmRow(j)
    <2>1. CASE \E k \in Jobs : Submit(r, k)
      BY <1>0, <2>1 DEF Submit, CalmRow, JobRow, Active
    <2>2. CASE ~\E k \in Jobs : Submit(r, k)
      BY <1>1, <1>2, <2>2 DEF NewRequest, Poll, Report, Pause, Resume, PatchNode
    <2> QED BY <2>1, <2>2
  <1>3. ASSUME NEW r \in Requests, Requeue(r) PROVE CalmRow(j)
    <2>1. PICK t \in req[r].todo : PutBack(t[1])
      BY <1>3 DEF Requeue
    <2>2. job'[j] = job[j] \/ job'[j] = Recovered(j)
      BY <1>0, <2>1 DEF PutBack
    <2> QED BY <1>1, <2>2, CalmRecovered
  <1>5. ASSUME NEW r \in Requests, LeaseWrite(r) PROVE CalmRow(j)
    BY <1>0, <1>5 DEF LeaseWrite, CalmRow, JobRow, Active
  <1>6. ASSUME NEW r \in Requests, ExhaustedWrite(r) \/ VoidWrite(r) PROVE CalmRow(j)
    BY <1>0, <1>6 DEF ExhaustedWrite, VoidWrite, CalmRow, JobRow, Active
  <1>7. ASSUME NEW r \in Requests, ReportWrite(r) PROVE CalmRow(j)
    <2>1. \/ job'[j] = job[j]
          \/ job'[j] = Settled(r, job[j])
      BY <1>0, <1>7 DEF ReportWrite
    <2>2. CASE job'[j] = Settled(r, job[j])
      BY <1>0, <2>2, WholeRows DEF Settled, CalmRow, JobRow, Active
    <2> QED BY <1>1, <2>1, <2>2
  <1>8. ASSUME NEW r \in Requests, Drain(r) PROVE CalmRow(j)
    <2>1. \/ job'[j] = job[j]
          \/ job'[j] = Requeued(job[j])
      BY <1>8 DEF Drain
    <2> QED BY <1>0, <1>1, <2>1, WholeRows DEF CalmRow, Active
  <1>9. ASSUME NEW r \in Requests, Open(r) \/ Gate(r) \/ ReadNodes(r) \/ ReadCounts(r) \/ ReadJobs(r) \/ Claim(r)
        PROVE  CalmRow(j)
    BY <1>1, <1>9 DEF Open, Gate, ReadNodes, ReadCounts, ReadJobs, Claim
  <1>10. ASSUME NEW k \in Jobs, Cancel(k) PROVE CalmRow(j)
    <2>1. \/ job'[j] = job[j]
          \/ job'[j] = Released(job[j], "cancelled")
      BY <1>0, <1>10 DEF Cancel
    <2> QED BY <1>0, <1>1, <2>1, WholeRows DEF CalmRow, Active
  <1>11. ASSUME NEW k \in Jobs, Dashboard(k) PROVE CalmRow(j)
    <2>1. job'[j] = job[j] \/ job'[j] = Recovered(j)
      BY <1>0, <1>11 DEF Dashboard, PutBack
    <2> QED BY <1>1, <2>1, CalmRecovered
  <1>12. ASSUME NEW k \in Jobs, Lapse(k) PROVE CalmRow(j)
    BY <1>0, <1>12 DEF Lapse, CalmRow, JobRow
  <1>13. (\E k \in Jobs : FallDue(k)) \/ (\E r \in Requests : Crash(r))
         \/ (\E n \in Nodes : FallSilent(n) \/ Reconnect(n) \/ Revoke(n)) \/ UNCHANGED vars
           => job'[j] = job[j]
    BY DEF FallDue, Crash, FallSilent, Reconnect, Revoke, SetContact, vars
  <1> QED BY <1>1, <1>2, <1>3, <1>5, <1>6, <1>7, <1>8, <1>9, <1>10, <1>11, <1>12, <1>13
          DEF Next, Continue

\* Requests: only ReadCounts changes what a pass may still assign, and only
\* Assign spends it.
LEMMA CalmEndPass ==
  ASSUME IInv, NEW r \in Requests, EndPass(r) PROVE \A s \in Requests : CalmRequest(s)
  <1>1. PICK q \in Request : q.pc \in {"idle", "claim"} /\ req' = [req EXCEPT ![r] = q]
    BY EndPassOK DEF IInv
  <1> QED BY <1>1, CalmOne

LEMMA CalmReadNodes ==
  ASSUME IInv, NEW r \in Requests, ReadNodes(r) PROVE \A s \in Requests : CalmRequest(s)
  <1>1. CASE EndPass(r)
    BY <1>1, CalmEndPass
  <1>2. CASE req' = [req EXCEPT ![r].pc = "counts",
                                ![r].free = [n \in Nodes |-> IF Ready(n) THEN node[n].conc ELSE 0]]
    <2>1. req \in [Requests -> Request] /\ node \in [Nodes -> NodeRow]
      BY DEF IInv, RequestsOK, SettingsOK
    <2>2. req'[r].pc = "counts"
      BY <1>2, <2>1 DEF Request
    <2>3. req'[r].free = [n \in Nodes |-> IF Ready(n) THEN node[n].conc ELSE 0]
      BY <1>2, <2>1 DEF Request
    <2>4. ASSUME NEW n \in Nodes PROVE req'[r].free[n] <= MostSlots
      <3>1. node[n].conc \in Concurrency
        BY <2>1 DEF NodeRow
      <3> QED BY <2>3, <3>1, MostSlotsOK
    <2>5. \A s \in Requests : s # r => req'[s] = req[s]
      BY <1>2, <2>1
    <2> QED BY <2>2, <2>4, <2>5 DEF CalmRequest
  <1> QED BY <1>1, <1>2 DEF ReadNodes

LEMMA CalmReadJobs ==
  ASSUME IInv, NEW r \in Requests, ReadJobs(r) PROVE \A s \in Requests : CalmRequest(s)
  <1>1. CASE EndPass(r)
    BY <1>1, CalmEndPass
  <1>2. ASSUME NEW todo, req' = [req EXCEPT ![r].pc = "assign", ![r].todo = todo]
        PROVE  \A s \in Requests : CalmRequest(s)
    <2>1. req \in [Requests -> Request] /\ req[r].pc = "jobs"
      BY DEF IInv, RequestsOK, ReadJobs
    <2>2. req'[r].pc = "assign" /\ req'[r].free = req[r].free
      BY <1>2, <2>1 DEF Request
    <2>3. \A s \in Requests : s # r => req'[s] = req[s]
      BY <1>2, <2>1
    <2> QED BY <2>1, <2>2, <2>3 DEF CalmRequest
  <1> QED BY <1>1, <1>2 DEF ReadJobs

LEMMA CalmOpen ==
  ASSUME IInv, NEW r \in Requests, Open(r) \/ Requeue(r) PROVE \A s \in Requests : CalmRequest(s)
  <1>1. PICK todo : req' = [req EXCEPT ![r].pc = "requeue", ![r].todo = todo]
    <2>1. CASE Open(r)
      BY <2>1 DEF Open
    <2>2. CASE Requeue(r)
      <3>1. PICK t \in req[r].todo : req' = [req EXCEPT ![r].todo = @ \ {t}]
        BY <2>2 DEF Requeue
      <3>2. req[r] = [req[r] EXCEPT !.pc = "requeue"]
        BY <2>2 DEF Requeue, IInv, RequestsOK, Request
      <3>3. req' = [req EXCEPT ![r] = [req[r] EXCEPT !.pc = "requeue", !.todo = @ \ {t}]]
        BY <3>1, <3>2 DEF IInv, RequestsOK, Request
      <3> QED BY <3>3
    <2> QED BY <2>1, <2>2
  <1>2. req' = [req EXCEPT ![r] = [req[r] EXCEPT !.pc = "requeue", !.todo = todo]]
    BY <1>1
  <1>3. [req[r] EXCEPT !.pc = "requeue", !.todo = todo].pc = "requeue"
    BY DEF IInv, RequestsOK, Request
  <1> QED BY <1>2, <1>3, CalmOne

LEMMA CalmArrive ==
  ASSUME IInv, NEW r \in Requests, NEW q, Arrive(r, q), q.pc \in {"open", "drain", "report"}
  PROVE  \A s \in Requests : CalmRequest(s)
  BY CalmOne DEF Arrive

LEMMA CalmNew ==
  ASSUME IInv, NEW r \in Requests, NewRequest(r) PROVE \A s \in Requests : CalmRequest(s)
  <1>1. ASSUME NEW n \in Nodes \cup {NoNode}, Arrive(r, Pass(n))
        PROVE  \A s \in Requests : CalmRequest(s)
    BY <1>1, PassOK, CalmArrive
  <1>2. ASSUME NEW n \in Nodes, Poll(r, n) PROVE \A s \in Requests : CalmRequest(s)
    BY <1>1, <1>2 DEF Poll
  <1>3. ASSUME NEW n \in Nodes, NEW j \in Jobs, NEW v, Report(r, n, j, v)
        PROVE  \A s \in Requests : CalmRequest(s)
    <2> DEFINE q == [Idle EXCEPT !.pc = "report", !.dev = n, !.job = j,
                                 !.attempt = job[j].attempts, !.verdict = v]
    <2>1. q.pc = "report"
      BY DEF Idle
    <2>2. Arrive(r, q)
      BY <1>3 DEF Report
    <2> HIDE DEF q
    <2> QED BY <2>1, <2>2, CalmArrive
  <1>4. ASSUME \E j \in Jobs : Submit(r, j) PROVE \A s \in Requests : CalmRequest(s)
    BY <1>1, <1>4 DEF Submit
  <1>5. ASSUME NEW q, q = [Idle EXCEPT !.pc = "drain"] \/ (\E n \in Nodes : q = [Idle EXCEPT !.pc = "drain", !.dev = n]),
               Arrive(r, q)
        PROVE  \A s \in Requests : CalmRequest(s)
    <2>1. q.pc = "drain"
      BY <1>5 DEF Idle
    <2> QED BY <1>5, <2>1, CalmArrive
  <1>6. ASSUME Pause(r) \/ Resume(r) PROVE \A s \in Requests : CalmRequest(s)
    BY <1>1, <1>5, <1>6 DEF Pause, Resume
  <1>7. ASSUME NEW n \in Nodes, NEW a \in BOOLEAN, NEW c \in Concurrency, PatchNode(r, n, a, c)
        PROVE  \A s \in Requests : CalmRequest(s)
    BY <1>1, <1>5, <1>7 DEF PatchNode
  <1> QED BY <1>2, <1>3, <1>4, <1>6, <1>7 DEF NewRequest

LEMMA CalmClaim ==
  ASSUME IInv, NEW r \in Requests, Claim(r) \/ ExhaustedWrite(r) \/ LeaseWrite(r) \/ VoidWrite(r)
                                   \/ ReportWrite(r) \/ Drain(r) \/ Gate(r) \/ Crash(r)
  PROVE  \A s \in Requests : CalmRequest(s)
  <1>0. req \in [Requests -> Request] /\ req[r] \in Request
    BY DEF IInv, RequestsOK
  <1>1. ASSUME req' = [req EXCEPT ![r] = Idle] PROVE \A s \in Requests : CalmRequest(s)
    BY <1>1, CalmOne DEF Idle
  <1>2. ASSUME NEW dev \in Nodes \cup {NoNode}, req' = [req EXCEPT ![r] = Pass(dev)]
        PROVE  \A s \in Requests : CalmRequest(s)
    BY <1>2, PassOK, CalmOne
  <1>3. CASE Claim(r)
    <2>1. CASE req' = [req EXCEPT ![r] = Idle]
      BY <1>1, <2>1
    <2>2. ASSUME NEW j, req' = [req EXCEPT ![r].pc = "lease", ![r].job = j, ![r].attempt = job[j].attempts]
          PROVE  \A s \in Requests : CalmRequest(s)
      <3>1. req'[r].pc = "lease"
        BY <1>0, <2>2 DEF Request
      <3>2. \A s \in Requests : s # r => req'[s] = req[s]
        BY <1>0, <2>2
      <3> QED BY <3>1, <3>2 DEF CalmRequest
    <2> QED BY <1>3, <2>1, <2>2 DEF Claim
  <1>4. CASE LeaseWrite(r)
    <2>1. CASE req' = [req EXCEPT ![r].pc = "void"]
      <3>1. req'[r].pc = "void"
        BY <1>0, <2>1 DEF Request
      <3>2. \A s \in Requests : s # r => req'[s] = req[s]
        BY <1>0, <2>1
      <3> QED BY <3>1, <3>2 DEF CalmRequest
    <2> QED BY <1>1, <1>4, <2>1 DEF LeaseWrite
  <1>5. CASE ExhaustedWrite(r) \/ VoidWrite(r) \/ Crash(r)
    BY <1>1, <1>5 DEF ExhaustedWrite, VoidWrite, Crash
  <1>6. CASE ReportWrite(r) \/ Drain(r)
    <2>1. req' = [req EXCEPT ![r] = Idle] \/ req' = [req EXCEPT ![r] = Pass(NoNode)]
      BY <1>6 DEF ReportWrite, Drain
    <2> QED BY <1>1, <1>2, <2>1
  <1>7. CASE Gate(r)
    <2>1. CASE EndPass(r)
      BY <2>1, CalmEndPass
    <2>2. CASE Goto(r, "nodes")
      <3>1. PICK q \in Request : q.pc = "nodes" /\ req' = [req EXCEPT ![r] = q]
        BY <2>2, GotoOK DEF IInv
      <3> QED BY <3>1, CalmOne
    <2> QED BY <1>7, <2>1, <2>2 DEF Gate
  <1> QED BY <1>3, <1>4, <1>5, <1>6, <1>7

LEMMA CalmRequests ==
  ASSUME IInv, [Next]_vars, ~\E r \in Requests : Assign(r) \/ ReadCounts(r)
  PROVE  \A s \in Requests : CalmRequest(s)
  <1>1. ASSUME NEW r \in Requests, NewRequest(r) \/ Continue(r) \/ Crash(r)
        PROVE  \A s \in Requests : CalmRequest(s)
    BY <1>1, CalmNew, CalmOpen, CalmReadNodes, CalmReadJobs, CalmClaim DEF Continue
  <1>2. ASSUME NEW j \in Jobs, Cancel(j) \/ Dashboard(j) \/ Lapse(j) \/ FallDue(j)
        PROVE  \A s \in Requests : CalmRequest(s)
    BY <1>2, CalmNoRequest DEF Cancel, Dashboard, Lapse, FallDue
  <1>3. ASSUME NEW n \in Nodes, FallSilent(n) \/ Reconnect(n) \/ Revoke(n)
        PROVE  \A s \in Requests : CalmRequest(s)
    BY <1>3, CalmNoRequest DEF FallSilent, Reconnect, Revoke, SetContact
  <1>4. CASE UNCHANGED vars
    BY <1>4, CalmNoRequest DEF vars
  <1> QED BY <1>1, <1>2, <1>3, <1>4 DEF Next

\* A count: the active jobs and the room the pass finds make one complement,
\* and the other passes hold at most one each.
LEMMA CountKeeps ==
  ASSUME IInv, CapInv, NEW r \in Requests, ReadCounts(r) PROVE CapInv'
  <1>0. req \in [Requests -> Request] /\ req[r] \in Request /\ req[r].pc = "counts"
    BY DEF IInv, RequestsOK, ReadCounts
  <1> DEFINE free == [n \in Nodes |-> Less(req[r].free[n], Cardinality(ActiveOn(n)))]
  <1>1. req'[r].pc = "jobs" /\ req'[r].free = free
    BY <1>0 DEF ReadCounts, Request
  <1>2. \A s \in Requests : s # r => req'[s] = req[s]
    BY <1>0 DEF ReadCounts
  <1>3. UNCHANGED job
    BY DEF ReadCounts
  <1>4. ASSUME NEW n \in Nodes
        PROVE  /\ free[n] \in Nat /\ free[n] <= MostSlots
               /\ free[n] = 0 \/ free[n] + Cardinality(ActiveOn(n)) <= MostSlots
    <2>1. req[r].free[n] \in Nat /\ req[r].free[n] <= MostSlots
      BY <1>0 DEF Request, CapInv, FreeOK
    <2>2. Cardinality(ActiveOn(n)) \in Nat
      BY ActiveFinite
    <2> QED BY <2>1, <2>2, MostSlotsOK DEF Less
  <1> HIDE DEF free
  <1>5. FreeOK'
    BY <1>1, <1>2, <1>4 DEF CapInv, FreeOK
  <1>6. ASSUME NEW n \in Nodes PROVE CapOK(n)'
    <2>1. ActiveOn(n)' = ActiveOn(n)
      BY <1>3 DEF ActiveOn
    <2>2. CASE free[n] = 0
      <3>1. Room(n)' \subseteq Room(n)
        BY <1>1, <1>2, <2>2 DEF Room, Tokens
      <3> QED BY <1>6, <2>1, <3>1, Shrinks DEF CapInv
    <2>3. CASE free[n] # 0
      <3> DEFINE others == (Requests \ {r}) \X (1 .. MostSlots)
                 mine   == {r} \X (1 .. free[n])
      <3>1. Room(n)' \subseteq others \cup mine
        BY <1>1, <1>2, <1>4 DEF Room, Tokens
      <3>2. /\ IsFiniteSet(others) /\ IsFiniteSet(mine)
            /\ Cardinality(others) = Cardinality(Requests \ {r}) * MostSlots
            /\ Cardinality(mine) = Cardinality({r}) * free[n]
            /\ Cardinality(Requests \ {r}) \in Nat /\ Cardinality({r}) \in Nat
        BY <1>4, MostSlotsOK, SlotsFinite
      <3>3. Cardinality({r}) = 1
        BY FS_Singleton
      <3>4. Cardinality(Requests \ {r}) = Cardinality(Requests) - 1
        BY HybridAssumption, FS_RemoveElement
      <3>5. others \cap mine = {}
        OBVIOUS
      <3> HIDE DEF others, mine
      <3>6. Cardinality(others \cup mine) = Cardinality(others) + Cardinality(mine)
            /\ IsFiniteSet(others \cup mine)
        <4>1. Cardinality(others) \in Nat /\ Cardinality(mine) \in Nat
          BY <3>2, FS_CardinalityType
        <4>2. Cardinality(others \cap mine) = 0
          BY <3>5, FS_EmptySet, Zenon
        <4>3. /\ IsFiniteSet(others \cup mine)
              /\ Cardinality(others \cup mine)
                   = Cardinality(others) + Cardinality(mine) - Cardinality(others \cap mine)
          BY <3>2, FS_Union, Zenon
        <4> QED BY <4>1, <4>2, <4>3
      <3>7. Cardinality(Room(n)') <= Cardinality(others \cup mine)
        BY <3>1, <3>6, FS_Subset
      <3>8. Cardinality(others) = MostSlots * Cardinality(Requests) - MostSlots
        <4>1. \A a, b \in Nat : (a - 1) * b = b * a - b
          OBVIOUS
        <4> QED BY <3>2, <3>4, <4>1, SlotsFinite, MostSlotsOK
      <3>9. Cardinality(mine) = free[n]
        BY <1>4, <3>2, <3>3
      <3>10. Cardinality(Room(n)') + Cardinality(ActiveOn(n)) <= MostSlots * Cardinality(Requests)
        <4>1. MostSlots * Cardinality(Requests) \in Nat
          BY MostSlotsOK, SlotsFinite
        <4> QED BY <1>4, <2>3, <3>6, <3>7, <3>8, <3>9, <4>1, RoomFinite, ActiveFinite, MostSlotsOK
      <3> QED BY <2>1, <3>10, RoomFinite, ActiveFinite DEF CapOK
    <2> QED BY <2>2, <2>3
  <1> QED BY <1>5, <1>6 DEF CapInv

\* An assignment to n spends a token of n for the job it makes active there.
LEMMA AssignKeeps ==
  ASSUME IInv, CapInv, NEW r \in Requests, Assign(r) PROVE CapInv'
  <1>0. /\ req \in [Requests -> Request] /\ req[r] \in Request /\ req[r].pc = "assign"
        /\ job \in [Jobs -> JobRow]
    BY DEF IInv, RequestsOK, RowsOK, Assign
  <1>1. PICK t \in req[r].todo : \E n \in Preferred(t[1], t[2], req[r].free) : AssignTo(r, t, n)
    BY DEF Assign, AssignTo
  <1>2. PICK n \in Preferred(t[1], t[2], req[r].free) : AssignTo(r, t, n)
    BY <1>1
  <1>3. t[1] \in Jobs
    BY <1>0 DEF Request
  <1>4. n \in Nodes /\ req[r].free[n] \in Nat /\ req[r].free[n] > 0 /\ req[r].free[n] <= MostSlots
    BY <1>0, <1>3, HybridAssumption DEF Preferred, Candidates, Request, CapInv, FreeOK
  <1> DEFINE taken == job[t[1]].status = "pending"
             free  == IF taken THEN [req[r].free EXCEPT ![n] = @ - 1] ELSE req[r].free
  <1>5. /\ \A s \in Requests : s # r => req'[s] = req[s]
        /\ req'[r].pc \notin {"counts", "jobs", "assign"} \/ req'[r].free = free
    <2>1. CASE EndPass(r)
      <3>1. PICK q \in Request : q.pc \in {"idle", "claim"} /\ req' = [req EXCEPT ![r] = q]
        BY <2>1, EndPassOK DEF IInv
      <3> QED BY <1>0, <3>1
    <2>2. ASSUME NEW todo, req' = [req EXCEPT ![r].free = free, ![r].todo = todo]
          PROVE  /\ \A s \in Requests : s # r => req'[s] = req[s]
                 /\ req'[r].free = free
      <3> HIDE DEF free
      <3> QED BY <1>0, <2>2 DEF Request
    <2> QED BY <1>2, <2>1, <2>2 DEF AssignTo
  <1>6. \A m \in Nodes : free[m] <= req[r].free[m] /\ req[r].free[m] \in Nat
    BY <1>0, <1>4 DEF Request
  <1>7. FreeOK'
    <2>1. \A m \in Nodes : free[m] \in Int /\ free[m] <= MostSlots
      BY <1>0, <1>4, <1>6, MostSlotsOK DEF Request, CapInv, FreeOK
    <2> HIDE DEF free
    <2> QED BY <1>5, <2>1 DEF CapInv, FreeOK
  <1>8. ASSUME NEW m \in Nodes PROVE Room(m)' \subseteq Room(m)
    <2>1. \A i \in 1 .. MostSlots : i <= free[m] => i <= req[r].free[m]
      <3>1. free[m] \in Int /\ free[m] <= req[r].free[m] /\ req[r].free[m] \in Nat
        BY <1>0, <1>4, <1>6 DEF Request
      <3> HIDE DEF free
      <3> QED BY <3>1, MostSlotsOK
    <2> HIDE DEF free
    <2> QED BY <1>0, <1>5, <2>1 DEF Room, Tokens
  <1>9. ASSUME NEW m \in Nodes, m # n \/ ~taken PROVE CapOK(m)'
    <2>1. ActiveOn(m)' \subseteq ActiveOn(m)
      BY <1>0, <1>2, <1>3, <1>9 DEF ActiveOn, AssignTo, JobRow
    <2> QED BY <1>8, <2>1, <1>9, Shrinks DEF CapInv
  <1>10. ASSUME taken PROVE CapOK(n)'
    <2> DEFINE token == <<r, req[r].free[n]>>
    <2>1. ActiveOn(n)' \subseteq ActiveOn(n) \cup {t[1]}
      BY <1>0, <1>2, <1>3, <1>10 DEF ActiveOn, AssignTo, JobRow
    <2>2. token \in Room(n)
      BY <1>0, <1>4, MostSlotsOK DEF Room, Tokens
    <2>3. token \notin Room(n)'
      <3>1. free[n] = req[r].free[n] - 1
        BY <1>0, <1>4, <1>10 DEF Request
      <3>2. ~(req[r].free[n] <= free[n])
        BY <1>4, <3>1
      <3> HIDE DEF free
      <3> QED BY <1>5, <3>2 DEF Room
    <2>4. Room(n)' \subseteq Room(n) \ {token}
      BY <1>4, <1>8, <2>3
    <2> HIDE DEF token
    <2>5. Cardinality(Room(n)') <= Cardinality(Room(n)) - 1
      <3>1. IsFiniteSet(Room(n) \ {token})
            /\ Cardinality(Room(n) \ {token}) = Cardinality(Room(n)) - 1
        BY <1>4, <2>2, RoomFinite, FS_RemoveElement
      <3>2. Cardinality(Room(n)') <= Cardinality(Room(n) \ {token})
        BY <2>4, <3>1, FS_Subset
      <3> QED BY <3>1, <3>2
    <2>6. Cardinality(ActiveOn(n)') <= Cardinality(ActiveOn(n)) + 1
      <3>1. /\ IsFiniteSet(ActiveOn(n) \cup {t[1]})
            /\ Cardinality(ActiveOn(n) \cup {t[1]}) <= Cardinality(ActiveOn(n)) + 1
        <4>1. IsFiniteSet(ActiveOn(n)) /\ Cardinality(ActiveOn(n)) \in Nat
          BY <1>4, ActiveFinite
        <4>2. /\ IsFiniteSet(ActiveOn(n) \cup {t[1]})
              /\ Cardinality(ActiveOn(n) \cup {t[1]})
                   = IF t[1] \in ActiveOn(n) THEN Cardinality(ActiveOn(n))
                                             ELSE Cardinality(ActiveOn(n)) + 1
          BY <4>1, FS_AddElement, Zenon
        <4> QED BY <4>1, <4>2
      <3>2. Cardinality(ActiveOn(n)') <= Cardinality(ActiveOn(n) \cup {t[1]})
        BY <2>1, <3>1, FS_Subset
      <3>3. Cardinality(ActiveOn(n) \cup {t[1]}) \in Nat
        BY <3>1, FS_CardinalityType
      <3> QED BY <1>4, <3>1, <3>2, <3>3, ActiveFinite
    <2>7. MostSlots * Cardinality(Requests) \in Nat
      BY MostSlotsOK, SlotsFinite
    <2> QED BY <1>4, <2>5, <2>6, <2>7, ActiveFinite, RoomFinite DEF CapInv, CapOK
  <1> QED BY <1>4, <1>7, <1>9, <1>10 DEF CapInv

LEMMA InitCapInv == Init => CapInv
  <1> SUFFICES ASSUME Init PROVE CapInv
    OBVIOUS
  <1>1. \A r \in Requests : req[r].pc = "idle"
    BY DEF Init, Idle
  <1>2. FreeOK
    BY <1>1 DEF FreeOK
  <1>3. ASSUME NEW n \in Nodes PROVE CapOK(n)
    <2>1. ActiveOn(n) = {}
      BY DEF Init, ActiveOn, Active
    <2>2. Room(n) = {}
      BY <1>1 DEF Room, Tokens
    <2>3. Cardinality(ActiveOn(n)) = 0 /\ Cardinality(Room(n)) = 0
      BY <2>1, <2>2, FS_EmptySet
    <2>4. MostSlots * Cardinality(Requests) \in Nat
      BY MostSlotsOK, SlotsFinite
    <2> QED BY <2>3, <2>4 DEF CapOK
  <1> QED BY <1>2, <1>3 DEF CapInv

LEMMA NextCapInv == IInv /\ CapInv /\ [Next]_vars => CapInv'
  <1> SUFFICES ASSUME IInv, CapInv, [Next]_vars PROVE CapInv'
    OBVIOUS
  <1>1. CASE \E r \in Requests : ReadCounts(r)
    BY <1>1, CountKeeps
  <1>2. CASE \E r \in Requests : Assign(r)
    BY <1>2, AssignKeeps
  <1>3. CASE ~\E r \in Requests : Assign(r) \/ ReadCounts(r)
    <2>1. \A s \in Requests : CalmRequest(s)
      BY <1>3, CalmRequests
    <2>2. \A j \in Jobs : CalmRow(j)
      BY <1>3, CalmRows
    <2> QED BY <2>1, <2>2, CalmKeeps DEF Calm
  <1> QED BY <1>1, <1>2, <1>3

\* However many passes count before any of them assigns, a device never holds
\* more active jobs than one full complement for each request in flight.
THEOREM OvercommitIsBounded == Spec => []OvercommitBounded
  <1>1. CapInv => OvercommitBounded
    <2>1. ASSUME CapInv, NEW n \in Nodes
          PROVE  Cardinality(ActiveOn(n)) <= MostSlots * Cardinality(Requests)
      <3>1. MostSlots * Cardinality(Requests) \in Nat
        BY MostSlotsOK, SlotsFinite
      <3> QED BY <2>1, <3>1, ActiveFinite, RoomFinite DEF CapInv, CapOK
    <2> QED BY <2>1 DEF OvercommitBounded
  <1> QED BY <1>1, InductiveInvariant, InitCapInv, NextCapInv, PTL DEF Spec
=============================================================================
