--------------------------- MODULE HybridExecution ---------------------------
(***************************************************************************)
(* The hybrid execution fabric (hybrid-execution.js): a job queue kept in  *)
(* D1, filled by administrators and drained by enrolled devices that poll  *)
(* the Control API.  A job is pending until a scheduling pass assigns it   *)
(* to a device, assigned until that device's poll leases it, and leased    *)
(* until the device reports a result or the lease lapses.                  *)
(*                                                                         *)
(* Every request runs in a Worker of its own and D1 serialises single      *)
(* statements only.  A request is therefore a process: each await on the   *)
(* database ends a step, what the request has read so far is kept in       *)
(* req[r], and the steps of several requests interleave.                   *)
(*                                                                         *)
(* Time is kept as what the code compares it with: a lease is "live" or    *)
(* "lapsed", a device "online" or "silent", a job due or deferred.         *)
(***************************************************************************)
EXTENDS Integers, FiniteSets

CONSTANTS
  Jobs,          \* rows hybrid_execution_jobs may come to hold
  Nodes,         \* enrolled devices
  Requests,      \* slots for requests in flight at the same time
  MaxAttempts,   \* max_attempts of each job
  Supports,      \* Supports[j]: devices of j's group with j's capabilities
  Corrupt,       \* jobs whose stored payload no longer passes sanitizePayload
  Concurrency,   \* values an administrator gives max_concurrency
  AutoNodes,     \* devices on which automatic execution was switched on
  Prompt,        \* devices that poll well within ASSIGNMENT_MS
  Events,        \* what administrators and the environment do in the instance
  NoJob, NoNode  \* SQL NULL

MAX_ATTEMPTS == 3
MAX_CONCURRENCY == 8

AllEvents == {"defer", "pause", "patch", "cancel", "dashboard", "silence",
              "revoke", "crash"}

ASSUME HybridAssumption ==
  /\ MaxAttempts \in [Jobs -> 1 .. MAX_ATTEMPTS]
  /\ Supports \in [Jobs -> SUBSET Nodes]
  /\ Corrupt \subseteq Jobs
  /\ Concurrency \subseteq Nat \ {0} /\ Concurrency # {}
  /\ \A c \in Concurrency : c <= MAX_CONCURRENCY
  /\ AutoNodes \subseteq Nodes
  /\ Prompt \subseteq Nodes
  /\ Events \subseteq AllEvents
  /\ NoJob \notin Jobs /\ NoNode \notin Nodes
  /\ IsFiniteSet(Jobs)       \* a table holds finitely many rows
  /\ IsFiniteSet(Requests)   \* finitely many requests overlap

VARIABLES
  fabric,        \* hybrid_execution_settings.enabled
  node,          \* hybrid_execution_nodes joined with device_registry
  job,           \* hybrid_execution_jobs
  deferred,      \* pending jobs whose not_before_at lies ahead
  req            \* the requests in flight and what each has read

vars == <<fabric, node, job, deferred, req>>

-----------------------------------------------------------------------------
(* The rows. *)

Terminal == {"completed", "failed", "cancelled"}
Active   == {"assigned", "leased"}
Status   == {"absent", "pending"} \cup Active \cup Terminal

JobRow == [status: Status, dev: Nodes \cup {NoNode}, last: Nodes \cup {NoNode},
           attempts: 0 .. MAX_ATTEMPTS, lease: {"none", "live", "lapsed"}]

NodeRow == [accepting: BOOLEAN, conc: Concurrency,
            contact: {"online", "silent", "revoked"}]

Request == [pc: {"idle", "open", "requeue", "nodes", "counts", "jobs", "assign", "claim", "lease",
                 "void", "report", "drain"},
            dev: Nodes \cup {NoNode}, job: Jobs \cup {NoJob},
            attempt: 0 .. MAX_ATTEMPTS, verdict: {"none", "success", "failure", "invalid"},
            free: [Nodes -> Nat], todo: SUBSET (Jobs \X (Nodes \cup {NoNode}))]

Idle == [pc |-> "idle", dev |-> NoNode, job |-> NoJob, attempt |-> 0,
         verdict |-> "none", free |-> [n \in Nodes |-> 0], todo |-> {}]

TypeOK ==
  /\ fabric \in BOOLEAN
  /\ node \in [Nodes -> NodeRow]
  /\ job \in [Jobs -> JobRow]
  /\ deferred \subseteq Jobs
  /\ req \in [Requests -> Request]

Init ==
  /\ fabric = TRUE
  /\ \E c \in [Nodes -> Concurrency] :
       node = [n \in Nodes |-> [accepting |-> n \in AutoNodes, conc |-> c[n],
                                contact |-> "online"]]
  /\ job = [j \in Jobs |-> [status |-> "absent", dev |-> NoNode, last |-> NoNode,
                            attempts |-> 0, lease |-> "none"]]
  /\ deferred = {}
  /\ req = [r \in Requests |-> Idle]

-----------------------------------------------------------------------------
(* What single statements do to a row. *)

\* Mutation: the holder is left in the row.
RequeuedKeepingHolder(row) ==
  [row EXCEPT !.status = "pending", !.last = row.dev, !.lease = "none"]

\* SET status='pending', last_device_id=assigned_device_id, assigned_device_id=NULL
Requeued(row) ==
  [row EXCEPT !.status = "pending", !.last = row.dev, !.dev = NoNode, !.lease = "none"]

\* The terminal form of the same statement.
Released(row, status) ==
  [row EXCEPT !.status = status, !.last = row.dev, !.dev = NoNode, !.lease = "none"]

\* Mutation: one attempt too many.
RecoveredOnceMore(j) ==
  LET row == job[j] IN
  IF row.lease # "lapsed" \/ row.status \notin Active THEN row
  ELSE IF row.status = "leased" /\ row.attempts > MaxAttempts[j]
       THEN Released(row, "failed")
       ELSE Requeued(row)

\* A row whose lease lapsed: out of attempts it fails, otherwise it is queued
\* again; an assignment nobody claimed costs no attempt.
Recovered(j) ==
  LET row == job[j] IN
  IF row.lease # "lapsed" \/ row.status \notin Active THEN row
  ELSE IF row.status = "leased" /\ row.attempts >= MaxAttempts[j]
       THEN Released(row, "failed")
       ELSE Requeued(row)

\* Mutation: only leases are looked for, not assignments.
LapsedLeases == {j \in Jobs : job[j].status = "leased" /\ job[j].lease = "lapsed"}

Lapsed == {j \in Jobs : job[j].status \in Active /\ job[j].lease = "lapsed"}

\* One UPDATE of requeueExpired.  It repeats the status and
\* `lease_expires_at < now` of the SELECT that listed the row, so it changes the
\* row only while a lease it read has lapsed; attempt_count and max_attempts do
\* not change during a lease.
PutBack(j) == job' = [job EXCEPT ![j] = Recovered(j)]

ActiveOn(n) == {j \in Jobs : job[j].status \in Active /\ job[j].dev = n}

Less(cap, used) == IF used < cap THEN cap - used ELSE 0

Ready(n) == node[n].accepting /\ node[n].contact = "online"

Candidates(j, free) == {n \in Supports[j] : free[n] > 0}

\* Mutation: the device that held the job last is as good as any.
PreferredAny(j, last, free) == Candidates(j, free)

\* Other devices are preferred to the one that held the job last.
Preferred(j, last, free) ==
  LET alternatives == Candidates(j, free) \ {last} IN
  IF alternatives # {} THEN alternatives ELSE Candidates(j, free)

Placeable(todo, free) == {t \in todo : Candidates(t[1], free) # {}}

Goto(r, pc) == req' = [req EXCEPT ![r] = [Idle EXCEPT !.pc = pc, !.dev = req[r].dev]]

\* assignPending has returned: a poll goes on to claimAssigned, the other
\* callers answer.
EndPass(r) ==
  IF req[r].dev = NoNode THEN req' = [req EXCEPT ![r] = Idle] ELSE Goto(r, "claim")

Arrive(r, request) == req[r] = Idle /\ req' = [req EXCEPT ![r] = request]

Pass(dev) == [Idle EXCEPT !.pc = "open", !.dev = dev]

-----------------------------------------------------------------------------
(* assignPending: one scheduling pass, run inside many requests. *)

\* requeueExpired lists the lapsed rows ...
Open(r) ==
  /\ req[r].pc = "open"
  /\ req' = [req EXCEPT ![r].pc = "requeue", ![r].todo = Lapsed \X {NoNode}]
  /\ UNCHANGED <<fabric, node, job, deferred>>

\* ... and updates them one at a time.
Requeue(r) ==
  /\ req[r].pc = "requeue"
  /\ \E t \in req[r].todo : /\ PutBack(t[1])
                            /\ req' = [req EXCEPT ![r].todo = @ \ {t}]
  /\ UNCHANGED <<fabric, node, deferred>>

\* readFabricSettings: the pass reads the global gate.
Gate(r) ==
  /\ req[r].pc = "requeue" /\ req[r].todo = {}
  /\ IF fabric THEN Goto(r, "nodes") ELSE EndPass(r)
  /\ UNCHANGED <<fabric, node, job, deferred>>

\* It reads the ready devices with their max_concurrency.
ReadNodes(r) ==
  /\ req[r].pc = "nodes"
  /\ IF \E n \in Nodes : Ready(n)
     THEN req' = [req EXCEPT ![r].pc = "counts",
                             ![r].free = [n \in Nodes |-> IF Ready(n) THEN node[n].conc ELSE 0]]
     ELSE EndPass(r)
  /\ UNCHANGED <<fabric, node, job, deferred>>

\* activeCounts: it works out what room each device has left.
ReadCounts(r) ==
  /\ req[r].pc = "counts"
  /\ req' = [req EXCEPT ![r].pc = "jobs",
                        ![r].free = [n \in Nodes |-> Less(@[n], Cardinality(ActiveOn(n)))]]
  /\ UNCHANGED <<fabric, node, job, deferred>>

\* It reads the due pending jobs.  Those no listed device can take now are left
\* out: the counts of a pass only grow, so it skips them whenever it gets there.
ReadJobs(r) ==
  LET due  == {j \in Jobs \ deferred : job[j].status = "pending"}
      todo == Placeable({<<j, job[j].last>> : j \in due}, req[r].free)
  IN
  /\ req[r].pc = "jobs"
  /\ IF todo = {}
     THEN EndPass(r)
     ELSE req' = [req EXCEPT ![r].pc = "assign", ![r].todo = todo]
  /\ UNCHANGED <<fabric, node, job, deferred>>

\* Mutation: the counts are not updated within a pass.
AssignUncounted(r) ==
  /\ req[r].pc = "assign"
  /\ \E t \in req[r].todo : \E n \in Preferred(t[1], t[2], req[r].free) :
       LET j     == t[1]
           taken == job[j].status = "pending"
           todo  == req[r].todo \ {t}
       IN
       /\ job' = IF taken
                 THEN [job EXCEPT ![j].status = "assigned", ![j].dev = n, ![j].lease = "live"]
                 ELSE job
       /\ IF todo = {} THEN EndPass(r) ELSE req' = [req EXCEPT ![r].todo = todo]
  /\ UNCHANGED <<fabric, node, deferred>>

\* One iteration of the loop over jobs.  The UPDATE is guarded by
\* status='pending' alone: the device, its count and the gate are as read.
Assign(r) ==
  /\ req[r].pc = "assign"
  /\ \E t \in req[r].todo : \E n \in Preferred(t[1], t[2], req[r].free) :
       LET j     == t[1]
           taken == job[j].status = "pending"
           free  == IF taken THEN [req[r].free EXCEPT ![n] = @ - 1] ELSE req[r].free
           todo  == Placeable(req[r].todo \ {t}, free)
       IN
       /\ job' = IF taken
                 THEN [job EXCEPT ![j].status = "assigned", ![j].dev = n, ![j].lease = "live"]
                 ELSE job
       /\ IF todo = {}
          THEN EndPass(r)
          ELSE req' = [req EXCEPT ![r].free = free, ![r].todo = todo]
  /\ UNCHANGED <<fabric, node, deferred>>

-----------------------------------------------------------------------------
(* The device's side: polls and results. *)

\* claimHybridFallback: a device that holds a valid token polls; a paused
\* fabric answers at once.
Poll(r, n) ==
  /\ node[n].contact # "revoked"
  /\ fabric
  /\ Arrive(r, Pass(n))
  /\ UNCHANGED <<fabric, node, job, deferred>>

\* claimAssigned reads the device's switches and one of its assignments.
Claim(r) ==
  LET n == req[r].dev
      mine == {j \in ActiveOn(n) : job[j].status = "assigned" /\ job[j].lease = "live"}
  IN
  /\ req[r].pc = "claim"
  /\ \/ /\ ~node[n].accepting \/ mine = {}
        /\ req' = [req EXCEPT ![r] = Idle]
     \/ /\ node[n].accepting
        /\ \E j \in mine : req' = [req EXCEPT ![r].pc = "lease", ![r].job = j,
                                              ![r].attempt = job[j].attempts]
  /\ UNCHANGED <<fabric, node, job, deferred>>

\* A row read with no attempt left is failed.  This UPDATE names neither the
\* device nor a new holder, so assigned_device_id and the lease stay behind.
ExhaustedWrite(r) ==
  LET j == req[r].job IN
  /\ req[r].pc = "lease"
  /\ req[r].attempt >= MaxAttempts[j]
  /\ job' = IF job[j].status = "assigned" THEN [job EXCEPT ![j].status = "failed"] ELSE job
  /\ req' = [req EXCEPT ![r] = Idle]
  /\ UNCHANGED <<fabric, node, deferred>>

\* The lease is granted if the row is still assigned to the device; the
\* table's CHECK (attempt_count BETWEEN 0 AND 3) aborts a statement beyond it.
LeaseWrite(r) ==
  LET j == req[r].job
      granted == /\ job[j].status = "assigned"
                 /\ job[j].dev = req[r].dev
                 /\ job[j].attempts < MAX_ATTEMPTS
  IN
  /\ req[r].pc = "lease"
  /\ req[r].attempt < MaxAttempts[j]
  /\ job' = IF granted
            THEN [job EXCEPT ![j].status = "leased", ![j].lease = "live",
                             ![j].attempts = @ + 1]
            ELSE job
  /\ req' = IF granted /\ j \in Corrupt
            THEN [req EXCEPT ![r].pc = "void"]
            ELSE [req EXCEPT ![r] = Idle]
  /\ UNCHANGED <<fabric, node, deferred>>

\* stored_payload_invalid: the lease just taken ends in failure.
VoidWrite(r) ==
  LET j == req[r].job IN
  /\ req[r].pc = "void"
  /\ job' = IF job[j].status = "leased" /\ job[j].dev = req[r].dev
            THEN [job EXCEPT ![j].status = "failed"]
            ELSE job
  /\ req' = [req EXCEPT ![r] = Idle]
  /\ UNCHANGED <<fabric, node, deferred>>

\* handleHybridAgentResult finds the job leased to the reporting device and
\* keeps the row while it reads the body.  "success" is a completed or an
\* auth_required run, "invalid" a browser run without its isolation proof.
\* An agent may report a run again: when its success report gets no answer in
\* time it reports a failure.
Report(r, n, j, verdict) ==
  /\ node[n].contact # "revoked"
  /\ job[j].status = "leased" /\ job[j].dev = n
  /\ Arrive(r, [Idle EXCEPT !.pc = "report", !.dev = n, !.job = j,
                            !.attempt = job[j].attempts, !.verdict = verdict])
  /\ UNCHANGED <<fabric, node, job, deferred>>

\* Mutation: the last attempt is not given.
RetriedOnceLess(r) ==
  req[r].verdict = "failure" /\ req[r].attempt + 1 < MaxAttempts[req[r].job]

Retried(r) ==
  req[r].verdict = "failure" /\ req[r].attempt < MaxAttempts[req[r].job]

Settled(r, row) ==
  IF req[r].verdict = "success"
  THEN [row EXCEPT !.status = "completed", !.lease = "none"]
  ELSE IF Retried(r) THEN Requeued(row) ELSE Released(row, "failed")

\* Mutation: the write does not ask again whether the job is still leased.
ReportWriteUnguarded(r) ==
  LET j == req[r].job
      held == job[j].dev = req[r].dev
  IN
  /\ req[r].pc = "report"
  /\ job' = IF held THEN [job EXCEPT ![j] = Settled(r, @)] ELSE job
  /\ req' = [req EXCEPT ![r] = IF held /\ Retried(r) THEN Pass(NoNode) ELSE Idle]
  /\ UNCHANGED <<fabric, node, deferred>>

\* The verdict is written if the job is leased to the device, whichever
\* attempt that lease belongs to; a retried job is scheduled at once.
ReportWrite(r) ==
  LET j == req[r].job
      held == job[j].status = "leased" /\ job[j].dev = req[r].dev
  IN
  /\ req[r].pc = "report"
  /\ job' = IF held THEN [job EXCEPT ![j] = Settled(r, @)] ELSE job
  /\ req' = [req EXCEPT ![r] = IF held /\ Retried(r) THEN Pass(NoNode) ELSE Idle]
  /\ UNCHANGED <<fabric, node, deferred>>
-----------------------------------------------------------------------------
(* The administrator's side. *)

\* POST /jobs inserts the row and schedules.
Submit(r, j) ==
  /\ job[j].status = "absent"
  /\ Arrive(r, Pass(NoNode))
  /\ job' = [job EXCEPT ![j].status = "pending"]
  /\ deferred' \in {deferred} \cup (IF "defer" \in Events THEN {deferred \cup {j}} ELSE {})
  /\ UNCHANGED <<fabric, node>>

\* POST /jobs/:id/cancel takes a job back until it is leased.
Cancel(j) ==
  /\ "cancel" \in Events
  /\ job[j].status \in {"pending", "assigned"}
  /\ job' = [job EXCEPT ![j] = Released(@, "cancelled")]
  /\ UNCHANGED <<fabric, node, deferred, req>>

\* GET /dashboard: listDashboard puts lapsed rows back before it reads.
Dashboard(j) ==
  /\ "dashboard" \in Events
  /\ j \in Lapsed
  /\ PutBack(j)
  /\ UNCHANGED <<fabric, node, deferred, req>>

\* PATCH /settings closes the gate and then, in another statement, takes every
\* assignment back; leases are left to run.
Pause(r) ==
  /\ "pause" \in Events
  /\ Arrive(r, [Idle EXCEPT !.pc = "drain"])
  /\ fabric' = FALSE
  /\ UNCHANGED <<node, job, deferred>>

\* PATCH /settings opens the gate and schedules.
Resume(r) ==
  /\ "pause" \in Events
  /\ Arrive(r, Pass(NoNode))
  /\ fabric' = TRUE
  /\ UNCHANGED <<node, job, deferred>>

\* PATCH /nodes/:id writes the device's switches (auto_execute and enabled are
\* only ever read together) and its concurrency; a device switched off loses
\* its assignments in a later statement.
PatchNode(r, n, accepting, conc) ==
  /\ "patch" \in Events
  /\ Arrive(r, IF accepting THEN Pass(NoNode) ELSE [Idle EXCEPT !.pc = "drain", !.dev = n])
  /\ node' = [node EXCEPT ![n].accepting = accepting, ![n].conc = conc]
  /\ UNCHANGED <<fabric, job, deferred>>

\* Mutation: leases are taken back with the assignments.
DrainActive(r) ==
  LET whole == req[r].dev = NoNode
      drained(j) == job[j].status \in Active /\ (whole \/ job[j].dev = req[r].dev)
  IN
  /\ req[r].pc = "drain"
  /\ job' = [j \in Jobs |-> IF drained(j) THEN Requeued(job[j]) ELSE job[j]]
  /\ req' = [req EXCEPT ![r] = IF whole THEN Idle ELSE Pass(NoNode)]
  /\ UNCHANGED <<fabric, node, deferred>>

\* The second statement of Pause (dev is NULL) and of PatchNode.
Drain(r) ==
  LET whole == req[r].dev = NoNode
      drained(j) == job[j].status = "assigned" /\ (whole \/ job[j].dev = req[r].dev)
  IN
  /\ req[r].pc = "drain"
  /\ job' = [j \in Jobs |-> IF drained(j) THEN Requeued(job[j]) ELSE job[j]]
  /\ req' = [req EXCEPT ![r] = IF whole THEN Idle ELSE Pass(NoNode)]
  /\ UNCHANGED <<fabric, node, deferred>>

-----------------------------------------------------------------------------
(* The environment. *)

\* lease_expires_at passes.  An assignment (two minutes) does not lapse on a
\* device that polls every ten seconds, unless the fabric is paused and its polls
\* are answered with nothing; a lease may lapse on any.
Lapse(j) ==
  /\ job[j].status \in Active /\ job[j].lease = "live"
  /\ job[j].status = "assigned" => job[j].dev \notin Prompt \/ ~fabric
  /\ job' = [job EXCEPT ![j].lease = "lapsed"]
  /\ UNCHANGED <<fabric, node, deferred, req>>

\* not_before_at is reached.
FallDue(j) ==
  /\ j \in deferred
  /\ deferred' = deferred \ {j}
  /\ UNCHANGED <<fabric, node, job, req>>

SetContact(n, contact) ==
  /\ node' = [node EXCEPT ![n].contact = contact]
  /\ UNCHANGED <<fabric, job, deferred, req>>

\* 90 seconds without a heartbeat, and the heartbeat that ends them.
FallSilent(n)  == "silence" \in Events /\ node[n].contact = "online" /\ SetContact(n, "silent")
Reconnect(n)   == node[n].contact = "silent" /\ SetContact(n, "online")

\* POST /devices/:id/revoke touches no row of the fabric.
Revoke(n) == "revoke" \in Events /\ node[n].contact # "revoked" /\ SetContact(n, "revoked")

\* A Worker is evicted, or a statement fails and the request ends with a 500.
Crash(r) ==
  /\ "crash" \in Events
  /\ req[r] # Idle
  /\ req' = [req EXCEPT ![r] = Idle]
  /\ UNCHANGED <<fabric, node, job, deferred>>

-----------------------------------------------------------------------------
Continue(r) ==
  \/ Open(r) \/ Requeue(r) \/ Gate(r) \/ ReadNodes(r) \/ ReadCounts(r)
  \/ ReadJobs(r) \/ Assign(r)
  \/ Claim(r) \/ ExhaustedWrite(r) \/ LeaseWrite(r) \/ VoidWrite(r)
  \/ ReportWrite(r)
  \/ Drain(r)

NewRequest(r) ==
  \/ \E n \in Nodes : Poll(r, n)
  \/ \E n \in Nodes, j \in Jobs, verdict \in {"success", "failure", "invalid"} :
       Report(r, n, j, verdict)
  \/ \E j \in Jobs : Submit(r, j)
  \/ Pause(r) \/ Resume(r)
  \/ \E n \in Nodes, accepting \in BOOLEAN, conc \in Concurrency :
       PatchNode(r, n, accepting, conc)

Next ==
  \/ \E r \in Requests : NewRequest(r) \/ Continue(r) \/ Crash(r)
  \/ \E j \in Jobs : Cancel(j) \/ Dashboard(j) \/ Lapse(j) \/ FallDue(j)
  \/ \E n \in Nodes : FallSilent(n) \/ Reconnect(n) \/ Revoke(n)

Spec == Init /\ [][Next]_vars

(* What keeps happening: a request runs to its end, time passes, the agents   *)
(* of prompt devices keep polling, and an open console keeps refreshing its  *)
(* dashboard.  Nothing is assumed of results, of other devices or of         *)
(* administrators.  A poll competes with other requests for a slot, hence    *)
(* the strong fairness.                                                      *)
Fairness ==
  /\ \A r \in Requests : WF_vars(Continue(r))
  /\ \A j \in Jobs : WF_vars(Lapse(j)) /\ WF_vars(Dashboard(j))
  /\ \A n \in Prompt : SF_vars(\E r \in Requests : Poll(r, n))

FairSpec == Spec /\ Fairness
-----------------------------------------------------------------------------
(* Safety. *)

\* A row's status, holder and lease always agree: requeueExpired looks only at
\* rows whose lease_expires_at is set and passes only at pending rows, so an
\* active row without a lease, or a pending row with a holder, would never be
\* touched again.
RowsCoherent ==
  \A j \in Jobs :
    /\ job[j].status \in Active => job[j].dev \in Nodes /\ job[j].lease # "none"
    /\ job[j].status \in {"absent", "pending", "cancelled"}
         => job[j].dev = NoNode /\ job[j].lease = "none"
    /\ job[j].status = "completed" => job[j].dev \in Nodes /\ job[j].lease = "none"

\* A job with max_attempts 1 (the slide audio insertion, every family run, a
\* browser run of the console) is leased at most once, however often its
\* result is reported and whatever its requests read before they write.
OneShot == {j \in Jobs : MaxAttempts[j] = 1}

OneShotRunsOnce ==
  \A j \in OneShot :
    /\ job[j].attempts <= 1
    /\ job[j].attempts = 1 => job[j].status \in {"leased", "completed", "failed"}

\* How far max_concurrency can be overrun by passes that each count before any
\* of them assigns: by no more than one full complement per request in flight.
MostSlots == CHOOSE c \in Concurrency : \A d \in Concurrency : d <= c

OvercommitBounded ==
  \A n \in Nodes :
    Cardinality(ActiveOn(n)) <= MostSlots * Cardinality(Requests)

\* A terminal row is never written again: late results, stale claims, requeues
\* and cancellations all miss it.
TerminalIsFinal ==
  [][\A j \in Jobs : job[j].status \in Terminal => job'[j].status = job[j].status]_vars

\* pauseKeepsLeasedJobsRunning, and the same for cancellation, for switching a
\* device off and for other devices' results: a live lease is ended only by a
\* request of the device that holds it.
LiveLeaseEndsByHolder ==
  [][\A j \in Jobs :
       job[j].status = "leased" /\ job[j].lease = "live" /\ job'[j].status # "leased"
         => \E r \in Requests : /\ req[r].pc \in {"report", "void"}
                                /\ req[r].job = j /\ req[r].dev = job[j].dev
                                /\ req'[r] # req[r]]_vars

\* No job is failed with attempts left, except for a result whose proof was
\* rejected or a stored payload that no longer passes the policy.
FailsOnlyForCause ==
  [][\A j \in Jobs :
       job[j].status # "failed" /\ job'[j].status = "failed"
         => \/ job[j].attempts >= MaxAttempts[j]
            \/ j \in Corrupt
            \/ \E r \in Requests : req[r].pc = "report" /\ req[r].job = j
                                   /\ req[r].verdict = "invalid"]_vars

\* With a single device that polls, every job submitted to a fabric that is not
\* paused for good comes to rest, even when other devices that look ready never
\* fetch what they are assigned: an unfetched assignment lapses, and the next pass
\* prefers another device.
EverySubmittedJobSettles ==
  <>[]fabric => \A j \in Jobs : job[j].status = "pending" ~> job[j].status \in Terminal

\* A fabric that stays paused comes to rest: what passes already under way
\* still assign, and what devices still run, ends up in the queue or settled.
PausedFabricDrains ==
  <>[]~fabric => <>[](\A j \in Jobs : job[j].status \notin Active)

\* The fabric implements the job queue it stands for: assignments, passes and
\* polls are invisible, a lease is a start.
Phase(row) ==
  CASE row.status \in {"absent", "failed", "cancelled"} -> row.status
    [] row.status \in {"pending", "assigned"} -> "waiting"
    [] row.status = "leased" -> "running"
    [] row.status = "completed" -> "done"

AsQueue ==
  [j \in Jobs |-> [phase  |-> Phase(job[j]),
                   runner |-> IF job[j].status = "leased" THEN job[j].dev ELSE NoNode,
                   starts |-> job[j].attempts]]

Queue == INSTANCE JobQueue WITH Workers <- Nodes, Nobody <- NoNode, queue <- AsQueue

ImplementsJobQueue == Queue!Spec
=============================================================================
