--------------------------- MODULE FamilyDispatch ---------------------------
(***************************************************************************)
(* AI family jobs (ai.family.codex, ai.family.claude-code): rows of the    *)
(* fabric's table with admission rules and a deadline of their own.  A     *)
(* super administrator's question is dispatched as a job, the console      *)
(* polls its status, a device runs it under a lease it renews, and the     *)
(* row fails when its deadline has passed.                                 *)
(*                                                                         *)
(* HybridExecution knows of time only whether a lease has lapsed.  Here    *)
(* deadlines, leases and the instants bound into statements are compared   *)
(* with each other, so there is a clock, one tick of which is a minute     *)
(* where the instance takes the code's durations.  The gate, the switches  *)
(* and the contact of devices are HybridExecution's subject: here the      *)
(* fabric is open and its devices are ready and able.                      *)
(***************************************************************************)
EXTENDS Integers, FiniteSets

CONSTANTS
  Jobs,                    \* rows the table may come to hold
  Devices, Requests,
  Key,                     \* Key[j]: requestKey, a hash of administrator, site and prompt
  Lane,                    \* Lane[j]: the task type
  Timeout,                 \* Timeout[j]: timeoutMs
  DefaultTimeout,          \* that of a row whose payload does not say
  MaxAttempts,             \* max_attempts of a job posted by hand
  LEASE, ASSIGNMENT, SLACK, \* LEASE_MS, ASSIGNMENT_MS and the minute after the deadline
  GlobalMax, ModelMax,     \* globalMaxJobs, perDeviceModelMax
  Concurrency,             \* Concurrency[d]: max_concurrency
  Overtime,                \* how long past its deadline an open row is watched (a bound)
  LastStart,               \* no job is created after this instant (a bound)
  Events,                  \* "post", "cancel", "crash", "beat", "large"
  NoJob, NoDevice

Lanes == {Lane[j] : j \in Jobs}

ASSUME FamilyAssumption ==
  /\ Timeout \in [Jobs -> Nat \ {0}] /\ DefaultTimeout \in Nat \ {0}
  /\ MaxAttempts \in [Jobs -> 1 .. 3]
  /\ LEASE \in Nat \ {0} /\ ASSIGNMENT \in Nat \ {0} /\ SLACK \in Nat
  /\ GlobalMax \in Nat /\ ModelMax \in Nat /\ Concurrency \in [Devices -> Nat \ {0}]
  /\ Overtime \in Nat /\ LastStart \in Nat
  /\ Events \subseteq {"post", "cancel", "crash", "beat", "large"}
  /\ NoJob \notin Jobs /\ NoDevice \notin Devices
  /\ IsFiniteSet(Jobs)

VARIABLES
  now,       \* the clock
  job,       \* the family rows of hybrid_execution_jobs
  told,      \* told[j]: the final states the console has been given for j
  req        \* the requests in flight

vars == <<now, job, told, req>>

Never == -1   \* lease_expires_at IS NULL

Held     == {"assigned", "leased"}
Open     == {"pending"} \cup Held
Terminal == {"completed", "failed", "cancelled"}

Row == [status: {"absent"} \cup Open \cup Terminal, via: {"dispatch", "post"},
        dev: Devices \cup {NoDevice}, attempts: 0 .. 3, created: Nat, lease: Int,
        kept: BOOLEAN]   \* kept: payload_json holds the payload, not '{}'

Request == [pc: {"idle", "lookup", "insert", "sweep", "sweeping", "lapsed", "requeue",
                 "counts", "models", "jobs", "place", "claim", "lease", "void", "verify",
                 "settle", "renew", "expire", "fresh"},
            dev: Devices \cup {NoDevice}, job: Jobs \cup {NoJob}, at: Nat, expires: Nat,
            attempt: 0 .. 3, verdict: {"none", "success", "failure"},
            todo: SUBSET Jobs, listed: SUBSET (Jobs \X Held \X (0 .. 3)),
            room: [Devices -> Nat], same: [Devices \X Lanes -> Nat]]

Idle == [pc |-> "idle", dev |-> NoDevice, job |-> NoJob, at |-> 0, expires |-> 0,
         attempt |-> 0, verdict |-> "none", todo |-> {}, listed |-> {},
         room |-> [d \in Devices |-> 0], same |-> [t \in Devices \X Lanes |-> 0]]

\* A waiting row names no device and has no lease, a held one has both.  (A
\* claim that fails a row leaves them there.)
HolderOK(row) ==
  /\ row.status \in Held => row.dev # NoDevice /\ row.lease # Never
  /\ row.status \in {"pending", "cancelled"} => row.dev = NoDevice /\ row.lease = Never

\* The types of the variables; every writer of a row leaves its holder and lease
\* in agreement with its status, or neither sweep would find it again.
TypeOK ==
  /\ now \in Nat
  /\ job \in [Jobs -> Row]
  /\ \A j \in Jobs : HolderOK(job[j])
  /\ told \in [Jobs -> SUBSET Terminal]
  /\ req \in [Requests -> Request]

Init ==
  /\ now = 0
  /\ job = [j \in Jobs |-> [status |-> "absent", via |-> "dispatch", dev |-> NoDevice,
                            attempts |-> 0, created |-> 0, lease |-> Never,
                            kept |-> TRUE]]
  /\ told = [j \in Jobs |-> {}]
  /\ req = [r \in Requests |-> Idle]

-----------------------------------------------------------------------------
Deadline(j) == job[j].created + IF job[j].kept THEN Timeout[j] ELSE DefaultTimeout

\* safeJson stores '{}' for a payload whose encoding is over MAX_PAYLOAD_BYTES.
Keeps == IF "large" \in Events THEN BOOLEAN ELSE {TRUE}

\* Mutation: a dispatched job may be tried as often as one posted by hand.
LimitAsPosted(j) == MaxAttempts[j]

Limit(j)    == IF job[j].via = "dispatch" THEN 1 ELSE MaxAttempts[j]
ActiveJobs  == {j \in Jobs : job[j].status \in Open}

\* The instant a statement was bound with may lie a little behind the one at
\* which the database runs it.
Recent == {t \in {now - 1, now} : t >= 0}

Smaller(a, b) == IF a <= b THEN a ELSE b
Less(cap, used) == IF used < cap THEN cap - used ELSE 0

Freed(row, status) == [row EXCEPT !.status = status, !.dev = NoDevice, !.lease = Never]

\* A row not yet inserted, and not the row of a request that is about to.
Fresh(j) == job[j].status = "absent" /\ \A r \in Requests : req[r].job # j

Pass(dev) == [Idle EXCEPT !.pc = "sweep", !.dev = dev]

Become(r, request) == req' = [req EXCEPT ![r] = request]
Arrive(r, request) == req[r] = Idle /\ Become(r, request)

\* A pass ends: a poll goes on to claimAssigned.
EndPass(r) ==
  Become(r, IF req[r].dev = NoDevice THEN Idle ELSE [Idle EXCEPT !.pc = "claim", !.dev = req[r].dev])

Created(via, kept) == [status |-> "pending", via |-> via, dev |-> NoDevice, attempts |-> 0,
                       created |-> now, lease |-> Never, kept |-> kept]

-----------------------------------------------------------------------------
(* enqueueFamilyDispatch, and the other way a family job is created. *)

\* The question is planned and the global count is read.
Dispatch(r, j) ==
  /\ now <= LastStart
  /\ Fresh(j)
  /\ Cardinality(ActiveJobs) < GlobalMax
  /\ Arrive(r, [Idle EXCEPT !.pc = "lookup", !.job = j])
  /\ UNCHANGED <<now, job, told>>

\* An open job with the same key, if its payload was kept, answers the request.
Lookup(r) ==
  LET same == {i \in ActiveJobs : /\ Lane[i] = Lane[req[r].job]
                                  /\ job[i].kept /\ Key[i] = Key[req[r].job]}
  IN
  /\ req[r].pc = "lookup"
  /\ Become(r, IF same # {} THEN Idle ELSE [req[r] EXCEPT !.pc = "insert"])
  /\ UNCHANGED <<now, job, told>>

\* Mutation: the insert does not count again.
InsertUncounted(r) ==
  /\ req[r].pc = "insert"
  /\ \E kept \in Keeps : job' = [job EXCEPT ![req[r].job] = Created("dispatch", kept)]
  /\ Become(r, Pass(NoDevice))
  /\ UNCHANGED <<now, told>>

\* INSERT ... SELECT ... WHERE (SELECT COUNT(*) ...) < globalMaxJobs.
Insert(r) ==
  LET admitted == Cardinality(ActiveJobs) < GlobalMax IN
  /\ req[r].pc = "insert"
  /\ \E kept \in Keeps :
       job' = IF admitted THEN [job EXCEPT ![req[r].job] = Created("dispatch", kept)] ELSE job
  /\ Become(r, IF admitted THEN Pass(NoDevice) ELSE Idle)
  /\ UNCHANGED <<now, told>>

\* POST /jobs takes the family types like any other: no count, no lookup.
Post(r, j) ==
  /\ "post" \in Events
  /\ now <= LastStart
  /\ Fresh(j)
  /\ Arrive(r, Pass(NoDevice))
  /\ \E kept \in Keeps : job' = [job EXCEPT ![j] = Created("post", kept)]
  /\ UNCHANGED <<now, told>>

\* POST /jobs/:id/cancel
Cancel(j) ==
  /\ "cancel" \in Events
  /\ job[j].status \in {"pending", "assigned"}
  /\ job' = [job EXCEPT ![j] = Freed(@, "cancelled")]
  /\ UNCHANGED <<now, told, req>>

-----------------------------------------------------------------------------
(* assignPending: the sweeps. *)

\* expireTimedOutFamilyJobs lists the open family rows ...
Sweep(r) ==
  /\ req[r].pc = "sweep"
  /\ Become(r, [req[r] EXCEPT !.pc = "sweeping", !.todo = ActiveJobs])
  /\ UNCHANGED <<now, job, told>>

\* ... and fails, one at a time, those whose deadline has passed.
SweepOne(r) ==
  /\ req[r].pc = "sweeping"
  /\ \E j \in req[r].todo :
       /\ job' = IF now > Deadline(j) /\ job[j].status \in Open
                 THEN [job EXCEPT ![j] = Freed(@, "failed")]
                 ELSE job
       /\ Become(r, [req[r] EXCEPT !.todo = @ \ {j}])
  /\ UNCHANGED <<now, told>>

\* requeueExpired lists the rows whose lease lies before its own instant, with
\* their status and attempts ...
ListLapsed(r) ==
  /\ req[r].pc = "sweeping" /\ req[r].todo = {}
  /\ \E at \in Recent :
       LET lapsed == {j \in Jobs : job[j].status \in Held /\ job[j].lease < at}
           listed == {<<j, job[j].status, job[j].attempts>> : j \in lapsed}
       IN
       Become(r, IF lapsed = {}
                 THEN [req[r] EXCEPT !.pc = "counts"]
                 ELSE [req[r] EXCEPT !.pc = "requeue", !.at = at, !.listed = listed])
  /\ UNCHANGED <<now, job, told>>

\* Mutation: the UPDATE does not compare the lease again.
LapsedStill(j, status, at) == job[j].status = status

\* status=? AND lease_expires_at < ?: a lease renewed since then is safe.
StillLapsed(j, status, at) == job[j].status = status /\ job[j].lease < at

\* ... and fails or requeues them, one at a time, by what was listed.
RequeueOne(r) ==
  /\ req[r].pc = "requeue"
  /\ \E t \in req[r].listed :
       LET spent == t[2] = "leased" /\ t[3] >= Limit(t[1])
           rest  == req[r].listed \ {t}
       IN
       /\ job' = IF StillLapsed(t[1], t[2], req[r].at)
                 THEN [job EXCEPT ![t[1]] = Freed(@, IF spent THEN "failed" ELSE "pending")]
                 ELSE job
       /\ Become(r, IF rest = {}
                    THEN [req[r] EXCEPT !.pc = "counts", !.at = 0, !.listed = {}]
                    ELSE [req[r] EXCEPT !.listed = rest])
  /\ UNCHANGED <<now, told>>

-----------------------------------------------------------------------------
(* assignPending: placing. *)

HeldOn(d) == {j \in Jobs : job[j].status \in Held /\ job[j].dev = d}

\* activeCounts
Counts(r) ==
  /\ req[r].pc = "counts"
  /\ Become(r, [req[r] EXCEPT !.pc = "models",
                  !.room = [d \in Devices |-> Less(Concurrency[d], Cardinality(HeldOn(d)))]])
  /\ UNCHANGED <<now, job, told>>

\* activeFamilyCounts
Models(r) ==
  LET running(t) == {j \in HeldOn(t[1]) : Lane[j] = t[2]} IN
  /\ req[r].pc = "models"
  /\ Become(r, [req[r] EXCEPT !.pc = "jobs",
                  !.same = [t \in Devices \X Lanes |-> Less(ModelMax, Cardinality(running(t)))]])
  /\ UNCHANGED <<now, job, told>>

\* The devices with room for a job, and for a job of its model.
Takers(j, room, same) == {d \in Devices : room[d] > 0 /\ same[<<d, Lane[j]>>] > 0}

PlaceableJobs(todo, room, same) == {j \in todo : Takers(j, room, same) # {}}

\* The pending jobs; those no device can take now none will take in this pass.
ReadPending(r) ==
  LET pending == {j \in Jobs : job[j].status = "pending"}
      todo    == PlaceableJobs(pending, req[r].room, req[r].same)
  IN
  /\ req[r].pc = "jobs"
  /\ IF todo = {} THEN EndPass(r) ELSE Become(r, [req[r] EXCEPT !.pc = "place", !.todo = todo])
  /\ UNCHANGED <<now, job, told>>

\* One iteration of the loop: UPDATE ... WHERE status='pending'.
Place(r) ==
  /\ req[r].pc = "place"
  /\ \E j \in req[r].todo : \E d \in Takers(j, req[r].room, req[r].same) :
       LET taken == job[j].status = "pending"
           room  == IF taken THEN [req[r].room EXCEPT ![d] = @ - 1] ELSE req[r].room
           same  == IF taken THEN [req[r].same EXCEPT ![<<d, Lane[j]>>] = @ - 1] ELSE req[r].same
           todo  == PlaceableJobs(req[r].todo \ {j}, room, same)
       IN
       /\ job' = IF taken
                 THEN [job EXCEPT ![j].status = "assigned", ![j].dev = d,
                                  ![j].lease = now + ASSIGNMENT]
                 ELSE job
       /\ IF todo = {}
          THEN EndPass(r)
          ELSE Become(r, [req[r] EXCEPT !.room = room, !.same = same, !.todo = todo])
  /\ UNCHANGED <<now, told>>

-----------------------------------------------------------------------------
(* The device. *)

Poll(r, d) ==
  /\ Arrive(r, Pass(d))
  /\ UNCHANGED <<now, job, told>>

\* claimAssigned reads an assignment that has not lapsed.
Claim(r) ==
  /\ req[r].pc = "claim"
  /\ \E at \in Recent :
       LET mine == {j \in HeldOn(req[r].dev) : job[j].status = "assigned" /\ job[j].lease >= at} IN
       \/ mine = {} /\ Become(r, Idle)
       \/ \E j \in mine : Become(r, [req[r] EXCEPT !.pc = "lease", !.job = j,
                                       !.attempt = job[j].attempts, !.expires = now + LEASE])
  /\ UNCHANGED <<now, job, told>>

\* It fails the row if the row it read had no attempt left, and leases it
\* otherwise; a payload that was not kept is found to be invalid then.
LeaseWrite(r) ==
  LET j == req[r].job
      spent   == req[r].attempt >= Limit(j)
      granted == /\ job[j].status = "assigned" /\ ~spent
                 /\ job[j].dev = req[r].dev /\ job[j].attempts < 3
  IN
  /\ req[r].pc = "lease"
  /\ job' = IF granted
            THEN [job EXCEPT ![j].status = "leased", ![j].attempts = @ + 1,
                             ![j].lease = req[r].expires]
            ELSE IF spent /\ job[j].status = "assigned"
                 THEN [job EXCEPT ![j].status = "failed"]
                 ELSE job
  /\ Become(r, IF granted /\ ~job[j].kept THEN [req[r] EXCEPT !.pc = "void"] ELSE Idle)
  /\ UNCHANGED <<now, told>>

\* stored_payload_invalid: the claim fails the row it leased, and the device is
\* given nothing to run.
VoidWrite(r) ==
  LET j == req[r].job IN
  /\ req[r].pc = "void"
  /\ job' = IF job[j].status = "leased" /\ job[j].dev = req[r].dev
            THEN [job EXCEPT ![j].status = "failed"]
            ELSE job
  /\ Become(r, Idle)
  /\ UNCHANGED <<now, told>>

\* handleHybridAgentResult finds the job leased to the device, the lease ahead.
Receive(r, d, j, verdict) ==
  /\ job[j].status = "leased" /\ job[j].dev = d /\ job[j].lease > now
  /\ Arrive(r, [Idle EXCEPT !.pc = "verify", !.dev = d, !.job = j,
                            !.attempt = job[j].attempts, !.verdict = verdict])
  /\ UNCHANGED <<now, job, told>>

\* With the body read, it takes the instant the write is bound with; a success
\* after the deadline, or of a row whose payload names none, counts as a failure.
Verify(r) ==
  LET late == now > Deadline(req[r].job) \/ ~job[req[r].job].kept IN
  /\ req[r].pc = "verify"
  /\ Become(r, [req[r] EXCEPT !.pc = "settle", !.at = now,
                  !.verdict = IF late THEN "failure" ELSE @])
  /\ UNCHANGED <<now, job, told>>

\* Mutation: the status of the row is not compared again.
NamesDevice(j, d, at) == job[j].dev = d /\ job[j].lease >= at

StillHeld(j, d, at) == job[j].status = "leased" /\ job[j].dev = d /\ job[j].lease >= at

\* The verdict is written if the row is leased to the device and the lease
\* reaches the bound instant.
Settle(r) ==
  LET j == req[r].job
      held  == StillHeld(j, req[r].dev, req[r].at)
      retry == req[r].verdict = "failure" /\ req[r].attempt < Limit(j)
  IN
  /\ req[r].pc = "settle"
  /\ job' = IF ~held THEN job
            ELSE IF req[r].verdict = "success"
                 THEN [job EXCEPT ![j].status = "completed", ![j].lease = Never]
                 ELSE [job EXCEPT ![j] = Freed(@, IF retry THEN "pending" ELSE "failed")]
  /\ Become(r, IF held /\ retry THEN Pass(NoDevice) ELSE Idle)
  /\ UNCHANGED <<now, told>>

\* handleHybridAgentHeartbeat finds the lease ahead and the deadline too, and
\* works out the new lease: five minutes, but a minute past the deadline at most.
Beat(r, d, j) ==
  /\ "beat" \in Events
  /\ \E at \in Recent :
       /\ StillHeld(j, d, at)
       /\ job[j].kept /\ now < Deadline(j)
       /\ Arrive(r, [Idle EXCEPT !.pc = "renew", !.dev = d, !.job = j, !.at = at,
                                 !.expires = Smaller(now + LEASE, Deadline(j) + SLACK)])
  /\ UNCHANGED <<now, job, told>>

\* Mutation: only the device is compared again.
RenewUnfenced(r) ==
  LET j == req[r].job IN
  /\ req[r].pc = "renew"
  /\ job' = IF job[j].dev = req[r].dev THEN [job EXCEPT ![j].lease = req[r].expires] ELSE job
  /\ Become(r, Idle)
  /\ UNCHANGED <<now, told>>

Renew(r) ==
  LET j == req[r].job IN
  /\ req[r].pc = "renew"
  /\ job' = IF StillHeld(j, req[r].dev, req[r].at)
            THEN [job EXCEPT ![j].lease = req[r].expires]
            ELSE job
  /\ Become(r, Idle)
  /\ UNCHANGED <<now, told>>

-----------------------------------------------------------------------------
(* readFamilyDispatch: the console polls the status. *)

Tell(j, status) == told' = [told EXCEPT ![j] = @ \cup ({status} \cap Terminal)]

\* An open row past its deadline is not answered but failed; the console stops
\* asking once it has a final answer.
ReadStatus(r, j) ==
  LET timedOut == job[j].status \in Open /\ now > Deadline(j) IN
  /\ job[j].status # "absent" /\ told[j] = {}
  /\ IF timedOut
     THEN Arrive(r, [Idle EXCEPT !.pc = "expire", !.job = j]) /\ UNCHANGED told
     ELSE req[r] = Idle /\ Tell(j, job[j].status) /\ UNCHANGED req
  /\ UNCHANGED <<now, job>>

\* Mutation: a row that has been assigned is not expired here.
ExpirePendingOnly(r) ==
  LET j == req[r].job
      open == job[j].status = "pending"
  IN
  /\ req[r].pc = "expire"
  /\ job' = IF open THEN [job EXCEPT ![j] = Freed(@, "failed")] ELSE job
  /\ IF open
     THEN Tell(j, "failed") /\ Become(r, Idle)
     ELSE Become(r, [req[r] EXCEPT !.pc = "fresh"]) /\ UNCHANGED told
  /\ UNCHANGED now

\* Mutation: the answer is a timeout whatever the row has become.
ExpireAnyway(r) ==
  LET j == req[r].job IN
  /\ req[r].pc = "expire"
  /\ job' = IF job[j].status \in Open THEN [job EXCEPT ![j] = Freed(@, "failed")] ELSE job
  /\ Tell(j, "failed")
  /\ Become(r, Idle)
  /\ UNCHANGED now

Expire(r) ==
  LET j == req[r].job
      open == job[j].status \in Open
  IN
  /\ req[r].pc = "expire"
  /\ job' = IF open THEN [job EXCEPT ![j] = Freed(@, "failed")] ELSE job
  /\ IF open
     THEN Tell(j, "failed") /\ Become(r, Idle)
     ELSE Become(r, [req[r] EXCEPT !.pc = "fresh"]) /\ UNCHANGED told
  /\ UNCHANGED now

\* Somebody else settled the row first: it is read again.
ReadFresh(r) ==
  /\ req[r].pc = "fresh"
  /\ Tell(req[r].job, job[req[r].job].status)
  /\ Become(r, Idle)
  /\ UNCHANGED <<now, job>>

-----------------------------------------------------------------------------
(* The environment. *)

\* The clock.  A job that is being admitted is created by LastStart, and an open
\* row is watched until Overtime past its deadline (bounds).
Tick ==
  /\ \/ now < LastStart
     \/ \E j \in ActiveJobs : now < Deadline(j) + Overtime
  /\ now >= LastStart => \A r \in Requests : req[r].pc \notin {"lookup", "insert"}
  /\ now' = now + 1
  /\ UNCHANGED <<job, told, req>>

Crash(r) ==
  /\ "crash" \in Events
  /\ req[r] # Idle
  /\ Become(r, Idle)
  /\ UNCHANGED <<now, job, told>>

Continue(r) ==
  \/ Lookup(r) \/ Insert(r)
  \/ Sweep(r) \/ SweepOne(r) \/ ListLapsed(r) \/ RequeueOne(r)
  \/ Counts(r) \/ Models(r) \/ ReadPending(r) \/ Place(r)
  \/ Claim(r) \/ LeaseWrite(r) \/ VoidWrite(r)
  \/ Verify(r) \/ Settle(r) \/ Renew(r)
  \/ Expire(r) \/ ReadFresh(r)

NewRequest(r) ==
  \/ \E j \in Jobs : Dispatch(r, j) \/ Post(r, j) \/ ReadStatus(r, j)
  \/ \E d \in Devices : Poll(r, d)
  \/ \E d \in Devices, j \in Jobs : Beat(r, d, j)
  \/ \E d \in Devices, j \in Jobs, verdict \in {"success", "failure"} : Receive(r, d, j, verdict)

Next ==
  \/ \E r \in Requests : NewRequest(r) \/ Continue(r) \/ Crash(r)
  \/ \E j \in Jobs : Cancel(j)
  \/ Tick

Spec == Init /\ [][Next]_vars

(* The clock runs, requests end, and the console that asked keeps polling for *)
(* a final answer; no device is assumed to do anything.                       *)
Fairness ==
  /\ WF_vars(Tick)
  /\ \A r \in Requests : WF_vars(Continue(r))
  /\ \A j \in Jobs : SF_vars(\E r \in Requests : ReadStatus(r, j))

FairSpec == Spec /\ Fairness

-----------------------------------------------------------------------------
\* globalMaxJobs holds for dispatched jobs, however many requests counted
\* before any of them inserted: jobs put back in the queue stay counted.
DispatchedWithinCap ==
  Cardinality({j \in ActiveJobs : job[j].via = "dispatch"}) <= GlobalMax

\* What the console was told of a job's end is what the table says for ever,
\* although a device, a sweep and the read itself may all be ending it.
ToldIsTrue == \A j \in Jobs : told[j] \subseteq {job[j].status}

\* A settled row is not touched again, by a renewal, a sweep, a late result or
\* a cancellation: neither its outcome nor its holder and lease.
SettledRowsRest == [][\A j \in Jobs : job[j].status \in Terminal => job'[j] = job[j]]_vars

\* While its lease lies ahead and its deadline has not passed, a run ends only by
\* its own device's result, or by its claim when the payload was not kept; a
\* renewal that beats a sweep to the row holds.
RunsEndForCause ==
  [][\A j \in Jobs :
       job[j].status = "leased" /\ job[j].lease >= now /\ now <= Deadline(j)
       /\ job'[j].status # "leased"
         => \E r \in Requests : /\ req[r].pc = "settle" \/ (req[r].pc = "void" /\ ~job[j].kept)
                                /\ req[r].job = j /\ req[r].dev = job[j].dev
                                /\ req'[r] # req[r]]_vars

\* A dispatched question is run at most once, whatever claims, sweeps, lapses
\* and failures do to its row: an answer is never paid for, or given, twice.
DispatchedOnce == \A j \in Jobs : job[j].via = "dispatch" => job[j].attempts <= 1

\* A dispatched question is answered for good, even if no device ever polls:
\* the deadline passes and the console's own poll ends the row.
EveryQuestionAnswered == \A j \in Jobs : job[j].status = "pending" ~> told[j] # {}

-----------------------------------------------------------------------------
(* The family rows as the queue that JobQueue promises.  A row a device names *)
(* but has not leased is still waiting; one that allows a single attempt,     *)
(* however it came to the table, is started once.                             *)

Phase(row) ==
  CASE row.status \in {"pending", "assigned"} -> "waiting"
    [] row.status = "leased"                  -> "running"
    [] row.status = "completed"               -> "done"
    [] OTHER                                  -> row.status

AsQueue ==
  [j \in Jobs |-> [phase  |-> Phase(job[j]),
                   runner |-> IF job[j].status = "leased" THEN job[j].dev ELSE NoDevice,
                   starts |-> job[j].attempts]]

Queue == INSTANCE JobQueue WITH
           Workers <- Devices, Nobody <- NoDevice, queue <- AsQueue,
           OneShot <- {j \in Jobs : MaxAttempts[j] = 1}

\* Whatever requests race for it, a family row waits, is run by one device at a
\* time and comes to rest once, as a job of the queue does.
ImplementsJobQueue == Queue!Spec
=============================================================================
