# TLA+ models of the EKODI platform

This directory models the stateful core of the EKODI platform in TLA+, checks
the models with TLC on small instances and proves theorems about them with
TLAPS. Source paths are relative to the repository.

1. The system
2. Modules, and how they correspond to the code
3. Runs: what each checks, its bounds
4. Fairness
5. Findings
6. Proofs
7. What is only model-checked, what is not modelled
8. Plan

## 1. The system

EKODI is a set of Cloudflare Workers (JavaScript) over D1 (SQLite), with some
data in Supabase. A public front door and the user area render pages; the
private control plane serves administrators and the agents of enrolled PCs; AI
providers are optional and replaceable. A Worker handles one request in an
isolate of its own, so **no state is shared in memory between requests**. What
they share is in D1, where a single statement is atomic and nothing larger is,
`batch` excepted. Most hard behaviour of the platform follows from that: a
request reads rows, awaits, decides, and writes with an UPDATE whose WHERE
clause repeats part of what it read. Which part it repeats decides whether
concurrent requests, retries and timeouts are harmless.

The stateful components, what each keeps and does, and what makes it correct:

| component | state | operations | what must hold |
|---|---|---|---|
| Hybrid execution fabric (`hybrid-execution.js`) | jobs, nodes, global gate | submit, schedule, poll/claim, report, heartbeat, pause, drain, cancel, recover | a job runs once per attempt, comes to rest, keeps its outcome; limits and the gate hold |
| AI family dispatch (`hybrid-execution.js`, `ai-family-dispatch.js`) | family rows of the same table | enqueue, deduplicate, deadline, lease fence, status read | one active run per request, caps, deadline |
| Device registry and commands (`device-control.js`, the Windows agent) | `device_jobs`, `device_commands`, profiles, stream sessions | create, reconcile, next, result, order, revoke, policy | a job ends once and is done only if it was; a command is not carried out by two devices without cause |
| Command ledger (`ekodi-command-ledger.js`, `ekodi-pulse-runtime.js`) | tasks, pulses, runs, evidence | ingest, claim, settle, recover | attempts are bounded, ended tasks stay so, nothing verified unproven |
| Orchestrator tasks (`ekodi-orchestrator-task-adapter.js`) | a row per submitted task, receipts, events | submit, poll, approve, cancel, complete | its row and the ledger's agree; a gate holds until approved |
| Messenger outbox (`messenger-outbox.js`, `messenger-operator-control.js`) | outbox rows, handoffs | enqueue, drain, settle, take over | each event is delivered or given up; no reply over a human operator |
| Scheduled release (`publishing/human/*`) | edition records, audit, what each storefront holds | register, schedule, prepare, activate, grant, cancel | no storefront shows a book before both are activated and the grant is given |
| AI resilience (`ai-resilience-runtime.js`) | circuits per isolate | call, fail, cool down, probe | an open circuit admits nothing, a half-open one a probe |
| Publishing idempotency (`channel-publish-hardening.js`) | request records | begin, complete, abandon, take over | one execution per key |
| GitHub budget (`github-api-budget-admission.js`) | budgets, reservations | observe, reserve, expire | the reserve is never spent |
| Grants, step-up, quotas, connection supervisor | one row each | issue, consume, expire | one use, within the window |

They interact through D1 and through calls within a Worker. Those that matter
for the fabric: `mission-control-entry-worker.js:388-420` routes the agent's
poll first to the device command queue and only then to the fabric
(`claimHybridFallback`), results with ids `hyb_...` to the fabric and all others
to the command queue; heartbeats of the device registry decide which nodes are
ready; the AI agent console enqueues family jobs and polls their status. The
orchestrator owns no execution: a submitted task is a pulse to the command
ledger, whose passes work on it, and the orchestrator copies back what it reads
there (`OrchestratorTasks` is the composition). The messenger's outbox is drained
by a cron and by every request that adds to it, among them the SMS shop
(`store-sms-order-runtime.js`). The release ledger and the two storefronts do
not share a database: the scheduler run is all that holds them together.

PROJECT.json lists all components, also those that keep no state worth
modelling, and the hazards of the code at the lines where they bite.

## 2. Modules

| module | models | lines |
|---|---|---|
| `JobQueue`, `JobQueue_proofs` | what a durable job queue promises: an abstract specification, and theorems about it | - |
| `JointRelease`, `JointRelease_proofs` | what the joint release of a book promises: an abstract specification, and theorems about it | - |
| `AtLeastOnce` | what an outbox promises: an abstract specification | - |
| `HybridExecution` | the fabric: administrators, passes, devices, time | `hybrid-execution.js` 194-586, 670-896 |
| `HybridExecution_proofs` | theorems about it | |
| `MCHybridExecution` | instances for TLC | |
| `FamilyDispatch` | AI family jobs: admission, deadline, heartbeats, status reads, with a clock | `hybrid-execution.js` 295-446, 480-668, 822-896 |
| `FamilyDispatch_proofs` | theorems about it | |
| `MCFamilyDispatch` | instances for TLC | |
| `ScheduledRelease` | the private ledger of books, the scheduler run and its lane, both storefronts | `publishing/human/*`, `publishing-worker.js` 68-79 |
| `ScheduledRelease_proofs` | theorems about it | |
| `MCScheduledRelease` | instances for TLC | |
| `MessengerOutbox` | outbox, drains, operators | `messenger-outbox.js` 32-126, `messenger-operator-control.js` 21-46 |
| `MessengerOutbox_proofs` | theorems about it | |
| `MCMessengerOutbox` | instances for TLC | |
| `CommandLedger` | the ledger's tasks and the passes over them | `ekodi-command-ledger.js` 103-365, `ekodi-pulse-runtime.js` 119-216 |
| `OrchestratorTasks` | the orchestrator's rows over `CommandLedger` (EXTENDS it) | `ekodi-orchestrator-task-adapter.js` 170-191, 447-677 |
| `OrchestratorTasks_proofs` | theorems about both | |
| `MCOrchestratorTasks` | instances for TLC | |
| `DeviceCommands` | device jobs, commands, agents, administrators | `device-control.js` 1202-1242, 1341-1463, 1531-1841 |
| `DeviceCommands_proofs` | theorems about it | |
| `MCDeviceCommands` | instances for TLC | |

All modules follow one pattern: the rows of a table are a function, a request is
a process whose program counter is the statement it is about to run and whose
fields are what it has read and not used yet, and each action is one statement
with the computation up to the next. Operators named in a comment as a slip or a
mutation are wrong variants of the definition that follows them; the runs were
checked to notice each of them.

### HybridExecution

*State.* `job[j]` is the row of `hybrid_execution_jobs`: status, holder
(`assigned_device_id`), last holder, `attempt_count`, and what
`lease_expires_at` says: `none` (NULL), `live` or `lapsed`. `node[n]` joins
`hybrid_execution_nodes` and `device_registry`: switches (`auto_execute` and
`enabled` are read only together), `max_concurrency`, and whether the device is
online, silent (no heartbeat for 90 s) or revoked. `fabric` is the global gate
and `deferred` the pending jobs with a `not_before_at` ahead.

*Requests are processes.* `req[r]` is a request in flight: its program counter
and what it has read and not yet used. Each action is one statement on the
database with the computation up to the next. A slot of `Requests` is reused,
so their number bounds how many requests overlap, not how many there are.

| action | code |
|---|---|
| `Open`, `Requeue` | `requeueExpired`: the SELECT, then one UPDATE per row |
| `Gate`, `ReadNodes`, `ReadCounts`, `ReadJobs`, `Assign` | `assignPending`, one read each, then one UPDATE per job |
| `Poll`, `Claim`, `LeaseWrite`, `ExhaustedWrite`, `VoidWrite` | `claimHybridFallback`, `claimAssigned` |
| `Report`, `ReportWrite` | `handleHybridAgentResult`: the SELECT, then one of four UPDATEs |
| `Submit`, `Cancel`, `Dashboard`, `Pause`, `Resume`, `PatchNode`, `Drain` | `handleAdmin`, `listDashboard` |
| `Lapse`, `FallDue`, `FallSilent`, `Reconnect`, `Revoke` | time, the device, `device-control.js` |
| `Crash` | a Worker is evicted or a statement throws |

*Abstractions.* Time is kept as the comparisons the code makes. The choice
between eligible devices (load score) is open: any candidate may be chosen, except
that the code's preference for a device other than the last is kept. What a
device supports (group and capabilities) is the constant `Supports`. A result is
one of three verdicts: `success` (completed and auth_required runs, which end in
the same row), `failure`, and `invalid` (a browser run without isolation proof,
never retried). A pass looks at all due jobs, not at the first forty. A job's row
is created by `Submit`; before that its status is `absent`. `Dashboard`, whose
SELECT and UPDATEs repeat the same condition, puts back one row per step. Jobs
of the two AI family types carry extra conditions and are not jobs of this module.
Two readings are simplified towards more behaviour: a device is ready whatever its
local execution policy says (`hybrid-execution.js:330`), so more assignments
are possible than in the code; and the two SELECTs of a claim (424 and 428), of which
only the second is used, are one step.

*What a request keeps.* A report keeps `attempt_count` and the verdict; a claim
keeps the row it read; a pass keeps the free capacity it computed. None is read
again before the write that uses it: this is where the hazards come from.

### FamilyDispatch

*State.* `now` is the clock. `job[j]` is a family row: status, how it was created
(dispatched by the assistant or posted by hand), holder, `attempt_count`,
`created_at` and the instant `lease_expires_at`. `told[j]` is what final answers
the console has been given, `kept[j]` whether the payload was stored whole: one of more than
16,384 bytes is stored as `{}`, and the console's timeout with it (`DefaultTimeout`). `req[r]` is a request in flight, as in
`HybridExecution`, with the instants it has bound into a statement to come.

| action | code |
|---|---|
| `Dispatch`, `Lookup`, `Insert` | `enqueueFamilyDispatch`: the count, the lookup of the key, the counting INSERT |
| `Post`, `Cancel` | `handleAdmin` |
| `Sweep`, `SweepOne` | `expireTimedOutFamilyJobs` |
| `ListLapsed`, `RequeueOne` | `requeueExpired` |
| `Counts`, `Models`, `ReadPending`, `Place` | `assignPending` |
| `Poll`, `Claim`, `LeaseWrite`, `VoidWrite` | `claimHybridFallback`, `claimAssigned`: the row read, the lease, and the row failed by the claim itself when the payload was not kept (447-455) |
| `Receive`, `Verify`, `Settle` | `handleHybridAgentResult` |
| `Beat`, `Renew` | `handleHybridAgentHeartbeat` |
| `ReadStatus`, `Expire`, `ReadFresh` | `readFamilyDispatch`, polled by `pollFamilyJob` in `admin-assist-dock.js` |
| `Tick`, `Crash` | time, a Worker evicted |

`Keeps` says which requests find their payload whole.

*Why a clock.* The deadline (10 or 3 minutes after creation), the lease (5
minutes, renewed up to a minute past the deadline) and the instants bound into
statements are compared with each other; `HybridExecution`'s "live or lapsed"
cannot say which of two passes first. A statement may be bound with an instant
a little before the one it runs at (`Recent`), and everything between two
statements may take any time.

*Abstractions.* A question is a job with a key (`requestKey`), a lane and a
timeout; the planning from its text is left out. The runner receipt is the
verdict of a result. The gate is open and every device is ready and able: these
are `HybridExecution`'s subject. The deadline sweep reads all open rows, not
twenty, and leases are given to any device with room.

### ScheduledRelease

*State.* `row[e]` is the record of an edition (state, revision, time, receipts of
both channels), `audit[e]` the states its audit rows name, `staged[c][e]` what
storefront `c` itself has reached, `approved[e]` what the approval verifier would
answer now, `now` the clock, `lane` whether the cron's invocation gets as far as the
release tick. `run`, `edit` and `ask` are scheduler runs,
requests of the administration and visibility questions in flight; `spare` what
is left of the fault and overlap budgets.

| action | code |
|---|---|
| `Open`, `Register`, `Schedule`, `Cancel`, `SaveEdit`, `Close` | `handlePrivateRelease` with `scheduled-release.js` 59-105, 195-200: read, decide, save |
| `Start`, `Take`, `Verify`, `Prepare`, `Activate`, `FinalVerify`, `Save` | `runPrivateScheduleTick`: list the due editions, then per edition the approval, one storefront call, the save, until the grant |
| `AskFor`, `Answer` | `verifyPrivatePublisherRelease`: the two reads of the record around the verification |
| `CloseLane`, `OpenLane` | `scheduled` of `publishing-worker.js`: an await before the tick throws (70), the flag is not set (73), a binding is missing |
| `Withdraw`, `Approve`, `Tick`, `Die` | the verifier's verdict, time, the end of a Worker |

A save is `Committed` or `Rejected`: one batch of a compare-and-swap on the revision
(or, for a registration, an insertion that ignores an existing row), an audit
row that can only be inserted if the update hit, and an outbox row
(`private-release-atomic-ledger.js`). A storefront call that loses its answer has
been obeyed. Both calls are idempotent at the storefront, and a run resumes from the
persisted record.

*Abstractions.* Signatures, digests, rights and the editorial gate are the Boolean
`approved`. The outbox rows are identified with the audit rows written with them.
The older single-statement store (`storePrivateEdition`, `savePrivateTransition`)
is superseded by the batch and not modelled. `Limit` stands for the twenty editions of a run.
The same flag also gates the administration and the storefronts' questions; the model leaves
those open whatever the lane is, which only adds behaviour.

### MessengerOutbox

*State.* `row[e]` is an outbox row: status, attempts, whether a retry is due and
whether its lock is older than two minutes. `handoff[t]` are the thread's rows of
`messenger_handoffs` by id, `closed[t]` whether it is resolved. `drain[d]` is a drain
with its list and the event it works on, `desk[o]` an operator's request. `sent` and
`hushed` record what really happened, `cause[e]` and `late[t]` are history: mishaps
that may repeat `e`, and drains past their last check when `t` was taken over.

| action | code |
|---|---|
| `Enqueue` | `ensureAutomaticHandoff` and `queueAssistant`, `queueSmsReply` |
| `Unlock`, `List`, `Lock`, `Settle` | `drainMessengerOutbox`: free old locks, list, lock one, settle it |
| `Check`, `Generate`, `Write` | `processAssistant`: first look for an operator, the answer of the model and the second look, the batch that stores the reply |
| `Send` | `processChannel` |
| `Throw` | the catch of a drain (120-122): whatever statement of the work threw, before or after it took effect, the row is then written `failed` or `dead` |
| `Takeover`, `Take`, `Mark`, `LetGo` | `takeover` (three statements), `release`, `closeThread` |
| `Due`, `Lapse`, `Die` | time, the end of a Worker |

A drain that has caught an error is at `catch`. `Throw` costs a fault, wherever the work
stood: a check, the model, the reply's batch (62-66), a send, the settling UPDATE (115). What was
committed stays: the reply of a batch is stored, the row of a settling UPDATE is
delivered or dead, and the catch writes `failed` or `dead` over it. `Throw` is counted
as a mishap only where it may repeat something, when the batch was committed and its
answer lost, or at the settling UPDATE; an error before anything was sent is a mere
retry and excuses nothing. An error of the catch itself ends the drain (`Die`).

*Abstractions.* Triage, the texts and the event log are left out, links are the
constant `Linked`; the customer's own change of a thread's status is not modelled. Neither
are the ends of an event whose thread or message is gone or whose consumer is unknown
(47, 50, 75, 93), which are delivered without a send: rows are not deleted, and every enqueued
consumer has its branch.

### CommandLedger and OrchestratorTasks

*State.* `task[t]` is a row of `ai_command_tasks`, `pulse[t]` the state of its event,
`line` the order of creation, `run[r]` a pass or an ingestion under way. The
orchestrator adds `orch[t]` (state, version, and whether evidence of the release
is in), `receipt` (tasks with an approval among their events) and `desk[q]`, its
own requests. `proven` and `reopened` are history: tasks some consultation verified,
and how many late results and approvals may have put a task back.

| action | code |
|---|---|
| `InsertEvent`, `InsertTask`, `GateEvent` | `ingestEkodiPulse` |
| `Recover`, `Choose`, `Claim`, `ReadClaim`, `Work`, `Settle`, `Echo` | `runEkodiCommandQueue` with `recoverExpiredEkodiCommandTasks`, both claims, `getEkodiCommandTask`, `settleEkodiCommandTask` |
| `Lapse`, `Ripen`, `Throw`, `Die` | time, a refused statement, the end of a Worker |
| `Submit`, `Assign`, `Dispatch`, `Caught`, `FailTask`, `Executed` | `submitOrchestratorTask`; between `Dispatch` and `Executed` the request runs the ledger's own actions |
| `Poll`, `Look`, `Sync` | `getOrchestratorTaskStatus`, `syncFromCommandLedger` |
| `Cancel`, `Void` | `cancelOrchestratorTask` |
| `Complete`, `CloseCommand` | `persistCompletionEvidence` |
| `Approve`, `Admit`, `Record`, `Resume`, `Apply`, `Unqueue`, `Reblock` | `approveOrchestratorTask` and its roll-backs |

*Abstractions.* A consultation is its outcome (`Outcomes`), which depends on whether the
pulse carries a delegation and a deployment. The three UPDATEs of the recovery
are one step: they touch disjoint rows. Pulses that ask for nothing
(`actionable: false`), the run and evidence tables and idempotency keys are left out.

### DeviceCommands

*State.* `job[j]` is a row of `device_jobs`: status, `nr` (which of its assignments
its command is, 0 for none), attempts, overdue or not. `cmd[c]` is a row of
`device_commands`; a command is named by its job and the number of the assignment,
or by an order. `device[d]` joins registry and profiles, `srv[w]` is a request
under way, `agent[d]` the agent's loop. `worked`, `handed` and `late` are history: commands really
carried out, how often a self-update was given to an agent, and reports that wrote a job
assigned anew since they read it. `SelfUpdates` may be orders and jobs: `POST /jobs` takes a
self-update when it is confirmed (1367-1373).

| action | code |
|---|---|
| `Create`, `List` | `POST` and `GET` of the jobs, which run a pass |
| `Tidy`, `Candidate`, `Assign`, `Insert`, `Scanned` | `reconcileJobs`: the timeouts, then per job the device, the guarded UPDATE, the INSERT of its command |
| `Ask`, `Fetch`, `Claim`, `Bar` | `nextCommand`: stale self-updates closed, stale claims offered again, the oldest command read and claimed or cancelled |
| `Tell`, `Finish`, `Find`, `Settle` | `commandResult`: the checks, the command, the job looked up, the job written |
| `Order`, `Issue`, `Revoke`, `Cancel`, `Retype`, `Disable`, `Enable`, `Forbid`, `Apply` | `handleAdmin`, statement by statement |
| `Work`, `GiveUp`, `Restart` | `Poll-Command` of the agent: a result, an agent that waits no longer, a restart |
| `Heartbeat`, `Silence`, `Overdue`, `Stale`, `Die` | heartbeats, time, the end of a Worker |

An agent whose success report fails reports a failure of the same command and, if
that fails too, drops it. *Abstractions.* Group, capabilities and eligibility are one
switch per device. The two UPDATEs of the timeouts are one step, as they touch
disjoint rows. The oldest waiting command may be any waiting one, because requests
stamp commands before they insert them. Enrolment, camera streams and the
redaction of payloads are left out.

### JobQueue

A job waits, is run by one worker, goes back to waiting or comes to rest; a job
of `OneShot` is started at most once. Two modules implement it. In
`HybridExecution` pending and assigned rows wait, leased rows run,
`attempt_count` counts starts and the jobs of one attempt are `OneShot`. In
`FamilyDispatch` the same columns are read the same way, and the jobs that are
given one attempt whichever way they are posted are `OneShot`; a question that
`enqueueFamilyDispatch` inserts always has one attempt, and `DispatchedOnce` says
that it runs once. One statement may move many jobs, hence `Next` moves any
number.

### JointRelease

A storefront is made ready for a book, then armed, and none is armed before all
are ready; a book is released once, when all are armed and its time has come, or it is
cancelled; only a released book is shown. `ScheduledRelease` implements it:

| JointRelease | ScheduledRelease |
|---|---|
| `fate` | `Fates`: the record's state, all but `released` and `cancelled` being open |
| `stage` | `staged`, what each storefront itself has reached, whatever the ledger knows |
| `due` | `DueNow`: the editions with a time that is not ahead |
| `shown` | `Allowed`: the visibility questions answered yes and not yet withdrawn |
| `Prepare`, `Activate` | the storefront's own step in `Prepare`, `Activate`, its answer lost or not |
| `Release`, `Cancel`, `Reschedule` | the save of a run or of an administrator that hits; a tick of the clock |
| `Show`, `Hide` | the end of `Answer`; a question that ends |

Everything else (reads, verifications, saves that miss, crashes) is a stutter: the
promise is made by the compare and swap alone, though every request decides on
what it read before.

### AtLeastOnce

An item is posted, copied out and recorded as delivered, or given up. A mishap may
cost one copy more and may bring back an item that had ended; an item that met none is
not touched again once it has ended. `MessengerOutbox` implements it: pending, processing
and failed rows are waiting (`Phase`), `sent`, `cause` and `hushed` are the copies, the
mishaps and the items spared. Locks, lists, attempts and operators do not show; `Write` and
a `Send` that arrives are `Copy`, `Settle` is `Deliver`, `GiveUp` or `Reopen`, and a
drain that dies on an event, or whose lock lapses, is a `Mishap`; a copy or an end whose
answer is lost carries its mishap in the same step (`Copy`, `Becomes`). An error caught
before anything was committed is a stutter.

## 3. Runs

| run | instance | shows | distinct states |
|---|---|---|---|
| `hybrid_admin` | 1 job (2 attempts, corrupt payload), 2 devices, 2 requests; pause, patch, cancel, dashboard, crash | `RowsCoherent`, `ImplementsJobQueue`, `LiveLeaseEndsByHolder` | 659,900 |
| `hybrid_capacity` | 3 jobs with 1 attempt, 1 device, 2 requests; deferral, silence, revocation | `OvercommitBounded`, `OneShotRunsOnce` | 483,576 |
| `hybrid_settles` | 1 job with 2 attempts, 2 devices of which 1 polls, 2 requests; pause, dashboard | `FailsOnlyForCause`, `EverySubmittedJobSettles`, `PausedFabricDrains` | 114,349 |
| `family_fences` | 1 code job (2 attempts if posted), 1 device, 2 requests; heartbeat, post, cancel, crash, a payload not kept | `ToldIsTrue`, `DispatchedOnce`, `SettledRowsRest`, `RunsEndForCause`, `ImplementsJobQueue` | 1,270,951 |
| `family_answers` | 2 general jobs, cap 1, 1 device, 2 requests; heartbeat | `DispatchedWithinCap`, `EveryQuestionAnswered` | 572,919 |
| `book_release` | 1 edition, 2 runs, 1 administrator, 1 storefront question, 2 faults (a closed lane is one), 1 overlap, 3 instants | `LedgerBehindStorefronts`, `ExposureIsJoint`, `AuditIsTheHistory`, `OneWay`, `WithdrawnStaysPrivate`, `ImplementsJointRelease` | 1,434,676 |
| `book_queue` | 3 editions, a run takes 2, 1 run, 1 fault | `DueIsReleased` | 159,421 |
| `outbox_drains` | 1 message, to the assistant or to a channel, 2 drains, 1 operator, 2 attempts, 2 faults, 2 moves | `RepeatedForCause`, `DeliveredIsTrue`, `AttemptsBounded`, `SpeaksOverOnlyIfLate`, `EveryEventEnds`, `ImplementsAtLeastOnce` | 467,556 |
| `outbox_speaks_over` | the same with 1 drain | refutes `NeverSpeaksOver` | |
| `orchestration` | a deployment and a gated task, a caller that submits and one that does all else, the cron, 2 attempts, 1 fault, 2 requests | `GateHolds`, `ClosedIsProven`, `AttemptsBounded`, `FinalIsFinal`, `EndedUnlessLate`, `EveryTaskRests` | 819,775 |
| `orchestration_cancels` | the same | refutes `CancelsOnlyPending` | |
| `device_jobs` | 1 job, ordinary or a self-update, 1 order, 2 devices (1 steady), 2 requests, 2 attempts, 3 assignments told apart, 1 upset | `SucceededIsProven`, `AttemptsBounded`, `EndedUnlessLate`, `LetGoForCause`, `SelfUpdatesRationed`, `EveryJobEnds` | 424,321 |

*Why the bounds are enough.* Rows of the fabric interact only through the counts
of a pass, so races about one row need one job; capacity needs more jobs than
slots. Two devices are needed for the preference for another device and for
stale claims. Two attempts show a retry and the last attempt; one shows the one-shot
guarantee. `Concurrency = {1}` makes every second assignment an overrun. The
theorems of section 6 remove these bounds for every safety property.

`family_fences` uses the code's own durations in minutes (lease 5, assignment 2,
deadline 10, slack 1; `DefaultTimeout` 3 for the row whose own was not kept), and follows
an open row until `Overtime` (2) minutes past its deadline, so a lease can lapse before
the deadline, be renewed beyond it, and a second attempt can start and run out.
One job suffices, as rows share nothing but the counts; the cap needs one job more than it
admits, and `Overtime` is 1 in that run.

Editions share only the order of the due list, which is `book_queue`'s subject: an
unapproved edition stays ahead of an approved one, and a run takes fewer than there
are. Within an edition, two overlapping runs, an administrator and two faults are
enough for every pair of writers to meet on one revision while a storefront asks. With three
instants a book can be scheduled, and scheduled anew for later or cancelled while a
run that found it due is still at work on it: what the refinement has to survive.

The type invariants are proved for every value of the constants (section 6) and so
are not among the properties of the runs.

In `outbox_drains` two drains can hold the same list, the same event, or a lock of
each other's that has turned two minutes old; the two faults let both of them die, throw or lose an answer,
and two moves let an operator take the thread over and let it go. `MaxAttempts` is 2
instead of 8: what matters is the first try, a retry and a try too many.

In `orchestration` the order of the line, the gate and the hand-over of a deployment
are all met with two tasks; two attempts show a retry and the last; a stall past the lease costs
no fault, so a late result may always meet a later attempt. In `device_jobs` polls
and reports are handled by different requests so that they overlap; `LastTry` of 3 lets a job be assigned
once more than its two attempts, which a late report can cause; an upset is a crash,
a silence, an overlong claim or an administrator's request, while the job's own
timeout and the self-update's three minutes cost none. `Stock` is 1: one job is created, an
ordinary one or a self-update, which costs the upset, being a confirmed request; its
restart half-way costs none. The order is an ordinary one here: a self-update's command is
handled alike whoever sent it, and the theorems hold for any `SelfUpdates`.

*Deadlock* is checked except in `hybrid_capacity`, where the only device may be
revoked and nothing is then left to do. Symmetry is used in safety runs only,
over slots, and over devices or jobs when the instance treats them alike.

*The properties of the fabric.*

- `RowsCoherent`: status, holder and lease of a row agree. Recovery looks only at
  rows with a lease, passes only at pending rows: an incoherent row is stranded.
- `OneShotRunsOnce`: a one-attempt job is leased at most once.
- `OvercommitBounded`: how far concurrent passes can exceed `max_concurrency`.
- `LiveLeaseEndsByHolder`: `pauseKeepsLeasedJobsRunning`, for every other writer.
- `FailsOnlyForCause`: no job is failed with attempts left without a cause.
- `EverySubmittedJobSettles`, `PausedFabricDrains`: progress.
- `ImplementsJobQueue`: the refinement; it includes that a settled row stays settled.
- `ToldIsTrue`: a final answer given to the console is what the row says for ever.
- `SettledRowsRest`: no renewal, sweep or late result touches a settled row at
  all, its holder and lease included.
- `RunsEndForCause`: while its lease lies ahead and its deadline has not passed,
  only its own device's result ends a run, or the claim that started it, which fails a
  row whose payload was not kept (447-455). This is what the repeated
  comparison of the lease in `requeueExpired` is for.
- `DispatchedOnce`: a dispatched question is run at most once, whatever claims, sweeps,
  lapses and failures do to its row.
- `DispatchedWithinCap`: the cap on dispatched jobs under racing requests.
- `EveryQuestionAnswered`: a final answer reaches the console with no help from a
  device.

*Of the release.* `LedgerBehindStorefronts`: the ledger never claims what a storefront
has not reached, and no storefront is activated before both have prepared.
`ExposureIsJoint`: a storefront is told yes only of a book released and activated on
both. `AuditIsTheHistory`: every revision has its audit row, once and in order,
however many writers race. `OneWay`: states only advance and receipts are kept.
`WithdrawnStaysPrivate`: an approval withdrawn for good before the last activation is
saved keeps the book private, although the run verified it earlier. `ImplementsJointRelease`: the refinement; beyond the others it says
that no book is released ahead of its time, however it is rescheduled under a run that
found it due, and that none is cancelled and released both. `DueIsReleased`:
progress while the lane stays open, with fewer unapproved editions than one run takes; with as many it fails.

*Of the outbox.* `RepeatedForCause`: what is sent or answered twice was repeated
because a drain died, a lock grew old under a working drain, or an answer was lost:
the channel's, the batch's or the settling UPDATE's, the last two by way of the catch.
`DeliveredIsTrue`, `AttemptsBounded` (the test of the limit is in the listing, not
in the lock), `SpeaksOverOnlyIfLate` and `EveryEventEnds`, whose exception is the
row whose last drain died: it is neither given up nor looked at again.
`ImplementsAtLeastOnce`: the refinement; beyond the others it says that a row that
met no mishap is not touched again once it is delivered or dead, although a settling
UPDATE asks neither for the status nor for the owner of the lock.

*Of ledger and orchestrator.* `GateHolds`: a gated task is claimed by no pass before an
approval is on record, however approvals fail half-way. `ClosedIsProven`: nothing is
verified or completed without a verified consultation or production evidence.
`AttemptsBounded`: claims never look at `max_attempts`; late results and approvals
are the only way past it, one attempt each. `FinalIsFinal` and `EndedUnlessLate`:
what ended stays, but for the two writers that do not look. `EveryTaskRests`.

*Of device commands.* `SucceededIsProven`, `AttemptsBounded`, `EndedUnlessLate`,
`LetGoForCause` (a job whose command may still be carried out is let go only by
its timeout or a late report), `SelfUpdatesRationed` and `EveryJobEnds`. An agent may be
ended by its own update before it reports, and a claim forgotten for that reason must not be
offered again. `SelfUpdatesRationed`: a command of a self-update is handed to an agent at
most once, whatever became of its claim; a self-update sent as an order is therefore tried
once, one sent as a job no more often than the job is assigned.

## 4. Fairness

`HybridExecution`'s `FairSpec` assumes: a request runs to its end (weak fairness of
`Continue(r)`); time passes (`Lapse(j)`); an open admin console refreshes its
dashboard (`hybrid-execution-admin.js:270`, weak fairness of `Dashboard(j)`); and
a device of `Prompt` keeps polling
(`tools/ekodi-device-agent/windows`, every ten seconds), with strong fairness
because a poll has to find a free slot. An agent that polls every ten seconds
fetches an assignment within its two minutes, so the assignments of a `Prompt`
device do not lapse. Nothing is assumed of other devices, of results, of
administrators. `PausedFabricDrains` needs the dashboard: a paused fabric
answers polls before any pass, and no cron recovers leases.

`FamilyDispatch`'s assumes that the clock runs, that requests end, and
that the console keeps polling a question it has no final answer for: strong
fairness, since a poll needs a free slot. The console polls every two seconds,
305 times (`admin-assist-dock.js:467-468`), which outlasts the longest timeout,
600 seconds, by ten; a console that is closed or meets an error stops earlier,
and then nothing is claimed. Nothing is assumed of devices.

`ScheduledRelease`: time passes, and while the lane is open the daily cron
(`wrangler.publishing.toml:9`) starts runs, which go on until they end or die. The lane is
`scheduled` of `publishing-worker.js` (68-79) on the way to the tick: it awaits
`prepareScheduledPublishing`, which may throw, and returns unless
`PUBLISHING_PRIVATE_RELEASE_ENABLED` is `'true'`. The repository's deployment does not set that
variable, so as deployed the lane is closed and no run starts. That it opens is therefore not
assumed: `DueIsReleased` is conditional on a lane that is open from some time on, and says
itself for which approvals it holds. Nothing is assumed of administrators,
storefronts or the verifier.

`MessengerOutbox`: drains go on and are started again (the cron, at
`mission-control-entry-worker.js:470`), retries come due and locks grow old. Nobody need write, and no operator need come or go.

`OrchestratorTasks`: the scheduled pass is started over and over and goes on, leases run
out and retries come due. Every other request may stop anywhere, for ever.

`DeviceCommands`: requests are handled, assignments and forgotten claims grow old, and
the agents of `Steady` devices keep polling, working and reporting. Polls and
reports are strongly fair, as each needs a request that is free now and then. Nothing is assumed of
other devices or of administrators; budgets of faults are finite, so that
progress is asked for after the last of them.

## 5. Findings

- `outbox_speaks_over`: the takeover is looked for in one statement and the reply
  stored by a later one (`messenger-outbox.js:58`, 62-66), so a reply can still be stored over an
  operator who accepted the thread in between, against the comment at
  `messenger-outbox.js:55-57` ("Re-check immediately before persisting ... so a late
  model response cannot speak over an accepted human operator").
  `SpeaksOverOnlyIfLate`, proved, is what does hold.
- `orchestration_cancels`: `cancelOrchestratorTask` decides by the orchestrator's row alone,
  which becomes `executing` only when a poll copies the ledger, so a task whose
  command runs is cancelled and the command goes on, against
  `ekodi-mcp-external-tools.js:19` ("only while it is still pending and has not entered
  execution").

Further observations, which follow from the models but have no run:

- An assignment of the fabric that lapses costs no attempt
  (`hybrid-execution.js:313-318`), so timed-out jobs are reassigned without limit;
  `docs/DEVICE-CONTROL.md:29` names a limit.
- A pass assigns from counts it read earlier with an UPDATE guarded by the status alone
  (`hybrid-execution.js:405-408`), so a full device is given a job; see
  `docs/DEVICE-CONTROL.md:11`. `OvercommitBounded` is what does hold.
- `POST /jobs` takes the family types like any other and counts nothing, and two equal
  questions in flight are both looked up before either is inserted; see
  `docs/ai-route-family-auto-dispatch-phase-2.md:11`. For dispatched jobs the cap holds.
- A fabric job's `attempt_count` can exceed its own `max_attempts`: a duplicate failure
  report written over a later lease puts a job with no attempt left back in the
  queue, and a claim that read the row before that lease still raises the count;
  only the table's CHECK (at most 3) stops it. And a row failed by the
  attempt-limit test in `claimAssigned` keeps its holder and lease.
- An outbox row whose last drain died stays `pending` with its attempts used up: no drain lists
  it and none marks it dead (`messenger-outbox.js:104-105`).
- A self-update may be sent as a job (`POST /jobs`, `device-control.js:1367-1391`). Closing its
  claim (39-44) closes the command and not the job, which a timeout (1204) or a failure
  report (1816-1819) queues anew with a new command, although the comment at 28-32 says that
  requeueing "would only repeat the self-termination". `SelfUpdatesRationed` bounds it.
- The payload of a posted family job above 16384 bytes is stored as `{}`
  (`hybrid-execution.js:69-73`); the job is accepted, leased, and failed by that very claim.
- A device job that timed out leaves its command queued or claimed
  (`device-control.js:1204-1208`), so a job given up may still be carried out, and its
  result then still counts.

## 6. Proofs

Every theorem is proved from the assumption its module names and nothing else;
constants are arbitrary within their types, sets of rows or requests finite where
something is counted. Every safety property a run checks is proved; TLC found the
invariants, and the instances above show that they are not vacuous.

`HybridExecution_proofs`, from `HybridAssumption`:

| theorem | property |
|---|---|
| `TypeCorrect` | `TypeOK` |
| `RowsAreCoherent` | `RowsCoherent` |
| `OneShotSafe` | `OneShotRunsOnce` |
| `OvercommitIsBounded` | `OvercommitBounded` |
| `TerminalStays` | a settled row keeps its status (`TerminalIsFinal`) |
| `LiveLeaseProtected` | `LiveLeaseEndsByHolder` |
| `FailuresHaveCause` | `FailsOnlyForCause` |
| `FabricImplementsQueue` | `ImplementsJobQueue` of `HybridExecution` |

They rest on one inductive invariant, `IInv`, the conjunction of

- `SettingsOK`: the gate, the nodes and the deferred set are well typed;
- `RowsOK`: for each row, its type, the coherence of status, holder and lease,
  and for a one-attempt job that a raised count goes with a leased, completed or
  failed row;
- `RequestsOK`: for each request, its type and what its program counter says of
  what it has read: a slot at `lease` names a device and a job, the attempts it
  read are no more than the row's, a slot at `void` holds a job with a corrupt
  payload, and so on.

`RowsCoherent` and `OneShotRunsOnce` are not inductive alone: the writes of a
request are guarded by what it read, so the invariant has to say what a request
may believe. In particular a request at `lease` or `report` has read a count no
larger than the row's now, which is why a stale claim cannot start a one-attempt
job again. `IInv` is shown to hold initially and to be preserved by each action;
row-level lemmas say what the four row updates preserve. The action
properties and the refinement then need one step each, with `IInv` in the
hypothesis: every action moves each job by an action of `JobQueue` or not at all.

`OvercommitBounded` rests on a second invariant, `CapInv`, proved over `IInv`. A pass
that has counted may still assign to device n as often as the room it found: `Room(n)`
holds one token for each. The active jobs of n and the tokens together never exceed
`MostSlots * Cardinality(Requests)`: a count adds at most the tokens that make one complement with the
jobs there (the others hold one complement each at most), an assignment turns a
token into a job, and no other step adds either. The largest `max_concurrency` exists
because the code clamps it to 1..8.

`FamilyDispatch_proofs`, from `FamilyAssumption` (arbitrary durations, caps and timeouts):

| theorem | property |
|---|---|
| `TypeCorrect` | `TypeOK` |
| `AnswersAreTrue` | `ToldIsTrue` |
| `SettledRest` | `SettledRowsRest` |
| `RunsProtected` | `RunsEndForCause` |
| `DispatchIsCapped` | `DispatchedWithinCap` |
| `StartsInOrder` | starts and statuses agree (`StartInv`) |
| `DispatchedRunsOnce` | `DispatchedOnce` |
| `FamilyImplementsQueue` | `ImplementsJobQueue` of `FamilyDispatch` |

Its `IInv` is `TypeOK`, `ToldIsTrue` and `RequestsOK`: a request about to insert has
a row of its own that does not exist yet (else its INSERT could overwrite a
settled one), a request about to write has one that exists, a row is expired
only once its deadline has passed, and no request is bound to an instant ahead
of the clock. Each action is shown to preserve `IInv` and to make a `RowsStep`: at
most one row comes into being, a dispatched one only below the cap, settled
rows rest, and a live run within its deadline ends by its device's result or by the
claim that found its payload not kept (a request at `void` holds such a row).
The action properties are parts of `RowsStep`; the cap follows by counting,
since the dispatched open jobs after a step are among those before it, or those
and the one the counting INSERT added.

`DispatchedOnce` is not inductive: a late failure report sends a row back to the queue if it finds
attempts left, judging by the count it read with the row. `StartInv` adds to the
rows (`StartsOK`: a leased row has been started, one of a single attempt that waits has not)
what requests have seen (`RunsSeen`: whoever lists a lapsed run, or carries its result,
has read a count of at least one). So neither a sweep nor a result takes a dispatched run
for one with an attempt left. The refinement follows row by row: `EveryRowMoves` names,
for each action, what it may do to a row, and each of these is a move of `JobQueue`.

`ScheduledRelease_proofs`, from `ReleaseAssumption`:

| theorem | property |
|---|---|
| `TypeCorrect` | `TypeOK` |
| `StorefrontsLead` | `LedgerBehindStorefronts` |
| `ExposedJointly` | `ExposureIsJoint` |
| `HistoryIsAudited` | `AuditIsTheHistory` |
| `GoesOneWay` | `OneWay` |
| `WithdrawnStays` | `WithdrawnStaysPrivate` |
| `TimesInOrder` | what a run is about to release was due when the run began (`TimesOK`) |
| `ReleaseIsJoint` | `ImplementsJointRelease` |

A writer's record was read earlier. `Known` says what it may still rely on (the record's
receipts are stages the storefronts have reached, its revision is not ahead, and if the revisions are
equal the records are), `Onto` what it is about to save (one revision on, a state that
follows, no receipt lost). The compare and swap makes the two meet: a save that hits
is `Onto` the row itself, whence `OneWay` and the audit. `ExposureIsJoint` adds what a
question has seen between its two reads. `WithdrawnStaysPrivate` is a temporal
argument over `Withheld`: while the approval is gone no run can come to carry a
release of the present revision.

`ReleaseIsJoint` is proved step by step (`JoinedStep`). Most steps change nothing that is seen
(`JoinedSame`); a storefront call is `Prepare` or `Activate` (`JoinedCall`), and that the other
storefront is ready then is `LedgerBehindStorefronts` again; a save that hits
moves one record to one that follows it (`JoinedWrite`, `AllowedMoves`). That a book is
released only when due needs `TimesOK`: a run keeps the instant at which it listed the
due editions, that instant is not ahead of the clock, and a record it is about to release
has the time it had in that list. It also needs that a cancelled record has no time any more, which
is part of what a sound record is.

`MessengerOutbox_proofs`, from `OutboxAssumption`:

| theorem | property |
|---|---|
| `TypeCorrect` | `TypeOK` |
| `RepeatsForCause` | `RepeatedForCause` |
| `DeliveriesAreTrue` | `DeliveredIsTrue` |
| `AttemptsAreBounded` | `AttemptsBounded` |
| `SpeaksOverOnlyLate` | `SpeaksOverOnlyIfLate` |
| `WorkIsCounted` | the drains at work on an event are bounded by its mishaps (`WorkInv`) |
| `OutboxImplements` | `ImplementsAtLeastOnce` |

The argument is a count. A drain at work on an event that may still send it, or send it
back to the queue, is busy with it. What was sent and the busy drains together are at
most one more than the mishaps, and no more than the mishaps while the event may be
locked: so a lock, which makes a drain busy, keeps the bound. Likewise the attempts of an
event and the drains that have it on their lists stay below `MaxAttempts` and the
number of drains: a drain leaves the list when it locks. That a list
names no event twice is part of the invariant.

The refinement needs a second count. Who settles does not ask whether the lock is still
his, so nothing in the row protects one that has ended; what does is that nobody
is left who could touch it. `WorkInv`: the drains at work on an event are at most
one more than its mishaps, and no more than them unless the row is locked and its lock
fresh. A row that has ended without a mishap therefore has nobody at work on it (`AtWorkIs`).
A drain that has caught an error is still at work: what it committed is paid for by the mishap
its `Throw` counts, so both counts hold with it. One
lemma per action then names the step of `AtLeastOnce` that it is.

`OrchestratorTasks_proofs`, about the ledger and the orchestrator together, from
`LedgerAssumption` and `OrchestratorAssumption`:

| theorem | property |
|---|---|
| `TypeCorrect` | `TypeOK` |
| `GateIsHeld` | `GateHolds` |
| `DoneIsProven` | `ClosedIsProven` |
| `AttemptsAreBounded` | `AttemptsBounded` |
| `FinalStays` | `FinalIsFinal` |
| `EndedStays` | `EndedUnlessLate` |

`IInv` says of every row of the ledger that it is `Good` (with room for another attempt
while it waits, proven if verified, untouched while its gate is closed), of every
pass that what it holds was claimed, and of every request that what it is about to
write has its ground; `Linked` ties a request to the pass it runs. Most steps only
`Widen` (lines, evidence, receipts and counts grow), and what others have read stays true
under that; each action then owes the row it writes.

`DeviceCommands_proofs`, from `DeviceAssumption`:

| theorem | property |
|---|---|
| `TypeCorrect` | `TypeOK` |
| `DoneIsProven` | `SucceededIsProven` |
| `AttemptsAreBounded` | `AttemptsBounded` |
| `EndedStays` | `EndedUnlessLate` |
| `LetsGoForCause` | `LetGoForCause` |
| `UpdatesRationed` | `SelfUpdatesRationed` |

The point is `Apart`: no two requests are about to insert, or to settle, the same
command. A report passes the guarded UPDATE of the command once, so once a job has ended without
late reports, either it was its last attempt or the report of its last assignment is
used up (`Quit`), and none is left that could put it back. For `UpdatesRationed` the invariant
says that a self-update's command that is still queued has not been handed out, and any
other at most once (`HandedOK`): no step sends a claimed one back to the queue.

The abstract specifications have theorems of their own, for any implementation to inherit.
`JobQueue_proofs` and `JointRelease_proofs`, with no assumption at all:

| theorem | what it says |
|---|---|
| `QueueInvariant` | entries are coherent (`QInv`) |
| `QueueRunners` | a job has a runner exactly while it runs (`RunnerIffRunning`) |
| `QueueStartsOnce` | a job of `OneShot` is started at most once (`OneShotStartedOnce`) |
| `QueueRests` | a job that came to rest stays as it is (`RestIsFinal`) |
| `ReleaseInvariant` | a released book is due and armed everywhere; where one storefront is armed all are ready (`JInv`) |
| `ShowsJointly` | a shown book is released, due, and armed everywhere (`ShownJointly`) |
| `TakesNothingBack` | a settled fate stays, and an armed storefront stays armed (`NothingTakenBack`) |

With `FabricImplementsQueue` and `FamilyImplementsQueue` the first four hold of both job
tables, with `ReleaseIsJoint` the other three of the release ledger. They also say
that the abstractions are worth implementing: an abstract specification that allowed everything
would be implemented by anything.

## 7. What is only model-checked, what is not modelled

Liveness stays with TLC, being beyond the prover: `EverySubmittedJobSettles`,
`PausedFabricDrains`, `EveryQuestionAnswered`, `DueIsReleased`, `EveryEventEnds`,
`EveryTaskRests`, `EveryJobEnds`.

Not modelled within the modelled components: the logs and audit events other than
the release ledger's, payload policies (a corrupt payload is a member of `Corrupt`),
authentication (a request by a revoked device is refused), the load score,
schema creation, the limits of how many rows one pass reads (forty jobs, twenty
family jobs) except where a property is about them (`Limit`), the one-run admission
of the slide audio job, and what section 2 names per module. PROJECT.json lists, as
hazards without a property, what of this could go wrong.

Not modelled at all, each with its reason in PROJECT.json. The modelled parts are a small share of
the repository by lines, because most of it is pages and sites (HTML, styles and text
in JavaScript), adapters to outside services, content and scripts: they keep no
state between requests that their code decides about, and what they promise
(rendering, wording, the outcome of a call to a provider) is not a property of
interleavings. Authentication is cryptography and calls to identity providers; commerce and billing keep their state with
payment providers and in database functions outside this repository's Workers, so a
model would be of code that is not here. Circuits, idempotency records, budgets and
one-use grants do keep state and are left for the plan.

## 8. Plan

Done: the fabric and its family jobs, the release ledger, the outbox, the ledger with
the orchestrator over it, device jobs; type and safety theorems for each; refinements of
the fabric, the family jobs, the release and the outbox.

Left, in this order:

1. `IdempotentRequest`: the records of `channel-publish-hardening.js`, with the stale
   takeover against the owner that still publishes.
2. `CircuitBreaker`: one isolate's circuits; what a half-open one lets through.
3. `ApiBudget`: reservations, observations and expiry against the reserve.
4. `SlidesAdmission`: the one-run admission of the slide audio job.
5. One-use grants and step-up windows.
6. The agent's poll as a composition of `DeviceCommands` and `HybridExecution`.
7. Theorems about `AtLeastOnce` itself, and abstract specifications for the command ledger
   (a task is worked on, verified or given up) and for device jobs, with their refinements.
