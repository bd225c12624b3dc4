---------------------------- MODULE DeviceCommands ----------------------------
(***************************************************************************)
(* Device control: jobs wait in the cloud until a pass assigns them to an  *)
(* enrolled device as a command; the agent of the device polls, carries    *)
(* the command out and reports.  Passes are run by whoever happens to ask: *)
(* a poll, a listing, the creation of a job.  A pass, a poll, a report and *)
(* an administrator's request are series of statements, every other        *)
(* request may come between two of them, and a request may die after any.  *)
(* Job and command are two rows, written apart.                            *)
(***************************************************************************)
EXTENDS Integers, FiniteSets

CONSTANTS
  Jobs,         \* jobs, numbered by priority and age
  Devices,      \* enrolled devices of one group
  Steady,       \* the devices that stay online, enrolled and enabled
  Orders,       \* commands an administrator sends to a device
  SelfUpdates,  \* the jobs and orders that update the agent itself
  Observing,    \* the jobs and orders a device of a limited type may carry out
  Servers,      \* requests being handled
  Role,         \* Role[w]: what w may be asked
  NoDevice, NoServer,
  MaxAttempts,  \* assignments of a job
  LastTry,      \* assignments told apart (a bound)
  Stock,        \* jobs created (a bound)
  Capacity,     \* max_concurrency of a device
  Upsets        \* crashes, lost answers, silences, overlong claims and requests of
                \* the administrators (a bound)

ASSUME DeviceAssumption ==
  /\ Jobs \subseteq Nat \ {0} /\ Orders \cap (Jobs \cup {0}) = {} /\ SelfUpdates \subseteq Jobs \cup Orders
  /\ IsFiniteSet(Jobs) /\ IsFiniteSet(Orders)
  /\ Steady \subseteq Devices /\ NoDevice \notin Devices /\ NoServer \notin Servers
  /\ Role \in [Servers -> SUBSET {"poll", "tell", "create", "list", "order", "revoke", "policy"}]
  /\ MaxAttempts \in Nat \ {0} /\ LastTry \in Nat /\ Stock \in Nat /\ Capacity \in Nat \ {0}
  /\ Upsets \in Nat

VARIABLES
  job,      \* device_jobs
  cmd,      \* device_commands
  device,   \* device_registry with the management and execution profiles
  srv,      \* requests under way
  agent,    \* what the agent of each device is doing
  worked,   \* commands that were carried out
  handed,   \* handed[c]: how often the self-update c was handed to an agent
  late,     \* late[j]: reports that wrote a job assigned anew since they read it
  upsets    \* upsets left

vars == <<job, cmd, device, srv, agent, worked, handed, late, upsets>>

\* A command is named by what it is for and, if that is a job, by the assignment.
NoCmd    == <<0, 0>>
JobCmds  == Jobs \X (1..LastTry)
Cmds     == JobCmds \cup (Orders \X {0})
Ended(j) == job[j].st \in {"succeeded", "failed"}

Outcomes == {"done", "retry", "final"}
ServerSteps == {"idle", "tidy", "scan", "assign", "insert", "fetch", "claim", "bar",
                "finish", "find", "settle", "cancel", "disable", "apply", "issue"}

NoRequest == [at |-> "idle", dev |-> NoDevice, todo |-> {}, job |-> 0, cmd |-> NoCmd,
              pick |-> NoDevice, told |-> "retry", tries |-> 0]
NoAgent   == [at |-> "idle", cmd |-> NoCmd, srv |-> NoServer, told |-> "retry"]
NewJob    == [st |-> "absent", nr |-> 0, tries |-> 0, due |-> FALSE]
NewCmd    == [st |-> "absent", dev |-> NoDevice, stale |-> FALSE]

\* The types; a waiting job has no command, an assigned one has.
TypeOK ==
  /\ job \in [Jobs -> [st: {"absent", "queued", "assigned", "succeeded", "failed"},
                       nr: 0..LastTry, tries: 0..LastTry, due: BOOLEAN]]
  /\ \A j \in Jobs : /\ job[j].st \in {"absent", "queued"} => job[j].nr = 0
                     /\ job[j].st = "assigned" => job[j].nr # 0
  /\ cmd \in [Cmds -> [st: {"absent", "queued", "claimed", "succeeded", "failed", "cancelled"},
                       dev: Devices \cup {NoDevice}, stale: BOOLEAN]]
  /\ device \in [Devices -> [revoked: BOOLEAN, online: BOOLEAN, pc: BOOLEAN, on: BOOLEAN]]
  /\ srv \in [Servers -> [at: ServerSteps, dev: Devices \cup {NoDevice}, todo: SUBSET Jobs,
                          job: Jobs \cup {0}, cmd: Cmds \cup {NoCmd}, pick: Devices \cup {NoDevice},
                          told: Outcomes, tries: 0..LastTry]]
  /\ agent \in [Devices -> [at: {"idle", "asking", "working", "holding", "telling"},
                            cmd: Cmds \cup {NoCmd}, srv: Servers \cup {NoServer}, told: Outcomes]]
  /\ worked \subseteq Cmds
  /\ handed \in [Cmds -> Nat] /\ late \in [Jobs -> Nat]
  /\ upsets \in Nat

Init ==
  /\ job = [j \in Jobs |-> NewJob]
  /\ cmd = [c \in Cmds |-> NewCmd]
  /\ device = [d \in Devices |-> [revoked |-> FALSE, online |-> TRUE, pc |-> TRUE, on |-> TRUE]]
  /\ srv = [w \in Servers |-> NoRequest]
  /\ agent = [d \in Devices |-> NoAgent]
  /\ worked = {} /\ handed = [c \in Cmds |-> 0] /\ late = [j \in Jobs |-> 0]
  /\ upsets = Upsets

-----------------------------------------------------------------------------
Upset == upsets > 0 /\ upsets' = upsets - 1

Turns(w, s) == srv' = [srv EXCEPT ![w].at = s]
Live(c)     == cmd[c].st \in {"queued", "claimed"}

\* A request is over; whoever waits for it hears so.
Over(w)       == srv' = [srv EXCEPT ![w] = NoRequest]
Waits(w, d)   == agent[d].srv = w
Hears(w, a)   == agent' = [d \in Devices |-> IF Waits(w, d) THEN a ELSE agent[d]]

\* The agent reports an error of its own first report as a failure, and drops the
\* command when that report fails too.
Rebuffed(a) ==
  IF a.at = "telling" /\ a.told # "retry"
  THEN [a EXCEPT !.at = "holding", !.srv = NoServer, !.told = "retry"] ELSE NoAgent
Errs(w) == agent' = [d \in Devices |-> IF Waits(w, d) THEN Rebuffed(agent[d]) ELSE agent[d]]

Free(w, what)  == srv[w].at = "idle" /\ what \in Role[w]
Asked(w, what) == Free(w, what) /\ Upset

-----------------------------------------------------------------------------
(* The pass over the jobs. *)

Create(w, j) ==
  /\ Free(w, "create") /\ job[j].st = "absent"
  /\ Cardinality({k \in Jobs : job[k].st # "absent"}) < Stock
  /\ IF j \in SelfUpdates THEN Upset ELSE UNCHANGED upsets
  /\ job' = [job EXCEPT ![j].st = "queued"]
  /\ Turns(w, "tidy")
  /\ UNCHANGED <<cmd, device, agent, worked, handed, late>>

List(w) ==
  /\ Asked(w, "list")
  /\ Turns(w, "tidy")
  /\ UNCHANGED <<job, cmd, device, agent, worked, handed, late>>

\* Slips: no count of attempts; no test of the time; no pass.
TidiedEver(j)  == IF job[j].st = "assigned" /\ job[j].due
                  THEN [job[j] EXCEPT !.st = "queued", !.nr = 0, !.due = FALSE] ELSE job[j]
TidiedEarly(j) == IF job[j].st = "assigned" /\ job[j].tries < MaxAttempts
                  THEN [job[j] EXCEPT !.st = "queued", !.nr = 0, !.due = FALSE] ELSE job[j]
TidiedNever(j) == job[j]

\* A job that is overdue is queued anew or, on its last attempt, given up.  Its
\* command is left as it is.
Tidied(j) ==
  IF job[j].st # "assigned" \/ ~job[j].due THEN job[j]
  ELSE IF job[j].tries < MaxAttempts
       THEN [job[j] EXCEPT !.st = "queued", !.nr = 0, !.due = FALSE]
       ELSE [job[j] EXCEPT !.st = "failed", !.due = FALSE]

Tidy(w) ==
  /\ srv[w].at = "tidy"
  /\ job' = [j \in Jobs |-> Tidied(j)]
  /\ srv' = [srv EXCEPT ![w].at = "scan", ![w].todo = {j \in Jobs : Tidied(j).st = "queued"}]
  /\ UNCHANGED <<cmd, device, agent, worked, handed, late, upsets>>

Load(d)       == Cardinality({c \in Cmds : Live(c) /\ cmd[c].dev = d})
Candidates    == {d \in Devices : /\ ~device[d].revoked /\ device[d].on
                                  /\ device[d].online /\ device[d].pc
                                  /\ Load(d) < Capacity}
LeastLoaded   == {d \in Candidates : \A e \in Candidates : Load(d) <= Load(e)}

\* The first of the waiting jobs: a device is looked for; the least loaded is taken, of several any one.
Candidate(w) ==
  /\ srv[w].at = "scan"
  /\ \E j \in srv[w].todo :
       /\ \A k \in srv[w].todo : j <= k
       /\ LET rest == srv[w].todo \ {j} IN
          \/ /\ LeastLoaded = {}
             /\ srv' = [srv EXCEPT ![w].todo = rest]
          \/ \E d \in LeastLoaded :
               srv' = [srv EXCEPT ![w].at = "assign", ![w].todo = rest, ![w].job = j, ![w].pick = d]
  /\ UNCHANGED <<job, cmd, device, agent, worked, handed, late, upsets>>

Rescan(w) == srv' = [srv EXCEPT ![w] = [NoRequest EXCEPT !.at = "scan", !.dev = srv[w].dev,
                                                         !.todo = srv[w].todo]]

\* The job is claimed for the device, if it still waits ...
Assign(w) ==
  LET j == srv[w].job IN
  /\ srv[w].at = "assign"
  /\ \/ /\ job[j].st = "queued" /\ job[j].tries < LastTry
        /\ LET n == job[j].tries + 1 IN
           /\ job' = [job EXCEPT ![j] = [st |-> "assigned", nr |-> n, tries |-> n, due |-> FALSE]]
           /\ srv' = [srv EXCEPT ![w].at = "insert", ![w].cmd = <<j, n>>]
     \/ /\ job[j].st # "queued"
        /\ Rescan(w) /\ UNCHANGED job
  /\ UNCHANGED <<cmd, device, agent, worked, handed, late, upsets>>

\* ... and the command follows in a statement of its own.
Insert(w) ==
  /\ srv[w].at = "insert"
  /\ cmd' = [cmd EXCEPT ![srv[w].cmd] = [st |-> "queued", dev |-> srv[w].pick, stale |-> FALSE]]
  /\ Rescan(w)
  /\ UNCHANGED <<job, device, agent, worked, handed, late, upsets>>

Scanned(w) ==
  /\ srv[w].at = "scan" /\ srv[w].todo = {}
  /\ IF srv[w].dev = NoDevice THEN Over(w) ELSE Turns(w, "fetch")
  /\ UNCHANGED <<job, cmd, device, agent, worked, handed, late, upsets>>

-----------------------------------------------------------------------------
(* The agent's poll. *)

\* A request of a revoked device is refused.
Ask(w, d) ==
  /\ Free(w, "poll") /\ agent[d].at = "idle" /\ ~device[d].revoked
  /\ srv' = [srv EXCEPT ![w] = [NoRequest EXCEPT !.at = "tidy", !.dev = d]]
  /\ agent' = [agent EXCEPT ![d] = [NoAgent EXCEPT !.at = "asking", !.srv = w]]
  /\ UNCHANGED <<job, cmd, device, worked, handed, late, upsets>>

\* A self-update that was claimed and never answered is closed; every other claim
\* that old is offered again.
Stalled(c, d) == cmd[c].st = "claimed" /\ cmd[c].stale /\ cmd[c].dev = d
Closed(row)   == [row EXCEPT !.st = "failed", !.stale = FALSE]
\* A slip: self-updates are offered again like any other command.
FreshenedAll(c, d) ==
  IF Stalled(c, d) THEN [cmd[c] EXCEPT !.st = "queued", !.stale = FALSE] ELSE cmd[c]
Freshened(c, d) ==
  IF ~Stalled(c, d) THEN cmd[c]
  ELSE IF c[1] \in SelfUpdates THEN Closed(cmd[c])
       ELSE [cmd[c] EXCEPT !.st = "queued", !.stale = FALSE]

\* What a device of its present type may carry out.
Allowed(c, d) == device[d].pc \/ c[1] \in Observing

\* The oldest waiting command is read, with the type of the device.  Requests stamp
\* the commands they insert before they insert them, so any of those waiting may be it.
Fetch(w) ==
  LET d     == srv[w].dev
      fresh == [c \in Cmds |-> Freshened(c, d)]
      mine  == {c \in Cmds : fresh[c].st = "queued" /\ fresh[c].dev = d}
  IN
  /\ srv[w].at = "fetch"
  /\ cmd' = fresh
  /\ \/ /\ mine = {}
        /\ Over(w) /\ Hears(w, NoAgent)
     \/ \E c \in mine :
          /\ srv' = [srv EXCEPT ![w].at = IF Allowed(c, d) THEN "claim" ELSE "bar", ![w].cmd = c]
          /\ UNCHANGED agent
  /\ UNCHANGED <<job, device, worked, handed, late, upsets>>

\* It is claimed, if it still waits, and handed to the agent, if the agent still waits.
Claim(w) ==
  LET c == srv[w].cmd IN
  /\ srv[w].at = "claim"
  /\ \/ /\ cmd[c].st = "queued"
        /\ cmd' = [cmd EXCEPT ![c].st = "claimed"]
        /\ handed' = IF c[1] \in SelfUpdates THEN [handed EXCEPT ![c] = @ + 1] ELSE handed
        /\ Hears(w, [NoAgent EXCEPT !.at = "working", !.cmd = c])
     \/ /\ cmd[c].st # "queued"
        /\ Hears(w, NoAgent) /\ UNCHANGED <<cmd, handed>>
  /\ Over(w)
  /\ UNCHANGED <<job, device, worked, late, upsets>>

Bar(w) ==
  LET c == srv[w].cmd IN
  /\ srv[w].at = "bar"
  /\ cmd' = IF cmd[c].st = "queued" THEN [cmd EXCEPT ![c].st = "cancelled"] ELSE cmd
  /\ Over(w) /\ Hears(w, NoAgent)
  /\ UNCHANGED <<job, device, worked, handed, late, upsets>>

-----------------------------------------------------------------------------
(* Carrying out and reporting. *)

\* The agent carries the command out, or fails to.  A result the server refuses as
\* proof is final.
Work(d) ==
  /\ agent[d].at = "working"
  /\ \E o \in Outcomes :
       /\ agent' = [agent EXCEPT ![d].at = "holding", ![d].told = o]
       /\ worked' = IF o = "done" THEN worked \cup {agent[d].cmd} ELSE worked
  /\ UNCHANGED <<job, cmd, device, srv, handed, late, upsets>>

Tell(w, d) ==
  LET c == agent[d].cmd IN
  /\ Free(w, "tell") /\ agent[d].at = "holding"
  /\ IF ~device[d].revoked /\ cmd[c].st = "claimed" /\ cmd[c].dev = d
     THEN /\ srv' = [srv EXCEPT ![w] = [NoRequest EXCEPT !.at = "finish", !.dev = d, !.cmd = c,
                                                         !.told = agent[d].told]]
          /\ agent' = [agent EXCEPT ![d].at = "telling", ![d].srv = w]
     ELSE /\ agent' = [agent EXCEPT ![d] = Rebuffed([agent[d] EXCEPT !.at = "telling"])]
          /\ UNCHANGED srv
  /\ UNCHANGED <<job, cmd, device, worked, handed, late, upsets>>

\* A slip: the count of rows written is not looked at.
FinishAnyhow(w) ==
  LET c == srv[w].cmd IN
  /\ srv[w].at = "finish"
  /\ cmd' = IF cmd[c].st # "claimed" THEN cmd
            ELSE [cmd EXCEPT ![c].st = IF srv[w].told = "done" THEN "succeeded" ELSE "failed"]
  /\ Turns(w, "find")
  /\ UNCHANGED <<job, device, agent, worked, handed, late, upsets>>

\* The command ends, if it is still claimed.
Finish(w) ==
  LET c == srv[w].cmd IN
  /\ srv[w].at = "finish"
  /\ \/ /\ cmd[c].st = "claimed" /\ cmd[c].dev = srv[w].dev
        /\ cmd' = [cmd EXCEPT ![c].st = IF srv[w].told = "done" THEN "succeeded" ELSE "failed",
                              ![c].stale = FALSE]
        /\ Turns(w, "find") /\ UNCHANGED agent
     \/ /\ ~(cmd[c].st = "claimed" /\ cmd[c].dev = srv[w].dev)
        /\ Over(w) /\ Errs(w) /\ UNCHANGED cmd
  /\ UNCHANGED <<job, device, worked, handed, late, upsets>>

\* The job the command is the assignment of is looked up ...
Find(w) ==
  LET c == srv[w].cmd IN
  /\ srv[w].at = "find"
  /\ IF c[1] \in Jobs /\ job[c[1]].nr = c[2]
     THEN /\ srv' = [srv EXCEPT ![w].at = "settle", ![w].job = c[1], ![w].tries = job[c[1]].tries]
          /\ UNCHANGED agent
     ELSE Over(w) /\ Hears(w, NoAgent)
  /\ UNCHANGED <<job, cmd, device, worked, handed, late, upsets>>

\* A slip: a failure is retried however often it was.
VerdictEver(w) ==
  IF srv[w].told = "done" THEN [job[srv[w].job] EXCEPT !.st = "succeeded", !.due = FALSE]
  ELSE [job[srv[w].job] EXCEPT !.st = "queued", !.nr = 0, !.due = FALSE]

\* ... and written, whatever became of it since: done, queued anew, or given up.
Verdict(w) ==
  CASE srv[w].told = "done" -> [job[srv[w].job] EXCEPT !.st = "succeeded", !.due = FALSE]
    [] srv[w].told = "retry" /\ srv[w].tries < MaxAttempts ->
         [job[srv[w].job] EXCEPT !.st = "queued", !.nr = 0, !.due = FALSE]
    [] OTHER -> [job[srv[w].job] EXCEPT !.st = "failed", !.due = FALSE]

Overtaken(w) == srv[w].at = "settle" /\ job[srv[w].job].nr # srv[w].cmd[2]

Settle(w) ==
  /\ srv[w].at = "settle"
  /\ job' = [job EXCEPT ![srv[w].job] = Verdict(w)]
  /\ late' = IF Overtaken(w) THEN [late EXCEPT ![srv[w].job] = @ + 1] ELSE late
  /\ Over(w) /\ Hears(w, NoAgent)
  /\ UNCHANGED <<cmd, device, worked, handed, upsets>>

-----------------------------------------------------------------------------
(* The administrators. *)

\* An order, a command of its own, is checked against the device, and inserted afterwards.
Order(w, x, d) ==
  /\ Asked(w, "order")
  /\ cmd[<<x, 0>>].st = "absent" /\ ~ \E v \in Servers : srv[v].at = "issue" /\ srv[v].cmd = <<x, 0>>
  /\ ~device[d].revoked /\ Allowed(<<x, 0>>, d)
  /\ srv' = [srv EXCEPT ![w] = [NoRequest EXCEPT !.at = "issue", !.cmd = <<x, 0>>, !.pick = d]]
  /\ UNCHANGED <<job, cmd, device, agent, worked, handed, late>>

Issue(w) ==
  /\ srv[w].at = "issue"
  /\ cmd' = [cmd EXCEPT ![srv[w].cmd] = [st |-> "queued", dev |-> srv[w].pick, stale |-> FALSE]]
  /\ Over(w)
  /\ UNCHANGED <<job, device, agent, worked, handed, late, upsets>>

\* Revoking: the registration, the commands, the execution profile.
Revoke(w, d) ==
  /\ Asked(w, "revoke") /\ d \notin Steady /\ ~device[d].revoked
  /\ device' = [device EXCEPT ![d].revoked = TRUE]
  /\ srv' = [srv EXCEPT ![w] = [NoRequest EXCEPT !.at = "cancel", !.pick = d]]
  /\ UNCHANGED <<job, cmd, agent, worked, handed, late>>

Cancel(w) ==
  /\ srv[w].at = "cancel"
  /\ cmd' = [c \in Cmds |-> IF Live(c) /\ cmd[c].dev = srv[w].pick
                            THEN [cmd[c] EXCEPT !.st = "cancelled", !.stale = FALSE] ELSE cmd[c]]
  /\ Turns(w, "disable")
  /\ UNCHANGED <<job, device, agent, worked, handed, late, upsets>>

\* Another type: the management profile, and the execution profile if it is no PC.
Retype(w, d, pc) ==
  /\ Asked(w, "policy") /\ d \notin Steady /\ ~device[d].revoked
  /\ device' = [device EXCEPT ![d].pc = pc]
  /\ IF pc THEN UNCHANGED srv
     ELSE srv' = [srv EXCEPT ![w] = [NoRequest EXCEPT !.at = "disable", !.pick = d]]
  /\ UNCHANGED <<job, cmd, agent, worked, handed, late>>

Disable(w) ==
  /\ srv[w].at = "disable"
  /\ device' = [device EXCEPT ![srv[w].pick].on = FALSE]
  /\ Over(w)
  /\ UNCHANGED <<job, cmd, agent, worked, handed, late, upsets>>

\* Automatic work is allowed to a PC, checked and then written; or forbidden.
Enable(w, d) ==
  /\ Asked(w, "policy") /\ ~device[d].revoked /\ device[d].pc
  /\ srv' = [srv EXCEPT ![w] = [NoRequest EXCEPT !.at = "apply", !.pick = d]]
  /\ UNCHANGED <<job, cmd, device, agent, worked, handed, late>>

Forbid(w, d) ==
  /\ Asked(w, "policy") /\ d \notin Steady /\ ~device[d].revoked
  /\ srv' = [srv EXCEPT ![w] = [NoRequest EXCEPT !.at = "disable", !.pick = d]]
  /\ UNCHANGED <<job, cmd, device, agent, worked, handed, late>>

Apply(w) ==
  /\ srv[w].at = "apply"
  /\ device' = [device EXCEPT ![srv[w].pick].on = TRUE]
  /\ Over(w)
  /\ UNCHANGED <<job, cmd, agent, worked, handed, late, upsets>>

-----------------------------------------------------------------------------
(* Time and failure. *)

\* A heartbeat: the device is online, and its forgotten self-updates are closed.
Heartbeat(d) ==
  /\ ~device[d].revoked
  /\ device' = [device EXCEPT ![d].online = TRUE]
  /\ cmd' = [c \in Cmds |-> IF c[1] \in SelfUpdates /\ Stalled(c, d) THEN Closed(cmd[c]) ELSE cmd[c]]
  /\ UNCHANGED <<job, srv, agent, worked, handed, late, upsets>>

Silence(d) ==
  /\ d \notin Steady /\ device[d].online /\ Upset
  /\ device' = [device EXCEPT ![d].online = FALSE]
  /\ UNCHANGED <<job, cmd, srv, agent, worked, handed, late>>

\* The assignment of a job is 65 minutes old.
Overdue(j) ==
  /\ job[j].st = "assigned" /\ ~job[j].due
  /\ job' = [job EXCEPT ![j].due = TRUE]
  /\ UNCHANGED <<cmd, device, srv, agent, worked, handed, late, upsets>>

\* A claim is 60 minutes old, of a self-update three.  With the agent still at it the
\* hour is an upset; three minutes are not.
Held(c) == \/ \E d \in Devices : agent[d].cmd = c
           \/ \E w \in Servers : srv[w].at = "finish" /\ srv[w].cmd = c
Stale(c) ==
  /\ cmd[c].st = "claimed" /\ ~cmd[c].stale
  /\ IF Held(c) /\ c[1] \notin SelfUpdates THEN Upset ELSE UNCHANGED upsets
  /\ cmd' = [cmd EXCEPT ![c].stale = TRUE]
  /\ UNCHANGED <<job, device, srv, agent, worked, handed, late>>

\* A request dies.
Die(w) ==
  /\ srv[w].at # "idle" /\ Upset
  /\ Over(w) /\ Errs(w)
  /\ UNCHANGED <<job, cmd, device, worked, handed, late>>

\* The agent gives up waiting: the request goes on without it.
GiveUp(d) ==
  /\ agent[d].srv # NoServer /\ Upset
  /\ agent' = [agent EXCEPT ![d] = Rebuffed(agent[d])]
  /\ UNCHANGED <<job, cmd, device, srv, worked, handed, late>>

\* The agent restarts and knows of no command; a self-update may be what ended it.
Restart(d) ==
  /\ agent[d].at # "idle"
  /\ IF agent[d].at = "working" /\ agent[d].cmd[1] \in SelfUpdates THEN UNCHANGED upsets ELSE Upset
  /\ agent' = [agent EXCEPT ![d] = NoAgent]
  /\ UNCHANGED <<job, cmd, device, srv, worked, handed, late>>

-----------------------------------------------------------------------------
Step(w) ==
  \/ Tidy(w) \/ Candidate(w) \/ Assign(w) \/ Insert(w) \/ Scanned(w)
  \/ Fetch(w) \/ Claim(w) \/ Bar(w) \/ Finish(w) \/ Find(w) \/ Settle(w)
  \/ Issue(w) \/ Cancel(w) \/ Disable(w) \/ Apply(w)

Requests(w) ==
  \/ List(w)
  \/ \E j \in Jobs : Create(w, j)
  \/ \E d \in Devices : \/ Ask(w, d) \/ Tell(w, d) \/ Revoke(w, d)
                        \/ Enable(w, d) \/ Forbid(w, d)
                        \/ \E pc \in BOOLEAN : Retype(w, d, pc)
                        \/ \E x \in Orders : Order(w, x, d)

Next ==
  \/ \E w \in Servers : Step(w) \/ Requests(w) \/ Die(w)
  \/ \E d \in Devices : Work(d) \/ Heartbeat(d) \/ Silence(d) \/ GiveUp(d) \/ Restart(d)
  \/ \E j \in Jobs : Overdue(j)
  \/ \E c \in Cmds : Stale(c)

Spec == Init /\ [][Next]_vars

\* Requests are handled, time passes, and the agents of the steady devices go on
\* polling, working and reporting: a report needs a request that is free now and then.
Fairness ==
  /\ \A w \in Servers : WF_vars(Step(w))
  /\ \A d \in Steady : /\ SF_vars(\E w \in Servers : Ask(w, d))
                       /\ SF_vars(\E w \in Servers : Tell(w, d))
                       /\ WF_vars(Work(d))
  /\ \A j \in Jobs : WF_vars(Overdue(j))
  /\ \A c \in Cmds : WF_vars(Stale(c) /\ ~Held(c))

FairSpec == Spec /\ Fairness

-----------------------------------------------------------------------------
(* What must hold. *)

\* A job counts as done only if a device carried out one of its assignments and the
\* report of it was accepted (a revocation may cancel the command while the report of
\* it is handled).
SucceededIsProven ==
  \A j \in Jobs : job[j].st = "succeeded" =>
    \E c \in JobCmds : c[1] = j /\ c \in worked /\ cmd[c].st = "succeeded"

\* A job is assigned at most MaxAttempts times, but for reports that queue it anew from
\* a count they read before it was assigned again.
AttemptsBounded ==
  \A j \in Jobs : job[j].tries <= MaxAttempts + late[j]

\* A job that ended stays so, but for a result of its last assignment that comes after
\* the job was given up, unless a report wrote it that had read an earlier assignment.
EndedUnlessLate ==
  [][\A j \in Jobs : Ended(j) => job'[j].st \in {job[j].st, "succeeded"} \/ late'[j] > 0]_vars

\* A job whose command may still be carried out is queued anew only when it is overdue
\* or by such a report: otherwise no two devices are ever given the same job.
LetGoForCause ==
  [][\A j \in Jobs : \A c \in JobCmds :
       (c = <<j, job[j].nr>> /\ Live(c) /\ job[j].st = "assigned" /\ job'[j].st = "queued") =>
         job[j].due \/ late'[j] > late[j]]_vars

\* Repeating a self-update would end the agent again, so the command of one is handed
\* out once, whatever became of its claim.  Only a self-update sent as a job comes back:
\* its closed command makes way for another, no more often than a job is assigned.
SelfUpdatesRationed ==
  \A c \in Cmds : c[1] \in SelfUpdates =>
    /\ handed[c] <= 1
    /\ handed[c] > 0 /\ c[1] \in Jobs => c[2] <= MaxAttempts + late[c[1]]

\* Every job ends, whatever becomes of the requests, the commands and the devices, as
\* long as one device goes on: when a job waits, a time comes when none is under way.
EveryJobEnds ==
  (\E j \in Jobs : job[j].st = "queued") ~> \A j \in Jobs : job[j].st = "absent" \/ Ended(j)
=============================================================================
