------------------------ MODULE DeviceCommands_proofs ------------------------
(***************************************************************************)
(* Theorems about DeviceCommands, for every set of jobs, devices, orders   *)
(* and requests and every bound.                                           *)
(*                                                                         *)
(* Job and command are written apart, so the inductive invariant IInv says *)
(* what each may be without the other (JobOK, CmdOK) and what a request    *)
(* and an agent carry from one statement to the next (SrvOK, AgentOK).  Of *)
(* two requests that write the same rows only their commands tell them     *)
(* apart (Apart): two that settle never settle the same command, which is  *)
(* why a report cannot be counted twice.                                   *)
(***************************************************************************)
EXTENDS DeviceCommands, TLAPS

JobRow == [st: {"absent", "queued", "assigned", "succeeded", "failed"},
           nr: 0..LastTry, tries: 0..LastTry, due: BOOLEAN]
CmdRow == [st: {"absent", "queued", "claimed", "succeeded", "failed", "cancelled"},
           dev: Devices \cup {NoDevice}, stale: BOOLEAN]
DevRow == [revoked: BOOLEAN, online: BOOLEAN, pc: BOOLEAN, on: BOOLEAN]
Srv    == [at: ServerSteps, dev: Devices \cup {NoDevice}, todo: SUBSET Jobs,
           job: Jobs \cup {0}, cmd: Cmds \cup {NoCmd}, pick: Devices \cup {NoDevice},
           told: Outcomes, tries: 0..LastTry]
Agent  == [at: {"idle", "asking", "working", "holding", "telling"},
           cmd: Cmds \cup {NoCmd}, srv: Servers \cup {NoServer}, told: Outcomes]

Settled  == {"succeeded", "failed"}
Settling == {"find", "settle"}

\* A command that was reported, and whose report no request is about to use.
Quit(c) ==
  /\ cmd[c].st \in Settled
  /\ \A w \in Servers : srv[w].at \in Settling => srv[w].cmd # c

\* A job as it may be: its count has room while it waits; it is done by proof; and
\* it ended by its last attempt or by a report that is used up.
JobOK(j, r) ==
  /\ r.st \in {"absent", "queued"} => r.nr = 0
  /\ r.st = "assigned" => r.nr # 0
  /\ r.nr \in {0, r.tries}
  /\ r.tries <= MaxAttempts + late[j]
  /\ r.st \in {"absent", "queued"} => r.tries < MaxAttempts + late[j]
  /\ r.st = "succeeded" => \E c \in JobCmds : c[1] = j /\ c \in worked /\ cmd[c].st = "succeeded"
  /\ r.st \in Settled /\ late[j] = 0 =>
       r.nr # 0 /\ ((r.st = "failed" /\ r.tries >= MaxAttempts) \/ Quit(<<j, r.nr>>))

\* A self-update is handed out once, and until it is claimed not at all.
HandedOK(c) ==
  c[1] \in SelfUpdates => /\ handed[c] <= 1
                          /\ cmd[c].st \in {"absent", "queued"} => handed[c] = 0

CmdOK(c) == c \in JobCmds /\ cmd[c].st # "absent" => c[2] <= job[c[1]].tries

\* What a request carries from one statement to the next.
SrvOK(x) ==
  /\ x.at = "assign" => x.job \in Jobs /\ x.pick \in Devices
  /\ x.at = "insert" => /\ x.cmd \in JobCmds /\ x.pick \in Devices
                        /\ cmd[x.cmd].st = "absent" /\ x.cmd[2] <= job[x.cmd[1]].tries
  /\ x.at = "issue" => /\ x.cmd \in Orders \X {0} /\ x.pick \in Devices
                       /\ cmd[x.cmd].st = "absent"
  /\ x.at = "fetch" => x.dev \in Devices
  /\ x.at \in {"claim", "bar"} => x.cmd \in Cmds
  /\ x.at \in {"finish"} \cup Settling => x.cmd \in Cmds /\ (x.told = "done" => x.cmd \in worked)
  /\ x.at \in Settling => /\ cmd[x.cmd].st \in Settled
                          /\ x.told = "done" => cmd[x.cmd].st = "succeeded"
  /\ x.at = "settle" => x.cmd \in JobCmds /\ x.job = x.cmd[1] /\ x.tries = x.cmd[2]
  /\ x.at \in {"cancel", "disable", "apply"} => x.pick \in Devices

Apart(x, y) ==
  \/ x.cmd # y.cmd
  \/ /\ ~(x.at = "insert" /\ y.at = "insert")
     /\ ~(x.at = "issue" /\ y.at = "issue")
     /\ ~(x.at \in Settling /\ y.at \in Settling)

AgentOK(a) ==
  /\ a.at \in {"working", "holding", "telling"} => a.cmd \in Cmds
  /\ a.at \in {"holding", "telling"} /\ a.told = "done" => a.cmd \in worked

JobsOK   == job \in [Jobs -> JobRow] /\ late \in [Jobs -> Nat] /\ \A j \in Jobs : JobOK(j, job[j])
HandsOK  == handed \in [Cmds -> Nat] /\ \A c \in Cmds : HandedOK(c)
CmdsOK   == cmd \in [Cmds -> CmdRow] /\ worked \subseteq Cmds /\ \A c \in Cmds : CmdOK(c)
SrvsOK   == /\ srv \in [Servers -> Srv]
            /\ \A w \in Servers : SrvOK(srv[w])
            /\ \A v, w \in Servers : v # w => Apart(srv[v], srv[w])
AgentsOK == agent \in [Devices -> Agent] /\ \A d \in Devices : AgentOK(agent[d])
RestOK   == device \in [Devices -> DevRow] /\ upsets \in Nat

IInv == JobsOK /\ CmdsOK /\ HandsOK /\ SrvsOK /\ AgentsOK /\ RestOK

\* What every step leaves standing.
Keeps ==
  /\ job' \in [Jobs -> JobRow] /\ \A j \in Jobs : job[j].tries <= job'[j].tries
  /\ late' \in [Jobs -> Nat] /\ \A j \in Jobs : late[j] <= late'[j]
  /\ worked \subseteq worked' /\ worked' \subseteq Cmds
  /\ cmd' \in [Cmds -> CmdRow]
  /\ \A c \in Cmds : cmd[c].st \in Settled => cmd'[c].st = cmd[c].st
  /\ \A c \in Cmds : cmd[c].st = "absent" =>
       \/ cmd'[c].st = "absent"
       \/ \E w \in Servers : srv[w].at \in {"insert", "issue"} /\ srv[w].cmd = c /\ srv'[w] # srv[w]

\* A request comes to settle a command only by ending it.
Comes(w) ==
  srv'[w].at \in Settling =>
    \/ srv[w].at \in Settling /\ srv'[w].cmd = srv[w].cmd
    \/ srv'[w].cmd \in Cmds /\ cmd[srv'[w].cmd].st = "claimed"

\* The action properties, of one row.
EndedMoves(j) == Ended(j) => job'[j].st \in {job[j].st, "succeeded"} \/ late'[j] > 0
LetsGo(j) ==
  \A c \in JobCmds :
    (c = <<j, job[j].nr>> /\ Live(c) /\ job[j].st = "assigned" /\ job'[j].st = "queued") =>
      job[j].due \/ late'[j] > late[j]

Next1 == IInv' /\ \A j \in Jobs : EndedMoves(j) /\ LetsGo(j)

USE DeviceAssumption

-----------------------------------------------------------------------------
(* Commands. *)

LEMMA CmdParts ==
  ASSUME NEW c \in Cmds
  PROVE  /\ c \in JobCmds => c[1] \in Jobs /\ c[2] \in 1..LastTry /\ c = <<c[1], c[2]>>
         /\ c \in Orders \X {0} => c[1] \in Orders /\ c \notin JobCmds
         /\ c \in JobCmds \/ c \in Orders \X {0}
         /\ c[1] \in Jobs => c \in JobCmds
  BY DEF Cmds, JobCmds

LEMMA JobCmdIs ==
  ASSUME NEW j \in Jobs, NEW n \in 1..LastTry
  PROVE  <<j, n>> \in JobCmds /\ <<j, n>> \in Cmds /\ <<j, n>>[1] = j /\ <<j, n>>[2] = n
  BY DEF Cmds, JobCmds

LEMMA JobCmdsAreCmds == JobCmds \subseteq Cmds /\ Orders \X {0} \subseteq Cmds
  BY DEF Cmds

-----------------------------------------------------------------------------
(* What a step leaves alone stays as it should be. *)

LEMMA QuitStays ==
  ASSUME IInv, Keeps, \A w \in Servers : Comes(w), NEW c \in Cmds, Quit(c) PROVE Quit(c)'
  <1>1. cmd'[c].st = cmd[c].st
    BY DEF Keeps, Quit
  <1>2. ASSUME NEW w \in Servers, srv'[w].at \in Settling PROVE srv'[w].cmd # c
    BY <1>2 DEF Comes, Quit, Settled
  <1> QED BY <1>1, <1>2 DEF Quit

LEMMA TriesAreNat ==
  ASSUME IInv, Keeps, NEW j \in Jobs PROVE job[j].tries \in Nat /\ job'[j].tries \in Nat
  <1>1. job[j] \in JobRow /\ job'[j] \in JobRow
    BY DEF IInv, JobsOK, Keeps
  <1>2. job[j].tries \in 0..LastTry /\ job'[j].tries \in 0..LastTry
    BY <1>1 DEF JobRow
  <1> QED BY <1>2

LEMMA SameJob ==
  ASSUME IInv, Keeps, \A w \in Servers : Comes(w), NEW j \in Jobs, job'[j] = job[j]
  PROVE  JobOK(j, job[j])'
  <1>1. JobOK(j, job[j]) /\ job[j] \in JobRow /\ late[j] \in Nat /\ late'[j] \in Nat /\ late[j] <= late'[j]
    BY DEF IInv, JobsOK, Keeps
  <1>2. job[j].st = "succeeded" => \E c \in JobCmds : c[1] = j /\ c \in worked' /\ cmd'[c].st = "succeeded"
    BY <1>1, JobCmdsAreCmds DEF JobOK, Keeps, Settled
  <1>3. job[j].nr # 0 /\ Quit(<<j, job[j].nr>>) => Quit(<<j, job[j].nr>>)'
    <2> HAVE job[j].nr # 0 /\ Quit(<<j, job[j].nr>>)
    <2>1. job[j].nr \in 1..LastTry
      BY <1>1 DEF JobRow
    <2>2. PICK c \in Cmds : c = <<j, job[j].nr>>
      BY <2>1, JobCmdIs
    <2>3. Quit(c)'
      BY <2>2, QuitStays
    <2> QED BY <2>2, <2>3 DEF Quit
  <1>4. job[j].tries \in Nat /\ MaxAttempts \in Nat
    BY TriesAreNat
  <1>5. job'[j].tries <= MaxAttempts + late'[j]
    BY <1>1, <1>4 DEF JobOK
  <1>6. job'[j].st \in {"absent", "queued"} => job'[j].tries < MaxAttempts + late'[j]
    BY <1>1, <1>4 DEF JobOK
  <1>7. job'[j].st \in Settled /\ late'[j] = 0 =>
          /\ job'[j].nr # 0
          /\ (job'[j].st = "failed" /\ job'[j].tries >= MaxAttempts) \/ Quit(<<j, job[j].nr>>)'
    BY <1>1, <1>3 DEF JobOK
  <1> QED BY <1>1, <1>2, <1>5, <1>6, <1>7 DEF JobOK, Quit

LEMMA SameSrv ==
  ASSUME IInv, Keeps, NEW w \in Servers, srv'[w] = srv[w] PROVE SrvOK(srv[w])'
  <1>1. SrvOK(srv[w]) /\ srv[w] \in Srv
    BY DEF IInv, SrvsOK
  <1>2. srv[w].at \in {"insert", "issue"} => srv[w].cmd \in Cmds /\ cmd'[srv[w].cmd].st = "absent"
    <2> HAVE srv[w].at \in {"insert", "issue"}
    <2>1. srv[w].cmd \in Cmds /\ cmd[srv[w].cmd].st = "absent"
      BY <1>1, JobCmdsAreCmds DEF SrvOK
    <2>2. ASSUME NEW v \in Servers, srv[v].at \in {"insert", "issue"}, srv[v].cmd = srv[w].cmd, srv'[v] # srv[v]
          PROVE  FALSE
      <3>1. v # w /\ Apart(srv[v], srv[w]) /\ SrvOK(srv[v])
        BY <2>2 DEF IInv, SrvsOK
      <3> QED BY <1>1, <2>1, <2>2, <3>1, CmdParts DEF Apart, SrvOK
    <2> QED BY <2>1, <2>2 DEF Keeps
  <1>3. srv[w].at = "insert" => srv[w].cmd[2] <= job'[srv[w].cmd[1]].tries
    <2> HAVE srv[w].at = "insert"
    <2>1. srv[w].cmd \in JobCmds /\ srv[w].cmd[2] <= job[srv[w].cmd[1]].tries
      BY <1>1 DEF SrvOK
    <2>2. srv[w].cmd[1] \in Jobs /\ srv[w].cmd[2] \in Nat
      BY <2>1, CmdParts, JobCmdsAreCmds
    <2>3. job[srv[w].cmd[1]].tries \in Nat /\ job'[srv[w].cmd[1]].tries \in Nat
      BY <2>2, TriesAreNat
    <2>4. job[srv[w].cmd[1]].tries <= job'[srv[w].cmd[1]].tries
      BY <2>2 DEF Keeps
    <2> DEFINE n == srv[w].cmd[2]  a == job[srv[w].cmd[1]].tries  b == job'[srv[w].cmd[1]].tries
    <2>5. n \in Nat /\ a \in Nat /\ b \in Nat /\ n <= a /\ a <= b
      BY <2>1, <2>2, <2>3, <2>4
    <2>6. n <= b
      <3> HIDE DEF n, a, b
      <3> QED BY <2>5
    <2> QED BY <2>6
  <1>4. srv[w].at \in Settling => cmd'[srv[w].cmd].st = cmd[srv[w].cmd].st
    BY <1>1 DEF SrvOK, Keeps
  <1> QED BY <1>1, <1>2, <1>3, <1>4 DEF SrvOK, Keeps

LEMMA SameAgent ==
  ASSUME IInv, Keeps, NEW d \in Devices, agent'[d] = agent[d] PROVE AgentOK(agent[d])'
  BY DEF IInv, AgentsOK, AgentOK, Keeps

LEMMA SameCmd ==
  ASSUME IInv, Keeps, NEW c \in Cmds, cmd[c].st # "absent" \/ cmd'[c].st = "absent" PROVE CmdOK(c)'
  <1> SUFFICES ASSUME c \in JobCmds, cmd'[c].st # "absent" PROVE c[2] <= job'[c[1]].tries
    BY DEF CmdOK
  <1>1. c[2] <= job[c[1]].tries /\ c[1] \in Jobs /\ c[2] \in Nat
    BY CmdParts DEF IInv, CmdsOK, CmdOK
  <1>2. job[c[1]].tries \in Nat /\ job'[c[1]].tries \in Nat /\ job[c[1]].tries <= job'[c[1]].tries
    BY <1>1, TriesAreNat DEF Keeps
  <1> QED BY <1>1, <1>2

LEMMA JobsStay ==
  ASSUME IInv, Keeps, \A w \in Servers : Comes(w),
         \A j \in Jobs : job'[j] = job[j] \/ JobOK(j, job[j])'
  PROVE  JobsOK'
  BY SameJob DEF Keeps, JobsOK

\* The commands move: on, or offered again if they are no self-updates, or they
\* come to be by a request that inserts them.
Moves(c) ==
  \/ cmd'[c].st = cmd[c].st
  \/ /\ cmd[c].st \in {"queued", "claimed"} /\ cmd'[c].st # "absent"
     /\ cmd'[c].st = "queued" => c[1] \notin SelfUpdates
  \/ /\ cmd[c].st = "absent"
     /\ \E w \in Servers : srv[w].at \in {"insert", "issue"} /\ srv[w].cmd = c /\ srv'[w] # srv[w]

CmdsMove == cmd' \in [Cmds -> CmdRow] /\ \A c \in Cmds : Moves(c)
JobsGrow == /\ job' \in [Jobs -> JobRow] /\ \A j \in Jobs : job[j].tries <= job'[j].tries
            /\ late' \in [Jobs -> Nat] /\ \A j \in Jobs : late[j] <= late'[j]
WorkGrows == worked \subseteq worked' /\ worked' \subseteq Cmds

LEMMA KeepsIs == ASSUME CmdsMove, JobsGrow, WorkGrows PROVE Keeps
  BY DEF CmdsMove, JobsGrow, WorkGrows, Keeps, Moves, Settled

LEMMA CmdsStay ==
  ASSUME IInv, Keeps, CmdsMove PROVE CmdsOK'
  <1>1. ASSUME NEW c \in Cmds PROVE CmdOK(c)'
    <2>1. CASE cmd[c].st # "absent" \/ cmd'[c].st = "absent"
      BY <2>1, SameCmd
    <2>2. CASE cmd[c].st = "absent" /\ cmd'[c].st # "absent"
      <3>1. PICK w \in Servers : srv[w].at \in {"insert", "issue"} /\ srv[w].cmd = c
        BY <2>2 DEF CmdsMove, Moves
      <3>2. SrvOK(srv[w])
        BY DEF IInv, SrvsOK
      <3>3. CASE srv[w].at = "issue"
        <4>1. c \notin JobCmds
          BY <3>1, <3>2, <3>3, CmdParts DEF SrvOK
        <4> QED BY <4>1 DEF CmdOK
      <3>4. CASE srv[w].at = "insert"
        <4>1. c[2] <= job[c[1]].tries /\ c[1] \in Jobs /\ c[2] \in Nat
          BY <3>1, <3>2, <3>4, CmdParts DEF SrvOK
        <4>2. job[c[1]].tries \in Nat /\ job'[c[1]].tries \in Nat /\ job[c[1]].tries <= job'[c[1]].tries
          BY <4>1, TriesAreNat DEF Keeps
        <4>3. c[2] <= job'[c[1]].tries
          BY <4>1, <4>2
        <4> QED BY <4>3 DEF CmdOK
      <3> QED BY <3>1, <3>3, <3>4
    <2> QED BY <2>1, <2>2
  <1> QED BY <1>1 DEF CmdsMove, Keeps, CmdsOK

\* A step hands out one waiting command, or none.
HandsOut == \E c \in Cmds : /\ cmd[c].st = "queued" /\ cmd'[c].st = "claimed"
                            /\ handed' = [handed EXCEPT ![c] = @ + 1]

LEMMA HandsStay == ASSUME IInv, CmdsMove, handed' = handed \/ HandsOut PROVE HandsOK'
  <1>1. handed \in [Cmds -> Nat] /\ \A c \in Cmds : HandedOK(c) /\ handed[c] \in Nat
    BY DEF IInv, HandsOK
  <1>2. ASSUME NEW c \in Cmds, handed'[c] = handed[c] PROVE HandedOK(c)'
    BY <1>1, <1>2 DEF HandedOK, CmdsMove, Moves
  <1>3. CASE handed' = handed
    BY <1>1, <1>2, <1>3 DEF HandsOK
  <1>4. CASE HandsOut
    <2>1. PICK c \in Cmds : /\ cmd[c].st = "queued" /\ cmd'[c].st = "claimed"
                           /\ handed' = [handed EXCEPT ![c] = @ + 1]
      BY <1>4 DEF HandsOut
    <2>2. handed'[c] = handed[c] + 1 /\ handed' \in [Cmds -> Nat]
      BY <1>1, <2>1
    <2>3. HandedOK(c)'
      BY <1>1, <2>1, <2>2 DEF HandedOK
    <2>4. ASSUME NEW e \in Cmds, e # c PROVE HandedOK(e)'
      <3>1. handed'[e] = handed[e]
        BY <1>1, <2>1, <2>4
      <3> QED BY <1>2, <3>1
    <2> QED BY <2>2, <2>3, <2>4 DEF HandsOK
  <1> QED BY <1>3, <1>4

-----------------------------------------------------------------------------
(* A step of one request. *)

Moved(w) == srv' \in [Servers -> Srv] /\ \A v \in Servers : v # w => srv'[v] = srv[v]

\* What sets a request apart that comes to insert or to settle a command.
Enters(w) ==
  /\ Comes(w)
  /\ srv'[w].at = "insert" => ~(srv'[w].cmd[2] <= job[srv'[w].cmd[1]].tries)
  /\ srv'[w].at = "issue" => \A v \in Servers : ~(srv[v].at = "issue" /\ srv[v].cmd = srv'[w].cmd)

LEMMA SrvsMove ==
  ASSUME IInv, Keeps, NEW w \in Servers, Moved(w), SrvOK(srv[w])', Enters(w)
  PROVE  SrvsOK' /\ \A v \in Servers : Comes(v)
  <1>1. ASSUME NEW v \in Servers PROVE SrvOK(srv[v])'
    BY SameSrv DEF Moved
  <1>2. ASSUME NEW v \in Servers, v # w PROVE Apart(srv[w], srv[v])' /\ Apart(srv[v], srv[w])'
    <2>1. srv'[v] = srv[v] /\ SrvOK(srv[v]) /\ SrvOK(srv[w]) /\ Apart(srv[w], srv[v])
      BY <1>2 DEF Moved, IInv, SrvsOK
    <2>2. ASSUME srv'[w].cmd = srv[v].cmd, srv'[w].at \in Settling, srv[v].at \in Settling PROVE FALSE
      <3>1. cmd[srv[v].cmd].st \in Settled
        BY <2>1, <2>2 DEF SrvOK
      <3> QED BY <2>1, <2>2, <3>1 DEF Enters, Comes, Apart, Settled
    <2>3. ASSUME srv'[w].cmd = srv[v].cmd, srv'[w].at = "insert", srv[v].at = "insert" PROVE FALSE
      BY <2>1, <2>3 DEF Enters, SrvOK
    <2>4. ASSUME srv'[w].cmd = srv[v].cmd, srv'[w].at = "issue", srv[v].at = "issue" PROVE FALSE
      BY <2>4 DEF Enters
    <2> QED BY <2>1, <2>2, <2>3, <2>4 DEF Apart
  <1>3. ASSUME NEW u \in Servers, NEW v \in Servers, u # v PROVE Apart(srv[u], srv[v])'
    <2>1. CASE u # w /\ v # w
      BY <1>3, <2>1 DEF Moved, IInv, SrvsOK, Apart
    <2>2. CASE u = w
      BY <1>2, <1>3, <2>2
    <2>3. CASE v = w
      BY <1>2, <1>3, <2>3
    <2> QED BY <2>1, <2>2, <2>3
  <1>4. ASSUME NEW v \in Servers PROVE Comes(v)
    BY DEF Moved, Enters, Comes
  <1> QED BY <1>1, <1>3, <1>4 DEF Moved, SrvsOK

LEMMA SrvsRest ==
  ASSUME IInv, Keeps, srv' = srv PROVE SrvsOK' /\ \A v \in Servers : Comes(v)
  <1>1. ASSUME NEW v \in Servers PROVE SrvOK(srv[v])'
    BY SameSrv
  <1>2. ASSUME NEW v \in Servers PROVE Comes(v)
    BY DEF Comes
  <1>3. ASSUME NEW u \in Servers, NEW v \in Servers, u # v PROVE Apart(srv[u], srv[v])'
    BY <1>3 DEF IInv, SrvsOK, Apart
  <1> QED BY <1>1, <1>2, <1>3 DEF IInv, SrvsOK

\* What an agent is left with when its request is over.
Drops(d) == agent'[d] \in {agent[d], NoAgent, Rebuffed(agent[d])}

LEMMA NoAgentOK == NoAgent \in Agent
  BY DEF NoAgent, Agent, Cmds, Outcomes

LEMMA RebuffedIs ==
  ASSUME NEW a \in Agent
  PROVE  /\ Rebuffed(a) \in Agent
         /\ Rebuffed(a).at \in {"idle", "holding"}
         /\ Rebuffed(a).at = "holding" => a.at = "telling" /\ Rebuffed(a).cmd = a.cmd /\ Rebuffed(a).told = "retry"
  <1>1. CASE a.at = "telling" /\ a.told # "retry"
    BY <1>1 DEF Rebuffed, Agent, Outcomes
  <1>2. CASE ~(a.at = "telling" /\ a.told # "retry")
    BY <1>2, NoAgentOK DEF Rebuffed, NoAgent
  <1> QED BY <1>1, <1>2

LEMMA AgentsDrop ==
  ASSUME IInv, Keeps, agent' = [d \in Devices |-> agent'[d]],
         \A d \in Devices : Drops(d) \/ (agent'[d] \in Agent /\ AgentOK(agent[d])')
  PROVE  AgentsOK'
  <1>1. ASSUME NEW d \in Devices PROVE agent'[d] \in Agent /\ AgentOK(agent[d])'
    <2>1. agent[d] \in Agent /\ AgentOK(agent[d])
      BY DEF IInv, AgentsOK
    <2>2. CASE agent'[d] = agent[d]
      BY <2>1, <2>2, SameAgent
    <2>3. CASE agent'[d] = NoAgent
      BY <2>3, NoAgentOK DEF NoAgent, AgentOK
    <2>4. CASE agent'[d] = Rebuffed(agent[d])
      BY <2>1, <2>4, RebuffedIs DEF AgentOK
    <2> QED BY <2>2, <2>3, <2>4 DEF Drops
  <1> QED BY <1>1 DEF AgentsOK

\* A step of request w that leaves the jobs alone.
LEMMA ByRequest ==
  ASSUME IInv, NEW w \in Servers, job' = job, late' = late, handed' = handed \/ HandsOut, WorkGrows, CmdsMove, RestOK',
         Moved(w), SrvOK(srv[w])' , Enters(w),
         agent' = [d \in Devices |-> agent'[d]],
         \A d \in Devices : Drops(d) \/ (agent'[d] \in Agent /\ AgentOK(agent[d])')
  PROVE  Next1
  <1>1. JobsGrow
    <2>1. \A j \in Jobs : job[j] \in JobRow /\ late[j] \in Nat
      BY DEF IInv, JobsOK
    <2>2. \A j \in Jobs : job[j].tries \in 0..LastTry
      BY <2>1 DEF JobRow
    <2> QED BY <2>1, <2>2 DEF JobsGrow, IInv, JobsOK
  <1>2. Keeps
    BY <1>1, KeepsIs
  <1>3. SrvsOK' /\ \A v \in Servers : Comes(v)
    BY <1>2, SrvsMove
  <1>4. JobsOK'
    BY <1>2, <1>3, JobsStay
  <1>5. CmdsOK' /\ HandsOK'
    BY <1>2, CmdsStay, HandsStay
  <1>6. AgentsOK'
    BY <1>2, AgentsDrop
  <1>7. \A j \in Jobs : EndedMoves(j) /\ LetsGo(j)
    BY DEF EndedMoves, LetsGo
  <1> QED BY <1>3, <1>4, <1>5, <1>6, <1>7 DEF Next1, IInv

\* A step of a device or of time that leaves jobs and requests alone.
LEMMA ByDevice ==
  ASSUME IInv, job' = job, late' = late, handed' = handed, srv' = srv, WorkGrows, CmdsMove, RestOK',
         agent' = [d \in Devices |-> agent'[d]],
         \A d \in Devices : Drops(d) \/ (agent'[d] \in Agent /\ AgentOK(agent[d])')
  PROVE  Next1
  <1>1. JobsGrow
    <2>1. \A j \in Jobs : job[j] \in JobRow /\ late[j] \in Nat
      BY DEF IInv, JobsOK
    <2>2. \A j \in Jobs : job[j].tries \in 0..LastTry
      BY <2>1 DEF JobRow
    <2> QED BY <2>1, <2>2 DEF JobsGrow, IInv, JobsOK
  <1>2. Keeps
    BY <1>1, KeepsIs
  <1>3. SrvsOK' /\ \A v \in Servers : Comes(v)
    BY <1>2, SrvsRest
  <1>4. JobsOK'
    BY <1>2, <1>3, JobsStay
  <1>5. CmdsOK' /\ HandsOK'
    BY <1>2, CmdsStay, HandsStay
  <1>6. AgentsOK'
    BY <1>2, AgentsDrop
  <1>7. \A j \in Jobs : EndedMoves(j) /\ LetsGo(j)
    BY DEF EndedMoves, LetsGo
  <1> QED BY <1>3, <1>4, <1>5, <1>6, <1>7 DEF Next1, IInv

\* A step of a request that writes one job, or all of them, and no command.
LEMMA ByJob ==
  ASSUME IInv, NEW w \in Servers, JobsGrow, cmd' = cmd, handed' = handed, worked' = worked, RestOK',
         Moved(w), SrvOK(srv[w])', Enters(w),
         agent' = [d \in Devices |-> agent'[d]], \A d \in Devices : Drops(d),
         \A j \in Jobs : job'[j] = job[j] \/ (JobOK(j, job[j])' /\ EndedMoves(j) /\ LetsGo(j))
  PROVE  Next1
  <1>1. CmdsMove /\ WorkGrows
    BY DEF CmdsMove, Moves, WorkGrows, IInv, CmdsOK
  <1>2. Keeps
    BY <1>1, KeepsIs
  <1>3. SrvsOK' /\ \A v \in Servers : Comes(v)
    BY <1>2, SrvsMove
  <1>4. JobsOK'
    BY <1>2, <1>3, JobsStay
  <1>5. CmdsOK' /\ HandsOK'
    BY <1>1, <1>2, CmdsStay, HandsStay
  <1>6. AgentsOK'
    BY <1>2, AgentsDrop
  <1>7. \A j \in Jobs : EndedMoves(j) /\ LetsGo(j)
    BY DEF EndedMoves, LetsGo
  <1> QED BY <1>3, <1>4, <1>5, <1>6, <1>7 DEF Next1, IInv

-----------------------------------------------------------------------------
(* Requests begin, turn and end. *)

LEMMA SameRest ==
  ASSUME IInv, UNCHANGED <<device, upsets>> \/ (device' = device /\ Upset) PROVE RestOK'
  BY DEF IInv, RestOK, Upset

LEMMA SameCmds == ASSUME IInv, UNCHANGED cmd PROVE CmdsMove
  BY DEF CmdsMove, Moves, IInv, CmdsOK

LEMMA SameWork == ASSUME IInv, UNCHANGED worked PROVE WorkGrows
  BY DEF WorkGrows, IInv, CmdsOK

LEMMA SameAgents ==
  ASSUME IInv, UNCHANGED agent
  PROVE  agent' = [d \in Devices |-> agent'[d]] /\ \A d \in Devices : Drops(d)
  BY DEF IInv, AgentsOK, Drops

LEMMA HearsIt ==
  ASSUME IInv, NEW w \in Servers, Hears(w, NoAgent) \/ Errs(w)
  PROVE  agent' = [d \in Devices |-> agent'[d]] /\ \A d \in Devices : Drops(d)
  BY DEF Hears, Errs, Drops

LEMMA NoRequestOK == NoRequest \in Srv /\ NoRequest.at = "idle"
  BY DEF NoRequest, Srv, ServerSteps, Outcomes

\* A request that is over carries nothing.
LEMMA OverOK ==
  ASSUME IInv, NEW w \in Servers, Over(w) PROVE Moved(w) /\ SrvOK(srv[w])' /\ Enters(w)
  <1>1. srv'[w] = NoRequest /\ Moved(w)
    BY NoRequestOK DEF Over, Moved, IInv, SrvsOK
  <1>2. SrvOK(srv[w])' /\ Enters(w)
    BY <1>1, NoRequestOK DEF SrvOK, Enters, Comes, Settling
  <1> QED BY <1>1, <1>2

\* What a request carries into a step that asks nothing of it.
Easy == {"idle", "tidy", "scan"}

LEMMA EasyOK ==
  ASSUME IInv, NEW w \in Servers, Moved(w), srv'[w].at \in Easy PROVE SrvOK(srv[w])' /\ Enters(w)
  BY DEF Easy, SrvOK, Enters, Comes, Settling

LEMMA TurnsIs ==
  ASSUME IInv, NEW w \in Servers, NEW s \in ServerSteps, Turns(w, s)
  PROVE  Moved(w) /\ srv'[w] = [srv[w] EXCEPT !.at = s] /\ srv'[w].at = s
  BY DEF Turns, Moved, IInv, SrvsOK, Srv

\* A fresh request.
LEMMA OpensIs ==
  ASSUME IInv, NEW w \in Servers, NEW x \in Srv, srv' = [srv EXCEPT ![w] = x]
  PROVE  Moved(w) /\ srv'[w] = x
  BY DEF Moved, IInv, SrvsOK

-----------------------------------------------------------------------------
(* The pass over the jobs. *)

LEMMA RowOf ==
  ASSUME IInv, NEW j \in Jobs
  PROVE  /\ job[j] \in JobRow /\ JobOK(j, job[j]) /\ late[j] \in Nat
         /\ job[j].tries \in Nat /\ job[j].tries \in 0..LastTry /\ job[j].nr \in 0..LastTry
  <1>1. job[j] \in JobRow /\ JobOK(j, job[j]) /\ late[j] \in Nat
    BY DEF IInv, JobsOK
  <1>2. job[j].tries \in 0..LastTry /\ job[j].nr \in 0..LastTry
    BY <1>1 DEF JobRow
  <1> QED BY <1>1, <1>2

\* A job that moves on to wait, with room left and the same count, is as it should be.
LEMMA WaitsOK ==
  ASSUME NEW j \in Jobs, job'[j].st = "queued", job'[j].nr = 0,
         job'[j].tries \in Nat, late'[j] \in Nat, job'[j].tries < MaxAttempts + late'[j]
  PROVE  JobOK(j, job[j])'
  BY DEF JobOK, Settled

LEMMA CreateOK ==
  ASSUME IInv, NEW w \in Servers, NEW j \in Jobs, Create(w, j) PROVE Next1
  <1> USE DEF Create
  <1>1. Moved(w) /\ srv'[w].at = "tidy"
    BY TurnsIs DEF ServerSteps
  <1>2. SrvOK(srv[w])' /\ Enters(w)
    BY <1>1, EasyOK DEF Easy
  <1>3. JobsGrow
    <2>1. job' \in [Jobs -> JobRow]
      BY RowOf DEF IInv, JobsOK, JobRow
    <2>2. \A k \in Jobs : job'[k].tries = job[k].tries /\ job[k].tries \in Nat
      BY RowOf DEF IInv, JobsOK, JobRow
    <2> QED BY <2>1, <2>2, RowOf DEF JobsGrow, IInv, JobsOK
  <1>4. ASSUME NEW k \in Jobs PROVE job'[k] = job[k] \/ (JobOK(k, job[k])' /\ EndedMoves(k) /\ LetsGo(k))
    <2>1. CASE k # j
      BY <2>1 DEF IInv, JobsOK
    <2>2. CASE k = j
      <3>1. job'[j].st = "queued" /\ job'[j].nr = job[j].nr /\ job'[j].tries = job[j].tries /\ late'[j] = late[j]
        BY RowOf DEF IInv, JobsOK, JobRow
      <3>2. job[j].nr = 0 /\ job[j].tries < MaxAttempts + late[j]
        BY RowOf DEF JobOK
      <3>3. JobOK(j, job[j])'
        BY <3>1, <3>2, RowOf, WaitsOK
      <3>4. EndedMoves(j) /\ LetsGo(j)
        BY DEF EndedMoves, Ended, LetsGo
      <3> QED BY <2>2, <3>3, <3>4
    <2> QED BY <2>1, <2>2
  <1> QED BY <1>1, <1>2, <1>3, <1>4, SameRest, SameAgents, ByJob

LEMMA ListOK ==
  ASSUME IInv, NEW w \in Servers, List(w) PROVE Next1
  <1>1. Moved(w) /\ srv'[w].at = "tidy"
    BY TurnsIs DEF List, ServerSteps
  <1>2. SrvOK(srv[w])' /\ Enters(w)
    BY <1>1, EasyOK DEF Easy
  <1> QED BY <1>1, <1>2, SameRest, SameAgents, SameCmds, SameWork, ByRequest DEF List, Asked

LEMMA TidiedIs ==
  ASSUME IInv, NEW j \in Jobs
  PROVE  /\ Tidied(j) \in JobRow /\ Tidied(j).tries = job[j].tries
         /\ \/ Tidied(j) = job[j]
            \/ /\ job[j].st = "assigned" /\ job[j].due
               /\ \/ /\ Tidied(j).st = "queued" /\ Tidied(j).nr = 0 /\ job[j].tries < MaxAttempts
                  \/ /\ Tidied(j).st = "failed" /\ Tidied(j).nr = job[j].nr /\ ~(job[j].tries < MaxAttempts)
  <1>1. job[j] \in JobRow /\ job[j].tries \in Nat
    BY RowOf
  <1>2. CASE job[j].st # "assigned" \/ ~job[j].due
    BY <1>1, <1>2 DEF Tidied
  <1>3. CASE job[j].st = "assigned" /\ job[j].due /\ job[j].tries < MaxAttempts
    <2>1. Tidied(j) = [job[j] EXCEPT !.st = "queued", !.nr = 0, !.due = FALSE]
      BY <1>3 DEF Tidied
    <2>2. PICK r \in JobRow : r = job[j]
      BY <1>1
    <2>3. 0 \in 0..LastTry
      OBVIOUS
    <2>4. /\ [r EXCEPT !.st = "queued", !.nr = 0, !.due = FALSE] \in JobRow
          /\ [r EXCEPT !.st = "queued", !.nr = 0, !.due = FALSE].tries = r.tries
          /\ [r EXCEPT !.st = "queued", !.nr = 0, !.due = FALSE].st = "queued"
          /\ [r EXCEPT !.st = "queued", !.nr = 0, !.due = FALSE].nr = 0
      BY <2>3 DEF JobRow
    <2> QED BY <1>3, <2>1, <2>2, <2>4
  <1>4. CASE job[j].st = "assigned" /\ job[j].due /\ ~(job[j].tries < MaxAttempts)
    <2>1. Tidied(j) = [job[j] EXCEPT !.st = "failed", !.due = FALSE]
      BY <1>4 DEF Tidied
    <2> QED BY <1>1, <1>4, <2>1 DEF JobRow
  <1> QED BY <1>2, <1>3, <1>4

LEMMA TidyOK ==
  ASSUME IInv, NEW w \in Servers, Tidy(w) PROVE Next1
  <1>1. Moved(w) /\ srv'[w].at = "scan"
    <2>1. PICK S \in SUBSET Jobs : srv' = [srv EXCEPT ![w].at = "scan", ![w].todo = S]
      BY DEF Tidy
    <2>2. PICK r \in Srv : r = srv[w]
      BY DEF IInv, SrvsOK
    <2>3. PICK x \in Srv : x = [r EXCEPT !.at = "scan", !.todo = S]
      BY DEF Srv, ServerSteps
    <2>4. x.at = "scan"
      BY <2>3 DEF Srv
    <2>5. srv' = [srv EXCEPT ![w] = x]
      BY <2>1, <2>2, <2>3 DEF IInv, SrvsOK
    <2> QED BY <2>4, <2>5, OpensIs
  <1>2. SrvOK(srv[w])' /\ Enters(w)
    BY <1>1, EasyOK DEF Easy
  <1> USE DEF Tidy
  <1>3. JobsGrow
    <2>1. \A k \in Jobs : job'[k] = Tidied(k)
      OBVIOUS
    <2> QED BY <2>1, TidiedIs, RowOf DEF JobsGrow, IInv, JobsOK
  <1>4. ASSUME NEW j \in Jobs PROVE job'[j] = job[j] \/ (JobOK(j, job[j])' /\ EndedMoves(j) /\ LetsGo(j))
    <2> SUFFICES ASSUME job'[j] # job[j] PROVE JobOK(j, job[j])' /\ EndedMoves(j) /\ LetsGo(j)
      OBVIOUS
    <2>1. job'[j] = Tidied(j) /\ late'[j] = late[j] /\ job[j].tries \in Nat /\ late[j] \in Nat
      BY RowOf
    <2>2. job[j].st = "assigned" /\ job[j].due /\ job'[j].tries = job[j].tries
      BY <2>1, TidiedIs
    <2>3. EndedMoves(j) /\ LetsGo(j)
      BY <2>2 DEF EndedMoves, Ended, LetsGo
    <2>4. CASE job'[j].st = "queued" /\ job'[j].nr = 0 /\ job[j].tries < MaxAttempts
      <3>1. job'[j].tries < MaxAttempts + late'[j]
        BY <2>1, <2>2, <2>4
      <3> QED BY <2>1, <2>2, <2>3, <2>4, <3>1, WaitsOK
    <2>5. CASE job'[j].st = "failed" /\ job'[j].nr = job[j].nr /\ ~(job[j].tries < MaxAttempts)
      <3>1. job[j].nr # 0 /\ job[j].nr \in {0, job[j].tries} /\ job[j].tries <= MaxAttempts + late[j]
        BY <2>2, RowOf DEF JobOK
      <3>2. job'[j].tries >= MaxAttempts
        BY <2>1, <2>2, <2>5
      <3>3. JobOK(j, job[j])'
        BY <2>1, <2>2, <2>5, <3>1, <3>2 DEF JobOK
      <3> QED BY <2>3, <3>3
    <2> QED BY <2>1, <2>4, <2>5, TidiedIs
  <1> QED BY <1>1, <1>2, <1>3, <1>4, SameRest, SameAgents, ByJob

LEMMA CandidateOK ==
  ASSUME IInv, NEW w \in Servers, Candidate(w) PROVE Next1
  <1>1. PICK j \in srv[w].todo :
          \/ srv' = [srv EXCEPT ![w].todo = srv[w].todo \ {j}]
          \/ \E d \in LeastLoaded : srv' = [srv EXCEPT ![w].at = "assign", ![w].todo = srv[w].todo \ {j},
                                                       ![w].job = j, ![w].pick = d]
    BY DEF Candidate
  <1>2. srv[w] \in Srv /\ srv[w].at = "scan" /\ j \in Jobs
    BY DEF Candidate, IInv, SrvsOK, Srv
  <1>3. Moved(w) /\ SrvOK(srv[w])' /\ Enters(w)
    <2>1. CASE srv' = [srv EXCEPT ![w].todo = srv[w].todo \ {j}]
      <3>1. Moved(w) /\ srv'[w].at = "scan"
        BY <1>2, <2>1 DEF Moved, IInv, SrvsOK, Srv
      <3> QED BY <3>1, EasyOK DEF Easy
    <2>2. CASE \E d \in LeastLoaded : srv' = [srv EXCEPT ![w].at = "assign", ![w].todo = srv[w].todo \ {j},
                                                         ![w].job = j, ![w].pick = d]
      <3>1. PICK d \in Devices : srv' = [srv EXCEPT ![w].at = "assign", ![w].todo = srv[w].todo \ {j},
                                                    ![w].job = j, ![w].pick = d]
        BY <2>2 DEF LeastLoaded, Candidates
      <3>2. Moved(w) /\ srv'[w].at = "assign" /\ srv'[w].job = j /\ srv'[w].pick = d
        BY <1>2, <3>1 DEF Moved, IInv, SrvsOK, Srv, ServerSteps
      <3> QED BY <1>2, <3>2 DEF SrvOK, Enters, Comes, Settling
    <2> QED BY <1>1, <2>1, <2>2
  <1> QED BY <1>3, SameRest, SameAgents, SameCmds, SameWork, ByRequest DEF Candidate

LEMMA RescanOK ==
  ASSUME IInv, NEW w \in Servers, Rescan(w) PROVE Moved(w) /\ SrvOK(srv[w])' /\ Enters(w)
  <1>1. Moved(w) /\ srv'[w].at = "scan"
    BY NoRequestOK DEF Rescan, Moved, NoRequest, IInv, SrvsOK, Srv, ServerSteps
  <1> QED BY <1>1, EasyOK DEF Easy

LEMMA AssignOK ==
  ASSUME IInv, NEW w \in Servers, Assign(w) PROVE Next1
  <1>1. SrvOK(srv[w]) /\ srv[w].at = "assign" /\ srv[w].job \in Jobs /\ srv[w].pick \in Devices /\ srv[w] \in Srv
    BY DEF Assign, IInv, SrvsOK, SrvOK
  <1>2. PICK j \in Jobs : srv[w].job = j
    BY <1>1
  <1>3. CASE job[j].st # "queued"
    <2>1. Rescan(w) /\ UNCHANGED <<job, cmd, device, agent, worked, handed, late, upsets>>
      BY <1>2, <1>3 DEF Assign
    <2> QED BY <2>1, RescanOK, SameRest, SameAgents, SameCmds, SameWork, ByRequest
  <1>4. CASE job[j].st = "queued"
    <2>1. PICK n \in Nat : n = job[j].tries + 1
      BY RowOf
    <2>2. /\ job[j].tries < LastTry
          /\ job' = [job EXCEPT ![j] = [st |-> "assigned", nr |-> n, tries |-> n, due |-> FALSE]]
          /\ srv' = [srv EXCEPT ![w].at = "insert", ![w].cmd = <<j, n>>]
          /\ UNCHANGED <<cmd, device, agent, worked, handed, late, upsets>>
      BY <1>2, <1>4, <2>1 DEF Assign
    <2>3. n \in 1..LastTry /\ n \in 0..LastTry /\ ~(n <= job[j].tries) /\ job[j].tries <= n
      BY <2>1, <2>2, RowOf
    <2>4. <<j, n>> \in JobCmds /\ <<j, n>> \in Cmds /\ <<j, n>>[1] = j /\ <<j, n>>[2] = n
      BY <2>3, JobCmdIs
    <2>5. job'[j] = [st |-> "assigned", nr |-> n, tries |-> n, due |-> FALSE]
      BY <2>2 DEF IInv, JobsOK
    <2>6. Moved(w) /\ srv'[w].at = "insert" /\ srv'[w].cmd = <<j, n>> /\ srv'[w].pick = srv[w].pick
      BY <1>1, <2>2, <2>4 DEF Moved, IInv, SrvsOK, Srv, ServerSteps
    <2>7. cmd[<<j, n>>].st = "absent"
      BY <2>3, <2>4 DEF IInv, CmdsOK, CmdOK
    <2>8. <<j, n>>[2] <= job'[<<j, n>>[1]].tries
      BY <2>1, <2>4, <2>5
    <2>9. SrvOK(srv[w])' /\ Enters(w)
      <3>1. SrvOK(srv[w])'
        BY <1>1, <2>2, <2>4, <2>6, <2>7, <2>8 DEF SrvOK, Settling
      <3>2. Enters(w)
        BY <2>3, <2>4, <2>6 DEF Enters, Comes, Settling
      <3> QED BY <3>1, <3>2
    <2>10. JobsGrow
      <3>1. job' \in [Jobs -> JobRow]
        BY <2>2, <2>3 DEF IInv, JobsOK, JobRow
      <3>2. \A k \in Jobs : job[k].tries <= job'[k].tries
        BY <2>2, <2>3, <2>5, RowOf DEF IInv, JobsOK
      <3> QED BY <2>2, <3>1, <3>2, RowOf DEF JobsGrow, IInv, JobsOK
    <2>11. ASSUME NEW k \in Jobs PROVE job'[k] = job[k] \/ (JobOK(k, job[k])' /\ EndedMoves(k) /\ LetsGo(k))
      <3>1. CASE k # j
        BY <2>2, <3>1 DEF IInv, JobsOK
      <3>2. CASE k = j
        <4>1. job[j].tries < MaxAttempts + late[j] /\ job[j].tries \in Nat /\ late[j] \in Nat
          BY <1>4, RowOf DEF JobOK
        <4>2. n <= MaxAttempts + late'[j] /\ n # 0
          BY <2>1, <2>2, <4>1
        <4>3. JobOK(j, job[j])'
          BY <2>5, <4>2 DEF JobOK, Settled
        <4>4. EndedMoves(j) /\ LetsGo(j)
          BY <1>4 DEF EndedMoves, Ended, LetsGo
        <4> QED BY <3>2, <4>3, <4>4
      <3> QED BY <3>1, <3>2
    <2> QED BY <2>2, <2>6, <2>9, <2>10, <2>11, SameRest, SameAgents, ByJob
  <1> QED BY <1>3, <1>4

\* A command that comes to be, by the request that inserts it.
LEMMA Appears ==
  ASSUME IInv, NEW w \in Servers, srv[w].at \in {"insert", "issue"}, srv'[w] # srv[w],
         cmd' = [cmd EXCEPT ![srv[w].cmd] = [st |-> "queued", dev |-> srv[w].pick, stale |-> FALSE]]
  PROVE  CmdsMove
  <1>1. srv[w].cmd \in Cmds /\ cmd[srv[w].cmd].st = "absent" /\ srv[w].pick \in Devices
    BY JobCmdsAreCmds DEF IInv, SrvsOK, SrvOK
  <1>2. cmd' \in [Cmds -> CmdRow]
    BY <1>1 DEF IInv, CmdsOK, CmdRow
  <1>3. ASSUME NEW c \in Cmds PROVE Moves(c)
    <2>1. CASE c = srv[w].cmd
      BY <1>1, <2>1 DEF Moves
    <2>2. CASE c # srv[w].cmd
      BY <2>2 DEF Moves, IInv, CmdsOK
    <2> QED BY <2>1, <2>2
  <1> QED BY <1>2, <1>3 DEF CmdsMove

LEMMA InsertOK ==
  ASSUME IInv, NEW w \in Servers, Insert(w) PROVE Next1
  <1>1. Moved(w) /\ SrvOK(srv[w])' /\ Enters(w)
    BY RescanOK DEF Insert
  <1>2. srv'[w].at = "scan"
    BY NoRequestOK DEF Insert, Rescan, NoRequest, IInv, SrvsOK, Srv, ServerSteps
  <1>3. CmdsMove
    BY <1>2, Appears DEF Insert
  <1> QED BY <1>1, <1>3, SameRest, SameAgents, SameWork, ByRequest DEF Insert

LEMMA ScannedOK ==
  ASSUME IInv, NEW w \in Servers, Scanned(w) PROVE Next1
  <1>1. Moved(w) /\ SrvOK(srv[w])' /\ Enters(w)
    <2>1. CASE srv[w].dev = NoDevice
      BY <2>1, OverOK DEF Scanned
    <2>2. CASE srv[w].dev # NoDevice
      <3>1. Moved(w) /\ srv'[w] = [srv[w] EXCEPT !.at = "fetch"] /\ srv'[w].at = "fetch"
        BY <2>2, TurnsIs DEF Scanned, ServerSteps
      <3>2. srv'[w].dev \in Devices
        BY <2>2, <3>1 DEF IInv, SrvsOK, Srv
      <3> QED BY <3>1, <3>2 DEF SrvOK, Enters, Comes, Settling
    <2> QED BY <2>1, <2>2
  <1> QED BY <1>1, SameRest, SameAgents, SameCmds, SameWork, ByRequest DEF Scanned

-----------------------------------------------------------------------------
(* The agent's poll. *)

LEMMA AskOK ==
  ASSUME IInv, NEW w \in Servers, NEW d \in Devices, Ask(w, d) PROVE Next1
  <1>1. Moved(w) /\ srv'[w].at = "tidy"
    <2>1. PICK x \in Srv : x = [NoRequest EXCEPT !.at = "tidy", !.dev = d]
      BY NoRequestOK DEF NoRequest, Srv, ServerSteps
    <2>2. x.at = "tidy"
      BY <2>1 DEF NoRequest
    <2>3. srv' = [srv EXCEPT ![w] = x]
      BY <2>1 DEF Ask
    <2> QED BY <2>2, <2>3, OpensIs
  <1>2. SrvOK(srv[w])' /\ Enters(w)
    BY <1>1, EasyOK DEF Easy
  <1>3. agent' = [e \in Devices |-> agent'[e]]
    BY DEF Ask, IInv, AgentsOK
  <1>4. ASSUME NEW e \in Devices PROVE Drops(e) \/ (agent'[e] \in Agent /\ AgentOK(agent[e])')
    <2>1. CASE e # d
      BY <2>1 DEF Ask, Drops, IInv, AgentsOK
    <2>2. CASE e = d
      <3>1. agent'[d] = [NoAgent EXCEPT !.at = "asking", !.srv = w]
        BY DEF Ask, IInv, AgentsOK
      <3>2. agent'[d] \in Agent /\ agent'[d].at = "asking"
        BY <3>1, NoAgentOK DEF NoAgent, Agent
      <3> QED BY <2>2, <3>2 DEF AgentOK
    <2> QED BY <2>1, <2>2
  <1> QED BY <1>1, <1>2, <1>3, <1>4, SameRest, SameCmds, SameWork, ByRequest DEF Ask

LEMMA FreshenedIs ==
  ASSUME IInv, NEW c \in Cmds, NEW d \in Devices
  PROVE  /\ Freshened(c, d) \in CmdRow
         /\ \/ Freshened(c, d) = cmd[c]
            \/ /\ cmd[c].st = "claimed"
               /\ \/ Freshened(c, d).st = "failed"
                  \/ Freshened(c, d).st = "queued" /\ c[1] \notin SelfUpdates
  <1>1. cmd[c] \in CmdRow
    BY DEF IInv, CmdsOK
  <1>2. CASE ~Stalled(c, d)
    BY <1>1, <1>2 DEF Freshened
  <1>3. CASE Stalled(c, d) /\ c[1] \in SelfUpdates
    BY <1>1, <1>3 DEF Freshened, Stalled, Closed, CmdRow
  <1>4. CASE Stalled(c, d) /\ c[1] \notin SelfUpdates
    <2>1. Freshened(c, d) = [cmd[c] EXCEPT !.st = "queued", !.stale = FALSE]
      BY <1>4 DEF Freshened
    <2> QED BY <1>1, <1>4, <2>1 DEF Stalled, CmdRow
  <1> QED BY <1>2, <1>3, <1>4

LEMMA FetchOK ==
  ASSUME IInv, NEW w \in Servers, Fetch(w) PROVE Next1
  <1> DEFINE d == srv[w].dev
             mine == {c \in Cmds : cmd'[c].st = "queued" /\ cmd'[c].dev = d}
  <1>1. srv[w].at = "fetch" /\ d \in Devices /\ srv[w] \in Srv
    BY DEF Fetch, IInv, SrvsOK, SrvOK
  <1>2. cmd' = [c \in Cmds |-> Freshened(c, d)] /\ UNCHANGED <<job, device, worked, handed, late, upsets>>
    BY DEF Fetch
  <1>3. \/ Over(w) /\ Hears(w, NoAgent)
        \/ \E c \in Cmds : /\ srv' = [srv EXCEPT ![w].at = IF Allowed(c, d) THEN "claim" ELSE "bar", ![w].cmd = c]
                           /\ UNCHANGED agent
    BY DEF Fetch
  <1>4. CmdsMove
    <2>1. \A c \in Cmds : cmd'[c] = Freshened(c, d)
      BY <1>2
    <2>2. \A c \in Cmds : cmd'[c] \in CmdRow /\ Moves(c)
      <3> TAKE c \in Cmds
      <3> HIDE DEF d
      <3>1. PICK e \in Devices : e = d
        BY <1>1
      <3>2. cmd'[c] = Freshened(c, e)
        BY <2>1, <3>1
      <3> QED BY <3>2, FreshenedIs DEF Moves
    <2> QED BY <1>2, <2>2 DEF CmdsMove
  <1>5. CASE Over(w) /\ Hears(w, NoAgent)
    BY <1>2, <1>4, <1>5, OverOK, HearsIt, SameRest, SameWork, ByRequest
  <1>6. CASE \E c \in Cmds : /\ srv' = [srv EXCEPT ![w].at = IF Allowed(c, d) THEN "claim" ELSE "bar", ![w].cmd = c]
                             /\ UNCHANGED agent
    <2>1. PICK c \in Cmds, s \in {"claim", "bar"} : srv' = [srv EXCEPT ![w].at = s, ![w].cmd = c]
      BY <1>6
    <2>2. Moved(w) /\ srv'[w].at = s /\ srv'[w].cmd = c
      BY <1>1, <2>1 DEF Moved, IInv, SrvsOK, Srv, ServerSteps
    <2>3. SrvOK(srv[w])' /\ Enters(w)
      BY <2>2 DEF SrvOK, Enters, Comes, Settling
    <2> QED BY <1>2, <1>4, <1>6, <2>2, <2>3, SameAgents, SameRest, SameWork, ByRequest
  <1> QED BY <1>3, <1>5, <1>6

\* A command that is no longer claimed or waiting, and is not offered again.
LEMMA OneMoves ==
  ASSUME IInv, NEW c \in Cmds, NEW x \in CmdRow, cmd' = [cmd EXCEPT ![c] = x],
         cmd[c].st \in {"queued", "claimed"}, x.st \notin {"absent", "queued"} \/ x.st = cmd[c].st
  PROVE  CmdsMove /\ cmd'[c] = x
  BY DEF CmdsMove, Moves, IInv, CmdsOK

LEMMA ClaimOK ==
  ASSUME IInv, NEW w \in Servers, Claim(w) PROVE Next1
  <1>1. PICK c \in Cmds : srv[w].cmd = c
    BY DEF Claim, IInv, SrvsOK, SrvOK
  <1>2. Moved(w) /\ SrvOK(srv[w])' /\ Enters(w)
    BY OverOK DEF Claim
  <1>3. CASE cmd[c].st = "queued" /\ cmd' = [cmd EXCEPT ![c].st = "claimed"]
                /\ Hears(w, [NoAgent EXCEPT !.at = "working", !.cmd = c])
                /\ handed' = IF c[1] \in SelfUpdates THEN [handed EXCEPT ![c] = @ + 1] ELSE handed
    <2>1. CmdsMove /\ cmd'[c].st = "claimed"
      <3>1. cmd[c] \in CmdRow
        BY DEF IInv, CmdsOK
      <3>2. PICK x \in CmdRow : x = [cmd[c] EXCEPT !.st = "claimed"]
        BY <3>1 DEF CmdRow
      <3>3. x.st = "claimed" /\ cmd' = [cmd EXCEPT ![c] = x]
        BY <1>3, <3>1, <3>2 DEF CmdRow
      <3> QED BY <1>3, <3>3, OneMoves
    <2>2. PICK a \in Agent : a = [NoAgent EXCEPT !.at = "working", !.cmd = c]
      BY NoAgentOK DEF NoAgent, Agent
    <2>3. a.at = "working" /\ a.cmd = c
      BY <2>2 DEF NoAgent
    <2>4. agent' = [d \in Devices |-> IF Waits(w, d) THEN a ELSE agent[d]]
      BY <1>3, <2>2 DEF Hears
    <2>5. agent' = [d \in Devices |-> agent'[d]]
      BY <2>4
    <2>6. \A d \in Devices : Drops(d) \/ (agent'[d] \in Agent /\ AgentOK(agent[d])')
      BY <2>3, <2>4 DEF Drops, AgentOK
    <2>7. handed' = handed \/ HandsOut
      BY <1>3, <2>1 DEF HandsOut
    <2> QED BY <1>2, <2>1, <2>5, <2>6, <2>7, SameRest, SameWork, ByRequest DEF Claim
  <1>4. CASE Hears(w, NoAgent) /\ UNCHANGED <<cmd, handed>>
    BY <1>2, <1>4, HearsIt, SameCmds, SameRest, SameWork, ByRequest DEF Claim
  <1> QED BY <1>1, <1>3, <1>4 DEF Claim

LEMMA BarOK ==
  ASSUME IInv, NEW w \in Servers, Bar(w) PROVE Next1
  <1>1. PICK c \in Cmds : srv[w].cmd = c
    BY DEF Bar, IInv, SrvsOK, SrvOK
  <1>2. CmdsMove
    <2>1. CASE cmd[c].st = "queued"
      <3>1. cmd[c] \in CmdRow
        BY DEF IInv, CmdsOK
      <3>2. PICK x \in CmdRow : x = [cmd[c] EXCEPT !.st = "cancelled"]
        BY <3>1 DEF CmdRow
      <3>3. x.st = "cancelled" /\ cmd' = [cmd EXCEPT ![c] = x]
        BY <1>1, <2>1, <3>1, <3>2 DEF Bar, CmdRow
      <3> QED BY <2>1, <3>3, OneMoves
    <2>2. CASE cmd[c].st # "queued"
      BY <1>1, <2>2, SameCmds DEF Bar
    <2> QED BY <2>1, <2>2
  <1> QED BY <1>2, OverOK, HearsIt, SameRest, SameWork, ByRequest DEF Bar

-----------------------------------------------------------------------------
(* Carrying out and reporting. *)

LEMMA WorkOK ==
  ASSUME IInv, NEW d \in Devices, Work(d) PROVE Next1
  <1>1. PICK o \in Outcomes :
          /\ agent' = [agent EXCEPT ![d].at = "holding", ![d].told = o]
          /\ worked' = IF o = "done" THEN worked \cup {agent[d].cmd} ELSE worked
    BY DEF Work
  <1>2. agent[d] \in Agent /\ agent[d].cmd \in Cmds
    BY DEF Work, IInv, AgentsOK, AgentOK
  <1>3. agent'[d] \in Agent /\ agent'[d].cmd = agent[d].cmd /\ agent'[d].told = o
    BY <1>1, <1>2 DEF IInv, AgentsOK, Agent
  <1>4. WorkGrows
    BY <1>1, <1>2 DEF WorkGrows, IInv, CmdsOK
  <1>5. agent' = [e \in Devices |-> agent'[e]]
    BY <1>1 DEF IInv, AgentsOK
  <1>6. ASSUME NEW e \in Devices PROVE Drops(e) \/ (agent'[e] \in Agent /\ AgentOK(agent[e])')
    <2>1. CASE e # d
      BY <1>1, <2>1 DEF Drops, IInv, AgentsOK
    <2>2. CASE e = d
      BY <1>1, <1>2, <1>3, <2>2 DEF AgentOK
    <2> QED BY <2>1, <2>2
  <1> QED BY <1>4, <1>5, <1>6, SameCmds, SameRest, ByDevice DEF Work

LEMMA TellOK ==
  ASSUME IInv, NEW w \in Servers, NEW d \in Devices, Tell(w, d) PROVE Next1
  <1>1. agent[d] \in Agent /\ AgentOK(agent[d]) /\ agent[d].at = "holding"
    BY DEF Tell, IInv, AgentsOK
  <1>2. PICK c \in Cmds, o \in Outcomes : c = agent[d].cmd /\ o = agent[d].told /\ (o = "done" => c \in worked)
    BY <1>1 DEF AgentOK, Agent
  <1>3. agent' = [e \in Devices |-> agent'[e]]
    BY DEF Tell, IInv, AgentsOK
  <1>4. CASE /\ srv' = [srv EXCEPT ![w] = [NoRequest EXCEPT !.at = "finish", !.dev = d, !.cmd = c, !.told = o]]
             /\ agent' = [agent EXCEPT ![d].at = "telling", ![d].srv = w]
    <2>1. PICK x \in Srv : x = [NoRequest EXCEPT !.at = "finish", !.dev = d, !.cmd = c, !.told = o]
      BY NoRequestOK DEF NoRequest, Srv, ServerSteps
    <2>2. x.at = "finish" /\ x.cmd = c /\ x.told = o
      BY <2>1 DEF NoRequest
    <2>3. Moved(w) /\ srv'[w] = x
      BY <1>4, <2>1, OpensIs
    <2>4. SrvOK(srv[w])' /\ Enters(w)
      BY <1>2, <2>2, <2>3 DEF SrvOK, Enters, Comes, Settling, Tell
    <2>5. /\ agent'[d] \in Agent /\ agent'[d].cmd = c /\ agent'[d].told = o
      BY <1>1, <1>2, <1>4 DEF IInv, AgentsOK, Agent
    <2>6. ASSUME NEW e \in Devices PROVE Drops(e) \/ (agent'[e] \in Agent /\ AgentOK(agent[e])')
      <3>1. CASE e # d
        BY <1>4, <3>1 DEF Drops, IInv, AgentsOK
      <3>2. CASE e = d
        BY <1>2, <2>5, <3>2 DEF AgentOK, Tell
      <3> QED BY <3>1, <3>2
    <2> QED BY <1>3, <2>3, <2>4, <2>6, SameCmds, SameWork, SameRest, ByRequest DEF Tell
  <1>5. CASE /\ agent' = [agent EXCEPT ![d] = Rebuffed([agent[d] EXCEPT !.at = "telling"])]
             /\ UNCHANGED srv
    <2>1. PICK a \in Agent : a = [agent[d] EXCEPT !.at = "telling"]
      BY <1>1 DEF Agent
    <2>2. a.cmd = c
      BY <1>1, <1>2, <2>1 DEF Agent
    <2>3. agent'[d] = Rebuffed(a)
      BY <1>5, <2>1 DEF IInv, AgentsOK
    <2>4. ASSUME NEW e \in Devices PROVE Drops(e) \/ (agent'[e] \in Agent /\ AgentOK(agent[e])')
      <3>1. CASE e # d
        BY <1>5, <3>1 DEF Drops, IInv, AgentsOK
      <3>2. CASE e = d
        <4>1. agent'[d] \in Agent /\ agent'[d].at \in {"idle", "holding"}
              /\ (agent'[d].at = "holding" => agent'[d].cmd = c /\ agent'[d].told = "retry")
          BY <2>2, <2>3, RebuffedIs
        <4> QED BY <3>2, <4>1 DEF AgentOK
      <3> QED BY <3>1, <3>2
    <2> QED BY <1>3, <1>5, <2>4, SameCmds, SameWork, SameRest, ByDevice DEF Tell
  <1> QED BY <1>2, <1>4, <1>5 DEF Tell

LEMMA FinishOK ==
  ASSUME IInv, NEW w \in Servers, Finish(w) PROVE Next1
  <1>1. srv[w] \in Srv /\ SrvOK(srv[w]) /\ srv[w].at = "finish"
    BY DEF Finish, IInv, SrvsOK
  <1>2. PICK c \in Cmds : srv[w].cmd = c /\ (srv[w].told = "done" => c \in worked)
    BY <1>1 DEF SrvOK
  <1>3. CASE cmd[c].st = "claimed" /\ cmd[c].dev = srv[w].dev
    <2>1. PICK s \in {"succeeded", "failed"} :
            /\ s = IF srv[w].told = "done" THEN "succeeded" ELSE "failed"
            /\ cmd' = [cmd EXCEPT ![c].st = s, ![c].stale = FALSE]
            /\ Turns(w, "find") /\ UNCHANGED agent
      BY <1>2, <1>3 DEF Finish
    <2>2. Moved(w) /\ srv'[w] = [srv[w] EXCEPT !.at = "find"] /\ srv'[w].at = "find"
      BY <2>1, TurnsIs DEF ServerSteps
    <2>3. srv'[w].cmd = c /\ srv'[w].told = srv[w].told
      BY <1>1, <1>2, <2>2 DEF Srv
    <2>4. CmdsMove /\ cmd'[c].st = s
      <3>1. cmd[c] \in CmdRow
        BY DEF IInv, CmdsOK
      <3>2. PICK x \in CmdRow : x = [cmd[c] EXCEPT !.st = s, !.stale = FALSE]
        BY <3>1 DEF CmdRow
      <3>3. x.st = s /\ cmd' = [cmd EXCEPT ![c] = x]
        BY <2>1, <3>1, <3>2 DEF CmdRow, IInv, CmdsOK
      <3> QED BY <1>3, <3>3, OneMoves
    <2>5. SrvOK(srv[w])'
      BY <1>2, <2>1, <2>2, <2>3, <2>4 DEF SrvOK, Settling, Settled, Finish
    <2>6. Enters(w)
      BY <1>3, <2>2, <2>3 DEF Enters, Comes
    <2> QED BY <2>1, <2>2, <2>4, <2>5, <2>6, SameAgents, SameWork, SameRest, ByRequest DEF Finish
  <1>4. CASE ~(cmd[c].st = "claimed" /\ cmd[c].dev = srv[w].dev)
    BY <1>2, <1>4, OverOK, HearsIt, SameCmds, SameWork, SameRest, ByRequest DEF Finish
  <1> QED BY <1>3, <1>4

LEMMA FindOK ==
  ASSUME IInv, NEW w \in Servers, Find(w) PROVE Next1
  <1>1. srv[w] \in Srv /\ SrvOK(srv[w]) /\ srv[w].at = "find"
    BY DEF Find, IInv, SrvsOK
  <1>2. PICK c \in Cmds : srv[w].cmd = c
    BY <1>1 DEF SrvOK, Settling
  <1>3. CASE c[1] \in Jobs /\ job[c[1]].nr = c[2]
    <2>1. PICK j \in Jobs, n \in 0..LastTry : j = c[1] /\ n = job[j].tries
      BY <1>3, RowOf
    <2>2. c \in JobCmds /\ c[2] \in 1..LastTry
      BY <1>3, CmdParts
    <2>3. n = c[2]
      <3>1. job[j].nr \in {0, job[j].tries}
        BY RowOf DEF JobOK
      <3>2. job[j].nr = c[2] /\ c[2] # 0
        BY <1>3, <2>1, <2>2
      <3> QED BY <2>1, <3>1, <3>2
    <2>4. srv' = [srv EXCEPT ![w].at = "settle", ![w].job = j, ![w].tries = n] /\ UNCHANGED agent
      BY <1>2, <1>3, <2>1 DEF Find
    <2>5. /\ Moved(w) /\ srv'[w].at = "settle" /\ srv'[w].job = j /\ srv'[w].tries = n
          /\ srv'[w].cmd = c /\ srv'[w].told = srv[w].told
      BY <1>1, <1>2, <2>4 DEF Moved, IInv, SrvsOK, Srv, ServerSteps
    <2>6. SrvOK(srv[w])'
      BY <1>1, <1>2, <2>1, <2>2, <2>3, <2>5 DEF SrvOK, Settling, Find
    <2>7. Enters(w)
      BY <1>1, <1>2, <2>5 DEF Enters, Comes, Settling
    <2> QED BY <2>4, <2>5, <2>6, <2>7, SameAgents, SameCmds, SameWork, SameRest, ByRequest DEF Find
  <1>4. CASE ~(c[1] \in Jobs /\ job[c[1]].nr = c[2])
    BY <1>2, <1>4, OverOK, HearsIt, SameCmds, SameWork, SameRest, ByRequest DEF Find
  <1> QED BY <1>3, <1>4

\* Of the result of a report: done, queued anew with room left, or failed.
LEMMA VerdictIs ==
  ASSUME IInv, NEW w \in Servers, NEW j \in Jobs, srv[w].job = j, srv[w] \in Srv
  PROVE  /\ Verdict(w) \in JobRow /\ Verdict(w).tries = job[j].tries
         /\ \/ Verdict(w).st = "succeeded" /\ Verdict(w).nr = job[j].nr /\ srv[w].told = "done"
            \/ Verdict(w).st = "queued" /\ Verdict(w).nr = 0 /\ srv[w].tries < MaxAttempts
            \/ Verdict(w).st = "failed" /\ Verdict(w).nr = job[j].nr
  <1>1. PICK r \in JobRow : r = job[j]
    BY RowOf
  <1>2. 0 \in 0..LastTry
    OBVIOUS
  <1>3. CASE srv[w].told = "done"
    <2>1. Verdict(w) = [r EXCEPT !.st = "succeeded", !.due = FALSE]
      BY <1>1, <1>3 DEF Verdict
    <2> QED BY <1>1, <1>3, <2>1 DEF JobRow
  <1>4. CASE srv[w].told = "retry" /\ srv[w].tries < MaxAttempts
    <2>1. Verdict(w) = [r EXCEPT !.st = "queued", !.nr = 0, !.due = FALSE]
      BY <1>1, <1>4 DEF Verdict
    <2>2. /\ [r EXCEPT !.st = "queued", !.nr = 0, !.due = FALSE] \in JobRow
          /\ [r EXCEPT !.st = "queued", !.nr = 0, !.due = FALSE].tries = r.tries
          /\ [r EXCEPT !.st = "queued", !.nr = 0, !.due = FALSE].st = "queued"
          /\ [r EXCEPT !.st = "queued", !.nr = 0, !.due = FALSE].nr = 0
      BY <1>2 DEF JobRow
    <2> QED BY <1>1, <1>4, <2>1, <2>2
  <1>5. CASE srv[w].told # "done" /\ ~(srv[w].told = "retry" /\ srv[w].tries < MaxAttempts)
    <2>1. Verdict(w) = [r EXCEPT !.st = "failed", !.due = FALSE]
      BY <1>1, <1>5 DEF Verdict
    <2> QED BY <1>1, <2>1 DEF JobRow
  <1> QED BY <1>3, <1>4, <1>5

\* The job a report writes is as it should be, and it moved for a reason: two reports
\* never use the same command, so the command of this one is not yet Quit.
LEMMA SettleOK ==
  ASSUME IInv, NEW w \in Servers, Settle(w) PROVE Next1
  <1>1. srv[w] \in Srv /\ SrvOK(srv[w]) /\ srv[w].at = "settle"
    BY DEF Settle, IInv, SrvsOK
  <1>2. PICK c \in JobCmds : /\ srv[w].cmd = c /\ srv[w].tries = c[2] /\ srv[w].job = c[1]
                             /\ c \in Cmds /\ cmd[c].st \in Settled
                             /\ srv[w].told = "done" => c \in worked /\ cmd[c].st = "succeeded"
    BY <1>1, JobCmdsAreCmds DEF SrvOK, Settling
  <1>3. PICK j \in Jobs, n \in 1..LastTry : j = c[1] /\ n = c[2] /\ c = <<j, n>>
    BY <1>2, CmdParts
  <1>4. PICK row \in JobRow : row = Verdict(w)
    BY <1>1, <1>2, <1>3, VerdictIs
  <1>5. /\ row.tries = job[j].tries
        /\ \/ row.st = "succeeded" /\ row.nr = job[j].nr /\ srv[w].told = "done"
           \/ row.st = "queued" /\ row.nr = 0 /\ n < MaxAttempts
           \/ row.st = "failed" /\ row.nr = job[j].nr
    BY <1>1, <1>2, <1>3, <1>4, VerdictIs
  <1>6. job' = [job EXCEPT ![j] = row] /\ UNCHANGED <<cmd, device, worked, handed, upsets>>
    BY <1>2, <1>3, <1>4 DEF Settle
  <1>7. job'[j] = row /\ \A k \in Jobs : k # j => job'[k] = job[k]
    BY <1>6 DEF IInv, JobsOK
  <1>8. /\ job[j].nr # n => late'[j] = late[j] + 1
        /\ job[j].nr = n => late' = late
        /\ late' \in [Jobs -> Nat] /\ \A k \in Jobs : late[k] <= late'[k]
    <2>1. Overtaken(w) <=> job[j].nr # n
      BY <1>1, <1>2, <1>3 DEF Overtaken
    <2>2. late' = IF job[j].nr # n THEN [late EXCEPT ![j] = @ + 1] ELSE late
      BY <1>2, <1>3, <2>1 DEF Settle
    <2> QED BY <2>2, RowOf DEF IInv, JobsOK
  <1>9. Moved(w) /\ SrvOK(srv[w])' /\ Enters(w) /\ srv'[w].at = "idle"
    BY OverOK, NoRequestOK DEF Settle, Over, IInv, SrvsOK
  <1>10. JobsGrow
    <2>1. job' \in [Jobs -> JobRow]
      BY <1>6 DEF IInv, JobsOK
    <2>2. ASSUME NEW k \in Jobs PROVE job[k].tries <= job'[k].tries
      <3>1. job[k].tries \in Nat /\ job'[k].tries = job[k].tries
        BY <1>5, <1>7, RowOf
      <3> QED BY <3>1
    <2> QED BY <1>8, <2>1, <2>2 DEF JobsGrow
  <1>11. ~Quit(<<j, n>>)
    BY <1>1, <1>2, <1>3 DEF Quit, Settling
  <1>12. Quit(<<j, n>>)'
    <2>1. ASSUME NEW v \in Servers, srv'[v].at \in Settling PROVE srv'[v].cmd # c
      <3>1. v # w /\ srv'[v] = srv[v]
        BY <1>9, <2>1 DEF Settling, Moved
      <3>2. Apart(srv[v], srv[w])
        BY <3>1 DEF IInv, SrvsOK
      <3> QED BY <1>1, <1>2, <2>1, <3>1, <3>2 DEF Apart, Settling
    <2> QED BY <1>2, <1>3, <1>6, <2>1 DEF Quit
  <1>13. /\ JobOK(j, job[j]) /\ job[j].tries \in Nat /\ late[j] \in Nat /\ late'[j] \in Nat /\ n \in Nat /\ n # 0
         /\ late[j] <= late'[j] /\ row.tries \in Nat
    <2>1. JobOK(j, job[j]) /\ job[j].tries \in Nat /\ late[j] \in Nat
      BY RowOf
    <2>2. late'[j] \in Nat /\ late[j] <= late'[j] /\ row.tries \in Nat
      BY <1>5, <1>8, <2>1
    <2> QED BY <1>3, <2>1, <2>2
  <1>14. job[j].nr = n => job[j].tries = n
    BY <1>13 DEF JobOK
  <1>15. JobOK(j, job[j])'
    <2>1. row.tries <= MaxAttempts + late'[j]
      <3>1. job[j].tries <= MaxAttempts + late[j]
        BY <1>13 DEF JobOK
      <3> QED BY <1>5, <1>13, <3>1
    <2>2. CASE row.st = "queued" /\ row.nr = 0 /\ n < MaxAttempts
      <3>1. row.tries < MaxAttempts + late'[j]
        <4>1. CASE job[j].nr = n
          BY <1>5, <1>13, <1>14, <2>2, <4>1
        <4>2. CASE job[j].nr # n
          <5>1. job[j].tries <= MaxAttempts + late[j]
            BY <1>13 DEF JobOK
          <5> QED BY <1>5, <1>8, <1>13, <4>2, <5>1
        <4> QED BY <4>1, <4>2
      <3> QED BY <1>7, <1>13, <2>2, <3>1, WaitsOK
    <2>3. CASE row.st \in Settled /\ row.nr = job[j].nr /\ (row.st = "succeeded" => srv[w].told = "done")
      <3>1. row.nr \in {0, row.tries}
        BY <1>5, <1>13, <2>3 DEF JobOK
      <3>2. row.st = "succeeded" => \E e \in JobCmds : e[1] = j /\ e \in worked' /\ cmd'[e].st = "succeeded"
        BY <1>2, <1>3, <1>6, <2>3
      <3>3. late'[j] = 0 => row.nr = n
        BY <1>8, <1>13, <2>3
      <3>4. late'[j] = 0 => row.nr # 0 /\ Quit(<<j, row.nr>>)'
        BY <1>12, <1>13, <3>3 DEF Quit
      <3> QED BY <1>7, <2>1, <2>3, <3>1, <3>2, <3>4 DEF JobOK, Settled, Quit
    <2> QED BY <1>5, <2>2, <2>3 DEF Settled
  <1>16. EndedMoves(j)
    <2> SUFFICES ASSUME Ended(j), late'[j] = 0 PROVE row.st \in {job[j].st, "succeeded"}
      BY <1>7, <1>13 DEF EndedMoves
    <2>1. late[j] = 0 /\ job[j].nr = n
      BY <1>8, <1>13
    <2>2. job[j].st = "failed" /\ job[j].tries >= MaxAttempts
      BY <1>11, <1>13, <2>1 DEF JobOK, Ended, Settled
    <2>3. ~(n < MaxAttempts)
      BY <1>13, <1>14, <2>1, <2>2
    <2> QED BY <1>5, <2>2, <2>3
  <1>17. LetsGo(j)
    <2> SUFFICES ASSUME NEW e \in JobCmds, e = <<j, job[j].nr>>, Live(e), late'[j] <= late[j] PROVE FALSE
      BY <1>13 DEF LetsGo
    <2>1. job[j].nr = n
      BY <1>8, <1>13
    <2> QED BY <1>2, <1>3, <2>1 DEF Live, Settled
  <1>18. \A k \in Jobs : job'[k] = job[k] \/ (JobOK(k, job[k])' /\ EndedMoves(k) /\ LetsGo(k))
    BY <1>7, <1>15, <1>16, <1>17
  <1>19. agent' = [d \in Devices |-> agent'[d]] /\ \A d \in Devices : Drops(d)
    BY HearsIt DEF Settle
  <1> QED BY <1>6, <1>9, <1>10, <1>18, <1>19, SameRest, ByJob

-----------------------------------------------------------------------------
(* The administrators. *)

LEMMA OrderOK ==
  ASSUME IInv, NEW w \in Servers, NEW x \in Orders, NEW d \in Devices, Order(w, x, d) PROVE Next1
  <1>1. PICK c \in Cmds : c = <<x, 0>> /\ c \in Orders \X {0}
    <2>1. <<x, 0>> \in Orders \X {0}
      OBVIOUS
    <2> QED BY <2>1, JobCmdsAreCmds
  <1>2. PICK q \in Srv : q = [NoRequest EXCEPT !.at = "issue", !.cmd = c, !.pick = d]
    BY NoRequestOK DEF NoRequest, Srv, ServerSteps
  <1>3. q.at = "issue" /\ q.cmd = c /\ q.pick = d
    BY <1>2 DEF NoRequest
  <1>4. Moved(w) /\ srv'[w] = q
    BY <1>1, <1>2, OpensIs DEF Order
  <1>5. SrvOK(srv[w])'
    BY <1>1, <1>3, <1>4 DEF Order, SrvOK, Settling
  <1>6. Enters(w)
    BY <1>1, <1>3, <1>4 DEF Order, Enters, Comes, Settling
  <1> QED BY <1>4, <1>5, <1>6, SameAgents, SameCmds, SameWork, SameRest, ByRequest DEF Order, Asked

LEMMA IssueOK ==
  ASSUME IInv, NEW w \in Servers, Issue(w) PROVE Next1
  <1>1. srv'[w].at = "idle"
    BY NoRequestOK DEF Issue, Over, IInv, SrvsOK
  <1>2. CmdsMove
    BY <1>1, Appears DEF Issue
  <1> QED BY <1>2, OverOK, SameAgents, SameWork, SameRest, ByRequest DEF Issue

\* A request that goes on to cancel, disable or apply needs the device it is about.
LEMMA PicksOK ==
  ASSUME IInv, NEW w \in Servers, NEW d \in Devices, NEW s \in {"cancel", "disable", "apply"},
         srv' = [srv EXCEPT ![w] = [NoRequest EXCEPT !.at = s, !.pick = d]]
  PROVE  Moved(w) /\ SrvOK(srv[w])' /\ Enters(w)
  <1>1. PICK q \in Srv : q = [NoRequest EXCEPT !.at = s, !.pick = d]
    BY NoRequestOK DEF NoRequest, Srv, ServerSteps
  <1>2. q.at = s /\ q.pick = d
    BY <1>1 DEF NoRequest
  <1>3. Moved(w) /\ srv'[w] = q
    BY <1>1, OpensIs
  <1> QED BY <1>2, <1>3 DEF SrvOK, Enters, Comes, Settling

LEMMA DeviceIs ==
  ASSUME IInv, NEW d \in Devices, NEW b \in BOOLEAN, upsets' \in Nat,
         \/ device' = [device EXCEPT ![d].revoked = b]
         \/ device' = [device EXCEPT ![d].online = b]
         \/ device' = [device EXCEPT ![d].pc = b]
         \/ device' = [device EXCEPT ![d].on = b]
  PROVE  RestOK'
  BY DEF IInv, RestOK, DevRow

LEMMA UpsetIs ==
  ASSUME IInv, Upset \/ UNCHANGED upsets PROVE upsets' \in Nat
  BY DEF IInv, RestOK, Upset

LEMMA RevokeOK ==
  ASSUME IInv, NEW w \in Servers, NEW d \in Devices, Revoke(w, d) PROVE Next1
  <1>1. RestOK'
    BY UpsetIs, DeviceIs DEF Revoke, Asked
  <1>2. Moved(w) /\ SrvOK(srv[w])' /\ Enters(w)
    BY PicksOK DEF Revoke
  <1> QED BY <1>1, <1>2, SameAgents, SameCmds, SameWork, ByRequest DEF Revoke

LEMMA CancelOK ==
  ASSUME IInv, NEW w \in Servers, Cancel(w) PROVE Next1
  <1>1. srv[w] \in Srv /\ SrvOK(srv[w]) /\ srv[w].pick \in Devices
    BY DEF Cancel, IInv, SrvsOK, SrvOK
  <1>2. Moved(w) /\ srv'[w] = [srv[w] EXCEPT !.at = "disable"] /\ srv'[w].at = "disable"
    BY TurnsIs DEF Cancel, ServerSteps
  <1>3. srv'[w].pick \in Devices
    BY <1>1, <1>2 DEF Srv
  <1>4. SrvOK(srv[w])' /\ Enters(w)
    BY <1>2, <1>3 DEF SrvOK, Enters, Comes, Settling
  <1>5. ASSUME NEW c \in Cmds PROVE cmd'[c] \in CmdRow /\ Moves(c)
    <2>1. cmd[c] \in CmdRow
      BY DEF IInv, CmdsOK
    <2>2. CASE Live(c) /\ cmd[c].dev = srv[w].pick
      <3>1. cmd'[c] = [cmd[c] EXCEPT !.st = "cancelled", !.stale = FALSE]
        BY <2>2 DEF Cancel
      <3> QED BY <2>1, <2>2, <3>1 DEF Moves, Live, CmdRow
    <2>3. CASE ~(Live(c) /\ cmd[c].dev = srv[w].pick)
      BY <2>1, <2>3 DEF Cancel, Moves
    <2> QED BY <2>2, <2>3
  <1>6. CmdsMove
    BY <1>5 DEF Cancel, CmdsMove
  <1> QED BY <1>2, <1>4, <1>6, SameAgents, SameWork, SameRest, ByRequest DEF Cancel

LEMMA RetypeOK ==
  ASSUME IInv, NEW w \in Servers, NEW d \in Devices, NEW pc \in BOOLEAN, Retype(w, d, pc) PROVE Next1
  <1>1. RestOK'
    BY UpsetIs, DeviceIs DEF Retype, Asked
  <1>2. CASE pc
    BY <1>1, <1>2, SameAgents, SameCmds, SameWork, ByDevice DEF Retype
  <1>3. CASE ~pc
    <2>1. Moved(w) /\ SrvOK(srv[w])' /\ Enters(w)
      BY <1>3, PicksOK DEF Retype
    <2> QED BY <1>1, <2>1, SameAgents, SameCmds, SameWork, ByRequest DEF Retype
  <1> QED BY <1>2, <1>3

LEMMA SwitchOK ==
  ASSUME IInv, NEW w \in Servers, Disable(w) \/ Apply(w) PROVE Next1
  <1>1. PICK d \in Devices : srv[w].pick = d
    BY DEF Disable, Apply, IInv, SrvsOK, SrvOK
  <1>2. RestOK'
    BY <1>1, UpsetIs, DeviceIs DEF Disable, Apply
  <1> QED BY <1>2, OverOK, SameAgents, SameCmds, SameWork, ByRequest DEF Disable, Apply

LEMMA PolicyOK ==
  ASSUME IInv, NEW w \in Servers, NEW d \in Devices, Enable(w, d) \/ Forbid(w, d) PROVE Next1
  <1>1. Moved(w) /\ SrvOK(srv[w])' /\ Enters(w)
    BY PicksOK DEF Enable, Forbid
  <1> QED BY <1>1, SameRest, SameAgents, SameCmds, SameWork, ByRequest DEF Enable, Forbid, Asked

-----------------------------------------------------------------------------
(* Time and failure. *)

LEMMA HeartbeatOK ==
  ASSUME IInv, NEW d \in Devices, Heartbeat(d) PROVE Next1
  <1>1. RestOK'
    BY UpsetIs, DeviceIs DEF Heartbeat
  <1>2. ASSUME NEW c \in Cmds PROVE cmd'[c] \in CmdRow /\ Moves(c)
    <2>1. cmd[c] \in CmdRow
      BY DEF IInv, CmdsOK
    <2>2. CASE c[1] \in SelfUpdates /\ Stalled(c, d)
      <3>1. cmd'[c] = [cmd[c] EXCEPT !.st = "failed", !.stale = FALSE]
        BY <2>2 DEF Heartbeat, Closed
      <3> QED BY <2>1, <2>2, <3>1 DEF Moves, Stalled, CmdRow
    <2>3. CASE ~(c[1] \in SelfUpdates /\ Stalled(c, d))
      BY <2>1, <2>3 DEF Heartbeat, Moves
    <2> QED BY <2>2, <2>3
  <1>3. CmdsMove
    BY <1>2 DEF Heartbeat, CmdsMove
  <1> QED BY <1>1, <1>3, SameAgents, SameWork, ByDevice DEF Heartbeat

LEMMA SilenceOK ==
  ASSUME IInv, NEW d \in Devices, Silence(d) PROVE Next1
  <1>1. RestOK'
    BY UpsetIs, DeviceIs DEF Silence
  <1> QED BY <1>1, SameAgents, SameCmds, SameWork, ByDevice DEF Silence

LEMMA StaleOK ==
  ASSUME IInv, NEW c \in Cmds, Stale(c) PROVE Next1
  <1>1. PICK x \in CmdRow : x = [cmd[c] EXCEPT !.stale = TRUE] /\ x.st = cmd[c].st
    <2>1. PICK r \in CmdRow : r = cmd[c]
      BY DEF IInv, CmdsOK
    <2>2. [r EXCEPT !.stale = TRUE] \in CmdRow /\ [r EXCEPT !.stale = TRUE].st = r.st
      BY DEF CmdRow
    <2> QED BY <2>1, <2>2
  <1>2. cmd' = [cmd EXCEPT ![c] = x] /\ cmd[c].st = "claimed"
    BY <1>1 DEF Stale, IInv, CmdsOK
  <1>3. CmdsMove
    BY <1>1, <1>2, OneMoves
  <1>4. RestOK'
    BY SameRest DEF Stale
  <1> QED BY <1>3, <1>4, SameAgents, SameWork, ByDevice DEF Stale

LEMMA DieOK ==
  ASSUME IInv, NEW w \in Servers, Die(w) PROVE Next1
  BY OverOK, HearsIt, SameRest, SameCmds, SameWork, ByRequest DEF Die

LEMMA AgentEndsOK ==
  ASSUME IInv, NEW d \in Devices, GiveUp(d) \/ Restart(d) PROVE Next1
  <1>1. agent' = [e \in Devices |-> agent'[e]] /\ \A e \in Devices : Drops(e)
    BY DEF GiveUp, Restart, Drops, IInv, AgentsOK
  <1> QED BY <1>1, SameRest, SameCmds, SameWork, ByDevice DEF GiveUp, Restart

LEMMA OverdueOK ==
  ASSUME IInv, NEW j \in Jobs, Overdue(j) PROVE Next1
  <1>1. job[j] \in JobRow /\ job' = [job EXCEPT ![j].due = TRUE] /\ job[j].st = "assigned"
    BY RowOf DEF Overdue
  <1>2. /\ job'[j].st = "assigned" /\ job'[j].nr = job[j].nr /\ job'[j].tries = job[j].tries
        /\ job' \in [Jobs -> JobRow] /\ \A k \in Jobs : k # j => job'[k] = job[k]
    BY <1>1 DEF IInv, JobsOK, JobRow
  <1>3. JobOK(j, job[j])'
    <2>1. JobOK(j, job[j]) /\ late' = late
      BY RowOf DEF Overdue
    <2> QED BY <1>1, <1>2, <2>1 DEF JobOK, Settled
  <1>4. ASSUME NEW k \in Jobs PROVE EndedMoves(k) /\ LetsGo(k)
    <2>1. late' = late
      BY DEF Overdue
    <2> QED BY <1>1, <1>2, <2>1 DEF EndedMoves, Ended, LetsGo
  <1>5. JobsGrow
    <2>1. ASSUME NEW k \in Jobs PROVE job[k].tries <= job'[k].tries /\ late[k] <= late'[k]
      <3>1. job[k].tries \in Nat /\ job'[k].tries = job[k].tries /\ late[k] \in Nat /\ late' = late
        BY <1>2, RowOf DEF Overdue
      <3> QED BY <3>1
    <2> QED BY <1>2, <2>1 DEF JobsGrow, Overdue, IInv, JobsOK
  <1>6. CmdsMove /\ WorkGrows
    BY SameCmds, SameWork DEF Overdue
  <1>7. Keeps
    BY <1>5, <1>6, KeepsIs
  <1>8. SrvsOK' /\ \A v \in Servers : Comes(v)
    BY <1>7, SrvsRest DEF Overdue
  <1>9. JobsOK'
    BY <1>2, <1>3, <1>7, <1>8, JobsStay
  <1>10. CmdsOK' /\ HandsOK'
    BY <1>6, <1>7, CmdsStay, HandsStay DEF Overdue
  <1>11. AgentsOK' /\ RestOK'
    BY <1>7, AgentsDrop, SameAgents, SameRest DEF Overdue
  <1> QED BY <1>4, <1>8, <1>9, <1>10, <1>11 DEF Next1, IInv

-----------------------------------------------------------------------------
(* The invariant is inductive. *)

LEMMA Initially == ASSUME Init PROVE IInv
  <1>1. JobsOK
    <2>1. NewJob \in JobRow
      BY DEF NewJob, JobRow
    <2>2. \A j \in Jobs : job[j] = NewJob /\ late[j] = 0
      BY DEF Init
    <2>3. \A j \in Jobs : JobOK(j, job[j])
      BY <2>2 DEF NewJob, JobOK, Settled
    <2> QED BY <2>1, <2>3 DEF Init, JobsOK
  <1>2. CmdsOK /\ HandsOK
    BY DEF Init, HandsOK, HandedOK, CmdsOK, CmdOK, NewCmd, CmdRow
  <1>3. SrvsOK
    <2>1. \A w \in Servers : srv[w] = NoRequest
      BY DEF Init
    <2>2. \A w \in Servers : SrvOK(srv[w])
      BY <2>1, NoRequestOK DEF SrvOK, Settling
    <2>3. \A v, w \in Servers : Apart(srv[v], srv[w])
      BY <2>1, NoRequestOK DEF Apart, Settling
    <2> QED BY <2>2, <2>3, NoRequestOK DEF Init, SrvsOK
  <1>4. AgentsOK
    <2>1. \A d \in Devices : agent[d] = NoAgent
      BY DEF Init
    <2>2. \A d \in Devices : AgentOK(agent[d])
      BY <2>1 DEF AgentOK, NoAgent
    <2> QED BY <2>2, NoAgentOK DEF Init, AgentsOK
  <1>5. RestOK
    BY DEF Init, RestOK, DevRow
  <1> QED BY <1>1, <1>2, <1>3, <1>4, <1>5 DEF IInv

LEMMA Stutters == ASSUME IInv, UNCHANGED vars PROVE Next1
  <1>1. agent' = [d \in Devices |-> agent'[d]] /\ \A d \in Devices : Drops(d)
    BY SameAgents DEF vars
  <1> QED BY <1>1, SameRest, SameCmds, SameWork, ByDevice DEF vars

LEMMA NextStep == ASSUME IInv, [Next]_vars PROVE Next1
  <1>1. ASSUME NEW w \in Servers, Step(w) PROVE Next1
    BY <1>1, TidyOK, CandidateOK, AssignOK, InsertOK, ScannedOK, FetchOK, ClaimOK, BarOK, FinishOK,
       FindOK, SettleOK, IssueOK, CancelOK, SwitchOK DEF Step
  <1>2. ASSUME NEW w \in Servers, Requests(w) PROVE Next1
    BY <1>2, ListOK, CreateOK, AskOK, TellOK, RevokeOK, PolicyOK, RetypeOK, OrderOK DEF Requests
  <1>3. ASSUME NEW d \in Devices, Work(d) \/ Heartbeat(d) \/ Silence(d) \/ GiveUp(d) \/ Restart(d) PROVE Next1
    BY <1>3, WorkOK, HeartbeatOK, SilenceOK, AgentEndsOK
  <1> QED BY <1>1, <1>2, <1>3, DieOK, OverdueOK, StaleOK, Stutters DEF Next

\* The rows of jobs and commands, what requests and agents carry, and that no two
\* requests insert or settle the same command: all steps preserve that together
\* (reconcileJobs, nextCommand, commandResult).
THEOREM InductiveInvariant == Spec => []IInv
  <1>1. IInv /\ [Next]_vars => IInv'
    BY NextStep DEF Next1
  <1> QED BY <1>1, Initially, PTL DEF Spec

\* Every variable keeps its type; a waiting job has no command, an assigned one has.
THEOREM TypeCorrect == Spec => []TypeOK
  <1>1. IInv => TypeOK
    BY DEF IInv, JobsOK, CmdsOK, HandsOK, SrvsOK, AgentsOK, RestOK, JobOK, TypeOK, JobRow, CmdRow, DevRow, Srv, Agent
  <1> QED BY <1>1, InductiveInvariant, PTL

\* A job counts as done only if a device carried out one of its assignments and the
\* report of it was accepted (commandResult).
THEOREM DoneIsProven == Spec => []SucceededIsProven
  <1>1. IInv => SucceededIsProven
    BY DEF IInv, JobsOK, JobOK, SucceededIsProven
  <1> QED BY <1>1, InductiveInvariant, PTL

\* A job is assigned at most MaxAttempts times, but for reports that write it from a
\* count they read before it was assigned again (reconcileJobs, commandResult).
THEOREM AttemptsAreBounded == Spec => []AttemptsBounded
  <1>1. IInv => AttemptsBounded
    BY DEF IInv, JobsOK, JobOK, AttemptsBounded
  <1> QED BY <1>1, InductiveInvariant, PTL

\* A job that ended stays so, but for a late result of its last assignment or a report
\* that had read an earlier one (commandResult).
THEOREM EndedStays == Spec => EndedUnlessLate
  <1>1. IInv /\ [Next]_vars => [\A j \in Jobs : Ended(j) => job'[j].st \in {job[j].st, "succeeded"} \/ late'[j] > 0]_vars
    BY NextStep DEF Next1, EndedMoves
  <1> QED BY <1>1, InductiveInvariant, PTL DEF Spec, EndedUnlessLate

\* A job whose command may still be carried out is queued anew only when it is overdue
\* or by such a report (reconcileJobs, commandResult).
THEOREM LetsGoForCause == Spec => LetGoForCause
  <1>1. IInv /\ [Next]_vars =>
          [\A j \in Jobs : \A c \in JobCmds :
             (c = <<j, job[j].nr>> /\ Live(c) /\ job[j].st = "assigned" /\ job'[j].st = "queued") =>
               job[j].due \/ late'[j] > late[j]]_vars
    BY NextStep DEF Next1, LetsGo
  <1> QED BY <1>1, InductiveInvariant, PTL DEF Spec, LetGoForCause

\* The command of a self-update is handed out once, and one sent as a job comes back
\* no more often than the job is assigned (nextCommand, closeStaleSelfUpdateClaims,
\* reconcileJobs).
THEOREM UpdatesRationed == Spec => []SelfUpdatesRationed
  <1>1. ASSUME IInv, NEW c \in Cmds, c[1] \in SelfUpdates
        PROVE  handed[c] <= 1 /\ (handed[c] > 0 /\ c[1] \in Jobs => c[2] <= MaxAttempts + late[c[1]])
    <2>1. handed[c] \in Nat /\ HandedOK(c) /\ CmdOK(c)
      BY <1>1 DEF IInv, HandsOK, CmdsOK
    <2>2. handed[c] <= 1
      BY <1>1, <2>1 DEF HandedOK
    <2>3. ASSUME handed[c] > 0, NEW j \in Jobs, j = c[1] PROVE c[2] <= MaxAttempts + late[j]
      <3>1. c \in JobCmds /\ c[2] \in 1..LastTry
        BY <2>3, CmdParts
      <3>2. c[2] <= job[j].tries
        BY <1>1, <2>1, <2>3, <3>1 DEF HandedOK, CmdOK
      <3>3. job[j].tries <= MaxAttempts + late[j] /\ job[j].tries \in Nat /\ late[j] \in Nat
        BY <1>1, RowOf DEF JobOK
      <3> QED BY <3>1, <3>2, <3>3
    <2> QED BY <2>2, <2>3
  <1>2. IInv => SelfUpdatesRationed
    BY <1>1 DEF SelfUpdatesRationed
  <1> QED BY <1>2, InductiveInvariant, PTL
=============================================================================
