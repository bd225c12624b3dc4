------------------------ MODULE FamilyDispatch_proofs ------------------------
(***************************************************************************)
(* Theorems about FamilyDispatch, for every set of jobs, devices and       *)
(* requests, every duration, cap and horizon.                              *)
(*                                                                         *)
(* The inductive invariant IInv adds to the types what a request in flight *)
(* may believe of its row; RowsStep says what any step does to the rows,   *)
(* and the action properties are read off it.                              *)
(***************************************************************************)
EXTENDS FamilyDispatch, FiniteSetTheorems, TLAPS

Admitting == {"lookup", "insert"}
Holding   == {"lease", "void", "verify", "settle", "renew", "expire", "fresh"}

\* A request that is about to insert has a row of its own that does not exist
\* yet; one that is about to write has a row that exists; a row is expired only
\* once its deadline has passed, one is voided only if its payload was not kept,
\* and no request is ahead of the clock.
RequestOK(r) ==
  LET q == req[r] IN
  /\ q.pc \in Admitting => /\ q.job \in Jobs /\ job[q.job].status = "absent"
                           /\ \A s \in Requests \ {r} : req[s].job # q.job
  /\ q.pc \in Holding => q.job \in Jobs /\ job[q.job].status # "absent"
  /\ q.pc = "expire" => now > Deadline(q.job)
  /\ q.pc = "void" => ~job[q.job].kept
  /\ q.at <= now

RequestsOK == \A r \in Requests : RequestOK(r)

IInv == TypeOK /\ ToldIsTrue /\ RequestsOK

\* A result of its own device, or its claim, ends the run of k.
Reported(k) ==
  \E r \in Requests : /\ req[r].pc = "settle" \/ (req[r].pc = "void" /\ ~job[k].kept)
                      /\ req[r].job = k /\ req[r].dev = job[k].dev
                      /\ req'[r] # req[r]

\* What a step may make of row k.
Moves(k, new) ==
  /\ job[k].status \in Terminal => new = job[k]
  /\ job[k].status # "absent" =>
       /\ new.status # "absent" /\ new.created = job[k].created
       /\ new.via = job[k].via /\ new.kept = job[k].kept
  /\ job[k].status = "leased" /\ job[k].lease >= now /\ now <= Deadline(k)
     /\ new.status # "leased" => Reported(k)

\* What a step does to the rows; only row "new" may come into being, and a
\* dispatched one only while there is room.
RowsStep(new) ==
  /\ job' \in [Jobs -> Row]
  /\ \A k \in Jobs : HolderOK(job'[k]) /\ Moves(k, job'[k])
  /\ \A k \in Jobs \ {new} : job[k].status = "absent" => job'[k] = job[k]
  /\ new \in Jobs => job'[new].via = "post" \/ Cardinality(ActiveJobs) < GlobalMax

Step == IInv' /\ \E new \in Jobs \cup {NoJob} : RowsStep(new)

-----------------------------------------------------------------------------
(* Rows. *)

LEMMA NoRow == ASSUME TypeOK, UNCHANGED job PROVE RowsStep(NoJob)
  BY FamilyAssumption DEF TypeOK, RowsStep, Moves, HolderOK, Never

LEMMA OneRow ==
  ASSUME TypeOK, NEW j \in Jobs, NEW row \in Row, HolderOK(row), Moves(j, row),
         NEW new \in Jobs \cup {NoJob},
         job[j].status = "absent" => new = j,
         new \in Jobs => new = j /\ (row.via = "post" \/ Cardinality(ActiveJobs) < GlobalMax),
         job' = [job EXCEPT ![j] = row]
  PROVE  RowsStep(new)
  <1>1. job' \in [Jobs -> Row] /\ job'[j] = row /\ \A k \in Jobs \ {j} : job'[k] = job[k]
    BY DEF TypeOK
  <1>2. \A k \in Jobs \ {j} : HolderOK(job[k]) /\ Moves(k, job[k])
    BY DEF TypeOK, Moves
  <1>3. \A k \in Jobs : HolderOK(job'[k]) /\ Moves(k, job'[k])
    <2> SUFFICES ASSUME NEW k \in Jobs PROVE HolderOK(job'[k]) /\ Moves(k, job'[k])
      OBVIOUS
    <2>1. CASE k = j
      BY <1>1, <2>1 DEF HolderOK, Moves, Reported
    <2>2. CASE k # j
      BY <1>1, <1>2, <2>2 DEF HolderOK, Moves, Reported
    <2> QED BY <2>1, <2>2
  <1> QED BY <1>1, <1>3 DEF RowsStep

\* Open rows that are freed, for a cause if they were running.
LEMMA FreedOK ==
  ASSUME NEW j \in Jobs, NEW row \in Row, row = job[j], row.status \in Open,
         NEW status \in {"pending", "failed", "cancelled"},
         row.status = "leased" /\ row.lease >= now /\ now <= Deadline(j) => Reported(j)
  PROVE  LET new == Freed(row, status)
         IN  new \in Row /\ HolderOK(new) /\ Moves(j, new)
  <1> DEFINE new == Freed(row, status)
  <1>1. /\ new \in Row /\ new.status = status /\ new.dev = NoDevice /\ new.lease = Never
        /\ new.created = row.created /\ new.via = row.via /\ new.kept = row.kept
    <2>1. Never \in Int /\ status \in {"pending", "failed", "cancelled"}
      BY DEF Never
    <2> HIDE DEF Never
    <2> QED BY <2>1 DEF Freed, Row, Open, Terminal
  <1> HIDE DEF new
  <1>2. HolderOK(new)
    BY <1>1 DEF HolderOK, Held
  <1>3. Moves(j, new)
    BY <1>1 DEF Moves, Open, Held, Terminal
  <1> QED BY <1>1, <1>2, <1>3 DEF new

LEMMA CreatedOK ==
  ASSUME NEW j \in Jobs, now \in Nat, job[j].status = "absent", NEW via \in {"dispatch", "post"},
         NEW kept \in BOOLEAN
  PROVE  /\ Created(via, kept) \in Row /\ HolderOK(Created(via, kept))
         /\ Moves(j, Created(via, kept)) /\ Created(via, kept).via = via
  <1> DEFINE new == Created(via, kept)
  <1>1. /\ new \in Row /\ new.status = "pending" /\ new.dev = NoDevice /\ new.lease = Never
        /\ new.via = via
    BY DEF Created, Row, Open, Never
  <1> HIDE DEF new
  <1>2. HolderOK(new) /\ Moves(j, new)
    BY <1>1 DEF HolderOK, Held, Moves, Terminal
  <1> QED BY <1>1, <1>2 DEF new

\* A row that a device is given, or keeps: a placement, a lease, a renewal.
LEMMA HeldOK ==
  ASSUME NEW j \in Jobs, job[j].status \in Open, NEW new \in Row,
         new.status \in Held, new.dev \in Devices, new.lease \in Nat,
         new.created = job[j].created, new.via = job[j].via, new.kept = job[j].kept,
         job[j].status = "leased" => new.status = "leased"
  PROVE  HolderOK(new) /\ Moves(j, new)
  <1>1. HolderOK(new)
    BY FamilyAssumption DEF HolderOK, Held, Never
  <1>2. Moves(j, new)
    BY DEF Moves, Open, Held, Terminal
  <1> QED BY <1>1, <1>2

\* A row that ends where it is: a spent claim, or a success.
LEMMA EndedOK ==
  ASSUME NEW j \in Jobs, NEW new \in Row, new.status \in {"failed", "completed"},
         new.created = job[j].created, new.via = job[j].via, new.kept = job[j].kept,
         \/ job[j].status = "assigned"
         \/ job[j].status = "leased" /\ Reported(j)
  PROVE  HolderOK(new) /\ Moves(j, new)
  <1>1. HolderOK(new)
    BY DEF HolderOK, Held
  <1>2. Moves(j, new)
    BY DEF Moves, Terminal
  <1> QED BY <1>1, <1>2

-----------------------------------------------------------------------------
(* Requests. *)

\* Of a request a step does not touch, everything stays true.
LEMMA OtherRequest ==
  ASSUME IInv, NEW new \in Jobs \cup {NoJob}, RowsStep(new),
         now' \in Nat, now <= now', NEW s \in Requests, req'[s] = req[s],
         req[s].job # new \/ new = NoJob,
         req[s].pc \in Admitting => \A t \in Requests \ {s} : req'[t].job # req[s].job
  PROVE  RequestOK(s)'
  <1> DEFINE q == req[s]
  <1>1. RequestOK(s) /\ q \in Request /\ now \in Nat
    BY DEF IInv, RequestsOK, TypeOK
  <1>2. q.pc \in Admitting => job'[q.job].status = "absent"
    BY <1>1, FamilyAssumption DEF RequestOK, RowsStep
  <1>3. q.pc \in Holding => /\ job'[q.job].status # "absent"
                            /\ job'[q.job].created = job[q.job].created
                            /\ job'[q.job].kept = job[q.job].kept
    BY <1>1 DEF RequestOK, RowsStep, Moves
  <1>4. q.pc = "expire" => now' > Deadline(q.job)'
    <2> HAVE q.pc = "expire"
    <2>1. /\ q.job \in Jobs /\ now > Deadline(q.job)
          /\ job'[q.job].created = job[q.job].created /\ job'[q.job].kept = job[q.job].kept
      BY <1>1, <1>3 DEF RequestOK, Holding
    <2>2. Deadline(q.job)' = Deadline(q.job) /\ Deadline(q.job) \in Nat
      BY <2>1, FamilyAssumption DEF Deadline, IInv, TypeOK, Row
    <2> QED BY <1>1, <2>1, <2>2
  <1>5. q.at <= now'
    BY <1>1 DEF RequestOK, Request
  <1>6. q.pc = "void" => ~job'[q.job].kept
    BY <1>1, <1>3 DEF RequestOK, Holding
  <1> QED BY <1>1, <1>2, <1>3, <1>4, <1>5, <1>6 DEF RequestOK

\* A step of request r that leaves it as q.
LEMMA OneRequest ==
  ASSUME IInv, NEW new \in Jobs \cup {NoJob}, RowsStep(new), now' = now,
         NEW r \in Requests, NEW q \in Request, req' = [req EXCEPT ![r] = q],
         \A s \in Requests \ {r} : req[s].job # new \/ new = NoJob,
         q.pc \in Admitting => /\ q.job \in Jobs /\ job'[q.job].status = "absent"
                               /\ \A s \in Requests \ {r} : req[s].job # q.job,
         \/ q.job \in {NoJob, req[r].job}
         \/ q.job \in Jobs /\ (Fresh(q.job) \/ job[q.job].status # "absent"),
         q.pc \in Holding => q.job \in Jobs /\ job'[q.job].status # "absent",
         q.pc = "expire" => now > Deadline(q.job)', q.pc = "void" => ~job'[q.job].kept,
         q.at <= now
  PROVE  req' \in [Requests -> Request] /\ RequestsOK'
  <1>1. req' \in [Requests -> Request] /\ req'[r] = q /\ \A s \in Requests \ {r} : req'[s] = req[s]
    BY DEF IInv, TypeOK
  <1>2. RequestOK(r)'
    BY <1>1 DEF RequestOK
  <1>3. ASSUME NEW s \in Requests \ {r} PROVE RequestOK(s)'
    <2>1. RequestOK(s) /\ req'[s] = req[s]
      BY <1>1 DEF IInv, RequestsOK
    <2>2. req[s].pc \in Admitting => req[s].job # q.job
      <3>1. req[s].pc \in Admitting => /\ req[s].job \in Jobs /\ job[req[s].job].status = "absent"
                                       /\ req[s].job # req[r].job
        BY <2>1 DEF RequestOK
      <3> QED BY <3>1, FamilyAssumption DEF Fresh
    <2>3. req[s].pc \in Admitting => \A t \in Requests \ {s} : req'[t].job # req[s].job
      BY <1>1, <2>1, <2>2 DEF RequestOK
    <2> QED BY <1>1, <2>1, <2>3, OtherRequest DEF IInv, TypeOK
  <1> QED BY <1>1, <1>2, <1>3 DEF RequestsOK

\* A request that is in a pass, or waits to claim, or is over, holds no row.
LEMMA QuietRequest ==
  ASSUME IInv, RowsStep(NoJob), now' = now, NEW r \in Requests, NEW q \in Request,
         req' = [req EXCEPT ![r] = q], q.pc \notin Admitting \cup Holding,
         q.job \in {NoJob, req[r].job}, q.at <= now
  PROVE  req' \in [Requests -> Request] /\ RequestsOK'
  BY OneRequest DEF Holding

LEMMA NoRequest ==
  ASSUME IInv, RowsStep(NoJob), now' \in Nat, now <= now', UNCHANGED req
  PROVE  req' \in [Requests -> Request] /\ RequestsOK'
  <1>1. ASSUME NEW s \in Requests PROVE RequestOK(s)'
    <2>1. RequestOK(s)
      BY DEF IInv, RequestsOK
    <2> QED BY <2>1, OtherRequest DEF RequestOK
  <1> QED BY <1>1 DEF IInv, TypeOK, RequestsOK

LEMMA IdleIs ==
  ASSUME now \in Nat
  PROVE  Idle \in Request /\ Idle.pc = "idle" /\ Idle.job = NoJob /\ Idle.at <= now
  BY DEF Idle, Request

LEMMA IdleOK ==
  ASSUME now \in Nat
  PROVE  /\ Idle \in Request /\ Idle.pc = "idle" /\ Idle.job = NoJob /\ Idle.at <= now
         /\ \A d \in Devices \cup {NoDevice}, pc \in {"sweep", "claim"} :
              LET q == [Idle EXCEPT !.pc = pc, !.dev = d] IN
              q \in Request /\ q.pc = pc /\ q.job = NoJob /\ q.at <= now
  <1>1. ASSUME NEW d \in Devices \cup {NoDevice}, NEW pc \in {"sweep", "claim"}
        PROVE  LET q == [Idle EXCEPT !.pc = pc, !.dev = d] IN
               q \in Request /\ q.pc = pc /\ q.job = NoJob /\ q.at <= now
    BY IdleIs DEF Request
  <1> QED BY <1>1, IdleIs

LEMMA EndPassOK ==
  ASSUME IInv, NEW r \in Requests, EndPass(r)
  PROVE  \E q \in Request : /\ req' = [req EXCEPT ![r] = q] /\ q.pc \in {"idle", "claim"}
                            /\ q.job = NoJob /\ q.at <= now
  <1>1. now \in Nat /\ req[r].dev \in Devices \cup {NoDevice}
    BY DEF IInv, TypeOK, Request
  <1>2. CASE req[r].dev = NoDevice
    BY <1>1, <1>2, IdleOK DEF EndPass, Become
  <1>3. CASE req[r].dev # NoDevice
    BY <1>1, <1>3, IdleOK DEF EndPass, Become
  <1> QED BY <1>2, <1>3

-----------------------------------------------------------------------------
(* What the console has been told. *)

LEMMA ToldSame ==
  ASSUME IInv, NEW new \in Jobs \cup {NoJob}, RowsStep(new), UNCHANGED told
  PROVE  told' \in [Jobs -> SUBSET Terminal] /\ ToldIsTrue'
  BY DEF IInv, TypeOK, ToldIsTrue, RowsStep, Moves

\* An answer given now is the status the row has from now on.
LEMMA ToldOne ==
  ASSUME IInv, RowsStep(NoJob), NEW j \in Jobs, Tell(j, job'[j].status)
  PROVE  told' \in [Jobs -> SUBSET Terminal] /\ ToldIsTrue'
  <1>1. told' \in [Jobs -> SUBSET Terminal]
    BY DEF IInv, TypeOK, Tell
  <1>2. ASSUME NEW k \in Jobs PROVE told'[k] \subseteq {job'[k].status}
    <2>1. told[k] \subseteq {job'[k].status}
      BY DEF IInv, TypeOK, ToldIsTrue, RowsStep, Moves
    <2>2. CASE k = j
      BY <2>1, <2>2 DEF IInv, TypeOK, Tell
    <2>3. CASE k # j
      BY <2>1, <2>3 DEF IInv, TypeOK, Tell
    <2> QED BY <2>2, <2>3
  <1> QED BY <1>1, <1>2 DEF ToldIsTrue

LEMMA StepOK ==
  ASSUME NEW new \in Jobs \cup {NoJob}, RowsStep(new), now' \in Nat,
         req' \in [Requests -> Request] /\ RequestsOK',
         told' \in [Jobs -> SUBSET Terminal] /\ ToldIsTrue'
  PROVE  Step
  BY DEF Step, IInv, TypeOK, RowsStep, HolderOK

\* A step of one request that touches no row.
LEMMA Quietly ==
  ASSUME IInv, NEW r \in Requests, NEW q \in Request, UNCHANGED <<now, job, told>>,
         req' = [req EXCEPT ![r] = q], q.pc \notin Admitting \cup Holding,
         q.job \in {NoJob, req[r].job}, q.at <= now
  PROVE  Step
  <1>1. TypeOK /\ now' \in Nat
    BY DEF IInv, TypeOK
  <1>2. RowsStep(NoJob)
    BY <1>1, NoRow
  <1> QED BY <1>1, <1>2, QuietRequest, ToldSame, StepOK

-----------------------------------------------------------------------------
(* Creating and cancelling. *)

LEMMA DispatchStep ==
  ASSUME IInv, NEW r \in Requests, NEW j \in Jobs, Dispatch(r, j) PROVE Step
  <1>1. TypeOK /\ now' \in Nat /\ now' = now /\ RowsStep(NoJob)
    BY NoRow DEF IInv, TypeOK, Dispatch
  <1> DEFINE q == [Idle EXCEPT !.pc = "lookup", !.job = j]
  <1>2. q \in Request /\ q.pc = "lookup" /\ q.job = j /\ q.at <= now
    BY <1>1, IdleIs DEF Request
  <1>3. req' = [req EXCEPT ![r] = q]
    BY DEF Dispatch, Arrive, Become
  <1> HIDE DEF q
  <1>4. Fresh(j) /\ job'[j].status = "absent" /\ \A s \in Requests : req[s].job # j
    BY DEF Dispatch, Fresh
  <1>5. req' \in [Requests -> Request] /\ RequestsOK'
    BY <1>1, <1>2, <1>3, <1>4, OneRequest DEF Holding
  <1> QED BY <1>1, <1>5, ToldSame, StepOK DEF Dispatch

LEMMA LookupStep == ASSUME IInv, NEW r \in Requests, Lookup(r) PROVE Step
  <1>1. TypeOK /\ now' \in Nat /\ now' = now /\ RowsStep(NoJob) /\ RequestOK(r)
    BY NoRow DEF IInv, TypeOK, RequestsOK, Lookup
  <1>2. CASE req' = [req EXCEPT ![r] = Idle]
    BY <1>1, <1>2, IdleOK, Quietly DEF Lookup, Admitting, Holding
  <1>3. CASE req' = [req EXCEPT ![r] = [req[r] EXCEPT !.pc = "insert"]]
    <2> DEFINE q == [req[r] EXCEPT !.pc = "insert"]
    <2>0. req[r] \in Request /\ req[r].at <= now
      BY <1>1 DEF TypeOK, RequestOK
    <2>1. q \in Request /\ q.pc = "insert" /\ q.job = req[r].job /\ q.at <= now
      BY <2>0 DEF Request
    <2>2. req' = [req EXCEPT ![r] = q]
      BY <1>3
    <2> HIDE DEF q
    <2>3. /\ q.job \in Jobs /\ job'[q.job].status = "absent"
          /\ \A s \in Requests \ {r} : req[s].job # q.job
      BY <1>1, <2>1 DEF RequestOK, Lookup, Admitting
    <2>4. req' \in [Requests -> Request] /\ RequestsOK'
      BY <1>1, <2>1, <2>2, <2>3, OneRequest DEF Holding
    <2> QED BY <1>1, <2>4, ToldSame, StepOK DEF Lookup
  <1> QED BY <1>2, <1>3 DEF Lookup, Become

\* A row comes into being and its request goes on to a scheduling pass.
LEMMA RowIsBorn ==
  ASSUME IInv, NEW r \in Requests, NEW j \in Jobs, NEW via \in {"dispatch", "post"},
         job[j].status = "absent", \A s \in Requests \ {r} : req[s].job # j,
         via = "post" \/ Cardinality(ActiveJobs) < GlobalMax,
         \E kept \in Keeps : job' = [job EXCEPT ![j] = Created(via, kept)],
         UNCHANGED <<now, told>>, req' = [req EXCEPT ![r] = Pass(NoDevice)]
  PROVE  Step
  <1>1. TypeOK /\ now' \in Nat /\ now' = now
    BY DEF IInv, TypeOK
  <1>2. RowsStep(j)
    <2>0. PICK kept \in BOOLEAN : job' = [job EXCEPT ![j] = Created(via, kept)]
      BY DEF Keeps
    <2> DEFINE row == Created(via, kept)
    <2>1. row \in Row /\ HolderOK(row) /\ Moves(j, row) /\ row.via = via
      BY <1>1, CreatedOK
    <2> HIDE DEF row
    <2>2. job' = [job EXCEPT ![j] = row]
      BY <2>0 DEF row
    <2> QED BY <1>1, <2>1, <2>2, OneRow
  <1> DEFINE q == Pass(NoDevice)
  <1>3. q \in Request /\ q.pc = "sweep" /\ q.job = NoJob /\ q.at <= now
    BY <1>1, IdleOK DEF Pass
  <1> HIDE DEF q
  <1>4. req' = [req EXCEPT ![r] = q]
    BY DEF q
  <1>5. req' \in [Requests -> Request] /\ RequestsOK'
    <2>1. q.pc \notin Admitting /\ q.pc \notin Holding /\ q.pc # "expire" /\ q.pc # "void"
      BY <1>3 DEF Admitting, Holding
    <2>2. \A s \in Requests \ {r} : req[s].job # j \/ j = NoJob
      OBVIOUS
    <2>3. q.job \in {NoJob, req[r].job}
      BY <1>3
    <2> HIDE DEF RequestsOK
    <2> QED BY <1>1, <1>2, <1>3, <1>4, <2>1, <2>2, <2>3, OneRequest
  <1> QED BY <1>1, <1>2, <1>5, ToldSame, StepOK

LEMMA InsertStep == ASSUME IInv, NEW r \in Requests, Insert(r) PROVE Step
  <1>1. TypeOK /\ RequestOK(r)
    BY DEF IInv, RequestsOK
  <1>2. CASE Cardinality(ActiveJobs) < GlobalMax
    <2>1. /\ req[r].job \in Jobs /\ job[req[r].job].status = "absent"
          /\ \A s \in Requests \ {r} : req[s].job # req[r].job
      BY <1>1 DEF Insert, RequestOK, Admitting
    <2>2. /\ \E kept \in Keeps : job' = [job EXCEPT ![req[r].job] = Created("dispatch", kept)]
          /\ UNCHANGED <<now, told>> /\ req' = [req EXCEPT ![r] = Pass(NoDevice)]
      BY <1>2 DEF Insert, Become
    <2> QED BY <1>2, <2>1, <2>2, RowIsBorn
  <1>3. CASE ~(Cardinality(ActiveJobs) < GlobalMax)
    BY <1>1, <1>3, IdleOK, Quietly DEF Insert, Become, TypeOK, Admitting, Holding
  <1> QED BY <1>2, <1>3

LEMMA PostStep == ASSUME IInv, NEW r \in Requests, NEW j \in Jobs, Post(r, j) PROVE Step
  BY RowIsBorn DEF Post, Arrive, Become, Fresh

\* An open row is freed; a run is ended so only for a cause.
LEMMA RowIsFreed ==
  ASSUME IInv, NEW j \in Jobs, job[j].status \in Open,
         NEW status \in {"pending", "failed", "cancelled"},
         job[j].status = "leased" /\ job[j].lease >= now /\ now <= Deadline(j) => Reported(j),
         job' = [job EXCEPT ![j] = Freed(@, status)]
  PROVE  RowsStep(NoJob) /\ job'[j].status = status
  <1> DEFINE row == Freed(job[j], status)
  <1>1. TypeOK /\ job[j] \in Row /\ job[j].status # "absent"
    BY DEF IInv, TypeOK, Open, Held
  <1>2. row \in Row /\ HolderOK(row) /\ Moves(j, row) /\ row.status = status
    BY <1>1, FreedOK DEF Freed, Row
  <1>3. job' = [job EXCEPT ![j] = row]
    OBVIOUS
  <1> HIDE DEF row
  <1> QED BY <1>1, <1>2, <1>3, OneRow, FamilyAssumption DEF TypeOK

LEMMA CancelStep == ASSUME IInv, NEW j \in Jobs, Cancel(j) PROVE Step
  <1>1. TypeOK /\ now' \in Nat /\ now <= now'
    BY DEF IInv, TypeOK, Cancel
  <1>2. RowsStep(NoJob)
    BY RowIsFreed DEF Cancel, Open, Held
  <1> QED BY <1>1, <1>2, NoRequest, ToldSame, StepOK DEF Cancel

-----------------------------------------------------------------------------
(* The steps of a pass. *)

LEMMA SweepStep == ASSUME IInv, NEW r \in Requests, Sweep(r) PROVE Step
  <1> DEFINE q == [req[r] EXCEPT !.pc = "sweeping", !.todo = ActiveJobs]
  <1>1. req[r] \in Request /\ req[r].at <= now /\ ActiveJobs \in SUBSET Jobs
    BY DEF IInv, TypeOK, RequestsOK, RequestOK, ActiveJobs
  <1>2. q \in Request /\ q.pc = "sweeping" /\ q.job = req[r].job /\ q.at <= now
    BY <1>1 DEF Request
  <1>3. req' = [req EXCEPT ![r] = q]
    BY DEF Sweep, Become
  <1> HIDE DEF q
  <1> QED BY <1>2, <1>3, Quietly DEF Sweep, Admitting, Holding

LEMMA SweepOneStep == ASSUME IInv, NEW r \in Requests, SweepOne(r) PROVE Step
  <1>1. PICK j \in req[r].todo :
          /\ job' = IF now > Deadline(j) /\ job[j].status \in Open
                    THEN [job EXCEPT ![j] = Freed(@, "failed")]
                    ELSE job
          /\ Become(r, [req[r] EXCEPT !.todo = @ \ {j}])
    BY DEF SweepOne
  <1> DEFINE q == [req[r] EXCEPT !.todo = @ \ {j}]
  <1>2. /\ req[r] \in Request /\ req[r].at <= now /\ j \in Jobs /\ TypeOK
        /\ now' \in Nat /\ now' = now /\ UNCHANGED told /\ req[r].pc = "sweeping"
    BY DEF IInv, TypeOK, RequestsOK, RequestOK, Request, SweepOne
  <1>3. q \in Request /\ q.pc = "sweeping" /\ q.job = req[r].job /\ q.at <= now
    BY <1>2 DEF Request
  <1>4. req' = [req EXCEPT ![r] = q]
    BY <1>1 DEF Become
  <1> HIDE DEF q
  <1>5. RowsStep(NoJob)
    <2>1. CASE now > Deadline(j) /\ job[j].status \in Open
      <3>1. Deadline(j) \in Int /\ now \in Int
        BY <1>2, FamilyAssumption DEF TypeOK, Row, Deadline
      <3>2. ~(now <= Deadline(j))
        BY <2>1, <3>1
      <3>3. job' = [job EXCEPT ![j] = Freed(@, "failed")]
        BY <1>1, <2>1
      <3> QED BY <1>2, <2>1, <3>2, <3>3, RowIsFreed
    <2>2. CASE ~(now > Deadline(j) /\ job[j].status \in Open)
      BY <1>1, <1>2, <2>2, NoRow
    <2> QED BY <2>1, <2>2
  <1>6. req' \in [Requests -> Request] /\ RequestsOK'
    BY <1>2, <1>3, <1>4, <1>5, QuietRequest DEF Admitting, Holding
  <1> QED BY <1>2, <1>5, <1>6, ToldSame, StepOK

LEMMA ListLapsedStep == ASSUME IInv, NEW r \in Requests, ListLapsed(r) PROVE Step
  <1>1. PICK at \in Recent :
          LET lapsed == {j \in Jobs : job[j].status \in Held /\ job[j].lease < at}
              listed == {<<j, job[j].status, job[j].attempts>> : j \in lapsed}
          IN
          Become(r, IF lapsed = {}
                    THEN [req[r] EXCEPT !.pc = "counts"]
                    ELSE [req[r] EXCEPT !.pc = "requeue", !.at = at, !.listed = listed])
    BY DEF ListLapsed
  <1> DEFINE lapsed == {j \in Jobs : job[j].status \in Held /\ job[j].lease < at}
             listed == {<<j, job[j].status, job[j].attempts>> : j \in lapsed}
             q0 == [req[r] EXCEPT !.pc = "counts"]
             q1 == [req[r] EXCEPT !.pc = "requeue", !.at = at, !.listed = listed]
  <1>2. req[r] \in Request /\ req[r].at <= now /\ at \in Nat /\ at <= now
    BY DEF IInv, TypeOK, RequestsOK, RequestOK, Recent
  <1>3. /\ listed \in SUBSET (Jobs \X Held \X (0 .. 3))
        /\ req' = [req EXCEPT ![r] = q0] \/ req' = [req EXCEPT ![r] = q1]
    <2>1. ASSUME NEW j \in lapsed PROVE <<j, job[j].status, job[j].attempts>> \in Jobs \X Held \X (0 .. 3)
      BY DEF IInv, TypeOK, Row
    <2>2. listed \in SUBSET (Jobs \X Held \X (0 .. 3))
      BY <2>1
    <2> QED BY <1>1, <2>2 DEF Become
  <1> HIDE DEF lapsed, listed
  <1>4. /\ q0 \in Request /\ q0.pc = "counts" /\ q0.job = req[r].job /\ q0.at <= now
        /\ q1 \in Request /\ q1.pc = "requeue" /\ q1.job = req[r].job /\ q1.at <= now
    BY <1>2, <1>3 DEF Request
  <1> HIDE DEF q0, q1
  <1> QED BY <1>3, <1>4, Quietly DEF ListLapsed, Admitting, Holding

LEMMA RequeueOneStep == ASSUME IInv, NEW r \in Requests, RequeueOne(r) PROVE Step
  <1>1. PICK t \in req[r].listed :
          LET spent == t[2] = "leased" /\ t[3] >= Limit(t[1])
              rest  == req[r].listed \ {t}
          IN
          /\ job' = IF StillLapsed(t[1], t[2], req[r].at)
                    THEN [job EXCEPT ![t[1]] = Freed(@, IF spent THEN "failed" ELSE "pending")]
                    ELSE job
          /\ Become(r, IF rest = {}
                       THEN [req[r] EXCEPT !.pc = "counts", !.at = 0, !.listed = {}]
                       ELSE [req[r] EXCEPT !.listed = rest])
    BY DEF RequeueOne
  <1> DEFINE j == t[1]
             spent == t[2] = "leased" /\ t[3] >= Limit(j)
             rest == req[r].listed \ {t}
             status == IF spent THEN "failed" ELSE "pending"
             q0 == [req[r] EXCEPT !.pc = "counts", !.at = 0, !.listed = {}]
             q1 == [req[r] EXCEPT !.listed = rest]
  <1>2. /\ req[r] \in Request /\ req[r].at <= now /\ TypeOK
        /\ now' \in Nat /\ now' = now /\ UNCHANGED told /\ req[r].pc = "requeue"
    BY DEF IInv, TypeOK, RequestsOK, RequestOK, RequeueOne
  <1>3. req[r].listed \in SUBSET (Jobs \X Held \X (0 .. 3)) /\ req[r].at \in Nat
    BY <1>2 DEF Request
  <1>4. j \in Jobs /\ t[2] \in Held
    BY <1>3
  <1>5. /\ rest \in SUBSET (Jobs \X Held \X (0 .. 3))
        /\ req' = [req EXCEPT ![r] = q0] \/ req' = [req EXCEPT ![r] = q1]
    BY <1>1, <1>3 DEF Become
  <1>6. job' = IF StillLapsed(j, t[2], req[r].at) THEN [job EXCEPT ![j] = Freed(@, status)] ELSE job
    BY <1>1
  <1>7. status \in {"failed", "pending"}
    OBVIOUS
  <1> HIDE DEF rest, status
  <1>8. /\ q0 \in Request /\ q0.pc = "counts" /\ q0.job = req[r].job /\ q0.at <= now
        /\ q1 \in Request /\ q1.pc = "requeue" /\ q1.job = req[r].job /\ q1.at <= now
    <2>1. q0 \in Request /\ q0.pc = "counts" /\ q0.job = req[r].job /\ q0.at = 0
      BY <1>2 DEF Request
    <2>2. q1 \in Request /\ q1.pc = "requeue" /\ q1.job = req[r].job /\ q1.at <= now
      BY <1>2, <1>5 DEF Request
    <2>3. 0 <= now
      BY <1>2
    <2> HIDE DEF q0, q1
    <2> QED BY <2>1, <2>2, <2>3
  <1> HIDE DEF q0, q1, j
  <1>9. RowsStep(NoJob)
    <2>1. CASE StillLapsed(j, t[2], req[r].at)
      <3>1. job[j].status \in Open /\ ~(job[j].lease >= now)
        BY <1>2, <1>3, <1>4, <2>1 DEF StillLapsed, TypeOK, Row, Open
      <3>2. job' = [job EXCEPT ![j] = Freed(@, status)]
        BY <1>6, <2>1
      <3> QED BY <1>4, <1>7, <3>1, <3>2, RowIsFreed
    <2>2. CASE ~StillLapsed(j, t[2], req[r].at)
      BY <1>2, <1>6, <2>2, NoRow
    <2> QED BY <2>1, <2>2
  <1>10. req' \in [Requests -> Request] /\ RequestsOK'
    BY <1>2, <1>5, <1>8, <1>9, QuietRequest DEF Admitting, Holding
  <1> QED BY <1>2, <1>9, <1>10, ToldSame, StepOK

LEMMA HeldOnCount == ASSUME NEW d PROVE Cardinality(HeldOn(d)) \in Nat
  BY FamilyAssumption, FS_Subset, FS_CardinalityType DEF HeldOn

LEMMA LessOK == ASSUME NEW cap \in Nat, NEW used \in Nat PROVE Less(cap, used) \in Nat
  BY DEF Less

LEMMA CountsStep == ASSUME IInv, NEW r \in Requests, Counts(r) PROVE Step
  <1> DEFINE room == [d \in Devices |-> Less(Concurrency[d], Cardinality(HeldOn(d)))]
             q == [req[r] EXCEPT !.pc = "models", !.room = room]
  <1>1. room \in [Devices -> Nat]
    <2>1. ASSUME NEW d \in Devices PROVE Less(Concurrency[d], Cardinality(HeldOn(d))) \in Nat
      BY FamilyAssumption, HeldOnCount, LessOK
    <2> QED BY <2>1
  <1>2. req[r] \in Request /\ req[r].at <= now
    BY DEF IInv, TypeOK, RequestsOK, RequestOK
  <1>3. req' = [req EXCEPT ![r] = q]
    BY DEF Counts, Become
  <1> HIDE DEF room
  <1>4. q \in Request /\ q.pc = "models" /\ q.job = req[r].job /\ q.at <= now
    BY <1>1, <1>2 DEF Request
  <1> HIDE DEF q
  <1> QED BY <1>3, <1>4, Quietly DEF Counts, Admitting, Holding

LEMMA ModelsStep == ASSUME IInv, NEW r \in Requests, Models(r) PROVE Step
  <1> DEFINE running(t) == {j \in HeldOn(t[1]) : Lane[j] = t[2]}
             same == [t \in Devices \X Lanes |-> Less(ModelMax, Cardinality(running(t)))]
             q == [req[r] EXCEPT !.pc = "jobs", !.same = same]
  <1>1. same \in [Devices \X Lanes -> Nat]
    <2>1. ASSUME NEW t \in Devices \X Lanes PROVE Less(ModelMax, Cardinality(running(t))) \in Nat
      <3>1. Cardinality(running(t)) \in Nat
        BY FamilyAssumption, FS_Subset, FS_CardinalityType DEF HeldOn
      <3> QED BY <3>1, FamilyAssumption, LessOK
    <2> QED BY <2>1
  <1>2. req[r] \in Request /\ req[r].at <= now
    BY DEF IInv, TypeOK, RequestsOK, RequestOK
  <1>3. req' = [req EXCEPT ![r] = q]
    BY DEF Models, Become
  <1> HIDE DEF same
  <1>4. q \in Request /\ q.pc = "jobs" /\ q.job = req[r].job /\ q.at <= now
    BY <1>1, <1>2 DEF Request
  <1> HIDE DEF q
  <1> QED BY <1>3, <1>4, Quietly DEF Models, Admitting, Holding

LEMMA ReadPendingStep == ASSUME IInv, NEW r \in Requests, ReadPending(r) PROVE Step
  <1> DEFINE pending == {j \in Jobs : job[j].status = "pending"}
             todo == PlaceableJobs(pending, req[r].room, req[r].same)
             q == [req[r] EXCEPT !.pc = "place", !.todo = todo]
  <1>1. todo \in SUBSET Jobs /\ req[r] \in Request /\ req[r].at <= now
    BY DEF PlaceableJobs, IInv, TypeOK, RequestsOK, RequestOK
  <1>2. CASE EndPass(r)
    BY <1>2, EndPassOK, Quietly DEF ReadPending, Admitting, Holding
  <1>3. CASE req' = [req EXCEPT ![r] = q]
    <2> HIDE DEF todo
    <2>1. q \in Request /\ q.pc = "place" /\ q.job = req[r].job /\ q.at <= now
      BY <1>1 DEF Request
    <2> HIDE DEF q
    <2> QED BY <1>3, <2>1, Quietly DEF ReadPending, Admitting, Holding
  <1> QED BY <1>2, <1>3 DEF ReadPending, Become

\* Place once its job and its device are chosen.
PlaceOn(r, j, d) ==
  LET taken == job[j].status = "pending"
      room  == IF taken THEN [req[r].room EXCEPT ![d] = @ - 1] ELSE req[r].room
      same  == IF taken THEN [req[r].same EXCEPT ![<<d, Lane[j]>>] = @ - 1] ELSE req[r].same
      todo  == PlaceableJobs(req[r].todo \ {j}, room, same)
  IN
  /\ job' = IF taken
            THEN [job EXCEPT ![j].status = "assigned", ![j].dev = d, ![j].lease = now + ASSIGNMENT]
            ELSE job
  /\ IF todo = {}
     THEN EndPass(r)
     ELSE Become(r, [req[r] EXCEPT !.room = room, !.same = same, !.todo = todo])

LEMMA OneLess ==
  ASSUME NEW S, NEW f \in [S -> Nat], NEW t \in S, f[t] > 0
  PROVE  [f EXCEPT ![t] = @ - 1] \in [S -> Nat]
  OBVIOUS

LEMMA PlaceStep == ASSUME IInv, NEW r \in Requests, Place(r) PROVE Step
  <1>0. PICK j \in req[r].todo : \E d \in Takers(j, req[r].room, req[r].same) : PlaceOn(r, j, d)
    BY DEF Place, PlaceOn
  <1>1. PICK d \in Takers(j, req[r].room, req[r].same) : PlaceOn(r, j, d)
    BY <1>0
  <1> DEFINE taken == job[j].status = "pending"
             room  == IF taken THEN [req[r].room EXCEPT ![d] = @ - 1] ELSE req[r].room
             same  == IF taken THEN [req[r].same EXCEPT ![<<d, Lane[j]>>] = @ - 1]
                               ELSE req[r].same
             todo  == PlaceableJobs(req[r].todo \ {j}, room, same)
             row   == [job[j] EXCEPT !.status = "assigned", !.dev = d, !.lease = now + ASSIGNMENT]
             q     == [req[r] EXCEPT !.room = room, !.same = same, !.todo = todo]
  <1>2. /\ req[r] \in Request /\ req[r].at <= now /\ req[r].pc = "place" /\ TypeOK
        /\ now' \in Nat /\ now' = now /\ UNCHANGED told /\ now \in Nat
    BY DEF IInv, TypeOK, RequestsOK, RequestOK, Place
  <1>3. j \in Jobs /\ job[j] \in Row
    BY <1>2 DEF Request, TypeOK
  <1>4. d \in Devices /\ req[r].room[d] > 0 /\ req[r].same[<<d, Lane[j]>>] > 0
    BY DEF Takers
  <1>5. RowsStep(NoJob)
    <2>1. CASE taken
      <3>1. job' = [job EXCEPT ![j] = row]
        BY <1>1, <1>2, <1>3, <2>1 DEF TypeOK, PlaceOn
      <3>2. now + ASSIGNMENT \in Nat /\ now + ASSIGNMENT \in Int
        BY <1>2, FamilyAssumption
      <3>3. /\ row \in Row /\ row.status = "assigned" /\ row.dev = d /\ row.lease = now + ASSIGNMENT
            /\ row.created = job[j].created /\ row.via = job[j].via
            /\ row.kept = job[j].kept
        BY <1>3, <1>4, <3>2 DEF Row, Open, Held
      <3> HIDE DEF row
      <3>4. HolderOK(row) /\ Moves(j, row)
        BY <1>3, <1>4, <2>1, <3>2, <3>3, HeldOK DEF Open, Held
      <3> QED BY <1>2, <1>3, <2>1, <3>1, <3>3, <3>4, OneRow, FamilyAssumption
    <2>2. CASE ~taken
      BY <1>1, <1>2, <2>2, NoRow DEF PlaceOn
    <2> QED BY <2>1, <2>2
  <1>6. CASE EndPass(r)
    <2>1. req' \in [Requests -> Request] /\ RequestsOK'
      BY <1>2, <1>5, <1>6, EndPassOK, QuietRequest DEF Admitting, Holding
    <2> QED BY <1>2, <1>5, <2>1, ToldSame, StepOK
  <1>7. CASE req' = [req EXCEPT ![r] = q]
    <2>1. room \in [Devices -> Nat]
      BY <1>2, <1>4 DEF Request
    <2>2. same \in [Devices \X Lanes -> Nat]
      <3>1. <<d, Lane[j]>> \in Devices \X Lanes
        BY <1>3, <1>4 DEF Lanes
      <3>2. req[r].same \in [Devices \X Lanes -> Nat]
        BY <1>2 DEF Request
      <3> QED BY <1>4, <3>1, <3>2, OneLess
    <2>3. todo \in SUBSET Jobs
      BY <1>2 DEF PlaceableJobs, Request
    <2> HIDE DEF room, same, todo
    <2>4. q \in Request /\ q.pc = "place" /\ q.job = req[r].job /\ q.at <= now
      BY <1>2, <2>1, <2>2, <2>3 DEF Request
    <2> HIDE DEF q
    <2>5. req' \in [Requests -> Request] /\ RequestsOK'
      BY <1>2, <1>5, <1>7, <2>4, QuietRequest DEF Admitting, Holding
    <2> QED BY <1>2, <1>5, <2>5, ToldSame, StepOK
  <1> QED BY <1>1, <1>6, <1>7 DEF PlaceOn, Become

-----------------------------------------------------------------------------
(* The device. *)

LEMMA PollStep == ASSUME IInv, NEW r \in Requests, NEW d \in Devices, Poll(r, d) PROVE Step
  <1> DEFINE q == Pass(d)
  <1>1. q \in Request /\ q.pc = "sweep" /\ q.job = NoJob /\ q.at <= now
    BY IdleOK DEF Pass, IInv, TypeOK
  <1>2. req' = [req EXCEPT ![r] = q]
    BY DEF Poll, Arrive, Become
  <1> HIDE DEF q
  <1> QED BY <1>1, <1>2, Quietly DEF Poll, Admitting, Holding

\* A request that goes on to hold a row that exists.
LEMMA NowHolds ==
  ASSUME IInv, NEW r \in Requests, NEW q \in Request, UNCHANGED <<now, job, told>>,
         req' = [req EXCEPT ![r] = q], q.pc \in Holding,
         q.job \in Jobs, job[q.job].status # "absent",
         q.pc = "expire" => now > Deadline(q.job), q.pc # "void", q.at <= now
  PROVE  Step
  <1>1. TypeOK /\ now' \in Nat /\ now' = now /\ RowsStep(NoJob)
    BY NoRow DEF IInv, TypeOK
  <1>2. Deadline(q.job)' = Deadline(q.job)
    BY DEF Deadline
  <1>3. req' \in [Requests -> Request] /\ RequestsOK'
    BY <1>1, <1>2, OneRequest DEF Admitting, Holding
  <1> QED BY <1>1, <1>3, ToldSame, StepOK

LEMMA ClaimStep == ASSUME IInv, NEW r \in Requests, Claim(r) PROVE Step
  <1>1. CASE Become(r, Idle)
    BY <1>1, IdleOK, Quietly DEF Claim, Become, Admitting, Holding, IInv, TypeOK
  <1>2. ASSUME NEW j \in HeldOn(req[r].dev),
               Become(r, [req[r] EXCEPT !.pc = "lease", !.job = j,
                            !.attempt = job[j].attempts, !.expires = now + LEASE])
        PROVE  Step
    <2> DEFINE q == [req[r] EXCEPT !.pc = "lease", !.job = j,
                       !.attempt = job[j].attempts, !.expires = now + LEASE]
    <2>1. /\ req[r] \in Request /\ req[r].at <= now /\ j \in Jobs /\ job[j] \in Row
          /\ job[j].status # "absent" /\ now + LEASE \in Nat
      BY FamilyAssumption DEF IInv, TypeOK, RequestsOK, RequestOK, HeldOn, Held
    <2>2. job[j].attempts \in 0 .. 3
      BY <2>1 DEF Row
    <2>3. q \in Request /\ q.pc = "lease" /\ q.job = j /\ q.at <= now
      BY <2>1, <2>2 DEF Request
    <2>4. req' = [req EXCEPT ![r] = q]
      BY <1>2 DEF Become
    <2> HIDE DEF q
    <2> QED BY <2>1, <2>3, <2>4, NowHolds DEF Claim, Holding
  <1> QED BY <1>1, <1>2 DEF Claim

LEMMA LeaseWriteStep == ASSUME IInv, NEW r \in Requests, LeaseWrite(r) PROVE Step
  <1> DEFINE j == req[r].job
             spent   == req[r].attempt >= Limit(j)
             granted == /\ job[j].status = "assigned" /\ ~spent
                        /\ job[j].dev = req[r].dev /\ job[j].attempts < 3
             ended   == [job[j] EXCEPT !.status = "failed"]
             leased  == [job[j] EXCEPT !.status = "leased", !.attempts = @ + 1,
                                       !.lease = req[r].expires]
  <1>1. /\ req[r] \in Request /\ TypeOK /\ now' \in Nat /\ now' = now /\ UNCHANGED told
        /\ j \in Jobs /\ job[j] \in Row /\ HolderOK(job[j]) /\ now \in Nat
    BY DEF IInv, TypeOK, RequestsOK, RequestOK, LeaseWrite, Holding
  <1>2. RowsStep(NoJob)
    <2>1. CASE ~granted /\ ~(spent /\ job[j].status = "assigned")
      <3>1. UNCHANGED job
        BY <1>1, <2>1 DEF LeaseWrite
      <3> QED BY <1>1, <3>1, NoRow
    <2>2. CASE job[j].status = "assigned" /\ spent
      <3>1. job' = [job EXCEPT ![j] = ended]
        BY <1>1, <2>2 DEF LeaseWrite, TypeOK
      <3>2. /\ ended \in Row /\ ended.status = "failed"
            /\ ended.created = job[j].created /\ ended.via = job[j].via
            /\ ended.kept = job[j].kept
        BY <1>1 DEF Row, Terminal
      <3> HIDE DEF ended
      <3>3. HolderOK(ended) /\ Moves(j, ended)
        BY <1>1, <2>2, <3>2, EndedOK
      <3> QED BY <1>1, <2>2, <3>1, <3>2, <3>3, OneRow, FamilyAssumption
    <2>3. CASE granted
      <3>1. job' = [job EXCEPT ![j] = leased]
        BY <1>1, <2>3 DEF LeaseWrite, TypeOK
      <3>2. /\ job[j].attempts + 1 \in 0 .. 3 /\ req[r].expires \in Nat /\ req[r].expires \in Int
            /\ job[j].dev \in Devices
        BY <1>1, <2>3 DEF Row, Request, HolderOK, Held
      <3>3. /\ leased \in Row /\ leased.status = "leased" /\ leased.dev = job[j].dev
            /\ leased.lease = req[r].expires
            /\ leased.created = job[j].created /\ leased.via = job[j].via
            /\ leased.kept = job[j].kept
        BY <1>1, <3>2 DEF Row, Open, Held
      <3> HIDE DEF leased
      <3>4. HolderOK(leased) /\ Moves(j, leased)
        BY <1>1, <2>3, <3>2, <3>3, HeldOK DEF Open, Held
      <3> QED BY <1>1, <2>3, <3>1, <3>3, <3>4, OneRow, FamilyAssumption
    <2> QED BY <2>1, <2>2, <2>3
  <1>3. req' \in [Requests -> Request] /\ RequestsOK'
    <2>1. CASE granted /\ ~job[j].kept
      <3> DEFINE q == [req[r] EXCEPT !.pc = "void"]
      <3>1. req' = [req EXCEPT ![r] = q] /\ job'[j] = leased
        BY <1>1, <2>1 DEF LeaseWrite, Become, TypeOK
      <3>2. job'[j].status = "leased" /\ job'[j].kept = job[j].kept
        BY <1>1, <3>1 DEF Row
      <3>3. q \in Request /\ q.pc = "void" /\ q.job = j /\ q.at <= now
        BY <1>1 DEF Request, IInv, RequestsOK, RequestOK
      <3> HIDE DEF q
      <3> QED BY <1>1, <1>2, <2>1, <3>1, <3>2, <3>3, OneRequest, FamilyAssumption
              DEF Admitting, Holding
    <2>2. CASE ~(granted /\ ~job[j].kept)
      BY <1>1, <1>2, <2>2, IdleOK, QuietRequest DEF LeaseWrite, Become, Admitting, Holding
    <2> QED BY <2>1, <2>2
  <1> QED BY <1>1, <1>2, <1>3, ToldSame, StepOK

LEMMA VoidWriteStep == ASSUME IInv, NEW r \in Requests, VoidWrite(r) PROVE Step
  <1> DEFINE j == req[r].job
             ended == [job[j] EXCEPT !.status = "failed"]
  <1>1. /\ req[r] \in Request /\ TypeOK /\ now' \in Nat /\ now' = now /\ UNCHANGED told
        /\ j \in Jobs /\ job[j] \in Row /\ now \in Nat
        /\ req[r].pc = "void" /\ ~job[j].kept
    BY DEF IInv, TypeOK, RequestsOK, RequestOK, VoidWrite, Holding
  <1>2. req' = [req EXCEPT ![r] = Idle] /\ req'[r] # req[r]
    BY <1>1, IdleOK DEF VoidWrite, Become, TypeOK
  <1>3. RowsStep(NoJob)
    <2>1. CASE ~(job[j].status = "leased" /\ job[j].dev = req[r].dev)
      BY <1>1, <2>1, NoRow DEF VoidWrite
    <2>2. CASE job[j].status = "leased" /\ job[j].dev = req[r].dev
      <3>1. job' = [job EXCEPT ![j] = ended]
        BY <1>1, <2>2 DEF VoidWrite, TypeOK
      <3>2. /\ ended \in Row /\ ended.status = "failed"
            /\ ended.created = job[j].created /\ ended.via = job[j].via
            /\ ended.kept = job[j].kept
        BY <1>1 DEF Row, Terminal
      <3> HIDE DEF ended
      <3>3. Reported(j)
        BY <1>1, <1>2, <2>2 DEF Reported
      <3>4. HolderOK(ended) /\ Moves(j, ended)
        BY <1>1, <2>2, <3>2, <3>3, EndedOK
      <3> QED BY <1>1, <2>2, <3>1, <3>2, <3>4, OneRow, FamilyAssumption
    <2> QED BY <2>1, <2>2
  <1>4. req' \in [Requests -> Request] /\ RequestsOK'
    BY <1>1, <1>2, <1>3, IdleOK, QuietRequest DEF Admitting, Holding
  <1> QED BY <1>1, <1>3, <1>4, ToldSame, StepOK

LEMMA ReceiveStep ==
  ASSUME IInv, NEW r \in Requests, NEW d \in Devices, NEW j \in Jobs,
         NEW verdict \in {"success", "failure"}, Receive(r, d, j, verdict)
  PROVE  Step
  <1> DEFINE q == [Idle EXCEPT !.pc = "verify", !.dev = d, !.job = j,
                               !.attempt = job[j].attempts, !.verdict = verdict]
  <1>1. job[j].attempts \in 0 .. 3 /\ job[j].status = "leased" /\ now \in Nat
    BY DEF IInv, TypeOK, Row, Receive
  <1>2. q \in Request /\ q.pc = "verify" /\ q.job = j /\ q.at <= now
    BY <1>1, IdleIs DEF Request
  <1>3. req' = [req EXCEPT ![r] = q]
    BY DEF Receive, Arrive, Become
  <1> HIDE DEF q
  <1> QED BY <1>1, <1>2, <1>3, NowHolds DEF Receive, Holding

LEMMA VerifyStep == ASSUME IInv, NEW r \in Requests, Verify(r) PROVE Step
  <1> DEFINE verdict == IF now > Deadline(req[r].job) \/ ~job[req[r].job].kept
                        THEN "failure" ELSE req[r].verdict
             q == [req[r] EXCEPT !.pc = "settle", !.at = now, !.verdict = verdict]
  <1>1. /\ req[r] \in Request /\ now \in Nat /\ req[r].job \in Jobs
        /\ job[req[r].job].status # "absent"
    BY DEF IInv, TypeOK, RequestsOK, RequestOK, Verify, Holding
  <1>2. verdict \in {"none", "success", "failure"}
    BY <1>1 DEF Request
  <1>3. req' = [req EXCEPT ![r] = q]
    BY DEF Verify, Become
  <1> HIDE DEF verdict
  <1>4. q \in Request /\ q.pc = "settle" /\ q.job = req[r].job /\ q.at = now
    BY <1>1, <1>2 DEF Request
  <1> HIDE DEF q
  <1>5. q.at <= now
    BY <1>1, <1>4
  <1> QED BY <1>1, <1>3, <1>4, <1>5, NowHolds DEF Verify, Holding

LEMMA SettleStep == ASSUME IInv, NEW r \in Requests, Settle(r) PROVE Step
  <1> DEFINE j == req[r].job
             held  == StillHeld(j, req[r].dev, req[r].at)
             retry == req[r].verdict = "failure" /\ req[r].attempt < Limit(j)
             done  == [job[j] EXCEPT !.status = "completed", !.lease = Never]
             status == IF retry THEN "pending" ELSE "failed"
  <1>1. /\ req[r] \in Request /\ TypeOK /\ now' \in Nat /\ now' = now /\ UNCHANGED told
        /\ j \in Jobs /\ job[j] \in Row /\ now \in Nat /\ req[r].pc = "settle"
    BY DEF IInv, TypeOK, RequestsOK, RequestOK, Settle, Holding
  <1>2. \E q \in Request : /\ req' = [req EXCEPT ![r] = q] /\ q.pc \in {"idle", "sweep"}
                           /\ q.job = NoJob /\ q.at <= now
    BY <1>1, IdleOK DEF Settle, Become, Pass
  <1>3. held => Reported(j)
    <2>1. req'[r] # req[r]
      BY <1>1, <1>2 DEF TypeOK
    <2> QED BY <1>1, <2>1 DEF StillHeld, Reported
  <1>4. RowsStep(NoJob)
    <2>1. CASE ~held
      BY <1>1, <2>1, NoRow DEF Settle
    <2>2. CASE held /\ req[r].verdict = "success"
      <3>1. job' = [job EXCEPT ![j] = done]
        BY <1>1, <2>2 DEF Settle, TypeOK
      <3>0. Never \in Int
        BY DEF Never
      <3>2. /\ done \in Row /\ done.status = "completed"
            /\ done.created = job[j].created /\ done.via = job[j].via
            /\ done.kept = job[j].kept
        BY <1>1, <3>0 DEF Row, Terminal
      <3> HIDE DEF done
      <3>3. job[j].status = "leased"
        BY <2>2 DEF StillHeld
      <3>4. HolderOK(done) /\ Moves(j, done)
        BY <1>1, <1>3, <2>2, <3>2, <3>3, EndedOK
      <3> QED BY <1>1, <3>1, <3>2, <3>3, <3>4, OneRow, FamilyAssumption
    <2>3. CASE held /\ req[r].verdict # "success"
      <3>1. job' = [job EXCEPT ![j] = Freed(@, status)]
        BY <1>1, <2>3 DEF Settle
      <3>2. job[j].status \in Open
        BY <2>3 DEF StillHeld, Open, Held
      <3>3. status \in {"pending", "failed"}
        OBVIOUS
      <3> HIDE DEF status
      <3> QED BY <1>1, <1>3, <2>3, <3>1, <3>2, <3>3, RowIsFreed
    <2> QED BY <2>1, <2>2, <2>3
  <1>5. req' \in [Requests -> Request] /\ RequestsOK'
    BY <1>1, <1>2, <1>4, QuietRequest DEF Admitting, Holding
  <1> QED BY <1>1, <1>4, <1>5, ToldSame, StepOK

LEMMA BeatStep ==
  ASSUME IInv, NEW r \in Requests, NEW d \in Devices, NEW j \in Jobs, Beat(r, d, j)
  PROVE  Step
  <1>1. PICK at \in Recent :
          /\ StillHeld(j, d, at) /\ now < Deadline(j)
          /\ Arrive(r, [Idle EXCEPT !.pc = "renew", !.dev = d, !.job = j, !.at = at,
                                    !.expires = Smaller(now + LEASE, Deadline(j) + SLACK)])
    BY DEF Beat
  <1> DEFINE expires == Smaller(now + LEASE, Deadline(j) + SLACK)
             q == [Idle EXCEPT !.pc = "renew", !.dev = d, !.job = j, !.at = at,
                               !.expires = expires]
  <1>2. /\ now \in Nat /\ job[j].status = "leased" /\ at \in Nat /\ at <= now
        /\ job[j].created \in Nat
    BY <1>1 DEF IInv, TypeOK, Row, StillHeld, Recent
  <1>3. expires \in Nat
    BY <1>2, FamilyAssumption DEF Smaller, Deadline
  <1>4. req' = [req EXCEPT ![r] = q]
    BY <1>1 DEF Arrive, Become
  <1> HIDE DEF expires
  <1>5. q \in Request /\ q.pc = "renew" /\ q.job = j /\ q.at <= now
    BY <1>2, <1>3, IdleIs DEF Request
  <1> HIDE DEF q
  <1> QED BY <1>2, <1>4, <1>5, NowHolds DEF Beat, Holding

LEMMA RenewStep == ASSUME IInv, NEW r \in Requests, Renew(r) PROVE Step
  <1> DEFINE j == req[r].job
             row == [job[j] EXCEPT !.lease = req[r].expires]
  <1>1. /\ req[r] \in Request /\ TypeOK /\ now' \in Nat /\ now' = now /\ UNCHANGED told
        /\ j \in Jobs /\ job[j] \in Row /\ HolderOK(job[j]) /\ now \in Nat
    BY DEF IInv, TypeOK, RequestsOK, RequestOK, Renew, Holding
  <1>2. RowsStep(NoJob)
    <2>1. CASE ~StillHeld(j, req[r].dev, req[r].at)
      BY <1>1, <2>1, NoRow DEF Renew
    <2>2. CASE StillHeld(j, req[r].dev, req[r].at)
      <3>1. job' = [job EXCEPT ![j] = row]
        BY <1>1, <2>2 DEF Renew, TypeOK
      <3>2. /\ req[r].expires \in Nat /\ req[r].expires \in Int /\ job[j].status = "leased"
            /\ job[j].dev \in Devices
        BY <1>1, <2>2 DEF Row, Request, HolderOK, StillHeld, Held
      <3>3. /\ row \in Row /\ row.status = "leased" /\ row.dev = job[j].dev
            /\ row.lease = req[r].expires
            /\ row.created = job[j].created /\ row.via = job[j].via
            /\ row.kept = job[j].kept
        BY <1>1, <3>2 DEF Row
      <3> HIDE DEF row
      <3>4. HolderOK(row) /\ Moves(j, row)
        BY <1>1, <3>2, <3>3, HeldOK DEF Open, Held
      <3> QED BY <1>1, <3>1, <3>2, <3>3, <3>4, OneRow, FamilyAssumption
    <2> QED BY <2>1, <2>2
  <1>3. req' \in [Requests -> Request] /\ RequestsOK'
    BY <1>1, <1>2, IdleOK, QuietRequest DEF Renew, Become, Admitting, Holding
  <1> QED BY <1>1, <1>2, <1>3, ToldSame, StepOK

-----------------------------------------------------------------------------
(* The console, the clock and crashes. *)

LEMMA ReadStatusStep ==
  ASSUME IInv, NEW r \in Requests, NEW j \in Jobs, ReadStatus(r, j) PROVE Step
  <1>1. TypeOK /\ now' \in Nat /\ now' = now /\ UNCHANGED job /\ RowsStep(NoJob)
    BY NoRow DEF IInv, TypeOK, ReadStatus
  <1>2. CASE job[j].status \in Open /\ now > Deadline(j)
    <2> DEFINE q == [Idle EXCEPT !.pc = "expire", !.job = j]
    <2>1. q \in Request /\ q.pc = "expire" /\ q.job = j /\ q.at <= now
      BY <1>1, IdleIs DEF Request
    <2>2. req' = [req EXCEPT ![r] = q] /\ UNCHANGED told
      BY <1>2 DEF ReadStatus, Arrive, Become
    <2> HIDE DEF q
    <2> QED BY <1>1, <1>2, <2>1, <2>2, NowHolds DEF ReadStatus, Holding
  <1>3. CASE ~(job[j].status \in Open /\ now > Deadline(j))
    <2>1. UNCHANGED req /\ Tell(j, job'[j].status)
      BY <1>1, <1>3 DEF ReadStatus, Tell
    <2>2. told' \in [Jobs -> SUBSET Terminal] /\ ToldIsTrue'
      BY <1>1, <2>1, ToldOne
    <2>3. now <= now'
      BY <1>1
    <2> QED BY <1>1, <2>1, <2>2, <2>3, NoRequest, StepOK
  <1> QED BY <1>2, <1>3

LEMMA ExpireStep == ASSUME IInv, NEW r \in Requests, Expire(r) PROVE Step
  <1> DEFINE j == req[r].job
             q == [req[r] EXCEPT !.pc = "fresh"]
  <1>1. /\ req[r] \in Request /\ TypeOK /\ now' \in Nat /\ now' = now /\ req[r].at <= now
        /\ j \in Jobs /\ job[j] \in Row /\ now \in Nat /\ now > Deadline(j)
        /\ job[j].status # "absent"
    BY DEF IInv, TypeOK, RequestsOK, RequestOK, Expire, Holding
  <1>2. CASE job[j].status \in Open
    <2>1. ~(now <= Deadline(j))
      <3>1. Deadline(j) \in Int
        BY <1>1, FamilyAssumption DEF Row, Deadline
      <3> QED BY <1>1, <3>1
    <2>2. job' = [job EXCEPT ![j] = Freed(@, "failed")]
      BY <1>2 DEF Expire
    <2>3. RowsStep(NoJob) /\ job'[j].status = "failed"
      BY <1>1, <1>2, <2>1, <2>2, RowIsFreed
    <2>4. told' \in [Jobs -> SUBSET Terminal] /\ ToldIsTrue'
      BY <1>1, <1>2, <2>3, ToldOne DEF Expire, Tell
    <2>5. req' \in [Requests -> Request] /\ RequestsOK'
      BY <1>1, <1>2, <2>3, IdleOK, QuietRequest DEF Expire, Become, Admitting, Holding
    <2> QED BY <1>1, <2>3, <2>4, <2>5, StepOK
  <1>3. CASE job[j].status \notin Open
    <2>1. UNCHANGED <<now, job, told>> /\ req' = [req EXCEPT ![r] = q]
      BY <1>3 DEF Expire, Become
    <2>2. q \in Request /\ q.pc = "fresh" /\ q.job = j /\ q.at <= now
      BY <1>1 DEF Request
    <2> HIDE DEF q
    <2> QED BY <1>1, <2>1, <2>2, NowHolds DEF Holding
  <1> QED BY <1>2, <1>3

LEMMA ReadFreshStep == ASSUME IInv, NEW r \in Requests, ReadFresh(r) PROVE Step
  <1> DEFINE j == req[r].job
  <1>1. /\ TypeOK /\ now' \in Nat /\ now' = now /\ j \in Jobs /\ now \in Nat
        /\ UNCHANGED job
    BY DEF IInv, TypeOK, RequestsOK, RequestOK, ReadFresh, Holding
  <1>2. RowsStep(NoJob)
    BY <1>1, NoRow
  <1>3. told' \in [Jobs -> SUBSET Terminal] /\ ToldIsTrue'
    BY <1>1, <1>2, ToldOne DEF ReadFresh, Tell
  <1>4. req' \in [Requests -> Request] /\ RequestsOK'
    BY <1>1, <1>2, IdleOK, QuietRequest DEF ReadFresh, Become, Admitting, Holding
  <1> QED BY <1>1, <1>2, <1>3, <1>4, StepOK

LEMMA TickStep == ASSUME IInv, Tick PROVE Step
  <1>1. TypeOK /\ now' \in Nat /\ now <= now' /\ RowsStep(NoJob)
    BY NoRow DEF IInv, TypeOK, Tick
  <1> QED BY <1>1, NoRequest, ToldSame, StepOK DEF Tick

LEMMA CrashStep == ASSUME IInv, NEW r \in Requests, Crash(r) PROVE Step
  BY IdleOK, Quietly DEF Crash, Become, Admitting, Holding, IInv, TypeOK

LEMMA StutterStep == ASSUME IInv, UNCHANGED vars PROVE Step
  <1>1. TypeOK /\ now' \in Nat /\ now <= now' /\ RowsStep(NoJob)
    BY NoRow DEF IInv, TypeOK, vars
  <1> QED BY <1>1, NoRequest, ToldSame, StepOK DEF vars

LEMMA InitIInv == Init => IInv
  <1> SUFFICES ASSUME Init PROVE IInv
    OBVIOUS
  <1>1. Idle \in Request /\ now \in Nat /\ now = 0
    BY IdleOK DEF Init
  <1>2. TypeOK
    <2> DEFINE row == [status |-> "absent", via |-> "dispatch", dev |-> NoDevice,
                       attempts |-> 0, created |-> 0, lease |-> Never, kept |-> TRUE]
    <2>1. row \in Row /\ HolderOK(row)
      BY DEF Row, HolderOK, Held, Never
    <2>2. job = [j \in Jobs |-> row]
      BY DEF Init
    <2> HIDE DEF row
    <2> QED BY <1>1, <2>1, <2>2 DEF Init, TypeOK
  <1>3. ToldIsTrue
    BY DEF Init, ToldIsTrue
  <1>4. ASSUME NEW r \in Requests PROVE RequestOK(r)
    BY <1>1 DEF Init, RequestOK, Idle, Admitting, Holding
  <1> QED BY <1>2, <1>3, <1>4 DEF IInv, RequestsOK

LEMMA NextStep == IInv /\ [Next]_vars => Step
  <1> SUFFICES ASSUME IInv, [Next]_vars PROVE Step
    OBVIOUS
  <1>1. ASSUME NEW r \in Requests, NewRequest(r) PROVE Step
    BY <1>1, DispatchStep, PostStep, ReadStatusStep, PollStep, BeatStep, ReceiveStep
    DEF NewRequest
  <1>2. ASSUME NEW r \in Requests, Continue(r) PROVE Step
    BY <1>2, LookupStep, InsertStep, SweepStep, SweepOneStep, ListLapsedStep, RequeueOneStep,
       CountsStep, ModelsStep, ReadPendingStep, PlaceStep, ClaimStep, LeaseWriteStep,
       VoidWriteStep, VerifyStep, SettleStep, RenewStep, ExpireStep, ReadFreshStep
    DEF Continue
  <1> QED BY <1>1, <1>2, CrashStep, CancelStep, TickStep, StutterStep DEF Next

\* Every reachable state satisfies IInv.
THEOREM InductiveInvariant == Spec => []IInv
  <1>1. IInv /\ [Next]_vars => IInv'
    BY NextStep DEF Step
  <1> QED BY InitIInv, <1>1, PTL DEF Spec

\* The types, and the agreement of a row's holder and lease with its status.
THEOREM TypeCorrect == Spec => []TypeOK
  <1>1. IInv => TypeOK
    BY DEF IInv
  <1> QED BY <1>1, InductiveInvariant, PTL

\* The console is never told of an end the table does not keep, whatever
\* devices, sweeps and other reads do to the row meanwhile.
THEOREM AnswersAreTrue == Spec => []ToldIsTrue
  <1>1. IInv => ToldIsTrue
    BY DEF IInv
  <1> QED BY <1>1, InductiveInvariant, PTL

\* No writer touches a settled row again.
THEOREM SettledRest == Spec => SettledRowsRest
  <1>1. IInv /\ [Next]_vars =>
          [\A j \in Jobs : job[j].status \in Terminal => job'[j] = job[j]]_vars
    BY NextStep DEF Step, RowsStep, Moves
  <1> QED BY <1>1, InductiveInvariant, PTL DEF Spec, SettledRowsRest

\* A live run within its deadline is ended by its device's result, or by the claim
\* that finds its payload was not kept, alone.
THEOREM RunsProtected == Spec => RunsEndForCause
  <1>1. IInv /\ [Next]_vars =>
          [\A j \in Jobs :
             job[j].status = "leased" /\ job[j].lease >= now /\ now <= Deadline(j)
             /\ job'[j].status # "leased"
               => \E r \in Requests : /\ req[r].pc = "settle" \/ (req[r].pc = "void" /\ ~job[j].kept)
                                      /\ req[r].job = j /\ req[r].dev = job[j].dev
                                      /\ req'[r] # req[r]]_vars
    BY NextStep DEF Step, RowsStep, Moves, Reported
  <1> QED BY <1>1, InductiveInvariant, PTL DEF Spec, RunsEndForCause

Dispatched == {j \in ActiveJobs : job[j].via = "dispatch"}

\* Counting and inserting are one statement, so a step that adds a dispatched
\* job starts below the cap; no other step adds one.
LEMMA CapStep ==
  ASSUME IInv, [Next]_vars, Cardinality(Dispatched) <= GlobalMax
  PROVE  Cardinality(Dispatched') <= GlobalMax
  <1>1. PICK new \in Jobs \cup {NoJob} : RowsStep(new)
    BY NextStep DEF Step
  <1>2. IsFiniteSet(ActiveJobs) /\ IsFiniteSet(Dispatched) /\ Dispatched \subseteq ActiveJobs
    BY FamilyAssumption, FS_Subset DEF ActiveJobs, Dispatched
  <1>3. Cardinality(ActiveJobs) \in Nat /\ Cardinality(Dispatched) \in Nat /\ GlobalMax \in Nat
    BY <1>2, FS_CardinalityType, FamilyAssumption
  <1>4. ASSUME NEW k \in Dispatched', k # new PROVE k \in Dispatched
    <2>1. k \in Jobs /\ job'[k].status \in Open /\ job'[k].via = "dispatch"
      BY DEF Dispatched, ActiveJobs
    <2>2. Moves(k, job'[k]) /\ (job[k].status = "absent" => job'[k] = job[k])
      BY <1>1, <1>4, <2>1 DEF RowsStep
    <2>3. job[k].status \in {"absent"} \cup Open \cup Terminal
      BY <2>1 DEF IInv, TypeOK, Row
    <2> QED BY <2>1, <2>2, <2>3 DEF Moves, Dispatched, ActiveJobs, Open, Held, Terminal
  <1>5. CASE new \notin Dispatched'
    <2>1. Dispatched' \subseteq Dispatched
      BY <1>4, <1>5
    <2>2. Cardinality(Dispatched') <= Cardinality(Dispatched) /\ Cardinality(Dispatched') \in Nat
      BY <1>2, <2>1, FS_Subset, FS_CardinalityType
    <2> QED BY <1>3, <2>2
  <1>6. CASE new \in Dispatched'
    <2>1. Cardinality(ActiveJobs) < GlobalMax
      BY <1>1, <1>6 DEF RowsStep, Dispatched, ActiveJobs
    <2>2. Dispatched' \subseteq ActiveJobs \cup {new}
      BY <1>2, <1>4
    <2>3. /\ IsFiniteSet(ActiveJobs \cup {new})
          /\ Cardinality(ActiveJobs \cup {new}) <= Cardinality(ActiveJobs) + 1
          /\ Cardinality(ActiveJobs \cup {new}) \in Nat
      <3>1. /\ IsFiniteSet(ActiveJobs \cup {new})
            /\ Cardinality(ActiveJobs \cup {new}) = IF new \in ActiveJobs
                                                    THEN Cardinality(ActiveJobs)
                                                    ELSE Cardinality(ActiveJobs) + 1
        BY <1>2, FS_AddElement
      <3>2. CASE new \in ActiveJobs
        BY <1>3, <3>1, <3>2
      <3>3. CASE new \notin ActiveJobs
        BY <1>3, <3>1, <3>3
      <3> QED BY <3>2, <3>3
    <2>4. /\ Cardinality(Dispatched') <= Cardinality(ActiveJobs \cup {new})
          /\ Cardinality(Dispatched') \in Nat
      BY <2>2, <2>3, FS_Subset, FS_CardinalityType
    <2> QED BY <1>3, <2>1, <2>3, <2>4
  <1> QED BY <1>5, <1>6

\* However many requests have counted before any of them inserts, the jobs
\* dispatched and open never exceed the cap.
THEOREM DispatchIsCapped == Spec => []DispatchedWithinCap
  <1>1. Init => Cardinality(Dispatched) <= GlobalMax
    <2>1. Init => Dispatched = {}
      BY DEF Init, Dispatched, ActiveJobs, Open, Held
    <2> QED BY <2>1, FS_EmptySet, FamilyAssumption
  <1>2. IInv /\ [Next]_vars /\ DispatchedWithinCap => DispatchedWithinCap'
    BY CapStep DEF DispatchedWithinCap, Dispatched
  <1>3. Init => DispatchedWithinCap
    BY <1>1 DEF DispatchedWithinCap, Dispatched
  <1> QED BY <1>2, <1>3, InductiveInvariant, PTL DEF Spec

-----------------------------------------------------------------------------
(* How often a row is started.  A run counts as its row's attempt from the    *)
(* lease on, so a sweep or a result that finds a run of the last attempt has  *)
(* read an attempt count that says so, and gives the row up.                  *)

\* A row that is running has been started; one that may be started once and
\* still waits has not been.
StartsOK(k) ==
  /\ job[k].status = "absent" => job[k].attempts = 0
  /\ job[k].status = "leased" => job[k].attempts >= 1
  /\ Limit(k) = 1 => /\ job[k].attempts <= 1
                     /\ job[k].status \in {"pending", "assigned"} => job[k].attempts = 0

\* A request that lists a run, or carries its result, has read its attempt.
RunsSeen(r) ==
  /\ \A t \in req[r].listed : t[2] = "leased" => t[3] >= 1
  /\ req[r].pc \in {"verify", "settle"} => req[r].attempt >= 1

StartInv == /\ \A k \in Jobs : StartsOK(k)
            /\ \A r \in Requests : RunsSeen(r)

\* What a step may do to a row, as far as the queue can see it.
Waits == {"pending", "assigned"}

RowMoves(k) ==
  LET old == job[k]
      new == job'[k]
  IN
  \/ /\ new.status = old.status /\ new.attempts = old.attempts /\ new.via = old.via
     /\ old.status = "leased" => new.dev = old.dev
  \/ old.status = "absent" /\ new.status = "pending" /\ new.attempts = 0
  \/ /\ old.status # "absent" /\ new.via = old.via
     /\ \/ /\ new.attempts = old.attempts
           /\ \/ {old.status, new.status} \subseteq Waits
              \/ old.status = "leased" /\ new.status = "pending" /\ Limit(k) > 1
              \/ old.status = "leased" /\ new.status = "completed"
              \/ old.status \in Open /\ new.status = "failed"
              \/ old.status \in Waits /\ new.status = "cancelled"
        \/ /\ old.status = "assigned" /\ new.status = "leased"
           /\ new.attempts = old.attempts + 1

LEMMA FreedFields ==
  ASSUME NEW row \in Row, NEW status
  PROVE  /\ Freed(row, status).status = status
         /\ Freed(row, status).attempts = row.attempts /\ Freed(row, status).via = row.via
  BY DEF Freed, Row

LEMMA LimitOK == ASSUME TypeOK, NEW k \in Jobs PROVE Limit(k) \in 1 .. 3
  BY FamilyAssumption DEF Limit

\* An open row that is freed: back to waiting only with an attempt left.
LEMMA FreedMoves ==
  ASSUME TypeOK, NEW k \in Jobs, NEW j \in Jobs, NEW status \in {"pending", "failed", "cancelled"},
         job[j].status \in Open,
         status = "pending" => job[j].status = "assigned" \/ Limit(j) > 1,
         status = "cancelled" => job[j].status \in Waits,
         job' = [job EXCEPT ![j] = Freed(@, status)]
  PROVE  RowMoves(k)
  <1>1. CASE k # j
    BY <1>1 DEF TypeOK, RowMoves
  <1>2. CASE k = j
    <2>1. job'[k] = Freed(job[k], status) /\ job[k] \in Row
      BY <1>2 DEF TypeOK
    <2>2. /\ job'[k].status = status /\ job'[k].attempts = job[k].attempts
          /\ job'[k].via = job[k].via
      BY <2>1, FreedFields
    <2> QED BY <1>2, <2>2 DEF RowMoves, Waits, Open, Held
  <1> QED BY <1>1, <1>2

\* A row that comes into being has not been started.
LEMMA CreatedMoves ==
  ASSUME TypeOK, NEW k \in Jobs, NEW j \in Jobs, NEW via, NEW kept, job[j].status = "absent",
         job' = [job EXCEPT ![j] = Created(via, kept)]
  PROVE  RowMoves(k)
  BY DEF TypeOK, RowMoves, Created

LEMMA EveryRowMoves ==
  ASSUME IInv, StartInv, [Next]_vars, NEW k \in Jobs PROVE RowMoves(k)
  <1>0. TypeOK /\ job \in [Jobs -> Row] /\ job[k] \in Row /\ RequestsOK
    BY DEF IInv, TypeOK
  <1>1. CASE job' = job
    BY <1>1 DEF RowMoves
  <1>2. ASSUME NEW r \in Requests, NewRequest(r) PROVE RowMoves(k)
    <2>1. ASSUME NEW j \in Jobs, Post(r, j) PROVE RowMoves(k)
      <3>1. job[j].status = "absent" /\ \E kept : job' = [job EXCEPT ![j] = Created("post", kept)]
        BY <2>1 DEF Post, Fresh
      <3> QED BY <1>0, <3>1, CreatedMoves
    <2>2. ASSUME NEW j \in Jobs, NEW d \in Devices, NEW verdict,
                 Beat(r, d, j) \/ Receive(r, d, j, verdict)
          PROVE  job' = job
      BY <2>2 DEF Beat, Receive
    <2>3. ASSUME NEW d \in Devices, Poll(r, d) PROVE job' = job
      BY <2>3 DEF Poll
    <2>4. ASSUME NEW j \in Jobs, Dispatch(r, j) \/ ReadStatus(r, j) PROVE job' = job
      BY <2>4 DEF Dispatch, ReadStatus
    <2> QED BY <1>1, <1>2, <2>1, <2>2, <2>3, <2>4 DEF NewRequest
  <1>3. ASSUME NEW r \in Requests, Insert(r) PROVE RowMoves(k)
    <2>1. req[r].job \in Jobs /\ job[req[r].job].status = "absent"
      BY <1>0, <1>3 DEF RequestsOK, RequestOK, Insert, Admitting
    <2> QED BY <1>0, <1>1, <1>3, <2>1, CreatedMoves DEF Insert
  <1>4. ASSUME NEW r \in Requests, SweepOne(r) PROVE RowMoves(k)
    <2>1. PICK j \in req[r].todo :
            job' = IF now > Deadline(j) /\ job[j].status \in Open
                   THEN [job EXCEPT ![j] = Freed(@, "failed")]
                   ELSE job
      BY <1>4 DEF SweepOne
    <2>2. j \in Jobs
      BY <1>0 DEF TypeOK, Request
    <2> QED BY <1>0, <1>1, <2>1, <2>2, FreedMoves
  <1>5. ASSUME NEW r \in Requests, RequeueOne(r) PROVE RowMoves(k)
    <2>1. PICK t \in req[r].listed :
            job' = IF StillLapsed(t[1], t[2], req[r].at)
                   THEN [job EXCEPT ![t[1]] =
                           Freed(@, IF t[2] = "leased" /\ t[3] >= Limit(t[1])
                                    THEN "failed" ELSE "pending")]
                   ELSE job
      BY <1>5 DEF RequeueOne
    <2>2. /\ t[1] \in Jobs /\ t[2] \in Held /\ t[3] \in 0 .. 3
          /\ t[2] = "leased" => t[3] >= 1
      BY <1>0 DEF TypeOK, Request, StartInv, RunsSeen
    <2>3. Limit(t[1]) \in 1 .. 3
      BY <1>0, <2>2, LimitOK
    <2>4. CASE ~StillLapsed(t[1], t[2], req[r].at)
      BY <1>1, <2>1, <2>4
    <2>5. CASE StillLapsed(t[1], t[2], req[r].at) /\ t[2] = "leased" /\ t[3] >= Limit(t[1])
      BY <1>0, <2>1, <2>2, <2>5, FreedMoves DEF StillLapsed, Open
    <2>6. CASE StillLapsed(t[1], t[2], req[r].at) /\ ~(t[2] = "leased" /\ t[3] >= Limit(t[1]))
      <3>1. job[t[1]].status \in Open /\ (job[t[1]].status = "assigned" \/ Limit(t[1]) > 1)
        BY <2>2, <2>3, <2>6 DEF StillLapsed, Open, Held
      <3> QED BY <1>0, <2>1, <2>2, <2>6, <3>1, FreedMoves
    <2> QED BY <2>4, <2>5, <2>6
  <1>6. ASSUME NEW r \in Requests, Place(r) PROVE RowMoves(k)
    <2>1. PICK j \in req[r].todo : \E d \in Takers(j, req[r].room, req[r].same) : PlaceOn(r, j, d)
      BY <1>6 DEF Place, PlaceOn
    <2>2. PICK d \in Takers(j, req[r].room, req[r].same) : PlaceOn(r, j, d)
      BY <2>1
    <2>3. CASE job[j].status = "pending"
      <3>1. job' = [job EXCEPT ![j].status = "assigned", ![j].dev = d,
                               ![j].lease = now + ASSIGNMENT]
        BY <2>2, <2>3 DEF PlaceOn
      <3> QED BY <1>0, <2>3, <3>1 DEF RowMoves, Row, Waits
    <2>4. CASE job[j].status # "pending"
      BY <1>1, <2>2, <2>4 DEF PlaceOn
    <2> QED BY <2>3, <2>4
  <1>7. ASSUME NEW r \in Requests, LeaseWrite(r) PROVE RowMoves(k)
    BY <1>0, <1>7 DEF LeaseWrite, RowMoves, Row, Open, Held
  <1>14. ASSUME NEW r \in Requests, VoidWrite(r) PROVE RowMoves(k)
    BY <1>0, <1>14 DEF VoidWrite, RowMoves, Row, Open, Held
  <1>8. ASSUME NEW r \in Requests, Settle(r) PROVE RowMoves(k)
    <2> DEFINE j == req[r].job
               held == StillHeld(j, req[r].dev, req[r].at)
               retry == req[r].verdict = "failure" /\ req[r].attempt < Limit(j)
    <2>1. j \in Jobs /\ req[r] \in Request /\ req[r].attempt >= 1
      BY <1>0, <1>8 DEF RequestsOK, RequestOK, TypeOK, Settle, Holding, StartInv, RunsSeen
    <2>2. CASE ~held
      BY <1>1, <1>8, <2>2 DEF Settle
    <2>3. CASE held /\ req[r].verdict = "success"
      BY <1>0, <1>8, <2>1, <2>3 DEF Settle, StillHeld, RowMoves, Row
    <2>4. CASE held /\ req[r].verdict # "success" /\ retry
      <3>1. job' = [job EXCEPT ![j] = Freed(@, "pending")]
        BY <1>8, <2>4 DEF Settle
      <3>2. job[j].status \in Open /\ Limit(j) > 1
        <4>1. Limit(j) \in 1 .. 3 /\ req[r].attempt \in 0 .. 3
          BY <1>0, <2>1, LimitOK DEF Request
        <4> QED BY <2>1, <2>4, <4>1 DEF StillHeld, Open, Held
      <3> QED BY <1>0, <2>1, <3>1, <3>2, FreedMoves
    <2>5. CASE held /\ req[r].verdict # "success" /\ ~retry
      <3>1. job' = [job EXCEPT ![j] = Freed(@, "failed")]
        BY <1>8, <2>5 DEF Settle
      <3>2. job[j].status \in Open
        BY <2>5 DEF StillHeld, Open, Held
      <3> QED BY <1>0, <2>1, <3>1, <3>2, FreedMoves
    <2> QED BY <2>2, <2>3, <2>4, <2>5
  <1>9. ASSUME NEW r \in Requests, Renew(r) PROVE RowMoves(k)
    BY <1>0, <1>9 DEF Renew, RowMoves, Row
  <1>10. ASSUME NEW r \in Requests, Expire(r) PROVE RowMoves(k)
    <2>1. req[r].job \in Jobs
      BY <1>0, <1>10 DEF RequestsOK, RequestOK, Expire, Holding
    <2> QED BY <1>0, <1>1, <1>10, <2>1, FreedMoves DEF Expire
  <1>11. ASSUME NEW j \in Jobs, Cancel(j) PROVE RowMoves(k)
    BY <1>0, <1>11, FreedMoves DEF Cancel, Open, Held, Waits
  <1>12. ASSUME NEW r \in Requests,
                Lookup(r) \/ Sweep(r) \/ ListLapsed(r) \/ Counts(r) \/ Models(r) \/ ReadPending(r)
                \/ Claim(r) \/ Verify(r) \/ ReadFresh(r) \/ Crash(r)
         PROVE  RowMoves(k)
    BY <1>1, <1>12 DEF Lookup, Sweep, ListLapsed, Counts, Models, ReadPending, Claim, Verify,
                       ReadFresh, Crash
  <1>13. Tick \/ UNCHANGED vars => job' = job
    BY DEF Tick, vars
  <1> QED BY <1>1, <1>2, <1>3, <1>4, <1>5, <1>6, <1>7, <1>8, <1>9, <1>10, <1>11, <1>12, <1>13,
             <1>14 DEF Next, Continue

\* A row keeps its count of starts in order.
LEMMA StartsKept ==
  ASSUME IInv, StartInv, [Next]_vars, NEW k \in Jobs PROVE StartsOK(k)'
  <1>1. RowMoves(k) /\ StartsOK(k)
    BY EveryRowMoves DEF StartInv
  <1>2. /\ job[k].attempts \in Nat /\ Limit(k) \in Nat /\ job[k] \in Row
        /\ job'[k].attempts \in Nat
    BY LimitOK, NextStep DEF IInv, TypeOK, Row, Step
  <1>3. job[k].status # "absent" /\ job'[k].via = job[k].via => Limit(k)' = Limit(k)
    BY DEF Limit
  <1>4. job[k].status = "absent" /\ job'[k].status = "absent" => job'[k].attempts = 0
    BY <1>1 DEF RowMoves, StartsOK, Waits, Open, Held
  <1>5. CASE job[k].status = "absent"
    BY <1>1, <1>5 DEF RowMoves, StartsOK, Waits, Open, Held
  <1>6. CASE job[k].status # "absent"
    <2>1. job'[k].status # "absent" /\ Limit(k)' = Limit(k)
      BY <1>1, <1>2, <1>3, <1>6 DEF RowMoves, Waits, Row
    <2> QED BY <1>1, <1>2, <1>6, <2>1 DEF RowMoves, StartsOK, Waits, Open, Held
  <1> QED BY <1>5, <1>6

\* A request that lists no more than before, and carries a result only with an
\* attempt, keeps what it has seen; the others are untouched.
SeenBecomes(r) ==
  /\ \A s \in Requests \ {r} : req'[s] = req[s]
  /\ req'[r].listed \subseteq req[r].listed
  /\ req'[r].pc \in {"verify", "settle"} => req'[r].attempt >= 1

LEMMA SeenStep ==
  ASSUME StartInv, NEW r \in Requests, SeenBecomes(r), NEW s \in Requests
  PROVE  RunsSeen(s)'
  <1>1. CASE s = r
    BY <1>1 DEF SeenBecomes, StartInv, RunsSeen
  <1>2. CASE s # r
    BY <1>2 DEF SeenBecomes, StartInv, RunsSeen
  <1> QED BY <1>1, <1>2

LEMMA IdleSeen == ASSUME TypeOK PROVE Idle \in Request /\ Idle.listed = {} /\ Idle.pc = "idle"
  <1>1. Idle.listed = {}
    BY DEF Idle
  <1> QED BY <1>1, IdleOK DEF TypeOK

LEMMA SeenEndPass ==
  ASSUME TypeOK, NEW r \in Requests, EndPass(r)
  PROVE  SeenBecomes(r)
  BY IdleSeen DEF EndPass, Become, TypeOK, Request, SeenBecomes

LEMMA SeenKept ==
  ASSUME IInv, StartInv, [Next]_vars, NEW s \in Requests PROVE RunsSeen(s)'
  <1>0. /\ TypeOK /\ req \in [Requests -> Request]
        /\ Idle \in Request /\ Idle.listed = {} /\ Idle.pc = "idle"
    BY IdleSeen DEF IInv, TypeOK
  <1> USE DEF Arrive, Become, Pass
  <1>1. CASE req' = req
    BY <1>1 DEF StartInv, RunsSeen
  <1>2. ASSUME NEW r \in Requests, NEW j \in Jobs, Dispatch(r, j) \/ Post(r, j)
        PROVE  SeenBecomes(r)
    <2>1. CASE Dispatch(r, j)
      <3>1. req' = [req EXCEPT ![r] = [Idle EXCEPT !.pc = "lookup", !.job = j]]
        BY <2>1 DEF Dispatch
      <3> QED BY <1>0, <3>1 DEF Request, SeenBecomes
    <2>2. CASE Post(r, j)
      <3>1. req' = [req EXCEPT ![r] = [Idle EXCEPT !.pc = "sweep", !.dev = NoDevice]]
        BY <2>2 DEF Post
      <3> QED BY <1>0, <3>1 DEF Request, SeenBecomes
    <2> QED BY <1>2, <2>1, <2>2
  <1>3. ASSUME NEW r \in Requests, NEW j \in Jobs, ReadStatus(r, j), req' # req
        PROVE  SeenBecomes(r)
    <2>1. req' = [req EXCEPT ![r] = [Idle EXCEPT !.pc = "expire", !.job = j]]
      BY <1>3 DEF ReadStatus
    <2> QED BY <1>0, <2>1 DEF Request, SeenBecomes
  <1>4. ASSUME NEW r \in Requests, NEW d \in Devices, Poll(r, d) PROVE SeenBecomes(r)
    BY <1>0, <1>4 DEF Poll, Request, SeenBecomes
  <1>5. ASSUME NEW r \in Requests, NEW d \in Devices, NEW j \in Jobs, Beat(r, d, j)
        PROVE  SeenBecomes(r)
    BY <1>0, <1>5 DEF Beat, Request, SeenBecomes
  <1>6. ASSUME NEW r \in Requests, NEW d \in Devices, NEW j \in Jobs,
               NEW verdict \in {"success", "failure"}, Receive(r, d, j, verdict)
        PROVE  SeenBecomes(r)
    <2>1. job[j].attempts >= 1
      BY <1>6 DEF Receive, StartInv, StartsOK
    <2> QED BY <1>0, <1>6, <2>1 DEF Receive, Request, SeenBecomes
  <1>7. ASSUME NEW r \in Requests, ListLapsed(r) PROVE RunsSeen(s)'
    <2>1. PICK at \in Recent :
            LET lapsed == {j \in Jobs : job[j].status \in Held /\ job[j].lease < at}
                listed == {<<j, job[j].status, job[j].attempts>> : j \in lapsed}
            IN  Become(r, IF lapsed = {}
                          THEN [req[r] EXCEPT !.pc = "counts"]
                          ELSE [req[r] EXCEPT !.pc = "requeue", !.at = at, !.listed = listed])
      BY <1>7 DEF ListLapsed
    <2> DEFINE lapsed == {j \in Jobs : job[j].status \in Held /\ job[j].lease < at}
               listed == {<<j, job[j].status, job[j].attempts>> : j \in lapsed}
               q == [req[r] EXCEPT !.pc = "requeue", !.at = at, !.listed = listed]
    <2>2. \A t \in listed : t[2] = "leased" => t[3] >= 1
      BY DEF StartInv, StartsOK
    <2>3. CASE req' = [req EXCEPT ![r] = [req[r] EXCEPT !.pc = "counts"]]
      BY <1>0, <2>3, SeenStep DEF Request, SeenBecomes
    <2>4. CASE req' = [req EXCEPT ![r] = q]
      <3> HIDE DEF listed
      <3>1. q.listed = listed /\ q.pc = "requeue"
        BY <1>0 DEF Request
      <3>2. req'[r] = q /\ (s # r => req'[s] = req[s])
        BY <1>0, <2>4
      <3> HIDE DEF q
      <3> QED BY <2>2, <3>1, <3>2 DEF StartInv, RunsSeen
    <2> QED BY <2>1, <2>3, <2>4
  <1>8. ASSUME NEW r \in Requests, RequeueOne(r) PROVE SeenBecomes(r)
    <2>1. PICK t \in req[r].listed :
            req' = [req EXCEPT ![r] = IF req[r].listed \ {t} = {}
                                      THEN [req[r] EXCEPT !.pc = "counts", !.at = 0, !.listed = {}]
                                      ELSE [req[r] EXCEPT !.listed = req[r].listed \ {t}]]
      BY <1>8 DEF RequeueOne
    <2> DEFINE rest == req[r].listed \ {t}
    <2>2. rest \subseteq req[r].listed
      OBVIOUS
    <2> HIDE DEF rest
    <2>3. req' = [req EXCEPT ![r] = IF rest = {}
                                    THEN [req[r] EXCEPT !.pc = "counts", !.at = 0, !.listed = {}]
                                    ELSE [req[r] EXCEPT !.listed = rest]]
      BY <2>1 DEF rest
    <2> QED BY <1>0, <1>8, <2>2, <2>3 DEF RequeueOne, Request, SeenBecomes
  <1>9. ASSUME NEW r \in Requests, Verify(r) PROVE SeenBecomes(r)
    <2>1. req[r].attempt >= 1
      BY <1>9 DEF Verify, StartInv, RunsSeen
    <2> QED BY <1>0, <1>9, <2>1 DEF Verify, Request, SeenBecomes
  <1>10. ASSUME NEW r \in Requests, Place(r) PROVE SeenBecomes(r)
    <2>1. PICK j \in req[r].todo : \E d \in Takers(j, req[r].room, req[r].same) : PlaceOn(r, j, d)
      BY <1>10 DEF Place, PlaceOn
    <2>2. PICK d \in Takers(j, req[r].room, req[r].same) : PlaceOn(r, j, d)
      BY <2>1
    <2>3. \/ EndPass(r)
          \/ \E room, same, todo :
               req' = [req EXCEPT ![r] = [req[r] EXCEPT !.room = room, !.same = same, !.todo = todo]]
      BY <2>2 DEF PlaceOn
    <2>4. CASE \E room, same, todo :
                 req' = [req EXCEPT ![r] = [req[r] EXCEPT !.room = room, !.same = same, !.todo = todo]]
      BY <1>0, <1>10, <2>4 DEF Place, Request, SeenBecomes
    <2> QED BY <1>0, <2>3, <2>4, SeenEndPass
  <1>11. ASSUME NEW r \in Requests, ReadPending(r) PROVE SeenBecomes(r)
    <2>1. \/ EndPass(r)
          \/ \E todo : req' = [req EXCEPT ![r] = [req[r] EXCEPT !.pc = "place", !.todo = todo]]
      BY <1>11 DEF ReadPending
    <2>2. CASE \E todo : req' = [req EXCEPT ![r] = [req[r] EXCEPT !.pc = "place", !.todo = todo]]
      BY <1>0, <2>2 DEF Request, SeenBecomes
    <2> QED BY <1>0, <2>1, <2>2, SeenEndPass
  <1>12. ASSUME NEW r \in Requests,
                Lookup(r) \/ Insert(r) \/ Sweep(r) \/ SweepOne(r) \/ Expire(r)
         PROVE  SeenBecomes(r)
    <2>1. \/ req' = [req EXCEPT ![r] = Idle]
          \/ req' = [req EXCEPT ![r] = [Idle EXCEPT !.pc = "sweep", !.dev = NoDevice]]
          \/ \E pc \in {"insert", "fresh"} : req' = [req EXCEPT ![r] = [req[r] EXCEPT !.pc = pc]]
          \/ \E todo : req' = [req EXCEPT ![r] = [req[r] EXCEPT !.pc = "sweeping", !.todo = todo]]
          \/ /\ req[r].pc = "sweeping"
             /\ \E todo : req' = [req EXCEPT ![r] = [req[r] EXCEPT !.todo = todo]]
      BY <1>12 DEF Lookup, Insert, Sweep, SweepOne, Expire
    <2>2. CASE req' = [req EXCEPT ![r] = Idle]
      BY <1>0, <2>2 DEF Request, SeenBecomes
    <2>3. CASE req' = [req EXCEPT ![r] = [Idle EXCEPT !.pc = "sweep", !.dev = NoDevice]]
      BY <1>0, <2>3 DEF Request, SeenBecomes
    <2>4. CASE \E pc \in {"insert", "fresh"} : req' = [req EXCEPT ![r] = [req[r] EXCEPT !.pc = pc]]
      BY <1>0, <2>4 DEF Request, SeenBecomes
    <2>5. CASE \E todo : req' = [req EXCEPT ![r] = [req[r] EXCEPT !.pc = "sweeping", !.todo = todo]]
      BY <1>0, <2>5 DEF Request, SeenBecomes
    <2>6. CASE /\ req[r].pc = "sweeping"
               /\ \E todo : req' = [req EXCEPT ![r] = [req[r] EXCEPT !.todo = todo]]
      BY <1>0, <2>6 DEF Request, SeenBecomes
    <2> QED BY <2>1, <2>2, <2>3, <2>4, <2>5, <2>6
  <1>13. ASSUME NEW r \in Requests, Counts(r) \/ Models(r) PROVE SeenBecomes(r)
    <2> DEFINE room == [d \in Devices |-> Less(Concurrency[d], Cardinality(HeldOn(d)))]
               running(t) == {j \in HeldOn(t[1]) : Lane[j] = t[2]}
               same == [t \in Devices \X Lanes |-> Less(ModelMax, Cardinality(running(t)))]
    <2>1. \/ req' = [req EXCEPT ![r] = [req[r] EXCEPT !.pc = "models", !.room = room]]
          \/ req' = [req EXCEPT ![r] = [req[r] EXCEPT !.pc = "jobs", !.same = same]]
      BY <1>13 DEF Counts, Models
    <2> HIDE DEF room, same
    <2>2. CASE req' = [req EXCEPT ![r] = [req[r] EXCEPT !.pc = "models", !.room = room]]
      BY <1>0, <2>2 DEF Request, SeenBecomes
    <2>3. CASE req' = [req EXCEPT ![r] = [req[r] EXCEPT !.pc = "jobs", !.same = same]]
      BY <1>0, <2>3 DEF Request, SeenBecomes
    <2> QED BY <2>1, <2>2, <2>3
  <1>14. ASSUME NEW r \in Requests, Claim(r) PROVE SeenBecomes(r)
    <2>1. CASE req' = [req EXCEPT ![r] = Idle]
      BY <1>0, <2>1 DEF Request, SeenBecomes
    <2>2. CASE \E j \in Jobs :
                 req' = [req EXCEPT ![r] = [req[r] EXCEPT !.pc = "lease", !.job = j,
                                              !.attempt = job[j].attempts,
                                              !.expires = now + LEASE]]
      BY <1>0, <2>2 DEF Request, SeenBecomes
    <2> QED BY <1>14, <2>1, <2>2 DEF Claim, HeldOn
  <1>15. ASSUME NEW r \in Requests,
                LeaseWrite(r) \/ VoidWrite(r) \/ Settle(r) \/ Renew(r) \/ ReadFresh(r) \/ Crash(r)
         PROVE  SeenBecomes(r)
    <2>1. \/ req' = [req EXCEPT ![r] = Idle]
          \/ req' = [req EXCEPT ![r] = [Idle EXCEPT !.pc = "sweep", !.dev = NoDevice]]
          \/ req' = [req EXCEPT ![r] = [req[r] EXCEPT !.pc = "void"]]
      BY <1>15 DEF LeaseWrite, VoidWrite, Settle, Renew, ReadFresh, Crash
    <2>2. CASE req' = [req EXCEPT ![r] = Idle]
      BY <1>0, <2>2 DEF Request, SeenBecomes
    <2>3. CASE req' = [req EXCEPT ![r] = [Idle EXCEPT !.pc = "sweep", !.dev = NoDevice]]
      BY <1>0, <2>3 DEF Request, SeenBecomes
    <2>4. CASE req' = [req EXCEPT ![r] = [req[r] EXCEPT !.pc = "void"]]
      BY <1>0, <2>4 DEF Request, SeenBecomes
    <2> QED BY <2>1, <2>2, <2>3, <2>4
  <1>16. Tick \/ UNCHANGED vars \/ (\E j \in Jobs : Cancel(j)) => req' = req
    BY DEF Tick, Cancel, vars
  <1> QED BY <1>1, <1>2, <1>3, <1>4, <1>5, <1>6, <1>7, <1>8, <1>9, <1>10, <1>11, <1>12, <1>13,
             <1>14, <1>15, <1>16, SeenStep
          DEF Next, NewRequest, Continue

LEMMA InitStarts == Init => StartInv
  BY DEF Init, StartInv, StartsOK, RunsSeen, Limit, Idle

\* Rows and requests agree at all times on what has been started.
THEOREM StartsInOrder == Spec => [](IInv /\ StartInv)
  <1>1. IInv /\ StartInv /\ [Next]_vars => StartInv'
    BY StartsKept, SeenKept DEF StartInv
  <1> QED BY InitStarts, <1>1, InductiveInvariant, PTL DEF Spec

\* A dispatched question is run at most once, however long its claim was stale,
\* whoever swept its row and whichever result came late.
THEOREM DispatchedRunsOnce == Spec => []DispatchedOnce
  <1>1. StartInv => DispatchedOnce
    BY DEF StartInv, StartsOK, Limit, DispatchedOnce
  <1> QED BY <1>1, StartsInOrder, PTL

-----------------------------------------------------------------------------
(* The family rows implement JobQueue. *)

\* The image of a row is an entry of the queue.
LEMMA QueueEntry ==
  ASSUME NEW row \in Row, HolderOK(row)
  PROVE  [phase |-> Phase(row), starts |-> row.attempts,
          runner |-> IF row.status = "leased" THEN row.dev ELSE NoDevice] \in Queue!Entry
  <1>1. row.status = "leased" => row.dev \in Devices
    BY DEF HolderOK, Held, Row
  <1>2. Phase(row) \in {"absent", "waiting", "running", "done", "failed", "cancelled"}
    BY DEF Phase, Row, Open, Held, Terminal
  <1>3. row.attempts \in Nat
    BY DEF Row
  <1> QED BY <1>1, <1>2, <1>3 DEF Queue!Entry, Queue!Phases, Queue!Resting

\* What a row may do is what the queue lets an entry do.
LEMMA EveryEntryMoves ==
  ASSUME IInv, StartInv, IInv', StartInv', [Next]_vars, NEW j \in Jobs
  PROVE  Queue!Move(j) \/ AsQueue'[j] = AsQueue[j]
  <1> DEFINE old == job[j]
             new == job'[j]
             once == j \in {k \in Jobs : MaxAttempts[k] = 1}
  <1>1. /\ AsQueue[j] = [phase |-> Phase(old), starts |-> old.attempts,
                         runner |-> IF old.status = "leased" THEN old.dev ELSE NoDevice]
        /\ AsQueue'[j] = [phase |-> Phase(new), starts |-> new.attempts,
                          runner |-> IF new.status = "leased" THEN new.dev ELSE NoDevice]
    BY DEF AsQueue, Phase
  <1>2. RowMoves(j)
    BY EveryRowMoves
  <1>3. /\ old.attempts \in Nat /\ new.attempts \in Nat
        /\ new.status = "leased" => new.dev \in Devices
        /\ old.status \in {"absent"} \cup Open \cup Terminal
        /\ old.status = "absent" => old.attempts = 0
        /\ once /\ old.status = "assigned" => old.attempts = 0
        /\ once => ~(Limit(j) > 1)
    BY DEF IInv, TypeOK, Row, HolderOK, Held, StartInv, StartsOK, Limit
  <1>4. CASE /\ Phase(old) = Phase(new) /\ new.attempts = old.attempts
             /\ (old.status = "leased") = (new.status = "leased")
             /\ old.status = "leased" => new.dev = old.dev
    BY <1>1, <1>4
  <1>5. CASE old.status = "absent" /\ new.status = "pending" /\ new.attempts = 0
    <2>1. Queue!Submit(j)
      BY <1>1, <1>3, <1>5 DEF Queue!Submit, Queue!Unheld, Phase
    <2> QED BY <2>1 DEF Queue!Move
  <1>6. CASE old.status = "assigned" /\ new.status = "leased" /\ new.attempts = old.attempts + 1
    <2>1. Queue!Start(j, new.dev)
      BY <1>1, <1>3, <1>6 DEF Queue!Start, Phase
    <2> QED BY <1>3, <1>6, <2>1 DEF Queue!Move
  <1>7. CASE /\ old.status = "leased" /\ new.status = "pending" /\ new.attempts = old.attempts
             /\ Limit(j) > 1
    <2>1. Queue!Retry(j)
      BY <1>1, <1>3, <1>7 DEF Queue!Retry, Queue!Unheld, Phase
    <2> QED BY <2>1 DEF Queue!Move
  <1>8. CASE old.status = "leased" /\ new.status = "completed" /\ new.attempts = old.attempts
    <2>1. Queue!Finish(j)
      BY <1>1, <1>8 DEF Queue!Finish, Queue!Unheld, Phase
    <2> QED BY <2>1 DEF Queue!Move
  <1>9. CASE old.status \in Open /\ new.status = "failed" /\ new.attempts = old.attempts
    <2>1. Queue!GiveUp(j)
      BY <1>1, <1>9 DEF Queue!GiveUp, Queue!Unheld, Phase, Open, Held
    <2> QED BY <2>1 DEF Queue!Move
  <1>10. CASE old.status \in Waits /\ new.status = "cancelled" /\ new.attempts = old.attempts
    <2>1. Queue!Cancel(j)
      BY <1>1, <1>10 DEF Queue!Cancel, Queue!Unheld, Phase, Waits
    <2> QED BY <2>1 DEF Queue!Move
  <1>11. \/ /\ new.status = old.status /\ new.attempts = old.attempts
            /\ old.status = "leased" => new.dev = old.dev
         \/ {old.status, new.status} \subseteq Waits /\ new.attempts = old.attempts
         => /\ Phase(old) = Phase(new) /\ new.attempts = old.attempts
            /\ (old.status = "leased") = (new.status = "leased")
            /\ old.status = "leased" => new.dev = old.dev
    BY DEF Phase, Waits
  <1> QED BY <1>2, <1>4, <1>5, <1>6, <1>7, <1>8, <1>9, <1>10, <1>11 DEF RowMoves

LEMMA QueueInit == Init => Queue!Init
  BY DEF Init, Queue!Init, AsQueue, Phase

LEMMA QueueStep ==
  (IInv /\ StartInv) /\ (IInv /\ StartInv)' /\ [Next]_vars => [Queue!Next]_AsQueue
  <1> SUFFICES ASSUME IInv, StartInv, IInv', StartInv', [Next]_vars PROVE Queue!Next
    OBVIOUS
  <1>1. AsQueue' \in [Jobs -> Queue!Entry]
    <2>1. ASSUME NEW j \in Jobs
          PROVE  [phase |-> Phase(job'[j]), starts |-> job'[j].attempts,
                  runner |-> IF job'[j].status = "leased" THEN job'[j].dev ELSE NoDevice]
                   \in Queue!Entry
      <3>1. PICK row \in Row : job'[j] = row /\ HolderOK(row)
        BY DEF IInv, TypeOK, HolderOK
      <3>2. Phase(job'[j]) = Phase(row)
        BY <3>1 DEF Phase
      <3> QED BY <3>1, <3>2, QueueEntry
    <2> QED BY <2>1 DEF AsQueue, Phase
  <1>2. \A j \in Jobs : Queue!Move(j) \/ AsQueue'[j] = AsQueue[j]
    BY EveryEntryMoves
  <1> QED BY <1>1, <1>2 DEF Queue!Next

\* A family row is a job of the queue: it waits, is run by one device at a time,
\* at most once if it allows one attempt, and comes to rest once.
THEOREM FamilyImplementsQueue == Spec => ImplementsJobQueue
  BY QueueInit, QueueStep, StartsInOrder, PTL DEF Spec, Queue!Spec, ImplementsJobQueue
=============================================================================
