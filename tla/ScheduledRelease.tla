--------------------------- MODULE ScheduledRelease ---------------------------
(***************************************************************************)
(* The private ledger of completed books and its joint release on two      *)
(* storefronts.  An administrator registers, schedules and cancels         *)
(* editions; a scheduler run takes the due ones through preparation and    *)
(* activation on both storefronts to the release; a storefront asks        *)
(* before it shows anything.  Every write of the ledger is a compare and   *)
(* swap on the revision, in one batch with its audit row and its outbox    *)
(* row.  Runs may overlap, die between two statements, lose the answer of  *)
(* a storefront, and the approval of a book may be withdrawn at any time.  *)
(* Runs start in a lane that is shut as the repository deploys it: its     *)
(* flag is not set, nor its bindings.                                      *)
(***************************************************************************)
EXTENDS Integers, Sequences, FiniteSets

CONSTANTS
  Editions,
  Runs,          \* scheduler runs that may overlap
  Admins,        \* requests of the release administration
  Askers,        \* visibility requests of the storefronts
  Rank,          \* Rank[e]: the order of edition ids
  Limit,         \* max: editions one run takes
  Horizon,       \* where the clock stops (a bound)
  Faults,        \* crashes, lost answers, withdrawals, cancellations,
                 \* reschedulings and closings of the lane altogether (a bound)
  Overlaps,      \* runs started while another is under way (a bound)
  NoEdition

Channels == {"books", "ekodimall"}

ASSUME ReleaseAssumption ==
  /\ IsFiniteSet(Editions) /\ NoEdition \notin Editions
  /\ Rank \in [Editions -> Nat] /\ \A e, f \in Editions : Rank[e] = Rank[f] => e = f
  /\ Limit \in Nat \ {0} /\ Horizon \in Nat
  /\ Faults \in Nat /\ Overlaps \in Nat

VARIABLES
  now,       \* the clock of all workers
  row,       \* publishing_private_editions
  audit,     \* publishing_release_audit, and the outbox written with it
  approved,  \* approved[e]: the verifier finds signatures, rights and file in order
  lane,      \* the cron's invocation gets as far as the release tick
  staged,    \* staged[c][e]: what storefront c itself holds
  run,       \* scheduler runs
  edit,      \* administration requests
  ask,       \* visibility requests
  spare      \* faults and overlaps left

vars == <<now, row, audit, approved, lane, staged, run, edit, ask, spare>>

Active == {"scheduled", "preparing", "prepared", "activating", "ready_to_release"}
States == Active \cup {"absent", "private_registered", "released", "cancelled"}

Never == 0   \* publishAt: null

Record == [state: States, rev: Nat, publishAt: Nat, prep: SUBSET Channels, act: SUBSET Channels]

Absent == [state |-> "absent", rev |-> 0, publishAt |-> Never, prep |-> {}, act |-> {}]

Run == [pc: {"idle", "next", "verify", "work", "save"}, at: Nat, todo: Seq(Editions),
        ed: Editions \cup {NoEdition}, rec: Record, next: Record]

Edit == [pc: {"idle", "verify", "save"}, ed: Editions \cup {NoEdition}, rec: Record, next: Record]

Ask == [pc: {"idle", "verify", "again", "yes"}, ed: Editions \cup {NoEdition},
        ch: Channels, at: Nat, rev: Nat]

NoRun  == [pc |-> "idle", at |-> 0, todo |-> <<>>, ed |-> NoEdition, rec |-> Absent, next |-> Absent]
NoEdit == [pc |-> "idle", ed |-> NoEdition, rec |-> Absent, next |-> Absent]
NoAsk  == [pc |-> "idle", ed |-> NoEdition, ch |-> "books", at |-> 0, rev |-> 0]

\* The types, and the table's CHECKs: the schedule of an active row is known,
\* and the two receipts agree with the state.
RecordOK(r) ==
  /\ r.state \in Active \cup {"released"} => r.publishAt # Never
  /\ r.state \in {"private_registered", "scheduled"} => r.prep = {} /\ r.act = {}
  /\ r.state = "preparing" => r.prep # Channels /\ r.act = {}
  /\ r.state \in {"prepared", "activating", "ready_to_release", "released"} => r.prep = Channels
  /\ r.state = "activating" => r.act # {} /\ r.act # Channels
  /\ r.state \in {"ready_to_release", "released"} => r.act = Channels

TypeOK ==
  /\ now \in Nat /\ spare \in [faults: Nat, overlaps: Nat]
  /\ row \in [Editions -> Record]
  /\ \A e \in Editions : RecordOK(row[e])
  /\ audit \in [Editions -> Seq(States)]
  /\ approved \in [Editions -> BOOLEAN]
  /\ lane \in BOOLEAN
  /\ staged \in [Channels -> [Editions -> {"none", "prepared", "activated"}]]
  /\ run \in [Runs -> Run]
  /\ edit \in [Admins -> Edit]
  /\ ask \in [Askers -> Ask]

Init ==
  /\ now = 1 /\ spare = [faults |-> Faults, overlaps |-> Overlaps]
  /\ row = [e \in Editions |-> Absent]
  /\ audit = [e \in Editions |-> <<>>]
  /\ approved = [e \in Editions |-> TRUE]
  /\ lane \in BOOLEAN
  /\ staged = [c \in Channels |-> [e \in Editions |-> "none"]]
  /\ run = [t \in Runs |-> NoRun]
  /\ edit = [a \in Admins |-> NoEdit]
  /\ ask = [q \in Askers |-> NoAsk]

Fault == spare.faults > 0 /\ spare' = [spare EXCEPT !.faults = @ - 1]

Overlap == spare.overlaps > 0 /\ spare' = [spare EXCEPT !.overlaps = @ - 1]

-----------------------------------------------------------------------------
(* The ledger: one batch of three statements, rolled back as a whole. *)

\* The UPDATE finds the row the writer read; a registration finds none.
Hits(e, prev) == row[e].rev = prev.rev /\ row[e].state = prev.state

\* The audit row names a revision that holds exactly this record, and that
\* revision has none yet (its primary key).
Auditable(e, stored, next) == stored = next /\ next.rev > Len(audit[e])

\* Mutation: the update does not compare revision and state.
CommittedBlindly(e, prev, next) ==
  /\ row' = [row EXCEPT ![e] = next]
  /\ audit' = [audit EXCEPT ![e] = Append(@, next.state)]

\* Mutation: the batch is not a transaction.
CommittedInPart(e, prev, next) ==
  LET stored == IF Hits(e, prev) THEN next ELSE row[e] IN
  /\ stored = next
  /\ row' = [row EXCEPT ![e] = stored]
  /\ audit' = [audit EXCEPT ![e] = Append(@, next.state)]

Committed(e, prev, next) ==
  LET stored == IF Hits(e, prev) THEN next ELSE row[e] IN
  /\ Auditable(e, stored, next)
  /\ row' = [row EXCEPT ![e] = stored]
  /\ audit' = [audit EXCEPT ![e] = Append(@, next.state)]

Rejected(e, prev, next) ==
  /\ ~ Auditable(e, IF Hits(e, prev) THEN next ELSE row[e], next)
  /\ UNCHANGED <<row, audit>>

Change(rec, patched) == [patched EXCEPT !.rev = rec.rev + 1]

-----------------------------------------------------------------------------
(* Administration: register, schedule, cancel. *)

\* The request reads the edition; the revision the page sends is the one read.
Open(a, e) ==
  /\ edit[a] = NoEdit
  /\ edit' = [edit EXCEPT ![a] = [NoEdit EXCEPT !.pc = "verify", !.ed = e, !.rec = row[e]]]
  /\ UNCHANGED <<now, row, audit, approved, lane, staged, run, ask, spare>>

Propose(a, next) ==
  /\ edit[a].pc = "verify"
  /\ edit' = [edit EXCEPT ![a].pc = "save", ![a].next = Change(edit[a].rec, next)]
  /\ UNCHANGED <<now, row, audit, approved, lane, staged, run, ask>>

Register(a) ==
  /\ edit[a].rec.state = "absent"
  /\ Propose(a, [Absent EXCEPT !.state = "private_registered"])
  /\ UNCHANGED spare

\* Only a private edition, with all approvals, to a time still to come; a
\* second schedule counts as a fault, to bound the revisions.
Schedule(a, when) ==
  LET rec == edit[a].rec IN
  /\ rec.state \in {"private_registered", "scheduled"}
  /\ approved[edit[a].ed]
  /\ when > now
  /\ Propose(a, [rec EXCEPT !.state = "scheduled", !.publishAt = when, !.prep = {}, !.act = {}])
  /\ IF rec.state = "scheduled" THEN Fault ELSE UNCHANGED spare

\* Anything but a released edition, a cancelled one included.
Cancel(a) ==
  LET rec == edit[a].rec IN
  /\ rec.state \notin {"absent", "released"}
  /\ Fault
  /\ Propose(a, [rec EXCEPT !.state = "cancelled", !.publishAt = Never])

SaveEdit(a) ==
  LET s == edit[a] IN
  /\ s.pc = "save"
  /\ Committed(s.ed, s.rec, s.next) \/ Rejected(s.ed, s.rec, s.next)
  /\ edit' = [edit EXCEPT ![a] = NoEdit]
  /\ UNCHANGED <<now, approved, lane, staged, run, ask, spare>>

\* The request is refused, answered without a write, or its worker dies.
Close(a) ==
  /\ edit[a] # NoEdit
  /\ edit' = [edit EXCEPT ![a] = NoEdit]
  /\ UNCHANGED <<now, row, audit, approved, lane, staged, run, ask, spare>>

-----------------------------------------------------------------------------
(* A scheduler run. *)

\* Mutation: a run takes only editions no run has touched.
DueUntouched(at) == {e \in Editions : row[e].state = "scheduled" /\ row[e].publishAt <= at}

Due(at) == {e \in Editions : row[e].state \in Active /\ row[e].publishAt <= at}

Before(e, f) ==
  \/ row[e].publishAt < row[f].publishAt
  \/ row[e].publishAt = row[f].publishAt /\ Rank[e] < Rank[f]

\* The first of the due editions: ORDER BY publish_at_utc, edition_id LIMIT max.
Listings(due) ==
  LET n == IF Cardinality(due) < Limit THEN Cardinality(due) ELSE Limit IN
  {order \in [1 .. n -> due] :
     /\ \A i, k \in 1 .. n : i < k => Before(order[i], order[k])
     /\ \A e \in due, k \in 1 .. n : Before(e, order[k]) => \E i \in 1 .. n : order[i] = e}

Becomes(t, r) == run' = [run EXCEPT ![t] = r]

\* The cron's invocation: PUBLISHING_PRIVATE_RELEASE_ENABLED and
\* privateSchedulerReady, then the editions that are due.
Start(t) ==
  /\ lane
  /\ run[t] = NoRun
  /\ Due(now) # {}
  /\ \E order \in Listings(Due(now)) :
       Becomes(t, [NoRun EXCEPT !.pc = "next", !.at = now, !.todo = order])
  /\ IF \A u \in Runs : run[u] = NoRun THEN UNCHANGED spare ELSE Overlap
  /\ UNCHANGED <<now, row, audit, approved, lane, staged, edit, ask>>

\* The next edition of the list is read again.
Take(t) ==
  LET e == Head(run[t].todo)
      onward == [run[t] EXCEPT !.todo = Tail(@)] IN
  /\ run[t].pc = "next"
  /\ Becomes(t, IF run[t].todo = <<>> THEN NoRun
                ELSE IF row[e].state \in {"absent", "released", "cancelled"} THEN onward
                ELSE [onward EXCEPT !.pc = "verify", !.ed = e, !.rec = row[e]])
  /\ UNCHANGED <<now, row, audit, approved, lane, staged, edit, ask, spare>>

\* An exception ends the work on the edition, not the run.
Dropped(t) == [run[t] EXCEPT !.pc = "next", !.ed = NoEdition, !.rec = Absent, !.next = Absent]

Saving(t, patched) == [run[t] EXCEPT !.pc = "save", !.next = Change(run[t].rec, patched)]

\* Mutation: what was listed as due is taken to be due still.
ApprovedAsListed(t) == approved[run[t].ed] /\ run[t].rec.state \in Active

StillApproved(t) ==
  /\ approved[run[t].ed]
  /\ run[t].rec.state \in Active
  /\ run[t].rec.publishAt <= run[t].at

\* The edition is verified; one not yet prepared is claimed.
Verify(t) ==
  LET rec == run[t].rec IN
  /\ run[t].pc = "verify"
  /\ Becomes(t, IF ~ StillApproved(t) THEN Dropped(t)
                ELSE IF rec.state \in {"scheduled", "preparing"}
                     THEN Saving(t, [rec EXCEPT !.state = "preparing"])
                ELSE [run[t] EXCEPT !.pc = "work"])
  /\ UNCHANGED <<now, row, audit, approved, lane, staged, edit, ask, spare>>

\* The first channel that is still missing in a set of receipts.
Missing(receipts) == IF "books" \notin receipts THEN "books" ELSE "ekodimall"

Prepared(rec) ==
  LET prep == rec.prep \cup {Missing(rec.prep)} IN
  [rec EXCEPT !.prep = prep, !.state = IF prep = Channels THEN "prepared" ELSE "preparing"]

Activated(rec) ==
  LET act == rec.act \cup {Missing(rec.act)} IN
  [rec EXCEPT !.act = act, !.state = IF act = Channels THEN "ready_to_release" ELSE "activating"]

\* The storefront does as it is told and its acknowledgement is verified; or
\* it does not, or its answer is lost or not believed.
Call(t, c, stage, acked) ==
  \/ /\ staged' = [staged EXCEPT ![c][run[t].ed] = stage]
     /\ Becomes(t, acked)
     /\ UNCHANGED spare
  \/ /\ Fault
     /\ \/ UNCHANGED staged
        \/ staged' = [staged EXCEPT ![c][run[t].ed] = stage]
     /\ Becomes(t, Dropped(t))

Prepare(t) ==
  LET rec == run[t].rec
      c   == Missing(rec.prep) IN
  /\ run[t].pc = "work" /\ rec.state = "preparing"
  /\ Call(t, c, IF staged[c][run[t].ed] = "activated" THEN "activated" ELSE "prepared",
          Saving(t, Prepared(rec)))
  /\ UNCHANGED <<now, row, audit, approved, lane, edit, ask>>

\* Mutation: a channel is activated as soon as it is prepared itself.
ActivateEarly(t) ==
  LET rec == run[t].rec
      c   == Missing(rec.act) IN
  /\ run[t].pc = "work"
  /\ \/ rec.state \in {"prepared", "activating"}
     \/ rec.state = "preparing" /\ c \in rec.prep
  /\ Call(t, c, "activated", Saving(t, Activated(rec)))
  /\ UNCHANGED <<now, row, audit, approved, lane, edit, ask>>

Activate(t) ==
  LET rec == run[t].rec IN
  /\ run[t].pc = "work" /\ rec.state \in {"prepared", "activating"}
  /\ Call(t, Missing(rec.act), "activated", Saving(t, Activated(rec)))
  /\ UNCHANGED <<now, row, audit, approved, lane, edit, ask>>

\* Mutation: the approval found at the start of the run is used.
FinalVerifyOnce(t) ==
  LET rec == run[t].rec IN
  /\ run[t].pc = "work" /\ rec.state = "ready_to_release"
  /\ Becomes(t, Saving(t, [rec EXCEPT !.state = "released"]))
  /\ UNCHANGED <<now, row, audit, approved, lane, staged, edit, ask, spare>>

\* The approval is verified once more before the release.
FinalVerify(t) ==
  LET rec == run[t].rec IN
  /\ run[t].pc = "work" /\ rec.state = "ready_to_release"
  /\ Becomes(t, IF StillApproved(t) THEN Saving(t, [rec EXCEPT !.state = "released"])
                ELSE Dropped(t))
  /\ UNCHANGED <<now, row, audit, approved, lane, staged, edit, ask, spare>>

\* A saved edition is worked on further; a released one, or one whose save was
\* refused, ends.
Save(t) ==
  LET s == run[t] IN
  /\ s.pc = "save"
  /\ \/ /\ Committed(s.ed, s.rec, s.next)
        /\ Becomes(t, IF s.next.state = "released" THEN Dropped(t)
                      ELSE [s EXCEPT !.pc = "work", !.rec = s.next, !.next = Absent])
     \/ Rejected(s.ed, s.rec, s.next) /\ Becomes(t, Dropped(t))
  /\ UNCHANGED <<now, approved, lane, staged, edit, ask, spare>>

Die(t) ==
  /\ run[t] # NoRun
  /\ Fault
  /\ Becomes(t, NoRun)
  /\ UNCHANGED <<now, row, audit, approved, lane, staged, edit, ask>>

-----------------------------------------------------------------------------
(* A storefront asks whether it may show an edition. *)

\* Mutation: the storefront's own activation is enough.
ExposableAlone(rec, c, at) ==
  c \in rec.act /\ rec.state \in {"activating", "ready_to_release", "released"} /\ rec.publishAt <= at

Exposable(rec, c, at) ==
  rec.state = "released" /\ c \in rec.prep /\ c \in rec.act /\ rec.publishAt <= at

AskFor(q, e, c) ==
  /\ ask[q] = NoAsk
  /\ Exposable(row[e], c, now)
  /\ ask' = [ask EXCEPT ![q] = [pc |-> "verify", ed |-> e, ch |-> c, at |-> now, rev |-> row[e].rev]]
  /\ UNCHANGED <<now, row, audit, approved, lane, staged, run, edit, spare>>

\* Rights are verified, then the row is read a second time.
Answer(q) ==
  LET s == ask[q] IN
  /\ \/ s.pc = "verify" /\ ask' = [ask EXCEPT ![q] = IF approved[s.ed] THEN [s EXCEPT !.pc = "again"] ELSE NoAsk]
     \/ /\ s.pc = "again"
        /\ ask' = [ask EXCEPT ![q] = IF row[s.ed].rev = s.rev /\ Exposable(row[s.ed], s.ch, s.at)
                                     THEN [s EXCEPT !.pc = "yes"] ELSE NoAsk]
     \/ s.pc = "yes" /\ ask' = [ask EXCEPT ![q] = NoAsk]
  /\ UNCHANGED <<now, row, audit, approved, lane, staged, run, edit, spare>>

-----------------------------------------------------------------------------
\* An approval is withdrawn, or given again.
Withdraw(e) ==
  /\ approved[e] /\ Fault
  /\ approved' = [approved EXCEPT ![e] = FALSE]
  /\ UNCHANGED <<now, row, audit, lane, staged, run, edit, ask>>

Approve(e) ==
  /\ ~ approved[e]
  /\ approved' = [approved EXCEPT ![e] = TRUE]
  /\ UNCHANGED <<now, row, audit, lane, staged, run, edit, ask, spare>>

\* The flag is taken away, a binding is missing, or what the invocation awaits
\* before the tick throws; and all is well again.
CloseLane ==
  /\ lane /\ Fault
  /\ lane' = FALSE
  /\ UNCHANGED <<now, row, audit, approved, staged, run, edit, ask>>

OpenLane ==
  /\ ~ lane
  /\ lane' = TRUE
  /\ UNCHANGED <<now, row, audit, approved, staged, run, edit, ask, spare>>

Tick ==
  /\ now < Horizon
  /\ now' = now + 1
  /\ UNCHANGED <<row, audit, approved, lane, staged, run, edit, ask, spare>>

RunStep(t) ==
  Start(t) \/ Take(t) \/ Verify(t) \/ Prepare(t) \/ Activate(t) \/ FinalVerify(t) \/ Save(t)

EditStep(a) ==
  \/ Register(a) \/ Cancel(a) \/ SaveEdit(a) \/ Close(a)
  \/ \E when \in 1 .. Horizon : Schedule(a, when)

Next ==
  \/ \E t \in Runs : RunStep(t) \/ Die(t)
  \/ \E a \in Admins : EditStep(a) \/ \E e \in Editions : Open(a, e)
  \/ \E q \in Askers : Answer(q) \/ \E e \in Editions, c \in Channels : AskFor(q, e, c)
  \/ \E e \in Editions : Withdraw(e) \/ Approve(e)
  \/ CloseLane \/ OpenLane
  \/ Tick

Spec == Init /\ [][Next]_vars

\* The cron comes every day, starts a run when the lane is open, and every run
\* goes on until it ends or dies; time passes.  That the lane opens is not
\* assumed, nor anything of administrators or storefronts.
Fairness == WF_vars(Tick) /\ \A t \in Runs : WF_vars(RunStep(t))

FairSpec == Spec /\ Fairness

-----------------------------------------------------------------------------
\* The ledger never runs ahead of a storefront: a receipt in the ledger is a
\* stage the storefront has reached, whatever answers were lost; and no
\* storefront is activated before both have prepared (runPrivateScheduleTick).
LedgerBehindStorefronts ==
  /\ \A e \in Editions, c \in Channels :
       /\ c \in row[e].act => staged[c][e] = "activated"
       /\ c \in row[e].prep => staged[c][e] # "none"
  /\ \A e \in Editions, c, d \in Channels : staged[c][e] = "activated" => staged[d][e] # "none"

\* A storefront that is told yes is told so of a book that both storefronts
\* have activated, that is released, and whose time has come
\* (verifyPrivatePublisherRelease, canExposePublicly).
ExposureIsJoint ==
  \A q \in Askers : ask[q].pc = "yes" =>
    LET e == ask[q].ed IN
    /\ row[e].state = "released" /\ row[e].publishAt <= now
    /\ \A c \in Channels : staged[c][e] = "activated"

\* The audit names every revision once, in the order they were made, and the
\* last of them is the state of the edition: no write is lost, repeated or
\* made without its audit row, however many writers race (private-release-atomic-ledger.js).
AuditIsTheHistory ==
  \A e \in Editions :
    /\ Len(audit[e]) = row[e].rev
    /\ row[e].rev > 0 => audit[e][row[e].rev] = row[e].state

\* The state an edition may pass to.
Follows == [
  absent             |-> {"private_registered"},
  private_registered |-> {"scheduled", "cancelled"},
  scheduled          |-> {"scheduled", "preparing", "cancelled"},
  preparing          |-> {"preparing", "prepared", "cancelled"},
  prepared           |-> {"activating", "cancelled"},
  activating         |-> {"ready_to_release", "cancelled"},
  ready_to_release   |-> {"released", "cancelled"},
  released           |-> {},
  cancelled          |-> {"cancelled"}]

\* A cancelled edition is not carried on by a run that read it before, and a
\* released one is not taken back; receipts are never lost.
OneWay ==
  [][\A e \in Editions : row'[e] # row[e] =>
       /\ row'[e].state \in Follows[row[e].state]
       /\ row[e].act \subseteq row'[e].act
       /\ row[e].state # "scheduled" => row[e].prep \subseteq row'[e].prep]_vars

\* A book whose approval is withdrawn for good before both storefronts are
\* activated is never released, although its run verified it before (the second
\* verification of runPrivateScheduleTick).
WithdrawnStaysPrivate ==
  \A e \in Editions :
    [](row[e].state \notin {"ready_to_release", "released"} /\ []~approved[e]
       => []~(row[e].state = "released"))

\* A scheduled edition is released or cancelled in the end, whatever was lost
\* on the way, when the lane stays open and its approval lasts: each run resumes
\* where the last one stopped.  Editions that stay unapproved stay on the list, so there must be
\* fewer of them than one run takes (listDuePrivateEditions).
DueIsReleased ==
  \A e \in Editions :
    <>[](lane /\ approved[e] /\ Cardinality({f \in Editions : ~ approved[f]}) < Limit)
      => (row[e].state \in Active ~> row[e].state \in {"released", "cancelled"})

-----------------------------------------------------------------------------
(* The ledger, the runs and the storefronts as the joint release they stand for. *)

Fate(state) == IF state \in {"released", "cancelled"} THEN state ELSE "open"

Fates   == [e \in Editions |-> Fate(row[e].state)]
DueNow  == {e \in Editions : row[e].publishAt # Never /\ row[e].publishAt <= now}
Allowed == {<<ask[q].ch, ask[q].ed>> : q \in {p \in Askers : ask[p].pc = "yes"}}

Joined == INSTANCE JointRelease WITH
            Books <- Editions, Storefronts <- Channels,
            fate <- Fates, stage <- staged, due <- DueNow, shown <- Allowed

\* Whatever is lost, repeated, rescheduled or raced, a book is released on both
\* storefronts at once, when its time has come, or not at all.
ImplementsJointRelease == Joined!Spec
=============================================================================
