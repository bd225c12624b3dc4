------------------------ MODULE ScheduledRelease_proofs ------------------------
(***************************************************************************)
(* Theorems about ScheduledRelease, for every set of editions, runs and    *)
(* requests and every bound.                                               *)
(*                                                                         *)
(* The inductive invariant IInv says of the ledger that its records are    *)
(* sound, behind the storefronts and audited, and of every process what it *)
(* may believe of the record it read: that it is the record of an earlier  *)
(* revision, or of the present one.  Grows says what a step does to the    *)
(* ledger and the storefronts; OneWay is read off it.                      *)
(***************************************************************************)
EXTENDS ScheduledRelease, FiniteSetTheorems, TLAPS

Stages == {"none", "prepared", "activated"}

\* RecordOK, and what else is so of every record ever written.
Sound(r) ==
  /\ r \in Record /\ RecordOK(r)
  /\ r.state = "prepared" => r.act = {}
  /\ r.state = "absent" => r.prep = {} /\ r.act = {}
  /\ r.state = "cancelled" => r.publishAt = Never

\* The receipts of a record are stages the storefronts have reached.
Behind(e, r) ==
  \A c \in Channels : /\ c \in r.act => staged[c][e] = "activated"
                      /\ c \in r.prep => staged[c][e] # "none"

Joint == \A e \in Editions, c, d \in Channels : staged[c][e] = "activated" => staged[d][e] # "none"

\* A record read earlier.
Known(e, r) ==
  /\ Sound(r) /\ Behind(e, r)
  /\ r.rev <= row[e].rev
  /\ r.rev = row[e].rev => r = row[e]

\* A record that may be saved over another.
Onto(r, next) ==
  /\ Sound(next)
  /\ next.rev = r.rev + 1
  /\ next.state \in Follows[r.state]
  /\ r.act \subseteq next.act
  /\ r.state # "scheduled" => r.prep \subseteq next.prep

RunOK(t) ==
  LET s == run[t] IN
  /\ s.pc \in {"verify", "work", "save"} => s.ed \in Editions /\ Known(s.ed, s.rec)
  /\ s.pc = "save" => Onto(s.rec, s.next) /\ Behind(s.ed, s.next)

EditOK(a) ==
  LET s == edit[a] IN
  /\ s.pc \in {"verify", "save"} => s.ed \in Editions /\ Known(s.ed, s.rec)
  /\ s.pc = "save" => Onto(s.rec, s.next) /\ Behind(s.ed, s.next) /\ s.next.state # "released"

AskOK(q) ==
  LET s == ask[q] IN
  /\ s.pc # "idle" => s.ed \in Editions /\ s.at <= now
  /\ s.pc = "yes" => row[s.ed].state = "released" /\ row[s.ed].publishAt <= s.at

RunsOK  == run \in [Runs -> Run] /\ \A t \in Runs : RunOK(t)
EditsOK == edit \in [Admins -> Edit] /\ \A a \in Admins : EditOK(a)
AsksOK  == ask \in [Askers -> Ask] /\ \A q \in Askers : AskOK(q)

SettingsOK ==
  /\ now \in Nat /\ spare \in [faults: Nat, overlaps: Nat]
  /\ approved \in [Editions -> BOOLEAN] /\ lane \in BOOLEAN

LedgerOK ==
  /\ row \in [Editions -> Record] /\ audit \in [Editions -> Seq(States)]
  /\ staged \in [Channels -> [Editions -> Stages]]
  /\ \A e \in Editions : Sound(row[e]) /\ Behind(e, row[e])
  /\ AuditIsTheHistory
  /\ Joint

IInv == SettingsOK /\ LedgerOK /\ RunsOK /\ EditsOK /\ AsksOK

\* An edition that is not released, and that no run is about to release.
Withheld(e) ==
  /\ row[e].state # "released"
  /\ \A t \in Runs : run[t].pc = "save" /\ run[t].ed = e /\ run[t].next.state = "released"
                       => run[t].rec.rev < row[e].rev

\* What a step may make of the record of e.
Moves(e, new, trail) ==
  \/ new = row[e] /\ trail = audit[e]
  \/ /\ Onto(row[e], new) /\ Behind(e, new)
     /\ trail = Append(audit[e], new.state)
     /\ new.state = "released" => ~ Withheld(e)

\* What a step does to the ledger and the storefronts.
Grows ==
  /\ row' \in [Editions -> Record] /\ audit' \in [Editions -> Seq(States)]
  /\ staged' \in [Channels -> [Editions -> Stages]]
  /\ \A e \in Editions : Moves(e, row'[e], audit'[e])
  /\ \A c \in Channels, e \in Editions :
       /\ staged[c][e] = "activated" => staged'[c][e] = "activated"
       /\ staged[c][e] # "none" => staged'[c][e] # "none"
  /\ Joint'

\* While its approval is missing, an edition that is withheld stays withheld.
Stays == \A e \in Editions : Withheld(e) => approved[e] \/ Withheld(e)'

Step == IInv' /\ Grows /\ Stays

-----------------------------------------------------------------------------
(* The ledger. *)

LEMMA SameLedger == ASSUME IInv, UNCHANGED <<row, audit, staged>> PROVE Grows
  BY DEF IInv, LedgerOK, Grows, Moves, Joint

LEMMA LedgerGrows == ASSUME IInv, Grows PROVE LedgerOK'
  <1>1. ASSUME NEW e \in Editions
        PROVE  /\ Sound(row'[e]) /\ Behind(e, row[e])' /\ Len(audit'[e]) = row'[e].rev
               /\ row'[e].rev > 0 => audit'[e][row'[e].rev] = row'[e].state
    <2>1. /\ Sound(row[e]) /\ Behind(e, row[e]) /\ Len(audit[e]) = row[e].rev
          /\ row[e].rev > 0 => audit[e][row[e].rev] = row[e].state
          /\ audit[e] \in Seq(States) /\ row[e].rev \in Nat
      BY DEF IInv, LedgerOK, AuditIsTheHistory, Record
    <2>2. Moves(e, row'[e], audit'[e])
      BY DEF Grows
    <2>3. Behind(e, row'[e]) => Behind(e, row[e])'
      BY DEF Grows, Behind
    <2>4. CASE row'[e] = row[e] /\ audit'[e] = audit[e]
      BY <2>1, <2>3, <2>4
    <2>5. CASE Onto(row[e], row'[e]) /\ Behind(e, row'[e]) /\ audit'[e] = Append(audit[e], row'[e].state)
      <3>1. row'[e].rev = row[e].rev + 1 /\ Sound(row'[e]) /\ row'[e].state \in States
        BY <2>5 DEF Onto, Sound, Record
      <3> QED BY <2>1, <2>3, <2>5, <3>1
    <2> QED BY <2>2, <2>4, <2>5 DEF Moves
  <1>2. \A e \in Editions : Sound(row[e])' /\ Behind(e, row[e])'
    BY <1>1 DEF Sound, RecordOK
  <1> QED BY <1>1, <1>2 DEF Grows, LedgerOK, AuditIsTheHistory

LEMMA KnownGrows ==
  ASSUME IInv, Grows, NEW e \in Editions, NEW r \in Record, Known(e, r)
  PROVE  /\ Known(e, r)'
         /\ \A next \in Record : Behind(e, next) => Behind(e, next)'
  <1>1. \A next \in Record : Behind(e, next) => Behind(e, next)'
    BY DEF Grows, Behind
  <1>2. r.rev \in Nat /\ row[e].rev \in Nat
    BY DEF IInv, LedgerOK, Record
  <1>3. row'[e] = row[e] \/ row'[e].rev = row[e].rev + 1
    BY DEF Grows, Moves, Onto
  <1>4. Behind(e, r)' /\ Sound(r)'
    BY <1>1 DEF Known, Sound, RecordOK
  <1> QED BY <1>1, <1>2, <1>3, <1>4 DEF Known

\* Of a process a step does not touch, everything stays true.
LEMMA OtherRun ==
  ASSUME IInv, Grows, NEW t \in Runs, run'[t] = run[t] PROVE RunOK(t)'
  <1>1. RunOK(t) /\ run[t] \in Run
    BY DEF IInv, RunsOK
  <1>2. run[t].rec \in Record /\ run[t].next \in Record
    BY <1>1 DEF Run
  <1>3. run[t].pc \in {"verify", "work", "save"} =>
           /\ Known(run[t].ed, run[t].rec)'
           /\ Behind(run[t].ed, run[t].next) => Behind(run[t].ed, run[t].next)'
    BY <1>1, <1>2, KnownGrows DEF RunOK, Known, Behind, Sound, RecordOK
  <1>4. Onto(run[t].rec, run[t].next) => Onto(run[t].rec, run[t].next)'
    BY DEF Onto, Sound, RecordOK
  <1> QED BY <1>1, <1>3, <1>4 DEF RunOK

LEMMA OtherEdit ==
  ASSUME IInv, Grows, NEW a \in Admins, edit'[a] = edit[a] PROVE EditOK(a)'
  <1>1. EditOK(a) /\ edit[a] \in Edit
    BY DEF IInv, EditsOK
  <1>2. edit[a].rec \in Record /\ edit[a].next \in Record
    BY <1>1 DEF Edit
  <1>3. edit[a].pc \in {"verify", "save"} =>
           /\ Known(edit[a].ed, edit[a].rec)'
           /\ Behind(edit[a].ed, edit[a].next) => Behind(edit[a].ed, edit[a].next)'
    BY <1>1, <1>2, KnownGrows DEF EditOK, Known, Behind, Sound, RecordOK
  <1>4. Onto(edit[a].rec, edit[a].next) => Onto(edit[a].rec, edit[a].next)'
    BY DEF Onto, Sound, RecordOK
  <1> QED BY <1>1, <1>3, <1>4 DEF EditOK

\* A released edition stays as it is.
LEMMA OtherAsk ==
  ASSUME IInv, Grows, now' \in Nat, now <= now', NEW q \in Askers, ask'[q] = ask[q]
  PROVE  AskOK(q)'
  <1>1. AskOK(q) /\ ask[q] \in Ask /\ now \in Nat
    BY DEF IInv, AsksOK, SettingsOK
  <1>2. ask[q].pc = "yes" => row'[ask[q].ed] = row[ask[q].ed]
    BY <1>1 DEF AskOK, Grows, Moves, Onto, Follows
  <1> QED BY <1>1, <1>2 DEF AskOK, Ask

LEMMA StayRuns ==
  ASSUME IInv, Grows, NEW t \in Runs, \A u \in Runs \ {t} : run'[u] = run[u],
         run' \in [Runs -> Run],
         run'[t].pc = "save" /\ run'[t].next.state = "released" =>
           approved[run'[t].ed] \/ run'[t] = run[t]
  PROVE  Stays
  <1> SUFFICES ASSUME NEW e \in Editions, Withheld(e), ~ approved[e] PROVE Withheld(e)'
    BY DEF Stays
  <1>1. row'[e].state # "released" /\ (row'[e] = row[e] \/ row'[e].rev = row[e].rev + 1)
    BY DEF Grows, Moves, Onto, Withheld
  <1>2. ASSUME NEW u \in Runs, run'[u].pc = "save", run'[u].ed = e, run'[u].next.state = "released"
        PROVE  run'[u].rec.rev < row'[e].rev
    <2>1. run'[u] = run[u]
      BY <1>2
    <2>2. run[u].rec.rev < row[e].rev
      BY <1>2, <2>1 DEF Withheld
    <2>3. run[u].rec.rev \in Nat /\ row[e].rev \in Nat
      BY DEF IInv, RunsOK, Run, LedgerOK, Record
    <2> QED BY <1>1, <2>1, <2>2, <2>3
  <1> QED BY <1>1, <1>2 DEF Withheld

-----------------------------------------------------------------------------
(* Steps of one process. *)

LEMMA RunMoves ==
  ASSUME IInv, Grows, NEW t \in Runs, NEW r \in Run, run' = [run EXCEPT ![t] = r],
         UNCHANGED <<now, approved, lane, edit, ask>>, spare' \in [faults: Nat, overlaps: Nat],
         RunOK(t)', r.pc = "save" /\ r.next.state = "released" => approved[r.ed]
  PROVE  Step
  <1>1. run' \in [Runs -> Run] /\ run'[t] = r /\ \A u \in Runs \ {t} : run'[u] = run[u]
    BY DEF IInv, RunsOK
  <1>2. RunsOK'
    BY <1>1, OtherRun DEF RunsOK
  <1>3. EditsOK'
    BY OtherEdit DEF IInv, EditsOK
  <1>4. AsksOK' /\ SettingsOK'
    <2>1. now' \in Nat /\ now <= now' /\ SettingsOK'
      BY DEF IInv, SettingsOK
    <2> QED BY <2>1, OtherAsk DEF IInv, AsksOK
  <1> QED BY <1>1, <1>2, <1>3, <1>4, LedgerGrows, StayRuns DEF Step, IInv

LEMMA EditMoves ==
  ASSUME IInv, Grows, NEW a \in Admins, NEW s \in Edit, edit' = [edit EXCEPT ![a] = s],
         UNCHANGED <<now, approved, lane, run, ask>>, spare' \in [faults: Nat, overlaps: Nat],
         EditOK(a)'
  PROVE  Step
  <1>1. edit' \in [Admins -> Edit] /\ edit'[a] = s /\ \A b \in Admins \ {a} : edit'[b] = edit[b]
    BY DEF IInv, EditsOK
  <1>2. EditsOK'
    BY <1>1, OtherEdit DEF EditsOK
  <1>3. RunsOK'
    BY OtherRun DEF IInv, RunsOK
  <1>4. AsksOK' /\ SettingsOK'
    <2>1. now' \in Nat /\ now <= now' /\ SettingsOK'
      BY DEF IInv, SettingsOK
    <2> QED BY <2>1, OtherAsk DEF IInv, AsksOK
  <1>5. Stays
    <2>1. CASE Runs = {}
      BY <2>1 DEF Stays, Withheld, Grows, Moves
    <2>2. ASSUME NEW t \in Runs PROVE Stays
      BY StayRuns DEF IInv, RunsOK
    <2> QED BY <2>1, <2>2
  <1> QED BY <1>2, <1>3, <1>4, <1>5, LedgerGrows DEF Step, IInv

\* A step that touches neither the ledger nor a writer of it.
LEMMA Quietly ==
  ASSUME IInv, UNCHANGED <<row, audit, staged, run, edit>>, SettingsOK', now <= now', AsksOK'
  PROVE  Step
  <1>1. Grows
    BY SameLedger
  <1>2. RunsOK' /\ EditsOK'
    BY <1>1, OtherRun, OtherEdit DEF IInv, RunsOK, EditsOK
  <1>3. Stays
    BY DEF Stays, Withheld
  <1> QED BY <1>1, <1>2, <1>3, LedgerGrows DEF Step, IInv

LEMMA SpareOK ==
  ASSUME IInv, Fault \/ Overlap \/ UNCHANGED spare PROVE spare' \in [faults: Nat, overlaps: Nat]
  BY DEF IInv, SettingsOK, Fault, Overlap

\* The batch writes only over the record that was read.
LEMMA CommitOK ==
  ASSUME IInv, NEW e \in Editions, NEW r \in Record, NEW next \in Record,
         Known(e, r), Onto(r, next), Behind(e, next), UNCHANGED staged,
         Committed(e, r, next), next.state = "released" => ~ Withheld(e)
  PROVE  /\ Grows /\ row'[e] = next /\ Known(e, next)'
         /\ r = row[e]
  <1>1. row[e] \in Record /\ Len(audit[e]) = row[e].rev /\ audit[e] \in Seq(States)
    BY DEF IInv, LedgerOK, AuditIsTheHistory
  <1>2. r.rev \in Nat /\ row[e].rev \in Nat /\ next.rev \in Nat /\ next.rev = r.rev + 1
    BY <1>1 DEF Record, Onto
  <1>3. Hits(e, r)
    <2>1. CASE ~ Hits(e, r)
      BY <1>1, <1>2, <2>1 DEF Committed, Auditable
    <2> QED BY <2>1
  <1>4. r = row[e]
    BY <1>3 DEF Hits, Known
  <1>5. row' = [row EXCEPT ![e] = next] /\ audit' = [audit EXCEPT ![e] = Append(@, next.state)]
    BY <1>3 DEF Committed
  <1>6. /\ row' \in [Editions -> Record] /\ row'[e] = next
        /\ \A f \in Editions \ {e} : row'[f] = row[f]
    BY <1>5 DEF IInv, LedgerOK
  <1>7. /\ audit' \in [Editions -> Seq(States)] /\ audit'[e] = Append(audit[e], next.state)
        /\ \A f \in Editions \ {e} : audit'[f] = audit[f]
    <2>1. Append(audit[e], next.state) \in Seq(States)
      BY <1>1 DEF Record
    <2> QED BY <1>5, <2>1 DEF IInv, LedgerOK
  <1>8. Grows
    <2>1. \A f \in Editions : Moves(f, row'[f], audit'[f])
      BY <1>4, <1>6, <1>7 DEF Moves
    <2> QED BY <1>6, <1>7, <2>1 DEF Grows, IInv, LedgerOK, Joint
  <1>9. Known(e, next)'
    <2>1. Sound(next)' /\ Behind(e, next)'
      BY DEF Onto, Sound, RecordOK, Behind
    <2> QED BY <1>2, <1>6, <2>1 DEF Known
  <1> QED BY <1>4, <1>6, <1>8, <1>9

\* The record to be saved: one revision on.
LEMMA ChangeOK ==
  ASSUME NEW r \in Record, NEW p \in Record
  PROVE  LET next == Change(r, p) IN
         /\ next \in Record /\ next.rev = r.rev + 1 /\ next.state = p.state
         /\ next.publishAt = p.publishAt /\ next.prep = p.prep /\ next.act = p.act
  BY DEF Change, Record

LEMMA Changed ==
  ASSUME NEW r \in Record, NEW p \in Record
  PROVE  \E next \in Record :
           /\ next = Change(r, p) /\ next.rev = r.rev + 1 /\ next.state = p.state
           /\ next.publishAt = p.publishAt /\ next.prep = p.prep /\ next.act = p.act
  <1> DEFINE next == Change(r, p)
  <1>1. /\ next \in Record /\ next.rev = r.rev + 1 /\ next.state = p.state
        /\ next.publishAt = p.publishAt /\ next.prep = p.prep /\ next.act = p.act
    BY ChangeOK
  <1> HIDE DEF next
  <1>2. \E n \in Record : /\ n = next /\ n.rev = r.rev + 1 /\ n.state = p.state
                         /\ n.publishAt = p.publishAt /\ n.prep = p.prep /\ n.act = p.act
    BY <1>1
  <1> QED BY <1>2 DEF next

LEMMA AbsentOK ==
  /\ Absent \in Record /\ Absent.state = "absent" /\ Absent.rev = 0 /\ Absent.publishAt = Never
  /\ Absent.prep = {} /\ Absent.act = {}
  BY DEF Absent, Record, States, Active, Never

LEMMA IdleOK == NoRun \in Run /\ NoEdit \in Edit /\ NoAsk \in Ask
  BY AbsentOK DEF NoRun, NoEdit, NoAsk, Run, Edit, Ask, Channels

-----------------------------------------------------------------------------
(* Administration. *)

\* What an administrator proposes over a record that was read.
LEMMA ProposeOK ==
  ASSUME IInv, NEW a \in Admins, NEW p \in Record, Propose(a, p),
         spare' \in [faults: Nat, overlaps: Nat], p.state # "released",
         Onto(edit[a].rec, Change(edit[a].rec, p)), Behind(edit[a].ed, Change(edit[a].rec, p))
  PROVE  Step
  <1>1. edit[a] \in Edit /\ EditOK(a) /\ edit[a].rec \in Record
    BY DEF IInv, EditsOK, Edit
  <1> DEFINE next == Change(edit[a].rec, p)
             s    == [edit[a] EXCEPT !.pc = "save", !.next = next]
  <1>2. next \in Record /\ next.state # "released"
    BY <1>1, ChangeOK
  <1> HIDE DEF next
  <1>3. s \in Edit
    BY <1>1, <1>2 DEF Edit
  <1>4. edit' = [edit EXCEPT ![a] = s] /\ edit[a].pc = "verify"
    BY DEF Propose, next
  <1>5. Grows
    BY SameLedger DEF Propose
  <1>6. EditOK(a)'
    <2>1. /\ edit'[a].pc = "save" /\ edit'[a].ed = edit[a].ed /\ edit'[a].rec = edit[a].rec
          /\ edit'[a].next = next
      BY <1>1, <1>4 DEF IInv, EditsOK, Edit
    <2>2. edit[a].ed \in Editions /\ Known(edit[a].ed, edit[a].rec)
      BY <1>1, <1>4 DEF EditOK
    <2>3. Known(edit[a].ed, edit[a].rec)'
      BY <1>4, <2>1, <2>2 DEF Propose, Known, Sound, RecordOK, Behind
    <2>4. Onto(edit[a].rec, edit[a].next)' /\ Behind(edit[a].ed, edit[a].next)'
      BY <2>1 DEF Propose, Onto, Sound, RecordOK, Behind, next
    <2> QED BY <1>2, <2>1, <2>2, <2>3, <2>4 DEF EditOK
  <1> QED BY <1>3, <1>4, <1>5, <1>6, EditMoves DEF Propose

LEMMA OpenStep == ASSUME IInv, NEW a \in Admins, NEW e \in Editions, Open(a, e) PROVE Step
  <1> DEFINE s == [NoEdit EXCEPT !.pc = "verify", !.ed = e, !.rec = row[e]]
  <1>1. row[e] \in Record /\ Known(e, row[e]) /\ edit \in [Admins -> Edit]
    BY DEF IInv, LedgerOK, Known, Record, EditsOK
  <1>2. s \in Edit /\ s.pc = "verify" /\ s.ed = e /\ s.rec = row[e]
    <2>1. NoEdit \in Edit
      BY IdleOK
    <2> HIDE DEF NoEdit
    <2> QED BY <1>1, <2>1 DEF Edit
  <1>3. edit' = [edit EXCEPT ![a] = s]
    BY DEF Open
  <1> HIDE DEF s
  <1>4. Grows
    BY SameLedger DEF Open
  <1>5. EditOK(a)'
    <2>1. edit'[a] = s
      BY <1>1, <1>3
    <2>2. Known(e, row[e])'
      BY <1>1 DEF Open, Known, Sound, RecordOK, Behind
    <2> QED BY <1>2, <2>1, <2>2 DEF Open, EditOK, Known, Sound, RecordOK, Behind
  <1>6. spare' \in [faults: Nat, overlaps: Nat]
    BY SpareOK DEF Open
  <1> QED BY <1>2, <1>3, <1>4, <1>5, <1>6, EditMoves DEF Open

LEMMA RegisterStep == ASSUME IInv, NEW a \in Admins, Register(a) PROVE Step
  <1> DEFINE p == [Absent EXCEPT !.state = "private_registered"]
             r == edit[a].rec
  <1>1. r \in Record /\ Known(edit[a].ed, r) /\ r.state = "absent"
    BY DEF IInv, EditsOK, EditOK, Edit, Register, Propose
  <1>2. /\ p \in Record /\ p.state = "private_registered" /\ p.prep = {} /\ p.act = {}
    BY AbsentOK DEF Record, States
  <1> HIDE DEF p
  <1>3. Onto(r, Change(r, p)) /\ Behind(edit[a].ed, Change(r, p))
    <2>1. LET next == Change(r, p) IN
          /\ next \in Record /\ next.rev = r.rev + 1 /\ next.state = "private_registered"
          /\ next.prep = {} /\ next.act = {}
      BY <1>1, <1>2, ChangeOK
    <2>2. r.prep = {} /\ r.act = {}
      BY <1>1 DEF Known, Sound
    <2> QED BY <1>1, <2>1, <2>2 DEF Onto, Sound, RecordOK, Follows, Behind, Active
  <1>4. Propose(a, p) /\ spare' \in [faults: Nat, overlaps: Nat]
    BY SpareOK DEF Register, p
  <1> QED BY <1>2, <1>3, <1>4, ProposeOK

LEMMA ScheduleStep ==
  ASSUME IInv, NEW a \in Admins, NEW when \in 1 .. Horizon, Schedule(a, when) PROVE Step
  <1> DEFINE r == edit[a].rec
             p == [r EXCEPT !.state = "scheduled", !.publishAt = when, !.prep = {}, !.act = {}]
  <1>1. /\ r \in Record /\ Known(edit[a].ed, r) /\ r.state \in {"private_registered", "scheduled"}
        /\ when \in Nat /\ when # Never
    BY ReleaseAssumption DEF IInv, EditsOK, EditOK, Edit, Schedule, Propose, Never
  <1>2. /\ p \in Record /\ p.state = "scheduled" /\ p.publishAt = when /\ p.prep = {} /\ p.act = {}
    BY <1>1 DEF Record, States, Active
  <1> HIDE DEF p
  <1>3. Onto(r, Change(r, p)) /\ Behind(edit[a].ed, Change(r, p))
    <2>1. LET next == Change(r, p) IN
          /\ next \in Record /\ next.rev = r.rev + 1 /\ next.state = "scheduled"
          /\ next.prep = {} /\ next.act = {} /\ next.publishAt = when
      BY <1>1, <1>2, ChangeOK
    <2>2. r.prep = {} /\ r.act = {}
      BY <1>1 DEF Known, Sound, RecordOK
    <2> QED BY <1>1, <2>1, <2>2 DEF Onto, Sound, RecordOK, Follows, Behind, Active
  <1>4. Propose(a, p) /\ spare' \in [faults: Nat, overlaps: Nat]
    BY SpareOK DEF Schedule, p
  <1> QED BY <1>2, <1>3, <1>4, ProposeOK

LEMMA CancelStep == ASSUME IInv, NEW a \in Admins, Cancel(a) PROVE Step
  <1> DEFINE r == edit[a].rec
             p == [r EXCEPT !.state = "cancelled", !.publishAt = Never]
  <1>1. /\ r \in Record /\ Known(edit[a].ed, r) /\ r.state \notin {"absent", "released"}
    BY DEF IInv, EditsOK, EditOK, Edit, Cancel, Propose
  <1>2. /\ p \in Record /\ p.state = "cancelled" /\ p.prep = r.prep /\ p.act = r.act
        /\ p.publishAt = Never
    BY <1>1 DEF Record, States, Active, Never
  <1> HIDE DEF p
  <1>3. Onto(r, Change(r, p)) /\ Behind(edit[a].ed, Change(r, p))
    <2>1. LET next == Change(r, p) IN
          /\ next \in Record /\ next.rev = r.rev + 1 /\ next.state = "cancelled"
          /\ next.prep = r.prep /\ next.act = r.act /\ next.publishAt = Never
      BY <1>1, <1>2, ChangeOK
    <2>2. "cancelled" \in Follows[r.state]
      BY <1>1 DEF Record, States, Active, Follows
    <2> QED BY <1>1, <2>1, <2>2 DEF Onto, Sound, RecordOK, Behind, Active, Known
  <1>4. Propose(a, p) /\ spare' \in [faults: Nat, overlaps: Nat]
    BY SpareOK DEF Cancel, p
  <1> QED BY <1>2, <1>3, <1>4, ProposeOK

\* Whoever saves ends with nothing in hand.
LEMMA EditEnds ==
  ASSUME IInv, Grows, NEW a \in Admins, edit' = [edit EXCEPT ![a] = NoEdit],
         UNCHANGED <<now, approved, lane, run, ask, spare>>
  PROVE  Step
  <1>1. EditOK(a)' /\ NoEdit \in Edit
    BY IdleOK DEF IInv, EditsOK, EditOK, NoEdit
  <1>2. spare' \in [faults: Nat, overlaps: Nat]
    BY SpareOK
  <1> QED BY <1>1, <1>2, EditMoves

LEMMA SaveEditStep == ASSUME IInv, NEW a \in Admins, SaveEdit(a) PROVE Step
  <1> DEFINE s == edit[a]
  <1>1. /\ s.ed \in Editions /\ s.rec \in Record /\ s.next \in Record /\ Known(s.ed, s.rec)
        /\ Onto(s.rec, s.next) /\ Behind(s.ed, s.next) /\ s.next.state # "released"
    BY DEF IInv, EditsOK, EditOK, Edit, SaveEdit
  <1>2. Grows
    <2>1. CASE Committed(s.ed, s.rec, s.next)
      BY <1>1, <2>1, CommitOK DEF SaveEdit
    <2>2. CASE Rejected(s.ed, s.rec, s.next)
      BY <2>2, SameLedger DEF SaveEdit, Rejected
    <2> QED BY <2>1, <2>2 DEF SaveEdit
  <1> QED BY <1>2, EditEnds DEF SaveEdit

LEMMA CloseStep == ASSUME IInv, NEW a \in Admins, Close(a) PROVE Step
  BY SameLedger, EditEnds DEF Close

-----------------------------------------------------------------------------
(* Scheduler runs. *)

LEMMA Scanned == ASSUME IInv, NEW t \in Runs PROVE run[t] \in Run /\ RunOK(t) /\ run \in [Runs -> Run]
  BY DEF IInv, RunsOK

\* A run with no edition in hand.
LEMMA RunRests ==
  ASSUME IInv, Grows, NEW t \in Runs, NEW r \in Run, r.pc \in {"idle", "next"},
         run' = [run EXCEPT ![t] = r],
         UNCHANGED <<now, approved, lane, edit, ask>>, Fault \/ Overlap \/ UNCHANGED spare
  PROVE  Step
  <1>1. RunOK(t)'
    BY Scanned DEF RunOK
  <1> QED BY <1>1, SpareOK, RunMoves

LEMMA DroppedOK ==
  ASSUME IInv, NEW t \in Runs
  PROVE  Dropped(t) \in Run /\ Dropped(t).pc = "next"
  <1>1. run[t] \in Run
    BY Scanned
  <1> QED BY <1>1, AbsentOK DEF Dropped, Run

\* A run that goes on with a record it knows.
LEMMA RunGoesOn ==
  ASSUME IInv, Grows, NEW t \in Runs, NEW s \in Run, s.ed \in Editions, Known(s.ed, s.rec)',
         s.pc \in {"verify", "work", "save"},
         s.pc = "save" => /\ Onto(s.rec, s.next) /\ Behind(s.ed, s.next)'
                          /\ s.next.state = "released" => approved[s.ed],
         run' = [run EXCEPT ![t] = s],
         UNCHANGED <<now, approved, lane, edit, ask>>, Fault \/ Overlap \/ UNCHANGED spare
  PROVE  Step
  <1>1. run'[t] = s
    BY Scanned
  <1>2. Onto(s.rec, s.next) => Onto(s.rec, s.next)'
    BY DEF Onto, Sound, RecordOK
  <1>3. RunOK(t)'
    BY <1>1, <1>2 DEF RunOK
  <1> QED BY <1>3, SpareOK, RunMoves

\* A run that is about to save what it made of the record it read.
LEMMA RunSaves ==
  ASSUME IInv, Grows, NEW t \in Runs, NEW e \in Editions, NEW r \in Record, NEW next \in Record,
         run[t].ed = e, run[t].rec = r, Known(e, r), Onto(r, next), Behind(e, next)',
         next.state = "released" => approved[e],
         run' = [run EXCEPT ![t] = [run[t] EXCEPT !.pc = "save", !.next = next]],
         UNCHANGED <<now, approved, lane, edit, ask>>, Fault \/ Overlap \/ UNCHANGED spare
  PROVE  Step
  <1> DEFINE after == [run[t] EXCEPT !.pc = "save", !.next = next]
  <1>0. after \in Run /\ after.pc = "save" /\ after.ed = e /\ after.rec = r /\ after.next = next
    <2>1. run[t] \in Run
      BY Scanned
    <2> QED BY <2>1 DEF Run
  <1>1. PICK s \in Run : s = after /\ s.pc = "save" /\ s.ed = e /\ s.rec = r /\ s.next = next
    <2> HIDE DEF after
    <2> QED BY <1>0
  <1>2. Known(e, r)'
    BY KnownGrows
  <1> QED BY <1>1, <1>2, RunGoesOn

LEMMA StartStep == ASSUME IInv, NEW t \in Runs, Start(t) PROVE Step
  <1>1. PICK order \in Listings(Due(now)) :
          run' = [run EXCEPT ![t] = [NoRun EXCEPT !.pc = "next", !.at = now, !.todo = order]]
    BY DEF Start, Becomes
  <1>2. order \in Seq(Editions)
    <2>1. PICK n \in {Cardinality(Due(now)), Limit} : order \in [1 .. n -> Due(now)]
      BY <1>1 DEF Listings
    <2>2. Cardinality(Due(now)) \in Nat
      BY ReleaseAssumption, FS_Subset, FS_CardinalityType DEF Due
    <2>3. order \in [1 .. n -> Editions] /\ n \in Nat
      BY <2>1, <2>2, ReleaseAssumption DEF Due
    <2> QED BY <2>3
  <1> DEFINE r == [NoRun EXCEPT !.pc = "next", !.at = now, !.todo = order]
  <1>3. r \in Run /\ r.pc = "next"
    <2>1. NoRun \in Run /\ now \in Nat
      BY IdleOK DEF IInv, SettingsOK
    <2> HIDE DEF NoRun
    <2> QED BY <1>2, <2>1 DEF Run
  <1>4. run' = [run EXCEPT ![t] = r]
    BY <1>1
  <1> HIDE DEF r
  <1>5. Grows
    BY SameLedger DEF Start
  <1> QED BY <1>3, <1>4, <1>5, RunRests DEF Start

LEMMA TakeStep == ASSUME IInv, NEW t \in Runs, Take(t) PROVE Step
  <1> DEFINE e == Head(run[t].todo)
             onward == [run[t] EXCEPT !.todo = Tail(@)]
             held   == [onward EXCEPT !.pc = "verify", !.ed = e, !.rec = row[e]]
  <1>1. run[t] \in Run /\ run \in [Runs -> Run] /\ run[t].todo \in Seq(Editions) /\ run[t].pc = "next"
    BY Scanned DEF Run, Take
  <1>2. Grows
    BY SameLedger DEF Take
  <1>3. CASE run' = [run EXCEPT ![t] = NoRun]
    BY <1>2, <1>3, IdleOK, RunRests DEF Take, NoRun
  <1>4. ASSUME run[t].todo # <<>> PROVE onward \in Run /\ onward.pc = "next" /\ e \in Editions
    <2>1. e \in Editions /\ Tail(run[t].todo) \in Seq(Editions)
      BY <1>1, <1>4
    <2> QED BY <1>1, <2>1 DEF Run
  <1>5. CASE run[t].todo # <<>> /\ run' = [run EXCEPT ![t] = onward]
    <2> HIDE DEF onward
    <2> QED BY <1>2, <1>4, <1>5, RunRests DEF Take
  <1>6. CASE run[t].todo # <<>> /\ run' = [run EXCEPT ![t] = held]
    <2>1. PICK f \in Editions, r \in Record : f = e /\ r = row[f] /\ Known(f, r)
      BY <1>4, <1>6 DEF IInv, LedgerOK, Known, Record
    <2>2. held \in Run /\ held.pc = "verify" /\ held.ed = f /\ held.rec = r
      <3> HIDE DEF onward, e
      <3> QED BY <1>4, <1>6, <2>1 DEF Run
    <2>4. PICK s \in Run : s = held /\ s.pc = "verify" /\ s.ed = f /\ s.rec = r
      <3> HIDE DEF held
      <3> QED BY <2>2
    <2>3. Known(f, r)'
      BY <1>2, <2>1, KnownGrows
    <2> HIDE DEF held
    <2> QED BY <1>2, <1>6, <2>3, <2>4, RunGoesOn DEF Take
  <1> QED BY <1>3, <1>5, <1>6 DEF Take, Becomes

LEMMA VerifyStep == ASSUME IInv, NEW t \in Runs, Verify(t) PROVE Step
  <1>1. run[t] \in Run /\ RunOK(t) /\ run[t].pc = "verify"
    BY Scanned DEF Verify
  <1>2. PICK e \in Editions, r \in Record : e = run[t].ed /\ r = run[t].rec /\ Known(e, r)
    BY <1>1 DEF RunOK, Run
  <1>3. Grows
    BY SameLedger DEF Verify
  <1>4. CASE Becomes(t, Dropped(t))
    BY <1>3, <1>4, DroppedOK, RunRests DEF Verify, Becomes
  <1>5. CASE Becomes(t, [run[t] EXCEPT !.pc = "work"])
    <2> DEFINE after == [run[t] EXCEPT !.pc = "work"]
    <2>0. after \in Run /\ after.pc = "work" /\ after.ed = e /\ after.rec = r
      BY <1>1, <1>2 DEF Run
    <2>1. PICK s \in Run : s = after /\ s.pc = "work" /\ s.ed = e /\ s.rec = r
      <3> HIDE DEF after
      <3> QED BY <2>0
    <2>2. Known(e, r)'
      BY <1>2, <1>3, KnownGrows
    <2> QED BY <1>3, <1>5, <2>1, <2>2, RunGoesOn DEF Verify, Becomes
  <1>6. CASE r.state \in {"scheduled", "preparing"} /\ Becomes(t, Saving(t, [r EXCEPT !.state = "preparing"]))
    <2> DEFINE p == [r EXCEPT !.state = "preparing"]
    <2>1. /\ p \in Record /\ p.state = "preparing" /\ p.publishAt = r.publishAt
          /\ p.prep = r.prep /\ p.act = r.act
      BY <1>2 DEF Record, States, Active
    <2> HIDE DEF p
    <2>2. PICK next \in Record :
            /\ next = Change(r, p) /\ next.rev = r.rev + 1 /\ next.state = "preparing"
            /\ next.publishAt = r.publishAt /\ next.prep = r.prep /\ next.act = r.act
      BY <2>1, Changed
    <2>3. Onto(r, next) /\ Behind(e, next)
      BY <1>2, <1>6, <2>2 DEF Onto, Sound, RecordOK, Follows, Behind, Known, Active, Channels
    <2>4. Behind(e, next)'
      BY <2>3 DEF Verify, Behind
    <2>5. run' = [run EXCEPT ![t] = [run[t] EXCEPT !.pc = "save", !.next = next]]
      BY <1>2, <1>6, <2>2 DEF Becomes, Saving, p
    <2> QED BY <1>2, <1>3, <2>2, <2>3, <2>4, <2>5, RunSaves DEF Verify
  <1> QED BY <1>2, <1>4, <1>5, <1>6 DEF Verify

\* A storefront is told to go on, and no storefront is activated alone.
LEMMA StagedGrows ==
  ASSUME IInv, UNCHANGED <<row, audit>>, NEW e \in Editions, NEW c \in Channels,
         NEW stage \in {"prepared", "activated"},
         staged[c][e] = "activated" => stage = "activated",
         stage = "activated" => \/ staged[c][e] = "activated"
                                \/ \A d \in Channels : staged[d][e] # "none",
         staged' = [staged EXCEPT ![c][e] = stage]
  PROVE  Grows /\ staged'[c][e] = stage
  <1>1. /\ staged' \in [Channels -> [Editions -> Stages]] /\ staged'[c][e] = stage
        /\ \A d \in Channels, f \in Editions : d # c \/ f # e => staged'[d][f] = staged[d][f]
    BY DEF IInv, LedgerOK, Stages
  <1>2. Joint'
    BY <1>1 DEF IInv, LedgerOK, Joint
  <1>3. \A d \in Channels, f \in Editions :
          /\ staged[d][f] = "activated" => staged'[d][f] = "activated"
          /\ staged[d][f] # "none" => staged'[d][f] # "none"
    BY <1>1
  <1> QED BY <1>1, <1>2, <1>3 DEF Grows, Moves, IInv, LedgerOK

\* The run calls a storefront and saves the receipt, or is dropped.
LEMMA CallStep ==
  ASSUME IInv, NEW t \in Runs, NEW e \in Editions, NEW r \in Record, NEW c \in Channels,
         NEW stage \in {"prepared", "activated"}, NEW next \in Record,
         run[t].ed = e, run[t].rec = r, Known(e, r), Onto(r, next), next.state # "released",
         Behind(e, r) /\ staged'[c][e] = stage => \A d \in Channels :
           /\ d \in next.act => d \in r.act \/ (d = c /\ stage = "activated")
           /\ d \in next.prep => d \in r.prep \/ d = c,
         staged[c][e] = "activated" => stage = "activated",
         stage = "activated" => \/ staged[c][e] = "activated"
                                \/ \A d \in Channels : staged[d][e] # "none",
         Call(t, c, stage, [run[t] EXCEPT !.pc = "save", !.next = next]),
         UNCHANGED <<now, row, audit, approved, lane, edit, ask>>
  PROVE  Step
  <1>1. CASE /\ staged' = [staged EXCEPT ![c][e] = stage]
             /\ run' = [run EXCEPT ![t] = [run[t] EXCEPT !.pc = "save", !.next = next]]
             /\ UNCHANGED spare
    <2>1. Grows /\ staged'[c][e] = stage
      BY <1>1, StagedGrows
    <2>2. Behind(e, next)'
      <3>1. \A d \in Channels : /\ d \in r.act => staged'[d][e] = "activated"
                                /\ d \in r.prep => staged'[d][e] # "none"
        BY <2>1 DEF Known, Behind, Grows
      <3> QED BY <2>1, <3>1 DEF Behind, Known
    <2> QED BY <1>1, <2>1, <2>2, RunSaves
  <1>2. CASE Fault /\ run' = [run EXCEPT ![t] = Dropped(t)]
             /\ (UNCHANGED staged \/ staged' = [staged EXCEPT ![c][e] = stage])
    <2>1. Grows
      BY <1>2, SameLedger, StagedGrows
    <2> QED BY <1>2, <2>1, DroppedOK, RunRests
  <1> QED BY <1>1, <1>2 DEF Call, Becomes

LEMMA InHand ==
  ASSUME IInv, NEW t \in Runs, run[t].pc \in {"verify", "work", "save"}
  PROVE  \E e \in Editions, r \in Record : e = run[t].ed /\ r = run[t].rec /\ Known(e, r)
  BY Scanned DEF RunOK, Run

LEMMA MissingOK ==
  ASSUME NEW set \in SUBSET Channels, set # Channels
  PROVE  Missing(set) \in Channels \ set
  BY DEF Missing, Channels

LEMMA PrepareStep == ASSUME IInv, NEW t \in Runs, Prepare(t) PROVE Step
  <1>1. PICK e \in Editions, r \in Record : e = run[t].ed /\ r = run[t].rec /\ Known(e, r)
    BY InHand DEF Prepare
  <1>2. r.state = "preparing" /\ r.prep \in SUBSET Channels /\ r.prep # Channels /\ r.act = {} /\ r.publishAt # Never
    BY <1>1 DEF Prepare, Known, Sound, RecordOK, Record, Active
  <1>3. PICK c \in Channels : c = Missing(r.prep) /\ c \notin r.prep
    BY <1>2, MissingOK
  <1> DEFINE state == IF r.prep \cup {c} = Channels THEN "prepared" ELSE "preparing"
             p     == [r EXCEPT !.prep = r.prep \cup {c}, !.state = state]
  <1>4. p = Prepared(r)
    BY <1>3 DEF Prepared
  <1>5. state \in {"prepared", "preparing"} /\ (state = "prepared" <=> r.prep \cup {c} = Channels)
    OBVIOUS
  <1>6. /\ p \in Record /\ p.state = state /\ p.publishAt = r.publishAt
        /\ p.prep = r.prep \cup {c} /\ p.act = {}
    <2> HIDE DEF state
    <2> QED BY <1>2, <1>5 DEF Record, States, Active
  <1> HIDE DEF p, state
  <1>7. PICK next \in Record :
          /\ next = Change(r, p) /\ next.rev = r.rev + 1 /\ next.state = state
          /\ next.publishAt = r.publishAt /\ next.prep = r.prep \cup {c} /\ next.act = {}
    BY <1>6, Changed
  <1>8. Onto(r, next) /\ next.state # "released"
    BY <1>2, <1>5, <1>7 DEF Onto, Sound, RecordOK, Follows, Active
  <1>9. PICK stage \in {"prepared", "activated"} :
          stage = IF staged[c][e] = "activated" THEN "activated" ELSE "prepared"
    OBVIOUS
  <1>10. Call(t, c, stage, [run[t] EXCEPT !.pc = "save", !.next = next])
    BY <1>1, <1>3, <1>4, <1>7, <1>9 DEF Prepare, Saving
  <1> QED BY <1>1, <1>7, <1>8, <1>9, <1>10, CallStep DEF Prepare

LEMMA ActivateStep == ASSUME IInv, NEW t \in Runs, Activate(t) PROVE Step
  <1>1. PICK e \in Editions, r \in Record : e = run[t].ed /\ r = run[t].rec /\ Known(e, r)
    BY InHand DEF Activate
  <1>2. /\ r.state \in {"prepared", "activating"} /\ r.prep = Channels /\ r.publishAt # Never
        /\ r.act \in SUBSET Channels /\ r.act # Channels /\ (r.state = "prepared" <=> r.act = {})
    BY <1>1 DEF Activate, Known, Sound, RecordOK, Record, Active, Channels
  <1>3. PICK c \in Channels : c = Missing(r.act) /\ c \notin r.act
    BY <1>2, MissingOK
  <1> DEFINE state == IF r.act \cup {c} = Channels THEN "ready_to_release" ELSE "activating"
             p     == [r EXCEPT !.act = r.act \cup {c}, !.state = state]
  <1>4. p = Activated(r)
    BY <1>3 DEF Activated
  <1>5. /\ state \in {"ready_to_release", "activating"}
        /\ state = "ready_to_release" <=> r.act \cup {c} = Channels
        /\ state = "ready_to_release" <=> r.state = "activating"
    BY <1>2, <1>3 DEF Channels
  <1>6. /\ p \in Record /\ p.state = state /\ p.publishAt = r.publishAt
        /\ p.prep = Channels /\ p.act = r.act \cup {c}
    <2> HIDE DEF state
    <2> QED BY <1>2, <1>5 DEF Record, States, Active
  <1> HIDE DEF p, state
  <1>7. PICK next \in Record :
          /\ next = Change(r, p) /\ next.rev = r.rev + 1 /\ next.state = state
          /\ next.publishAt = r.publishAt /\ next.prep = Channels /\ next.act = r.act \cup {c}
    BY <1>6, Changed
  <1>8. Onto(r, next) /\ next.state # "released"
    <2>1. next.act # {} /\ (next.act = Channels <=> state = "ready_to_release")
      BY <1>3, <1>5, <1>7
    <2>2. Sound(next)
      BY <1>2, <1>5, <1>7, <2>1 DEF Sound, RecordOK, Active
    <2>3. next.state \in Follows[r.state]
      <3>1. CASE r.state = "prepared" /\ next.state = "activating"
        BY <3>1 DEF Follows
      <3>2. CASE r.state = "activating" /\ next.state = "ready_to_release"
        BY <3>2 DEF Follows
      <3> QED BY <1>2, <1>5, <1>7, <3>1, <3>2
    <2> QED BY <1>2, <1>5, <1>7, <2>2, <2>3 DEF Onto
  <1>9. \A d \in Channels : staged[d][e] # "none"
    BY <1>1, <1>2 DEF Known, Behind
  <1>10. PICK stage \in {"prepared", "activated"} : stage = "activated"
    OBVIOUS
  <1>11. Call(t, c, stage, [run[t] EXCEPT !.pc = "save", !.next = next])
    BY <1>1, <1>3, <1>4, <1>7, <1>10 DEF Activate, Saving
  <1> QED BY <1>1, <1>2, <1>7, <1>8, <1>9, <1>10, <1>11, CallStep, ZenonT(60) DEF Activate

LEMMA FinalVerifyStep == ASSUME IInv, NEW t \in Runs, FinalVerify(t) PROVE Step
  <1>1. PICK e \in Editions, r \in Record : e = run[t].ed /\ r = run[t].rec /\ Known(e, r)
    BY InHand DEF FinalVerify
  <1>2. Grows
    BY SameLedger DEF FinalVerify
  <1>3. CASE Becomes(t, Dropped(t))
    BY <1>2, <1>3, DroppedOK, RunRests DEF FinalVerify, Becomes
  <1>4. CASE approved[e] /\ Becomes(t, Saving(t, [r EXCEPT !.state = "released"]))
    <2> DEFINE p == [r EXCEPT !.state = "released"]
    <2>1. /\ p \in Record /\ p.state = "released" /\ p.publishAt = r.publishAt
          /\ p.prep = r.prep /\ p.act = r.act
      BY DEF Record, States
    <2> HIDE DEF p
    <2>2. PICK next \in Record :
            /\ next = Change(r, p) /\ next.rev = r.rev + 1 /\ next.state = "released"
            /\ next.publishAt = r.publishAt /\ next.prep = r.prep /\ next.act = r.act
      BY <2>1, Changed
    <2>3. Onto(r, next) /\ Behind(e, next)
      BY <1>1, <2>2 DEF FinalVerify, Onto, Sound, RecordOK, Follows, Behind, Known, Active
    <2>4. Behind(e, next)'
      BY <2>3 DEF FinalVerify, Behind
    <2>5. run' = [run EXCEPT ![t] = [run[t] EXCEPT !.pc = "save", !.next = next]]
      BY <1>1, <1>4, <2>2 DEF Becomes, Saving, p
    <2> QED BY <1>1, <1>2, <1>4, <2>2, <2>3, <2>4, <2>5, RunSaves DEF FinalVerify
  <1> QED BY <1>1, <1>3, <1>4 DEF FinalVerify, StillApproved

LEMMA SaveStep == ASSUME IInv, NEW t \in Runs, Save(t) PROVE Step
  <1>1. PICK e \in Editions, r \in Record : e = run[t].ed /\ r = run[t].rec /\ Known(e, r)
    BY InHand DEF Save
  <1>2. PICK next \in Record : next = run[t].next /\ Onto(r, next) /\ Behind(e, next)
    BY <1>1, Scanned DEF Save, RunOK, Run
  <1>3. CASE Committed(e, r, next)
    <2>1. next.state = "released" => ~ Withheld(e)
      <3>1. SUFFICES ASSUME next.state = "released", Withheld(e) PROVE FALSE
        OBVIOUS
      <3>2. r.rev < row[e].rev
        BY <1>1, <1>2, <3>1 DEF Withheld, Save
      <3>3. row[e].rev \in Nat /\ r.rev \in Nat /\ next.rev = r.rev + 1 /\ Len(audit[e]) = row[e].rev
        BY <1>2 DEF IInv, LedgerOK, AuditIsTheHistory, Record, Onto
      <3> QED BY <1>3, <3>2, <3>3 DEF Committed, Auditable, Hits
    <2>2. Grows /\ Known(e, next)'
      BY <1>1, <1>2, <1>3, <2>1, CommitOK DEF Save
    <2>3. CASE run' = [run EXCEPT ![t] = Dropped(t)]
      BY <2>2, <2>3, DroppedOK, RunRests DEF Save
    <2>4. CASE run' = [run EXCEPT ![t] = [run[t] EXCEPT !.pc = "work", !.rec = next, !.next = Absent]]
      <3> DEFINE after == [run[t] EXCEPT !.pc = "work", !.rec = next, !.next = Absent]
      <3>1. after \in Run /\ after.pc = "work" /\ after.ed = e /\ after.rec = next
        <4>1. run[t] \in Run /\ Absent \in Record
          BY Scanned, AbsentOK
        <4> QED BY <1>1, <4>1 DEF Run
      <3>2. PICK s \in Run : s = after /\ s.pc = "work" /\ s.ed = e /\ s.rec = next
        <4> HIDE DEF after
        <4> QED BY <3>1
      <3> QED BY <2>2, <2>4, <3>2, RunGoesOn DEF Save
    <2> QED BY <1>2, <2>3, <2>4 DEF Save, Becomes
  <1>4. CASE Rejected(e, r, next)
    <2>1. Grows
      BY <1>4, SameLedger DEF Save, Rejected
    <2>2. CASE run' = [run EXCEPT ![t] = Dropped(t)]
      BY <2>1, <2>2, DroppedOK, RunRests DEF Save
    <2> QED BY <1>1, <1>2, <1>3, <2>2 DEF Save, Becomes
  <1> QED BY <1>1, <1>2, <1>3, <1>4 DEF Save

LEMMA DieStep == ASSUME IInv, NEW t \in Runs, Die(t) PROVE Step
  <1>1. Grows /\ NoRun \in Run /\ NoRun.pc = "idle"
    BY SameLedger, IdleOK DEF Die, NoRun
  <1> QED BY <1>1, RunRests DEF Die, Becomes

-----------------------------------------------------------------------------
(* Storefronts, approvals, time. *)

LEMMA AskForStep ==
  ASSUME IInv, NEW q \in Askers, NEW e \in Editions, NEW c \in Channels, AskFor(q, e, c) PROVE Step
  <1> DEFINE s == [pc |-> "verify", ed |-> e, ch |-> c, at |-> now, rev |-> row[e].rev]
  <1>1. now \in Nat /\ row[e].rev \in Nat /\ ask \in [Askers -> Ask]
    BY DEF IInv, SettingsOK, LedgerOK, Record, AsksOK
  <1>2. s \in Ask /\ ask' = [ask EXCEPT ![q] = s] /\ now' = now
    BY <1>1 DEF Ask, AskFor
  <1>3. ask' \in [Askers -> Ask] /\ ask'[q] = s /\ \A x \in Askers \ {q} : ask'[x] = ask[x]
    BY <1>1, <1>2
  <1>4. \A x \in Askers \ {q} : AskOK(x)'
    BY <1>1, <1>2, <1>3, SameLedger, OtherAsk DEF AskFor
  <1>5. AskOK(q)'
    BY <1>1, <1>2, <1>3 DEF AskOK
  <1>6. AsksOK' /\ SettingsOK' /\ now <= now'
    BY <1>1, <1>2, <1>3, <1>4, <1>5 DEF AsksOK, IInv, SettingsOK, AskFor
  <1> QED BY <1>6, Quietly DEF AskFor

LEMMA AnswerStep == ASSUME IInv, NEW q \in Askers, Answer(q) PROVE Step
  <1>1. ask[q] \in Ask /\ AskOK(q) /\ ask \in [Askers -> Ask] /\ now \in Nat /\ NoAsk \in Ask
    BY IdleOK DEF IInv, AsksOK, SettingsOK
  <1>2. PICK s \in Ask :
          /\ ask' = [ask EXCEPT ![q] = s]
          /\ \/ s = NoAsk
             \/ /\ ask[q].pc # "idle" /\ s.pc \in {"again", "yes"} /\ s.ed = ask[q].ed /\ s.at = ask[q].at
                /\ s.pc = "yes" => row[s.ed].state = "released" /\ row[s.ed].publishAt <= s.at
    <2>1. CASE ask' = [ask EXCEPT ![q] = NoAsk]
      BY <1>1, <2>1
    <2>2. CASE ask[q].pc = "verify" /\ ask' = [ask EXCEPT ![q] = [ask[q] EXCEPT !.pc = "again"]]
      <3> DEFINE new == [ask[q] EXCEPT !.pc = "again"]
      <3>1. new \in Ask /\ new.pc = "again" /\ new.ed = ask[q].ed /\ new.at = ask[q].at
        BY <1>1 DEF Ask
      <3> HIDE DEF new
      <3>2. ask' = [ask EXCEPT ![q] = new]
        BY <2>2 DEF new
      <3> QED BY <2>2, <3>1, <3>2
    <2>3. CASE /\ ask[q].pc = "again" /\ Exposable(row[ask[q].ed], ask[q].ch, ask[q].at)
               /\ ask' = [ask EXCEPT ![q] = [ask[q] EXCEPT !.pc = "yes"]]
      <3> DEFINE new == [ask[q] EXCEPT !.pc = "yes"]
      <3>1. new \in Ask /\ new.pc = "yes" /\ new.ed = ask[q].ed /\ new.at = ask[q].at
        BY <1>1 DEF Ask
      <3> HIDE DEF new
      <3>2. ask' = [ask EXCEPT ![q] = new]
        BY <2>3 DEF new
      <3> QED BY <2>3, <3>1, <3>2 DEF Exposable
    <2> QED BY <2>1, <2>2, <2>3 DEF Answer
  <1>3. ask' \in [Askers -> Ask] /\ ask'[q] = s /\ \A x \in Askers \ {q} : ask'[x] = ask[x]
    BY <1>1, <1>2
  <1>4. \A x \in Askers \ {q} : AskOK(x)'
    BY <1>1, <1>3, SameLedger, OtherAsk DEF Answer
  <1>5. AskOK(q)'
    BY <1>1, <1>2, <1>3 DEF AskOK, Answer, NoAsk
  <1>6. AsksOK' /\ SettingsOK' /\ now <= now'
    BY <1>1, <1>3, <1>4, <1>5 DEF AsksOK, IInv, SettingsOK, Answer
  <1> QED BY <1>6, Quietly DEF Answer

LEMMA ApprovalStep == ASSUME IInv, NEW e \in Editions, Withdraw(e) \/ Approve(e) PROVE Step
  <1>1. approved' \in [Editions -> BOOLEAN] /\ spare' \in [faults: Nat, overlaps: Nat] /\ now' = now
    BY SpareOK DEF IInv, SettingsOK, Withdraw, Approve
  <1>2. AsksOK' /\ now <= now' /\ SettingsOK'
    BY <1>1, SameLedger, OtherAsk DEF IInv, AsksOK, AskOK, SettingsOK, Withdraw, Approve
  <1> QED BY <1>2, Quietly DEF Withdraw, Approve

LEMMA LaneStep == ASSUME IInv, CloseLane \/ OpenLane PROVE Step
  <1>1. UNCHANGED <<now, approved>> /\ lane' \in BOOLEAN /\ spare' \in [faults: Nat, overlaps: Nat]
    BY SpareOK DEF CloseLane, OpenLane
  <1>2. AsksOK' /\ now <= now' /\ SettingsOK'
    BY <1>1, SameLedger, OtherAsk DEF IInv, AsksOK, AskOK, SettingsOK, CloseLane, OpenLane
  <1> QED BY <1>2, Quietly DEF CloseLane, OpenLane

LEMMA TickStep == ASSUME IInv, Tick PROVE Step
  <1>1. now \in Nat /\ now' \in Nat /\ now <= now' /\ SettingsOK'
    BY DEF IInv, SettingsOK, Tick
  <1>2. AsksOK'
    BY <1>1, SameLedger, OtherAsk DEF IInv, AsksOK, Tick
  <1> QED BY <1>1, <1>2, Quietly DEF Tick

LEMMA StutterStep == ASSUME IInv, UNCHANGED vars PROVE Step
  <1>1. AsksOK' /\ SettingsOK' /\ now <= now'
    BY DEF IInv, AsksOK, AskOK, SettingsOK, vars
  <1> QED BY <1>1, Quietly DEF vars

-----------------------------------------------------------------------------
(* The theorems. *)

LEMMA Initially == Init => IInv
  <1> SUFFICES ASSUME Init PROVE IInv
    OBVIOUS
  <1>1. SettingsOK
    BY ReleaseAssumption DEF Init, SettingsOK
  <1>2. LedgerOK
    <2>1. \A e \in Editions : row[e] = Absent /\ audit[e] = <<>> /\ \A c \in Channels : staged[c][e] = "none"
      BY DEF Init
    <2>2. Sound(Absent) /\ Absent.rev = 0
      BY AbsentOK DEF Sound, RecordOK, Active
    <2>3. \A e \in Editions : Behind(e, Absent)
      BY AbsentOK DEF Behind
    <2>4. row \in [Editions -> Record] /\ audit \in [Editions -> Seq(States)]
          /\ staged \in [Channels -> [Editions -> Stages]]
      BY AbsentOK DEF Init, Stages
    <2>5. AuditIsTheHistory /\ Joint
      BY <2>1, <2>2 DEF AuditIsTheHistory, Joint
    <2> QED BY <2>1, <2>2, <2>3, <2>4, <2>5 DEF LedgerOK
  <1>3. RunsOK
    BY IdleOK DEF Init, RunsOK, RunOK, NoRun
  <1>4. EditsOK
    BY IdleOK DEF Init, EditsOK, EditOK, NoEdit
  <1>5. AsksOK
    BY IdleOK DEF Init, AsksOK, AskOK, NoAsk
  <1> QED BY <1>1, <1>2, <1>3, <1>4, <1>5 DEF IInv

LEMMA NextStep == ASSUME IInv, [Next]_vars PROVE Step
  <1>1. ASSUME NEW t \in Runs, RunStep(t) \/ Die(t) PROVE Step
    BY <1>1, StartStep, TakeStep, VerifyStep, PrepareStep, ActivateStep, FinalVerifyStep, SaveStep,
       DieStep DEF RunStep
  <1>2. ASSUME NEW a \in Admins, EditStep(a) \/ \E e \in Editions : Open(a, e) PROVE Step
    BY <1>2, RegisterStep, CancelStep, SaveEditStep, CloseStep, ScheduleStep, OpenStep DEF EditStep
  <1>3. ASSUME NEW q \in Askers, Answer(q) \/ \E e \in Editions, c \in Channels : AskFor(q, e, c)
        PROVE  Step
    BY <1>3, AnswerStep, AskForStep
  <1>4. CASE \E e \in Editions : Withdraw(e) \/ Approve(e)
    BY <1>4, ApprovalStep
  <1>5. CASE Tick
    BY <1>5, TickStep
  <1>6. CASE UNCHANGED vars
    BY <1>6, StutterStep
  <1>7. CASE CloseLane \/ OpenLane
    BY <1>7, LaneStep
  <1> QED BY <1>1, <1>2, <1>3, <1>4, <1>5, <1>6, <1>7 DEF Next

\* What the ledger and every process in flight may rely on holds at all times.
THEOREM InductiveInvariant == Spec => []IInv
  <1>1. IInv /\ [Next]_vars => IInv'
    BY NextStep DEF Step
  <1> QED BY <1>1, Initially, PTL DEF Spec

\* TypeOK with the table's CHECKs holds for every number of runs, requests and editions.
THEOREM TypeCorrect == Spec => []TypeOK
  <1>1. IInv => TypeOK
    BY DEF IInv, TypeOK, SettingsOK, LedgerOK, RunsOK, EditsOK, AsksOK, Sound, Stages
  <1> QED BY <1>1, InductiveInvariant, PTL

\* A receipt in the ledger is a stage the storefront has reached, and no storefront
\* is activated before both are prepared.
THEOREM StorefrontsLead == Spec => []LedgerBehindStorefronts
  <1>1. IInv => LedgerBehindStorefronts
    BY DEF IInv, LedgerOK, Joint, Behind, LedgerBehindStorefronts
  <1> QED BY <1>1, InductiveInvariant, PTL

\* No storefront is told to show a book that is not released, due and activated on both.
THEOREM ExposedJointly == Spec => []ExposureIsJoint
  <1>1. IInv => ExposureIsJoint
    <2> SUFFICES ASSUME IInv, NEW q \in Askers, ask[q].pc = "yes"
                 PROVE  LET e == ask[q].ed IN
                        /\ row[e].state = "released" /\ row[e].publishAt <= now
                        /\ \A c \in Channels : staged[c][e] = "activated"
      BY DEF ExposureIsJoint
    <2>1. PICK e \in Editions : /\ e = ask[q].ed /\ row[e].state = "released"
                               /\ row[e].publishAt <= ask[q].at /\ ask[q].at <= now
      BY DEF IInv, AsksOK, AskOK
    <2>2. row[e].publishAt \in Nat /\ ask[q].at \in Nat /\ now \in Nat
      BY DEF IInv, LedgerOK, Record, AsksOK, Ask, SettingsOK
    <2>3. row[e].act = Channels /\ Behind(e, row[e])
      BY <2>1 DEF IInv, LedgerOK, Sound, RecordOK
    <2> QED BY <2>1, <2>2, <2>3 DEF Behind
  <1> QED BY <1>1, InductiveInvariant, PTL

\* The audit is the history of every edition, however many writers race.
THEOREM HistoryIsAudited == Spec => []AuditIsTheHistory
  <1>1. IInv => AuditIsTheHistory
    BY DEF IInv, LedgerOK
  <1> QED BY <1>1, InductiveInvariant, PTL

\* An edition only goes forward, and cancelled or released ones are not carried on.
THEOREM GoesOneWay == Spec => OneWay
  <1>1. ASSUME IInv, [Next]_vars
        PROVE  \A e \in Editions : row'[e] # row[e] =>
                 /\ row'[e].state \in Follows[row[e].state]
                 /\ row[e].act \subseteq row'[e].act
                 /\ row[e].state # "scheduled" => row[e].prep \subseteq row'[e].prep
    BY <1>1, NextStep DEF Step, Grows, Moves, Onto
  <1> QED BY <1>1, InductiveInvariant, PTL DEF Spec, OneWay

\* A book whose approval is gone for good before both storefronts are activated is
\* never released.
THEOREM WithdrawnStays == Spec => WithdrawnStaysPrivate
  <1> SUFFICES ASSUME NEW e \in Editions
               PROVE  Spec => [](row[e].state \notin {"ready_to_release", "released"} /\ []~approved[e]
                                   => []~(row[e].state = "released"))
    BY DEF WithdrawnStaysPrivate
  <1>1. IInv /\ row[e].state \notin {"ready_to_release", "released"} => Withheld(e)
    <2> SUFFICES ASSUME IInv, row[e].state \notin {"ready_to_release", "released"},
                        NEW t \in Runs, run[t].pc = "save", run[t].ed = e, run[t].next.state = "released"
                 PROVE  run[t].rec.rev < row[e].rev
      BY DEF Withheld
    <2>1. RunOK(t) /\ run[t] \in Run
      BY Scanned
    <2>2. run[t].rec.state = "ready_to_release"
      BY <2>1 DEF RunOK, Onto, Known, Sound, Record, States, Active, Follows
    <2> QED BY <2>1, <2>2 DEF RunOK, Known, Run, IInv, LedgerOK, Record
  <1>2. IInv /\ Withheld(e) /\ ~ approved[e] /\ [Next]_vars => Withheld(e)'
    BY NextStep DEF Step, Stays
  <1>3. Withheld(e) => ~(row[e].state = "released")
    BY DEF Withheld
  <1> QED BY <1>1, <1>2, <1>3, InductiveInvariant, PTL DEF Spec

-----------------------------------------------------------------------------
(* The runs and the ledger implement JointRelease. *)

\* A run is not ahead of the clock, and releases nothing before its time.
TimeOK(t) ==
  /\ run[t].at <= now
  /\ run[t].pc = "save" /\ run[t].next.state = "released"
       => /\ run[t].next.publishAt = run[t].rec.publishAt
          /\ run[t].rec.publishAt <= run[t].at

TimesOK == \A t \in Runs : TimeOK(t)

\* The run that makes a step, and the others.
LEMMA OneTime ==
  ASSUME IInv, TimesOK, NEW t \in Runs, NEW s, run' = [run EXCEPT ![t] = s], now' = now,
         s.at <= now,
         s.pc = "save" /\ s.next.state = "released"
           => s.next.publishAt = s.rec.publishAt /\ s.rec.publishAt <= s.at
  PROVE  TimesOK'
  <1>1. run \in [Runs -> Run]
    BY DEF IInv, RunsOK
  <1> QED BY <1>1 DEF TimesOK, TimeOK

LEMMA DroppedTime ==
  ASSUME IInv, TimesOK, NEW t \in Runs, run' = [run EXCEPT ![t] = Dropped(t)], now' = now
  PROVE  TimesOK'
  <1>1. run[t] \in Run /\ run[t].at <= now
    BY DEF IInv, RunsOK, TimesOK, TimeOK
  <1>2. Dropped(t).at = run[t].at /\ Dropped(t).pc = "next"
    BY <1>1 DEF Dropped, Run
  <1> QED BY <1>1, <1>2, OneTime

\* A run about to save: the record is not a release, or the release is due.
LEMMA SavingTime ==
  ASSUME IInv, TimesOK, NEW t \in Runs, NEW p \in Record,
         run' = [run EXCEPT ![t] = Saving(t, p)], now' = now,
         p.state = "released" => /\ p.publishAt = run[t].rec.publishAt
                                 /\ run[t].rec.publishAt <= run[t].at
  PROVE  TimesOK'
  <1>1. run[t] \in Run /\ run[t].rec \in Record /\ run[t].at <= now
    BY DEF IInv, RunsOK, TimesOK, TimeOK, Run
  <1> DEFINE next == Change(run[t].rec, p)
  <1>2. next.state = p.state /\ next.publishAt = p.publishAt
    BY <1>1, ChangeOK
  <1> HIDE DEF next
  <1>3. Saving(t, p) = [run[t] EXCEPT !.pc = "save", !.next = next]
    BY DEF Saving, next
  <1> DEFINE s == [run[t] EXCEPT !.pc = "save", !.next = next]
  <1>4. s.at = run[t].at /\ s.rec = run[t].rec /\ s.next = next
    BY <1>1 DEF Run
  <1>5. run' = [run EXCEPT ![t] = s]
    BY <1>3
  <1> HIDE DEF s
  <1> QED BY <1>1, <1>2, <1>4, <1>5, OneTime

\* A storefront's receipt is not a release.
LEMMA ReceiptOK ==
  ASSUME NEW r \in Record
  PROVE  /\ Prepared(r) \in Record /\ Prepared(r).state # "released"
         /\ Activated(r) \in Record /\ Activated(r).state # "released"
  <1>1. \A set \in SUBSET Channels : set \cup {Missing(set)} \in SUBSET Channels
    BY DEF Missing, Channels
  <1>2. ASSUME NEW set \in SUBSET Channels, NEW state \in States
        PROVE  /\ [r EXCEPT !.prep = set, !.state = state] \in Record
               /\ [r EXCEPT !.prep = set, !.state = state].state = state
               /\ [r EXCEPT !.act = set, !.state = state] \in Record
               /\ [r EXCEPT !.act = set, !.state = state].state = state
    BY DEF Record
  <1>3. {"prepared", "preparing", "ready_to_release", "activating"} \subseteq States
    BY DEF States, Active
  <1>4. r.prep \in SUBSET Channels /\ r.act \in SUBSET Channels
    BY DEF Record
  <1> HIDE DEF Channels
  <1>5. Prepared(r) \in Record /\ Prepared(r).state # "released"
    <2> DEFINE prep  == r.prep \cup {Missing(r.prep)}
               state == IF prep = Channels THEN "prepared" ELSE "preparing"
    <2>1. prep \in SUBSET Channels /\ state \in States /\ state # "released"
      BY <1>1, <1>3, <1>4
    <2>2. Prepared(r) = [r EXCEPT !.prep = prep, !.state = state]
      BY DEF Prepared
    <2> HIDE DEF prep, state
    <2> QED BY <1>2, <2>1, <2>2
  <1>6. Activated(r) \in Record /\ Activated(r).state # "released"
    <2> DEFINE act   == r.act \cup {Missing(r.act)}
               state == IF act = Channels THEN "ready_to_release" ELSE "activating"
    <2>1. act \in SUBSET Channels /\ state \in States /\ state # "released"
      BY <1>1, <1>3, <1>4
    <2>2. Activated(r) = [r EXCEPT !.act = act, !.state = state]
      BY DEF Activated
    <2> HIDE DEF act, state
    <2> QED BY <1>2, <2>1, <2>2
  <1> QED BY <1>5, <1>6

LEMMA TimesKept == ASSUME IInv, TimesOK, [Next]_vars PROVE TimesOK'
  <1>1. CASE run' = run /\ now' = now
    BY <1>1 DEF TimesOK, TimeOK
  <1>2. CASE Tick
    BY <1>2 DEF Tick, TimesOK, TimeOK, IInv, SettingsOK, RunsOK, Run
  <1>3. ASSUME NEW t \in Runs, RunStep(t) \/ Die(t) PROVE TimesOK'
    <2>0. /\ run[t] \in Run /\ run[t].rec \in Record /\ run[t].at <= now /\ now \in Nat
          /\ NoRun \in Run /\ NoRun.at = 0 /\ NoRun.pc = "idle"
      <3>1. run[t] \in Run /\ run[t].rec \in Record /\ run[t].at <= now /\ now \in Nat
        BY DEF IInv, RunsOK, TimesOK, TimeOK, SettingsOK, Run
      <3>2. NoRun.at = 0 /\ NoRun.pc = "idle"
        BY DEF NoRun
      <3> QED BY <3>1, <3>2, IdleOK
    <2>1. CASE Die(t) \/ (Take(t) /\ run' = [run EXCEPT ![t] = NoRun])
      BY <2>0, <2>1, OneTime DEF Die, Becomes, Take
    <2>2. CASE Start(t)
      <3>1. PICK order : run' = [run EXCEPT ![t] = [NoRun EXCEPT !.pc = "next", !.at = now, !.todo = order]]
        BY <2>2 DEF Start, Becomes
      <3> DEFINE s == [NoRun EXCEPT !.pc = "next", !.at = now, !.todo = order]
      <3>2. s.at = now /\ s.pc = "next"
        BY <2>0 DEF Run
      <3>3. run' = [run EXCEPT ![t] = s] /\ now' = now
        BY <2>2, <3>1 DEF Start
      <3>4. s.at <= now /\ s.pc # "save"
        BY <2>0, <3>2
      <3> HIDE DEF s
      <3> QED BY <3>3, <3>4, OneTime
    <2>3. CASE Take(t) /\ run' # [run EXCEPT ![t] = NoRun]
      <3>1. \/ run' = [run EXCEPT ![t] = [run[t] EXCEPT !.todo = Tail(@)]]
            \/ \E e, rec : run' = [run EXCEPT ![t] = [run[t] EXCEPT !.todo = Tail(@), !.pc = "verify",
                                                                  !.ed = e, !.rec = rec]]
        BY <2>3 DEF Take, Becomes
      <3>2. CASE run' = [run EXCEPT ![t] = [run[t] EXCEPT !.todo = Tail(@)]]
        <4> DEFINE s == [run[t] EXCEPT !.todo = Tail(@)]
        <4>1. s.at = run[t].at /\ s.pc = "next"
          BY <2>0, <2>3 DEF Run, Take
        <4> HIDE DEF s
        <4> QED BY <2>0, <2>3, <3>2, <4>1, OneTime DEF s, Take
      <3>3. CASE \E e, rec : run' = [run EXCEPT ![t] = [run[t] EXCEPT !.todo = Tail(@), !.pc = "verify",
                                                                    !.ed = e, !.rec = rec]]
        <4>1. PICK e, rec : run' = [run EXCEPT ![t] = [run[t] EXCEPT !.todo = Tail(@), !.pc = "verify",
                                                                    !.ed = e, !.rec = rec]]
          BY <3>3
        <4> DEFINE s == [run[t] EXCEPT !.todo = Tail(@), !.pc = "verify", !.ed = e, !.rec = rec]
        <4>2. s.at = run[t].at /\ s.pc = "verify"
          BY <2>0 DEF Run
        <4> HIDE DEF s
        <4> QED BY <2>0, <2>3, <4>1, <4>2, OneTime DEF s, Take
      <3> QED BY <3>1, <3>2, <3>3
    <2>4. CASE Verify(t)
      <3>1. CASE run' = [run EXCEPT ![t] = Dropped(t)]
        BY <2>4, <3>1, DroppedTime DEF Verify
      <3>2. CASE run' = [run EXCEPT ![t] = Saving(t, [run[t].rec EXCEPT !.state = "preparing"])]
        <4> DEFINE p == [run[t].rec EXCEPT !.state = "preparing"]
        <4>1. p \in Record /\ p.state # "released"
          BY <2>0 DEF Record, States, Active
        <4> HIDE DEF p
        <4> QED BY <2>4, <3>2, <4>1, SavingTime DEF p, Verify
      <3>3. CASE run' = [run EXCEPT ![t] = [run[t] EXCEPT !.pc = "work"]]
        <4> DEFINE s == [run[t] EXCEPT !.pc = "work"]
        <4>1. s.at = run[t].at /\ s.pc = "work"
          BY <2>0 DEF Run
        <4> HIDE DEF s
        <4> QED BY <2>0, <2>4, <3>3, <4>1, OneTime DEF s, Verify
      <3> QED BY <2>4, <3>1, <3>2, <3>3 DEF Verify, Becomes
    <2>5. CASE Prepare(t) \/ Activate(t)
      <3>1. \/ run' = [run EXCEPT ![t] = Dropped(t)]
            \/ run' = [run EXCEPT ![t] = Saving(t, Prepared(run[t].rec))]
            \/ run' = [run EXCEPT ![t] = Saving(t, Activated(run[t].rec))]
        BY <2>5 DEF Prepare, Activate, Call, Becomes
      <3>2. now' = now
        BY <2>5 DEF Prepare, Activate
      <3> QED BY <2>0, <3>1, <3>2, ReceiptOK, DroppedTime, SavingTime
    <2>6. CASE FinalVerify(t)
      <3>1. CASE run' = [run EXCEPT ![t] = Dropped(t)]
        BY <2>6, <3>1, DroppedTime DEF FinalVerify
      <3>2. CASE StillApproved(t)
                 /\ run' = [run EXCEPT ![t] = Saving(t, [run[t].rec EXCEPT !.state = "released"])]
        <4> DEFINE p == [run[t].rec EXCEPT !.state = "released"]
        <4>1. p \in Record /\ p.publishAt = run[t].rec.publishAt
          BY <2>0 DEF Record, States
        <4>2. run[t].rec.publishAt <= run[t].at
          BY <3>2 DEF StillApproved
        <4> HIDE DEF p
        <4> QED BY <2>6, <3>2, <4>1, <4>2, SavingTime DEF p, FinalVerify
      <3> QED BY <2>6, <3>1, <3>2 DEF FinalVerify, Becomes
    <2>7. CASE Save(t)
      <3>1. CASE run' = [run EXCEPT ![t] = Dropped(t)]
        BY <2>7, <3>1, DroppedTime DEF Save
      <3>2. CASE run' = [run EXCEPT ![t] = [run[t] EXCEPT !.pc = "work", !.rec = run[t].next, !.next = Absent]]
        <4> DEFINE s == [run[t] EXCEPT !.pc = "work", !.rec = run[t].next, !.next = Absent]
        <4>1. s.at = run[t].at /\ s.pc = "work"
          BY <2>0 DEF Run
        <4> HIDE DEF s
        <4> QED BY <2>0, <2>7, <3>2, <4>1, OneTime DEF s, Save
      <3> QED BY <2>7, <3>1, <3>2 DEF Save, Becomes
    <2> QED BY <1>3, <2>1, <2>2, <2>3, <2>4, <2>5, <2>6, <2>7 DEF RunStep
  <1>4. ASSUME NEW a \in Admins, EditStep(a) \/ \E e \in Editions : Open(a, e)
        PROVE  run' = run /\ now' = now
    BY <1>4 DEF EditStep, Register, Cancel, Schedule, Propose, SaveEdit, Close, Open
  <1>5. ASSUME NEW q \in Askers, Answer(q) \/ \E e \in Editions, c \in Channels : AskFor(q, e, c)
        PROVE  run' = run /\ now' = now
    BY <1>5 DEF Answer, AskFor
  <1>6. (\E e \in Editions : Withdraw(e) \/ Approve(e)) \/ CloseLane \/ OpenLane \/ UNCHANGED vars
          => run' = run /\ now' = now
    BY DEF Withdraw, Approve, CloseLane, OpenLane, vars
  <1> QED BY <1>1, <1>2, <1>3, <1>4, <1>5, <1>6 DEF Next

\* The clock of the runs: what is released was due, and still is.
THEOREM TimesInOrder == Spec => [](IInv /\ TimesOK)
  <1>1. Init => TimesOK
    <2> SUFFICES ASSUME Init, NEW t \in Runs PROVE TimeOK(t)
      BY DEF TimesOK
    <2>1. run[t].at = 0 /\ run[t].pc = "idle" /\ now = 1
      BY DEF Init, NoRun
    <2> QED BY <2>1 DEF TimeOK
  <1>2. IInv /\ TimesOK /\ [Next]_vars => TimesOK'
    BY TimesKept
  <1> QED BY <1>1, <1>2, InductiveInvariant, PTL DEF Spec

LEMMA JoinedSame ==
  ASSUME UNCHANGED <<row, now, staged>>, Allowed' = Allowed PROVE UNCHANGED Joined!vars
  BY DEF Joined!vars, Fates, Fate, DueNow

\* What a saved record does to the book.
LEMMA JoinedWrite ==
  ASSUME IInv, NEW e \in Editions, NEW next \in Record, row' = [row EXCEPT ![e] = next],
         Onto(row[e], next), UNCHANGED <<now, staged, ask>>,
         next.state = "released" => row[e].publishAt <= now /\ next.publishAt = row[e].publishAt
  PROVE  [Joined!Next]_Joined!vars
  <1> DEFINE old == row[e]
  <1>1. /\ old \in Record /\ Sound(old) /\ Behind(e, old) /\ Sound(next) /\ now \in Nat
        /\ next.state \in Follows[old.state]
    BY DEF IInv, LedgerOK, SettingsOK, Onto
  <1>2. /\ row'[e] = next /\ \A f \in Editions \ {e} : row'[f] = row[f]
        /\ staged' = staged /\ now' = now /\ Allowed' = Allowed
    BY DEF IInv, LedgerOK, Allowed
  <1>3. /\ Fates[e] = Fate(old.state) /\ Fates' = [Fates EXCEPT ![e] = Fate(next.state)]
        /\ Fates \in [Editions -> {"open", "released", "cancelled"}]
    BY <1>2 DEF Fates, Fate
  <1>4. /\ DueNow \subseteq Editions /\ DueNow' \subseteq Editions
        /\ \A f \in Editions \ {e} : f \in DueNow' <=> f \in DueNow
        /\ e \in DueNow <=> old.publishAt # Never /\ old.publishAt <= now
        /\ e \in DueNow' <=> next.publishAt # Never /\ next.publishAt <= now
    BY <1>2 DEF DueNow
  <1>5. CASE next.state = "released"
    <2>1. old.state = "ready_to_release"
      BY <1>1, <1>5 DEF Follows, Record, States, Active
    <2>2. \A c \in Channels : staged[c][e] = "activated"
      BY <1>1, <2>1 DEF Sound, RecordOK, Behind
    <2>3. e \in DueNow
      BY <1>1, <1>4, <1>5, <2>1 DEF Sound, RecordOK, Active
    <2>4. DueNow' = DueNow
      BY <1>4, <1>5
    <2>5. Fates[e] = "open" /\ Fate(next.state) = "released"
      BY <1>3, <1>5, <2>1 DEF Fate
    <2>6. Joined!Release(e)
      BY <1>2, <1>3, <2>2, <2>3, <2>4, <2>5 DEF Joined!Release
    <2> QED BY <2>6 DEF Joined!Next
  <1>6. CASE next.state = "cancelled" /\ old.state # "cancelled"
    <2>1. old.state # "released"
      BY <1>1 DEF Follows
    <2>2. Fates[e] = "open" /\ Fate(next.state) = "cancelled"
      BY <1>3, <1>6, <2>1 DEF Fate
    <2>3. DueNow' = DueNow \ {e}
      BY <1>1, <1>4, <1>6 DEF Sound
    <2>4. Joined!Cancel(e)
      BY <1>2, <1>3, <2>2, <2>3 DEF Joined!Cancel
    <2> QED BY <2>4 DEF Joined!Next
  <1>7. CASE next.state \notin {"released", "cancelled"} \/ old.state = "cancelled"
    <2>1. old.state # "released" /\ (old.state = "cancelled" => next.state = "cancelled")
      BY <1>1 DEF Follows
    <2>2. Fate(next.state) = Fates[e] /\ Fates[e] # "released"
      BY <1>3, <1>7, <2>1 DEF Fate
    <2>3. Fates' = Fates
      BY <1>3, <2>2
    <2>4. \A f \in DueNow : Fates[f] = "released" => f \in DueNow'
      BY <1>4, <2>2
    <2>5. Joined!Reschedule
      BY <1>2, <1>4, <2>3, <2>4 DEF Joined!Reschedule
    <2> QED BY <2>5 DEF Joined!Next
  <1> QED BY <1>5, <1>6, <1>7

\* A storefront that is called, whatever becomes of its answer.
LEMMA JoinedCall ==
  ASSUME IInv, NEW e \in Editions, NEW c \in Channels, NEW stage \in {"prepared", "activated"},
         staged[c][e] = "activated" => stage = "activated",
         stage = "activated" => \/ staged[c][e] = "activated"
                                \/ \A d \in Channels : staged[d][e] # "none",
         UNCHANGED staged \/ staged' = [staged EXCEPT ![c][e] = stage],
         UNCHANGED <<now, row, ask>>
  PROVE  [Joined!Next]_Joined!vars
  <1>1. /\ staged \in [Channels -> [Editions -> Stages]]
        /\ UNCHANGED <<Fates, DueNow, Allowed>>
    BY DEF IInv, LedgerOK, Fates, Fate, DueNow, Allowed
  <1>2. CASE UNCHANGED staged \/ staged[c][e] = stage
    <2>1. staged' = staged
      BY <1>1, <1>2
    <2> QED BY <1>1, <2>1 DEF Joined!vars
  <1>3. CASE staged' = [staged EXCEPT ![c][e] = stage] /\ staged[c][e] = "none"
    <2>1. stage = "prepared"
      BY <1>3
    <2>2. Joined!Prepare(c, e)
      BY <1>1, <1>3, <2>1 DEF Joined!Prepare
    <2> QED BY <2>2 DEF Joined!Next
  <1>4. CASE staged' = [staged EXCEPT ![c][e] = stage] /\ staged[c][e] = "prepared" /\ stage = "activated"
    <2>1. Joined!Activate(c, e)
      BY <1>1, <1>4 DEF Joined!Activate
    <2> QED BY <2>1 DEF Joined!Next
  <1>5. staged[c][e] \in Stages
    BY <1>1
  <1> QED BY <1>2, <1>3, <1>4, <1>5 DEF Stages

\* Who may show what, apart from one request.
Others(q) == {<<ask[p].ch, ask[p].ed>> : p \in {p \in Askers \ {q} : ask[p].pc = "yes"}}

LEMMA AllowedMoves ==
  ASSUME IInv, NEW q \in Askers, NEW s, ask' = [ask EXCEPT ![q] = s]
  PROVE  /\ Allowed = Others(q) \cup (IF ask[q].pc = "yes" THEN {<<ask[q].ch, ask[q].ed>>} ELSE {})
         /\ Allowed' = Others(q) \cup (IF s.pc = "yes" THEN {<<s.ch, s.ed>>} ELSE {})
  <1>1. ask'[q] = s /\ \A p \in Askers \ {q} : ask'[p] = ask[p]
    BY DEF IInv, AsksOK
  <1>2. Allowed = Others(q) \cup (IF ask[q].pc = "yes" THEN {<<ask[q].ch, ask[q].ed>>} ELSE {})
    BY DEF Allowed, Others
  <1>3. Allowed' = Others(q)' \cup (IF ask'[q].pc = "yes" THEN {<<ask'[q].ch, ask'[q].ed>>} ELSE {})
    BY DEF Allowed, Others
  <1>4. Others(q)' = Others(q)
    BY <1>1 DEF Others
  <1> QED BY <1>1, <1>2, <1>3, <1>4

\* A visibility request that goes on.
LEMMA JoinedAsk ==
  ASSUME IInv, NEW q \in Askers,
         Answer(q) \/ \E e \in Editions, c \in Channels : AskFor(q, e, c)
  PROVE  [Joined!Next]_Joined!vars
  <1>1. /\ ask[q] \in Ask /\ AskOK(q)
        /\ UNCHANGED <<row, now, staged>> /\ UNCHANGED <<Fates, DueNow, staged>>
    BY DEF IInv, AsksOK, Answer, AskFor, Fates, Fate, DueNow
  <1>2. CASE \E s : ask' = [ask EXCEPT ![q] = s] /\ s.pc # "yes"
    <2>1. PICK s : ask' = [ask EXCEPT ![q] = s] /\ s.pc # "yes"
      BY <1>2
    <2>2. CASE ask[q].pc # "yes"
      <3>1. Allowed' = Allowed
        BY <2>1, <2>2, AllowedMoves
      <3> QED BY <1>1, <3>1, JoinedSame
    <2>3. CASE ask[q].pc = "yes"
      <3>1. ask[q].ch \in Channels /\ ask[q].ed \in Editions
        BY <1>1, <2>3 DEF Ask, AskOK
      <3>2. Allowed' = Others(q) /\ Allowed = Others(q) \cup {<<ask[q].ch, ask[q].ed>>}
        <4>1. Allowed = Others(q) \cup (IF ask[q].pc = "yes" THEN {<<ask[q].ch, ask[q].ed>>} ELSE {})
          BY <2>1, AllowedMoves, Zenon
        <4>2. Allowed' = Others(q) \cup (IF s.pc = "yes" THEN {<<s.ch, s.ed>>} ELSE {})
          BY <2>1, AllowedMoves, Zenon
        <4> QED BY <2>1, <2>3, <4>1, <4>2
      <3>3. CASE <<ask[q].ch, ask[q].ed>> \in Others(q)
        <4>1. Allowed' = Allowed
          BY <3>2, <3>3
        <4> QED BY <1>1, <4>1, JoinedSame
      <3>4. CASE <<ask[q].ch, ask[q].ed>> \notin Others(q)
        <4>1. Allowed' = Allowed \ {<<ask[q].ch, ask[q].ed>>}
          BY <3>2, <3>4
        <4>2. Joined!Hide(ask[q].ch, ask[q].ed)
          BY <1>1, <4>1 DEF Joined!Hide
        <4> QED BY <3>1, <4>2 DEF Joined!Next
      <3> QED BY <3>3, <3>4
    <2> QED BY <2>2, <2>3
  <1>3. CASE /\ ask[q].pc = "again" /\ Exposable(row[ask[q].ed], ask[q].ch, ask[q].at)
             /\ ask' = [ask EXCEPT ![q] = [ask[q] EXCEPT !.pc = "yes"]]
    <2> DEFINE s == [ask[q] EXCEPT !.pc = "yes"]
    <2>1. s.pc = "yes" /\ s.ch = ask[q].ch /\ s.ed = ask[q].ed
      BY <1>1 DEF Ask
    <2>2. ask' = [ask EXCEPT ![q] = s]
      BY <1>3
    <2> HIDE DEF s
    <2>3. Allowed' = Allowed \cup {<<ask[q].ch, ask[q].ed>>}
      <3>1. Allowed = Others(q) /\ Allowed' = Others(q) \cup {<<s.ch, s.ed>>}
        <4>1. ask[q].pc # "yes"
          BY <1>3
        <4> QED BY <2>1, <2>2, <4>1, AllowedMoves
      <3> QED BY <2>1, <3>1
    <2>4. ask[q].ed \in Editions /\ ask[q].ch \in Channels
      BY <1>1, <1>3 DEF AskOK, Ask
    <2>5. Fates[ask[q].ed] = "released"
      BY <1>3, <2>4 DEF Exposable, Fates, Fate
    <2>6. Joined!Show(ask[q].ch, ask[q].ed)
      BY <1>1, <2>3, <2>5 DEF Joined!Show
    <2> QED BY <2>4, <2>6 DEF Joined!Next
  <1>4. CASE Answer(q)
    <2>1. CASE ask' = [ask EXCEPT ![q] = NoAsk]
      <3>1. NoAsk.pc # "yes"
        BY DEF NoAsk
      <3> QED BY <1>2, <2>1, <3>1
    <2>2. CASE ask' = [ask EXCEPT ![q] = [ask[q] EXCEPT !.pc = "again"]]
      <3>1. [ask[q] EXCEPT !.pc = "again"].pc # "yes"
        BY <1>1 DEF Ask
      <3> QED BY <1>2, <2>2, <3>1
    <2> QED BY <1>3, <1>4, <2>1, <2>2 DEF Answer
  <1>5. CASE \E e \in Editions, c \in Channels : AskFor(q, e, c)
    <2>1. PICK e \in Editions, c \in Channels :
            ask' = [ask EXCEPT ![q] = [pc |-> "verify", ed |-> e, ch |-> c, at |-> now, rev |-> row[e].rev]]
      BY <1>5 DEF AskFor
    <2> DEFINE s == [pc |-> "verify", ed |-> e, ch |-> c, at |-> now, rev |-> row[e].rev]
    <2>2. s.pc # "yes"
      OBVIOUS
    <2> HIDE DEF s
    <2>3. ask' = [ask EXCEPT ![q] = s]
      BY <2>1 DEF s
    <2> QED BY <1>2, <2>2, <2>3
  <1> QED BY <1>4, <1>5

\* A saved record of a run or of a request.
LEMMA JoinedSave ==
  ASSUME IInv, NEW e \in Editions, NEW r \in Record, NEW next \in Record,
         Known(e, r), Onto(r, next), UNCHANGED <<now, staged, ask>>,
         Committed(e, r, next) \/ Rejected(e, r, next),
         next.state = "released" => r.publishAt <= now /\ next.publishAt = r.publishAt
  PROVE  [Joined!Next]_Joined!vars
  <1>1. CASE Rejected(e, r, next)
    <2>1. UNCHANGED row /\ Allowed' = Allowed
      BY <1>1 DEF Rejected, Allowed
    <2> QED BY <2>1, JoinedSame
  <1>2. CASE Committed(e, r, next)
    <2>1. Len(audit[e]) = row[e].rev /\ row[e].rev \in Nat /\ r.rev \in Nat /\ next.rev = r.rev + 1
      BY DEF IInv, LedgerOK, AuditIsTheHistory, Record, Onto
    <2>2. Hits(e, r)
      BY <1>2, <2>1 DEF Committed, Auditable, Hits
    <2>3. r = row[e] /\ row' = [row EXCEPT ![e] = next]
      BY <1>2, <2>2 DEF Hits, Known, Committed
    <2> QED BY <2>3, JoinedWrite
  <1> QED BY <1>1, <1>2

LEMMA JoinedRunStep ==
  ASSUME IInv, TimesOK, NEW t \in Runs, RunStep(t) \/ Die(t) PROVE [Joined!Next]_Joined!vars
  <1>1. CASE Start(t) \/ Take(t) \/ Verify(t) \/ FinalVerify(t) \/ Die(t)
    <2>1. UNCHANGED <<row, now, staged>> /\ Allowed' = Allowed
      BY <1>1 DEF Start, Take, Verify, FinalVerify, Die, Allowed
    <2> QED BY <2>1, JoinedSame
  <1>2. CASE Prepare(t)
    <2>1. PICK e \in Editions, r \in Record : e = run[t].ed /\ r = run[t].rec /\ Known(e, r)
      BY <1>2, InHand DEF Prepare
    <2>2. r.prep \in SUBSET Channels /\ r.prep # Channels
      BY <1>2, <2>1 DEF Prepare, Known, Sound, RecordOK, Record
    <2>3. PICK c \in Channels : c = Missing(r.prep)
      BY <2>2, MissingOK
    <2>4. PICK stage \in {"prepared", "activated"} :
            stage = IF staged[c][e] = "activated" THEN "activated" ELSE "prepared"
      OBVIOUS
    <2>5. UNCHANGED staged \/ staged' = [staged EXCEPT ![c][e] = stage]
      BY <1>2, <2>1, <2>3, <2>4 DEF Prepare, Call
    <2>6. UNCHANGED <<now, row, ask>>
      BY <1>2 DEF Prepare
    <2> QED BY <2>4, <2>5, <2>6, JoinedCall
  <1>3. CASE Activate(t)
    <2>1. PICK e \in Editions, r \in Record : e = run[t].ed /\ r = run[t].rec /\ Known(e, r)
      BY <1>3, InHand DEF Activate
    <2>2. r.prep = Channels /\ r.act \in SUBSET Channels /\ r.act # Channels
      BY <1>3, <2>1 DEF Activate, Known, Sound, RecordOK, Record, Active, Channels
    <2>3. PICK c \in Channels : c = Missing(r.act)
      BY <2>2, MissingOK
    <2>4. \A d \in Channels : staged[d][e] # "none"
      BY <2>1, <2>2 DEF Known, Behind
    <2>5. UNCHANGED staged \/ staged' = [staged EXCEPT ![c][e] = "activated"]
      BY <1>3, <2>1, <2>3 DEF Activate, Call
    <2>6. UNCHANGED <<now, row, ask>>
      BY <1>3 DEF Activate
    <2> QED BY <2>4, <2>5, <2>6, JoinedCall
  <1>4. CASE Save(t)
    <2>1. PICK e \in Editions, r \in Record : e = run[t].ed /\ r = run[t].rec /\ Known(e, r)
      BY <1>4, InHand DEF Save
    <2>2. PICK next \in Record : next = run[t].next /\ Onto(r, next)
      BY <1>4, <2>1, Scanned DEF Save, RunOK, Run
    <2>3. next.state = "released" => r.publishAt <= now /\ next.publishAt = r.publishAt
      <3>1. next.state = "released" => /\ next.publishAt = r.publishAt
                                      /\ r.publishAt <= run[t].at /\ run[t].at <= now
        BY <1>4, <2>1, <2>2 DEF TimesOK, TimeOK, Save
      <3>2. run[t].at \in Nat /\ now \in Nat /\ r.publishAt \in Nat
        BY Scanned DEF Run, IInv, SettingsOK, Record
      <3> QED BY <3>1, <3>2
    <2>4. Committed(e, r, next) \/ Rejected(e, r, next)
      BY <1>4, <2>1, <2>2 DEF Save
    <2>5. UNCHANGED <<now, staged, ask>>
      BY <1>4 DEF Save
    <2> QED BY <2>1, <2>2, <2>3, <2>4, <2>5, JoinedSave
  <1> QED BY <1>1, <1>2, <1>3, <1>4 DEF RunStep

LEMMA JoinedEditStep ==
  ASSUME IInv, NEW a \in Admins, EditStep(a) \/ \E e \in Editions : Open(a, e)
  PROVE  [Joined!Next]_Joined!vars
  <1>1. CASE SaveEdit(a)
    <2>1. PICK e \in Editions, r \in Record, next \in Record :
            /\ e = edit[a].ed /\ r = edit[a].rec /\ next = edit[a].next
            /\ Known(e, r) /\ Onto(r, next) /\ next.state # "released"
      BY <1>1 DEF IInv, EditsOK, EditOK, Edit, SaveEdit
    <2>2. Committed(e, r, next) \/ Rejected(e, r, next)
      BY <1>1, <2>1 DEF SaveEdit
    <2>3. UNCHANGED <<now, staged, ask>>
      BY <1>1 DEF SaveEdit
    <2> QED BY <2>1, <2>2, <2>3, JoinedSave
  <1>2. CASE ~ SaveEdit(a)
    <2>1. UNCHANGED <<row, now, staged>> /\ Allowed' = Allowed
      BY <1>2 DEF EditStep, Register, Cancel, Schedule, Propose, Close, Open, Allowed
    <2> QED BY <2>1, JoinedSame
  <1> QED BY <1>1, <1>2

LEMMA JoinedTick == ASSUME IInv, Tick PROVE [Joined!Next]_Joined!vars
  <1>1. UNCHANGED <<Fates, staged, Allowed>> /\ DueNow' \subseteq Editions /\ DueNow \subseteq DueNow'
    <2>1. \A e \in Editions : row[e].publishAt \in Nat /\ now \in Nat
      BY DEF IInv, LedgerOK, Record, SettingsOK
    <2> QED BY <2>1 DEF Tick, Fates, Fate, DueNow, Allowed
  <1>2. Joined!Reschedule
    BY <1>1 DEF Joined!Reschedule
  <1> QED BY <1>2 DEF Joined!Next

LEMMA JoinedStep == ASSUME IInv, TimesOK, [Next]_vars PROVE [Joined!Next]_Joined!vars
  <1>1. CASE (\E e \in Editions : Withdraw(e) \/ Approve(e)) \/ CloseLane \/ OpenLane \/ UNCHANGED vars
    <2>1. UNCHANGED <<row, now, staged>> /\ Allowed' = Allowed
      BY <1>1 DEF Withdraw, Approve, CloseLane, OpenLane, vars, Allowed
    <2> QED BY <2>1, JoinedSame
  <1> QED BY <1>1, JoinedRunStep, JoinedEditStep, JoinedAsk, JoinedTick DEF Next

LEMMA JoinedInit == Init => Joined!Init
  BY DEF Init, Joined!Init, Fates, Fate, DueNow, Allowed, Absent, NoAsk, Never

\* Whatever is lost, repeated, rescheduled or raced, the ledger and the storefronts
\* release a book jointly, when its time has come, or not at all.
THEOREM ReleaseIsJoint == Spec => ImplementsJointRelease
  BY JoinedInit, JoinedStep, TimesInOrder, PTL DEF Spec, Joined!Spec, ImplementsJointRelease
=============================================================================
