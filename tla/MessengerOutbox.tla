---------------------------- MODULE MessengerOutbox ----------------------------
(***************************************************************************)
(* The messenger's outbox.  A message of a customer, an operator or a shop *)
(* leaves an event for the assistant or for an outside channel; drains,    *)
(* started by the cron and by every writer, lock the due events one by     *)
(* one, work on them and settle them.  A lock is handed out again after    *)
(* two minutes, and every statement after the lock names the event alone;  *)
(* whatever throws in between is caught, and the event is tried again.     *)
(* Meanwhile operators take threads over, and the assistant is to be       *)
(* silent.  Time appears as the two comparisons the statements make:       *)
(* whether a lock is older than two minutes and whether a retry is due.    *)
(***************************************************************************)
EXTENDS Integers, Sequences, FiniteSets

CONSTANTS
  Events,                 \* outbox rows
  Consumer,               \* Consumer[e]: "assistant" or "channel"
  Threads, ThreadOf,      \* ThreadOf[e]
  Order,                  \* Order[e]: the id of e
  Linked,                 \* threads with a channel link
  Drains, Operators,
  MaxAttempts,            \* 8
  Limit,                  \* events of one drain
  Faults,                 \* crashes, throws and lost answers (a bound)
  Moves,                  \* requests of operators (a bound)
  Stock,                  \* messages written altogether (a bound)
  NoEvent, NoThread

ASSUME OutboxAssumption ==
  /\ IsFiniteSet(Events) /\ IsFiniteSet(Drains) /\ IsFiniteSet(Operators)
  /\ NoEvent \notin Events /\ NoThread \notin Threads /\ "anyone" \notin Operators
  /\ Consumer \in [Events -> {"assistant", "channel"}]
  /\ ThreadOf \in [Events -> Threads] /\ Order \in [Events -> Nat]
  /\ \A e, f \in Events : Order[e] = Order[f] => e = f
  /\ Linked \subseteq Threads
  /\ MaxAttempts \in Nat \ {0} /\ Limit \in Nat \ {0} /\ Faults \in Nat /\ Moves \in Nat /\ Stock \in Nat

VARIABLES
  row,       \* messenger_outbox
  handoff,   \* handoff[t]: the thread's rows of messenger_handoffs, by id
  closed,    \* closed[t]: the thread is resolved
  drain,     \* drains under way
  desk,      \* operators' requests under way
  sent,      \* sent[e]: how often e has been sent, or answered by the assistant
  hushed,    \* events the assistant left unanswered for an operator
  cause,     \* cause[e]: mishaps that may repeat e
  late,      \* late[t]: drains past their last check when t was taken over
  spare      \* faults and moves left

vars == <<row, handoff, closed, drain, desk, sent, hushed, cause, late, spare>>
world == <<handoff, closed, desk, late>>

Statuses == {"absent", "pending", "processing", "failed", "delivered", "dead"}

Row == [status: Statuses, attempts: Nat, due: BOOLEAN, lapsed: BOOLEAN]

Drain == [pc: {"idle", "list", "lock", "check", "generate", "write", "send", "settle",
               "catch"},
          todo: Seq([ev: Events, tries: Nat]), ev: Events \cup {NoEvent}, tries: Nat,
          verdict: {"none", "ok", "retry", "reject"}]

Handoff == [status: {"requested", "accepted", "closed"}, by: Operators \cup {"anyone"}]

NoDrain == [pc |-> "idle", todo |-> <<>>, ev |-> NoEvent, tries |-> 0, verdict |-> "none"]
NoDesk  == [pc |-> "idle", thread |-> NoThread, id |-> 0]

InTry  == {"check", "generate", "write", "send", "settle"}
AtWork == InTry \cup {"catch"}

\* The types; a drain holds an event exactly while it works on it, and an event
\* that was tried has an attempt to show for it.
TypeOK ==
  /\ row \in [Events -> Row]
  /\ \A e \in Events : row[e].status \in {"processing", "failed", "dead"} => row[e].attempts > 0
  /\ \A d \in Drains : drain[d].ev # NoEvent <=> drain[d].pc \in AtWork
  /\ handoff \in [Threads -> Seq(Handoff)]
  /\ closed \in [Threads -> BOOLEAN]
  /\ drain \in [Drains -> Drain]
  /\ desk \in [Operators -> [pc: {"idle", "take", "mark"}, thread: Threads \cup {NoThread}, id: Nat]]
  /\ sent \in [Events -> Nat] /\ cause \in [Events -> Nat]
  /\ hushed \subseteq Events
  /\ late \in [Threads -> SUBSET Drains]
  /\ spare \in [faults: Nat, moves: Nat]

Init ==
  /\ row = [e \in Events |-> [status |-> "absent", attempts |-> 0, due |-> FALSE, lapsed |-> FALSE]]
  /\ handoff = [t \in Threads |-> <<>>]
  /\ closed = [t \in Threads |-> FALSE]
  /\ drain = [d \in Drains |-> NoDrain]
  /\ desk = [o \in Operators |-> NoDesk]
  /\ sent = [e \in Events |-> 0] /\ cause = [e \in Events |-> 0]
  /\ hushed = {}
  /\ late = [t \in Threads |-> {}]
  /\ spare = [faults |-> Faults, moves |-> Moves]

Fault == spare.faults > 0 /\ spare' = [spare EXCEPT !.faults = @ - 1]
Move  == spare.moves > 0 /\ spare' = [spare EXCEPT !.moves = @ - 1]

-----------------------------------------------------------------------------
\* A message is stored and its event enqueued, once per idempotency key; a
\* message that needs a human asks for one, if none is asked for yet.
Enqueue(e) ==
  LET t == ThreadOf[e] IN
  /\ row[e].status = "absent"
  /\ Cardinality({f \in Events : row[f].status # "absent"}) < Stock
  /\ ~ closed[t]
  /\ row' = [row EXCEPT ![e].status = "pending", ![e].due = TRUE]
  /\ UNCHANGED <<closed, drain, desk, sent, hushed, cause, late>>
  /\ \/ UNCHANGED <<handoff, spare>>
     \/ /\ \A i \in DOMAIN handoff[t] : handoff[t][i].status = "closed"
        /\ Consumer[e] = "assistant"
        /\ Move
        /\ handoff' = [handoff EXCEPT ![t] = Append(@, [status |-> "requested", by |-> "anyone"])]

\* retryAt has come; a lock turns two minutes old, its worker dead or alive.
Due(e) ==
  /\ row[e].status \in {"pending", "processing", "failed"} /\ ~ row[e].due
  /\ row' = [row EXCEPT ![e].due = TRUE]
  /\ UNCHANGED <<drain, sent, hushed, cause, spare, world>>

Lapse(e) ==
  /\ row[e].status = "processing" /\ ~ row[e].lapsed
  /\ row' = [row EXCEPT ![e].lapsed = TRUE]
  /\ cause' = [cause EXCEPT ![e] = IF \E d \in Drains : drain[d].ev = e THEN @ + 1 ELSE @]
  /\ UNCHANGED <<drain, sent, hushed, spare, world>>

-----------------------------------------------------------------------------
(* A drain. *)

Becomes(d, s) == drain' = [drain EXCEPT ![d] = s]

\* Mutation: only a failed event is ever taken up again.
UnlockNothing(d) ==
  /\ drain[d].pc = "idle"
  /\ Becomes(d, [NoDrain EXCEPT !.pc = "list"])
  /\ UNCHANGED <<row, sent, hushed, cause, spare, world>>

\* Mutation: every lock is taken back, however young.
UnlockAtOnce(d) ==
  /\ drain[d].pc = "idle"
  /\ row' = [e \in Events |-> IF row[e].status = "processing"
                              THEN [row[e] EXCEPT !.status = "pending", !.lapsed = FALSE]
                              ELSE row[e]]
  /\ Becomes(d, [NoDrain EXCEPT !.pc = "list"])
  /\ UNCHANGED <<sent, hushed, cause, spare, world>>

\* Locks older than two minutes are taken back.
Unlock(d) ==
  /\ drain[d].pc = "idle"
  /\ row' = [e \in Events |-> IF row[e].status = "processing" /\ row[e].lapsed
                              THEN [row[e] EXCEPT !.status = "pending", !.lapsed = FALSE]
                              ELSE row[e]]
  /\ Becomes(d, [NoDrain EXCEPT !.pc = "list"])
  /\ UNCHANGED <<sent, hushed, cause, spare, world>>

\* Mutation: attempts are not counted.
WaitingEver == {e \in Events : row[e].status \in {"pending", "failed"} /\ row[e].due}

Waiting == {e \in Events : row[e].status \in {"pending", "failed"} /\ row[e].due
                           /\ row[e].attempts < MaxAttempts}

\* The first of the waiting events, by id.
Batch(found) ==
  /\ \A i, k \in DOMAIN found : i < k => Order[found[i]] < Order[found[k]]
  /\ \A e \in Waiting : \A i \in DOMAIN found :
       Order[e] <= Order[found[i]] => \E k \in DOMAIN found : found[k] = e

\* ORDER BY id LIMIT n; the attempts are remembered as they are now.
List(d) ==
  LET n == IF Cardinality(Waiting) < Limit THEN Cardinality(Waiting) ELSE Limit IN
  /\ drain[d].pc = "list"
  /\ \E found \in [1 .. n -> Waiting] :
       /\ Batch(found)
       /\ Becomes(d, [NoDrain EXCEPT !.pc = IF n = 0 THEN "idle" ELSE "lock",
                        !.todo = [i \in 1 .. n |-> [ev |-> found[i], tries |-> row[found[i]].attempts]]])
  /\ UNCHANGED <<row, sent, hushed, cause, spare, world>>

\* The drain goes on with the rest of its list.
Onward(s) == [NoDrain EXCEPT !.pc = IF s.todo = <<>> THEN "idle" ELSE "lock", !.todo = s.todo]

\* Mutation: the lock does not look at the status.
LockableAnyhow(e) == row[e].status # "absent"

Lockable(e) == row[e].status \in {"pending", "failed"}

\* The lock asks for the status, not again for the attempts or the due time.
Lock(d) ==
  LET s    == drain[d]
      e    == Head(s.todo).ev
      rest == [s EXCEPT !.todo = Tail(@)] IN
  /\ s.pc = "lock"
  /\ \/ /\ Lockable(e)
        /\ row' = [row EXCEPT ![e] = [status |-> "processing", attempts |-> @.attempts + 1,
                                      due |-> @.due, lapsed |-> FALSE]]
        /\ Becomes(d, [rest EXCEPT !.pc = IF Consumer[e] = "assistant" THEN "check" ELSE "send",
                                   !.ev = e, !.tries = Head(s.todo).tries + 1])
     \/ ~ Lockable(e) /\ Becomes(d, Onward(rest)) /\ UNCHANGED row
  /\ UNCHANGED <<sent, hushed, cause, spare, world>>

Judged(d, verdict) == [drain[d] EXCEPT !.pc = "settle", !.verdict = verdict]

Accepted(t) == \E i \in DOMAIN handoff[t] : handoff[t][i].status = "accepted"

\* Before the reply is generated and again after: an operator who has the
\* thread silences the assistant.  (The ends for want of a thread, a message or a
\* known consumer are not reached: nothing deletes a message, an event goes with
\* its thread, and every caller of enqueueMessengerOutbox names both.)
Heed(d, from, to) ==
  LET e == drain[d].ev IN
  /\ drain[d].pc = from
  /\ IF Accepted(ThreadOf[e])
       THEN Becomes(d, Judged(d, "ok")) /\ hushed' = hushed \cup {e}
       ELSE Becomes(d, [drain[d] EXCEPT !.pc = to]) /\ UNCHANGED hushed
  /\ UNCHANGED <<row, sent, cause, spare, world>>

Check(d) == Heed(d, "check", "generate")

\* Mutation: the generated reply is written without a second look.
GenerateUnchecked(d) ==
  /\ drain[d].pc = "generate"
  /\ Becomes(d, [drain[d] EXCEPT !.pc = "write"])
  /\ UNCHANGED <<row, sent, hushed, cause, spare, world>>

Generate(d) == Heed(d, "generate", "write")

Write(d) ==
  LET e == drain[d].ev IN
  /\ drain[d].pc = "write"
  /\ sent' = [sent EXCEPT ![e] = @ + 1]
  /\ Becomes(d, Judged(d, "ok"))
  /\ late' = [late EXCEPT ![ThreadOf[e]] = @ \ {d}]
  /\ UNCHANGED <<row, hushed, cause, spare, handoff, closed, desk>>

\* The channel takes the message, refuses it for good or for now, or takes it
\* and its answer, or what is recorded of it, is lost.
Send(d) ==
  LET e == drain[d].ev
      gone == sent' = [sent EXCEPT ![e] = @ + 1] IN
  /\ drain[d].pc = "send"
  /\ IF ThreadOf[e] \notin Linked
       THEN Becomes(d, Judged(d, "ok")) /\ hushed' = hushed \cup {e} /\ UNCHANGED <<sent, cause, spare>>
       ELSE /\ \/ gone /\ Becomes(d, Judged(d, "ok")) /\ UNCHANGED <<cause, spare>>
               \/ \E v \in {"retry", "reject"} : Becomes(d, Judged(d, v)) /\ UNCHANGED <<sent, cause, spare>>
               \/ /\ gone /\ Fault
                  /\ cause' = [cause EXCEPT ![e] = @ + 1]
                  /\ Becomes(d, Judged(d, "retry"))
            /\ UNCHANGED hushed
  /\ UNCHANGED <<row, world>>

\* Mutation: an event that cannot be delivered is done with.
SettledForGood(r, s) ==
  [r EXCEPT !.status = IF s.verdict = "retry" THEN "failed" ELSE "delivered",
            !.lapsed = FALSE, !.due = FALSE]

\* The settled row: a retry is due later, unless the attempts are used up.
Settled(r, s) ==
  CASE s.verdict = "ok"     -> [r EXCEPT !.status = "delivered", !.lapsed = FALSE]
    [] s.verdict = "reject" -> [r EXCEPT !.status = "dead", !.lapsed = FALSE]
    [] s.verdict = "retry"  ->
         IF s.tries >= MaxAttempts THEN [r EXCEPT !.status = "dead", !.lapsed = FALSE]
         ELSE [r EXCEPT !.status = "failed", !.lapsed = FALSE, !.due = FALSE]

\* By id alone: nothing asks whether the lock is still this drain's.
Settle(d) ==
  LET s == drain[d] IN
  /\ s.pc \in {"settle", "catch"}
  /\ row' = [row EXCEPT ![s.ev] = Settled(@, s)]
  /\ Becomes(d, Onward(s))
  /\ UNCHANGED <<sent, hushed, cause, spare, world>>

\* A statement in the try throws, having done nothing or all it was to do; what
\* went out, or was to be settled, will be gone over again.  The catch settles the
\* event as one to retry; a throw out of the catch is the end of the drain (Die).
Throw(d) ==
  LET s == drain[d]
      e == s.ev
      costs == cause' = [cause EXCEPT ![e] = @ + 1]
  IN
  /\ s.pc \in InTry
  /\ Fault
  /\ Becomes(d, [s EXCEPT !.pc = "catch", !.verdict = "retry"])
  /\ late' = [late EXCEPT ![ThreadOf[e]] = @ \ {d}]
  /\ \/ s.pc # "settle" /\ UNCHANGED <<row, sent, cause>>
     \/ s.pc = "write" /\ costs /\ sent' = [sent EXCEPT ![e] = @ + 1] /\ UNCHANGED row
     \/ s.pc = "settle" /\ costs /\ row' \in {row, [row EXCEPT ![e] = Settled(@, s)]} /\ UNCHANGED sent
  /\ UNCHANGED <<hushed, handoff, closed, desk>>

Die(d) ==
  /\ drain[d].pc # "idle"
  /\ Fault
  /\ Becomes(d, NoDrain)
  /\ cause' = [e \in Events |-> IF e = drain[d].ev THEN cause[e] + 1 ELSE cause[e]]
  /\ late' = [t \in Threads |-> late[t] \ {d}]
  /\ UNCHANGED <<row, sent, hushed, handoff, closed, desk>>

-----------------------------------------------------------------------------
(* Operators. *)

\* The last open row, 0 if there is none.
ActiveHandoff(t) ==
  LET open == {i \in DOMAIN handoff[t] : handoff[t][i].status # "closed"} IN
  IF open = {} THEN 0 ELSE CHOOSE i \in open : \A k \in open : k <= i

Seat(o, s) == desk' = [desk EXCEPT ![o] = s]

\* The thread is open and not another operator's.
Takeover(o, t) ==
  LET i == ActiveHandoff(t) IN
  /\ desk[o] = NoDesk
  /\ ~ closed[t]
  /\ i > 0 => handoff[t][i].status = "requested" \/ handoff[t][i].by = o
  /\ Move
  /\ Seat(o, [pc |-> "take", thread |-> t, id |-> i])
  /\ UNCHANGED <<row, handoff, closed, drain, sent, hushed, cause, late>>

\* The row read is updated, whatever has become of it, or one inserted; then
\* the thread is marked.
Take(o) ==
  LET s   == desk[o]
      t   == s.thread
      own == [status |-> "accepted", by |-> o] IN
  /\ s.pc = "take"
  /\ handoff' = [handoff EXCEPT ![t] = IF s.id > 0 THEN [@ EXCEPT ![s.id] = own] ELSE Append(@, own)]
  /\ late' = [late EXCEPT ![t] =
                IF Accepted(t) THEN @
                ELSE {d \in Drains : drain[d].pc = "write" /\ ThreadOf[drain[d].ev] = t}]
  /\ Seat(o, [s EXCEPT !.pc = "mark"])
  /\ UNCHANGED <<row, closed, drain, sent, hushed, cause, spare>>

Mark(o) ==
  /\ desk[o].pc = "mark"
  /\ closed' = [closed EXCEPT ![desk[o].thread] = FALSE]
  /\ Seat(o, NoDesk)
  /\ UNCHANGED <<row, handoff, drain, sent, hushed, cause, late, spare>>

\* release and close: every open row is closed, the thread is open or resolved.
LetGo(o, t, resolved) ==
  /\ desk[o] = NoDesk
  /\ Move
  /\ handoff' = [handoff EXCEPT ![t] = [i \in DOMAIN @ |-> [@[i] EXCEPT !.status = "closed"]]]
  /\ closed' = [closed EXCEPT ![t] = resolved]
  /\ UNCHANGED <<row, drain, desk, sent, hushed, cause, late>>

-----------------------------------------------------------------------------
DrainStep(d) ==
  \/ Unlock(d) \/ List(d) \/ Lock(d) \/ Check(d) \/ Generate(d) \/ Write(d) \/ Send(d) \/ Settle(d)

Next ==
  \/ \E e \in Events : Enqueue(e) \/ Due(e) \/ Lapse(e)
  \/ \E d \in Drains : DrainStep(d) \/ Throw(d) \/ Die(d)
  \/ \E o \in Operators : Take(o) \/ Mark(o)
  \/ \E o \in Operators, t \in Threads :
       Takeover(o, t) \/ LetGo(o, t, FALSE) \/ LetGo(o, t, TRUE)

Spec == Init /\ [][Next]_vars

\* The cron starts a drain again and again and a drain goes on until it ends or
\* dies; time passes.  Nobody need write or take a thread over.
Fairness ==
  /\ \A d \in Drains : WF_vars(DrainStep(d))
  /\ \A e \in Events : WF_vars(Due(e)) /\ WF_vars(Lapse(e))

FairSpec == Spec /\ Fairness

-----------------------------------------------------------------------------
\* An event is sent, or answered, a second time only after a mishap: a drain died
\* on it, the answer of what sent or settled it was lost or threw, or a drain was
\* still at work on it when its lock turned two minutes old (drainMessengerOutbox).
RepeatedForCause == \A e \in Events : sent[e] <= 1 + cause[e]

\* An event recorded as delivered was sent, or left alone for an operator or for
\* want of a link: no drain that failed calls it delivered.
DeliveredIsTrue ==
  \A e \in Events : row[e].status = "delivered" => sent[e] > 0 \/ e \in hushed

\* The lock does not count attempts again, so a list read in time may be used too
\* late; each drain can exceed the eight attempts by one at most.
AttemptsBounded == \A e \in Events : row[e].attempts < MaxAttempts + Cardinality(Drains)

Speaks(d) == drain[d].pc = "write" /\ sent'[drain[d].ev] > sent[drain[d].ev]

\* Only a reply that had passed its second check before the thread was taken
\* over is stored while an operator has the thread (processAssistant).
SpeaksOverOnlyIfLate ==
  [][\A d \in Drains : Speaks(d) /\ drain'[d] # drain[d] /\ Accepted(ThreadOf[drain[d].ev])
        => d \in late[ThreadOf[drain[d].ev]]]_vars

\* The code's comment: a late model response cannot speak over an accepted
\* human operator.
NeverSpeaksOver ==
  [][\A d \in Drains : Speaks(d) /\ drain'[d] # drain[d] => ~ Accepted(ThreadOf[drain[d].ev])]_vars

\* Every event is delivered or given up in the end, or has used up its attempts;
\* one whose last drain died is never given up, nor looked at again.
EveryEventEnds ==
  \A e \in Events :
    row[e].status = "pending" ~>
      \/ row[e].status \in {"delivered", "dead"}
      \/ row[e].status \in {"pending", "failed"} /\ row[e].attempts >= MaxAttempts

-----------------------------------------------------------------------------
(* The outbox rows as the items they stand for. *)

Phase(status) ==
  CASE status \in {"pending", "processing", "failed"} -> "waiting"
    [] status \in {"absent", "delivered", "dead"}     -> status

Phases == [e \in Events |-> Phase(row[e].status)]

Outbox == INSTANCE AtLeastOnce
            WITH Items <- Events, phase <- Phases, copies <- sent, mishaps <- cause, spared <- hushed

\* Whatever drains lock, settle or die, a row is delivered only if it was sent or
\* left alone, is sent once more at most for each mishap, and without one is
\* never touched again once it has ended, although no settling UPDATE asks whose
\* the lock is (drainMessengerOutbox).
ImplementsAtLeastOnce == Outbox!Spec
=============================================================================
