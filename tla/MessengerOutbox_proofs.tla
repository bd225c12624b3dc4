------------------------ MODULE MessengerOutbox_proofs ------------------------
(***************************************************************************)
(* Theorems about MessengerOutbox, for every set of events, threads and    *)
(* drains and every limit.                                                 *)
(*                                                                         *)
(* Every statement after the lock names the event alone, so a drain cannot *)
(* rely on the row it locked.  The inductive invariant IInv counts instead:*)
(* the drains that may yet send an event or send it back (Busy) and those  *)
(* that may yet lock it (Listers).  What was sent and the busy drains      *)
(* together never outnumber the mishaps by more than one, and not at all   *)
(* while the event may be locked.                                          *)
(***************************************************************************)
EXTENDS MessengerOutbox, FiniteSetTheorems, SequenceTheorems, WellFoundedInduction, TLAPS

\* A drain at work on an event that may send it, or send it back to the queue.
IsBusy(s, e)  == s.ev = e /\ ~(s.pc = "settle" /\ s.verdict \in {"ok", "reject"})
Busy(e)       == {d \in Drains : IsBusy(drain[d], e)}
NumBusy(e)    == Cardinality(Busy(e))

\* A drain that has an event on its list.
Lists(s, e)   == \E i \in DOMAIN s.todo : s.todo[i].ev = e
Listers(e)    == {d \in Drains : Lists(drain[d], e)}
NumListers(e) == Cardinality(Listers(e))

\* The event may be locked, now or after the next drain has begun.
Open(r) == r.status \in {"absent", "pending", "failed"} \/ (r.status = "processing" /\ r.lapsed)

EventOK(e) ==
  /\ row[e].status \in {"processing", "failed", "dead"} => row[e].attempts > 0
  /\ row[e].status = "delivered" => sent[e] > 0 \/ e \in hushed
  /\ sent[e] + NumBusy(e) <= 1 + cause[e]
  /\ Open(row[e]) => sent[e] + NumBusy(e) <= cause[e]
  /\ row[e].status = "processing" /\ ~row[e].lapsed =>
       (\E d \in Drains : drain[d].ev = e) \/ sent[e] + NumBusy(e) <= cause[e]
  /\ row[e].attempts + NumListers(e) < MaxAttempts + Cardinality(Drains)

\* What a drain carries along: a list that names no event twice and, at work, an
\* event that was tried and that its verdict is true of.
DrainOK(s) ==
  /\ s.ev # NoEvent <=> s.pc \in AtWork
  /\ s.pc = "lock" => s.todo # <<>>
  /\ \A i, k \in DOMAIN s.todo : s.todo[i].ev = s.todo[k].ev => i = k
  /\ s.ev # NoEvent => row[s.ev].attempts > 0
  /\ s.pc = "settle" => s.verdict # "none"
  /\ s.pc = "catch" => s.verdict = "retry"
  /\ s.pc = "settle" /\ s.verdict = "ok" => sent[s.ev] > 0 \/ s.ev \in hushed

\* A drain that is about to write although an operator has the thread is late.
SpeechOK(d) ==
  drain[d].pc = "write" /\ Accepted(ThreadOf[drain[d].ev]) => d \in late[ThreadOf[drain[d].ev]]

RowsTyped   == /\ row \in [Events -> Row] /\ sent \in [Events -> Nat] /\ cause \in [Events -> Nat]
               /\ hushed \subseteq Events
DrainsTyped == drain \in [Drains -> Drain]
WorldTyped  == /\ handoff \in [Threads -> Seq(Handoff)] /\ closed \in [Threads -> BOOLEAN]
               /\ desk \in [Operators -> [pc: {"idle", "take", "mark"}, thread: Threads \cup {NoThread}, id: Nat]]
               /\ late \in [Threads -> SUBSET Drains]
               /\ spare \in [faults: Nat, moves: Nat]

IInv ==
  /\ RowsTyped /\ DrainsTyped /\ WorldTyped
  /\ \A e \in Events : EventOK(e)
  /\ \A d \in Drains : DrainOK(drain[d])
  /\ \A d \in Drains : SpeechOK(d)

USE OutboxAssumption

-----------------------------------------------------------------------------
(* Counting. *)

LEMMA Counting ==
  ASSUME NEW S \in SUBSET Drains, NEW T \in SUBSET Drains, NEW d \in Drains,
         \A x \in Drains : x # d => (x \in S <=> x \in T)
  PROVE  /\ Cardinality(S) \in Nat /\ Cardinality(T) \in Nat
         /\ Cardinality(Drains) \in Nat /\ Cardinality(T) <= Cardinality(Drains)
         /\ (d \in T => d \in S) => Cardinality(T) <= Cardinality(S)
         /\ d \in S /\ d \notin T => Cardinality(T) + 1 = Cardinality(S)
         /\ Cardinality(T) <= Cardinality(S) + 1
  <1>1. IsFiniteSet(S) /\ IsFiniteSet(T) /\ Cardinality(T) <= Cardinality(Drains)
    BY FS_Subset
  <1>2. Cardinality(S) \in Nat /\ Cardinality(T) \in Nat /\ Cardinality(Drains) \in Nat
    BY <1>1, FS_CardinalityType
  <1>3. CASE d \in S /\ d \in T
    <2>1. S = T
      <3>1. \A x \in Drains : x \in S <=> x \in T
        BY <1>3
      <3>2. S \subseteq T /\ T \subseteq S
        BY <3>1
      <3> QED BY <3>2, Zenon
    <2> QED BY <1>1, <1>2, <1>3, <2>1
  <1>4. CASE d \notin S /\ d \notin T
    <2>1. S = T
      <3>1. \A x \in Drains : x \in S <=> x \in T
        BY <1>4
      <3>2. S \subseteq T /\ T \subseteq S
        BY <3>1
      <3> QED BY <3>2, Zenon
    <2> QED BY <1>1, <1>2, <1>4, <2>1
  <1>5. CASE d \in S /\ d \notin T
    <2>1. S = T \cup {d}
      BY <1>5
    <2>2. Cardinality(S) = Cardinality(T) + 1
      BY <1>1, <1>5, <2>1, FS_AddElement
    <2> QED BY <1>1, <1>2, <1>5, <2>2
  <1>6. CASE d \notin S /\ d \in T
    <2>1. T = S \cup {d}
      BY <1>6
    <2>2. Cardinality(T) = Cardinality(S) + 1
      BY <1>1, <1>6, <2>1, FS_AddElement
    <2> QED BY <1>1, <1>2, <1>6, <2>2
  <1> QED BY <1>3, <1>4, <1>5, <1>6

\* One drain moves; the others stay as they are.
Moved(d) == drain' \in [Drains -> Drain] /\ \A x \in Drains : x # d => drain'[x] = drain[x]

LEMMA BusyMoves ==
  ASSUME NEW d \in Drains, Moved(d), NEW e \in Events
  PROVE  /\ NumBusy(e) \in Nat /\ NumBusy(e)' \in Nat
         /\ (IsBusy(drain'[d], e) => IsBusy(drain[d], e)) => NumBusy(e)' <= NumBusy(e)
         /\ IsBusy(drain[d], e) /\ ~IsBusy(drain'[d], e) => NumBusy(e)' + 1 = NumBusy(e)
         /\ NumBusy(e)' <= NumBusy(e) + 1
  <1>1. PICK S \in SUBSET Drains : S = Busy(e)
    BY DEF Busy
  <1>2. PICK T \in SUBSET Drains : T = Busy(e)'
    BY DEF Busy
  <1>3. \A x \in Drains : (x \in S <=> IsBusy(drain[x], e)) /\ (x \in T <=> IsBusy(drain'[x], e))
    BY <1>1, <1>2 DEF Busy
  <1>4. \A x \in Drains : x # d => (x \in S <=> x \in T)
    BY <1>3 DEF Moved
  <1>5. NumBusy(e) = Cardinality(S) /\ NumBusy(e)' = Cardinality(T)
    BY <1>1, <1>2 DEF NumBusy
  <1> HIDE DEF IsBusy
  <1> QED BY <1>3, <1>4, <1>5, Counting

LEMMA ListersMove ==
  ASSUME NEW d \in Drains, Moved(d), NEW e \in Events
  PROVE  /\ NumListers(e) \in Nat /\ NumListers(e)' \in Nat /\ Cardinality(Drains) \in Nat
         /\ NumListers(e)' <= Cardinality(Drains)
         /\ (Lists(drain'[d], e) => Lists(drain[d], e)) => NumListers(e)' <= NumListers(e)
         /\ Lists(drain[d], e) /\ ~Lists(drain'[d], e) => NumListers(e)' + 1 = NumListers(e)
  <1>1. PICK S \in SUBSET Drains : S = Listers(e)
    BY DEF Listers
  <1>2. PICK T \in SUBSET Drains : T = Listers(e)'
    BY DEF Listers
  <1>3. \A x \in Drains : (x \in S <=> Lists(drain[x], e)) /\ (x \in T <=> Lists(drain'[x], e))
    BY <1>1, <1>2 DEF Listers
  <1>4. \A x \in Drains : x # d => (x \in S <=> x \in T)
    BY <1>3 DEF Moved
  <1>5. NumListers(e) = Cardinality(S) /\ NumListers(e)' = Cardinality(T)
    BY <1>1, <1>2 DEF NumListers
  <1> QED BY <1>3, <1>4, <1>5, Counting

\* With the drains as they were the counts are as they were.
LEMMA SameCounts ==
  ASSUME NEW e \in Events, drain' = drain
  PROVE  NumBusy(e)' = NumBusy(e) /\ NumListers(e)' = NumListers(e)
  BY DEF NumBusy, NumListers, Busy, Listers

LEMMA EventIs ==
  ASSUME IInv, NEW e \in Events
  PROVE  /\ row[e] \in Row /\ row[e].attempts \in Nat /\ sent[e] \in Nat /\ cause[e] \in Nat
         /\ EventOK(e) /\ NumBusy(e) \in Nat /\ NumListers(e) \in Nat
         /\ MaxAttempts \in Nat /\ Cardinality(Drains) \in Nat
  <1>1. row[e] \in Row /\ sent[e] \in Nat /\ cause[e] \in Nat /\ EventOK(e)
    BY DEF IInv, RowsTyped
  <1>2. row[e].attempts \in Nat
    BY <1>1 DEF Row
  <1>3. Busy(e) \subseteq Drains /\ Listers(e) \subseteq Drains
    BY DEF Busy, Listers
  <1>4. NumBusy(e) \in Nat /\ NumListers(e) \in Nat /\ Cardinality(Drains) \in Nat
    BY <1>3, FS_Subset, FS_CardinalityType DEF NumBusy, NumListers
  <1> QED BY <1>1, <1>2, <1>4

-----------------------------------------------------------------------------
(* What a step leaves alone stays as it should be. *)

\* Attempts, sendings and silences are not taken back.
Grows ==
  /\ \A e \in Events : row[e].attempts > 0 => row'[e].attempts > 0
  /\ \A e \in Events : sent[e] > 0 => sent'[e] > 0
  /\ hushed \subseteq hushed'

LEMMA DrainStays ==
  ASSUME IInv, Grows, NEW x \in Drains, drain'[x] = drain[x] PROVE DrainOK(drain[x])'
  <1>1. DrainOK(drain[x]) /\ drain[x] \in Drain
    BY DEF IInv, DrainsTyped
  <1>2. drain[x].ev \in Events \cup {NoEvent}
    BY <1>1 DEF Drain
  <1>3. drain[x].pc = "settle" => drain[x].ev \in Events
    BY <1>1, <1>2 DEF DrainOK, AtWork, InTry
  <1> QED BY <1>1, <1>2, <1>3 DEF DrainOK, Grows

\* An event the moving drain is not at work on and does not put on its list.
LEMMA EventStays ==
  ASSUME IInv, NEW d \in Drains, Moved(d), NEW e \in Events,
         row'[e] = row[e], sent'[e] = sent[e], cause'[e] = cause[e], hushed \subseteq hushed',
         drain[d].ev # e, drain'[d].ev # e, Lists(drain'[d], e) => Lists(drain[d], e)
  PROVE  EventOK(e)'
  <1>1. NumBusy(e)' \in Nat /\ NumBusy(e)' <= NumBusy(e)
    BY BusyMoves DEF IsBusy
  <1>2. NumListers(e)' \in Nat /\ NumListers(e)' <= NumListers(e)
    BY ListersMove
  <1>3. EventOK(e) /\ row[e].attempts \in Nat /\ sent[e] \in Nat /\ cause[e] \in Nat /\ NumBusy(e) \in Nat
        /\ NumListers(e) \in Nat /\ MaxAttempts \in Nat /\ Cardinality(Drains) \in Nat
    BY EventIs
  <1>4. \A n \in Nat : sent[e] + NumBusy(e) <= n => sent'[e] + NumBusy(e)' <= n
    BY <1>1, <1>3
  <1>5. sent'[e] + NumBusy(e)' <= 1 + cause'[e]
    BY <1>3, <1>4 DEF EventOK
  <1>6. sent[e] + NumBusy(e) <= cause[e] => sent'[e] + NumBusy(e)' <= cause'[e]
    BY <1>3, <1>4
  <1>7. row'[e].attempts + NumListers(e)' < MaxAttempts + Cardinality(Drains)
    <2>1. row[e].attempts + NumListers(e) < MaxAttempts + Cardinality(Drains)
      BY <1>3 DEF EventOK
    <2> QED BY <1>2, <1>3, <2>1
  <1>8. (\E x \in Drains : drain[x].ev = e) => \E x \in Drains : drain'[x].ev = e
    BY DEF Moved
  <1> QED BY <1>3, <1>5, <1>6, <1>7, <1>8 DEF EventOK, Open

\* A step of drain d, from what it does to its own state and to each event.
LEMMA ByDrain ==
  ASSUME IInv, NEW d \in Drains, Moved(d), RowsTyped', Grows, UNCHANGED <<handoff, closed, desk>>,
         late' \in [Threads -> SUBSET Drains], spare' \in [faults: Nat, moves: Nat],
         \A t \in Threads : \A x \in late[t] : x # d => x \in late'[t],
         DrainOK(drain[d])', SpeechOK(d)', \A e \in Events : EventOK(e)'
  PROVE  IInv'
  <1>1. ASSUME NEW x \in Drains PROVE DrainOK(drain[x])'
    BY DrainStays DEF Moved
  <1>2. ASSUME NEW x \in Drains PROVE SpeechOK(x)'
    <2> SUFFICES ASSUME x # d, drain'[x].pc = "write", Accepted(ThreadOf[drain[x].ev])'
                 PROVE  x \in late'[ThreadOf[drain'[x].ev]]
      BY DEF SpeechOK
    <2>1. drain'[x] = drain[x] /\ DrainOK(drain[x]) /\ SpeechOK(x) /\ drain[x] \in Drain
      BY DEF Moved, IInv, DrainsTyped
    <2>2. drain[x].ev \in Events
      BY <2>1 DEF DrainOK, AtWork, InTry, Drain
    <2>3. ThreadOf[drain[x].ev] \in Threads
      BY <2>2
    <2>4. x \in late[ThreadOf[drain[x].ev]]
      BY <2>1 DEF SpeechOK, Accepted
    <2> QED BY <2>1, <2>3, <2>4
  <1>3. WorldTyped'
    BY DEF IInv, WorldTyped
  <1> QED BY <1>1, <1>2, <1>3 DEF IInv, Moved, DrainsTyped

-----------------------------------------------------------------------------
(* A drain. *)

LEMMA DrainIs ==
  ASSUME IInv, NEW d \in Drains
  PROVE  /\ drain[d] \in Drain /\ DrainOK(drain[d])
         /\ drain[d].pc \in AtWork => drain[d].ev \in Events /\ ThreadOf[drain[d].ev] \in Threads
  <1>1. drain[d] \in Drain /\ DrainOK(drain[d])
    BY DEF IInv, DrainsTyped
  <1>2. drain[d].pc \in AtWork => drain[d].ev \in Events
    BY <1>1 DEF Drain, DrainOK
  <1> QED BY <1>1, <1>2

LEMMA BecomesIs ==
  ASSUME IInv, NEW d \in Drains, NEW s \in Drain, Becomes(d, s)
  PROVE  Moved(d) /\ drain'[d] = s
  BY DEF Becomes, Moved, IInv, DrainsTyped

LEMMA NoDrainOK ==
  /\ NoDrain \in Drain /\ DrainOK(NoDrain) /\ DrainOK(NoDrain)' /\ \A e \in Events : ~Lists(NoDrain, e)
  /\ NoDrain.ev = NoEvent /\ NoDrain.todo = <<>> /\ NoDrain.pc = "idle" /\ DOMAIN NoDrain.todo = {}
  BY DEF NoDrain, Drain, DrainOK, AtWork, InTry, Lists

\* The rest of a list.
LEMMA RestIs ==
  ASSUME NEW s \in Drain, s.todo # <<>>, \A i, k \in DOMAIN s.todo : s.todo[i].ev = s.todo[k].ev => i = k
  PROVE  /\ Tail(s.todo) \in Seq([ev: Events, tries: Nat])
         /\ Head(s.todo) = s.todo[1] /\ Head(s.todo).ev \in Events /\ Head(s.todo).tries \in Nat
         /\ 1 \in DOMAIN s.todo
         /\ \A i \in DOMAIN Tail(s.todo) : i + 1 \in DOMAIN s.todo /\ Tail(s.todo)[i] = s.todo[i + 1]
                                           /\ Tail(s.todo)[i].ev # Head(s.todo).ev
         /\ \A i, k \in DOMAIN Tail(s.todo) : Tail(s.todo)[i].ev = Tail(s.todo)[k].ev => i = k
  <1> DEFINE q == s.todo
  <1>1. q \in Seq([ev: Events, tries: Nat]) /\ q # <<>> /\ \A i, k \in DOMAIN q : q[i].ev = q[k].ev => i = k
    BY DEF Drain
  <1> HIDE DEF q
  <1>2. Len(q) \in Nat /\ Len(q) > 0 /\ DOMAIN q = 1 .. Len(q) /\ \A i \in DOMAIN q : q[i] \in [ev: Events, tries: Nat]
    <2>1. Len(q) \in Nat /\ DOMAIN q = 1 .. Len(q)
      BY <1>1, LenProperties
    <2>2. Len(q) # 0
      BY <1>1, EmptySeq
    <2>3. \A i \in 1 .. Len(q) : q[i] \in [ev: Events, tries: Nat]
      BY <1>1, ElementOfSeq
    <2> QED BY <2>1, <2>2, <2>3
  <1>3. /\ Tail(q) \in Seq([ev: Events, tries: Nat]) /\ Len(Tail(q)) = Len(q) - 1
        /\ Head(q) = q[1] /\ 1 \in DOMAIN q
    BY <1>1, <1>2
  <1>4. DOMAIN Tail(q) = 1 .. (Len(q) - 1)
    BY <1>2, <1>3
  <1>5. ASSUME NEW i \in DOMAIN Tail(q) PROVE i \in Nat /\ i + 1 \in DOMAIN q /\ Tail(q)[i] = q[i + 1] /\ i + 1 # 1
    BY <1>1, <1>2, <1>3, <1>4
  <1>6. Head(q).ev \in Events /\ Head(q).tries \in Nat
    BY <1>2, <1>3
  <1>7. ASSUME NEW i \in DOMAIN Tail(q) PROVE Tail(q)[i].ev # Head(q).ev
    BY <1>1, <1>3, <1>5
  <1>8. ASSUME NEW i \in DOMAIN Tail(q), NEW k \in DOMAIN Tail(q), Tail(q)[i].ev = Tail(q)[k].ev PROVE i = k
    <2>1. i + 1 = k + 1
      BY <1>1, <1>5, <1>8
    <2> QED BY <1>5, <2>1
  <1>9. /\ Tail(q) \in Seq([ev: Events, tries: Nat])
        /\ Head(q) = q[1] /\ Head(q).ev \in Events /\ Head(q).tries \in Nat
        /\ 1 \in DOMAIN q
        /\ \A i \in DOMAIN Tail(q) : i + 1 \in DOMAIN q /\ Tail(q)[i] = q[i + 1] /\ Tail(q)[i].ev # Head(q).ev
        /\ \A i, k \in DOMAIN Tail(q) : Tail(q)[i].ev = Tail(q)[k].ev => i = k
    BY <1>3, <1>5, <1>6, <1>7, <1>8
  <1> QED BY <1>9 DEF q

\* A drain that goes on to its next event has let go of the last one.
LEMMA OnwardIs ==
  ASSUME NEW s \in Drain, \A i, k \in DOMAIN s.todo : s.todo[i].ev = s.todo[k].ev => i = k
  PROVE  /\ Onward(s) \in Drain /\ DrainOK(Onward(s)) /\ DrainOK(Onward(s))'
         /\ Onward(s).ev = NoEvent /\ Onward(s).todo = s.todo /\ Onward(s).pc \in {"idle", "lock"}
  <1>1. /\ Onward(s) \in Drain /\ Onward(s).ev = NoEvent /\ Onward(s).todo = s.todo
        /\ Onward(s).pc = IF s.todo = <<>> THEN "idle" ELSE "lock"
    BY DEF Onward, NoDrain, Drain
  <1> QED BY <1>1 DEF DrainOK, AtWork, InTry

\* The drain with the rest of its list, and the drain that has locked an event.
Resumed(s, rest)    == [s EXCEPT !.todo = rest]
Taken(q, pc, e, n)  == [q EXCEPT !.pc = pc, !.ev = e, !.tries = n + 1]

LEMMA ResumedIs ==
  ASSUME NEW s \in Drain, NEW rest \in Seq([ev: Events, tries: Nat])
  PROVE  Resumed(s, rest) \in Drain /\ Resumed(s, rest).todo = rest /\ Resumed(s, rest).ev = s.ev
  BY DEF Drain, Resumed

LEMMA TakenIs ==
  ASSUME NEW q \in Drain, NEW pc \in {"check", "send"}, NEW e \in Events, NEW n \in Nat
  PROVE  /\ Taken(q, pc, e, n) \in Drain /\ Taken(q, pc, e, n).pc = pc /\ Taken(q, pc, e, n).ev = e
         /\ Taken(q, pc, e, n).todo = q.todo
  <1>1. n + 1 \in Nat
    OBVIOUS
  <1> QED BY <1>1 DEF Drain, Taken

LEMMA SameWorld ==
  ASSUME IInv, UNCHANGED <<late, spare>>
  PROVE  /\ late' \in [Threads -> SUBSET Drains] /\ spare' \in [faults: Nat, moves: Nat]
         /\ \A t \in Threads : \A x \in late[t] : x \in late'[t]
  BY DEF IInv, WorldTyped

\* Who does not write speaks over no one.
LEMMA Silent == ASSUME NEW d \in Drains, drain'[d].pc # "write" PROVE SpeechOK(d)'
  BY DEF SpeechOK

\* A step of a drain that stays at work on its event and leaves the row alone: what was
\* sent and the busy drains grow together no more than the mishaps.
LEMMA ByWork ==
  ASSUME IInv, NEW d \in Drains, NEW e \in Events, drain[d].ev = e, Moved(d),
         drain'[d].ev = e, drain'[d].todo = drain[d].todo, drain'[d].pc \in AtWork,
         drain'[d].pc = "settle" => drain'[d].verdict # "none",
         drain'[d].pc = "catch" => drain'[d].verdict = "retry",
         drain'[d].pc = "settle" /\ drain'[d].verdict = "ok" => sent'[e] > 0 \/ e \in hushed',
         RowsTyped', row' = row, hushed \subseteq hushed', UNCHANGED <<handoff, closed, desk>>,
         late' \in [Threads -> SUBSET Drains], spare' \in [faults: Nat, moves: Nat],
         \A t \in Threads : \A x \in late[t] : x # d => x \in late'[t],
         \A f \in Events : f # e => sent'[f] = sent[f] /\ cause'[f] = cause[f],
         sent[e] <= sent'[e],
         sent'[e] + NumBusy(e)' + cause[e] <= sent[e] + NumBusy(e) + cause'[e],
         SpeechOK(d)'
  PROVE  IInv'
  <1>1. Grows
    <2>1. ASSUME NEW f \in Events, sent[f] > 0 PROVE sent'[f] > 0
      <3>1. sent[f] \in Nat /\ sent'[f] \in Nat
        BY DEF RowsTyped, IInv
      <3>2. f = e \/ sent'[f] = sent[f]
        OBVIOUS
      <3> QED BY <2>1, <3>1, <3>2
    <2> QED BY <2>1 DEF Grows
  <1>2. DrainOK(drain[d]) /\ row[e].attempts > 0
    <2>1. e # NoEvent
      OBVIOUS
    <2> QED BY <2>1, DrainIs DEF DrainOK
  <1>3. DrainOK(drain[d])'
    <2>1. e # NoEvent /\ drain'[d].pc # "lock"
      BY DEF AtWork, InTry
    <2> QED BY <1>2, <2>1 DEF DrainOK
  <1>4. EventOK(e)'
    <2>1. EventOK(e) /\ row[e].attempts \in Nat /\ sent[e] \in Nat /\ cause[e] \in Nat /\ NumBusy(e) \in Nat
          /\ NumListers(e) \in Nat /\ MaxAttempts \in Nat /\ Cardinality(Drains) \in Nat
      BY EventIs
    <2>2. sent'[e] \in Nat /\ cause'[e] \in Nat /\ NumBusy(e)' \in Nat
      BY BusyMoves DEF RowsTyped
    <2>3. NumListers(e)' \in Nat /\ NumListers(e)' <= NumListers(e)
      BY ListersMove DEF Lists
    <2>4. sent'[e] + NumBusy(e)' <= 1 + cause'[e]
      <3>1. sent[e] + NumBusy(e) <= 1 + cause[e]
        BY <2>1 DEF EventOK
      <3> QED BY <2>1, <2>2, <3>1
    <2>5. sent[e] + NumBusy(e) <= cause[e] => sent'[e] + NumBusy(e)' <= cause'[e]
      BY <2>1, <2>2
    <2>6. row'[e].attempts + NumListers(e)' < MaxAttempts + Cardinality(Drains)
      <3>1. row[e].attempts + NumListers(e) < MaxAttempts + Cardinality(Drains)
        BY <2>1 DEF EventOK
      <3> QED BY <2>1, <2>3, <3>1
    <2>7. row[e].status = "delivered" => sent'[e] > 0 \/ e \in hushed'
      BY <1>1, <2>1 DEF EventOK, Grows
    <2> QED BY <2>1, <2>4, <2>5, <2>6, <2>7 DEF EventOK, Open
  <1>5. ASSUME NEW f \in Events, f # e PROVE EventOK(f)'
    BY <1>5, EventStays DEF Lists
  <1> QED BY <1>1, <1>3, <1>4, <1>5, ByDrain

LEMMA Steady ==
  ASSUME IInv, row' = row, sent' = sent, cause' = cause, hushed' = hushed PROVE RowsTyped' /\ Grows
  BY DEF IInv, RowsTyped, Grows

LEMMA HeedOK ==
  ASSUME IInv, NEW d \in Drains, NEW from \in {"check", "generate"}, NEW to \in {"generate", "write"}, Heed(d, from, to)
  PROVE  IInv'
  <1>1. drain[d] \in Drain /\ drain[d].pc = from /\ DrainOK(drain[d]) /\ from \in AtWork
    BY DrainIs DEF Heed, AtWork, InTry
  <1>2. PICK e \in Events : drain[d].ev = e /\ ThreadOf[e] \in Threads
    BY <1>1, DrainIs
  <1>3. UNCHANGED <<row, sent, cause, spare, handoff, closed, desk, late>>
    BY DEF Heed, world
  <1>4. PICK s \in Drain : s = drain[d]
    BY <1>1
  <1>5. CASE /\ Accepted(ThreadOf[e]) /\ hushed' = hushed \cup {e} /\ Becomes(d, Judged(d, "ok"))
    <2>1. PICK x \in Drain : x = [s EXCEPT !.pc = "settle", !.verdict = "ok"]
      BY DEF Drain
    <2>2. x.ev = s.ev /\ x.todo = s.todo /\ x.pc = "settle" /\ x.verdict = "ok"
      BY <2>1 DEF Drain
    <2>3. Moved(d) /\ drain'[d] = x
      BY <1>4, <1>5, <2>1, BecomesIs DEF Judged
    <2>4. NumBusy(e)' \in Nat /\ NumBusy(e)' <= NumBusy(e) /\ NumBusy(e) \in Nat
      BY <2>2, <2>3, BusyMoves DEF IsBusy
    <2>5. sent'[e] + NumBusy(e)' + cause[e] <= sent[e] + NumBusy(e) + cause'[e] /\ sent[e] <= sent'[e]
      BY <1>3, <2>4, EventIs
    <2>6. RowsTyped'
      BY <1>3, <1>5 DEF IInv, RowsTyped
    <2> QED BY <1>2, <1>3, <1>4, <1>5, <2>2, <2>3, <2>5, <2>6, SameWorld, Silent, ByWork DEF AtWork, InTry
  <1>6. CASE ~Accepted(ThreadOf[e]) /\ hushed' = hushed /\ Becomes(d, [drain[d] EXCEPT !.pc = to])
    <2>1. PICK x \in Drain : x = [s EXCEPT !.pc = to]
      BY DEF Drain
    <2>2. x.ev = s.ev /\ x.todo = s.todo /\ x.pc = to
      BY <2>1 DEF Drain
    <2>3. Moved(d) /\ drain'[d] = x
      BY <1>4, <1>6, <2>1, BecomesIs
    <2>4. NumBusy(e)' \in Nat /\ NumBusy(e)' <= NumBusy(e) /\ NumBusy(e) \in Nat
      BY <1>1, <1>2, <2>2, <2>3, BusyMoves DEF IsBusy
    <2>5. sent'[e] + NumBusy(e)' + cause[e] <= sent[e] + NumBusy(e) + cause'[e] /\ sent[e] <= sent'[e]
      BY <1>3, <2>4, EventIs
    <2>6. RowsTyped'
      BY <1>3, <1>6, Steady
    <2>7. SpeechOK(d)'
      BY <1>2, <1>3, <1>4, <1>6, <2>2, <2>3 DEF SpeechOK, Accepted
    <2> QED BY <1>2, <1>3, <1>4, <1>6, <2>2, <2>3, <2>5, <2>6, <2>7, SameWorld, ByWork DEF AtWork, InTry
  <1> QED BY <1>2, <1>5, <1>6 DEF Heed

\* What was sent once more counts for the drain that sent it.
LEMMA SentIs ==
  ASSUME IInv, NEW e \in Events, sent' = [sent EXCEPT ![e] = @ + 1]
  PROVE  sent' \in [Events -> Nat] /\ sent'[e] = sent[e] + 1 /\ \A f \in Events : f # e => sent'[f] = sent[f]
  BY EventIs DEF IInv, RowsTyped

LEMMA WriteOK == ASSUME IInv, NEW d \in Drains, Write(d) PROVE IInv'
  <1>1. drain[d] \in Drain /\ drain[d].pc = "write" /\ DrainOK(drain[d])
    BY DrainIs DEF Write
  <1>2. PICK e \in Events : drain[d].ev = e /\ ThreadOf[e] \in Threads
    BY <1>1, DrainIs DEF AtWork, InTry
  <1>3. PICK x \in Drain : x = [drain[d] EXCEPT !.pc = "settle", !.verdict = "ok"]
    BY <1>1 DEF Drain
  <1>4. x.ev = e /\ x.todo = drain[d].todo /\ x.pc = "settle" /\ x.verdict = "ok"
    BY <1>1, <1>2, <1>3 DEF Drain
  <1>5. Moved(d) /\ drain'[d] = x
    BY <1>3, BecomesIs DEF Write, Judged
  <1>6. /\ sent' \in [Events -> Nat] /\ sent'[e] = sent[e] + 1 /\ sent[e] \in Nat
        /\ \A f \in Events : f # e => sent'[f] = sent[f]
    BY <1>2, SentIs, EventIs DEF Write
  <1>7. NumBusy(e)' \in Nat /\ NumBusy(e)' + 1 = NumBusy(e)
    BY <1>1, <1>2, <1>4, <1>5, BusyMoves DEF IsBusy
  <1>8. sent'[e] + NumBusy(e)' + cause[e] <= sent[e] + NumBusy(e) + cause'[e] /\ sent[e] <= sent'[e] /\ sent'[e] > 0
    BY <1>6, <1>7, EventIs DEF Write
  <1>9. late' \in [Threads -> SUBSET Drains] /\ spare' \in [faults: Nat, moves: Nat]
        /\ \A t \in Threads : \A y \in late[t] : y # d => y \in late'[t]
    BY <1>2 DEF Write, IInv, WorldTyped
  <1>10. RowsTyped'
    BY <1>6 DEF Write, IInv, RowsTyped
  <1> QED BY <1>2, <1>4, <1>5, <1>6, <1>8, <1>9, <1>10, Silent, ByWork DEF Write, AtWork, InTry

LEMMA SpareIs ==
  ASSUME IInv, Fault \/ Move \/ UNCHANGED spare PROVE spare' \in [faults: Nat, moves: Nat]
  <1>1. spare \in [faults: Nat, moves: Nat]
    BY DEF IInv, WorldTyped
  <1>2. CASE Fault
    BY <1>1, <1>2 DEF Fault
  <1>3. CASE Move
    BY <1>1, <1>3 DEF Move
  <1> QED BY <1>1, <1>2, <1>3

LEMMA SendOK == ASSUME IInv, NEW d \in Drains, Send(d) PROVE IInv'
  <1>1. drain[d] \in Drain /\ drain[d].pc = "send" /\ DrainOK(drain[d])
    BY DrainIs DEF Send
  <1>2. PICK e \in Events : drain[d].ev = e /\ ThreadOf[e] \in Threads
    BY <1>1, DrainIs DEF AtWork, InTry
  <1>3. UNCHANGED <<row, handoff, closed, desk, late>>
    BY DEF Send, world
  <1>4. PICK v \in {"ok", "retry", "reject"} :
          /\ Becomes(d, Judged(d, v))
          /\ \/ v = "ok" /\ hushed' = hushed \cup {e} /\ UNCHANGED <<sent, cause, spare>>
             \/ v = "ok" /\ sent' = [sent EXCEPT ![e] = @ + 1] /\ UNCHANGED <<hushed, cause, spare>>
             \/ v # "ok" /\ UNCHANGED <<sent, cause, spare, hushed>>
             \/ /\ v = "retry" /\ sent' = [sent EXCEPT ![e] = @ + 1] /\ Fault
                /\ cause' = [cause EXCEPT ![e] = @ + 1] /\ UNCHANGED hushed
    BY <1>2 DEF Send
  <1>5. PICK x \in Drain : x = [drain[d] EXCEPT !.pc = "settle", !.verdict = v]
    BY <1>1 DEF Drain
  <1>6. x.ev = e /\ x.todo = drain[d].todo /\ x.pc = "settle" /\ x.verdict = v
    BY <1>1, <1>2, <1>5 DEF Drain
  <1>7. Moved(d) /\ drain'[d] = x
    BY <1>4, <1>5, BecomesIs DEF Judged
  <1>8. /\ NumBusy(e)' \in Nat /\ NumBusy(e) \in Nat /\ NumBusy(e)' <= NumBusy(e)
        /\ v = "ok" => NumBusy(e)' + 1 = NumBusy(e)
    BY <1>1, <1>2, <1>6, <1>7, BusyMoves DEF IsBusy
  <1>9. late' \in [Threads -> SUBSET Drains] /\ spare' \in [faults: Nat, moves: Nat]
        /\ \A t \in Threads : \A y \in late[t] : y # d => y \in late'[t]
    BY <1>3, <1>4, SpareIs DEF IInv, WorldTyped
  <1>10. /\ RowsTyped' /\ hushed \subseteq hushed'
         /\ \A f \in Events : f # e => sent'[f] = sent[f] /\ cause'[f] = cause[f]
         /\ sent[e] <= sent'[e]
         /\ sent'[e] + NumBusy(e)' + cause[e] <= sent[e] + NumBusy(e) + cause'[e]
         /\ v = "ok" => sent'[e] > 0 \/ e \in hushed'
    <2>1. sent[e] \in Nat /\ cause[e] \in Nat
      BY EventIs
    <2>2. CASE v = "ok" /\ hushed' = hushed \cup {e} /\ UNCHANGED <<sent, cause, spare>>
      BY <1>3, <1>8, <2>1, <2>2 DEF IInv, RowsTyped
    <2>3. CASE v = "ok" /\ sent' = [sent EXCEPT ![e] = @ + 1] /\ UNCHANGED <<hushed, cause, spare>>
      BY <1>3, <1>8, <2>1, <2>3, SentIs DEF IInv, RowsTyped
    <2>4. CASE v # "ok" /\ UNCHANGED <<sent, cause, spare, hushed>>
      BY <1>3, <1>8, <2>1, <2>4 DEF IInv, RowsTyped
    <2>5. CASE /\ v = "retry" /\ sent' = [sent EXCEPT ![e] = @ + 1] /\ Fault
               /\ cause' = [cause EXCEPT ![e] = @ + 1] /\ UNCHANGED hushed
      <3>1. cause' \in [Events -> Nat] /\ cause'[e] = cause[e] + 1 /\ \A f \in Events : f # e => cause'[f] = cause[f]
        BY <2>1, <2>5 DEF IInv, RowsTyped
      <3>2. sent' \in [Events -> Nat] /\ sent'[e] = sent[e] + 1 /\ \A f \in Events : f # e => sent'[f] = sent[f]
        BY <2>5, SentIs
      <3>3. RowsTyped'
        BY <1>3, <2>5, <3>1, <3>2 DEF IInv, RowsTyped
      <3>4. sent'[e] + NumBusy(e)' + cause[e] <= sent[e] + NumBusy(e) + cause'[e] /\ sent[e] <= sent'[e]
        BY <1>8, <2>1, <3>1, <3>2
      <3> QED BY <2>5, <3>1, <3>2, <3>3, <3>4
    <2> QED BY <1>4, <2>2, <2>3, <2>4, <2>5
  <1> QED BY <1>2, <1>3, <1>6, <1>7, <1>9, <1>10, Silent, ByWork DEF AtWork, InTry

LEMMA UnlockOK == ASSUME IInv, NEW d \in Drains, Unlock(d) PROVE IInv'
  <1>1. drain[d].pc = "idle" /\ DrainOK(drain[d]) /\ drain[d].ev = NoEvent
    BY DrainIs DEF Unlock, DrainOK, AtWork, InTry
  <1>2. UNCHANGED <<sent, hushed, cause, spare, handoff, closed, desk, late>>
    BY DEF Unlock, world
  <1>3. PICK x \in Drain : x = [NoDrain EXCEPT !.pc = "list"]
    BY NoDrainOK DEF Drain
  <1>4. x.ev = NoEvent /\ x.todo = <<>> /\ x.pc = "list"
    BY <1>3, NoDrainOK DEF NoDrain
  <1>5. Moved(d) /\ drain'[d] = x
    BY <1>3, BecomesIs DEF Unlock
  <1>6. ASSUME NEW e \in Events
        PROVE  /\ row'[e] \in Row /\ row'[e].attempts = row[e].attempts
               /\ row'[e] = row[e] \/ (row[e].status = "processing" /\ row[e].lapsed /\ row'[e].status = "pending")
    <2>1. PICK r \in Row : r = row[e]
      BY EventIs
    <2>2. row'[e] = IF r.status = "processing" /\ r.lapsed THEN [r EXCEPT !.status = "pending", !.lapsed = FALSE] ELSE r
      BY <2>1 DEF Unlock
    <2> QED BY <2>1, <2>2 DEF Row, Statuses
  <1>7. RowsTyped'
    BY <1>2, <1>6 DEF Unlock, IInv, RowsTyped
  <1>8. Grows
    BY <1>2, <1>6 DEF Grows
  <1>9. DrainOK(drain[d])'
    BY <1>4, <1>5 DEF DrainOK, AtWork, InTry
  <1>10. ASSUME NEW e \in Events PROVE EventOK(e)'
    <2>1. e # NoEvent /\ ~Lists(x, e) /\ ~IsBusy(x, e)
      BY <1>4 DEF Lists, IsBusy
    <2>2. CASE row'[e] = row[e]
      BY <1>1, <1>2, <1>4, <1>5, <2>1, <2>2, EventStays
    <2>3. CASE row[e].status = "processing" /\ row[e].lapsed /\ row'[e].status = "pending"
      <3>1. NumBusy(e)' \in Nat /\ NumBusy(e)' <= NumBusy(e)
        BY <1>5, <2>1, BusyMoves
      <3>2. NumListers(e)' \in Nat /\ NumListers(e)' <= NumListers(e)
        BY <1>5, <2>1, ListersMove
      <3>3. EventOK(e) /\ row[e].attempts \in Nat /\ sent[e] \in Nat /\ cause[e] \in Nat /\ NumBusy(e) \in Nat
            /\ NumListers(e) \in Nat /\ MaxAttempts \in Nat /\ Cardinality(Drains) \in Nat
        BY EventIs
      <3>4. sent[e] + NumBusy(e) <= cause[e] /\ row[e].attempts + NumListers(e) < MaxAttempts + Cardinality(Drains)
        BY <2>3, <3>3 DEF EventOK, Open
      <3>5. sent'[e] + NumBusy(e)' <= cause'[e]
        BY <1>2, <3>1, <3>3, <3>4
      <3>6. sent'[e] + NumBusy(e)' <= 1 + cause'[e]
        BY <1>2, <3>1, <3>3, <3>4
      <3>7. row'[e].attempts + NumListers(e)' < MaxAttempts + Cardinality(Drains)
        BY <1>6, <3>2, <3>3, <3>4
      <3> QED BY <2>3, <3>5, <3>6, <3>7 DEF EventOK
    <2> QED BY <1>6, <2>2, <2>3
  <1> QED BY <1>2, <1>4, <1>5, <1>7, <1>8, <1>9, <1>10, SameWorld, Silent, ByDrain

LEMMA ListOK == ASSUME IInv, NEW d \in Drains, List(d) PROVE IInv'
  <1>1. drain[d].pc = "list" /\ DrainOK(drain[d]) /\ drain[d].ev = NoEvent
    BY DrainIs DEF List, DrainOK, AtWork, InTry
  <1>2. UNCHANGED <<row, sent, hushed, cause, spare, handoff, closed, desk, late>>
    BY DEF List, world
  <1>3. IsFiniteSet(Waiting) /\ Waiting \subseteq Events /\ Cardinality(Waiting) \in Nat
    BY FS_Subset, FS_CardinalityType DEF Waiting
  <1>a. PICK n \in Nat : \E found \in [1 .. n -> Waiting] :
          /\ Batch(found)
          /\ Becomes(d, [NoDrain EXCEPT !.pc = IF n = 0 THEN "idle" ELSE "lock",
                           !.todo = [i \in 1 .. n |-> [ev |-> found[i], tries |-> row[found[i]].attempts]]])
    <2> DEFINE m == IF Cardinality(Waiting) < Limit THEN Cardinality(Waiting) ELSE Limit
    <2>1. m \in Nat
      BY <1>3
    <2>2. \E found \in [1 .. m -> Waiting] :
            /\ Batch(found)
            /\ Becomes(d, [NoDrain EXCEPT !.pc = IF m = 0 THEN "idle" ELSE "lock",
                             !.todo = [i \in 1 .. m |-> [ev |-> found[i], tries |-> row[found[i]].attempts]]])
      BY DEF List
    <2> HIDE DEF m
    <2> QED BY <2>1, <2>2
  <1>4. PICK found \in [1 .. n -> Waiting] :
          /\ \A i, k \in 1 .. n : i < k => Order[found[i]] < Order[found[k]]
          /\ Becomes(d, [NoDrain EXCEPT !.pc = IF n = 0 THEN "idle" ELSE "lock",
                           !.todo = [i \in 1 .. n |-> [ev |-> found[i], tries |-> row[found[i]].attempts]]])
    BY <1>a DEF Batch
  <1>5. PICK todo \in Seq([ev: Events, tries: Nat]) :
          todo = [i \in 1 .. n |-> [ev |-> found[i], tries |-> row[found[i]].attempts]]
    <2>1. \A i \in 1 .. n : found[i] \in Events /\ row[found[i]].attempts \in Nat
      BY <1>3, EventIs
    <2>2. PICK t \in [1 .. n -> [ev: Events, tries: Nat]] :
            t = [i \in 1 .. n |-> [ev |-> found[i], tries |-> row[found[i]].attempts]]
      BY <2>1
    <2>3. t \in Seq([ev: Events, tries: Nat])
      <3>1. t \in UNION {[1 .. m -> [ev: Events, tries: Nat]] : m \in Nat}
        OBVIOUS
      <3> QED BY <3>1, SeqDef, Zenon
    <2> QED BY <2>2, <2>3
  <1>6. DOMAIN todo = 1 .. n /\ \A i \in 1 .. n : todo[i].ev = found[i]
    BY <1>5
  <1>7. \A i, k \in DOMAIN todo : todo[i].ev = todo[k].ev => i = k
    <2> SUFFICES ASSUME NEW i \in 1 .. n, NEW k \in 1 .. n, found[i] = found[k] PROVE i = k
      BY <1>6
    <2>1. Order[found[i]] \in Nat /\ Order[found[i]] = Order[found[k]]
      BY <1>3
    <2>2. ~(i < k) /\ ~(k < i)
      BY <1>4, <2>1
    <2> QED BY <2>2
  <1>8. PICK pc \in {"idle", "lock"} : pc = IF n = 0 THEN "idle" ELSE "lock"
    OBVIOUS
  <1>9. PICK x \in Drain : x = [NoDrain EXCEPT !.pc = pc, !.todo = todo]
    BY NoDrainOK DEF Drain
  <1>10. x.ev = NoEvent /\ x.todo = todo /\ x.pc = pc
    BY <1>9, NoDrainOK DEF NoDrain
  <1>11. Moved(d) /\ drain'[d] = x
    BY <1>4, <1>5, <1>8, <1>9, BecomesIs
  <1>12. pc = "lock" => todo # <<>>
    <2> SUFFICES ASSUME n # 0 PROVE todo # <<>>
      BY <1>8
    <2>1. 1 \in DOMAIN todo
      BY <1>6
    <2> QED BY <2>1
  <1>13. DrainOK(drain[d])'
    BY <1>7, <1>10, <1>11, <1>12 DEF DrainOK, AtWork, InTry
  <1>14. ASSUME NEW e \in Events PROVE EventOK(e)'
    <2>1. e # NoEvent /\ drain'[d].ev # e /\ drain[d].ev # e
      BY <1>1, <1>10, <1>11
    <2>2. CASE ~Lists(x, e)
      BY <1>2, <1>11, <2>1, <2>2, EventStays
    <2>3. CASE Lists(x, e)
      <3>1. e \in Waiting
        BY <1>6, <1>10, <2>3 DEF Lists
      <3>2. row[e].attempts < MaxAttempts /\ row'[e] = row[e]
        BY <1>2, <3>1 DEF Waiting
      <3>3. NumListers(e)' \in Nat /\ NumListers(e)' <= Cardinality(Drains)
        BY <1>11, ListersMove
      <3>4. EventOK(e) /\ row[e].attempts \in Nat /\ sent[e] \in Nat /\ cause[e] \in Nat /\ NumBusy(e) \in Nat
            /\ MaxAttempts \in Nat /\ Cardinality(Drains) \in Nat
        BY EventIs
      <3>5. row'[e].attempts + NumListers(e)' < MaxAttempts + Cardinality(Drains)
        BY <3>2, <3>3, <3>4
      <3>6. NumBusy(e)' \in Nat /\ NumBusy(e)' <= NumBusy(e)
        BY <1>11, <2>1, BusyMoves DEF IsBusy
      <3>7. row[e].status \in {"pending", "failed"} /\ sent[e] + NumBusy(e) <= cause[e]
        BY <3>1, <3>4 DEF Waiting, EventOK, Open
      <3>8. sent'[e] + NumBusy(e)' <= cause'[e] /\ sent'[e] + NumBusy(e)' <= 1 + cause'[e]
        BY <1>2, <3>4, <3>6, <3>7
      <3> QED BY <1>2, <3>2, <3>4, <3>5, <3>7, <3>8 DEF EventOK
    <2> QED BY <2>2, <2>3
  <1> QED BY <1>2, <1>8, <1>10, <1>11, <1>13, <1>14, Steady, SameWorld, Silent, ByDrain

\* The list a drain goes on with names neither the event at its head nor any event twice.
Distinct(s) == \A i, k \in DOMAIN s.todo : s.todo[i].ev = s.todo[k].ev => i = k

LEMMA HeadIs ==
  ASSUME NEW s \in Drain, s.todo # <<>>, Distinct(s)
  PROVE  \E q \in Drain, e \in Events, n \in Nat :
           /\ q = Resumed(s, Tail(s.todo)) /\ e = Head(s.todo).ev /\ n = Head(s.todo).tries
           /\ q.ev = s.ev /\ Distinct(q) /\ Lists(s, e) /\ ~Lists(q, e)
           /\ \A f \in Events : Lists(q, f) => Lists(s, f)
  <1>1. /\ Tail(s.todo) \in Seq([ev: Events, tries: Nat])
        /\ Head(s.todo) = s.todo[1] /\ Head(s.todo).ev \in Events /\ Head(s.todo).tries \in Nat
        /\ 1 \in DOMAIN s.todo
        /\ \A i \in DOMAIN Tail(s.todo) : i + 1 \in DOMAIN s.todo /\ Tail(s.todo)[i] = s.todo[i + 1]
                                          /\ Tail(s.todo)[i].ev # Head(s.todo).ev
        /\ \A i, k \in DOMAIN Tail(s.todo) : Tail(s.todo)[i].ev = Tail(s.todo)[k].ev => i = k
    BY RestIs DEF Distinct
  <1>2. /\ Resumed(s, Tail(s.todo)) \in Drain /\ Resumed(s, Tail(s.todo)).todo = Tail(s.todo)
        /\ Resumed(s, Tail(s.todo)).ev = s.ev
    BY <1>1, ResumedIs
  <1>3. Lists(s, Head(s.todo).ev)
    BY <1>1 DEF Lists
  <1>4. ~Lists(Resumed(s, Tail(s.todo)), Head(s.todo).ev)
    BY <1>1, <1>2, Zenon DEF Lists
  <1>5. ASSUME NEW f \in Events, Lists(Resumed(s, Tail(s.todo)), f) PROVE Lists(s, f)
    <2>1. PICK i \in DOMAIN Tail(s.todo) : Tail(s.todo)[i].ev = f
      BY <1>2, <1>5, Zenon DEF Lists
    <2>2. i + 1 \in DOMAIN s.todo /\ s.todo[i + 1].ev = f
      BY <1>1, <2>1
    <2> QED BY <2>2 DEF Lists
  <1>6. Distinct(Resumed(s, Tail(s.todo)))
    BY <1>1, <1>2, Zenon DEF Distinct
  <1> QED BY <1>1, <1>2, <1>3, <1>4, <1>5, <1>6, Zenon

LEMMA LockOK == ASSUME IInv, NEW d \in Drains, Lock(d) PROVE IInv'
  <1>1. drain[d] \in Drain /\ DrainOK(drain[d]) /\ drain[d].pc = "lock" /\ drain[d].ev = NoEvent
    BY DrainIs DEF Lock, DrainOK, AtWork, InTry
  <1>2. drain[d].todo # <<>> /\ Distinct(drain[d])
    BY <1>1 DEF DrainOK, Distinct
  <1>3. PICK q \in Drain, e \in Events, n \in Nat :
          /\ q = Resumed(drain[d], Tail(drain[d].todo)) /\ e = Head(drain[d].todo).ev /\ n = Head(drain[d].todo).tries
          /\ q.ev = drain[d].ev /\ Distinct(q) /\ Lists(drain[d], e) /\ ~Lists(q, e)
          /\ \A f \in Events : Lists(q, f) => Lists(drain[d], f)
    BY <1>1, <1>2, HeadIs
  <1>4. UNCHANGED <<sent, hushed, cause, spare, handoff, closed, desk, late>>
    BY DEF Lock, world
  <1>7. CASE Lockable(e) /\ row' = [row EXCEPT ![e] = [status |-> "processing", attempts |-> @.attempts + 1,
                                                       due |-> @.due, lapsed |-> FALSE]]
             /\ Becomes(d, [q EXCEPT !.pc = IF Consumer[e] = "assistant" THEN "check" ELSE "send",
                                     !.ev = e, !.tries = n + 1])
    <2>1. PICK pc \in {"check", "send"} : pc = IF Consumer[e] = "assistant" THEN "check" ELSE "send"
      OBVIOUS
    <2>2. PICK x \in Drain : /\ x = Taken(q, pc, e, n)
                             /\ x.pc = pc /\ x.ev = e /\ x.todo = q.todo
      <3>1. q \in Drain /\ e \in Events /\ n \in Nat /\ pc \in {"check", "send"}
        BY <1>3, <2>1
      <3>2. Taken(q, pc, e, n) \in Drain
        BY <3>1, TakenIs
      <3>3. /\ Taken(q, pc, e, n).pc = pc /\ Taken(q, pc, e, n).ev = e
            /\ Taken(q, pc, e, n).todo = q.todo
        BY <3>1 DEF Taken, Drain
      <3> QED BY <3>2, <3>3, Zenon
    <2>3. x.pc = pc /\ x.ev = e /\ x.todo = q.todo
      BY <2>2
    <2>4. Moved(d) /\ drain'[d] = x
      BY <1>7, <2>1, <2>2, BecomesIs DEF Taken
    <2>5. ~Lists(x, e) /\ \A f \in Events : Lists(x, f) => Lists(drain[d], f)
      <3>1. \A f : Lists(x, f) <=> Lists(q, f)
        BY <2>3, Zenon DEF Lists
      <3>2. ~Lists(q, e) /\ \A f \in Events : Lists(q, f) => Lists(drain[d], f)
        BY <1>3, Zenon
      <3> QED BY <3>1, <3>2, Zenon
    <2>6. EventOK(e) /\ row[e].attempts \in Nat /\ sent[e] \in Nat /\ cause[e] \in Nat /\ NumBusy(e) \in Nat
          /\ NumListers(e) \in Nat /\ MaxAttempts \in Nat /\ Cardinality(Drains) \in Nat /\ row[e] \in Row
      BY EventIs
    <2>7. /\ row'[e] \in Row /\ row'[e].status = "processing" /\ row'[e].attempts = row[e].attempts + 1
          /\ ~row'[e].lapsed /\ row' \in [Events -> Row] /\ \A f \in Events : f # e => row'[f] = row[f]
      BY <1>7, <2>6 DEF Row, Statuses, IInv, RowsTyped
    <2>8. RowsTyped'
      BY <1>4, <2>7 DEF IInv, RowsTyped
    <2>9. Grows
      <3>1. ASSUME NEW f \in Events, row[f].attempts > 0 PROVE row'[f].attempts > 0
        BY <2>6, <2>7, <3>1
      <3> QED BY <1>4, <3>1 DEF Grows
    <2>10. DrainOK(drain[d])'
      <3>1. row'[e].attempts > 0 /\ e # NoEvent
        BY <2>6, <2>7
      <3> QED BY <1>3, <2>3, <2>4, <3>1 DEF DrainOK, AtWork, InTry, Distinct
    <2>11. EventOK(e)'
      <3>1. sent[e] + NumBusy(e) <= cause[e]
        BY <1>7, <2>6 DEF EventOK, Open, Lockable
      <3>2. NumBusy(e)' \in Nat /\ NumBusy(e)' <= NumBusy(e) + 1
        BY <2>4, BusyMoves
      <3>3. sent'[e] + NumBusy(e)' <= 1 + cause'[e]
        BY <1>4, <2>6, <3>1, <3>2
      <3>4. NumListers(e)' \in Nat /\ NumListers(e)' + 1 = NumListers(e)
        BY <1>3, <2>4, <2>5, ListersMove
      <3>5. row[e].attempts + NumListers(e) < MaxAttempts + Cardinality(Drains)
        BY <2>6 DEF EventOK
      <3>6. row'[e].attempts + NumListers(e)' < MaxAttempts + Cardinality(Drains) /\ row'[e].attempts > 0
        BY <2>6, <2>7, <3>4, <3>5
      <3>7. \E y \in Drains : drain'[y].ev = e
        BY <2>3, <2>4
      <3> QED BY <2>7, <3>3, <3>6, <3>7 DEF EventOK, Open
    <2>12. ASSUME NEW f \in Events, f # e PROVE EventOK(f)'
      <3>1. drain[d].ev # f /\ drain'[d].ev # f
        BY <1>1, <2>3, <2>4, <2>12
      <3> QED BY <1>4, <2>4, <2>5, <2>7, <2>12, <3>1, EventStays
    <2> QED BY <1>4, <2>3, <2>4, <2>8, <2>9, <2>10, <2>11, <2>12, SameWorld, Silent, ByDrain
  <1>8. CASE Becomes(d, Onward(q)) /\ UNCHANGED row
    <2>1. PICK x \in Drain : x = Onward(q)
      BY <1>3, OnwardIs DEF Distinct
    <2>2. x.ev = NoEvent /\ x.todo = q.todo /\ x.pc \in {"idle", "lock"} /\ DrainOK(x)'
      BY <1>3, <2>1, OnwardIs DEF Distinct
    <2>3. Moved(d) /\ drain'[d] = x
      BY <1>8, <2>1, BecomesIs
    <2>4. DrainOK(drain[d])'
      BY <2>2, <2>3 DEF DrainOK
    <2>5. ASSUME NEW f \in Events PROVE EventOK(f)'
      <3>0. Lists(x, f) <=> Lists(q, f)
        BY <2>2, Zenon DEF Lists
      <3>1. f # NoEvent /\ (Lists(x, f) => Lists(drain[d], f))
        <4>1. Lists(q, f) => Lists(drain[d], f)
          BY <1>3, Zenon
        <4>2. f # NoEvent
          OBVIOUS
        <4> QED BY <3>0, <4>1, <4>2, Zenon
      <3>2. drain[d].ev # f /\ drain'[d].ev # f /\ (Lists(drain'[d], f) => Lists(drain[d], f))
        BY <1>1, <2>2, <2>3, <3>1
      <3> QED BY <1>4, <1>8, <2>3, <3>2, EventStays
    <2> QED BY <1>4, <1>8, <2>2, <2>3, <2>4, <2>5, Steady, SameWorld, Silent, ByDrain
  <1> QED BY <1>3, <1>7, <1>8 DEF Lock, Resumed

LEMMA SettledIs ==
  ASSUME NEW r \in Row, NEW s \in Drain, s.verdict # "none"
  PROVE  /\ Settled(r, s) \in Row /\ Settled(r, s).attempts = r.attempts
         /\ s.verdict = "ok" => Settled(r, s).status = "delivered"
         /\ s.verdict # "ok" => Settled(r, s).status \in {"failed", "dead"}
         /\ Settled(r, s).status = "failed" => s.verdict = "retry"
  BY DEF Settled, Row, Statuses, Drain

LEMMA SettleOK == ASSUME IInv, NEW d \in Drains, Settle(d) PROVE IInv'
  <1>1. /\ drain[d] \in Drain /\ DrainOK(drain[d]) /\ drain[d].verdict # "none"
        /\ drain[d].pc = "settle" \/ (drain[d].pc = "catch" /\ drain[d].verdict = "retry")
    BY DrainIs DEF Settle, DrainOK
  <1>2. PICK e \in Events : drain[d].ev = e
    BY <1>1, DrainIs DEF AtWork, InTry
  <1>3. row[e].attempts > 0 /\ (drain[d].verdict = "ok" => sent[e] > 0 \/ e \in hushed)
    <2>1. e # NoEvent
      OBVIOUS
    <2> QED BY <1>1, <1>2, <2>1 DEF DrainOK
  <1>4. UNCHANGED <<sent, hushed, cause, spare, handoff, closed, desk, late>>
    BY DEF Settle, world
  <1>5. PICK x \in Drain : x = Onward(drain[d])
    BY <1>1, OnwardIs DEF DrainOK
  <1>6. x.ev = NoEvent /\ x.todo = drain[d].todo /\ x.pc \in {"idle", "lock"} /\ DrainOK(x)'
    BY <1>1, <1>5, OnwardIs DEF DrainOK
  <1>7. Moved(d) /\ drain'[d] = x
    BY <1>5, BecomesIs DEF Settle
  <1>8. PICK r \in Row : r = Settled(row[e], drain[d])
    BY <1>1, EventIs, SettledIs
  <1>9. /\ r.attempts = row[e].attempts
        /\ drain[d].verdict = "ok" => r.status = "delivered"
        /\ drain[d].verdict # "ok" => r.status \in {"failed", "dead"}
        /\ r.status = "failed" => drain[d].verdict = "retry"
    BY <1>1, <1>8, EventIs, SettledIs
  <1>10. row' \in [Events -> Row] /\ row'[e] = r /\ \A f \in Events : f # e => row'[f] = row[f]
    BY <1>2, <1>8 DEF Settle, IInv, RowsTyped
  <1>11. RowsTyped'
    BY <1>4, <1>10 DEF IInv, RowsTyped
  <1>12. Grows
    <2>1. ASSUME NEW f \in Events, row[f].attempts > 0 PROVE row'[f].attempts > 0
      BY <1>9, <1>10, <2>1
    <2> QED BY <1>4, <2>1 DEF Grows
  <1>13. DrainOK(drain[d])'
    BY <1>6, <1>7 DEF DrainOK
  <1>14. EventOK(e)'
    <2>1. EventOK(e) /\ row[e].attempts \in Nat /\ sent[e] \in Nat /\ cause[e] \in Nat /\ NumBusy(e) \in Nat
          /\ NumListers(e) \in Nat /\ MaxAttempts \in Nat /\ Cardinality(Drains) \in Nat
      BY EventIs
    <2>2. ~IsBusy(x, e) /\ (drain[d].verdict = "retry" => IsBusy(drain[d], e))
      BY <1>1, <1>2, <1>6 DEF IsBusy
    <2>3. /\ NumBusy(e)' \in Nat /\ NumBusy(e)' <= NumBusy(e)
          /\ drain[d].verdict = "retry" => NumBusy(e)' + 1 = NumBusy(e)
      BY <1>7, <2>2, BusyMoves
    <2>4. NumListers(e)' \in Nat /\ NumListers(e)' <= NumListers(e)
      BY <1>6, <1>7, ListersMove DEF Lists
    <2>5. sent[e] + NumBusy(e) <= 1 + cause[e] /\ row[e].attempts + NumListers(e) < MaxAttempts + Cardinality(Drains)
      BY <2>1 DEF EventOK
    <2>6. sent'[e] + NumBusy(e)' <= 1 + cause'[e]
      BY <1>4, <2>1, <2>3, <2>5
    <2>7. drain[d].verdict = "retry" => sent'[e] + NumBusy(e)' <= cause'[e]
      BY <1>4, <2>1, <2>3, <2>5
    <2>8. row'[e].attempts + NumListers(e)' < MaxAttempts + Cardinality(Drains)
      BY <1>9, <1>10, <2>1, <2>4, <2>5
    <2>9. row'[e].status = "delivered" => sent'[e] > 0 \/ e \in hushed'
      BY <1>3, <1>4, <1>9, <1>10
    <2>10. row'[e].attempts > 0 /\ row'[e].status \in {"delivered", "failed", "dead"}
           /\ (row'[e].status = "failed" => drain[d].verdict = "retry")
      BY <1>3, <1>9, <1>10
    <2> QED BY <2>6, <2>7, <2>8, <2>9, <2>10 DEF EventOK, Open
  <1>15. ASSUME NEW f \in Events, f # e PROVE EventOK(f)'
    <2>1. drain[d].ev # f /\ drain'[d].ev # f /\ (Lists(drain'[d], f) => Lists(drain[d], f))
      BY <1>2, <1>6, <1>7, <1>15 DEF Lists
    <2> QED BY <1>4, <1>7, <1>10, <1>15, <2>1, EventStays
  <1> QED BY <1>4, <1>6, <1>7, <1>11, <1>12, <1>13, <1>14, <1>15, SameWorld, Silent, ByDrain

LEMMA CaughtIs ==
  ASSUME IInv, NEW d \in Drains, Throw(d)
  PROVE  \E e \in Events, x \in Drain :
           /\ drain[d].ev = e /\ drain[d].pc \in InTry
           /\ x.ev = e /\ x.todo = drain[d].todo /\ x.pc = "catch" /\ x.verdict = "retry"
           /\ Moved(d) /\ drain'[d] = x
           /\ UNCHANGED <<hushed, handoff, closed, desk>>
           /\ late' \in [Threads -> SUBSET Drains] /\ spare' \in [faults: Nat, moves: Nat]
           /\ \A t \in Threads : \A y \in late[t] : y # d => y \in late'[t]
  <1>1. drain[d] \in Drain /\ drain[d].pc \in InTry
    BY DrainIs DEF Throw
  <1>2. PICK e \in Events : drain[d].ev = e /\ ThreadOf[e] \in Threads
    BY <1>1, DrainIs DEF AtWork
  <1>3. PICK x \in Drain : x = [drain[d] EXCEPT !.pc = "catch", !.verdict = "retry"]
    BY <1>1 DEF Drain
  <1>4. x.ev = e /\ x.todo = drain[d].todo /\ x.pc = "catch" /\ x.verdict = "retry"
    BY <1>1, <1>2, <1>3 DEF Drain
  <1>5. Moved(d) /\ drain'[d] = x
    BY <1>3, BecomesIs DEF Throw
  <1>6. UNCHANGED <<hushed, handoff, closed, desk>> /\ spare' \in [faults: Nat, moves: Nat]
    BY SpareIs DEF Throw
  <1>7. late' \in [Threads -> SUBSET Drains] /\ \A t \in Threads : \A y \in late[t] : y # d => y \in late'[t]
    BY <1>2 DEF Throw, IInv, WorldTyped
  <1> QED BY <1>1, <1>2, <1>4, <1>5, <1>6, <1>7

\* What a throw leaves behind: the same rows, at most one thing sent or one mishap more
\* and, at the settling, a mishap and perhaps the row settled.
LEMMA ThrownIs ==
  ASSUME IInv, NEW d \in Drains, Throw(d), NEW e \in Events, drain[d].ev = e
  PROVE  /\ sent' \in [Events -> Nat] /\ cause' \in [Events -> Nat]
         /\ \A f \in Events : f # e => sent'[f] = sent[f] /\ cause'[f] = cause[f]
         /\ \/ drain[d].pc # "settle" /\ row' = row /\ sent' = sent /\ cause' = cause
            \/ drain[d].pc = "write" /\ row' = row /\ sent'[e] = sent[e] + 1 /\ cause'[e] = cause[e] + 1
            \/ drain[d].pc = "settle" /\ row' = row /\ sent' = sent /\ cause'[e] = cause[e] + 1
            \/ drain[d].pc = "settle" /\ row' = [row EXCEPT ![e] = Settled(@, drain[d])]
               /\ sent' = sent /\ cause'[e] = cause[e] + 1
  <1>1. sent \in [Events -> Nat] /\ cause \in [Events -> Nat]
    BY DEF IInv, RowsTyped
  <1>2. \/ drain[d].pc # "settle" /\ row' = row /\ sent' = sent /\ cause' = cause
        \/ drain[d].pc = "write" /\ row' = row /\ sent' = [sent EXCEPT ![e] = @ + 1] /\ cause' = [cause EXCEPT ![e] = @ + 1]
        \/ drain[d].pc = "settle" /\ row' = row /\ sent' = sent /\ cause' = [cause EXCEPT ![e] = @ + 1]
        \/ drain[d].pc = "settle" /\ row' = [row EXCEPT ![e] = Settled(@, drain[d])]
           /\ sent' = sent /\ cause' = [cause EXCEPT ![e] = @ + 1]
    BY DEF Throw
  <1>3. sent' = sent \/ sent' = [sent EXCEPT ![e] = @ + 1]
    BY <1>2
  <1>4. cause' = cause \/ cause' = [cause EXCEPT ![e] = @ + 1]
    BY <1>2
  <1>5. sent' \in [Events -> Nat] /\ \A f \in Events : f # e => sent'[f] = sent[f]
    BY <1>1, <1>3
  <1>6. cause' \in [Events -> Nat] /\ \A f \in Events : f # e => cause'[f] = cause[f]
    BY <1>1, <1>4
  <1>7. cause' = [cause EXCEPT ![e] = @ + 1] => cause'[e] = cause[e] + 1
    BY <1>1
  <1>8. sent' = [sent EXCEPT ![e] = @ + 1] => sent'[e] = sent[e] + 1
    BY <1>1
  <1> QED BY <1>2, <1>5, <1>6, <1>7, <1>8

LEMMA ThrowOK == ASSUME IInv, NEW d \in Drains, Throw(d) PROVE IInv'
  <1>1. PICK e \in Events, x \in Drain :
           /\ drain[d].ev = e /\ drain[d].pc \in InTry
           /\ x.ev = e /\ x.todo = drain[d].todo /\ x.pc = "catch" /\ x.verdict = "retry"
           /\ Moved(d) /\ drain'[d] = x
           /\ UNCHANGED <<hushed, handoff, closed, desk>>
           /\ late' \in [Threads -> SUBSET Drains] /\ spare' \in [faults: Nat, moves: Nat]
           /\ \A t \in Threads : \A y \in late[t] : y # d => y \in late'[t]
    BY CaughtIs
  <1>2. /\ sent' \in [Events -> Nat] /\ cause' \in [Events -> Nat]
        /\ \A f \in Events : f # e => sent'[f] = sent[f] /\ cause'[f] = cause[f]
        /\ \/ drain[d].pc # "settle" /\ row' = row /\ sent' = sent /\ cause' = cause
           \/ drain[d].pc = "write" /\ row' = row /\ sent'[e] = sent[e] + 1 /\ cause'[e] = cause[e] + 1
           \/ drain[d].pc = "settle" /\ row' = row /\ sent' = sent /\ cause'[e] = cause[e] + 1
           \/ drain[d].pc = "settle" /\ row' = [row EXCEPT ![e] = Settled(@, drain[d])]
              /\ sent' = sent /\ cause'[e] = cause[e] + 1
    BY <1>1, ThrownIs
  <1>3. EventOK(e) /\ row[e].attempts \in Nat /\ sent[e] \in Nat /\ cause[e] \in Nat /\ NumBusy(e) \in Nat
        /\ NumListers(e) \in Nat /\ MaxAttempts \in Nat /\ Cardinality(Drains) \in Nat
    BY EventIs
  <1>4. /\ NumBusy(e)' \in Nat /\ NumBusy(e)' <= NumBusy(e) + 1
        /\ drain[d].pc # "settle" => NumBusy(e)' <= NumBusy(e)
    BY <1>1, BusyMoves DEF IsBusy
  <1>5. SpeechOK(d)'
    BY <1>1, Silent
  <1>6. sent[e] <= sent'[e] /\ sent'[e] + NumBusy(e)' + cause[e] <= sent[e] + NumBusy(e) + cause'[e]
    BY <1>2, <1>3, <1>4
  <1>7. CASE row' = row
    <2>1. RowsTyped'
      BY <1>1, <1>2, <1>7 DEF IInv, RowsTyped
    <2> QED BY <1>1, <1>2, <1>5, <1>6, <1>7, <2>1, ByWork DEF AtWork
  <1>8. CASE drain[d].pc = "settle" /\ row' = [row EXCEPT ![e] = Settled(@, drain[d])]
             /\ sent' = sent /\ cause'[e] = cause[e] + 1
    <2>1. drain[d] \in Drain /\ DrainOK(drain[d]) /\ drain[d].verdict # "none"
      BY <1>8, DrainIs DEF DrainOK
    <2>2. row[e].attempts > 0 /\ (drain[d].verdict = "ok" => sent[e] > 0 \/ e \in hushed)
      <3>1. e # NoEvent
        OBVIOUS
      <3> QED BY <1>1, <1>8, <2>1, <3>1 DEF DrainOK
    <2>3. PICK r \in Row : r = Settled(row[e], drain[d])
      BY <2>1, EventIs, SettledIs
    <2>4. /\ r.attempts = row[e].attempts /\ r.status \in {"delivered", "failed", "dead"}
          /\ r.status = "delivered" => drain[d].verdict = "ok"
      BY <2>1, <2>3, EventIs, SettledIs
    <2>5. row' \in [Events -> Row] /\ row'[e] = r /\ \A f \in Events : f # e => row'[f] = row[f]
      BY <1>8, <2>3 DEF IInv, RowsTyped
    <2>6. RowsTyped'
      BY <1>1, <1>2, <2>5 DEF IInv, RowsTyped
    <2>7. Grows
      <3>1. ASSUME NEW f \in Events, row[f].attempts > 0 PROVE row'[f].attempts > 0
        BY <2>4, <2>5, <3>1
      <3> QED BY <1>1, <1>8, <3>1 DEF Grows
    <2>8. DrainOK(drain[d])'
      <3>1. row'[e].attempts > 0 /\ e # NoEvent
        BY <2>2, <2>4, <2>5
      <3> QED BY <1>1, <2>1, <3>1 DEF DrainOK, AtWork
    <2>9. EventOK(e)'
      <3>1. sent[e] + NumBusy(e) <= 1 + cause[e] /\ row[e].attempts + NumListers(e) < MaxAttempts + Cardinality(Drains)
        BY <1>3 DEF EventOK
      <3>2. sent'[e] + NumBusy(e)' <= 1 + cause'[e]
        BY <1>3, <1>4, <1>8, <3>1
      <3>3. row'[e].status = "failed" => sent'[e] + NumBusy(e)' <= cause'[e]
        <4>1. row'[e].status = "failed" => drain[d].verdict = "retry"
          BY <2>1, <2>3, <2>5, EventIs, SettledIs
        <4>2. drain[d].verdict = "retry" => NumBusy(e)' <= NumBusy(e)
          BY <1>1, <1>3, BusyMoves DEF IsBusy
        <4> QED BY <1>3, <1>4, <1>8, <3>1, <4>1, <4>2
      <3>4. NumListers(e)' \in Nat /\ NumListers(e)' <= NumListers(e)
        BY <1>1, ListersMove DEF Lists
      <3>5. row'[e].attempts + NumListers(e)' < MaxAttempts + Cardinality(Drains)
        BY <1>3, <2>4, <2>5, <3>1, <3>4
      <3>6. row'[e].status = "delivered" => sent'[e] > 0 \/ e \in hushed'
        BY <1>1, <1>8, <2>2, <2>4, <2>5
      <3>7. row'[e].attempts > 0 /\ row'[e].status \in {"delivered", "failed", "dead"}
        BY <2>2, <2>4, <2>5
      <3> QED BY <3>2, <3>3, <3>5, <3>6, <3>7 DEF EventOK, Open
    <2>10. ASSUME NEW f \in Events, f # e PROVE EventOK(f)'
      <3>1. drain[d].ev # f /\ drain'[d].ev # f /\ (Lists(drain'[d], f) => Lists(drain[d], f))
        BY <1>1, <2>10 DEF Lists
      <3> QED BY <1>1, <1>2, <2>5, <2>10, <3>1, EventStays
    <2> QED BY <1>1, <1>5, <2>6, <2>7, <2>8, <2>9, <2>10, ByDrain
  <1> QED BY <1>2, <1>7, <1>8

LEMMA DieOK == ASSUME IInv, NEW d \in Drains, Die(d) PROVE IInv'
  <1>1. UNCHANGED <<row, sent, hushed, handoff, closed, desk>> /\ spare' \in [faults: Nat, moves: Nat]
    BY SpareIs DEF Die
  <1>2. Moved(d) /\ drain'[d] = NoDrain
    BY NoDrainOK, BecomesIs DEF Die
  <1>3. /\ cause' \in [Events -> Nat]
        /\ \A e \in Events : cause'[e] = IF e = drain[d].ev THEN cause[e] + 1 ELSE cause[e]
    BY EventIs DEF Die
  <1>4. RowsTyped' /\ Grows
    BY <1>1, <1>3 DEF IInv, RowsTyped, Grows
  <1>5. late' \in [Threads -> SUBSET Drains] /\ \A t \in Threads : \A x \in late[t] : x # d => x \in late'[t]
    BY DEF Die, IInv, WorldTyped
  <1>6. DrainOK(drain[d])'
    BY <1>2, NoDrainOK DEF DrainOK
  <1>7. ASSUME NEW e \in Events PROVE EventOK(e)'
    <2>1. e # NoEvent /\ ~Lists(NoDrain, e) /\ ~IsBusy(NoDrain, e)
      BY NoDrainOK DEF IsBusy
    <2>2. CASE drain[d].ev # e
      <3>1. cause'[e] = cause[e] /\ drain'[d].ev # e
        BY <1>2, <1>3, <2>1, <2>2, NoDrainOK
      <3> QED BY <1>1, <1>2, <2>1, <2>2, <3>1, EventStays
    <2>3. CASE drain[d].ev = e
      <3>1. EventOK(e) /\ row[e].attempts \in Nat /\ sent[e] \in Nat /\ cause[e] \in Nat /\ NumBusy(e) \in Nat
            /\ NumListers(e) \in Nat /\ MaxAttempts \in Nat /\ Cardinality(Drains) \in Nat
        BY EventIs
      <3>2. NumBusy(e)' \in Nat /\ NumBusy(e)' <= NumBusy(e) /\ NumListers(e)' \in Nat /\ NumListers(e)' <= NumListers(e)
        BY <1>2, <2>1, BusyMoves, ListersMove
      <3>3. sent[e] + NumBusy(e) <= 1 + cause[e] /\ row[e].attempts + NumListers(e) < MaxAttempts + Cardinality(Drains)
        BY <3>1 DEF EventOK
      <3>4. cause'[e] = cause[e] + 1
        BY <1>3, <2>3
      <3>5. sent'[e] + NumBusy(e)' <= cause'[e] /\ sent'[e] + NumBusy(e)' <= 1 + cause'[e]
        BY <1>1, <3>1, <3>2, <3>3, <3>4
      <3>6. row'[e].attempts + NumListers(e)' < MaxAttempts + Cardinality(Drains)
        BY <1>1, <3>1, <3>2, <3>3
      <3> QED BY <1>1, <3>1, <3>5, <3>6 DEF EventOK
    <2> QED BY <2>2, <2>3
  <1>8. SpeechOK(d)'
    BY <1>2, NoDrainOK, Silent
  <1> QED BY <1>1, <1>2, <1>4, <1>5, <1>6, <1>7, <1>8, ByDrain

-----------------------------------------------------------------------------
(* The rest of the world. *)

LEMMA ByWorld ==
  ASSUME IInv, drain' = drain, RowsTyped', WorldTyped', Grows,
         \A e \in Events : EventOK(e)', \A d \in Drains : SpeechOK(d)'
  PROVE  IInv'
  <1>1. ASSUME NEW x \in Drains PROVE DrainOK(drain[x])'
    BY DrainStays
  <1> QED BY <1>1 DEF IInv, DrainsTyped

\* Nothing happens to an event.
LEMMA EventRests ==
  ASSUME IInv, NEW e \in Events, drain' = drain, row'[e] = row[e], sent' = sent, hushed' = hushed, cause'[e] = cause[e]
  PROVE  EventOK(e)'
  <1>1. EventOK(e) /\ NumBusy(e)' = NumBusy(e) /\ NumListers(e)' = NumListers(e)
    BY EventIs, SameCounts
  <1> QED BY <1>1 DEF EventOK, Open

\* No operator takes a thread.
LEMMA SpeechRests ==
  ASSUME IInv, drain' = drain, late' = late,
         \A t \in Threads : Accepted(t)' => Accepted(t)
  PROVE  \A d \in Drains : SpeechOK(d)'
  <1> SUFFICES ASSUME NEW d \in Drains PROVE SpeechOK(d)'
    OBVIOUS
  <1>1. SpeechOK(d)
    BY DEF IInv
  <1>2. drain[d].pc = "write" => ThreadOf[drain[d].ev] \in Threads
    BY DrainIs DEF AtWork, InTry
  <1> QED BY <1>1, <1>2 DEF SpeechOK, Accepted

LEMMA DueOK == ASSUME IInv, NEW e \in Events, Due(e) PROVE IInv'
  <1>1. UNCHANGED <<drain, sent, hushed, cause, spare, handoff, closed, desk, late>>
    BY DEF Due, world
  <1>2. PICK r \in Row : r = row[e]
    BY EventIs
  <1>3. /\ row' \in [Events -> Row] /\ \A f \in Events : f # e => row'[f] = row[f]
        /\ row'[e].attempts = r.attempts /\ row'[e].status = r.status /\ row'[e].lapsed = r.lapsed
    BY <1>2 DEF Due, IInv, RowsTyped, Row
  <1>4. RowsTyped' /\ WorldTyped'
    BY <1>1, <1>3 DEF IInv, RowsTyped, WorldTyped
  <1>5. Grows
    <2>1. ASSUME NEW f \in Events, row[f].attempts > 0 PROVE row'[f].attempts > 0
      BY <1>2, <1>3, <2>1
    <2> QED BY <1>1, <2>1 DEF Grows
  <1>6. ASSUME NEW f \in Events PROVE EventOK(f)'
    <2>1. CASE f # e
      BY <1>1, <1>3, <2>1, EventRests
    <2>2. CASE f = e
      <3>1. EventOK(e) /\ NumBusy(e)' = NumBusy(e) /\ NumListers(e)' = NumListers(e)
        BY <1>1, EventIs, SameCounts
      <3> QED BY <1>1, <1>2, <1>3, <2>2, <3>1 DEF EventOK, Open
    <2> QED BY <2>1, <2>2
  <1>7. \A d \in Drains : SpeechOK(d)'
    BY <1>1, SpeechRests DEF Accepted
  <1> QED BY <1>1, <1>4, <1>5, <1>6, <1>7, ByWorld

LEMMA LapseOK == ASSUME IInv, NEW e \in Events, Lapse(e) PROVE IInv'
  <1>1. UNCHANGED <<drain, sent, hushed, spare, handoff, closed, desk, late>>
    BY DEF Lapse, world
  <1>2. PICK r \in Row : r = row[e]
    BY EventIs
  <1>3. /\ row' \in [Events -> Row] /\ \A f \in Events : f # e => row'[f] = row[f]
        /\ row'[e].attempts = r.attempts /\ row'[e].status = "processing"
    BY <1>2 DEF Lapse, IInv, RowsTyped, Row
  <1>4. /\ cause' \in [Events -> Nat] /\ \A f \in Events : f # e => cause'[f] = cause[f]
        /\ cause'[e] = IF \E d \in Drains : drain[d].ev = e THEN cause[e] + 1 ELSE cause[e]
    BY EventIs DEF Lapse, IInv, RowsTyped
  <1>5. RowsTyped' /\ WorldTyped'
    BY <1>1, <1>3, <1>4 DEF IInv, RowsTyped, WorldTyped
  <1>6. Grows
    <2>1. ASSUME NEW f \in Events, row[f].attempts > 0 PROVE row'[f].attempts > 0
      BY <1>2, <1>3, <2>1
    <2> QED BY <1>1, <2>1 DEF Grows
  <1>7. EventOK(e)'
    <2>1. EventOK(e) /\ row[e].attempts \in Nat /\ sent[e] \in Nat /\ cause[e] \in Nat /\ NumBusy(e) \in Nat
          /\ NumListers(e) \in Nat /\ MaxAttempts \in Nat /\ Cardinality(Drains) \in Nat
      BY EventIs
    <2>2. NumBusy(e)' = NumBusy(e) /\ NumListers(e)' = NumListers(e)
      BY <1>1, SameCounts
    <2>3. sent[e] + NumBusy(e) <= cause'[e]
      <3>1. CASE \E d \in Drains : drain[d].ev = e
        <4>1. sent[e] + NumBusy(e) <= 1 + cause[e] /\ cause'[e] = cause[e] + 1
          BY <1>4, <2>1, <3>1 DEF EventOK
        <4> QED BY <2>1, <4>1
      <3>2. CASE ~ \E d \in Drains : drain[d].ev = e
        BY <1>4, <2>1, <3>2 DEF Lapse, EventOK
      <3> QED BY <3>1, <3>2
    <2>4. cause'[e] \in Nat
      BY <1>4
    <2>5. sent[e] + NumBusy(e) <= 1 + cause'[e]
      BY <2>1, <2>3, <2>4
    <2>6. row[e].status = "processing" /\ row'[e].attempts = row[e].attempts /\ row[e].attempts > 0
      BY <1>2, <1>3, <2>1 DEF Lapse, EventOK
    <2> QED BY <1>1, <1>3, <2>1, <2>2, <2>3, <2>5, <2>6 DEF EventOK
  <1>8. ASSUME NEW f \in Events PROVE EventOK(f)'
    BY <1>1, <1>3, <1>4, <1>7, EventRests
  <1>9. \A d \in Drains : SpeechOK(d)'
    BY <1>1, SpeechRests DEF Accepted
  <1> QED BY <1>1, <1>5, <1>6, <1>8, <1>9, ByWorld

LEMMA EnqueueOK == ASSUME IInv, NEW e \in Events, Enqueue(e) PROVE IInv'
  <1>1. UNCHANGED <<closed, drain, desk, sent, hushed, cause, late>> /\ spare' \in [faults: Nat, moves: Nat]
    BY SpareIs DEF Enqueue
  <1>2. PICK r \in Row : r = row[e]
    BY EventIs
  <1>3. /\ row' \in [Events -> Row] /\ \A f \in Events : f # e => row'[f] = row[f]
        /\ row'[e].attempts = r.attempts /\ row'[e].status = "pending" /\ r.status = "absent"
    BY <1>2 DEF Enqueue, IInv, RowsTyped, Row, Statuses
  <1>4. /\ handoff' \in [Threads -> Seq(Handoff)]
        /\ \A t \in Threads : Accepted(t)' => Accepted(t)
    <2>1. handoff \in [Threads -> Seq(Handoff)] /\ ThreadOf[e] \in Threads
      BY DEF IInv, WorldTyped
    <2>2. CASE UNCHANGED handoff
      BY <2>1, <2>2 DEF Accepted
    <2>3. CASE handoff' = [handoff EXCEPT ![ThreadOf[e]] = Append(@, [status |-> "requested", by |-> "anyone"])]
      <3>1. PICK h \in Seq(Handoff) : h = handoff[ThreadOf[e]]
        BY <2>1
      <3>2. PICK w \in Handoff : w = [status |-> "requested", by |-> "anyone"]
        BY DEF Handoff
      <3>3. PICK g \in Seq(Handoff) : g = Append(h, w)
        BY AppendProperties, Zenon
      <3>4. /\ handoff' \in [Threads -> Seq(Handoff)] /\ handoff'[ThreadOf[e]] = g
            /\ \A t \in Threads : t # ThreadOf[e] => handoff'[t] = handoff[t]
        BY <2>1, <2>3, <3>1, <3>2, <3>3
      <3>5. w.status = "requested"
        BY <3>2
      <3>6. ASSUME NEW i \in DOMAIN g, g[i].status = "accepted" PROVE i \in DOMAIN h /\ h[i].status = "accepted"
        BY <3>3, <3>5, <3>6
      <3>7. Accepted(ThreadOf[e])' => Accepted(ThreadOf[e])
        BY <3>1, <3>4, <3>6 DEF Accepted
      <3>8. \A t \in Threads : t # ThreadOf[e] => (Accepted(t)' => Accepted(t))
        BY <3>4 DEF Accepted
      <3> QED BY <3>4, <3>7, <3>8
    <2> QED BY <2>2, <2>3 DEF Enqueue
  <1>5. RowsTyped' /\ WorldTyped'
    BY <1>1, <1>3, <1>4 DEF IInv, RowsTyped, WorldTyped
  <1>6. Grows
    <2>1. ASSUME NEW f \in Events, row[f].attempts > 0 PROVE row'[f].attempts > 0
      BY <1>2, <1>3, <2>1
    <2> QED BY <1>1, <2>1 DEF Grows
  <1>7. EventOK(e)'
    <2>1. EventOK(e) /\ NumBusy(e)' = NumBusy(e) /\ NumListers(e)' = NumListers(e)
      BY <1>1, EventIs, SameCounts
    <2> QED BY <1>1, <1>2, <1>3, <2>1 DEF EventOK, Open
  <1>8. ASSUME NEW f \in Events PROVE EventOK(f)'
    BY <1>1, <1>3, <1>7, EventRests
  <1>9. \A d \in Drains : SpeechOK(d)'
    BY <1>1, <1>4, SpeechRests
  <1> QED BY <1>1, <1>5, <1>6, <1>8, <1>9, ByWorld

\* The rows and the drains stay as they are.
LEMMA ByDesk ==
  ASSUME IInv, UNCHANGED <<row, drain, sent, hushed, cause>>, WorldTyped', \A d \in Drains : SpeechOK(d)'
  PROVE  IInv'
  <1>1. RowsTyped' /\ Grows
    BY Steady
  <1>2. \A e \in Events : EventOK(e)'
    BY EventRests
  <1> QED BY <1>1, <1>2, ByWorld

\* There is a last open row where there is an open one.
LEMMA LastIs ==
  ASSUME NEW n \in Nat, NEW S \in SUBSET (1 .. n), S # {}
  PROVE  \E i \in S : \A k \in S : k <= i
  <1> DEFINE T == {m \in Nat : n - m \in S}
             R == OpToRel(<, Nat)
  <1>1. PICK j \in S : TRUE
    OBVIOUS
  <1>2. T \subseteq Nat /\ n - j \in T
    <2>1. n - j \in Nat /\ n - (n - j) = j
      OBVIOUS
    <2> QED BY <2>1
  <1>3. IsWellFoundedOn(R, Nat)
    BY NatLessThanWellFounded
  <1>4. PICK m \in T : \A y \in T : ~(<<y, m>> \in R)
    <2> HIDE DEF R, T
    <2> QED BY <1>2, <1>3, WFMin
  <1>5. ASSUME NEW y \in T PROVE m <= y
    <2>1. <<y, m>> \in Nat \X Nat /\ <<y, m>>[1] = y /\ <<y, m>>[2] = m
      BY <1>2
    <2>2. y < m => <<y, m>> \in R
      BY <2>1 DEF OpToRel
    <2>3. <<y, m>> \notin R /\ y \in Nat /\ m \in Nat
      BY <1>4
    <2> HIDE DEF R, T
    <2> QED BY <2>2, <2>3
  <1>6. ASSUME NEW k \in S PROVE k <= n - m
    <2>1. n - k \in Nat /\ n - (n - k) = k
      OBVIOUS
    <2>2. m <= n - k
      BY <1>5, <2>1
    <2> QED BY <1>2, <2>1, <2>2
  <1> QED BY <1>2, <1>4, <1>6

LEMMA ActiveIs == ASSUME IInv, NEW t \in Threads PROVE ActiveHandoff(t) \in Nat
  <1> DEFINE open == {i \in DOMAIN handoff[t] : handoff[t][i].status # "closed"}
  <1>1. handoff[t] \in Seq(Handoff)
    BY DEF IInv, WorldTyped
  <1>2. PICK n \in Nat : DOMAIN handoff[t] = 1 .. n
    BY <1>1
  <1>3. open \in SUBSET (1 .. n)
    BY <1>2
  <1>4. open # {} => (CHOOSE i \in open : \A k \in open : k <= i) \in open
    <2> HIDE DEF open
    <2> SUFFICES ASSUME open # {} PROVE (CHOOSE i \in open : \A k \in open : k <= i) \in open
      OBVIOUS
    <2>1. \E i \in open : \A k \in open : k <= i
      BY <1>3, LastIs
    <2> QED BY <2>1
  <1>5. ActiveHandoff(t) = 0 \/ ActiveHandoff(t) \in open
    <2>1. ActiveHandoff(t) = IF open = {} THEN 0 ELSE CHOOSE i \in open : \A k \in open : k <= i
      BY DEF ActiveHandoff
    <2> HIDE DEF open
    <2> QED BY <1>4, <2>1, Zenon
  <1>6. \A i \in open : i \in Nat
    <2> HIDE DEF open
    <2> QED BY <1>3
  <1> HIDE DEF open
  <1>7. 0 \in Nat
    OBVIOUS
  <1> QED BY <1>5, <1>6, <1>7, Zenon

LEMMA TakeoverOK == ASSUME IInv, NEW o \in Operators, NEW t \in Threads, Takeover(o, t) PROVE IInv'
  <1>1. UNCHANGED <<row, handoff, closed, drain, sent, hushed, cause, late>>
    BY DEF Takeover
  <1>2. ActiveHandoff(t) \in Nat
    BY ActiveIs
  <1>3. desk' = [desk EXCEPT ![o] = [pc |-> "take", thread |-> t, id |-> ActiveHandoff(t)]]
    BY DEF Takeover, Seat
  <1>4. spare' \in [faults: Nat, moves: Nat]
    BY SpareIs DEF Takeover
  <1>5. WorldTyped'
    BY <1>1, <1>2, <1>3, <1>4 DEF IInv, WorldTyped
  <1>6. \A d \in Drains : SpeechOK(d)'
    BY <1>1, SpeechRests DEF Accepted
  <1> QED BY <1>1, <1>5, <1>6, ByDesk

LEMMA TakeOK == ASSUME IInv, NEW o \in Operators, Take(o) PROVE IInv'
  <1>1. UNCHANGED <<row, closed, drain, sent, hushed, cause, spare>>
    BY DEF Take
  <1>2. PICK own \in Handoff : own = [status |-> "accepted", by |-> o]
    BY DEF Handoff
  <1>3. handoff' \in [Threads -> Seq(Handoff)] /\ \A t \in Threads : t # desk[o].thread => handoff'[t] = handoff[t]
    <2>1. handoff \in [Threads -> Seq(Handoff)]
      BY DEF IInv, WorldTyped
    <2>2. handoff' = [handoff EXCEPT ![desk[o].thread] = IF desk[o].id > 0 THEN [@ EXCEPT ![desk[o].id] = own] ELSE Append(@, own)]
      BY <1>2 DEF Take
    <2>3. ASSUME NEW h \in Seq(Handoff), NEW i PROVE [h EXCEPT ![i] = own] \in Seq(Handoff) /\ Append(h, own) \in Seq(Handoff)
      <3>1. Append(h, own) \in Seq(Handoff)
        OBVIOUS
      <3>2. [h EXCEPT ![i] = own] \in Seq(Handoff)
        <4>1. PICK n \in Nat : h \in [1 .. n -> Handoff]
          BY SeqDef
        <4>2. [h EXCEPT ![i] = own] \in [1 .. n -> Handoff]
          BY <4>1
        <4>3. [h EXCEPT ![i] = own] \in UNION {[1 .. m -> Handoff] : m \in Nat}
          BY <4>2
        <4> QED BY <4>3, SeqDef, Zenon
      <3> QED BY <3>1, <3>2
    <2>4. ASSUME NEW t \in Threads
          PROVE  handoff'[t] \in Seq(Handoff) /\ (t # desk[o].thread => handoff'[t] = handoff[t])
      <3>1. CASE t # desk[o].thread
        BY <2>1, <2>2, <3>1
      <3>2. CASE t = desk[o].thread
        <4>1. PICK h \in Seq(Handoff) : h = handoff[t]
          BY <2>1
        <4>2. handoff'[t] = IF desk[o].id > 0 THEN [h EXCEPT ![desk[o].id] = own] ELSE Append(h, own)
          BY <2>1, <2>2, <3>2, <4>1
        <4> QED BY <2>3, <3>2, <4>2
      <3> QED BY <3>1, <3>2
    <2>5. handoff' = [t \in Threads |-> handoff'[t]]
      BY <2>1, <2>2
    <2> QED BY <2>4, <2>5
  <1>4. /\ late' = [late EXCEPT ![desk[o].thread] =
                     IF Accepted(desk[o].thread) THEN @
                     ELSE {d \in Drains : drain[d].pc = "write" /\ ThreadOf[drain[d].ev] = desk[o].thread}]
        /\ late \in [Threads -> SUBSET Drains]
    BY DEF Take, IInv, WorldTyped
  <1>5. /\ late' \in [Threads -> SUBSET Drains]
        /\ \A t \in Threads : Accepted(t) \/ t # desk[o].thread => late'[t] = late[t]
        /\ \A t \in Threads : t = desk[o].thread /\ ~Accepted(t) =>
             late'[t] = {d \in Drains : drain[d].pc = "write" /\ ThreadOf[drain[d].ev] = t}
    BY <1>4
  <1>6. desk' \in [Operators -> [pc: {"idle", "take", "mark"}, thread: Threads \cup {NoThread}, id: Nat]]
    <2> DEFINE Desk == [pc: {"idle", "take", "mark"}, thread: Threads \cup {NoThread}, id: Nat]
    <2>1. desk \in [Operators -> Desk] /\ desk' = [desk EXCEPT ![o] = [desk[o] EXCEPT !.pc = "mark"]]
      BY DEF Take, Seat, IInv, WorldTyped
    <2>2. PICK k \in Desk : k = desk[o]
      BY <2>1
    <2>3. [k EXCEPT !.pc = "mark"] \in Desk
      OBVIOUS
    <2> HIDE DEF Desk
    <2>4. desk' \in [Operators -> Desk]
      BY <2>1, <2>2, <2>3
    <2> QED BY <2>4 DEF Desk
  <1>7. WorldTyped'
    BY <1>1, <1>3, <1>5, <1>6 DEF IInv, WorldTyped
  <1>8. ASSUME NEW d \in Drains PROVE SpeechOK(d)'
    <2>1. SpeechOK(d) /\ (drain[d].pc = "write" => ThreadOf[drain[d].ev] \in Threads)
      BY DrainIs DEF IInv, AtWork, InTry
    <2>2. \A t \in Threads : t # desk[o].thread => (Accepted(t)' <=> Accepted(t))
      BY <1>3 DEF Accepted
    <2>3. SUFFICES ASSUME drain[d].pc = "write", NEW t \in Threads, t = ThreadOf[drain[d].ev], Accepted(t)'
                   PROVE  d \in late'[t]
      BY <1>1, <2>1 DEF SpeechOK, Accepted
    <2>4. CASE Accepted(t)
      BY <1>5, <2>1, <2>3, <2>4 DEF SpeechOK
    <2>5. CASE ~Accepted(t)
      BY <1>5, <2>2, <2>3, <2>5
    <2> QED BY <2>4, <2>5
  <1> QED BY <1>1, <1>7, <1>8, ByDesk

LEMMA MarkOK == ASSUME IInv, NEW o \in Operators, Mark(o) PROVE IInv'
  <1>1. UNCHANGED <<row, handoff, drain, sent, hushed, cause, late, spare>>
    BY DEF Mark
  <1>2. /\ closed' \in [Threads -> BOOLEAN]
        /\ desk' \in [Operators -> [pc: {"idle", "take", "mark"}, thread: Threads \cup {NoThread}, id: Nat]]
    BY DEF Mark, Seat, NoDesk, IInv, WorldTyped
  <1>3. WorldTyped'
    BY <1>1, <1>2 DEF IInv, WorldTyped
  <1>4. \A d \in Drains : SpeechOK(d)'
    BY <1>1, SpeechRests DEF Accepted
  <1> QED BY <1>1, <1>3, <1>4, ByDesk

LEMMA LetGoOK ==
  ASSUME IInv, NEW o \in Operators, NEW t \in Threads, NEW resolved \in BOOLEAN, LetGo(o, t, resolved) PROVE IInv'
  <1>1. UNCHANGED <<row, drain, desk, sent, hushed, cause, late>>
    BY DEF LetGo
  <1>2. handoff \in [Threads -> Seq(Handoff)] /\ closed' \in [Threads -> BOOLEAN]
    BY DEF LetGo, IInv, WorldTyped
  <1>3. PICK g \in Seq(Handoff) : /\ g = [i \in DOMAIN handoff[t] |-> [handoff[t][i] EXCEPT !.status = "closed"]]
                                  /\ \A i \in DOMAIN g : g[i].status = "closed"
    <2>1. PICK n \in Nat : handoff[t] \in [1 .. n -> Handoff]
      BY <1>2, SeqDef
    <2>2. \A w \in Handoff : [w EXCEPT !.status = "closed"] \in Handoff /\ [w EXCEPT !.status = "closed"].status = "closed"
      BY DEF Handoff
    <2>3. PICK g \in [1 .. n -> Handoff] : g = [i \in DOMAIN handoff[t] |-> [handoff[t][i] EXCEPT !.status = "closed"]]
      BY <2>1, <2>2
    <2>4. \A i \in DOMAIN g : g[i].status = "closed"
      BY <2>1, <2>2, <2>3
    <2>5. g \in Seq(Handoff)
      <3>1. g \in UNION {[1 .. m -> Handoff] : m \in Nat}
        OBVIOUS
      <3> QED BY <3>1, SeqDef, Zenon
    <2> QED BY <2>3, <2>4, <2>5
  <1>4. /\ handoff' \in [Threads -> Seq(Handoff)] /\ handoff'[t] = g
        /\ \A u \in Threads : u # t => handoff'[u] = handoff[u]
    <2>1. handoff' = [handoff EXCEPT ![t] = g]
      BY <1>3 DEF LetGo
    <2> QED BY <1>2, <2>1
  <1>5. \A u \in Threads : Accepted(u)' => Accepted(u)
    BY <1>3, <1>4 DEF Accepted
  <1>6. WorldTyped'
    BY <1>1, <1>2, <1>4, SpareIs DEF LetGo, IInv, WorldTyped
  <1>7. \A d \in Drains : SpeechOK(d)'
    BY <1>1, <1>5, SpeechRests
  <1> QED BY <1>1, <1>6, <1>7, ByDesk

-----------------------------------------------------------------------------
(* The invariant and what follows from it. *)

LEMMA InitOK == Init => IInv
  <1> SUFFICES ASSUME Init PROVE IInv
    OBVIOUS
  <1>1. RowsTyped
    BY DEF Init, RowsTyped, Row, Statuses
  <1>2. DrainsTyped /\ \A d \in Drains : drain[d] = NoDrain
    BY NoDrainOK DEF Init, DrainsTyped
  <1>3. WorldTyped
    BY DEF Init, WorldTyped, NoDesk, Handoff
  <1>4. ASSUME NEW e \in Events PROVE EventOK(e)
    <2>1. Busy(e) = {} /\ Listers(e) = {}
      BY <1>2, NoDrainOK DEF Busy, Listers, IsBusy
    <2>2. NumBusy(e) = 0 /\ NumListers(e) = 0
      BY <2>1, FS_EmptySet DEF NumBusy, NumListers
    <2>3. row[e].status = "absent" /\ row[e].attempts = 0 /\ sent[e] = 0 /\ cause[e] = 0
      BY DEF Init
    <2>4. Cardinality(Drains) \in Nat
      BY FS_CardinalityType
    <2>5. row[e].attempts + NumListers(e) < MaxAttempts + Cardinality(Drains)
      BY <2>2, <2>3, <2>4
    <2> QED BY <2>2, <2>3, <2>5 DEF EventOK
  <1>5. \A d \in Drains : DrainOK(drain[d]) /\ SpeechOK(d)
    BY <1>2, NoDrainOK DEF SpeechOK
  <1> QED BY <1>1, <1>2, <1>3, <1>4, <1>5 DEF IInv

LEMMA NextStep == ASSUME IInv, [Next]_vars PROVE IInv'
  <1>1. ASSUME NEW e \in Events, Enqueue(e) \/ Due(e) \/ Lapse(e) PROVE IInv'
    BY <1>1, EnqueueOK, DueOK, LapseOK
  <1>2. ASSUME NEW d \in Drains, DrainStep(d) \/ Throw(d) \/ Die(d) PROVE IInv'
    <2>1. CASE Unlock(d) \/ List(d) \/ Lock(d)
      BY <2>1, UnlockOK, ListOK, LockOK
    <2>2. CASE Check(d)
      BY <2>2, HeedOK DEF Check
    <2>3. CASE Generate(d)
      BY <2>3, HeedOK DEF Generate
    <2>4. CASE Write(d) \/ Send(d) \/ Settle(d) \/ Throw(d) \/ Die(d)
      BY <2>4, WriteOK, SendOK, SettleOK, ThrowOK, DieOK
    <2> QED BY <1>2, <2>1, <2>2, <2>3, <2>4 DEF DrainStep
  <1>3. ASSUME NEW o \in Operators, Take(o) \/ Mark(o) PROVE IInv'
    BY <1>3, TakeOK, MarkOK
  <1>4. ASSUME NEW o \in Operators, NEW t \in Threads, Takeover(o, t) \/ LetGo(o, t, FALSE) \/ LetGo(o, t, TRUE) PROVE IInv'
    BY <1>4, TakeoverOK, LetGoOK
  <1>5. CASE UNCHANGED vars
    <2>1. UNCHANGED <<row, handoff, closed, drain, desk, sent, hushed, cause, late, spare>>
      BY <1>5 DEF vars
    <2>2. WorldTyped'
      BY <2>1 DEF IInv, WorldTyped
    <2>3. \A d \in Drains : SpeechOK(d)'
      BY <2>1, SpeechRests DEF Accepted
    <2> QED BY <2>1, <2>2, <2>3, ByDesk
  <1> QED BY <1>1, <1>2, <1>3, <1>4, <1>5 DEF Next

\* Whatever the drains, the operators and the faults do, what was sent and the drains
\* that may yet send never outnumber the mishaps by more than one.
THEOREM InductiveInvariant == Spec => []IInv
  <1>1. Init => IInv
    BY InitOK
  <1>2. IInv /\ [Next]_vars => IInv'
    BY NextStep
  <1> QED BY <1>1, <1>2, PTL DEF Spec

\* Every row, drain, thread and desk has its type; a drain holds an event exactly while
\* it works on one, and an event that was tried has an attempt to show for it.
THEOREM TypeCorrect == Spec => []TypeOK
  <1>1. IInv => TypeOK
    BY DEF IInv, RowsTyped, DrainsTyped, WorldTyped, EventOK, DrainOK, TypeOK
  <1> QED BY <1>1, InductiveInvariant, PTL

\* An event is sent, or answered, a second time only after a mishap.
THEOREM RepeatsForCause == Spec => []RepeatedForCause
  <1>1. IInv => RepeatedForCause
    <2> SUFFICES ASSUME IInv, NEW e \in Events PROVE sent[e] <= 1 + cause[e]
      BY DEF RepeatedForCause
    <2>1. EventOK(e) /\ sent[e] \in Nat /\ cause[e] \in Nat /\ NumBusy(e) \in Nat
      BY EventIs
    <2>2. sent[e] + NumBusy(e) <= 1 + cause[e]
      BY <2>1 DEF EventOK
    <2> QED BY <2>1, <2>2
  <1> QED BY <1>1, InductiveInvariant, PTL

\* What is recorded as delivered was sent, or left alone on purpose.
THEOREM DeliveriesAreTrue == Spec => []DeliveredIsTrue
  <1>1. IInv => DeliveredIsTrue
    BY DEF IInv, EventOK, DeliveredIsTrue
  <1> QED BY <1>1, InductiveInvariant, PTL

\* The attempts at an event stay below the limit and one more for each drain.
THEOREM AttemptsAreBounded == Spec => []AttemptsBounded
  <1>1. IInv => AttemptsBounded
    <2> SUFFICES ASSUME IInv, NEW e \in Events PROVE row[e].attempts < MaxAttempts + Cardinality(Drains)
      BY DEF AttemptsBounded
    <2>1. /\ EventOK(e) /\ row[e].attempts \in Nat /\ NumListers(e) \in Nat
          /\ MaxAttempts \in Nat /\ Cardinality(Drains) \in Nat
      BY EventIs
    <2>2. row[e].attempts + NumListers(e) < MaxAttempts + Cardinality(Drains)
      BY <2>1 DEF EventOK
    <2> QED BY <2>1, <2>2
  <1> QED BY <1>1, InductiveInvariant, PTL

\* Only a drain that was past its second check when the thread was taken over stores a
\* reply while an operator has the thread.
THEOREM SpeaksOverOnlyLate == Spec => SpeaksOverOnlyIfLate
  <1>1. IInv /\ [Next]_vars =>
          [\A d \in Drains : Speaks(d) /\ drain'[d] # drain[d] /\ Accepted(ThreadOf[drain[d].ev])
              => d \in late[ThreadOf[drain[d].ev]]]_vars
    BY DEF IInv, SpeechOK, Speaks
  <1> QED BY <1>1, InductiveInvariant, PTL DEF Spec, SpeaksOverOnlyIfLate
-----------------------------------------------------------------------------
(* The outbox implements AtLeastOnce. *)

\* The drains at work on an event, whatever they will make of it.
Working(e)    == {d \in Drains : drain[d].ev = e}
NumWorking(e) == Cardinality(Working(e))

\* The lock of a drain that may still be alive.
Held(r) == r.status = "processing" /\ ~r.lapsed

\* The drains at work exceed the mishaps by one at most, and only while the
\* event is locked: what has ended without a mishap is nobody's any more.
WorkOK(e) ==
  /\ row[e].status = "absent" => row[e].attempts = 0
  /\ NumWorking(e) <= 1 + cause[e]
  /\ Held(row[e]) \/ NumWorking(e) <= cause[e]

WorkInv == \A e \in Events : WorkOK(e)

LEMMA WorkMoves ==
  ASSUME NEW d \in Drains, Moved(d), NEW e \in Events
  PROVE  /\ NumWorking(e) \in Nat /\ NumWorking(e)' \in Nat
         /\ (drain'[d].ev = e => drain[d].ev = e) => NumWorking(e)' <= NumWorking(e)
         /\ drain[d].ev = e /\ drain'[d].ev # e => NumWorking(e)' + 1 = NumWorking(e)
         /\ NumWorking(e)' <= NumWorking(e) + 1
  <1>1. PICK S \in SUBSET Drains : S = Working(e)
    BY DEF Working
  <1>2. PICK T \in SUBSET Drains : T = Working(e)'
    BY DEF Working
  <1>3. \A x \in Drains : (x \in S <=> drain[x].ev = e) /\ (x \in T <=> drain'[x].ev = e)
    BY <1>1, <1>2 DEF Working
  <1>4. \A x \in Drains : x # d => (x \in S <=> x \in T)
    BY <1>3 DEF Moved
  <1>5. NumWorking(e) = Cardinality(S) /\ NumWorking(e)' = Cardinality(T)
    BY <1>1, <1>2 DEF NumWorking
  <1> QED BY <1>3, <1>4, <1>5, Counting

\* A set of drains with a member counts.
LEMMA SomeCount ==
  ASSUME NEW S \in SUBSET Drains, NEW d \in S PROVE Cardinality(S) \in Nat /\ Cardinality(S) > 0
  <1>1. IsFiniteSet(S) /\ Cardinality(S) \in Nat
    BY FS_Subset, FS_CardinalityType
  <1>2. Cardinality(S) # 0
    BY <1>1, FS_EmptySet
  <1> QED BY <1>1, <1>2

\* Who works on an event is counted.
LEMMA WorkCounts ==
  ASSUME NEW d \in Drains, NEW e \in Events, drain[d].ev = e
  PROVE  NumWorking(e) \in Nat /\ NumWorking(e) > 0
  <1>1. Working(e) \in SUBSET Drains /\ d \in Working(e)
    BY DEF Working
  <1> QED BY <1>1, SomeCount DEF NumWorking

\* Likewise who is busy with it.
LEMMA BusyCounts ==
  ASSUME NEW d \in Drains, NEW e \in Events, IsBusy(drain[d], e)
  PROVE  NumBusy(e) \in Nat /\ NumBusy(e) > 0
  <1>1. Busy(e) \in SUBSET Drains /\ d \in Busy(e)
    BY DEF Busy
  <1> QED BY <1>1, SomeCount DEF NumBusy

LEMMA DrainMoved ==
  ASSUME IInv, IInv', NEW d \in Drains, NEW s, Becomes(d, s)
  PROVE  Moved(d) /\ drain'[d] = s
  BY DEF Becomes, Moved, IInv, DrainsTyped

\* A step of a drain that takes up no event.
LEMMA WorkKept ==
  ASSUME IInv, IInv', WorkInv, NEW d \in Drains, Moved(d),
         \A e \in Events :
           /\ drain'[d].ev = e => drain[d].ev = e
           /\ cause[e] <= cause'[e]
           /\ row'[e].status = "absent" => row'[e] = row[e]
           /\ Held(row[e]) => Held(row'[e]) \/ (drain[d].ev = e /\ drain'[d].ev # e) \/ cause[e] < cause'[e]
  PROVE  WorkInv'
  <1> SUFFICES ASSUME NEW e \in Events PROVE WorkOK(e)'
    BY DEF WorkInv
  <1>1. /\ WorkOK(e) /\ cause[e] \in Nat /\ cause'[e] \in Nat
        /\ NumWorking(e) \in Nat /\ NumWorking(e)' \in Nat
        /\ NumWorking(e)' <= NumWorking(e)
        /\ drain[d].ev = e /\ drain'[d].ev # e => NumWorking(e)' + 1 = NumWorking(e)
    BY WorkMoves DEF WorkInv, IInv, RowsTyped
  <1>2. NumWorking(e)' <= 1 + cause'[e]
    BY <1>1 DEF WorkOK
  <1>3. Held(row'[e]) \/ NumWorking(e)' <= cause'[e]
    <2>1. CASE ~ Held(row[e])
      BY <1>1, <2>1 DEF WorkOK
    <2>2. CASE Held(row[e])
      BY <1>1, <2>2 DEF WorkOK
    <2> QED BY <2>1, <2>2
  <1> QED BY <1>1, <1>2, <1>3 DEF WorkOK, Held

\* A step that moves no drain.
LEMMA WorkRests ==
  ASSUME IInv, IInv', WorkInv, drain' = drain,
         \A e \in Events :
           /\ cause[e] <= cause'[e]
           /\ row'[e].status = "absent" => row'[e] = row[e]
           /\ Held(row[e]) => Held(row'[e]) \/ cause[e] < cause'[e] \/ NumWorking(e) = 0
  PROVE  WorkInv'
  <1> SUFFICES ASSUME NEW e \in Events PROVE WorkOK(e)'
    BY DEF WorkInv
  <1>1. /\ WorkOK(e) /\ cause[e] \in Nat /\ cause'[e] \in Nat
        /\ NumWorking(e) \in Nat /\ NumWorking(e)' = NumWorking(e)
    <2>1. Working(e) \subseteq Drains
      BY DEF Working
    <2>2. NumWorking(e) \in Nat
      BY <2>1, FS_Subset, FS_CardinalityType DEF NumWorking
    <2> QED BY <2>2 DEF WorkInv, IInv, RowsTyped, NumWorking, Working
  <1>2. Held(row'[e]) \/ NumWorking(e)' <= cause'[e]
    BY <1>1 DEF WorkOK
  <1> QED BY <1>1, <1>2 DEF WorkOK, Held

-----------------------------------------------------------------------------
(* The image of a step. *)

\* What every step keeps and shows.
Shown == WorkInv' /\ [Outbox!Next]_(Outbox!all)

\* Nothing to be seen.
LEMMA NothingShown ==
  ASSUME WorkInv', UNCHANGED <<sent, cause, hushed>>,
         \A e \in Events : Phase(row'[e].status) = Phase(row[e].status)
  PROVE  Shown
  <1>1. Phases = [e \in Events |-> Phase(row[e].status)] /\ Phases' = [e \in Events |-> Phase(row'[e].status)]
    BY DEF Phases, Phase
  <1>2. Phases' = Phases
    <2> HIDE DEF Phase
    <2> QED BY <1>1
  <1> QED BY <1>2 DEF Shown, Outbox!all

\* The phase of one event changes, or of none.
LEMMA PhaseChanges ==
  ASSUME NEW e \in Events, \A f \in Events : f # e => row'[f] = row[f]
  PROVE  /\ Phases[e] = Phase(row[e].status)
         /\ Phases' = [Phases EXCEPT ![e] = Phase(row'[e].status)]
         /\ Phase(row'[e].status) = Phase(row[e].status) => Phases' = Phases
  <1>1. /\ Phases = [f \in Events |-> Phase(row[f].status)]
        /\ Phases' = [f \in Events |-> Phase(row'[f].status)]
    BY DEF Phases, Phase
  <1> HIDE DEF Phase
  <1> QED BY <1>1

\* A step of the outbox at one event.
LEMMA OneShown ==
  ASSUME WorkInv', NEW e \in Events,
         \/ Outbox!Post(e) \/ Outbox!Copy(e) \/ Outbox!Mishap(e) \/ Outbox!Spare(e)
         \/ Outbox!Deliver(e) \/ Outbox!GiveUp(e) \/ Outbox!Reopen(e)
  PROVE  Shown
  BY DEF Shown, Outbox!Next

\* An event a drain works on has been posted; one that is no drain's lock has
\* met a mishap.
LEMMA AtWorkIs ==
  ASSUME IInv, WorkInv, NEW d \in Drains, NEW e \in Events, drain[d].ev = e
  PROVE  /\ row[e].status \in Statuses \ {"absent"}
         /\ Phase(row[e].status) \in {"waiting", "delivered", "dead"}
         /\ Phase(row[e].status) = "waiting" \/ cause[e] > 0
  <1>1. row[e] \in Row /\ DrainOK(drain[d]) /\ WorkOK(e) /\ cause[e] \in Nat
    BY EventIs, DrainIs DEF WorkInv
  <1>2. e # NoEvent
    OBVIOUS
  <1>3. row[e].attempts > 0 /\ row[e].status \in Statuses
    BY <1>1, <1>2 DEF DrainOK, Row
  <1>4. row[e].status # "absent"
    BY <1>1, <1>3 DEF WorkOK
  <1>5. Phase(row[e].status) = "waiting" \/ ~Held(row[e])
    BY DEF Held, Phase
  <1>6. NumWorking(e) \in Nat /\ NumWorking(e) > 0
    BY WorkCounts
  <1>7. Phase(row[e].status) = "waiting" \/ cause[e] > 0
    BY <1>1, <1>5, <1>6 DEF WorkOK
  <1> QED BY <1>3, <1>4, <1>7 DEF Statuses, Phase

\* A drain that has not yet judged its event finds room for one more copy.
LEMMA RoomToSend ==
  ASSUME IInv, NEW d \in Drains, NEW e \in Events, drain[d].ev = e, drain[d].pc # "settle"
  PROVE  sent[e] \in Nat /\ cause[e] \in Nat /\ sent[e] <= cause[e]
  <1>1. /\ sent[e] \in Nat /\ cause[e] \in Nat /\ EventOK(e)
        /\ NumBusy(e) \in Nat /\ NumBusy(e) > 0
    BY EventIs, BusyCounts DEF IsBusy
  <1> QED BY <1>1 DEF EventOK

LEMMA UnlockShown == ASSUME IInv, IInv', WorkInv, NEW d \in Drains, Unlock(d) PROVE Shown
  <1>1. UNCHANGED <<sent, cause, hushed>>
    BY DEF Unlock
  <1>2. ASSUME NEW e \in Events
        PROVE  \/ row'[e] = row[e]
               \/ row[e].status = "processing" /\ row[e].lapsed /\ row'[e].status = "pending"
    <2>1. PICK r \in Row : r = row[e]
      BY EventIs
    <2>2. row'[e] = IF r.status = "processing" /\ r.lapsed THEN [r EXCEPT !.status = "pending", !.lapsed = FALSE] ELSE r
      BY <2>1 DEF Unlock
    <2> QED BY <2>1, <2>2 DEF Row
  <1>3. Moved(d) /\ drain'[d].ev = NoEvent
    <2>1. PICK x \in Drain : x = [NoDrain EXCEPT !.pc = "list"]
      BY NoDrainOK DEF Drain
    <2>2. x.ev = NoEvent
      BY <2>1 DEF NoDrain
    <2> QED BY <2>1, <2>2, BecomesIs DEF Unlock
  <1>4. drain[d].ev = NoEvent
    BY DrainIs DEF Unlock, DrainOK, AtWork, InTry
  <1>5. WorkInv'
    <2>1. ASSUME NEW e \in Events
          PROVE  /\ drain'[d].ev # e /\ cause[e] <= cause'[e]
                 /\ row'[e].status = "absent" => row'[e] = row[e]
                 /\ Held(row[e]) => Held(row'[e])
      <3>1. cause[e] \in Nat /\ cause'[e] = cause[e]
        BY <1>1, EventIs
      <3>2. row'[e].status = "absent" => row'[e] = row[e]
        BY <1>2
      <3>3. Held(row[e]) => Held(row'[e])
        BY <1>2 DEF Held
      <3> QED BY <1>3, <3>1, <3>2, <3>3
    <2> QED BY <1>3, <2>1, WorkKept
  <1>6. \A e \in Events : Phase(row'[e].status) = Phase(row[e].status)
    BY <1>2 DEF Phase
  <1> QED BY <1>1, <1>5, <1>6, NothingShown

LEMMA ListShown == ASSUME IInv, IInv', WorkInv, NEW d \in Drains, List(d) PROVE Shown
  <1>1. UNCHANGED <<row, sent, cause, hushed>>
    BY DEF List
  <1>2. PICK s : Becomes(d, s) /\ s.ev = NoEvent
    <2>1. PICK pc, todo : Becomes(d, [NoDrain EXCEPT !.pc = pc, !.todo = todo])
      BY DEF List
    <2>2. [NoDrain EXCEPT !.pc = pc, !.todo = todo].ev = NoEvent
      BY DEF NoDrain
    <2> QED BY <2>1, <2>2
  <1>3. Moved(d) /\ drain'[d].ev = NoEvent
    BY <1>2, DrainMoved
  <1>4. WorkInv'
    <2>1. \A e \in Events : cause[e] <= cause'[e]
      BY <1>1, EventIs
    <2> QED BY <1>1, <1>3, <2>1, WorkKept
  <1> QED BY <1>1, <1>4, NothingShown

\* A drain that takes up an event finds it locked by nobody who may still be alive.
LEMMA LockShown == ASSUME IInv, IInv', WorkInv, NEW d \in Drains, Lock(d) PROVE Shown
  <1>1. drain[d] \in Drain /\ DrainOK(drain[d]) /\ drain[d].pc = "lock" /\ drain[d].ev = NoEvent
    BY DrainIs DEF Lock, DrainOK, AtWork, InTry
  <1>2. drain[d].todo # <<>> /\ Distinct(drain[d])
    BY <1>1 DEF DrainOK, Distinct
  <1>3. PICK q \in Drain, e \in Events, n \in Nat :
          /\ q = Resumed(drain[d], Tail(drain[d].todo)) /\ e = Head(drain[d].todo).ev /\ n = Head(drain[d].todo).tries
          /\ q.ev = drain[d].ev /\ Distinct(q)
    BY <1>1, <1>2, HeadIs
  <1>4. UNCHANGED <<sent, cause, hushed>>
    BY DEF Lock
  <1>5. CASE Lockable(e) /\ row' = [row EXCEPT ![e] = [status |-> "processing", attempts |-> @.attempts + 1,
                                                       due |-> @.due, lapsed |-> FALSE]]
             /\ Becomes(d, [q EXCEPT !.pc = IF Consumer[e] = "assistant" THEN "check" ELSE "send",
                                     !.ev = e, !.tries = n + 1])
    <2>1. PICK pc \in {"check", "send"} : pc = IF Consumer[e] = "assistant" THEN "check" ELSE "send"
      OBVIOUS
    <2>2. Taken(q, pc, e, n) \in Drain /\ Taken(q, pc, e, n).ev = e
      <3>1. q \in Drain /\ e \in Events /\ n \in Nat /\ pc \in {"check", "send"}
        BY <1>3, <2>1
      <3>2. Taken(q, pc, e, n) \in Drain
        BY <3>1, TakenIs
      <3>3. Taken(q, pc, e, n).ev = e
        BY <3>1 DEF Taken, Drain
      <3> QED BY <3>2, <3>3
    <2>3. Moved(d) /\ drain'[d] = Taken(q, pc, e, n)
      BY <1>5, <2>1, <2>2, BecomesIs DEF Taken
    <2>4. drain'[d].ev = e
      BY <2>2, <2>3
    <2>5. /\ row'[e].status = "processing" /\ ~row'[e].lapsed
          /\ \A f \in Events : f # e => row'[f] = row[f]
      BY <1>5 DEF IInv, RowsTyped
    <2>6. ASSUME NEW f \in Events PROVE WorkOK(f)'
      <3>1. /\ WorkOK(f) /\ cause[f] \in Nat /\ cause'[f] = cause[f]
            /\ NumWorking(f) \in Nat /\ NumWorking(f)' \in Nat
            /\ NumWorking(f)' <= NumWorking(f) + 1
            /\ (drain'[d].ev = f => drain[d].ev = f) => NumWorking(f)' <= NumWorking(f)
        BY <1>4, <2>3, EventIs, WorkMoves DEF WorkInv
      <3>2. CASE f = e
        <4>1. NumWorking(e) <= cause[e]
          BY <1>5, <3>1, <3>2 DEF WorkOK, Held, Lockable
        <4>2. NumWorking(e)' <= 1 + cause'[e]
          BY <3>1, <3>2, <4>1
        <4> QED BY <2>5, <3>2, <4>2 DEF WorkOK, Held
      <3>3. CASE f # e
        <4>1. NumWorking(f)' <= NumWorking(f) /\ row'[f] = row[f]
          BY <2>4, <2>5, <3>1, <3>3
        <4>2. NumWorking(f)' <= 1 + cause'[f]
          BY <3>1, <4>1 DEF WorkOK
        <4>3. Held(row'[f]) \/ NumWorking(f)' <= cause'[f]
          BY <3>1, <4>1 DEF WorkOK
        <4> QED BY <3>1, <4>1, <4>2, <4>3 DEF WorkOK, Held
      <3> QED BY <3>2, <3>3
    <2>7. \A f \in Events : Phase(row'[f].status) = Phase(row[f].status)
      BY <1>5, <2>5 DEF Phase, Lockable
    <2>8. WorkInv'
      BY <2>6 DEF WorkInv
    <2> QED BY <1>4, <2>7, <2>8, NothingShown
  <1>6. CASE Becomes(d, Onward(q)) /\ UNCHANGED row
    <2>1. Onward(q) \in Drain /\ Onward(q).ev = NoEvent
      BY <1>3, OnwardIs DEF Distinct
    <2>2. Moved(d) /\ drain'[d].ev = NoEvent
      BY <1>6, <2>1, BecomesIs
    <2>3. \A f \in Events : cause[f] <= cause'[f]
      BY <1>4, EventIs
    <2>4. WorkInv'
      BY <1>6, <2>2, <2>3, WorkKept
    <2> QED BY <1>4, <1>6, <2>4, NothingShown
  <1> QED BY <1>3, <1>5, <1>6 DEF Lock, Resumed

\* A drain that stays at work on its event.
LEMMA WorksOn ==
  ASSUME IInv, IInv', WorkInv, NEW d \in Drains, Moved(d), drain'[d].ev = drain[d].ev, row' = row,
         \A f \in Events : cause[f] <= cause'[f]
  PROVE  WorkInv'
  BY WorkKept

LEMMA HeedShown ==
  ASSUME IInv, IInv', WorkInv, NEW d \in Drains, NEW from \in {"check", "generate"}, NEW to \in {"generate", "write"},
         Heed(d, from, to)
  PROVE  Shown
  <1>1. PICK e \in Events : drain[d].ev = e
    BY DrainIs DEF Heed, AtWork, InTry
  <1>2. UNCHANGED <<row, sent, cause>> /\ hushed' \in {hushed, hushed \cup {e}}
    BY <1>1 DEF Heed
  <1>3. PICK s : Becomes(d, s) /\ s.ev = e
    <2>1. drain[d] \in Drain
      BY DrainIs
    <2>2. Judged(d, "ok").ev = e /\ [drain[d] EXCEPT !.pc = to].ev = e
      BY <1>1, <2>1 DEF Judged, Drain
    <2> QED BY <2>2 DEF Heed
  <1>4. WorkInv'
    <2>1. Moved(d) /\ drain'[d].ev = e
      BY <1>3, DrainMoved
    <2>2. \A f \in Events : cause[f] <= cause'[f]
      BY <1>2, EventIs
    <2> QED BY <1>1, <1>2, <2>1, <2>2, WorksOn
  <1>5. CASE hushed' = hushed
    BY <1>2, <1>4, <1>5, NothingShown
  <1>6. CASE hushed' = hushed \cup {e}
    <2>1. Phases' = Phases /\ Phases[e] # "absent"
      BY <1>1, <1>2, AtWorkIs, PhaseChanges
    <2>2. Outbox!Spare(e)
      BY <1>2, <1>6, <2>1 DEF Outbox!Spare, Outbox!Posted
    <2> QED BY <1>4, <2>2, OneShown
  <1> QED BY <1>2, <1>5, <1>6

LEMMA WriteShown == ASSUME IInv, IInv', WorkInv, NEW d \in Drains, Write(d) PROVE Shown
  <1>1. drain[d].pc = "write"
    BY DEF Write
  <1>2. PICK e \in Events : drain[d].ev = e
    BY <1>1, DrainIs DEF AtWork, InTry
  <1>3. UNCHANGED <<row, cause, hushed>> /\ sent' = [sent EXCEPT ![e] = @ + 1]
    BY <1>2 DEF Write
  <1>4. Becomes(d, Judged(d, "ok")) /\ Judged(d, "ok").ev = e
    BY <1>2, DrainIs DEF Write, Judged, Drain
  <1>5. WorkInv'
    <2>1. Moved(d) /\ drain'[d].ev = e
      BY <1>4, DrainMoved
    <2>2. \A f \in Events : cause[f] <= cause'[f]
      BY <1>3, EventIs
    <2> QED BY <1>2, <1>3, <2>1, <2>2, WorksOn
  <1>6. Phases' = Phases /\ Phases[e] # "absent"
    BY <1>2, <1>3, AtWorkIs, PhaseChanges
  <1>7. sent[e] <= cause[e]
    BY <1>1, <1>2, RoomToSend
  <1>8. Outbox!Copy(e)
    BY <1>3, <1>6, <1>7 DEF Outbox!Copy, Outbox!Posted
  <1> QED BY <1>5, <1>8, OneShown

LEMMA SendShown == ASSUME IInv, IInv', WorkInv, NEW d \in Drains, Send(d) PROVE Shown
  <1>1. drain[d].pc = "send"
    BY DEF Send
  <1>2. PICK e \in Events : drain[d].ev = e
    BY <1>1, DrainIs DEF AtWork, InTry
  <1>3. PICK v \in {"ok", "retry", "reject"} :
          /\ Becomes(d, Judged(d, v))
          /\ \/ hushed' = hushed \cup {e} /\ UNCHANGED <<sent, cause>>
             \/ sent' = [sent EXCEPT ![e] = @ + 1] /\ UNCHANGED <<hushed, cause>>
             \/ UNCHANGED <<sent, cause, hushed>>
             \/ sent' = [sent EXCEPT ![e] = @ + 1] /\ cause' = [cause EXCEPT ![e] = @ + 1] /\ UNCHANGED hushed
    BY <1>2 DEF Send
  <1>4. Judged(d, v).ev = e /\ row' = row
    BY <1>2, DrainIs DEF Send, Judged, Drain
  <1>5. WorkInv'
    <2>1. Moved(d) /\ drain'[d].ev = e
      BY <1>3, <1>4, DrainMoved
    <2>2. ASSUME NEW f \in Events PROVE cause[f] <= cause'[f]
      <3>1. cause \in [Events -> Nat]
        BY DEF IInv, RowsTyped
      <3>2. cause' = cause \/ cause' = [cause EXCEPT ![e] = @ + 1]
        BY <1>3
      <3> QED BY <3>1, <3>2
    <2> QED BY <1>2, <1>4, <2>1, <2>2, WorksOn
  <1>6. Phases' = Phases /\ Phases[e] # "absent"
    BY <1>2, <1>4, AtWorkIs, PhaseChanges
  <1>7. sent[e] <= cause[e]
    BY <1>1, <1>2, RoomToSend
  <1>8. CASE hushed' = hushed \cup {e} /\ UNCHANGED <<sent, cause>>
    <2>1. Outbox!Spare(e)
      BY <1>6, <1>8 DEF Outbox!Spare, Outbox!Posted
    <2> QED BY <1>5, <2>1, OneShown
  <1>9. CASE /\ sent' = [sent EXCEPT ![e] = @ + 1] /\ UNCHANGED hushed
             /\ cause' = cause \/ cause' = [cause EXCEPT ![e] = @ + 1]
    <2>1. Outbox!Copy(e)
      BY <1>6, <1>7, <1>9 DEF Outbox!Copy, Outbox!Posted
    <2> QED BY <1>5, <2>1, OneShown
  <1>10. CASE UNCHANGED <<sent, cause, hushed>>
    BY <1>4, <1>5, <1>10, NothingShown
  <1> QED BY <1>3, <1>8, <1>9, <1>10

\* Whoever settles was at work: what he settles has not ended, or has met a mishap.
LEMMA SettleShown == ASSUME IInv, IInv', WorkInv, NEW d \in Drains, Settle(d) PROVE Shown
  <1>1. /\ drain[d] \in Drain /\ DrainOK(drain[d]) /\ drain[d].verdict # "none"
        /\ drain[d].pc = "settle" \/ (drain[d].pc = "catch" /\ drain[d].verdict = "retry")
    BY DrainIs DEF Settle, DrainOK
  <1>2. PICK e \in Events : drain[d].ev = e
    BY <1>1, DrainIs DEF AtWork, InTry
  <1>3. drain[d].verdict = "ok" => sent[e] > 0 \/ e \in hushed
    BY <1>1, <1>2 DEF DrainOK
  <1>4. UNCHANGED <<sent, cause, hushed>>
    BY DEF Settle
  <1>5. /\ \A f \in Events : f # e => row'[f] = row[f]
        /\ row'[e].status \in {"delivered", "failed", "dead"}
        /\ row'[e].status = "delivered" => drain[d].verdict = "ok"
    <2>1. row'[e] = Settled(row[e], drain[d]) /\ \A f \in Events : f # e => row'[f] = row[f]
      BY <1>2 DEF Settle, IInv, RowsTyped
    <2> QED BY <1>1, <2>1, EventIs, SettledIs
  <1>6. Onward(drain[d]).ev = NoEvent
    BY <1>1, OnwardIs DEF DrainOK
  <1>7. Moved(d) /\ drain'[d].ev = NoEvent
    BY <1>6, DrainMoved DEF Settle
  <1>8. WorkInv'
    <2>1. ASSUME NEW f \in Events
          PROVE  /\ drain'[d].ev # f /\ cause[f] <= cause'[f]
                 /\ row'[f].status = "absent" => row'[f] = row[f]
                 /\ Held(row[f]) => Held(row'[f]) \/ (drain[d].ev = f /\ drain'[d].ev # f)
      <3>1. drain'[d].ev # f /\ cause[f] <= cause'[f]
        BY <1>4, <1>7, EventIs
      <3> QED BY <1>2, <1>5, <3>1
    <2> QED BY <1>7, <2>1, WorkKept
  <1>9. /\ Phases[e] # "absent" /\ (Phases[e] = "waiting" \/ cause[e] > 0)
        /\ Phases' = [Phases EXCEPT ![e] = Phase(row'[e].status)]
    BY <1>2, <1>5, AtWorkIs, PhaseChanges
  <1>10. Outbox!Pliable(e)
    BY <1>9 DEF Outbox!Pliable, Outbox!Posted
  <1>11. CASE row'[e].status = "delivered"
    <2>1. Outbox!Deliver(e)
      BY <1>3, <1>4, <1>5, <1>9, <1>10, <1>11 DEF Outbox!Deliver, Outbox!Becomes, Phase
    <2> QED BY <1>8, <2>1, OneShown
  <1>12. CASE row'[e].status = "dead"
    <2>1. Outbox!GiveUp(e)
      BY <1>4, <1>9, <1>10, <1>12 DEF Outbox!GiveUp, Outbox!Becomes, Phase
    <2> QED BY <1>8, <2>1, OneShown
  <1>13. CASE row'[e].status = "failed"
    <2>1. Outbox!Reopen(e)
      BY <1>4, <1>9, <1>10, <1>13 DEF Outbox!Reopen, Outbox!Becomes, Phase
    <2> QED BY <1>8, <2>1, OneShown
  <1> QED BY <1>5, <1>11, <1>12, <1>13

LEMMA ThrowShown == ASSUME IInv, IInv', WorkInv, NEW d \in Drains, Throw(d) PROVE Shown
  <1>1. PICK e \in Events, x \in Drain : drain[d].ev = e /\ x.ev = e /\ Moved(d) /\ drain'[d] = x /\ hushed' = hushed
    BY CaughtIs
  <1>2. /\ sent' \in [Events -> Nat] /\ cause' \in [Events -> Nat]
        /\ \A f \in Events : f # e => sent'[f] = sent[f] /\ cause'[f] = cause[f]
        /\ \/ drain[d].pc # "settle" /\ row' = row /\ sent' = sent /\ cause' = cause
           \/ drain[d].pc = "write" /\ row' = row /\ sent'[e] = sent[e] + 1 /\ cause'[e] = cause[e] + 1
           \/ drain[d].pc = "settle" /\ row' = row /\ sent' = sent /\ cause'[e] = cause[e] + 1
           \/ drain[d].pc = "settle" /\ row' = [row EXCEPT ![e] = Settled(@, drain[d])]
              /\ sent' = sent /\ cause'[e] = cause[e] + 1
    BY <1>1, ThrownIs
  <1>3. sent \in [Events -> Nat] /\ cause \in [Events -> Nat] /\ row \in [Events -> Row]
    BY DEF IInv, RowsTyped
  <1>4. \A f \in Events : cause[f] <= cause'[f]
    BY <1>2, <1>3
  <1>5. cause'[e] = cause[e] + 1 => cause' = [cause EXCEPT ![e] = @ + 1]
    BY <1>2, <1>3
  <1>6. CASE row' = row
    <2>1. WorkInv'
      BY <1>1, <1>4, <1>6, WorksOn
    <2>2. Phases' = Phases /\ Phases[e] # "absent"
      BY <1>1, <1>6, AtWorkIs, PhaseChanges
    <2>3. CASE sent' = sent /\ cause' = cause
      BY <1>1, <1>6, <2>1, <2>3, NothingShown
    <2>4. CASE sent' = sent /\ cause'[e] = cause[e] + 1
      <3>1. Outbox!Mishap(e)
        BY <1>1, <1>5, <2>2, <2>4 DEF Outbox!Mishap, Outbox!Posted
      <3> QED BY <2>1, <3>1, OneShown
    <2>5. CASE drain[d].pc = "write" /\ sent'[e] = sent[e] + 1 /\ cause'[e] = cause[e] + 1
      <3>1. sent' = [sent EXCEPT ![e] = @ + 1]
        BY <1>2, <1>3, <2>5
      <3>2. sent[e] <= cause[e]
        BY <1>1, <2>5, RoomToSend
      <3>3. Outbox!Copy(e)
        BY <1>1, <1>5, <2>2, <2>5, <3>1, <3>2 DEF Outbox!Copy, Outbox!Posted
      <3> QED BY <2>1, <3>3, OneShown
    <2> QED BY <1>2, <2>3, <2>4, <2>5
  <1>7. CASE drain[d].pc = "settle" /\ row' = [row EXCEPT ![e] = Settled(@, drain[d])]
             /\ sent' = sent /\ cause'[e] = cause[e] + 1
    <2>1. drain[d] \in Drain /\ DrainOK(drain[d]) /\ drain[d].verdict # "none" /\ e # NoEvent
      BY <1>7, DrainIs DEF DrainOK
    <2>2. drain[d].verdict = "ok" => sent[e] > 0 \/ e \in hushed
      BY <1>1, <1>7, <2>1 DEF DrainOK
    <2>3. /\ row'[e] = Settled(row[e], drain[d]) /\ row[e] \in Row
          /\ \A f \in Events : f # e => row'[f] = row[f]
      BY <1>3, <1>7
    <2>4. row'[e].status \in {"delivered", "failed", "dead"} /\ (row'[e].status = "delivered" => drain[d].verdict = "ok")
      BY <2>1, <2>3, SettledIs
    <2>5. WorkInv'
      <3>1. ASSUME NEW f \in Events
            PROVE  /\ drain'[d].ev = f => drain[d].ev = f
                   /\ cause[f] <= cause'[f]
                   /\ row'[f].status = "absent" => row'[f] = row[f]
                   /\ Held(row[f]) => \/ Held(row'[f]) \/ (drain[d].ev = f /\ drain'[d].ev # f)
                                      \/ cause[f] < cause'[f]
        <4>1. CASE f = e
          BY <1>1, <1>3, <1>7, <2>4, <4>1
        <4>2. CASE f # e
          BY <1>1, <1>4, <2>3, <4>2
        <4> QED BY <4>1, <4>2
      <3> QED BY <1>1, <3>1, WorkKept
    <2>6. /\ Phases[e] # "absent" /\ (Phases[e] = "waiting" \/ cause[e] > 0)
          /\ Phases' = [Phases EXCEPT ![e] = Phase(row'[e].status)]
      BY <1>1, <2>3, AtWorkIs, PhaseChanges
    <2>7. Outbox!Pliable(e)
      BY <2>6 DEF Outbox!Pliable, Outbox!Posted
    <2>8. UNCHANGED <<sent, hushed>> /\ cause' = [cause EXCEPT ![e] = @ + 1]
      BY <1>1, <1>5, <1>7
    <2>9. CASE row'[e].status = "delivered"
      <3>1. Outbox!Deliver(e)
        BY <2>2, <2>4, <2>6, <2>7, <2>8, <2>9 DEF Outbox!Deliver, Outbox!Becomes, Phase
      <3> QED BY <2>5, <3>1, OneShown
    <2>10. CASE row'[e].status = "dead"
      <3>1. Outbox!GiveUp(e)
        BY <2>6, <2>7, <2>8, <2>10 DEF Outbox!GiveUp, Outbox!Becomes, Phase
      <3> QED BY <2>5, <3>1, OneShown
    <2>11. CASE row'[e].status = "failed"
      <3>1. Outbox!Reopen(e)
        BY <2>6, <2>7, <2>8, <2>11 DEF Outbox!Reopen, Outbox!Becomes, Phase
      <3> QED BY <2>5, <3>1, OneShown
    <2> QED BY <2>4, <2>9, <2>10, <2>11
  <1> QED BY <1>2, <1>6, <1>7

LEMMA DieShown == ASSUME IInv, IInv', WorkInv, NEW d \in Drains, Die(d) PROVE Shown
  <1>1. UNCHANGED <<row, sent, hushed>>
    BY DEF Die
  <1>2. Moved(d) /\ drain'[d].ev = NoEvent
    BY NoDrainOK, DrainMoved DEF Die
  <1>3. cause' = [f \in Events |-> IF f = drain[d].ev THEN cause[f] + 1 ELSE cause[f]]
    BY DEF Die
  <1>4. WorkInv'
    <2>1. ASSUME NEW f \in Events PROVE cause[f] <= cause'[f] /\ drain'[d].ev # f
      BY <1>2, <1>3, EventIs
    <2> QED BY <1>1, <1>2, <2>1, WorkKept
  <1>5. cause \in [Events -> Nat] /\ drain[d] \in Drain
    BY DrainIs DEF IInv, RowsTyped
  <1>6. CASE drain[d].ev = NoEvent
    <2>1. cause' = cause
      BY <1>3, <1>5, <1>6
    <2> QED BY <1>1, <1>4, <2>1, NothingShown
  <1>7. CASE drain[d].ev # NoEvent
    <2>1. PICK e \in Events : drain[d].ev = e
      BY <1>5, <1>7 DEF Drain
    <2>2. cause' = [cause EXCEPT ![e] = @ + 1]
      BY <1>3, <1>5, <2>1
    <2>3. Phases' = Phases /\ Phases[e] # "absent"
      BY <1>1, <2>1, AtWorkIs, PhaseChanges
    <2>4. Outbox!Mishap(e)
      BY <1>1, <2>2, <2>3 DEF Outbox!Mishap, Outbox!Posted
    <2> QED BY <1>4, <2>4, OneShown
  <1> QED BY <1>6, <1>7

-----------------------------------------------------------------------------
(* The events and the operators. *)

LEMMA EnqueueShown == ASSUME IInv, IInv', WorkInv, NEW e \in Events, Enqueue(e) PROVE Shown
  <1>1. UNCHANGED <<drain, sent, cause, hushed>>
    BY DEF Enqueue
  <1>2. /\ \A f \in Events : f # e => row'[f] = row[f]
        /\ row[e].status = "absent" /\ row'[e].status = "pending"
    BY EventIs DEF Enqueue, IInv, RowsTyped, Row
  <1>3. WorkInv'
    <2>1. ASSUME NEW f \in Events
          PROVE  /\ cause[f] <= cause'[f]
                 /\ row'[f].status = "absent" => row'[f] = row[f]
                 /\ Held(row[f]) => Held(row'[f])
      <3>1. cause[f] <= cause'[f]
        BY <1>1, EventIs
      <3> QED BY <1>2, <3>1 DEF Held
    <2> QED BY <1>1, <2>1, WorkRests
  <1>4. Phases[e] = "absent" /\ Phases' = [Phases EXCEPT ![e] = "waiting"]
    BY <1>2, PhaseChanges DEF Phase
  <1>5. Outbox!Post(e)
    BY <1>1, <1>4 DEF Outbox!Post, Outbox!Posted
  <1> QED BY <1>3, <1>5, OneShown

LEMMA DueShown == ASSUME IInv, IInv', WorkInv, NEW e \in Events, Due(e) PROVE Shown
  <1>1. UNCHANGED <<drain, sent, cause, hushed>>
    BY DEF Due
  <1>2. /\ \A f \in Events : f # e => row'[f] = row[f]
        /\ row[e].status # "absent" /\ row'[e].status = row[e].status /\ row'[e].lapsed = row[e].lapsed
    BY EventIs DEF Due, IInv, RowsTyped, Row
  <1>3. WorkInv'
    <2>1. ASSUME NEW f \in Events
          PROVE  /\ cause[f] <= cause'[f]
                 /\ row'[f].status = "absent" => row'[f] = row[f]
                 /\ Held(row[f]) => Held(row'[f])
      <3>1. cause[f] <= cause'[f]
        BY <1>1, EventIs
      <3> QED BY <1>2, <3>1 DEF Held
    <2> QED BY <1>1, <2>1, WorkRests
  <1>4. \A f \in Events : Phase(row'[f].status) = Phase(row[f].status)
    BY <1>2 DEF Phase
  <1> QED BY <1>1, <1>3, <1>4, NothingShown

\* The lock of a drain still at work lapses with a mishap, one of nobody's without.
LEMMA LapseShown == ASSUME IInv, IInv', WorkInv, NEW e \in Events, Lapse(e) PROVE Shown
  <1>1. UNCHANGED <<drain, sent, hushed>>
    BY DEF Lapse
  <1>2. /\ \A f \in Events : f # e => row'[f] = row[f]
        /\ row[e].status = "processing" /\ row'[e].status = "processing"
    BY EventIs DEF Lapse, IInv, RowsTyped, Row
  <1>3. /\ cause' = [cause EXCEPT ![e] = IF \E d \in Drains : drain[d].ev = e THEN @ + 1 ELSE @]
        /\ cause \in [Events -> Nat]
    BY DEF Lapse, IInv, RowsTyped
  <1>4. Phases' = Phases /\ Phases[e] = "waiting"
    BY <1>2, PhaseChanges DEF Phase
  <1>5. CASE \E d \in Drains : drain[d].ev = e
    <2>1. cause' = [cause EXCEPT ![e] = @ + 1]
      BY <1>3, <1>5
    <2>2. WorkInv'
      <3>1. ASSUME NEW f \in Events
            PROVE  /\ cause[f] <= cause'[f]
                   /\ row'[f].status = "absent" => row'[f] = row[f]
                   /\ Held(row[f]) => Held(row'[f]) \/ cause[f] < cause'[f]
        <4>1. CASE f = e
          <5>1. cause[e] \in Nat /\ cause'[e] = cause[e] + 1
            BY <1>3, <2>1
          <5> QED BY <1>2, <4>1, <5>1
        <4>2. CASE f # e
          <5>1. cause[f] \in Nat /\ cause'[f] = cause[f]
            BY <1>3, <2>1, <4>2
          <5> QED BY <1>2, <4>2, <5>1
        <4> QED BY <4>1, <4>2
      <3> QED BY <1>1, <3>1, WorkRests
    <2>3. Outbox!Mishap(e)
      BY <1>1, <1>4, <2>1 DEF Outbox!Mishap, Outbox!Posted
    <2> QED BY <2>2, <2>3, OneShown
  <1>6. CASE ~ \E d \in Drains : drain[d].ev = e
    <2>1. cause' = cause
      BY <1>3, <1>6
    <2>2. NumWorking(e) = 0
      <3>1. Working(e) = {}
        BY <1>6 DEF Working
      <3> QED BY <3>1, FS_EmptySet DEF NumWorking
    <2>3. WorkInv'
      <3>1. ASSUME NEW f \in Events
            PROVE  /\ cause[f] <= cause'[f]
                   /\ row'[f].status = "absent" => row'[f] = row[f]
                   /\ Held(row[f]) => Held(row'[f]) \/ NumWorking(f) = 0
        <4>1. cause[f] <= cause'[f]
          BY <1>3, <2>1
        <4> QED BY <1>2, <2>2, <4>1
      <3> QED BY <1>1, <3>1, WorkRests
    <2>4. \A f \in Events : Phase(row'[f].status) = Phase(row[f].status)
      BY <1>2
    <2> QED BY <1>1, <2>1, <2>3, <2>4, NothingShown
  <1> QED BY <1>5, <1>6

\* Operators are not seen.
LEMMA DeskShown == ASSUME IInv, IInv', WorkInv, UNCHANGED <<row, drain, sent, cause, hushed>> PROVE Shown
  <1>1. \A f \in Events : cause[f] <= cause'[f]
    BY EventIs
  <1>2. WorkInv'
    BY <1>1, WorkRests
  <1> QED BY <1>2, NothingShown

-----------------------------------------------------------------------------
(* The refinement. *)

LEMMA NextShown == ASSUME IInv, IInv', WorkInv, [Next]_vars PROVE Shown
  <1>1. ASSUME NEW e \in Events, Enqueue(e) \/ Due(e) \/ Lapse(e) PROVE Shown
    BY <1>1, EnqueueShown, DueShown, LapseShown
  <1>2. ASSUME NEW d \in Drains, DrainStep(d) \/ Throw(d) \/ Die(d) PROVE Shown
    <2>1. CASE Unlock(d) \/ List(d) \/ Lock(d)
      BY <2>1, UnlockShown, ListShown, LockShown
    <2>2. CASE Check(d)
      BY <2>2, HeedShown DEF Check
    <2>3. CASE Generate(d)
      BY <2>3, HeedShown DEF Generate
    <2>4. CASE Write(d) \/ Send(d) \/ Settle(d) \/ Throw(d) \/ Die(d)
      BY <2>4, WriteShown, SendShown, SettleShown, ThrowShown, DieShown
    <2> QED BY <1>2, <2>1, <2>2, <2>3, <2>4 DEF DrainStep
  <1>3. ASSUME NEW o \in Operators, Take(o) \/ Mark(o) PROVE Shown
    BY <1>3, DeskShown DEF Take, Mark
  <1>4. ASSUME NEW o \in Operators, NEW t \in Threads, Takeover(o, t) \/ LetGo(o, t, FALSE) \/ LetGo(o, t, TRUE) PROVE Shown
    BY <1>4, DeskShown DEF Takeover, LetGo
  <1>5. CASE UNCHANGED vars
    BY <1>5, DeskShown DEF vars
  <1> QED BY <1>1, <1>2, <1>3, <1>4, <1>5 DEF Next

LEMMA InitShown == Init => WorkInv /\ Outbox!Init
  <1> SUFFICES ASSUME Init PROVE WorkInv /\ Outbox!Init
    OBVIOUS
  <1>1. ASSUME NEW e \in Events PROVE WorkOK(e)
    <2>1. Working(e) = {}
      BY DEF Working, Init, NoDrain
    <2>2. NumWorking(e) = 0
      BY <2>1, FS_EmptySet DEF NumWorking
    <2>3. row[e].attempts = 0 /\ cause[e] = 0
      BY DEF Init
    <2> QED BY <2>2, <2>3 DEF WorkOK
  <1>2. Phases = [e \in Events |-> "absent"]
    BY DEF Init, Phases, Phase
  <1> QED BY <1>1, <1>2 DEF WorkInv, Outbox!Init, Init

\* Beyond the mishaps, no event has more than one drain at work on it, and none
\* at all unless it is locked, although no settling UPDATE asks whose the lock is.
THEOREM WorkIsCounted == Spec => [](IInv /\ WorkInv)
  <1>1. Init => IInv /\ WorkInv
    BY InitOK, InitShown
  <1>2. IInv /\ WorkInv /\ [Next]_vars => IInv' /\ WorkInv'
    BY NextStep, NextShown DEF Shown
  <1> QED BY <1>1, <1>2, PTL DEF Spec

\* Whatever the drains, the operators and the faults do, the outbox is one that
\* delivers at least once: a row is delivered only if it was sent or left alone,
\* is sent once more at most for each mishap, and without one is never touched
\* again once it has ended.
THEOREM OutboxImplements == Spec => ImplementsAtLeastOnce
  <1>1. Init => Outbox!Init
    BY InitShown
  <1>2. IInv /\ IInv' /\ WorkInv /\ [Next]_vars => [Outbox!Next]_(Outbox!all)
    BY NextShown DEF Shown
  <1> QED BY <1>1, <1>2, WorkIsCounted, PTL DEF Spec, ImplementsAtLeastOnce, Outbox!Spec
=============================================================================
