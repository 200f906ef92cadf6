----------------------------- MODULE BrokerSteps -----------------------------
(***************************************************************************)
(* The inductive invariant of the broker, and the steps that take, judge   *)
(* and answer a call or belong to the hand-off, the log, the zone's tasks  *)
(* and the daemon.  What a judge does with its pins is in BrokerProofs.    *)
(***************************************************************************)
EXTENDS Broker, TLAPS

-----------------------------------------------------------------------------
(* The inductive invariant.                                                *)

Before == {"for_task", "open_mem", "open_root", "id_valid", "read", "open", "addfd", "record"}
Busy   == Before \cup {"send"}
Answers == {"none", "fd", "denied", "ENOSYS"}

Pins  == [pidfd: Nat, mem: Nat, root: Nat]
Notes == [tid: Tids, gen: Nat, path: Paths, ok: BOOLEAN, taken: BOOLEAN, answer: Answers,
          from: Nat, named: Paths \cup {""}]
JudgeStates == [pc: Busy \cup {"off", "recv"}, note: Nat, pins: Pins, path: Paths \cup {""},
                grant: BOOLEAN, opened: Nat]
Caches == [pins: UNION {[T -> Pins] : T \in SUBSET Tids}, order: Seq(Tids)]
Lines  == [seq: Nat, note: Nat, granted: BOOLEAN]
Logs   == [state: {"closed", "open", "disabled"}, lines: Seq(Lines), seq: Nat, marker: BOOLEAN,
           incomplete: BOOLEAN]

Results == [pc: {"waiting", "marked", "read"}, flagged: BOOLEAN, seen: SUBSET Lines]

BrokerTypes ==
  /\ serve \in {"bind", "accept", "recv_fd", "pool", "ended"}
  /\ crun \in {"starting", "connected", "sent", "failed"}
  /\ tasks \in [Tids -> [gen: Nat, up: BOOLEAN]]
  /\ notes \in Seq(Notes)
  /\ judge \in [Judges -> JudgeStates]
  /\ cache \in [Judges -> Caches]
  /\ log \in Logs
  /\ faults \in [other: Nat, poll: Nat]
  /\ result \in Results

\* Until the hand-off nothing runs; afterwards the log is open exactly while
\* the pool is.
HandoffInv ==
  /\ serve \in {"bind", "accept", "recv_fd"} =>
       /\ notes = <<>> /\ log.lines = <<>> /\ ~log.marker /\ result.pc = "waiting"
       /\ \A tid \in Tids : ~tasks[tid].up /\ tasks[tid].gen = 0
  /\ serve # "pool" => log.state = "closed" /\ \A j \in Judges : judge[j].pc = "off"
  /\ serve = "pool" => log.state # "closed" /\ log.marker

\* A judge at work has taken the call it judges, and no other judge has.
TakenInv ==
  /\ \A n \in DOMAIN notes :
       /\ notes[n].gen <= tasks[notes[n].tid].gen
       /\ notes[n].answer \in {"fd", "denied"} => notes[n].taken
  /\ \A j \in Judges : judge[j].pc \in Busy => judge[j].note \in DOMAIN notes /\ Note(j).taken
  /\ \A j \in Judges : judge[j].pc \notin Busy => judge[j].note = 0
  /\ \A j, k \in Judges :
       judge[j].pc \in Busy /\ judge[k].pc \in Busy /\ judge[j].note = judge[k].note => j = k

\* Pins are opened one after the other while incarnations only grow.
InOrder(p, G) == p.pidfd <= p.mem /\ p.mem <= p.root /\ p.root <= G
PinInv(j) ==
  LET p == judge[j].pins  g == Note(j).gen  G == tasks[Note(j).tid].gen  pc == judge[j].pc
  IN  /\ pc = "open_mem" => g <= p.pidfd /\ p.pidfd <= G
      /\ pc = "open_root" => g <= p.pidfd /\ p.pidfd <= p.mem /\ p.mem <= G
      /\ pc = "id_valid" => InOrder(p, G)
PinsInv ==
  /\ \A j \in Judges : PinInv(j)
  /\ \A j \in Judges : \A tid \in DOMAIN Cached(j) : InOrder(Cached(j)[tid], tasks[tid].gen)

\* What a judge holds and what it opens is the caller's, and of this call.
CallerInv(j) ==
  LET p == judge[j].pins  g == Note(j).gen  pc == judge[j].pc
  IN  /\ pc = "id_valid" => g <= p.pidfd
      /\ pc \in {"read", "open"} => p = [pidfd |-> g, mem |-> g, root |-> g]
      /\ pc = "open" => Note(j).ok /\ judge[j].path = Note(j).path
      /\ pc \in {"addfd", "record", "send"} /\ judge[j].grant =>
           Note(j).ok /\ judge[j].opened = g /\ judge[j].path = Note(j).path
CallersInv == faults.poll = 0 => (\A j \in Judges : CallerInv(j)) /\ InjectedAnswersTheCall

\* A cache has room for the pin that its judge is about to add.
CacheInv ==
  \A j \in Judges :
    /\ DOMAIN Cached(j) \subseteq Range(cache[j].order)
    /\ IsFiniteSet(DOMAIN Cached(j)) /\ Cardinality(DOMAIN Cached(j)) <= per_thread_cache
    /\ judge[j].pc \in {"open_mem", "open_root"} /\ per_thread_cache # 0 =>
         Cardinality(DOMAIN Cached(j)) < per_thread_cache

\* The numbers of the lines.
OrderInv ==
  /\ LogInOrder
  /\ \A i \in DOMAIN log.lines : log.lines[i].seq <= log.seq
  /\ ~log.incomplete => log.seq = Len(log.lines)

\* Nothing is missing from the log, or the marker will tell.
Intact == IF log.state = "closed" THEN ~log.marker ELSE log.state = "open" /\ ~log.incomplete
LinesInv ==
  /\ \A i \in DOMAIN log.lines :
       LET l == log.lines[i]
       IN  /\ l.note \in DOMAIN notes /\ notes[l.note].taken
           /\ notes[l.note].answer \in {"fd", "denied"} => (l.granted = (notes[l.note].answer = "fd"))
           /\ \A j \in Judges : judge[j].pc \in Busy /\ judge[j].note = l.note =>
                judge[j].pc = "send" /\ l.granted = judge[j].grant
  /\ \A i, k \in DOMAIN log.lines : log.lines[i].note = log.lines[k].note => i = k
\* A call still being judged has no answer from the pool yet.
AnswerInv ==
  \A j \in Judges : judge[j].pc \in Busy => Note(j).answer \notin {"fd", "denied"}
CoverInv ==
  Intact =>
    /\ \A n \in DOMAIN notes : notes[n].answer \in {"fd", "denied"} =>
         \E i \in DOMAIN log.lines : log.lines[i].note = n
    /\ \A j \in Judges : judge[j].pc = "send" => \E i \in DOMAIN log.lines : log.lines[i].note = judge[j].note
\* The daemon reads a log without a marker after its last line.
ResultInv ==
  /\ result.pc \in {"marked", "read"} /\ ~result.flagged => serve = "ended" /\ ~log.marker
  /\ result.pc = "read" /\ ~result.flagged => result.seen = {log.lines[i] : i \in DOMAIN log.lines}

BrokerInv ==
  /\ BrokerTypes /\ HandoffInv /\ TakenInv /\ PinsInv /\ CallersInv /\ CacheInv
  /\ OrderInv /\ LinesInv /\ AnswerInv /\ CoverInv /\ ResultInv

-----------------------------------------------------------------------------
(* What a step does to a judge.                                            *)

PCs == Busy \cup {"off", "recv"}

\* What LinesInv says of a line in the next state, but that it is the only one
\* of its note.
LineHolds(l) ==
  /\ l.note \in DOMAIN notes' /\ notes'[l.note].taken
  /\ notes'[l.note].answer \in {"fd", "denied"} => (l.granted = (notes'[l.note].answer = "fd"))
  /\ \A k \in Judges : judge'[k].pc \in Busy /\ judge'[k].note = l.note =>
       judge'[k].pc = "send" /\ l.granted = judge'[k].grant

\* Steps that write no line.
LEMMA LinesKept ==
  ASSUME LinesInv, log'.lines = log.lines, \A i \in DOMAIN log.lines : LineHolds(log.lines[i])
  PROVE  LinesInv'
<1>1. \A i \in DOMAIN log'.lines : LineHolds(log'.lines[i])
  OBVIOUS
<1>2. \A i, k \in DOMAIN log.lines : log.lines[i].note = log.lines[k].note => i = k
  BY Zenon DEF LinesInv
<1>3. \A i, k \in DOMAIN log'.lines : log'.lines[i].note = log'.lines[k].note => i = k
  BY <1>2
<1> QED BY Zenon, <1>1, <1>3 DEF LinesInv, LineHolds

\* The pins, and a judge between two notifications, are typed.
LEMMA IdleTypes ==
  /\ NoPins \in Pins /\ IdleJudge \in JudgeStates
  /\ \A g \in Nat : [NoPins EXCEPT !.pidfd = g] \in Pins
<1>1. 0 \in Nat
  OBVIOUS
<1>2. NoPins \in Pins /\ \A g \in Nat : [NoPins EXCEPT !.pidfd = g] \in Pins
  BY <1>1, Zenon DEF NoPins, Pins
<1>3. IdleJudge \in JudgeStates
  BY <1>1, <1>2, Zenon DEF IdleJudge, JudgeStates
<1> QED BY Zenon, <1>2, <1>3

\* The fields of a judge between two notifications and of one that denies.
LEMMA IdleFields ==
  /\ IdleJudge.pc = "off" /\ IdleJudge.note = 0 /\ ~IdleJudge.grant
  /\ \A pc, n : LET r == [IdleJudge EXCEPT !.pc = pc, !.note = n]
               IN  r.pc = pc /\ r.note = n /\ ~r.grant
  /\ \A pc : LET r == [IdleJudge EXCEPT !.pc = pc] IN r.pc = pc /\ r.note = 0 /\ ~r.grant
  BY Zenon DEF IdleJudge

\* Only judge j moves.
Alone(j) == \A k \in Judges : k # j => judge'[k] = judge[k]

\* A judge that goes on.
LEMMA StepEffect ==
  ASSUME judge \in [Judges -> JudgeStates], NEW j \in Judges, NEW pc \in PCs, Step(j, pc)
  PROVE  /\ judge' \in [Judges -> JudgeStates] /\ Alone(j)
         /\ judge'[j].pc = pc /\ judge'[j].note = judge[j].note /\ judge'[j].pins = judge[j].pins
         /\ judge'[j].path = judge[j].path /\ judge'[j].grant = judge[j].grant
         /\ judge'[j].opened = judge[j].opened
<1>1. judge' = [judge EXCEPT ![j] = [judge[j] EXCEPT !.pc = pc]]
  BY Zenon DEF Step
<1>2. judge[j] \in JudgeStates
  OBVIOUS
<1>3. [judge[j] EXCEPT !.pc = pc] \in JudgeStates
  BY <1>2, Zenon DEF JudgeStates, PCs
<1>4. judge'[j] = [judge[j] EXCEPT !.pc = pc] /\ Alone(j) /\ judge' \in [Judges -> JudgeStates]
  BY Zenon, <1>1, <1>3 DEF Alone
<1> QED BY Zenon, <1>2, <1>4 DEF JudgeStates

\* A judge that starts over with another notification, or with none.
LEMMA RestEffect ==
  ASSUME judge \in [Judges -> JudgeStates], NEW j \in Judges, NEW pc \in PCs, NEW n \in Nat,
         judge' = [judge EXCEPT ![j] = [IdleJudge EXCEPT !.pc = pc, !.note = n]]
  PROVE  /\ judge' \in [Judges -> JudgeStates] /\ Alone(j)
         /\ judge'[j].pc = pc /\ judge'[j].note = n /\ ~judge'[j].grant
<1> DEFINE r == [IdleJudge EXCEPT !.pc = pc, !.note = n]
<1>1. r \in JudgeStates
  BY IdleTypes, Zenon DEF JudgeStates, PCs
<1>2. r.pc = pc /\ r.note = n /\ ~r.grant
  BY Zenon, IdleFields
<1> HIDE DEF r
<1>3. judge'[j] = r /\ Alone(j) /\ judge' \in [Judges -> JudgeStates]
  BY Zenon, <1>1 DEF Alone, r
<1> QED BY Zenon, <1>2, <1>3

-----------------------------------------------------------------------------
(* Notifications, the log and the zone's tasks.                            *)

\* One element of a sequence is replaced.
LEMMA ReplacedFacts ==
  ASSUME NEW S, NEW s \in Seq(S), NEW n \in DOMAIN s, NEW r \in S, NEW t, t = [s EXCEPT ![n] = r]
  PROVE  /\ t \in Seq(S) /\ Len(t) = Len(s) /\ DOMAIN t = DOMAIN s /\ t[n] = r
         /\ \A i \in DOMAIN s : i # n => t[i] = s[i]
  OBVIOUS

\* One element is appended to a sequence.
LEMMA AppendedFacts ==
  ASSUME NEW S, NEW s \in Seq(S), NEW r \in S, NEW t, t = Append(s, r)
  PROVE  /\ t \in Seq(S) /\ Len(t) = Len(s) + 1 /\ Len(s) \in Nat
         /\ DOMAIN t = 1 .. Len(s) + 1 /\ DOMAIN s = 1 .. Len(s)
         /\ \A i \in DOMAIN s : t[i] = s[i]
         /\ t[Len(s) + 1] = r
  OBVIOUS

\* The parts of a call that never change, and that it stays taken.
Kept(n) ==
  /\ notes'[n].tid = notes[n].tid /\ notes'[n].gen = notes[n].gen
  /\ notes'[n].path = notes[n].path /\ notes'[n].ok = notes[n].ok
  /\ notes[n].taken => notes'[n].taken

\* Only the taken bit or the answer of one notification changes.
Only(n) ==
  /\ DOMAIN notes' = DOMAIN notes /\ Len(notes') = Len(notes)
  /\ \A i \in DOMAIN notes : i # n => notes'[i] = notes[i]

\* One notification is replaced.
LEMMA ReplacedNote ==
  ASSUME notes \in Seq(Notes), NEW n \in DOMAIN notes, NEW r \in Notes, notes' = [notes EXCEPT ![n] = r]
  PROVE  notes' \in Seq(Notes) /\ Only(n) /\ notes'[n] = r
<1> HIDE DEF Notes
<1>1. /\ notes' \in Seq(Notes) /\ Len(notes') = Len(notes) /\ DOMAIN notes' = DOMAIN notes
      /\ notes'[n] = r /\ \A i \in DOMAIN notes : i # n => notes'[i] = notes[i]
  BY ReplacedFacts
<1> QED BY Zenon, <1>1 DEF Only

\* Each notification has its type.
LEMMA NoteAt == ASSUME NEW s \in Seq(Notes), NEW n \in DOMAIN s PROVE s[n] \in Notes
  OBVIOUS

\* A notification is taken by a judge.
LEMMA TakenEffect ==
  ASSUME notes \in Seq(Notes), NEW n \in DOMAIN notes, notes' = [notes EXCEPT ![n].taken = TRUE]
  PROVE  /\ notes' \in Seq(Notes) /\ Only(n) /\ Kept(n)
         /\ notes'[n].taken /\ notes'[n].answer = notes[n].answer
         /\ notes'[n].from = notes[n].from /\ notes'[n].named = notes[n].named
<1> DEFINE r == [notes[n] EXCEPT !.taken = TRUE]
<1>1. notes[n] \in Notes
  BY NoteAt, Zenon
<1>2. r \in Notes
  BY <1>1, Zenon DEF Notes
<1>3. /\ r.tid = notes[n].tid /\ r.gen = notes[n].gen /\ r.path = notes[n].path
      /\ r.ok = notes[n].ok /\ r.taken /\ r.answer = notes[n].answer
      /\ r.from = notes[n].from /\ r.named = notes[n].named
  BY Zenon, <1>1 DEF Notes
<1>4. notes' = [notes EXCEPT ![n] = r]
  BY Zenon
<1> HIDE DEF r
<1>5. /\ notes' \in Seq(Notes) /\ Only(n) /\ notes'[n] = r
  BY <1>2, <1>4, ReplacedNote, Zenon
<1> QED BY Zenon, <1>3, <1>5 DEF Kept

\* A notification is answered by a judge.
Answered(n, a, from, named) ==
  notes' = [notes EXCEPT ![n].answer = a, ![n].from = from, ![n].named = named]

LEMMA AnsweredEffect ==
  ASSUME notes \in Seq(Notes), NEW n \in DOMAIN notes, NEW a \in Answers, NEW from \in Nat,
         NEW named \in Paths \cup {""},
         Answered(n, a, from, named)
  PROVE  /\ notes' \in Seq(Notes) /\ Only(n) /\ Kept(n)
         /\ notes'[n].taken = notes[n].taken /\ notes'[n].answer = a
         /\ notes'[n].from = from /\ notes'[n].named = named
<1> DEFINE r == [notes[n] EXCEPT !.answer = a, !.from = from, !.named = named]
<1>1. notes[n] \in Notes
  BY NoteAt, Zenon
<1>2. r \in Notes
  BY <1>1, Zenon DEF Notes
<1>3. /\ r.tid = notes[n].tid /\ r.gen = notes[n].gen /\ r.path = notes[n].path
      /\ r.ok = notes[n].ok /\ r.taken = notes[n].taken /\ r.answer = a
      /\ r.from = from /\ r.named = named
  BY Zenon, <1>1 DEF Notes
<1>4. notes' = [notes EXCEPT ![n] = r]
  BY Zenon DEF Answered
<1> HIDE DEF r
<1>5. /\ notes' \in Seq(Notes) /\ Only(n) /\ notes'[n] = r
  BY <1>2, <1>4, ReplacedNote, Zenon
<1> QED BY Zenon, <1>3, <1>5 DEF Kept

\* A notification is answered by the kernel.
LEMMA ReleasedEffect ==
  ASSUME notes \in Seq(Notes), NEW n \in DOMAIN notes, notes' = [notes EXCEPT ![n].answer = "ENOSYS"]
  PROVE  /\ notes' \in Seq(Notes) /\ Only(n) /\ Kept(n)
         /\ notes'[n].taken = notes[n].taken /\ notes'[n].answer = "ENOSYS"
<1> DEFINE r == [notes[n] EXCEPT !.answer = "ENOSYS"]
<1>1. notes[n] \in Notes
  BY NoteAt, Zenon
<1>2. r \in Notes
  BY <1>1, Zenon DEF Notes, Answers
<1>3. /\ r.tid = notes[n].tid /\ r.gen = notes[n].gen /\ r.path = notes[n].path
      /\ r.ok = notes[n].ok /\ r.taken = notes[n].taken /\ r.answer = "ENOSYS"
  BY Zenon, <1>1 DEF Notes
<1>4. notes' = [notes EXCEPT ![n] = r]
  BY Zenon
<1> HIDE DEF r
<1>5. /\ notes' \in Seq(Notes) /\ Only(n) /\ notes'[n] = r
  BY <1>2, <1>4, ReplacedNote, Zenon
<1> QED BY Zenon, <1>3, <1>5 DEF Kept

\* A thread makes a call.
LEMMA CallEffect ==
  ASSUME notes \in Seq(Notes), tasks \in [Tids -> [gen: Nat, up: BOOLEAN]], NEW tid \in Tids, Call(tid)
  PROVE  LET n == Len(notes) + 1
         IN  /\ notes' \in Seq(Notes) /\ Len(notes) \in Nat /\ Len(notes') = n
             /\ DOMAIN notes = 1 .. Len(notes) /\ DOMAIN notes' = 1 .. n
             /\ \A i \in DOMAIN notes : notes'[i] = notes[i]
             /\ notes'[n].tid = tid /\ notes'[n].gen = tasks[tid].gen
             /\ ~notes'[n].taken /\ notes'[n].answer = "none"
<1>1. PICK path \in Paths, ok \in BOOLEAN :
        notes' = Append(notes, [tid |-> tid, gen |-> tasks[tid].gen, path |-> path, ok |-> ok,
                                taken |-> FALSE, answer |-> "none", from |-> 0, named |-> ""])
  BY Zenon DEF Call
<1> DEFINE r == [tid |-> tid, gen |-> tasks[tid].gen, path |-> path, ok |-> ok,
                 taken |-> FALSE, answer |-> "none", from |-> 0, named |-> ""]
<1>2. tasks[tid].gen \in Nat /\ 0 \in Nat
  OBVIOUS
<1>3. r \in Notes
  BY <1>2, Zenon DEF Notes, Answers
<1>4. r.tid = tid /\ r.gen = tasks[tid].gen /\ ~r.taken /\ r.answer = "none"
  OBVIOUS
<1>5. notes' = Append(notes, r)
  BY Zenon, <1>1
<1> HIDE DEF r
<1> QED BY <1>3, <1>4, <1>5, AppendedFacts

\* Log m is log l in another state, with or without the marker of a gap.
LogMarked(l, m, state, b) ==
  /\ m \in Logs /\ m.state = state /\ m.marker = b
  /\ m.lines = l.lines /\ m.seq = l.seq /\ m.incomplete = l.incomplete

\* Opening and closing the log leave its lines and its numbers alone.
LEMMA MarkedLog ==
  ASSUME NEW l \in Logs, NEW state \in {"open", "disabled", "closed"}, NEW b \in BOOLEAN,
         NEW m, m = [l EXCEPT !.state = state, !.marker = b]
  PROVE  LogMarked(l, m, state, b)
<1>1. m \in Logs
  BY Zenon DEF Logs
<1> QED BY Zenon, <1>1 DEF Logs, LogMarked

\* The log after it was opened: usable, or disabled because it could not be created.
LEMMA OpenedLogTypes ==
  ASSUME NEW l \in Logs, NEW m \in OpenedLog(l)
  PROVE  LogMarked(l, m, "open", TRUE) \/ LogMarked(l, m, "disabled", TRUE)
<1>1. CASE m = [l EXCEPT !.state = "open", !.marker = TRUE]
  BY Zenon, <1>1, MarkedLog
<1>2. CASE m = [l EXCEPT !.state = "disabled", !.marker = TRUE]
  BY Zenon, <1>2, MarkedLog
<1> QED BY Zenon, <1>1, <1>2 DEF OpenedLog

\* What one record does to the log: the next number is used up; then the line is
\* there, or the log is known to be incomplete.
LEMMA WriteTypes ==
  ASSUME NEW l \in Logs, NEW line \in Lines, NEW m \in write_line([l EXCEPT !.seq = @ + 1], line)
  PROVE  /\ m \in Logs /\ m.seq = l.seq + 1 /\ m.marker = l.marker
         /\ m.state = l.state \/ m.state = "disabled"
         /\ \/ m.incomplete /\ m.lines = l.lines
            \/ m.incomplete = l.incomplete /\ m.state = l.state /\ m.lines = Append(l.lines, line)
<1> DEFINE k == [l EXCEPT !.seq = @ + 1]
<1>1. l.seq \in Nat /\ l.seq + 1 \in Nat /\ l.lines \in Seq(Lines)
  BY DEF Logs
<1>2. k \in Logs
  BY <1>1, Zenon DEF Logs
<1>3. /\ k.seq = l.seq + 1 /\ k.marker = l.marker /\ k.state = l.state /\ k.incomplete = l.incomplete
      /\ k.lines = l.lines
  BY Zenon DEF Logs
<1> HIDE DEF k
<1>4. m \in {[k EXCEPT !.incomplete = TRUE], [k EXCEPT !.lines = Append(k.lines, line)],
             [k EXCEPT !.incomplete = TRUE, !.state = "disabled"]}
  <2>1. m \in write_line(k, line)
    BY Zenon DEF k
  <2> QED BY <2>1, Zenon DEF write_line
<1>5. Append(k.lines, line) \in Seq(Lines)
  BY <1>1, <1>3
<1>6. CASE m = [k EXCEPT !.incomplete = TRUE]
  <2>1. m \in Logs
    BY <1>2, <1>6, Zenon DEF Logs
  <2> QED BY Zenon, <1>2, <1>3, <1>6, <2>1 DEF Logs
<1>7. CASE m = [k EXCEPT !.lines = Append(k.lines, line)]
  <2>1. m \in Logs
    BY <1>2, <1>5, <1>7, Zenon DEF Logs
  <2> QED BY Zenon, <1>2, <1>3, <1>5, <1>7, <2>1 DEF Logs
<1>8. CASE m = [k EXCEPT !.incomplete = TRUE, !.state = "disabled"]
  <2>1. m \in Logs
    BY <1>2, <1>8, Zenon DEF Logs
  <2> QED BY Zenon, <1>2, <1>3, <1>8, <2>1 DEF Logs
<1> QED BY Zenon, <1>4, <1>6, <1>7, <1>8

\* Counters of failures.
LEMMA FaultTypes ==
  ASSUME faults \in [other: Nat, poll: Nat]
  PROVE  /\ Count \in [other: Nat, poll: Nat] /\ Count.poll = faults.poll
         /\ \A i \in Nat : LET f == [faults EXCEPT !.poll = @ + i]
                           IN  f \in [other: Nat, poll: Nat] /\ f.poll = faults.poll + i
  BY DEF Count

\* Incarnations only grow.
Grow == \A tid \in Tids : tasks[tid].gen <= tasks'[tid].gen

-----------------------------------------------------------------------------
(* The steps of a judge that no other part of the broker sees.             *)

\* The call that a judge is working on.
LEMMA CallTypes ==
  ASSUME BrokerTypes, TakenInv, NEW j \in Judges, judge[j].pc \in Busy
  PROVE  /\ judge[j].note \in DOMAIN notes /\ Note(j) \in Notes /\ Note(j).tid \in Tids
         /\ Note(j).gen \in Nat /\ Note(j).path \in Paths /\ tasks[Note(j).tid].gen \in Nat
         /\ Note(j).gen <= tasks[Note(j).tid].gen
         /\ judge[j].pins \in Pins /\ judge[j] \in JudgeStates
         /\ judge[j].pins.pidfd \in Nat /\ judge[j].pins.mem \in Nat /\ judge[j].pins.root \in Nat
<1>1. judge[j].note \in DOMAIN notes
  BY Zenon DEF TakenInv
<1>2. Note(j) \in Notes
  BY Zenon, <1>1, NoteAt DEF BrokerTypes, Note
<1>3. Note(j).tid \in Tids /\ Note(j).gen \in Nat /\ Note(j).path \in Paths
  BY Zenon, <1>2 DEF Notes
<1>4. tasks[Note(j).tid].gen \in Nat
  BY Zenon, <1>3 DEF BrokerTypes
<1>5. Note(j).gen <= tasks[Note(j).tid].gen
  BY Zenon, <1>1 DEF TakenInv, Note
<1>6. judge[j].pins \in Pins /\ judge[j] \in JudgeStates
  BY Zenon DEF BrokerTypes, JudgeStates
<1>7. judge[j].pins.pidfd \in Nat /\ judge[j].pins.mem \in Nat /\ judge[j].pins.root \in Nat
  BY Zenon, <1>6 DEF Pins
<1> QED BY Zenon, <1>1, <1>2, <1>3, <1>4, <1>5, <1>6, <1>7

-----------------------------------------------------------------------------
(* What a step leaves alone.                                               *)

\* Every call stays what it was.
AllKept == \A n \in DOMAIN notes : n \in DOMAIN notes' /\ Kept(n)

\* A judge that does not move keeps what it knows of its call: incarnations
\* only grow, and a call stays what it was.
LEMMA JudgeKept ==
  ASSUME BrokerTypes, TakenInv, tasks' \in [Tids -> [gen: Nat, up: BOOLEAN]], AllKept, Grow,
         NEW k \in Judges, judge'[k] = judge[k]
  PROVE  /\ PinInv(k) => PinInv(k)'
         /\ CallerInv(k) => CallerInv(k)'
         /\ judge[k].pc \in Busy => judge'[k].note \in DOMAIN notes' /\ notes'[judge'[k].note].taken
<1> DEFINE pc == judge[k].pc  p == judge[k].pins  n == judge[k].note  tid == notes[n].tid
           g == notes[n].gen
<1>1. CASE pc \notin Busy
  BY Zenon, <1>1 DEF PinInv, CallerInv, Busy, Before
<1>2. CASE pc \in Busy
  <2>1. /\ n \in DOMAIN notes /\ tid \in Tids /\ g \in Nat /\ tasks[tid].gen \in Nat
        /\ p.pidfd \in Nat /\ p.mem \in Nat /\ p.root \in Nat /\ notes[n].taken
    BY Zenon, <1>2, CallTypes DEF Note, TakenInv
  <2>2. /\ n \in DOMAIN notes' /\ notes'[n].tid = tid /\ notes'[n].gen = g /\ notes'[n].ok = notes[n].ok
        /\ notes'[n].path = notes[n].path /\ notes'[n].taken
    BY Zenon, <2>1 DEF AllKept, Kept
  <2>3. tasks[tid].gen <= tasks'[tid].gen /\ tasks'[tid].gen \in Nat
    BY Zenon, <2>1 DEF Grow
  <2>4. Note(k) = notes[n] /\ Note(k)' = notes'[n] /\ judge'[k].pc = pc /\ judge'[k].pins = p
        /\ judge'[k].note = n
    BY Zenon DEF Note
  <2> HIDE DEF pc, p, n, tid, g
  <2>5. PinInv(k) => PinInv(k)'
    <3>1. notes[n].tid = tid /\ notes[n].gen = g /\ judge[k].pc = pc /\ judge[k].pins = p
      BY Zenon DEF pc, p, n, tid, g
    <3>2. SUFFICES ASSUME PinInv(k) PROVE PinInv(k)'
      OBVIOUS
    <3>3. /\ pc = "open_mem" => g <= p.pidfd /\ p.pidfd <= tasks[tid].gen
          /\ pc = "open_root" => g <= p.pidfd /\ p.pidfd <= p.mem /\ p.mem <= tasks[tid].gen
          /\ pc = "id_valid" => p.pidfd <= p.mem /\ p.mem <= p.root /\ p.root <= tasks[tid].gen
      BY Zenon, <2>4, <3>1, <3>2 DEF PinInv, InOrder
    <3>4. /\ pc = "open_mem" => g <= p.pidfd /\ p.pidfd <= tasks'[tid].gen
          /\ pc = "open_root" => g <= p.pidfd /\ p.pidfd <= p.mem /\ p.mem <= tasks'[tid].gen
          /\ pc = "id_valid" => p.pidfd <= p.mem /\ p.mem <= p.root /\ p.root <= tasks'[tid].gen
      BY <2>1, <2>3, <3>3
    <3> QED BY Zenon, <2>2, <2>4, <3>4 DEF PinInv, InOrder
  <2>6. CallerInv(k) => CallerInv(k)'
    BY <2>2, <2>4 DEF CallerInv, tid, g
  <2> QED BY Zenon, <2>2, <2>4, <2>5, <2>6
<1> QED BY Zenon, <1>1, <1>2

\* A judge stays, or goes on with its call before the answer, or drops it.
Carry ==
  \A k \in Judges :
    \/ judge'[k] = judge[k]
    \/ judge'[k].pc \notin Busy /\ judge'[k].note = 0
    \/ judge[k].pc \in Before /\ judge'[k].pc \in Before /\ judge'[k].note = judge[k].note

\* As long as no judge answers, what is known of calls, answers and lines stays.
LEMMA CarryKeeps ==
  ASSUME BrokerTypes, TakenInv, LinesInv, AnswerInv, CoverInv,
         tasks' \in [Tids -> [gen: Nat, up: BOOLEAN]],
         UNCHANGED <<notes, log>>, Carry, Grow
  PROVE  TakenInv' /\ LinesInv' /\ AnswerInv' /\ CoverInv'
<1>1. \A k \in Judges : judge'[k].pc \in Busy =>
        /\ judge[k].pc \in Busy /\ judge'[k].note = judge[k].note
        /\ judge[k].pc = "send" <=> judge'[k].pc = "send"
        /\ judge[k].pc = "send" => judge'[k].grant = judge[k].grant
  BY Zenon DEF Carry, Busy, Before
<1>2. TakenInv'
  <2>1. ASSUME NEW n \in DOMAIN notes PROVE notes[n].gen <= tasks'[notes[n].tid].gen
    <3>1. notes[n] \in Notes
      BY Zenon, NoteAt DEF BrokerTypes
    <3>2. notes[n].tid \in Tids /\ notes[n].gen \in Nat
      BY Zenon, <3>1 DEF Notes
    <3>3. tasks[notes[n].tid].gen \in Nat /\ tasks'[notes[n].tid].gen \in Nat
      BY Zenon, <3>2 DEF BrokerTypes
    <3> QED BY <3>2, <3>3 DEF TakenInv, Grow
  <2>2. \A k \in Judges : judge'[k].pc \notin Busy => judge'[k].note = 0
    BY Zenon DEF Carry, TakenInv, Busy
  <2> QED BY Zenon, <1>1, <2>1, <2>2 DEF TakenInv, Note
<1>3. LinesInv'
  BY <1>1 DEF LinesInv
<1>4. AnswerInv'
  BY Zenon, <1>1 DEF AnswerInv, Note
<1>5. CoverInv'
  <2>1. Intact' = Intact
    BY Zenon DEF Intact
  <2>2. ASSUME NEW k \in Judges, judge'[k].pc = "send"
        PROVE  judge[k].pc = "send" /\ judge'[k].note = judge[k].note
    BY Zenon, <1>1, <2>2 DEF Busy
  <2> QED BY <2>1, <2>2 DEF CoverInv
<1> QED BY Zenon, <1>2, <1>3, <1>4, <1>5

\* The pins of a cache that only lost entries, while incarnations grew.
LEMMA PinsKept ==
  ASSUME BrokerTypes, PinsInv, tasks' \in [Tids -> [gen: Nat, up: BOOLEAN]], Grow,
         NEW k \in Judges, NEW t \in DOMAIN Cached(k)
  PROVE  t \in Tids /\ Cached(k)[t] \in Pins /\ InOrder(Cached(k)[t], tasks'[t].gen)
<1>1. cache[k] \in Caches
  BY Zenon DEF BrokerTypes
<1>2. PICK T \in SUBSET Tids : Cached(k) \in [T -> Pins]
  BY Zenon, <1>1 DEF Caches, Cached
<1>3. t \in Tids /\ Cached(k)[t] \in Pins
  BY Zenon, <1>2
<1>4. InOrder(Cached(k)[t], tasks[t].gen)
  BY Zenon DEF PinsInv
<1>5. tasks[t].gen \in Nat /\ tasks'[t].gen \in Nat /\ tasks[t].gen <= tasks'[t].gen
  BY Zenon, <1>3 DEF BrokerTypes, Grow
<1>6. Cached(k)[t].root \in Nat
  BY Zenon, <1>3 DEF Pins
<1> QED BY <1>3, <1>4, <1>5, <1>6 DEF InOrder

\* Judges, caches, calls and log do not move.
Still ==
  /\ UNCHANGED <<judge, cache, notes, log>>
  /\ tasks' \in [Tids -> [gen: Nat, up: BOOLEAN]] /\ Grow
  /\ faults' \in [other: Nat, poll: Nat] /\ faults.poll <= faults'.poll

LEMMA StillKeeps ==
  ASSUME BrokerInv, Still
  PROVE  TakenInv' /\ PinsInv' /\ CallersInv' /\ CacheInv' /\ OrderInv' /\ LinesInv' /\ AnswerInv' /\ CoverInv'
<1> /\ BrokerTypes /\ TakenInv /\ PinsInv /\ CallersInv /\ CacheInv /\ OrderInv /\ LinesInv /\ AnswerInv
    /\ CoverInv
  BY Zenon DEF BrokerInv
<1>1. /\ UNCHANGED <<judge, cache, notes, log>>
      /\ tasks' \in [Tids -> [gen: Nat, up: BOOLEAN]] /\ Grow
      /\ faults' \in [other: Nat, poll: Nat] /\ faults.poll <= faults'.poll
  BY Zenon DEF Still
<1>2. AllKept /\ Carry
  BY Zenon, <1>1 DEF AllKept, Kept, Carry
<1>3. TakenInv' /\ LinesInv' /\ AnswerInv' /\ CoverInv'
  BY Zenon, <1>1, <1>2, CarryKeeps
<1>4. \A k \in Judges : (PinInv(k) => PinInv(k)') /\ (CallerInv(k) => CallerInv(k)')
  BY Zenon, <1>1, <1>2, JudgeKept
<1>5. PinsInv'
  <2>1. ASSUME NEW k \in Judges, NEW t \in DOMAIN Cached(k)' PROVE InOrder(Cached(k)[t], tasks[t].gen)'
    <3>1. Cached(k)' = Cached(k)
      BY Zenon, <1>1 DEF Cached
    <3>2. t \in DOMAIN Cached(k)
      BY Zenon, <3>1
    <3>3. InOrder(Cached(k)[t], tasks'[t].gen)
      BY Zenon, <1>1, <3>2, PinsKept
    <3> QED BY Zenon, <3>1, <3>3 DEF InOrder
  <2> QED BY Zenon, <1>4, <2>1 DEF PinsInv
<1>6. CallersInv'
  <2>1. SUFFICES ASSUME faults'.poll = 0 PROVE (\A j \in Judges : CallerInv(j)') /\ InjectedAnswersTheCall'
    BY Zenon DEF CallersInv
  <2>2. faults.poll = 0
    BY <1>1, <2>1 DEF BrokerTypes
  <2> QED BY Zenon, <1>1, <1>4, <2>2 DEF CallersInv, InjectedAnswersTheCall
<1>7. CacheInv' /\ OrderInv'
  BY Zenon, <1>1 DEF CacheInv, OrderInv, LogInOrder, Cached
<1> QED BY Zenon, <1>3, <1>5, <1>6, <1>7

-----------------------------------------------------------------------------
(* The steps that take, answer or release a call.                          *)

\* A call is made: nobody judges it and no line names it yet.
LEMMA CallStep ==
  ASSUME BrokerInv, NEW tid \in Tids, Call(tid)
  PROVE  BrokerInv'
<1> /\ BrokerTypes /\ HandoffInv /\ TakenInv /\ PinsInv /\ CallersInv /\ CacheInv /\ OrderInv
    /\ LinesInv /\ AnswerInv /\ CoverInv /\ ResultInv
  BY Zenon DEF BrokerInv
<1> DEFINE n == Len(notes) + 1
<1>1. /\ tasks[tid].up /\ UNCHANGED <<serve, crun, tasks, judge, cache, log, result, faults>>
  BY Zenon DEF Call
<1>2. /\ notes' \in Seq(Notes) /\ Len(notes) \in Nat /\ Len(notes') = n
      /\ DOMAIN notes = 1 .. Len(notes) /\ DOMAIN notes' = 1 .. n
      /\ \A i \in DOMAIN notes : notes'[i] = notes[i]
      /\ notes'[n].tid = tid /\ notes'[n].gen = tasks[tid].gen
      /\ ~notes'[n].taken /\ notes'[n].answer = "none"
  BY Zenon, CallEffect DEF BrokerTypes
<1> HIDE DEF n
<1>3. /\ DOMAIN notes \subseteq DOMAIN notes' /\ n \notin DOMAIN notes
      /\ \A i \in DOMAIN notes' : i # n => i \in DOMAIN notes
  BY <1>2 DEF n
<1>4. tasks[tid].gen \in Nat /\ Grow /\ tasks' \in [Tids -> [gen: Nat, up: BOOLEAN]]
  BY <1>1 DEF BrokerTypes, Grow
<1>5. AllKept
  BY Zenon, <1>2, <1>3 DEF AllKept, Kept
<1>6. \A k \in Judges :
        /\ PinInv(k) => PinInv(k)'
        /\ CallerInv(k) => CallerInv(k)'
        /\ judge[k].pc \in Busy => judge'[k].note \in DOMAIN notes' /\ notes'[judge'[k].note].taken
  BY Zenon, <1>1, <1>4, <1>5, JudgeKept
<1>7. BrokerTypes'
  BY Zenon, <1>1, <1>2, <1>4 DEF BrokerTypes
<1>8. HandoffInv'
  BY Zenon, <1>1 DEF HandoffInv
<1>9. TakenInv'
  <2>1. ASSUME NEW i \in DOMAIN notes'
        PROVE  /\ notes'[i].gen <= tasks'[notes'[i].tid].gen
               /\ notes'[i].answer \in {"fd", "denied"} => notes'[i].taken
    <3>1. CASE i = n
      BY <1>1, <1>2, <1>4, <3>1
    <3>2. CASE i # n
      BY Zenon, <1>1, <1>2, <1>3, <3>2 DEF TakenInv
    <3> QED BY Zenon, <3>1, <3>2
  <2>2. \A j, k \in Judges :
          judge'[j].pc \in Busy /\ judge'[k].pc \in Busy /\ judge'[j].note = judge'[k].note => j = k
    BY Zenon, <1>1 DEF TakenInv
  <2>3. \A k \in Judges : judge'[k].pc \in Busy => judge'[k].note \in DOMAIN notes' /\ Note(k)'.taken
    BY Zenon, <1>1, <1>6 DEF Note
  <2>4. \A k \in Judges : judge'[k].pc \notin Busy => judge'[k].note = 0
    BY Zenon, <1>1 DEF TakenInv
  <2> QED BY Zenon, <2>1, <2>2, <2>3, <2>4 DEF TakenInv
<1>10. PinsInv'
  <2>1. \A k \in Judges : \A t \in DOMAIN Cached(k)' : InOrder(Cached(k)[t], tasks[t].gen)'
    BY Zenon, <1>1 DEF PinsInv, Cached, InOrder
  <2> QED BY Zenon, <1>6, <2>1 DEF PinsInv
<1>11. CallersInv'
  <2>1. ASSUME InjectedAnswersTheCall PROVE InjectedAnswersTheCall'
    <3>1. ASSUME NEW i \in DOMAIN notes', notes'[i].answer = "fd"
          PROVE  notes'[i].ok /\ notes'[i].from = notes'[i].gen /\ notes'[i].named = notes'[i].path
      <4>1. i \in DOMAIN notes /\ notes'[i] = notes[i]
        BY Zenon, <1>2, <1>3, <3>1
      <4> QED BY Zenon, <2>1, <3>1, <4>1 DEF InjectedAnswersTheCall
    <3> QED BY Zenon, <3>1 DEF InjectedAnswersTheCall
  <2> QED BY Zenon, <1>1, <1>6, <2>1 DEF CallersInv
<1>12. CacheInv' /\ OrderInv' /\ ResultInv'
  BY Zenon, <1>1 DEF CacheInv, OrderInv, LogInOrder, ResultInv, Cached
<1>13. LinesInv'
  BY <1>1, <1>2, <1>3 DEF LinesInv
<1>14. AnswerInv'
  BY Zenon, <1>1, <1>2 DEF AnswerInv, TakenInv, Note
<1>15. CoverInv'
  <2>1. Intact' = Intact
    BY Zenon, <1>1 DEF Intact
  <2>2. ASSUME NEW i \in DOMAIN notes', notes'[i].answer \in {"fd", "denied"}
        PROVE  i \in DOMAIN notes /\ notes'[i] = notes[i]
    BY Zenon, <1>2, <1>3, <2>2
  <2> QED BY Zenon, <1>1, <2>1, <2>2 DEF CoverInv
<1> QED BY Zenon, <1>7, <1>8, <1>9, <1>10, <1>11, <1>12, <1>13, <1>14, <1>15 DEF BrokerInv

\* RECV hands a call to one judge only: it was not taken, and no line has it.
LEMMA RecvStep ==
  ASSUME BrokerInv, NEW j \in Judges, Recv(j)
  PROVE  BrokerInv'
<1> /\ BrokerTypes /\ HandoffInv /\ TakenInv /\ PinsInv /\ CallersInv /\ CacheInv /\ OrderInv
    /\ LinesInv /\ AnswerInv /\ CoverInv /\ ResultInv
  BY Zenon DEF BrokerInv
<1>1. judge[j].pc = "recv" /\ UNCHANGED <<serve, crun, tasks, cache, log, result, faults>>
  BY Zenon DEF Recv
<1>2. PICK n \in DOMAIN notes :
        /\ Valid(n) /\ ~notes[n].taken
        /\ notes' = [notes EXCEPT ![n].taken = TRUE]
        /\ judge' = [judge EXCEPT ![j] = [IdleJudge EXCEPT !.pc = "for_task", !.note = n]]
  BY Zenon DEF Recv
<1>3. /\ notes' \in Seq(Notes) /\ Only(n) /\ Kept(n)
      /\ notes'[n].taken /\ notes'[n].answer = notes[n].answer
      /\ notes'[n].from = notes[n].from /\ notes'[n].named = notes[n].named
  <2>1. notes \in Seq(Notes) /\ notes' = [notes EXCEPT ![n].taken = TRUE]
    BY Zenon, <1>2 DEF BrokerTypes
  <2> QED BY <2>1, TakenEffect, Zenon
<1>4. /\ judge' \in [Judges -> JudgeStates] /\ Alone(j)
      /\ judge'[j].pc = "for_task" /\ judge'[j].note = n /\ ~judge'[j].grant
  <2>1. n \in Nat /\ "for_task" \in PCs /\ judge \in [Judges -> JudgeStates]
    BY DEF PCs, Busy, Before, BrokerTypes
  <2>2. judge' = [judge EXCEPT ![j] = [IdleJudge EXCEPT !.pc = "for_task", !.note = n]]
    BY Zenon, <1>2
  <2> QED BY <2>1, <2>2, RestEffect, Zenon
<1>5. notes[n].answer = "none" /\ ~notes[n].taken
  BY Zenon, <1>2 DEF Valid
<1>6. AllKept /\ Grow /\ tasks' \in [Tids -> [gen: Nat, up: BOOLEAN]]
  <2>1. Grow /\ tasks' \in [Tids -> [gen: Nat, up: BOOLEAN]]
    BY <1>1 DEF Grow, BrokerTypes
  <2>2. AllKept
    <3>1. \A i \in DOMAIN notes : i \in DOMAIN notes' /\ (i = n \/ notes'[i] = notes[i])
      BY Zenon, <1>3 DEF Only
    <3> QED BY Zenon, <1>3, <3>1 DEF AllKept, Kept
  <2> QED BY Zenon, <2>1, <2>2
<1>7. \A k \in Judges \ {j} :
        /\ PinInv(k) => PinInv(k)'
        /\ CallerInv(k) => CallerInv(k)'
        /\ judge[k].pc \in Busy => judge'[k].note \in DOMAIN notes' /\ notes'[judge'[k].note].taken
  BY Zenon, <1>4, <1>6, JudgeKept DEF Alone
<1>8. PinInv(j)' /\ CallerInv(j)'
  BY Zenon, <1>4 DEF PinInv, CallerInv
<1>9. BrokerTypes'
  BY Zenon, <1>1, <1>3, <1>4 DEF BrokerTypes
<1>10. serve = "pool"
  BY Zenon, <1>1 DEF HandoffInv
<1>11. HandoffInv' /\ ResultInv' /\ OrderInv'
  BY Zenon, <1>1, <1>10 DEF HandoffInv, ResultInv, OrderInv, LogInOrder
<1>12. \A k \in Judges \ {j} : judge'[k] = judge[k] /\ (judge[k].pc \in Busy => judge[k].note # n)
  BY Zenon, <1>4, <1>5 DEF Alone, TakenInv, Note
<1>13. \A i \in DOMAIN notes :
         /\ notes'[i].answer = notes[i].answer /\ notes'[i].gen = notes[i].gen
         /\ notes'[i].tid = notes[i].tid /\ (notes[i].taken => notes'[i].taken)
         /\ notes'[i].from = notes[i].from /\ notes'[i].named = notes[i].named
         /\ notes'[i].path = notes[i].path /\ notes'[i].ok = notes[i].ok
  BY Zenon, <1>3 DEF Only, Kept
<1>14. DOMAIN notes' = DOMAIN notes
  BY Zenon, <1>3 DEF Only
<1>15. TakenInv'
  <2>1. \A i \in DOMAIN notes' :
          /\ notes'[i].gen <= tasks'[notes'[i].tid].gen
          /\ notes'[i].answer \in {"fd", "denied"} => notes'[i].taken
    BY Zenon, <1>1, <1>13, <1>14 DEF TakenInv
  <2>2. \A k \in Judges : judge'[k].pc \in Busy => judge'[k].note \in DOMAIN notes' /\ Note(k)'.taken
    BY Zenon, <1>3, <1>4, <1>7, <1>12, <1>14 DEF Note
  <2>3. \A i, k \in Judges :
          judge'[i].pc \in Busy /\ judge'[k].pc \in Busy /\ judge'[i].note = judge'[k].note => i = k
    BY Zenon, <1>4, <1>12 DEF TakenInv
  <2>4. \A k \in Judges : judge'[k].pc \notin Busy => judge'[k].note = 0
    BY Zenon, <1>4, <1>12 DEF TakenInv, Busy, Before
  <2> QED BY Zenon, <2>1, <2>2, <2>3, <2>4 DEF TakenInv
<1>16. PinsInv'
  <2>1. \A k \in Judges : \A t \in DOMAIN Cached(k)' : InOrder(Cached(k)[t], tasks[t].gen)'
    BY Zenon, <1>1 DEF PinsInv, Cached, InOrder
  <2> QED BY Zenon, <1>7, <1>8, <2>1 DEF PinsInv
<1>17. CallersInv'
  <2>1. InjectedAnswersTheCall => InjectedAnswersTheCall'
    BY Zenon, <1>13, <1>14 DEF InjectedAnswersTheCall
  <2> QED BY Zenon, <1>1, <1>7, <1>8, <2>1 DEF CallersInv
<1>18. CacheInv'
  <2>1. \A k \in Judges : judge'[k].pc \in {"open_mem", "open_root"} => judge[k].pc = judge'[k].pc
    BY Zenon, <1>4, <1>12
  <2> QED BY Zenon, <1>1, <2>1 DEF CacheInv, Cached
<1>19. LinesInv'
  <2>1. ASSUME NEW i \in DOMAIN log.lines PROVE log.lines[i].note # n /\ log.lines[i].note \in DOMAIN notes
    BY Zenon, <1>5 DEF LinesInv
  <2>2. ASSUME NEW i \in DOMAIN log.lines, NEW k \in Judges, judge'[k].pc \in Busy,
               judge'[k].note = log.lines[i].note
        PROVE  judge'[k].pc = "send" /\ log.lines[i].granted = judge'[k].grant
    <3>1. k # j
      BY Zenon, <1>4, <2>1, <2>2
    <3> QED BY <1>12, <2>2, <3>1 DEF LinesInv
  <2>3. ASSUME NEW i \in DOMAIN log.lines
        PROVE  /\ log.lines[i].note \in DOMAIN notes' /\ notes'[log.lines[i].note].taken
               /\ notes'[log.lines[i].note].answer \in {"fd", "denied"} =>
                    (log.lines[i].granted = (notes'[log.lines[i].note].answer = "fd"))
    BY ZenonT(30), <1>13, <1>14, <2>1 DEF LinesInv
  <2>4. \A i \in DOMAIN log.lines : LineHolds(log.lines[i])
    BY Zenon, <2>2, <2>3 DEF LineHolds
  <2> QED BY Zenon, <1>1, <2>4, LinesKept
<1>20. AnswerInv'
  BY <1>4, <1>5, <1>12, <1>13 DEF AnswerInv, TakenInv, Note
<1>21. CoverInv'
  <2>1. Intact' = Intact
    BY Zenon, <1>1 DEF Intact
  <2>2. \A k \in Judges : judge'[k].pc = "send" => judge[k].pc = "send" /\ judge'[k].note = judge[k].note
    BY Zenon, <1>4, <1>12
  <2> QED BY <1>1, <1>13, <1>14, <2>1, <2>2 DEF CoverInv
<1> QED BY Zenon, <1>9, <1>11, <1>15, <1>16, <1>17, <1>18, <1>19, <1>20, <1>21 DEF BrokerInv

\* SEND answers the call with what its line says, if the task still waits.
LEMMA SendStep ==
  ASSUME BrokerInv, NEW j \in Judges, Send(j)
  PROVE  BrokerInv'
<1> /\ BrokerTypes /\ HandoffInv /\ TakenInv /\ PinsInv /\ CallersInv /\ CacheInv /\ OrderInv
    /\ LinesInv /\ AnswerInv /\ CoverInv /\ ResultInv
  BY Zenon DEF BrokerInv
<1> DEFINE n == judge[j].note
           a == IF judge[j].grant THEN "fd" ELSE "denied"
<1>1. judge[j].pc = "send" /\ UNCHANGED <<serve, crun, tasks, cache, log, result, faults>>
  BY Zenon DEF Send
<1>2. judge[j].pc \in Busy /\ judge[j] \in JudgeStates /\ n \in DOMAIN notes /\ notes[n] \in Notes
  <2>1. judge[j].pc \in Busy
    BY Zenon, <1>1 DEF Busy
  <2> QED BY Zenon, <2>1, CallTypes DEF Note
<1>3. judge[j].opened \in Nat /\ judge[j].path \in Paths \cup {""} /\ judge[j].grant \in BOOLEAN
  BY Zenon, <1>2 DEF JudgeStates
<1>4. a \in Answers /\ a \in {"fd", "denied"} /\ (a = "fd" <=> judge[j].grant)
  BY Zenon DEF Answers
<1>5. /\ notes' \in Seq(Notes) /\ Only(n) /\ Kept(n) /\ notes'[n].taken = notes[n].taken
      /\ \/ notes'[n] = notes[n]
         \/ notes'[n].answer = a /\ notes'[n].from = judge[j].opened /\ notes'[n].named = judge[j].path
  <2>1. CASE Valid(n)
    <3>1. notes' = [notes EXCEPT ![n].answer = a, ![n].from = judge[j].opened, ![n].named = judge[j].path]
      BY Zenon, <2>1 DEF Send
    <3>2. notes \in Seq(Notes)
      BY Zenon DEF BrokerTypes
    <3>3. n \in DOMAIN notes
      BY Zenon, <1>2
    <3> HIDE DEF a, n
    <3> DEFINE o == judge[j].opened  q == judge[j].path
    <3>4. o \in Nat /\ q \in Paths \cup {""} /\ a \in Answers
      BY Zenon, <1>3, <1>4
    <3>5. Answered(n, a, o, q)
      BY Zenon, <3>1 DEF Answered
    <3> HIDE DEF o, q
    <3>6. /\ notes' \in Seq(Notes) /\ Only(n) /\ Kept(n)
          /\ notes'[n].taken = notes[n].taken /\ notes'[n].answer = a
          /\ notes'[n].from = o /\ notes'[n].named = q
      BY <3>2, <3>3, <3>4, <3>5, AnsweredEffect, Zenon
    <3> QED BY Zenon, <3>6 DEF o, q
  <2>2. CASE ~Valid(n)
    <3>1. UNCHANGED notes
      BY Zenon, <2>2 DEF Send
    <3> QED BY Zenon, <3>1 DEF BrokerTypes, Only, Kept
  <2> QED BY Zenon, <2>1, <2>2
<1> HIDE DEF a, n
<1>6. judge' \in [Judges -> JudgeStates] /\ Alone(j) /\ judge'[j].pc = "recv" /\ judge'[j].note = 0
  <2> DEFINE r == [IdleJudge EXCEPT !.pc = "recv"]
  <2>1. r \in JudgeStates
    BY IdleTypes, Zenon DEF JudgeStates
  <2>2. r.pc = "recv" /\ r.note = 0
    BY Zenon, IdleFields
  <2>3. judge' = [judge EXCEPT ![j] = r]
    BY Zenon DEF Send
  <2> HIDE DEF r
  <2> QED BY Zenon, <2>1, <2>2, <2>3 DEF Alone, BrokerTypes
<1>7. AllKept /\ Grow /\ tasks' \in [Tids -> [gen: Nat, up: BOOLEAN]]
  <2>1. Grow /\ tasks' \in [Tids -> [gen: Nat, up: BOOLEAN]]
    BY <1>1 DEF Grow, BrokerTypes
  <2>2. AllKept
    <3>1. \A i \in DOMAIN notes : i \in DOMAIN notes' /\ (i = n \/ notes'[i] = notes[i])
      BY Zenon, <1>5 DEF Only
    <3> QED BY Zenon, <1>5, <3>1 DEF AllKept, Kept
  <2> QED BY Zenon, <2>1, <2>2
<1>8. \A k \in Judges \ {j} :
        /\ PinInv(k) => PinInv(k)'
        /\ CallerInv(k) => CallerInv(k)'
        /\ judge[k].pc \in Busy => judge'[k].note \in DOMAIN notes' /\ notes'[judge'[k].note].taken
  BY Zenon, <1>6, <1>7, JudgeKept DEF Alone
<1>9. PinInv(j)' /\ CallerInv(j)' /\ judge'[j].pc \notin Busy
  BY Zenon, <1>6 DEF PinInv, CallerInv, Busy, Before
<1>10. BrokerTypes'
  BY Zenon, <1>1, <1>5, <1>6 DEF BrokerTypes
<1>11. serve = "pool"
  BY Zenon, <1>1 DEF HandoffInv
<1>12. HandoffInv' /\ ResultInv' /\ OrderInv'
  BY Zenon, <1>1, <1>11 DEF HandoffInv, ResultInv, OrderInv, LogInOrder
<1>13. \A k \in Judges : judge'[k].pc \in Busy =>
         k # j /\ judge'[k] = judge[k] /\ judge[k].note # n
  BY Zenon, <1>2, <1>6, <1>9 DEF Alone, TakenInv, n
<1>14. DOMAIN notes' = DOMAIN notes /\ \A i \in DOMAIN notes : i # n => notes'[i] = notes[i]
  BY Zenon, <1>5 DEF Only
<1>15. /\ notes'[n].gen = notes[n].gen /\ notes'[n].tid = notes[n].tid
       /\ notes'[n].path = notes[n].path /\ notes'[n].ok = notes[n].ok /\ notes[n].taken /\ notes'[n].taken
  BY Zenon, <1>2, <1>5 DEF Kept, TakenInv, Note, n
<1>16. TakenInv'
  <2>1. \A i \in DOMAIN notes' :
          /\ notes'[i].gen <= tasks'[notes'[i].tid].gen
          /\ notes'[i].answer \in {"fd", "denied"} => notes'[i].taken
    BY Zenon, <1>1, <1>2, <1>14, <1>15 DEF TakenInv
  <2>2. \A k \in Judges : judge'[k].pc \in Busy => judge'[k].note \in DOMAIN notes' /\ Note(k)'.taken
    BY Zenon, <1>8, <1>13 DEF Note
  <2>3. \A i, k \in Judges :
          judge'[i].pc \in Busy /\ judge'[k].pc \in Busy /\ judge'[i].note = judge'[k].note => i = k
    BY Zenon, <1>13 DEF TakenInv
  <2>4. \A k \in Judges : judge'[k].pc \notin Busy => judge'[k].note = 0
    BY Zenon, <1>6 DEF TakenInv, Alone
  <2> QED BY Zenon, <2>1, <2>2, <2>3, <2>4 DEF TakenInv
<1>17. PinsInv'
  <2>1. \A k \in Judges : \A t \in DOMAIN Cached(k)' : InOrder(Cached(k)[t], tasks[t].gen)'
    BY Zenon, <1>1 DEF PinsInv, Cached, InOrder
  <2> QED BY Zenon, <1>8, <1>9, <2>1 DEF PinsInv
<1>18. CallersInv'
  <2>1. SUFFICES ASSUME faults.poll = 0
                 PROVE  (\A k \in Judges : CallerInv(k)') /\ InjectedAnswersTheCall'
    BY Zenon, <1>1 DEF CallersInv
  <2>2. (\A k \in Judges : CallerInv(k)) /\ InjectedAnswersTheCall
    BY Zenon, <2>1 DEF CallersInv
  <2>3. ASSUME NEW i \in DOMAIN notes', notes'[i].answer = "fd"
        PROVE  notes'[i].ok /\ notes'[i].from = notes'[i].gen /\ notes'[i].named = notes'[i].path
    <3>1. CASE notes'[i] = notes[i]
      BY Zenon, <1>14, <2>2, <2>3, <3>1 DEF InjectedAnswersTheCall
    <3>2. CASE i = n /\ notes'[n].answer = a /\ notes'[n].from = judge[j].opened
               /\ notes'[n].named = judge[j].path
      <4>1. judge[j].grant
        BY Zenon, <1>4, <2>3, <3>2
      <4>2. notes[n].ok /\ judge[j].opened = notes[n].gen /\ judge[j].path = notes[n].path
        BY ZenonT(40), <1>1, <2>2, <4>1 DEF CallerInv, Note, n
      <4> QED BY Zenon, <1>15, <3>2, <4>2
    <3> QED BY Zenon, <1>5, <1>14, <3>1, <3>2
  <2>4. InjectedAnswersTheCall'
    BY Zenon, <2>3 DEF InjectedAnswersTheCall
  <2> QED BY Zenon, <1>8, <1>9, <2>2, <2>4
<1>19. CacheInv'
  <2>1. \A k \in Judges : judge'[k].pc \in {"open_mem", "open_root"} => judge[k].pc = judge'[k].pc
    BY Zenon, <1>6 DEF Alone
  <2> QED BY Zenon, <1>1, <2>1 DEF CacheInv, Cached
<1>20. LinesInv'
  <2>1. ASSUME NEW i \in DOMAIN log.lines
        PROVE  LET l == log.lines[i]
               IN  /\ l.note \in DOMAIN notes' /\ notes'[l.note].taken
                   /\ notes'[l.note].answer \in {"fd", "denied"} =>
                        (l.granted = (notes'[l.note].answer = "fd"))
                   /\ \A k \in Judges : judge'[k].pc \in Busy /\ judge'[k].note = l.note =>
                        judge'[k].pc = "send" /\ l.granted = judge'[k].grant
    <3>1. CASE log.lines[i].note = n
      <4>1. log.lines[i].granted = judge[j].grant
        BY Zenon, <1>2, <3>1 DEF LinesInv, n
      <4>2. \A k \in Judges : ~(judge'[k].pc \in Busy /\ judge'[k].note = n)
        BY Zenon, <1>13
      <4>3. notes'[n].answer \in {"fd", "denied"} => (judge[j].grant = (notes'[n].answer = "fd"))
        <5>1. CASE notes'[n] = notes[n]
          BY Zenon, <1>2, <5>1 DEF AnswerInv, Note, n
        <5>2. CASE notes'[n].answer = a
          <6>1. judge[j].grant = (a = "fd")
            BY ZenonT(40), <1>3, <1>4
          <6> QED BY Zenon, <5>2, <6>1
        <5> QED BY Zenon, <1>5, <5>1, <5>2
      <4> QED BY Zenon, <1>2, <1>14, <1>15, <3>1, <4>1, <4>2, <4>3
    <3>2. CASE log.lines[i].note # n
      BY <1>13, <1>14, <3>2 DEF LinesInv
    <3> QED BY Zenon, <3>1, <3>2
  <2> QED BY <1>1, <2>1 DEF LinesInv
<1>21. AnswerInv'
  BY <1>13, <1>14 DEF AnswerInv, TakenInv, Note
<1>22. CoverInv'
  <2>1. Intact' = Intact
    BY Zenon, <1>1 DEF Intact
  <2>2. ASSUME Intact, NEW i \in DOMAIN notes', notes'[i].answer \in {"fd", "denied"}
        PROVE  \E l \in DOMAIN log.lines : log.lines[l].note = i
    <3>1. CASE i = n
      BY Zenon, <1>1, <2>2, <3>1 DEF CoverInv, n
    <3>2. CASE i # n
      BY Zenon, <1>14, <2>2, <3>2 DEF CoverInv
    <3> QED BY Zenon, <3>1, <3>2
  <2>3. ASSUME Intact, NEW k \in Judges, judge'[k].pc = "send"
        PROVE  \E l \in DOMAIN log.lines : log.lines[l].note = judge'[k].note
    BY Zenon, <1>13, <2>3 DEF CoverInv, Busy
  <2> QED BY Zenon, <1>1, <2>1, <2>2, <2>3 DEF CoverInv
<1> QED BY Zenon, <1>10, <1>12, <1>16, <1>17, <1>18, <1>19, <1>20, <1>21, <1>22 DEF BrokerInv

\* The kernel answers what is left over; no judge is at work any more.
LEMMA ReleaseStep ==
  ASSUME BrokerInv, ListenerReleased
  PROVE  BrokerInv'
<1> /\ BrokerTypes /\ HandoffInv /\ TakenInv /\ PinsInv /\ CallersInv /\ CacheInv /\ OrderInv
    /\ LinesInv /\ AnswerInv /\ CoverInv /\ ResultInv
  BY Zenon DEF BrokerInv
<1>1. /\ serve = "ended" /\ \A k \in Judges : judge[k].pc = "off"
      /\ UNCHANGED <<serve, crun, tasks, judge, cache, log, result, faults>>
  BY Zenon DEF ListenerReleased
<1>2. PICK n \in DOMAIN notes : Valid(n) /\ notes' = [notes EXCEPT ![n].answer = "ENOSYS"]
  BY ZenonT(40) DEF ListenerReleased
<1>3. /\ notes' \in Seq(Notes) /\ Only(n) /\ Kept(n)
      /\ notes'[n].taken = notes[n].taken /\ notes'[n].answer = "ENOSYS"
  BY <1>2, ReleasedEffect, Zenon DEF BrokerTypes
<1>4. DOMAIN notes' = DOMAIN notes /\ \A i \in DOMAIN notes : i # n => notes'[i] = notes[i]
  BY Zenon, <1>3 DEF Only
<1>5. /\ notes'[n].gen = notes[n].gen /\ notes'[n].tid = notes[n].tid
      /\ notes'[n].taken = notes[n].taken /\ notes'[n].answer \notin {"fd", "denied"}
  BY Zenon, <1>3 DEF Kept
<1>6. \A k \in Judges : judge'[k].pc = "off" /\ "off" \notin Busy
  BY Zenon, <1>1 DEF Busy, Before
<1>7. BrokerTypes' /\ HandoffInv' /\ ResultInv' /\ OrderInv' /\ CacheInv'
  BY <1>1, <1>3 DEF BrokerTypes, HandoffInv, ResultInv, OrderInv, LogInOrder, CacheInv, Cached
<1>8. TakenInv' /\ AnswerInv'
  BY Zenon, <1>1, <1>4, <1>5, <1>6 DEF TakenInv, AnswerInv
<1>9. PinsInv'
  <2>1. \A k \in Judges : \A t \in DOMAIN Cached(k)' : InOrder(Cached(k)[t], tasks[t].gen)'
    BY Zenon, <1>1 DEF PinsInv, Cached, InOrder
  <2> QED BY Zenon, <1>6, <2>1 DEF PinsInv, PinInv
<1>10. CallersInv'
  <2>1. InjectedAnswersTheCall => InjectedAnswersTheCall'
    BY Zenon, <1>4, <1>5 DEF InjectedAnswersTheCall
  <2> QED BY Zenon, <1>1, <1>6, <2>1 DEF CallersInv, CallerInv
<1>11. LinesInv'
  <2>1. ASSUME NEW i \in DOMAIN log.lines
        PROVE  LET l == log.lines[i]
               IN  /\ l.note \in DOMAIN notes' /\ notes'[l.note].taken
                   /\ notes'[l.note].answer \in {"fd", "denied"} =>
                        (l.granted = (notes'[l.note].answer = "fd"))
    <3>1. CASE log.lines[i].note = n
      BY Zenon, <1>4, <1>5, <3>1 DEF LinesInv
    <3>2. CASE log.lines[i].note # n
      BY Zenon, <1>4, <3>2 DEF LinesInv
    <3> QED BY Zenon, <3>1, <3>2
  <2> QED BY Zenon, <1>1, <1>6, <2>1 DEF LinesInv
<1>12. CoverInv'
  <2>1. Intact' = Intact
    BY Zenon, <1>1 DEF Intact
  <2> QED BY Zenon, <1>1, <1>4, <1>5, <2>1 DEF CoverInv
<1> QED BY Zenon, <1>7, <1>8, <1>9, <1>10, <1>11, <1>12 DEF BrokerInv

-----------------------------------------------------------------------------
(* The log.                                                                *)

\* Lines are numbered.
LEMMA LineNumbers == ASSUME NEW s \in Seq(Lines) PROVE \A i \in DOMAIN s : s[i].seq \in Nat
<1> SUFFICES ASSUME NEW i \in DOMAIN s PROVE s[i].seq \in Nat
  OBVIOUS
<1>1. s[i] \in Lines
  OBVIOUS
<1> QED BY Zenon, <1>1 DEF Lines

\* What is known of lines survives one more line for a call that had none.
LEMMA RecordStep ==
  ASSUME BrokerInv, NEW j \in Judges, Record(j)
  PROVE  BrokerInv'
<1> /\ BrokerTypes /\ HandoffInv /\ TakenInv /\ PinsInv /\ CallersInv /\ CacheInv /\ OrderInv
    /\ LinesInv /\ AnswerInv /\ CoverInv /\ ResultInv
  BY Zenon DEF BrokerInv
<1> DEFINE n == judge[j].note
           line == [seq |-> log.seq + 1, note |-> n, granted |-> judge[j].grant]
<1>1. judge[j].pc = "record" /\ UNCHANGED <<serve, crun, tasks, notes, cache, result>>
  BY Zenon DEF Record
<1>2. judge[j].pc \in Busy /\ judge[j] \in JudgeStates /\ n \in DOMAIN notes /\ n \in Nat
  <2>1. judge[j].pc \in Busy
    BY Zenon, <1>1 DEF Busy, Before
  <2>2. judge[j] \in JudgeStates /\ n \in DOMAIN notes
    BY Zenon, <2>1, CallTypes
  <2>3. n \in Nat
    BY Zenon, <2>2 DEF JudgeStates
  <2> QED BY Zenon, <2>1, <2>2, <2>3
<1>3. /\ judge' \in [Judges -> JudgeStates] /\ Alone(j)
      /\ judge'[j].pc = "send" /\ judge'[j].note = n /\ judge'[j].grant = judge[j].grant
      /\ judge'[j].opened = judge[j].opened /\ judge'[j].path = judge[j].path
  <2>1. Step(j, "send") /\ "send" \in PCs /\ judge \in [Judges -> JudgeStates]
    BY Zenon DEF Record, PCs, Busy, BrokerTypes
  <2> QED BY Zenon, <2>1, StepEffect
<1>4. log \in Logs /\ log.seq \in Nat /\ log.lines \in Seq(Lines) /\ log.incomplete \in BOOLEAN
  BY Zenon DEF BrokerTypes, Logs
<1>5. line \in Lines /\ line.seq = log.seq + 1 /\ line.note = n /\ line.granted = judge[j].grant
  <2>0. log.seq + 1 \in Nat
    BY <1>4
  <2>1. judge[j].grant \in BOOLEAN
    BY Zenon, <1>2 DEF JudgeStates
  <2>2. line \in Lines
    BY <1>2, <2>0, <2>1, Zenon DEF Lines
  <2> QED BY Zenon, <2>2
<1>6. /\ log' \in Logs /\ log'.marker = log.marker
      /\ log'.state = log.state \/ (log.state = "open" /\ log'.state = "disabled")
      /\ \/ log' = log /\ log.state # "open"
         \/ log'.seq = log.seq + 1 /\ log'.incomplete /\ log'.lines = log.lines
         \/ /\ log'.seq = log.seq + 1 /\ log'.incomplete = log.incomplete /\ log'.state = log.state
            /\ log'.lines = Append(log.lines, line)
  <2>1. CASE log.state # "open"
    BY Zenon, <1>4, <2>1 DEF Record
  <2>2. CASE log.state = "open"
    <3>1. log' \in write_line([log EXCEPT !.seq = @ + 1], line)
      BY Zenon, <2>2 DEF Record
    <3> HIDE DEF line
    <3> QED BY <1>4, <1>5, <2>2, <3>1, WriteTypes
  <2> QED BY Zenon, <2>1, <2>2
<1>7. faults' \in [other: Nat, poll: Nat] /\ faults'.poll = faults.poll
  <2>1. faults' = faults \/ faults' = Count
    BY Zenon DEF Record
  <2> QED BY Zenon, <2>1, FaultTypes DEF BrokerTypes
<1> HIDE DEF line, n
<1>8. BrokerTypes'
  BY Zenon, <1>1, <1>3, <1>6, <1>7 DEF BrokerTypes
<1>9. serve = "pool" /\ log.state # "closed" /\ log.marker
  BY Zenon, <1>1 DEF HandoffInv
<1>10. HandoffInv' /\ ResultInv'
  BY Zenon, <1>1, <1>6, <1>9 DEF HandoffInv, ResultInv
<1>11. AllKept /\ Grow /\ tasks' \in [Tids -> [gen: Nat, up: BOOLEAN]]
  BY <1>1 DEF AllKept, Kept, Grow, BrokerTypes
<1>12. \A k \in Judges \ {j} : (PinInv(k) => PinInv(k)') /\ (CallerInv(k) => CallerInv(k)')
  BY Zenon, <1>3, <1>11, JudgeKept DEF Alone
<1>13. PinInv(j)' /\ (CallerInv(j) => CallerInv(j)')
  BY Zenon, <1>1, <1>3 DEF PinInv, CallerInv, Note, n
<1>14. PinsInv'
  <2>1. \A k \in Judges : \A t \in DOMAIN Cached(k)' : InOrder(Cached(k)[t], tasks[t].gen)'
    BY Zenon, <1>1 DEF PinsInv, Cached, InOrder
  <2> QED BY Zenon, <1>12, <1>13, <2>1 DEF PinsInv
<1>15. CallersInv'
  BY Zenon, <1>1, <1>7, <1>12, <1>13 DEF CallersInv, InjectedAnswersTheCall
<1>16. CacheInv'
  <2>1. \A k \in Judges : judge'[k].pc \in {"open_mem", "open_root"} => judge[k].pc = judge'[k].pc
    BY Zenon, <1>3 DEF Alone
  <2> QED BY Zenon, <1>1, <2>1 DEF CacheInv, Cached
<1>17. \A k \in Judges :
         /\ judge'[k].pc \in Busy => judge[k].pc \in Busy
         /\ judge'[k].note = judge[k].note
         /\ k # j => judge'[k] = judge[k]
         /\ judge'[k].pc \notin Busy => k # j
         /\ judge[k].pc \in Busy /\ judge[k].note = n => k = j
  BY Zenon, <1>2, <1>3 DEF Alone, TakenInv, Busy, n
<1>18. TakenInv' /\ AnswerInv'
  BY Zenon, <1>1, <1>17 DEF TakenInv, AnswerInv, Note
<1>19. \A i \in DOMAIN log.lines : log.lines[i].note # n
  BY Zenon, <1>1, <1>2 DEF LinesInv, n
<1>20. notes[n].taken /\ notes[n].answer \notin {"fd", "denied"}
  BY Zenon, <1>2 DEF TakenInv, AnswerInv, Note, n
<1>21. \A i \in DOMAIN log.lines :
         LET l == log.lines[i]
         IN  /\ l.note \in DOMAIN notes' /\ notes'[l.note].taken
             /\ notes'[l.note].answer \in {"fd", "denied"} => (l.granted = (notes'[l.note].answer = "fd"))
             /\ \A k \in Judges : judge'[k].pc \in Busy /\ judge'[k].note = l.note =>
                  judge'[k].pc = "send" /\ l.granted = judge'[k].grant
  <2>1. ASSUME NEW i \in DOMAIN log.lines, NEW k \in Judges, judge'[k].pc \in Busy,
               judge'[k].note = log.lines[i].note
        PROVE  judge'[k].pc = "send" /\ log.lines[i].granted = judge'[k].grant
    <3>1. k # j
      BY Zenon, <1>3, <1>19, <2>1
    <3> QED BY <1>17, <2>1, <3>1 DEF LinesInv
  <2> QED BY <1>1, <2>1 DEF LinesInv
<1>22. CASE log'.lines = log.lines /\ (log' = log \/ log'.incomplete)
  <2>1. LinesInv'
    <3>1. \A i \in DOMAIN log.lines : LineHolds(log.lines[i])
      BY Zenon, <1>21 DEF LineHolds
    <3> QED BY Zenon, <1>22, <3>1, LinesKept
  <2>2. OrderInv'
    <3>1. CASE log' = log
      BY Zenon, <3>1 DEF OrderInv, LogInOrder
    <3>2. CASE log'.incomplete /\ log'.seq = log.seq + 1
      <4>1. \A i \in DOMAIN log.lines : log.lines[i].seq \in Nat
        BY <1>4, LineNumbers, Zenon
      <4> QED BY <1>4, <1>22, <3>2, <4>1 DEF OrderInv, LogInOrder
    <3>3. log' = log \/ (log'.incomplete /\ log'.seq = log.seq + 1)
      BY Zenon, <1>6, <1>22
    <3> QED BY Zenon, <3>1, <3>2, <3>3
  <2>3. CoverInv'
    <3>1. ~Intact'
      BY <1>6, <1>9, <1>22 DEF Intact
    <3> QED BY Zenon, <3>1 DEF CoverInv
  <2> QED BY Zenon, <1>8, <1>10, <1>14, <1>15, <1>16, <1>18, <2>1, <2>2, <2>3 DEF BrokerInv
<1>23. CASE /\ log'.seq = log.seq + 1 /\ log'.incomplete = log.incomplete /\ log'.state = log.state
            /\ log'.lines = Append(log.lines, line)
  <2> DEFINE m == Len(log.lines) + 1
             s == log.lines
             t == log'.lines
  <2>1. /\ t \in Seq(Lines) /\ Len(t) = m /\ Len(s) \in Nat
        /\ DOMAIN t = 1 .. m /\ DOMAIN s = 1 .. Len(s)
        /\ \A i \in DOMAIN s : t[i] = s[i]
        /\ t[m] = line
    BY <1>4, <1>5, <1>23, AppendedFacts
  <2>2. \A i \in DOMAIN s : s[i].seq \in Nat
    BY <1>4, LineNumbers, Zenon
  <2>3. \A i \in DOMAIN t : (i \in DOMAIN s /\ t[i] = s[i] /\ i < m) \/ (i = m /\ t[i] = line)
    BY <2>1
  <2>4. m \in DOMAIN t /\ \A i \in DOMAIN s : i \in DOMAIN t
    BY <2>1
  <2>5. OrderInv /\ LogInOrder
    BY Zenon DEF OrderInv
  <2>6. OrderInv'
    <3>0. \A i \in DOMAIN s : /\ i > 1 => s[i].seq > s[i - 1].seq
                              /\ ~log.incomplete => s[i].seq = i
                              /\ s[i].seq <= log.seq
      BY Zenon, <2>5 DEF OrderInv, LogInOrder
    <3>00. ~log.incomplete => log.seq = Len(s)
      BY Zenon, <2>5 DEF OrderInv
    <3> HIDE DEF s, t, m
    <3>1. ASSUME NEW i \in DOMAIN t
          PROVE  /\ i > 1 => t[i].seq > t[i - 1].seq
                 /\ ~log.incomplete => t[i].seq = i
                 /\ t[i].seq <= log.seq + 1
      <4>1. CASE i \in DOMAIN s /\ t[i] = s[i]
        <5>1. i > 1 => i - 1 \in DOMAIN s
          BY <2>1, <4>1
        <5> QED BY <1>4, <2>1, <2>2, <3>0, <4>1, <5>1
      <4>2. CASE i = m /\ t[i] = line
        <5>1. i > 1 => i - 1 \in DOMAIN s
          BY <2>1, <4>2 DEF m, s
        <5>2. m = Len(s) + 1
          BY Zenon DEF m, s
        <5>3. t[i].seq = log.seq + 1
          BY Zenon, <1>5, <4>2
        <5>4. i > 1 => t[i - 1].seq \in Nat /\ t[i - 1].seq <= log.seq
          BY ZenonT(40), <2>1, <2>2, <3>0, <5>1
        <5>5. ~log.incomplete => log.seq + 1 = i
          BY Zenon, <2>1, <3>00, <4>2, <5>2
        <5> HIDE DEF line
        <5> QED BY <1>4, <5>3, <5>4, <5>5
      <4> QED BY Zenon, <2>3, <4>1, <4>2
    <3>2. ~log.incomplete => log.seq + 1 = Len(t)
      BY Zenon, <2>1, <3>00 DEF m, s
    <3> QED BY Zenon, <1>23, <3>1, <3>2 DEF OrderInv, LogInOrder, t
  <2>7. LinesInv'
    <3>1. ASSUME NEW i \in DOMAIN t
          PROVE  LET l == t[i]
                 IN  /\ l.note \in DOMAIN notes' /\ notes'[l.note].taken
                     /\ notes'[l.note].answer \in {"fd", "denied"} =>
                          (l.granted = (notes'[l.note].answer = "fd"))
                     /\ \A k \in Judges : judge'[k].pc \in Busy /\ judge'[k].note = l.note =>
                          judge'[k].pc = "send" /\ l.granted = judge'[k].grant
      <4>1. CASE i \in DOMAIN s /\ t[i] = s[i]
        BY <1>21, <4>1
      <4>2. CASE t[i] = line
        BY <1>1, <1>2, <1>3, <1>5, <1>17, <1>20, <4>2
      <4> QED BY Zenon, <2>3, <4>1, <4>2
    <3>2. ASSUME NEW i \in DOMAIN t, NEW k \in DOMAIN t, t[i].note = t[k].note PROVE i = k
      BY <1>5, <1>19, <2>3, <3>2 DEF LinesInv
    <3> HIDE DEF t
    <3>3. log'.lines = t
      BY Zenon DEF t
    <3> QED BY <3>1, <3>2, <3>3 DEF LinesInv
  <2>8. CoverInv'
    <3>1. Intact' => Intact
      BY Zenon, <1>9, <1>23 DEF Intact
    <3>2. ASSUME Intact, NEW i \in DOMAIN notes, notes[i].answer \in {"fd", "denied"}
          PROVE  \E l \in DOMAIN t : t[l].note = i
      BY Zenon, <2>1, <2>4, <3>2 DEF CoverInv
    <3>3. ASSUME Intact, NEW k \in Judges, judge'[k].pc = "send"
          PROVE  \E l \in DOMAIN t : t[l].note = judge'[k].note
      <4>1. CASE k = j
        BY Zenon, <1>3, <1>5, <2>1, <2>4, <4>1
      <4>2. CASE k # j
        BY <1>17, <2>1, <2>4, <3>3, <4>2 DEF CoverInv
      <4> QED BY Zenon, <4>1, <4>2
    <3> QED BY Zenon, <1>1, <3>1, <3>2, <3>3 DEF CoverInv
  <2> QED BY Zenon, <1>8, <1>10, <1>14, <1>15, <1>16, <1>18, <2>6, <2>7, <2>8 DEF BrokerInv
<1> QED BY Zenon, <1>6, <1>22, <1>23

\* The log is dropped after the last judge: the marker stays if it must.
LEMMA EndStep ==
  ASSUME BrokerInv, ServeEnds
  PROVE  BrokerInv'
<1> /\ BrokerTypes /\ HandoffInv /\ TakenInv /\ PinsInv /\ CallersInv /\ CacheInv /\ OrderInv
    /\ LinesInv /\ AnswerInv /\ CoverInv /\ ResultInv
  BY Zenon DEF BrokerInv
<1>1. /\ serve = "pool" /\ serve' = "ended" /\ \A j \in Judges : judge[j].pc = "off"
      /\ UNCHANGED <<crun, tasks, notes, judge, cache, result, faults>>
  BY Zenon DEF ServeEnds
<1>2. log.state # "closed" /\ log.marker /\ log \in Logs
  BY Zenon, <1>1 DEF HandoffInv, BrokerTypes
<1>3. /\ log' \in Logs /\ log'.state = "closed" /\ log'.marker = (log.incomplete \/ log.state = "disabled")
      /\ log'.lines = log.lines /\ log'.seq = log.seq /\ log'.incomplete = log.incomplete
  <2>1. log' = [log EXCEPT !.state = "closed", !.marker = log.incomplete \/ log.state = "disabled"]
    BY Zenon, <1>2 DEF ServeEnds
  <2>2. (log.incomplete \/ log.state = "disabled") \in BOOLEAN
    OBVIOUS
  <2>3. LogMarked(log, log', "closed", log.incomplete \/ log.state = "disabled")
    BY Zenon, <1>2, <2>1, <2>2, MarkedLog
  <2> QED BY Zenon, <2>3 DEF LogMarked
<1>4. BrokerTypes' /\ HandoffInv'
  BY Zenon, <1>1, <1>3 DEF BrokerTypes, HandoffInv
<1>5. TakenInv' /\ AnswerInv' /\ CacheInv' /\ OrderInv' /\ LinesInv'
  <2>1. TakenInv'
    BY Zenon, <1>1 DEF TakenInv, Note
  <2>2. AnswerInv' /\ CacheInv'
    BY Zenon, <1>1 DEF AnswerInv, CacheInv, Note, Cached
  <2>3. OrderInv'
    BY Zenon, <1>3 DEF OrderInv, LogInOrder
  <2>4. LinesInv'
    <3>1. \A i \in DOMAIN log.lines : LineHolds(log.lines[i])
      BY Zenon, <1>1 DEF LinesInv, LineHolds
    <3> QED BY Zenon, <1>3, <3>1, LinesKept
  <2> QED BY Zenon, <2>1, <2>2, <2>3, <2>4
<1>6. PinsInv' /\ CallersInv'
  <2>1. PinsInv'
    BY Zenon, <1>1 DEF PinsInv, PinInv, Cached, Note, InOrder
  <2>2. CallersInv'
    BY Zenon, <1>1 DEF CallersInv, CallerInv, InjectedAnswersTheCall, Note
  <2> QED BY Zenon, <2>1, <2>2
<1>7. ResultInv'
  BY Zenon, <1>1, <1>2 DEF ResultInv
<1>8. CoverInv'
  <2>1. log.state \in {"closed", "open", "disabled"}
    BY Zenon, <1>2 DEF Logs
  <2>2. Intact' => Intact
    BY Zenon, <1>2, <1>3, <2>1 DEF Intact
  <2> QED BY <1>1, <1>3, <2>2 DEF CoverInv
<1> QED BY Zenon, <1>4, <1>5, <1>6, <1>7, <1>8 DEF BrokerInv

-----------------------------------------------------------------------------
(* The hand-off, the zone's threads and the daemon.                        *)

\* recv_fd: the pool starts, before any call was made.
LEMMA HandoffStep ==
  ASSUME BrokerInv, ServeRecvFd
  PROVE  BrokerInv'
<1> /\ BrokerTypes /\ HandoffInv /\ TakenInv /\ PinsInv /\ CallersInv /\ CacheInv /\ OrderInv
    /\ LinesInv /\ AnswerInv /\ CoverInv /\ ResultInv
  BY Zenon DEF BrokerInv
<1>1. serve = "recv_fd" /\ UNCHANGED <<crun, notes, cache, result>>
  BY Zenon DEF ServeRecvFd
<1>2. /\ notes = <<>> /\ log.lines = <<>> /\ result.pc = "waiting" /\ log.state = "closed" /\ ~log.marker
      /\ \A tid \in Tids : tasks[tid].gen = 0
      /\ \A j \in Judges : judge[j].pc = "off"
  BY Zenon, <1>1 DEF HandoffInv
<1>3. tasks' \in [Tids -> [gen: Nat, up: BOOLEAN]] /\ Grow
  <2>1. CASE UNCHANGED tasks
    BY <2>1 DEF BrokerTypes, Grow
  <2>2. CASE Started
    <3>1. [gen |-> 1, up |-> TRUE] \in [gen: Nat, up: BOOLEAN]
      OBVIOUS
    <3>2. tasks' \in [Tids -> [gen: Nat, up: BOOLEAN]]
      BY Zenon, <2>2, <3>1 DEF Started, BrokerTypes
    <3>3. ASSUME NEW tid \in Tids PROVE tasks[tid].gen <= tasks'[tid].gen
      <4>1. tasks'[tid].gen \in Nat
        BY Zenon, <3>2
      <4> QED BY <1>2, <4>1
    <3> QED BY Zenon, <3>2, <3>3 DEF Grow
  <2>3. Started \/ UNCHANGED tasks
    BY Zenon DEF ServeRecvFd
  <2> QED BY Zenon, <2>1, <2>2, <2>3
<1>4. faults' \in [other: Nat, poll: Nat] /\ faults'.poll = faults.poll
  <2>1. faults' = faults \/ faults' = Count
    BY Zenon DEF ServeRecvFd
  <2> QED BY Zenon, <2>1, FaultTypes DEF BrokerTypes
<1>5. \/ /\ serve' = "pool" /\ log' \in OpenedLog(log)
         /\ judge' = [j \in Judges |-> [IdleJudge EXCEPT !.pc = "recv"]]
      \/ serve' = "ended" /\ UNCHANGED <<log, judge>>
  BY Zenon DEF ServeRecvFd
<1>6. /\ judge' \in [Judges -> JudgeStates]
      /\ \A j \in Judges : /\ judge'[j].pc \in {"off", "recv"} /\ judge'[j].note = 0
                           /\ serve' = "ended" => judge'[j].pc = "off"
  <2>1. CASE judge' = [j \in Judges |-> [IdleJudge EXCEPT !.pc = "recv"]] /\ serve' = "pool"
    <3> DEFINE r == [IdleJudge EXCEPT !.pc = "recv"]
    <3>1. r \in JudgeStates
      BY IdleTypes, Zenon DEF JudgeStates
    <3>2. r.pc = "recv" /\ r.note = 0
      BY Zenon, IdleFields
    <3>3. judge' = [j \in Judges |-> r]
      BY Zenon, <2>1
    <3> HIDE DEF r
    <3> QED BY Zenon, <2>1, <3>1, <3>2, <3>3
  <2>2. CASE UNCHANGED judge
    BY Zenon, <1>2, <2>2 DEF BrokerTypes, TakenInv, Busy, Before
  <2> QED BY Zenon, <1>5, <2>1, <2>2
<1>7. /\ log' \in Logs /\ log'.lines = log.lines /\ log'.seq = log.seq /\ log'.incomplete = log.incomplete
      /\ serve' = "pool" => log'.state # "closed" /\ log'.marker
      /\ serve' = "ended" => log'.state = "closed"
  <2>1. log \in Logs
    BY Zenon DEF BrokerTypes
  <2>2. CASE serve' = "pool" /\ log' \in OpenedLog(log)
    BY Zenon, <2>1, <2>2, OpenedLogTypes DEF LogMarked
  <2>3. CASE serve' = "ended" /\ UNCHANGED log
    <3>1. log' = log /\ serve' # "pool"
      BY Zenon, <2>3
    <3> QED BY <1>2, <2>1, <3>1, Zenon
  <2> QED BY Zenon, <1>5, <2>2, <2>3
<1>8. \A j \in Judges : judge'[j].pc \notin Busy
  BY Zenon, <1>6 DEF Busy, Before
<1>9. BrokerTypes'
  BY Zenon, <1>1, <1>3, <1>4, <1>5, <1>6, <1>7 DEF BrokerTypes
<1>10. HandoffInv' /\ ResultInv'
  BY Zenon, <1>1, <1>2, <1>5, <1>6, <1>7 DEF HandoffInv, ResultInv
<1>11. TakenInv' /\ AnswerInv' /\ LinesInv' /\ CoverInv'
  <2>1. notes' = <<>> /\ log'.lines = <<>>
    BY Zenon, <1>1, <1>2, <1>7
  <2>2. TakenInv'
    BY <1>6, <1>8, <2>1 DEF TakenInv
  <2>3. AnswerInv' /\ LinesInv'
    BY <1>8, <2>1 DEF AnswerInv, LinesInv, Busy
  <2>4. CoverInv'
    BY <1>8, <2>1 DEF CoverInv, Busy
  <2> QED BY Zenon, <2>2, <2>3, <2>4
<1>12. OrderInv'
  BY Zenon, <1>7 DEF OrderInv, LogInOrder
<1>13. CacheInv'
  BY Zenon, <1>1, <1>6 DEF CacheInv, Cached
<1>14. PinsInv'
  <2>1. ASSUME NEW k \in Judges, NEW t \in DOMAIN Cached(k)' PROVE InOrder(Cached(k)[t], tasks[t].gen)'
    <3>1. Cached(k)' = Cached(k)
      BY Zenon, <1>1 DEF Cached
    <3>2. t \in DOMAIN Cached(k)
      BY Zenon, <3>1
    <3>3. InOrder(Cached(k)[t], tasks'[t].gen)
      BY Zenon, <1>3, <3>2, PinsKept
    <3> QED BY Zenon, <3>1, <3>3 DEF InOrder
  <2> QED BY Zenon, <1>6, <2>1 DEF PinsInv, PinInv
<1>15. CallersInv'
  BY <1>1, <1>2, <1>6 DEF CallersInv, CallerInv, InjectedAnswersTheCall
<1> QED BY Zenon, <1>9, <1>10, <1>11, <1>12, <1>13, <1>14, <1>15 DEF BrokerInv

\* A judge that ends.
LEMMA RecvEndsStep ==
  ASSUME BrokerInv, NEW j \in Judges, RecvEnds(j)
  PROVE  BrokerInv'
<1> /\ BrokerTypes /\ HandoffInv /\ TakenInv /\ PinsInv /\ CallersInv /\ CacheInv /\ OrderInv
    /\ LinesInv /\ AnswerInv /\ CoverInv /\ ResultInv
  BY Zenon DEF BrokerInv
<1>1. judge[j].pc = "recv" /\ UNCHANGED <<serve, crun, tasks, notes, cache, log, result>>
  BY Zenon DEF RecvEnds
<1>2. faults' \in [other: Nat, poll: Nat] /\ faults'.poll = faults.poll
  <2>1. faults' = faults \/ faults' = Count
    BY Zenon DEF RecvEnds
  <2> QED BY Zenon, <2>1, FaultTypes DEF BrokerTypes
<1>3. judge' \in [Judges -> JudgeStates] /\ Alone(j) /\ judge'[j].pc = "off" /\ judge'[j].note = 0
  <2>1. judge' = [judge EXCEPT ![j] = IdleJudge] /\ judge \in [Judges -> JudgeStates]
    BY Zenon DEF RecvEnds, BrokerTypes
  <2>2. IdleJudge \in JudgeStates /\ IdleJudge.pc = "off" /\ IdleJudge.note = 0
    BY Zenon, IdleTypes, IdleFields
  <2> QED BY Zenon, <2>1, <2>2 DEF Alone
<1>4. AllKept /\ Grow /\ Carry /\ tasks' \in [Tids -> [gen: Nat, up: BOOLEAN]]
  BY <1>1, <1>3 DEF AllKept, Kept, Grow, Carry, Alone, Busy, Before, BrokerTypes
<1>5. TakenInv' /\ LinesInv' /\ AnswerInv' /\ CoverInv'
  BY Zenon, <1>1, <1>4, CarryKeeps
<1>6. \A k \in Judges : (PinInv(k) => PinInv(k)') /\ (CallerInv(k) => CallerInv(k)')
  <2>1. ASSUME NEW k \in Judges, k # j PROVE (PinInv(k) => PinInv(k)') /\ (CallerInv(k) => CallerInv(k)')
    BY Zenon, <1>3, <1>4, <2>1, JudgeKept DEF Alone
  <2>2. PinInv(j)' /\ CallerInv(j)'
    BY Zenon, <1>3 DEF PinInv, CallerInv
  <2> QED BY Zenon, <2>1, <2>2
<1>7. PinsInv'
  <2>1. \A k \in Judges : \A t \in DOMAIN Cached(k)' : InOrder(Cached(k)[t], tasks[t].gen)'
    BY Zenon, <1>1 DEF PinsInv, Cached, InOrder
  <2> QED BY Zenon, <1>6, <2>1 DEF PinsInv
<1>8. CallersInv'
  BY Zenon, <1>1, <1>2, <1>6 DEF CallersInv, InjectedAnswersTheCall
<1>9. CacheInv'
  <2>1. \A k \in Judges : judge'[k].pc \in {"open_mem", "open_root"} => judge[k].pc = judge'[k].pc
    BY Zenon, <1>3 DEF Alone
  <2> QED BY Zenon, <1>1, <2>1 DEF CacheInv, Cached
<1>10. HandoffInv' /\ ResultInv' /\ OrderInv'
  <2>1. serve = "pool"
    BY Zenon, <1>1 DEF HandoffInv
  <2> QED BY Zenon, <1>1, <2>1 DEF HandoffInv, ResultInv, OrderInv, LogInOrder
<1>11. BrokerTypes'
  BY Zenon, <1>1, <1>2, <1>3 DEF BrokerTypes
<1> QED BY Zenon, <1>5, <1>7, <1>8, <1>9, <1>10, <1>11 DEF BrokerInv

\* The zone's threads.
LEMMA TaskEffect ==
  ASSUME BrokerTypes, NEW tid \in Tids, Spawn(tid) \/ Die(tid)
  PROVE  tasks' \in [Tids -> [gen: Nat, up: BOOLEAN]] /\ Grow
<1>1. tasks[tid] \in [gen: Nat, up: BOOLEAN] /\ tasks \in [Tids -> [gen: Nat, up: BOOLEAN]]
  BY Zenon DEF BrokerTypes
<1>2. CASE Spawn(tid)
  <2> DEFINE r == [gen |-> tasks[tid].gen + 1, up |-> TRUE]
  <2>1. tasks' = [tasks EXCEPT ![tid] = r]
    BY Zenon, <1>2 DEF Spawn
  <2>2. r \in [gen: Nat, up: BOOLEAN] /\ r.gen = tasks[tid].gen + 1
    BY <1>1
  <2> HIDE DEF r
  <2> QED BY <1>1, <2>1, <2>2 DEF Grow
<1>3. CASE Die(tid)
  <2> DEFINE r == [tasks[tid] EXCEPT !.up = FALSE]
  <2>1. tasks' = [tasks EXCEPT ![tid] = r]
    BY <1>3, Zenon DEF Die
  <2>2. r \in [gen: Nat, up: BOOLEAN] /\ r.gen = tasks[tid].gen
    BY Zenon, <1>1
  <2> HIDE DEF r
  <2> QED BY <1>1, <2>1, <2>2 DEF Grow
<1> QED BY Zenon, <1>2, <1>3

\* The steps that only the zone's threads, serve(), crun and the daemon take.
LEMMA StillStep ==
  ASSUME BrokerInv,
         \/ ServeBind \/ ServeAccept \/ CrunConnect \/ CrunGivesUp \/ CrunSends
         \/ ReadMarker \/ read_decisions_capped
         \/ \E tid \in Tids : Spawn(tid) \/ Die(tid)
         \/ UNCHANGED brokerVars
  PROVE  BrokerInv'
<1> BrokerTypes /\ HandoffInv /\ ResultInv
  BY Zenon DEF BrokerInv
<1>1. UNCHANGED <<judge, cache, notes, log>>
  BY Zenon DEF ServeBind, ServeAccept, CrunConnect, CrunGivesUp, CrunSends, ReadMarker,
     read_decisions_capped,
         Spawn, Die, brokerVars
<1>2. faults' \in [other: Nat, poll: Nat] /\ faults'.poll = faults.poll
  <2>1. faults' = faults \/ faults' = Count
    BY Zenon DEF ServeBind, ServeAccept, CrunConnect, CrunGivesUp, CrunSends, ReadMarker,
       read_decisions_capped,
         Spawn, Die, brokerVars
  <2> QED BY Zenon, <2>1, FaultTypes DEF BrokerTypes
<1>3. tasks' \in [Tids -> [gen: Nat, up: BOOLEAN]] /\ Grow
  <2>1. CASE \E tid \in Tids : Spawn(tid) \/ Die(tid)
    BY Zenon, <2>1, TaskEffect
  <2>2. CASE UNCHANGED tasks
    BY <2>2 DEF BrokerTypes, Grow
  <2> QED BY Zenon, <2>1, <2>2 DEF ServeBind, ServeAccept, CrunConnect, CrunGivesUp, CrunSends,
     ReadMarker,
             read_decisions_capped, brokerVars
<1>4. Still
  <2>1. faults.poll <= faults'.poll
    BY <1>2
  <2> QED BY Zenon, <1>1, <1>2, <1>3, <2>1 DEF Still
<1>5. /\ serve' \in {"bind", "accept", "recv_fd", "pool", "ended"}
      /\ crun' \in {"starting", "connected", "sent", "failed"}
  BY Zenon DEF BrokerTypes, ServeBind, ServeAccept, CrunConnect, CrunGivesUp, CrunSends,
     ReadMarker, read_decisions_capped, Spawn, Die, brokerVars
<1>6. result' \in Results /\ ResultInv' /\ (serve' \in {"bind", "accept", "recv_fd"} => result' = result)
  <2>1. result \in Results /\ log \in Logs
    BY Zenon DEF BrokerTypes
  <2>2. CASE ReadMarker
    <3>1. /\ result' = [result EXCEPT !.pc = "marked", !.flagged = log.marker]
          /\ serve \in {"pool", "ended"} /\ serve' = serve
      BY Zenon, <2>2 DEF ReadMarker
    <3>2. log.marker \in BOOLEAN
      BY Zenon, <2>1 DEF Logs
    <3>3. result' \in Results
      BY <2>1, <3>1, <3>2, Zenon DEF Results
    <3>4. result'.pc = "marked" /\ result'.flagged = log.marker
      BY Zenon, <2>1, <3>1 DEF Results
    <3> QED BY Zenon, <1>1, <3>1, <3>3, <3>4 DEF ResultInv, HandoffInv
  <2>3. CASE read_decisions_capped
    <3> DEFINE seen == {log.lines[i] : i \in DOMAIN log.lines}
    <3>1. /\ result' = [result EXCEPT !.pc = "read", !.seen = seen]
          /\ result.pc = "marked" /\ serve' = serve
      BY Zenon, <2>3 DEF read_decisions_capped
    <3>2. seen \in SUBSET Lines
      BY <2>1 DEF Logs
    <3> HIDE DEF seen
    <3>3. result' \in Results
      BY <2>1, <3>1, <3>2, Zenon DEF Results
    <3>4. result'.pc = "read" /\ result'.flagged = result.flagged /\ result'.seen = seen
      BY Zenon, <2>1, <3>1 DEF Results
    <3> QED BY Zenon, <1>1, <3>1, <3>3, <3>4 DEF ResultInv, HandoffInv, seen
  <2>4. CASE result' = result
    <3>1. serve = "ended" => serve' = "ended"
      BY Zenon DEF ServeBind, ServeAccept, CrunConnect, CrunGivesUp, CrunSends, ReadMarker,
             read_decisions_capped, Spawn, Die, brokerVars
    <3> QED BY Zenon, <1>1, <2>1, <2>4, <3>1 DEF ResultInv
  <2> QED BY Zenon, <2>2, <2>3, <2>4 DEF ServeBind, ServeAccept, CrunConnect, CrunGivesUp,
             CrunSends, Spawn, Die, brokerVars
<1>7. HandoffInv'
  <2>1. /\ serve' = "pool" <=> serve = "pool"
        /\ serve' \in {"bind", "accept", "recv_fd"} => serve \in {"bind", "accept", "recv_fd"}
    BY Zenon DEF BrokerTypes, ServeBind, ServeAccept, CrunConnect, CrunGivesUp, CrunSends,
       ReadMarker, read_decisions_capped, Spawn, Die, brokerVars
  <2>2. serve \in {"bind", "accept", "recv_fd"} => UNCHANGED tasks
    <3>1. serve \in {"bind", "accept", "recv_fd"} => \A tid \in Tids : ~tasks[tid].up
      BY Zenon DEF HandoffInv
    <3> QED BY Zenon, <3>1 DEF Running, ServeBind, ServeAccept, CrunConnect, CrunGivesUp,
               CrunSends, ReadMarker, read_decisions_capped, Spawn, Die, brokerVars
  <2> QED BY Zenon, <1>1, <1>6, <2>1, <2>2 DEF HandoffInv
<1>8. BrokerTypes'
  BY Zenon, <1>1, <1>2, <1>3, <1>5, <1>6 DEF BrokerTypes
<1>9. TakenInv' /\ PinsInv' /\ CallersInv' /\ CacheInv' /\ OrderInv' /\ LinesInv' /\ AnswerInv' /\ CoverInv'
  BY Zenon, <1>4, StillKeeps
<1> QED BY Zenon, <1>6, <1>7, <1>8, <1>9 DEF BrokerInv
=============================================================================
