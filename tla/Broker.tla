------------------------------- MODULE Broker -------------------------------
(***************************************************************************)
(* The runtime of the seccomp-notify broker (rauha-shim/src/broker/mod.rs, *)
(* pins.rs, decision.rs): the hand-off of the notify descriptor, the pool  *)
(* of judge threads with their pin caches, the answers and the decision    *)
(* log that becomes evidence.                                              *)
(*                                                                         *)
(* A task is a thread id and an incarnation (gen): ids are reused by the   *)
(* kernel after a task dies.  What a judge opened through an id is recorded*)
(* by the incarnation it reached.  A call is its path and whether classify  *)
(* (module BrokerClassify) grants it; every errno of a denial is "denied".  *)
(***************************************************************************)
EXTENDS Naturals, Sequences, FiniteSets, Functions

CONSTANTS Judges,         \* the judge threads ([broker] judge_threads)
          CacheMax,       \* [broker] cache_max_tasks
          NoFile,         \* RLIMIT_NOFILE after it was raised
          FD_HEADROOM,
          Tids,           \* thread ids of the zone
          Paths,          \* paths the workload names
          MaxGen,         \* incarnations of one id
          MaxCalls,       \* brokered calls made in all
          LogLimit,       \* lines that fit RAUHA_LOG_MAX_BYTES
          MaxFailures,    \* failing system calls, panics and ended RECVs
          MaxPollErrors,  \* polls of a pidfd that fail
          CrunConnects    \* whether crun reaches its hand-off

VARIABLES
  serve,     \* serve(): where it is
  crun,      \* crun's listener helper
  tasks,     \* the zone's threads
  notes,     \* every notification, in the order of the calls
  judge,     \* each judge thread
  cache,     \* each judge's PinCache
  log,       \* broker.log and its incomplete marker
  result,    \* what the daemon read of the log when the task ended
  faults     \* failures so far

brokerVars == <<serve, crun, tasks, notes, judge, cache, log, result, faults>>

NoPins == [pidfd |-> 0, mem |-> 0, root |-> 0]
IdleJudge == [pc |-> "off", note |-> 0, pins |-> NoPins, path |-> "", grant |-> FALSE,
              opened |-> 0]

AliveAs(tid, gen) == tasks[tid].up /\ tasks[tid].gen = gen
Note(j) == notes[judge[j].note]
Running == \E tid \in Tids : tasks[tid].up

\* The kernel's view: the notification is pending for as long as its task lives.
Valid(n) == notes[n].answer = "none" /\ AliveAs(notes[n].tid, notes[n].gen)

MayFail == faults.other < MaxFailures
Count == [faults EXCEPT !.other = @ + 1]

\* Where a judge goes, and with which pins.
JudgeTo(j, pc, pins) == judge' = [judge EXCEPT ![j].pc = pc, ![j].pins = pins]
Step(j, pc) == judge' = [judge EXCEPT ![j].pc = pc]
DenyCall(j) == judge' = [judge EXCEPT ![j] = [IdleJudge EXCEPT !.pc = "record", !.note = judge[j].note]]

(***************************************************************************)
(* Sizing the pool.                                                        *)
(***************************************************************************)
cache_cap_within(configured, nofile) ==
  IF configured = 0 THEN 0
  ELSE LET budget == IF nofile < FD_HEADROOM THEN 0 ELSE (nofile - FD_HEADROOM) \div 3
       IN  IF configured < budget THEN configured ELSE budget

cache_cap == cache_cap_within(CacheMax, NoFile)

per_thread_cache ==
  IF Cardinality(Judges) = 1 THEN cache_cap
  ELSE LET share == cache_cap \div Cardinality(Judges) IN IF share > 1 THEN share ELSE 1

(***************************************************************************)
(* serve(): bind, accept one peer, receive one descriptor, start the pool. *)
(***************************************************************************)
BrokerInit ==
  /\ serve = "bind" /\ crun = "starting"
  /\ tasks = [tid \in Tids |-> [gen |-> 0, up |-> FALSE]]
  /\ notes = <<>>
  /\ judge = [j \in Judges |-> IdleJudge]
  /\ cache = [j \in Judges |-> [pins |-> <<>>, order |-> <<>>]]
  /\ log = [state |-> "closed", lines |-> <<>>, seq |-> 0, marker |-> FALSE, incomplete |-> FALSE]
  /\ result = [pc |-> "waiting", flagged |-> FALSE, seen |-> {}]
  /\ faults = [other |-> 0, poll |-> 0]

ServeBind ==
  /\ serve = "bind"
  /\ \/ serve' = "accept" /\ UNCHANGED faults
     \/ MayFail /\ serve' = "ended" /\ faults' = Count
  /\ UNCHANGED <<crun, tasks, notes, judge, cache, log, result>>

\* crun connects while the container is created; without a listener it fails.
CrunConnect ==
  /\ crun = "starting" /\ CrunConnects
  /\ crun' = IF serve = "accept" THEN "connected" ELSE "failed"
  /\ UNCHANGED <<serve, tasks, notes, judge, cache, log, result, faults>>

\* crun gives the container up before it reaches the hand-off.
CrunGivesUp ==
  /\ crun = "starting"
  /\ crun' = "failed"
  /\ UNCHANGED <<serve, tasks, notes, judge, cache, log, result, faults>>

\* The peer's uid must be ours; only then the read is bounded by a timeout.
ServeAccept ==
  /\ serve = "accept" /\ crun \in {"connected", "sent"}
  /\ \/ serve' = "recv_fd" /\ UNCHANGED faults
     \/ MayFail /\ serve' = "ended" /\ faults' = Count
  /\ UNCHANGED <<crun, tasks, notes, judge, cache, log, result>>

CrunSends ==
  /\ crun = "connected"
  /\ \/ crun' = "sent" /\ UNCHANGED faults
     \/ MayFail /\ crun' = "failed" /\ faults' = Count
  /\ UNCHANGED <<serve, tasks, notes, judge, cache, log, result>>

\* DecisionLog::open after the marker was made: the log may stay unusable.
OpenedLog(l) ==
  {[l EXCEPT !.state = "open", !.marker = TRUE]}
    \cup (IF MayFail THEN {[l EXCEPT !.state = "disabled", !.marker = TRUE]} ELSE {})

\* The container's first thread, once crun has handed the descriptor over.
Started == tasks' = [tasks EXCEPT ![CHOOSE t \in Tids : TRUE] = [gen |-> 1, up |-> TRUE]]

\* recv_fd refuses a malformed hand-off or times out; otherwise the log is
\* opened and every judge starts.
ServeRecvFd ==
  /\ serve = "recv_fd"
  /\ \/ /\ crun = "sent" /\ serve' = "pool"
        /\ log' \in OpenedLog(log)
        /\ faults' = IF log'.state = "disabled" THEN Count ELSE faults
        /\ judge' = [j \in Judges |-> [IdleJudge EXCEPT !.pc = "recv"]]
        /\ Started
     \/ /\ crun = "failed" \/ (crun = "sent" /\ MayFail)
        /\ serve' = "ended"
        /\ faults' = IF crun = "sent" THEN Count ELSE faults
        /\ IF crun = "sent" THEN Started ELSE UNCHANGED tasks
        /\ UNCHANGED <<log, judge>>
  /\ UNCHANGED <<crun, notes, cache, result>>

(***************************************************************************)
(* The workload: threads come, call, die and are replaced.                 *)
(***************************************************************************)
Spawn(tid) ==
  /\ Running /\ ~tasks[tid].up /\ tasks[tid].gen < MaxGen
  /\ tasks' = [tasks EXCEPT ![tid] = [gen |-> @.gen + 1, up |-> TRUE]]
  /\ UNCHANGED <<serve, crun, notes, judge, cache, log, result, faults>>

Suspended(tid) == \E n \in DOMAIN notes : notes[n].tid = tid /\ Valid(n)

Call(tid) ==
  /\ tasks[tid].up /\ ~Suspended(tid) /\ Len(notes) < MaxCalls
  /\ \E path \in Paths, ok \in BOOLEAN :
       notes' = Append(notes, [tid |-> tid, gen |-> tasks[tid].gen, path |-> path, ok |-> ok,
                               taken |-> FALSE, answer |-> "none", from |-> 0, named |-> ""])
  /\ UNCHANGED <<serve, crun, tasks, judge, cache, log, result, faults>>

Die(tid) ==
  /\ tasks[tid].up
  /\ tasks' = [tasks EXCEPT ![tid].up = FALSE]
  /\ UNCHANGED <<serve, crun, notes, judge, cache, log, result, faults>>

\* The last listener is gone: the kernel answers what is pending with ENOSYS.
ListenerReleased ==
  /\ serve = "ended" /\ \A j \in Judges : judge[j].pc = "off"
  /\ \E n \in DOMAIN notes :
       /\ Valid(n)
       /\ notes' = [notes EXCEPT ![n].answer = "ENOSYS"]
  /\ UNCHANGED <<serve, crun, tasks, judge, cache, log, result, faults>>

(***************************************************************************)
(* judge_loop: one notification at a time.                                 *)
(***************************************************************************)
Recv(j) ==
  /\ judge[j].pc = "recv"
  /\ \E n \in DOMAIN notes :
       /\ Valid(n) /\ ~notes[n].taken
       /\ \A k \in 1 .. n - 1 : Valid(k) => notes[k].taken
       /\ notes' = [notes EXCEPT ![n].taken = TRUE]
       /\ judge' = [judge EXCEPT ![j] = [IdleJudge EXCEPT !.pc = "for_task", !.note = n]]
  /\ UNCHANGED <<serve, crun, tasks, cache, log, result, faults>>

\* RECV ends the thread when the container is gone, or on an error it takes
\* for that.
RecvEnds(j) ==
  /\ judge[j].pc = "recv"
  /\ \/ ~Running /\ UNCHANGED faults
     \/ Running /\ MayFail /\ faults' = Count
  /\ judge' = [judge EXCEPT ![j] = IdleJudge]
  /\ UNCHANGED <<serve, crun, tasks, notes, cache, log, result>>

Cached(j) == cache[j].pins
Without(pins, tid) == [t \in DOMAIN pins \ {tid} |-> pins[t]]

\* The outcomes of polling a cached pidfd: a poll that fails reads as alive.
alive(j, tid) ==
  IF AliveAs(tid, Cached(j)[tid].pidfd) THEN {"alive"}
  ELSE {"dead"} \cup (IF faults.poll < MaxPollErrors THEN {"poll_error"} ELSE {})

\* for_task, a live cached pin.
ForTaskCached(j) ==
  LET tid == Note(j).tid
  IN  /\ judge[j].pc = "for_task" /\ tid \in DOMAIN Cached(j)
      /\ \E answer \in alive(j, tid) \ {"dead"} :
           /\ faults' = [faults EXCEPT !.poll = @ + IF answer = "poll_error" THEN 1 ELSE 0]
           /\ JudgeTo(j, "id_valid", Cached(j)[tid])
      /\ UNCHANGED <<serve, crun, tasks, notes, cache, log, result>>

\* Evict the oldest entries of order until one more pin fits.
EvictTo(c, room) ==
  LET Fits(k) == Cardinality(DOMAIN c.pins \ {c.order[i] : i \in 1 .. k}) < room
      ks == {k \in 0 .. Len(c.order) : Fits(k) \/ k = Len(c.order)}
      k == CHOOSE x \in ks : \A y \in ks : x <= y
  IN  [pins |-> [t \in DOMAIN c.pins \ {c.order[i] : i \in 1 .. k} |-> c.pins[t]],
       order |-> SubSeq(c.order, k + 1, Len(c.order))]

\* for_task, no live pin: the dead one is dropped, room is made, the task is
\* pinned, which fails when it is gone.
ForTaskCold(j) ==
  LET tid == Note(j).tid
      rest == [cache[j] EXCEPT !.pins = Without(@, tid)]
  IN  /\ judge[j].pc = "for_task"
      /\ tid \in DOMAIN Cached(j) => "dead" \in alive(j, tid)
      /\ cache' = [cache EXCEPT ![j] = IF per_thread_cache = 0 THEN rest
                                       ELSE EvictTo(rest, per_thread_cache)]
      /\ \/ tasks[tid].up /\ JudgeTo(j, "open_mem", [NoPins EXCEPT !.pidfd = tasks[tid].gen])
            /\ UNCHANGED faults
         \/ ~tasks[tid].up /\ DenyCall(j) /\ UNCHANGED faults
         \/ tasks[tid].up /\ MayFail /\ DenyCall(j) /\ faults' = Count
      /\ UNCHANGED <<serve, crun, tasks, notes, log, result>>

\* /proc/<tid>/mem and /proc/<tid>/root name whoever has the id by then.
OpenMem(j) ==
  LET tid == Note(j).tid
  IN  /\ judge[j].pc = "open_mem"
      /\ IF tasks[tid].up THEN JudgeTo(j, "open_root", [judge[j].pins EXCEPT !.mem = tasks[tid].gen])
                          ELSE DenyCall(j)
      /\ UNCHANGED <<serve, crun, tasks, notes, cache, log, result, faults>>

OpenRoot(j) ==
  LET tid == Note(j).tid
      pins == [judge[j].pins EXCEPT !.root = tasks[tid].gen]
  IN  /\ judge[j].pc = "open_root"
      /\ IF tasks[tid].up
         THEN /\ JudgeTo(j, "id_valid", pins)
              /\ cache' = IF per_thread_cache = 0 THEN cache
                          ELSE [cache EXCEPT ![j] =
                                  [pins |-> [t \in DOMAIN @.pins \cup {tid} |->
                                               IF t = tid THEN pins ELSE @.pins[t]],
                                   order |-> Append(@.order, tid)]]
         ELSE DenyCall(j) /\ UNCHANGED cache
      /\ UNCHANGED <<serve, crun, tasks, notes, log, result, faults>>

\* A mutant: the pins are trusted without asking whether the task still waits.
IdUnchecked(j) ==
  /\ judge[j].pc = "id_valid"
  /\ Step(j, "read")
  /\ UNCHANGED <<serve, crun, tasks, notes, cache, log, result, faults>>

IdValid(j) ==
  /\ judge[j].pc = "id_valid"
  /\ IF Valid(judge[j].note) THEN Step(j, "read") ELSE DenyCall(j)
  /\ UNCHANGED <<serve, crun, tasks, notes, cache, log, result, faults>>

\* The arguments are read once, from the pinned memory, into this judge's own
\* buffer; the memory of a dead task reads as nothing.  Then they are classified.
ReadAndClassify(j) ==
  /\ judge[j].pc = "read"
  /\ IF ~AliveAs(Note(j).tid, judge[j].pins.mem) THEN DenyCall(j)
     ELSE IF ~Note(j).ok THEN DenyCall(j)
     ELSE judge' = [judge EXCEPT ![j].pc = "open", ![j].path = Note(j).path]
  /\ UNCHANGED <<serve, crun, tasks, notes, cache, log, result, faults>>

\* open_for_target resolves the path under the pinned root.
OpenForTarget(j) ==
  /\ judge[j].pc = "open"
  /\ \/ /\ judge' = [judge EXCEPT ![j].pc = "addfd", ![j].grant = TRUE,
                                   ![j].opened = judge[j].pins.root, ![j].pins = NoPins]
        /\ UNCHANGED faults
     \/ MayFail /\ DenyCall(j) /\ faults' = Count
  /\ UNCHANGED <<serve, crun, tasks, notes, cache, log, result>>

\* A mutant: the panic ends the thread and the call stays suspended.
PanicUncaught(j) ==
  /\ judge[j].pc \in {"for_task", "open_mem", "open_root", "id_valid", "read", "open"}
  /\ MayFail /\ faults' = Count
  /\ judge' = [judge EXCEPT ![j] = IdleJudge]
  /\ UNCHANGED <<serve, crun, tasks, notes, cache, log, result>>

\* catch_unwind: a panic anywhere in judge becomes a denial.
JudgePanics(j) ==
  /\ judge[j].pc \in {"for_task", "open_mem", "open_root", "id_valid", "read", "open"}
  /\ MayFail /\ faults' = Count /\ DenyCall(j)
  /\ UNCHANGED <<serve, crun, tasks, notes, cache, log, result>>

\* respond: ADDFD checks the notification again.
AddFd(j) ==
  /\ judge[j].pc = "addfd"
  /\ \/ Valid(judge[j].note) /\ Step(j, "record") /\ UNCHANGED faults
     \/ ~Valid(judge[j].note) /\ DenyCall(j) /\ UNCHANGED faults
     \/ Valid(judge[j].note) /\ MayFail /\ DenyCall(j) /\ faults' = Count
  /\ UNCHANGED <<serve, crun, tasks, notes, cache, log, result>>

\* BoundedLog::write of one whole record.
write_line(l, line) ==
  IF Len(l.lines) >= LogLimit THEN {[l EXCEPT !.incomplete = TRUE]}
  ELSE {[l EXCEPT !.lines = Append(@, line)]}
         \cup (IF MayFail THEN {[l EXCEPT !.incomplete = TRUE, !.state = "disabled"]} ELSE {})

\* record, under the lock: one line with the final outcome.
Record(j) ==
  /\ judge[j].pc = "record"
  /\ IF log.state # "open" THEN UNCHANGED <<log, faults>>
     ELSE /\ log' \in write_line([log EXCEPT !.seq = @ + 1],
                            [seq |-> log.seq + 1, note |-> judge[j].note, granted |-> judge[j].grant])
          /\ faults' = IF log'.state = "disabled" THEN Count ELSE faults
  /\ Step(j, "send")
  /\ UNCHANGED <<serve, crun, tasks, notes, cache, result>>

\* SEND: the caller gets the descriptor or the negated errno; a task that is
\* gone is no error.
Send(j) ==
  LET n == judge[j].note
  IN  /\ judge[j].pc = "send"
      /\ notes' = IF Valid(n)
                  THEN [notes EXCEPT ![n].answer = IF judge[j].grant THEN "fd" ELSE "denied",
                                     ![n].from = judge[j].opened, ![n].named = judge[j].path]
                  ELSE notes
      /\ judge' = [judge EXCEPT ![j] = [IdleJudge EXCEPT !.pc = "recv"]]
      /\ UNCHANGED <<serve, crun, tasks, cache, log, result, faults>>

\* serve joins its judges; with the last of them the log is dropped.
ServeEnds ==
  /\ serve = "pool" /\ \A j \in Judges : judge[j].pc = "off"
  /\ serve' = "ended"
  /\ log' = IF log.state = "closed" THEN log
            ELSE [log EXCEPT !.state = "closed",
                             !.marker = log.incomplete \/ log.state = "disabled"]
  /\ UNCHANGED <<crun, tasks, notes, judge, cache, result, faults>>

(***************************************************************************)
(* The daemon reads the decisions once the workload is gone                *)
(* (rauhad/src/broker_events.rs): the marker first, then the lines.        *)
(***************************************************************************)

ReadMarker ==
  /\ result.pc = "waiting" /\ crun = "sent" /\ ~Running
  /\ serve \in {"pool", "ended"}
  /\ result' = [result EXCEPT !.pc = "marked", !.flagged = log.marker]
  /\ UNCHANGED <<serve, crun, tasks, notes, judge, cache, log, faults>>

read_decisions_capped ==
  /\ result.pc = "marked"
  /\ result' = [result EXCEPT !.pc = "read", !.seen = {log.lines[i] : i \in DOMAIN log.lines}]
  /\ UNCHANGED <<serve, crun, tasks, notes, judge, cache, log, faults>>

Workload == (\E tid \in Tids : Spawn(tid) \/ Call(tid) \/ Die(tid)) \/ ListenerReleased

JudgeStep(j) ==
  \/ Recv(j) \/ RecvEnds(j) \/ ForTaskCached(j) \/ ForTaskCold(j) \/ OpenMem(j) \/ OpenRoot(j)
  \/ IdValid(j) \/ ReadAndClassify(j) \/ OpenForTarget(j) \/ JudgePanics(j)
  \/ AddFd(j) \/ Record(j) \/ Send(j)

ServeStep == ServeBind \/ ServeAccept \/ ServeRecvFd \/ ServeEnds
CrunStep == CrunConnect \/ CrunGivesUp \/ CrunSends
ReaderStep == ReadMarker \/ read_decisions_capped

BrokerNext == ServeStep \/ CrunStep \/ Workload \/ (\E j \in Judges : JudgeStep(j)) \/ ReaderStep

BrokerSpec == BrokerInit /\ [][BrokerNext]_brokerVars

(***************************************************************************)
(* Properties                                                              *)
(***************************************************************************)

\* The pieces of the state have the shapes the code gives them, and no cache
\* holds more pins than its capacity.
BrokerTypeOK ==
  /\ serve \in {"bind", "accept", "recv_fd", "pool", "ended"}
  /\ crun \in {"starting", "connected", "sent", "failed"}
  /\ log.seq \in Nat /\ log.state \in {"closed", "open", "disabled"}
  /\ \A j \in Judges : /\ DOMAIN Cached(j) \subseteq Tids
                       /\ Cardinality(DOMAIN Cached(j)) <= per_thread_cache
                       /\ judge[j].note \in 0 .. Len(notes)

\* Once the notification was found valid, the memory and the root a judge
\* works with are those of the very task that made the call, although thread
\* ids are reused and pins are cached (the race protocol of mod.rs and the
\* liveness test of pins.rs).
PinsBelongToCaller ==
  \A j \in Judges :
    judge[j].pc \in {"read", "open"} =>
      judge[j].pins = [pidfd |-> Note(j).gen, mem |-> Note(j).gen, root |-> Note(j).gen]

\* A descriptor is injected only for a call the classifier granted, was
\* opened for the path this call named and in the root of this caller, even
\* with several judges at work.
InjectedAnswersTheCall ==
  \A n \in DOMAIN notes :
    notes[n].answer = "fd" =>
      notes[n].ok /\ notes[n].from = notes[n].gen /\ notes[n].named = notes[n].path

\* The queue of a cache names every task it pins: an entry that left the
\* queue could never be evicted, and the eviction loop would give up.
EveryPinEvictable ==
  \A j \in Judges : DOMAIN Cached(j) \subseteq Range(cache[j].order)

\* What the daemon attaches to a result is complete or flagged: without the
\* issue broker.storage_incomplete, every answered call has its one line, with
\* the outcome the caller saw (output.rs, decision.rs, broker_events.rs).
DecisionsCompleteOrFlagged ==
  result.pc = "read" /\ ~result.flagged =>
    \A n \in DOMAIN notes :
      notes[n].answer \in {"fd", "denied"} =>
        /\ Cardinality({l \in result.seen : l.note = n}) = 1
        /\ \A l \in result.seen : l.note = n => (l.granted <=> notes[n].answer = "fd")

\* The log is in judgment order: the numbers rise, and only lines that did not
\* fit are missing.
LogInOrder ==
  \A i \in DOMAIN log.lines :
    /\ i > 1 => log.lines[i].seq > log.lines[i - 1].seq
    /\ ~log.incomplete => log.lines[i].seq = i

\* The five together. A poll of a cached pidfd that fails reads as alive, so
\* whose memory and root a judge holds is only known while no poll failed.
JudgmentsFaithful ==
  /\ BrokerTypeOK /\ EveryPinEvictable /\ LogInOrder /\ DecisionsCompleteOrFlagged
  /\ faults.poll = 0 => PinsBelongToCaller /\ InjectedAnswersTheCall
=============================================================================
