-------------------------- MODULE EnforcementEvents --------------------------
(***************************************************************************)
(* The way of an enforcement event from the kernel's ring buffer and the   *)
(* broker's log over the daemon-wide broadcast to a sandbox result and to  *)
(* a WatchEvents stream (backend/linux/events.rs, broker_events.rs and     *)
(* server.rs of rauhad).                                                   *)
(*                                                                         *)
(* The broadcast keeps the last ChannelCap events.  A receiver is a        *)
(* position in the sequence of all events; one that has fallen behind is   *)
(* told how many it lost and goes on with the oldest that is kept.         *)
(***************************************************************************)
EXTENDS Naturals, Sequences, FiniteSets, SequencesExt

CONSTANTS Task,        \* kernel id of the task's zone
          Zones,       \* kernel ids of all zones
          Kinds,       \* of ring buffer items: "deny", "error" or "short"
          ChannelCap,  \* 1024: capacity of the broadcast
          StreamCap,   \* 128: capacity of a WatchEvents stream
          Filter,      \* of the watcher: "all", "id" or "name" of the task's zone
          MaxItems,    \* bound on items in the ring buffer, over time
          MaxLines     \* bound on lines in the broker's log

VARIABLES ring,      \* items that were not read yet
          raised,    \* items so far; and the task's own, while it ran
          sent,      \* everything that was ever broadcast
          task,      \* where run_started_container is
          capture,   \* its subscription, and what it has drained
          log,       \* lines of broker.log
          result,    \* broker decisions in the result
          tailers,   \* offsets of the live tailers
          TAILED,    \* the container has a tailer
          starts,    \* calls of spawn_broker_tailer so far
          watch      \* a WatchEvents stream

taskVars == <<task, capture, result>>
tailVars == <<tailers, TAILED, starts>>
vars == <<ring, raised, sent, taskVars, log, tailVars, watch>>

Items == [zone : Zones, kind : Kinds]

\* The evidence made of an item.  An item that is too short has no zone, and
\* only the name of an event tells an error in the hook from a denial.
normalize_enforcement_event(item) ==
    IF item.kind = "short"
    THEN [event |-> "pipeline.shed", hook |-> "none", caller_zone |-> 0, line |-> 0]
    ELSE [event |-> IF item.kind = "error" THEN "pipeline.shed" ELSE "denied",
          hook |-> "lsm", caller_zone |-> item.zone, line |-> 0]

broker_decision_event(i) ==
    [event |-> "brokered", hook |-> "seccomp_notify", caller_zone |-> Task, line |-> i]

Send(e) == sent' = Append(sent, e)
Oldest == IF Len(sent) > ChannelCap THEN Len(sent) - ChannelCap ELSE 0

Init ==
    /\ ring = <<>> /\ raised = [all |-> 0, own |-> 0] /\ sent = <<>>
    /\ task = "created" /\ result = 0
    /\ capture = [from |-> 0, pos |-> 0, out |-> <<>>, dropped |-> 0, resolved |-> FALSE]
    /\ log = 0 /\ tailers = <<>> /\ TAILED = FALSE /\ starts = 0
    /\ watch = [open |-> FALSE, from |-> 0, pos |-> 0, hand |-> <<>>, stream |-> <<>>,
                seen |-> 0, passed |-> 0, shed |-> 0]
-----------------------------------------------------------------------------
\* A hook of some zone puts an item in the ring; the task's zone has processes
\* only while the container runs.
Raise(item) ==
    /\ raised.all < MaxItems
    /\ item.zone = Task => task = "running"
    /\ ring' = Append(ring, item)
    /\ raised' = [all |-> raised.all + 1,
                  own |-> raised.own + (IF item.zone = Task /\ item.kind # "short" THEN 1 ELSE 0)]
    /\ UNCHANGED <<sent, taskVars, log, tailVars, watch>>

\* One item of a round of the reader, which comes round every 100 ms.
drain_events ==
    /\ ring # <<>>
    /\ Send(normalize_enforcement_event(Head(ring))) /\ ring' = Tail(ring)
    /\ UNCHANGED <<raised, taskVars, log, tailVars, watch>>
-----------------------------------------------------------------------------
\* Mutant: the subscription is made once the container runs.
capture_late ==
    /\ task \in {"created", "running"} /\ capture.pos = 0 /\ capture.from = 0
    /\ IF task = "created" THEN task' = "captured" /\ UNCHANGED capture
       ELSE /\ capture' = [capture EXCEPT !.from = Len(sent), !.pos = Len(sent), !.resolved = TRUE]
            /\ UNCHANGED task
    /\ UNCHANGED <<ring, raised, sent, result, log, tailVars, watch>>

\* The subscription is made first; kernel_zone_id may find no id for the zone.
begin_enforcement_capture ==
    /\ task = "created"
    /\ task' = "captured"
    /\ \E known \in BOOLEAN : capture' =
          [capture EXCEPT !.from = Len(sent), !.pos = Len(sent), !.resolved = known]
    /\ UNCHANGED <<ring, raised, sent, result, log, tailVars, watch>>

StartContainer ==
    /\ task = "captured" /\ task' = "running"
    /\ UNCHANGED <<ring, raised, sent, capture, result, log, tailVars, watch>>

\* The broker judges a call, and writes a line.
Judge ==
    /\ task = "running" /\ log < MaxLines
    /\ log' = log + 1
    /\ UNCHANGED <<ring, raised, sent, taskVars, tailVars, watch>>

\* wait_for_exit has returned, and the decisions are read from the file.
Exit ==
    /\ task = "running" /\ task' = "drain"
    /\ result' = log
    /\ UNCHANGED <<ring, raised, sent, capture, log, tailVars, watch>>

enforcement_event_matches(e) ==
    e.hook # "seccomp_notify" /\ capture.resolved /\ e.caller_zone = Task

\* One try_recv: some events were lost, there is a next one, or there is none.
drain_enforcement_capture ==
    /\ task = "drain"
    /\ \/ /\ capture.pos < Oldest
          /\ capture' = [capture EXCEPT !.pos = Oldest, !.dropped = @ + Oldest - capture.pos]
          /\ UNCHANGED task
       \/ /\ Oldest <= capture.pos /\ capture.pos < Len(sent)
          /\ capture' = [capture EXCEPT
                !.pos = @ + 1,
                !.out = IF enforcement_event_matches(sent[capture.pos + 1])
                        THEN Append(@, capture.pos + 1) ELSE @]
          /\ UNCHANGED task
       \/ /\ capture.pos = Len(sent) /\ task' = "done" /\ UNCHANGED capture
    /\ UNCHANGED <<ring, raised, sent, result, log, tailVars, watch>>

\* The container's row is deleted.
Delete ==
    /\ task = "done" /\ task' = "gone"
    /\ UNCHANGED <<ring, raised, sent, capture, result, log, tailVars, watch>>
-----------------------------------------------------------------------------

\* A start, or its retry: one tailer per container, and none when the zone
\* brokers nothing.
spawn_broker_tailer ==
    /\ starts < 2 /\ task \in {"running", "drain", "done"}
    /\ starts' = starts + 1
    /\ \/ ~TAILED /\ TAILED' = TRUE /\ tailers' = Append(tailers, 0)
       \/ UNCHANGED <<TAILED, tailers>>
    /\ UNCHANGED <<ring, raised, sent, taskVars, log, watch>>

\* The next complete line of the log.
TailLine(i) ==
    /\ tailers[i] < log
    /\ Send(broker_decision_event(tailers[i] + 1))
    /\ tailers' = [tailers EXCEPT ![i] = @ + 1]
    /\ UNCHANGED <<ring, raised, taskVars, log, TAILED, starts, watch>>

\* The check comes after a read.
TailerStops(i) ==
    /\ task = "gone" /\ tailers[i] = log
    /\ tailers' = RemoveAt(tailers, i) /\ TAILED' = FALSE
    /\ UNCHANGED <<ring, raised, sent, taskVars, log, starts, watch>>
-----------------------------------------------------------------------------
watch_events ==
    /\ ~watch.open /\ watch.from = 0 /\ watch.pos = 0
    /\ watch' = [watch EXCEPT !.open = TRUE, !.from = Len(sent), !.pos = Len(sent)]
    /\ UNCHANGED <<ring, raised, sent, taskVars, log, tailVars>>

\* No event has the name of its zone.
passes_filter(e) ==
    \/ Filter = "all"
    \/ Filter = "id" /\ e.caller_zone = Task

\* recv: an event, or the number of events that were lost.
WatchReceive ==
    /\ watch.open /\ watch.hand = <<>> /\ watch.pos < Len(sent)
    /\ watch' =
         IF watch.pos < Oldest
         THEN [watch EXCEPT !.pos = Oldest,
                            !.hand = <<[at |-> 0, lost |-> Oldest - watch.pos]>>]
         ELSE IF passes_filter(sent[watch.pos + 1])
         THEN [watch EXCEPT !.pos = @ + 1, !.hand = <<[at |-> watch.pos + 1, lost |-> 0]>>]
         ELSE [watch EXCEPT !.pos = @ + 1, !.passed = @ + 1]
    /\ UNCHANGED <<ring, raised, sent, taskVars, log, tailVars>>

\* The send waits for room in the stream.
WatchSend ==
    /\ watch.hand # <<>> /\ Len(watch.stream) < StreamCap
    /\ watch' = [watch EXCEPT !.stream = @ \o watch.hand, !.hand = <<>>]
    /\ UNCHANGED <<ring, raised, sent, taskVars, log, tailVars>>

\* The client takes a message.
ClientReads ==
    /\ watch.stream # <<>>
    /\ watch' = [watch EXCEPT !.stream = Tail(@),
                              !.seen = @ + (IF Head(watch.stream).at # 0 THEN 1 ELSE 0),
                              !.shed = @ + Head(watch.stream).lost]
    /\ UNCHANGED <<ring, raised, sent, taskVars, log, tailVars>>

\* The client goes away: its task ends at the next send.
ClientLeaves ==
    /\ watch.open
    /\ watch' = [watch EXCEPT !.open = FALSE, !.hand = <<>>, !.stream = <<>>]
    /\ UNCHANGED <<ring, raised, sent, taskVars, log, tailVars>>

TaskSteps ==
    \/ begin_enforcement_capture \/ StartContainer \/ Judge \/ Exit
    \/ drain_enforcement_capture \/ Delete

Next ==
    \/ \E item \in Items : Raise(item)
    \/ drain_events
    \/ TaskSteps
    \/ spawn_broker_tailer
    \/ \E i \in DOMAIN tailers : TailLine(i) \/ TailerStops(i)
    \/ watch_events \/ WatchReceive \/ WatchSend \/ ClientReads \/ ClientLeaves

Spec == Init /\ [][Next]_vars

-----------------------------------------------------------------------------
Own(e) == e.hook = "lsm" /\ e.caller_zone = Task

\* The state has its type.
TypeOK ==
    /\ ring \in Seq(Items) /\ raised.own <= raised.all /\ raised.all <= MaxItems
    /\ \A i \in DOMAIN sent : sent[i].line <= log
    /\ task \in {"created", "captured", "running", "drain", "done", "gone"}
    /\ capture.from <= capture.pos /\ capture.pos <= Len(sent)
    /\ log <= MaxLines /\ Len(watch.stream) <= StreamCap

\* A broker decision is in the result once, through the file, and never a
\* second time through the broadcast; nothing of another zone is in it.
ResultIsOwn ==
    \A i \in DOMAIN capture.out : Own(sent[capture.out[i]])

\* What was broadcast since the container could run, and is the task's own, is
\* in the result or among the dropped ones that the result counts.
BroadcastIsAccounted ==
    task \in {"done", "gone"} /\ capture.resolved =>
        Len(capture.out) + capture.dropped
            >= Cardinality({i \in 1..capture.pos : Own(sent[i])})

\* Every decision of the broker is broadcast at most once, although starts
\* are retried.
DecisionsOnce ==
    \A i, j \in DOMAIN sent : sent[i].line # 0 /\ sent[i].line = sent[j].line => i = j

\* A watcher is given, or told it has lost, everything since it subscribed.
WatchIsAccounted ==
    watch.open => watch.seen + watch.passed + watch.shed
        + FoldSeq(LAMBDA r, n : n + r.lost + (IF r.at # 0 THEN 1 ELSE 0), 0,
                  watch.stream \o watch.hand)
    = watch.pos - watch.from

\* A watcher of one zone that has read everything, and was told of no loss, has
\* seen the events of that zone.
FilteredSeesZone ==
    (watch.open /\ watch.pos = Len(sent) /\ watch.stream = <<>> /\ watch.hand = <<>>
       /\ watch.shed = 0) =>
        watch.seen >= Cardinality({i \in watch.from + 1..Len(sent) : Own(sent[i])})
=============================================================================
