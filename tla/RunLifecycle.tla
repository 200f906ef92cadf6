---------------------------- MODULE RunLifecycle ----------------------------
(***************************************************************************)
(* The lifecycle of a Run: `reduce', and the caller that records what it   *)
(* accepts.  A refused event changes nothing; an unknown one is recorded   *)
(* as a marker.  "none" is the state before run.created.                   *)
(***************************************************************************)
EXTENDS Naturals, Sequences, FiniteSets

CONSTANTS
    Kinds,     \* the event kinds submitted, catalogued or not
    MaxEvents  \* bound on the events recorded

VARIABLES
    state,     \* lifecycle state of the Run
    journal    \* events recorded, each with its emitter

vars == <<state, journal>>

Emitters == {"supervisor", "custodian", "broker", "reducer"}
Terminal == {"accepted", "discarded"}
Open     == {"preparing", "running", "waiting", "frozen", "delegated",
             "proving", "review"}
States   == {"none"} \cup Open \cup Terminal

-----------------------------------------------------------------------------
Step(source, from, to) == [source |-> source, from |-> from, to |-> to]

LifecycleKinds == {"run.created", "sandbox.ready", "run.waiting", "run.resumed",
                   "run.frozen", "run.delegated", "proof.started",
                   "proof.finished", "run.accepted", "run.discarded"}

\* Who may emit a lifecycle event, in which states, and where it leads.
Rule(k) ==
    CASE k = "run.created"    -> Step("supervisor", {"none"}, "preparing")
      [] k = "sandbox.ready"  -> Step("custodian", {"preparing"}, "running")
      [] k = "run.waiting"    -> Step("supervisor", {"running"}, "waiting")
      [] k = "run.resumed"    -> Step("supervisor", {"waiting", "frozen", "delegated"},
                                      "running")
      [] k = "run.frozen"     -> Step("custodian", Open \ {"frozen", "review"}, "frozen")
      [] k = "run.delegated"  -> Step("supervisor", {"running", "waiting"}, "delegated")
      [] k = "proof.started"  -> Step("supervisor", {"running", "waiting", "delegated"},
                                      "proving")
      [] k = "proof.finished" -> Step("supervisor", {"proving"}, "review")
      [] k = "run.accepted"   -> Step("supervisor", {"review"}, "accepted")
      [] k = "run.discarded"  -> Step("supervisor", Open, "discarded")

CustodianNotes == {"supervisor.claimed", "supervisor.released",
                   "sandbox.materialized", "sandbox.destroyed",
                   "capability.granted", "capability.revoked",
                   "checkpoint.sealed", "witness.attached",
                   "witness.observation", "witness.loss", "receipt.sealed",
                   "journal.compacted"}
BrokerNotes == {"effect.requested", "effect.executing", "effect.succeeded",
                "effect.failed", "effect.uncertain", "effect.reconciled"}
SupervisorNotes == {"effect.authorized", "child.finished", "human.asked",
                    "human.answered"}

\* Mutant: markers are taken from the custodian.
NotedByCustodian(k) ==
    CASE k \in CustodianNotes  -> {"custodian"}
      [] k \in BrokerNotes     -> {"broker"}
      [] k \in SupervisorNotes -> {"supervisor"}
      [] k = "journal.unknown_event" -> {"custodian"}
      [] OTHER -> {}

\* Who may record an event that leaves the state alone.
NotedBy(k) ==
    CASE k \in CustodianNotes  -> {"custodian"}
      [] k \in BrokerNotes     -> {"broker"}
      [] k \in SupervisorNotes -> {"supervisor"}
      [] k = "journal.unknown_event" -> {"reducer"}
      [] OTHER -> {}

Refused    == [ok |-> FALSE, state |-> "none", unknown |-> FALSE]
Accept(s)  == [ok |-> TRUE, state |-> s, unknown |-> FALSE]
Unknown(s) == [ok |-> TRUE, state |-> s, unknown |-> TRUE]

\* Mutant: the state an event starts from is not checked.
reduceAnywhere(s, k, em) ==
    IF s \in Terminal /\ k \notin {"receipt.sealed", "journal.compacted"}
      THEN Refused
    ELSE IF k \in LifecycleKinds
      THEN IF em = Rule(k).source THEN Accept(Rule(k).to) ELSE Refused
    ELSE IF NotedBy(k) = {} THEN Unknown(s)
    ELSE IF em \in NotedBy(k) /\ s # "none" THEN Accept(s) ELSE Refused

\* Mutant: nothing is special about a terminal state.
reduceOpenEnded(s, k, em) ==
    IF k \in LifecycleKinds
      THEN IF s \in Rule(k).from /\ em = Rule(k).source THEN Accept(Rule(k).to)
                                                        ELSE Refused
    ELSE IF NotedBy(k) = {} THEN Unknown(s)
    ELSE IF em \in NotedBy(k) /\ s # "none" THEN Accept(s) ELSE Refused

\* Mutant: an unknown event takes the Run back to no state.
reduceResets(s, k, em) ==
    IF s \in Terminal /\ k \notin {"receipt.sealed", "journal.compacted"}
      THEN Refused
    ELSE IF k \in LifecycleKinds
      THEN IF s \in Rule(k).from /\ em = Rule(k).source THEN Accept(Rule(k).to)
                                                        ELSE Refused
    ELSE IF NotedBy(k) = {} THEN Unknown("none")
    ELSE IF em \in NotedBy(k) /\ s # "none" THEN Accept(s) ELSE Refused

reduce(s, k, em) ==
    IF s \in Terminal /\ k \notin {"receipt.sealed", "journal.compacted"}
      THEN Refused
    ELSE IF k \in LifecycleKinds
      THEN IF s \in Rule(k).from /\ em = Rule(k).source THEN Accept(Rule(k).to)
                                                        ELSE Refused
    ELSE IF NotedBy(k) = {} THEN Unknown(s)
    ELSE IF em \in NotedBy(k) /\ s # "none" THEN Accept(s) ELSE Refused

-----------------------------------------------------------------------------
(* The caller: it records what is accepted, and a marker for the unknown.  *)

Marker == [kind |-> "journal.unknown_event", emitter |-> "reducer"]

Init == state = "none" /\ journal = <<>>

Submit(k, em) ==
    LET r == reduce(state, k, em) IN
    /\ Len(journal) < MaxEvents
    /\ r.ok
    /\ state' = r.state
    /\ journal' = Append(journal, IF r.unknown THEN Marker
                                  ELSE [kind |-> k, emitter |-> em])

Next == \E k \in Kinds, em \in Emitters : Submit(k, em)

Spec == Init /\ [][Next]_vars

-----------------------------------------------------------------------------
(* Properties.                                                             *)

Catalogue == LifecycleKinds \cup CustodianNotes \cup BrokerNotes
             \cup SupervisorNotes \cup {"journal.unknown_event"}

\* "A future event must be surfaced as unknown": only catalogued kinds are
\* recorded.
TypeOK ==
    /\ state \in States
    /\ journal \in Seq([kind: Catalogue, emitter: Emitters])

Moves == {i \in 1..Len(journal) : journal[i].kind \in LifecycleKinds}

\* RP-1, every state transition is a journal event: the state is the one the
\* last lifecycle event in the journal leads to, and only catalogued kinds are
\* in the journal.
StateFollowsJournal ==
    /\ TypeOK
    /\ IF Moves = {} THEN state = "none"
       ELSE \E i \in Moves : /\ \A j \in Moves : j =< i
                             /\ state = Rule(journal[i].kind).to

\* A Run is accepted only on a proof that ran to its end: proof.started,
\* proof.finished and run.accepted follow one another with no other lifecycle
\* event, a freeze included, between them.
AcceptedWasProved ==
    \A k \in Moves : journal[k].kind = "run.accepted" =>
        \E i, j \in Moves :
            /\ i < j /\ j < k
            /\ journal[i].kind = "proof.started"
            /\ journal[j].kind = "proof.finished"
            /\ \A m \in Moves : i =< m /\ m =< k => m \in {i, j, k}

\* A Run begins once: run.created comes before every other lifecycle event,
\* and neither it nor sandbox.ready comes twice.
BeginsOnce ==
    /\ \A i, j \in Moves :
         /\ journal[i].kind = journal[j].kind
         /\ journal[i].kind \in {"run.created", "sandbox.ready"}
         => i = j
    /\ \A i \in Moves : (\A j \in Moves : i =< j) => journal[i].kind = "run.created"

\* RP-3: accepted and discarded are final, and only receipt.sealed and
\* journal.compacted are recorded after them.
TerminalIsFinal ==
    [][(state \in Terminal) =>
         /\ state' = state
         /\ journal'[Len(journal')].kind \in {"receipt.sealed", "journal.compacted"}]_vars

Replayed(i) ==
    IF \A j \in 1..(i - 1) : journal[j].kind \notin LifecycleKinds THEN "none"
    ELSE LET last == CHOOSE j \in Moves : /\ j < i
                                          /\ \A m \in Moves : m < i => m =< j
         IN  Rule(journal[last].kind).to

\* RP-2 and "replaying that marker never produces another marker": every
\* recorded event is accepted again when the journal is replayed, and none as
\* unknown.
JournalReplays ==
    \A i \in 1..Len(journal) :
        LET r == reduce(Replayed(i), journal[i].kind, journal[i].emitter)
        IN  r.ok /\ ~r.unknown

\* The same, of a journal that starts with run.created.
CreatedRunReplays ==
    journal # <<>> /\ journal[1].kind = "run.created" => JournalReplays

=============================================================================
