------------------------- MODULE ContainerContract -------------------------
(***************************************************************************)
(* What the zone shim promises of its containers                           *)
(* (rauha-shim/src/state.rs): the life of a container, whoever asks for    *)
(* what and whatever fails.                                                *)
(***************************************************************************)
CONSTANT Containers

VARIABLES st,      \* absent, created, running, exited (not yet seen) or stopped
          alive    \* the containers whose workload runs

vars == <<st, alive>>

Init == st = [c \in Containers |-> "absent"] /\ alive = {}

Move(c, from, to) == st[c] \in from /\ st' = [st EXCEPT ![c] = to]

Create(c) == Move(c, {"absent"}, "created") /\ UNCHANGED alive
Start(c) == Move(c, {"created"}, "running") /\ alive' = alive \cup {c}
Exit(c) == Move(c, {"running"}, "exited") /\ alive' = alive \ {c}
Record(c) == Move(c, {"exited"}, "stopped") /\ UNCHANGED alive
Delete(c) == Move(c, {"created", "stopped"}, "absent") /\ UNCHANGED alive

Next == \E c \in Containers : Create(c) \/ Start(c) \/ Exit(c) \/ Record(c) \/ Delete(c)

Spec == Init /\ [][Next]_vars
=============================================================================
