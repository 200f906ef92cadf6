---------------------------- MODULE CommittedLog ----------------------------
(***************************************************************************)
(* What the run journal promises its callers: one append-only sequence.    *)
(* An event that was asked for enters it at most once; an event that has   *)
(* entered never changes, moves or leaves, whatever fails.                 *)
(***************************************************************************)
EXTENDS Naturals, Sequences

CONSTANT Events

VARIABLES log, asked

Init == log = <<>> /\ asked = {}

Ask(e) ==
    /\ e \notin asked
    /\ asked' = asked \cup {e}
    /\ UNCHANGED log

Commit(e) ==
    /\ e \in asked
    /\ \A i \in 1..Len(log) : log[i] # e
    /\ log' = Append(log, e)
    /\ UNCHANGED asked

Next == \E e \in Events : Ask(e) \/ Commit(e)

Spec == Init /\ [][Next]_<<log, asked>>

=============================================================================
