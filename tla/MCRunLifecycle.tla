--------------------------- MODULE MCRunLifecycle ---------------------------
(***************************************************************************)
(* Every lifecycle event, one note of each emitter, the two events a       *)
(* terminal Run still takes, the marker, and a kind outside the catalogue. *)
(***************************************************************************)
EXTENDS RunLifecycle

MCKinds == LifecycleKinds \cup
           {"receipt.sealed", "journal.compacted", "effect.requested",
            "child.finished", "journal.unknown_event", "run.future"}

=============================================================================
