--------------------------- MODULE EnforcerContract ---------------------------
(***************************************************************************)
(* What the EnforcerBackend trait promises of zones and membership         *)
(* (rauha-enforcer-api/src/lib.rs): zones are registered under an id that  *)
(* is never given out twice, containers are members of registered zones,   *)
(* and removing a zone evicts its members.                                 *)
(***************************************************************************)
EXTENDS Naturals

CONSTANTS Names, Containers

VARIABLES up,       \* the backend is loaded
          zones,    \* registered names, each with its id; 0: not registered
          members,  \* the zone of each container, or "none"
          last      \* the id given out last

vars == <<up, zones, members, last>>

NoZones == [n \in Names |-> 0]
NoMembers == [c \in Containers |-> "none"]

Init == up = FALSE /\ zones = NoZones /\ members = NoMembers /\ last = 0

Load == up' = TRUE /\ UNCHANGED <<zones, members, last>>
Shutdown == up' = FALSE /\ zones' = NoZones /\ members' = NoMembers /\ UNCHANGED last
Register(n) ==
    /\ up /\ zones[n] = 0
    /\ last' = last + 1 /\ zones' = [zones EXCEPT ![n] = last + 1]
    /\ UNCHANGED <<up, members>>
Remove(n) ==
    /\ up /\ zones[n] # 0
    /\ zones' = [zones EXCEPT ![n] = 0]
    /\ members' = [c \in Containers |-> IF members[c] = n THEN "none" ELSE members[c]]
    /\ UNCHANGED <<up, last>>
Attach(c, n) ==
    /\ up /\ zones[n] # 0
    /\ members' = [members EXCEPT ![c] = n]
    /\ UNCHANGED <<up, zones, last>>
Detach(c) ==
    /\ up /\ members' = [members EXCEPT ![c] = "none"]
    /\ UNCHANGED <<up, zones, last>>

Next ==
    \/ Load \/ Shutdown
    \/ \E n \in Names : Register(n) \/ Remove(n) \/ \E c \in Containers : Attach(c, n)
    \/ \E c \in Containers : Detach(c)

Spec == Init /\ [][Next]_vars
=============================================================================
