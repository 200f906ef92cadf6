---------------------------- MODULE MCEnforcement ----------------------------
(***************************************************************************)
(* Enforcement: the LSM programs against the daemon that fills their maps, *)
(* the two backends of the enforcer interface, and the way of an event to  *)
(* those who watch, each by itself. A behaviour is about one of them, in   *)
(* the instance that its scene names; the others stand still.  The         *)
(* constants of LinuxEnforcer itself are those of scene "restarts".         *)
(***************************************************************************)
EXTENDS LinuxEnforcer, Integers, Sequences

VARIABLES
    scene,   \* what this behaviour is about; it never changes
    member, policy, inode, comms, zone, nextId, live, daemon, cpu, count,
    ring, lost, read, last, calls, restarts,
    s, accepted,
    \* the state of LinuxEnforcer where it has one client
    oneLoaded, oneZones, oneNext, onePolicy, oneMembership, oneComms,
    oneInodes, oneRefs, oneAttached, oneDoing,
    eventsRing, raised, sent, task, capture, log, result, tailers, TAILED,
    starts, watch

lsmHooksVars == <<member, policy, inode, comms, zone, nextId, live, daemon,
                  cpu, count, ring, lost, read, last, calls, restarts>>
noopEnforcerVars == <<s, accepted>>
oneClientVars == <<oneLoaded, oneZones, oneNext, onePolicy, oneMembership,
                   oneComms, oneInodes, oneRefs, oneAttached, oneDoing>>
enforcementEventsVars == <<eventsRing, raised, sent, task, capture, log,
                           result, tailers, TAILED, starts, watch>>
all == <<scene, lsmHooksVars, noopEnforcerVars, enforcerVars,
         oneClientVars, enforcementEventsVars>>

(***************************************************************************)
(* Two zones, the first allowed to talk to the second; the second plain or *)
(* global.  Their rootfs hold an inode number each; inode numbers are only *)
(* unique within a filesystem, so "shared" is in both.  Capabilities out   *)
(* of range on either side, granted to "a", granted to nobody.             *)
(***************************************************************************)
PlainZones ==
  [a |-> [caps |-> {1}, ptrace |-> FALSE, peers |-> {"b"}, global |-> FALSE],
   b |-> [caps |-> {}, ptrace |-> TRUE, peers |-> {}, global |-> FALSE]]
GlobalZone == [PlainZones EXCEPT !["b"].global = TRUE]
AskedCaps == {-1, 1, 2, 64}

-----------------------------------------------------------------------------
\* Every hook against every step of the daemon, over a restart.
Windows == INSTANCE LsmHooks WITH
    Zones <- {"a", "b"}, PolicyOf <- PlainZones, Inodes <- {"i", "shared"},
    Rootfs <- [a |-> {"i", "shared"}, b |-> {"shared"}],
    Hooks <- {"file_open", "bprm_check", "ptrace_check", "task_kill", "cgroup_attach", "capable", "socket_connect"},
    Cpus <- {1}, Caps <- AskedCaps, RingSize <- 1, MaxId <- 4, MaxCalls <- 1,
    MaxRestarts <- 1
\* Calls on two CPUs, a ring that is full after one event.
Accounts == INSTANCE LsmHooks WITH
    Zones <- {"a", "b"}, PolicyOf <- GlobalZone, Inodes <- {"i", "shared"},
    Rootfs <- [a |-> {"i", "shared"}, b |-> {"shared"}],
    Hooks <- {"file_open", "task_kill", "socket_connect"}, Cpus <- {1, 2},
    Caps <- AskedCaps, RingSize <- 1, MaxId <- 2, MaxCalls <- 2,
    MaxRestarts <- 0
Noop == INSTANCE NoopEnforcer WITH
    Names <- {"a", "b"}, Containers <- {"c", "d"}, Probe <- "a",
    ProbeC <- "c", MaxIds <- 4
\* Two clients register and remove at once.  In scene "restarts" map writes
\* fail as well, and calls overlap a shutdown and the next load.
Overlap == INSTANCE LinuxEnforcer WITH
    MayShutdown <- FALSE, MayFail <- FALSE
\* One client: map writes fail, the backend is shut down and loaded again.
Failing == INSTANCE LinuxEnforcer WITH
    Clients <- {"k"}, Names <- {"a", "b"}, CgroupIds <- {"c"}, MaxIds <- 3,
    MayShutdown <- TRUE, MayFail <- TRUE, MayTalk <- FALSE, Hooks <- {"h"},
    loaded <- oneLoaded, trait_zones <- oneZones, next <- oneNext,
    ZONE_POLICY <- onePolicy, ZONE_MEMBERSHIP <- oneMembership,
    ZONE_ALLOWED_COMMS <- oneComms, INODE_ZONE_MAP <- oneInodes,
    refs <- oneRefs, attached <- oneAttached, doing <- oneDoing
\* One client: zones are allowed to talk.
Talking == INSTANCE LinuxEnforcer WITH
    Clients <- {"k"}, Names <- {"a", "b"}, CgroupIds <- {"c"}, MaxIds <- 2,
    MayShutdown <- TRUE, MayFail <- FALSE, MayTalk <- TRUE, Hooks <- {"h"},
    loaded <- oneLoaded, trait_zones <- oneZones, next <- oneNext,
    ZONE_POLICY <- onePolicy, ZONE_MEMBERSHIP <- oneMembership,
    ZONE_ALLOWED_COMMS <- oneComms, INODE_ZONE_MAP <- oneInodes,
    refs <- oneRefs, attached <- oneAttached, doing <- oneDoing
\* Denials of two zones, a task, and a watcher of its zone, through queues of one.
Events == INSTANCE EnforcementEvents WITH
    Task <- 1, Zones <- {1, 2}, Kinds <- {"deny"}, ChannelCap <- 1,
    StreamCap <- 1, Filter <- "id", MaxItems <- 2, MaxLines <- 1,
    ring <- eventsRing

\* The variables of a component that the scene is not about.
NoLsmHooks ==
    /\ member = 0 /\ policy = 0 /\ inode = 0 /\ comms = 0 /\ zone = 0
    /\ nextId = 0 /\ live = 0 /\ daemon = 0 /\ cpu = 0 /\ count = 0
    /\ ring = 0 /\ lost = 0 /\ read = 0 /\ last = 0 /\ calls = 0
    /\ restarts = 0
NoNoopEnforcer == s = 0 /\ accepted = 0
AtRest == EnforcerInit /\ attached = Hooks
NoOneClient ==
    /\ oneLoaded = 0 /\ oneZones = 0 /\ oneNext = 0 /\ onePolicy = 0
    /\ oneMembership = 0 /\ oneComms = 0 /\ oneInodes = 0 /\ oneRefs = 0
    /\ oneAttached = 0 /\ oneDoing = 0
NoEnforcementEvents ==
    /\ eventsRing = 0 /\ raised = 0 /\ sent = 0 /\ task = 0 /\ capture = 0
    /\ log = 0 /\ result = 0 /\ tailers = 0 /\ TAILED = 0 /\ starts = 0
    /\ watch = 0

Scenes == {"windows", "accounts", "noop", "overlap", "faults", "restarts",
           "talk", "events"}

AnyInit ==
    /\ scene \in Scenes
    /\ \/ scene = "windows" /\ Windows!Init
       \/ scene = "accounts" /\ Accounts!Init
       \/ scene \notin {"windows", "accounts"} /\ NoLsmHooks
    /\ \/ scene = "noop" /\ Noop!Init
       \/ scene # "noop" /\ NoNoopEnforcer
    /\ \/ scene = "overlap" /\ Overlap!EnforcerInit
       \/ scene = "restarts" /\ EnforcerInit
       \/ scene \notin {"overlap", "restarts"} /\ AtRest
    /\ \/ scene = "faults" /\ Failing!EnforcerInit
       \/ scene = "talk" /\ Talking!EnforcerInit
       \/ scene \notin {"faults", "talk"} /\ NoOneClient
    /\ \/ scene = "events" /\ Events!Init
       \/ scene # "events" /\ NoEnforcementEvents

\* The component that the scene is about takes a step of its own.
SceneNext ==
    /\ UNCHANGED scene
    /\ \/ scene = "windows" /\ Windows!Next
       \/ scene = "accounts" /\ Accounts!Next
       \/ scene \notin {"windows", "accounts"} /\ UNCHANGED lsmHooksVars
    /\ \/ scene = "noop" /\ Noop!Next
       \/ scene # "noop" /\ UNCHANGED noopEnforcerVars
    /\ \/ scene = "overlap" /\ Overlap!EnforcerNext
       \/ scene = "restarts" /\ EnforcerNext
       \/ scene \notin {"overlap", "restarts"} /\ UNCHANGED enforcerVars
    /\ \/ scene = "faults" /\ Failing!EnforcerNext
       \/ scene = "talk" /\ Talking!EnforcerNext
       \/ scene \notin {"faults", "talk"} /\ UNCHANGED oneClientVars
    /\ \/ scene = "events" /\ Events!Next
       \/ scene # "events" /\ UNCHANGED enforcementEventsVars

\* The calls of an instance may all have been made.
Rests == scene \in {"windows", "accounts", "events"} /\ UNCHANGED all

AnyNext == SceneNext \/ Rests

AnySpec == AnyInit /\ [][AnyNext]_all
-----------------------------------------------------------------------------
\* No capability check finds its caller's zone without a policy
\* (ResolvesWithPolicy); while its zone is a member, a live process is judged
\* as that zone's, never as a host process, over create, destroy and recovery
\* (JudgedAsItsZone); a workload never gets a signal through to a host process
\* (SignalsStayInside).  What the hooks denied is not lost on its way without
\* a trace: denials and errors counted are the events in the ring, read, or
\* dropped because it was full (EventsAccounted); a broker decision is in a
\* result once and nothing of another zone is (ResultIsOwn); what was broadcast
\* since the container could run is in the result or counted as dropped
\* (BroadcastIsAccounted); every decision is broadcast at most once although
\* starts are retried (DecisionsOnce); a watcher is given, or told it lost,
\* everything since it subscribed (WatchIsAccounted), and one that was told of
\* no loss has seen its zone's events (FilteredSeesZone).
JudgedAndReported ==
    /\ scene = "windows" =>
         /\ Windows!TypeOK /\ Windows!ResolvesWithPolicy
         /\ Windows!JudgedAsItsZone /\ Windows!SignalsStayInside
    /\ scene = "accounts" =>
         /\ Accounts!TypeOK /\ Accounts!EventsAccounted
    /\ scene = "events" =>
         /\ Events!TypeOK /\ Events!ResultIsOwn
         /\ Events!BroadcastIsAccounted /\ Events!DecisionsOnce
         /\ Events!WatchIsAccounted /\ Events!FilteredSeesZone

\* An accepted policy verifies while its zone exists (AcceptedVerifies), and
\* the conformance suite passes in every state (AlwaysConforms). Over the eBPF
\* maps a registered zone that no call works on has its policy, whatever calls
\* overlapped (RegisteredHasPolicy); with one client, a backend that is down
\* knows no zone (DownKnowsNothing), and between calls two zones talk in both
\* directions or in none (CommIsSymmetric).  RefsFaithful, which the run checks
\* of two clients, holds of one as well.
EnforcersConform ==
    /\ scene = "noop" =>
         /\ Noop!TypeOK /\ Noop!AcceptedVerifies /\ Noop!AlwaysConforms
    /\ EnforcerTypeOK
    /\ scene = "overlap" => Overlap!RegisteredHasPolicy
    /\ scene = "faults" =>
         /\ Failing!EnforcerTypeOK /\ Failing!RefsFaithful
         /\ Failing!DownKnowsNothing
    /\ scene = "talk" =>
         /\ Talking!EnforcerTypeOK /\ Talking!RefsFaithful
         /\ Talking!CommIsSymmetric

\* The enforcer interface as its contract states it, seen in NoopEnforcer; in
\* the other scenes nothing is loaded.
Contract == INSTANCE EnforcerContract WITH
    Names <- {"a", "b"}, Containers <- {"c", "d"},
    up <- IF scene = "noop" THEN s.loaded ELSE FALSE,
    zones <- IF scene = "noop" THEN s.zones ELSE [n \in {"a", "b"} |-> 0],
    members <- IF scene = "noop" THEN s.members ELSE [c \in {"c", "d"} |-> "none"],
    last <- IF scene = "noop" THEN s.next_id ELSE 0

\* The trait's promises: NoopEnforcer keeps them through every call.
KeepsContract == Contract!Spec
=============================================================================
