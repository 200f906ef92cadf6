------------------------- MODULE ContainerdTask -------------------------
(***************************************************************************)
(* containerd-shim-rauha-v2: the Task service containerd calls, one shim   *)
(* per pod.  A handler runs up to an await on a gRPC answer, so two calls  *)
(* interleave exactly there.  The daemon is its containers and the zone of *)
(* this pod, one atomic step per RPC; it can go away, come back, and an    *)
(* answer can be lost after the work is done.                              *)
(***************************************************************************)
EXTENDS Naturals, FiniteSets

CONSTANTS
    Ids,        \* containerd's task ids of one pod
    Bundle,     \* Ids -> what each bundle's config.json says: "sandbox",
                \* "sandbox-id" (a container naming its pod), "bare", "broken"
    Calls,      \* concurrent ttrpc requests
    Creates,    \* bound: how often containerd may try to create one id
    MaxFaults   \* bound: daemon outages and lost answers

VARIABLES
    tasks,      \* containers: id -> NoTask or its ContainerState
    zoneName,   \* zone_name is set
    signalled,  \* the exit signal
    client,     \* a connected client is cached
    call,       \* Calls -> the request being served
    zone,       \* the pod's zone exists in the daemon
    cont,       \* <<id, n>> -> the container of id's n-th creation
    up,         \* the daemon answers
    faults,     \* faults so far
    tried,      \* id -> creations containerd has asked for
    released    \* ids whose Delete removed a task and was answered Ok

shim == <<tasks, zoneName, signalled, client>>
daemon == <<zone, cont>>
world == <<up, faults>>
ghost == <<tried, released>>
vars == <<shim, call, daemon, world, ghost>>

None == "none"
Rids == Ids \X (1..Creates)
IsSandbox(id) == Bundle[id] = "sandbox"
NoRid == <<>>
Idle == [op |-> "idle", id |-> None, rid |-> NoRid]
\* exit: exit_code is Some(0), the only code the shim ever sets.
Task == [known : BOOLEAN, rid : Rids \cup {NoRid}, pid : BOOLEAN, exit : BOOLEAN]
NoTask == [known |-> FALSE, rid |-> NoRid, pid |-> FALSE, exit |-> FALSE]
\* What the daemon prints for a container: ContainerState's Debug names.
States == {"Created", "Running", "Stopped"}

Init ==
    /\ tasks = [id \in Ids |-> NoTask]
    /\ zoneName = FALSE
    /\ signalled = FALSE
    /\ client \in BOOLEAN
    /\ call = [c \in Calls |-> Idle]
    /\ zone = FALSE
    /\ cont = [r \in Rids |-> None]
    /\ up = TRUE
    /\ faults = 0
    /\ tried = [id \in Ids |-> 0]
    /\ released = {}

Known(id) == tasks[id].known
Serving(c, op) == call[c].op = op
Answer(c) == call' = [call EXCEPT ![c] = Idle]

-----------------------------------------------------------------------------
(* The daemon's handlers, as the shim sees them: the answer and the state  *)
(* they leave.                                                             *)

\* create_zone answers AlreadyExists for a zone that is there.
create_zone(c) == [ok |-> ~zone, zone |-> TRUE, cont |-> cont]
\* create_container needs the zone; the image may be unknown to the daemon.
create_container(c, image) ==
    IF zone /\ image
    THEN [ok |-> TRUE, zone |-> zone, cont |-> [cont EXCEPT ![call[c].rid] = "Created"]]
    ELSE [ok |-> FALSE, zone |-> zone, cont |-> cont]
start_container(c) ==
    IF cont[call[c].rid] = None
    THEN [ok |-> FALSE, zone |-> zone, cont |-> cont]
    ELSE [ok |-> TRUE, zone |-> zone, cont |-> [cont EXCEPT ![call[c].rid] = "Running"]]
stop_container(c) ==
    IF cont[call[c].rid] = None
    THEN [ok |-> FALSE, zone |-> zone, cont |-> cont]
    ELSE [ok |-> TRUE, zone |-> zone, cont |-> [cont EXCEPT ![call[c].rid] = "Stopped"]]

delete_container(c) ==
    [ok |-> cont[call[c].rid] # None, zone |-> zone, cont |-> [cont EXCEPT ![call[c].rid] = None]]
delete_zone(c) == [ok |-> zone, zone |-> FALSE, cont |-> [r \in Rids |-> None]]
get_container(c) == [ok |-> cont[call[c].rid] # None, zone |-> zone, cont |-> cont]

Handled(c, image) ==
    CASE Serving(c, "create") -> IF IsSandbox(call[c].id) THEN create_zone(c)
                                 ELSE create_container(c, image)
      [] Serving(c, "start")  -> start_container(c)
      [] Serving(c, "kill")   -> stop_container(c)
      [] Serving(c, "delete") -> IF IsSandbox(call[c].id) THEN delete_zone(c)
                                 ELSE delete_container(c)
      [] Serving(c, "wait")   -> get_container(c)

-----------------------------------------------------------------------------
(* The front half of every handler, up to its RPC.                         *)

\* client(): the cached client, or one that connects now.
Connected == client \/ up

Ask(c, op, id, rid) ==
    IF Connected
    THEN /\ client' = TRUE
         /\ call' = [call EXCEPT ![c] = [op |-> op, id |-> id, rid |-> rid]]
    ELSE UNCHANGED <<client, call>>

\* containerd creates an id again only when an earlier attempt failed.
MayCreate(id) ==
    /\ tried[id] < Creates
    /\ ~Known(id)
    /\ id \notin released
    /\ \A c \in Calls : call[c].id # id

\* Where the container goes: the pod its bundle names, or this shim's zone.
ZoneGiven(id) == Bundle[id] = "sandbox-id" \/ zoneName

Create(c, id) ==
    /\ MayCreate(id)
    /\ tried' = [tried EXCEPT ![id] = @ + 1]
    /\ IF Bundle[id] = "broken" \/ (~IsSandbox(id) /\ ~ZoneGiven(id))
       THEN client' = Connected /\ UNCHANGED call
       ELSE Ask(c, "create", id, <<id, tried[id] + 1>>)
    /\ UNCHANGED <<tasks, zoneName, signalled, daemon, world, released>>

\* Mutant: the task has its pid before the daemon has answered.
StartMarksFirst(c, id) ==
    /\ Known(id) /\ ~IsSandbox(id)
    /\ Ask(c, "start", id, tasks[id].rid)
    /\ tasks' = [tasks EXCEPT ![id].pid = TRUE]
    /\ UNCHANGED <<zoneName, signalled, daemon, world, ghost>>

\* A sandbox answers at once; an unknown id is an error.
Start(c, id) ==
    /\ Known(id) /\ ~IsSandbox(id)
    /\ Ask(c, "start", id, tasks[id].rid)
    /\ UNCHANGED <<tasks, zoneName, signalled, daemon, world, ghost>>

Kill(c, id) ==
    /\ Known(id) /\ ~IsSandbox(id)
    /\ Ask(c, "kill", id, tasks[id].rid)
    /\ UNCHANGED <<tasks, zoneName, signalled, daemon, world, ghost>>

\* The shim forgets the task first and asks the daemon afterwards.
Delete(c, id) ==
    /\ Known(id)
    /\ tasks' = [tasks EXCEPT ![id] = NoTask]
    /\ Ask(c, "delete", id, tasks[id].rid)
    /\ UNCHANGED <<zoneName, signalled, daemon, world, ghost>>

Wait(c, id) ==
    /\ call' = [call EXCEPT ![c] = [op |-> "poll", id |-> id, rid |-> NoRid]]
    /\ UNCHANGED <<shim, daemon, world, ghost>>

\* One turn of wait's loop: known exit, sandbox, ask the daemon, or gone.
Poll(c) ==
    /\ Serving(c, "poll")
    /\ LET id == call[c].id IN
       IF ~Known(id) THEN Answer(c) /\ UNCHANGED client
       ELSE IF tasks[id].exit THEN Answer(c) /\ UNCHANGED client
       ELSE IF IsSandbox(id)
            THEN call' = [call EXCEPT ![c].op = "signal"] /\ UNCHANGED client
       ELSE Ask(c, "wait", id, tasks[id].rid)
    /\ UNCHANGED <<tasks, zoneName, signalled, daemon, world, ghost>>

\* A sandbox's wait ends with the shim's exit signal.
SandboxWaited(c) ==
    /\ Serving(c, "signal") /\ signalled
    /\ Answer(c)
    /\ UNCHANGED <<shim, daemon, world, ghost>>

-----------------------------------------------------------------------------
(* The back half: what each handler does with the daemon's answer.         *)

\* The statuses wait takes for an ended container.
Ended(state) == state \in {"exited", "stopped"}

CreateDone(c, ok) ==
    LET id == call[c].id
        new == [NoTask EXCEPT !.known = TRUE, !.rid = IF IsSandbox(id) THEN NoRid ELSE call[c].rid] IN
    /\ tasks' = IF ok THEN [tasks EXCEPT ![id] = new] ELSE tasks
    /\ zoneName' = (zoneName \/ (ok /\ IsSandbox(id)))
    /\ Answer(c)
    /\ UNCHANGED <<signalled, released>>

\* The task may have been deleted meanwhile.
StartDone(c, ok) ==
    LET id == call[c].id IN
    /\ tasks' = IF ok /\ Known(id) THEN [tasks EXCEPT ![id].pid = TRUE] ELSE tasks
    /\ Answer(c)
    /\ UNCHANGED <<zoneName, signalled, released>>

\* kill and delete ignore what the daemon answered.
KillDone(c) == Answer(c) /\ UNCHANGED <<tasks, zoneName, signalled, released>>
DeleteDone(c) ==
    /\ signalled' = (signalled \/ IsSandbox(call[c].id))
    /\ released' = released \cup {call[c].id}
    /\ Answer(c)
    /\ UNCHANGED <<tasks, zoneName>>

WaitDone(c, ok, state) ==
    LET id == call[c].id IN
    /\ IF ok /\ Ended(state)
       THEN /\ tasks' = IF Known(id) THEN [tasks EXCEPT ![id].exit = TRUE] ELSE tasks
            /\ Answer(c)
       ELSE /\ call' = [call EXCEPT ![c].op = "poll"]
            /\ UNCHANGED tasks
    /\ UNCHANGED <<zoneName, signalled, released>>

Finished(c, ok, state) ==
    CASE Serving(c, "create") -> CreateDone(c, ok)
      [] Serving(c, "start")  -> StartDone(c, ok)
      [] Serving(c, "kill")   -> KillDone(c)
      [] Serving(c, "delete") -> DeleteDone(c)
      [] Serving(c, "wait")   -> WaitDone(c, ok, state)

Asking(c) == call[c].op \in {"create", "start", "kill", "delete", "wait"}

\* The daemon does the work; its answer arrives or is lost.
Rpc(c) ==
    /\ Asking(c) /\ up
    /\ \E image \in BOOLEAN, lost \in BOOLEAN :
         LET h == Handled(c, image) IN
         /\ lost => faults < MaxFaults
         /\ faults' = IF lost THEN faults + 1 ELSE faults
         /\ zone' = h.zone /\ cont' = h.cont
         /\ Finished(c, h.ok /\ ~lost,
                     IF call[c].rid \in Rids THEN cont[call[c].rid] ELSE None)
    /\ UNCHANGED <<client, up, tried>>

\* The daemon is away: the RPC fails without having done anything.
RpcRefused(c) ==
    /\ Asking(c) /\ ~up
    /\ Finished(c, FALSE, None)
    /\ UNCHANGED <<client, daemon, world, tried>>

\* shutdown: the exit signal, unless the shim still knows a task.
Shutdown ==
    /\ \A id \in Ids : ~Known(id)
    /\ signalled' = TRUE
    /\ UNCHANGED <<tasks, zoneName, client, call, daemon, world, ghost>>

-----------------------------------------------------------------------------
(* The world.                                                              *)

\* A container's process ends; the daemon reports it stopped when next asked.
ProcessExits(r) ==
    /\ cont[r] = "Running"
    /\ cont' = [cont EXCEPT ![r] = "Stopped"]
    /\ UNCHANGED <<shim, call, zone, world, ghost>>

DaemonAway ==
    /\ up /\ faults < MaxFaults
    /\ up' = FALSE /\ faults' = faults + 1
    /\ UNCHANGED <<shim, call, daemon, ghost>>
DaemonBack ==
    /\ ~up /\ up' = TRUE
    /\ UNCHANGED <<shim, call, daemon, faults, ghost>>

\* What containerd may ask in an idle slot.
Requests(c) ==
    /\ call[c] = Idle
    /\ \E id \in Ids : Create(c, id) \/ Start(c, id) \/ Kill(c, id) \/ Delete(c, id) \/ Wait(c, id)

ShimSteps(c) == Poll(c) \/ SandboxWaited(c) \/ Rpc(c) \/ RpcRefused(c)

Next ==
    \/ \E c \in Calls : Requests(c) \/ ShimSteps(c)
    \/ Shutdown
    \/ \E r \in Rids : ProcessExits(r)
    \/ DaemonAway \/ DaemonBack

Spec == Init /\ [][Next]_vars

-----------------------------------------------------------------------------
TypeOK ==
    /\ tasks \in [Ids -> Task]
    /\ {zoneName, signalled, client, zone, up} \subseteq BOOLEAN
    /\ \A c \in Calls :
         /\ call[c].op \in {"idle", "create", "start", "kill", "delete", "poll", "wait", "signal"}
         /\ call[c].id \in Ids \cup {None}
         /\ call[c].rid \in Rids \cup {NoRid}
    /\ cont \in [Rids -> States \cup {None}]
    /\ faults \in 0..MaxFaults
    /\ tried \in [Ids -> 0..Creates]
    /\ released \subseteq Ids

\* Once Delete of a container was answered, no container of that task is left
\* in the daemon, and once Delete of the sandbox was answered nothing of the
\* pod is: delete drops the task before it asks the daemon, and a start, kill
\* or create that is still waiting for its answer must not bring one back.
DeletedIsGone ==
    /\ \A id \in released : \A n \in 1..Creates : cont[<<id, n>>] = None
    /\ (\E id \in released : IsSandbox(id)) => ~zone /\ \A r \in Rids : cont[r] = None

\* While no RPC is in flight the shim knows every container the daemon has for
\* this pod: none is left that containerd could no longer delete.
NothingOrphaned ==
    (\A c \in Calls : ~Asking(c)) =>
        \A r \in Rids : cont[r] # None => Known(r[1]) /\ tasks[r[1]].rid = r

\* What state answers.
Status(t) == IF t.exit THEN "STOPPED" ELSE IF t.pid THEN "RUNNING" ELSE "CREATED"

\* A task the shim reports RUNNING (it has a pid) was started by the daemon,
\* whatever start, delete and outages did in between.
RunningWasStarted ==
    \A id \in Ids : Known(id) /\ Status(tasks[id]) = "RUNNING" =>
        cont[tasks[id].rid] \in {"Running", "Stopped", None}
=============================================================================
