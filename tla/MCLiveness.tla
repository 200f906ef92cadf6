----------------------------- MODULE MCLiveness -----------------------------
(***************************************************************************)
(* What has to happen in the end: small instances of the components whose  *)
(* threads, handlers and polls must get somewhere, each by itself, under   *)
(* the fairness of its scheduling. A behaviour is about one of them, which *)
(* its scene names; the others stand still. Callers and pulls numbered 1   *)
(* and 2 are interchangeable: what is stated of the first holds of the     *)
(* second.                                                                 *)
(***************************************************************************)
EXTENDS Naturals, FiniteSets, Sequences

VARIABLES
    scene,   \* what this behaviour is about; it never changes
    shim, req, conts, init, out, told, budget,
    main, fds, table, mid, child, pipes, relay, client, faults,
    serve, crun, tasks, notes, judge, cache, log, result, brokerFaults,
    podTasks, zoneName, signalled, podClient, call, zone, cont, up, podFaults,
    tried, released,
    blobs, refs, served, pc, ref, cached, manifest, todo, item, asked,
    pullFaults,
    temp, rootfs, marker, extracting, linked, basePc, version, next, crashes,
    token, issued, live, authPc, bearer, attempt, fetched, sent, throttles,
    authFaults,
    row, handle, rowsZone, rowsShim, rowsPc, op, id, copy, rowsTodo, expired,
    used, deleted, rowsCrashes, lost,
    ring, raised, eventsSent, task, capture, eventsLog, eventsResult, tailers,
    TAILED, starts, watch

shimContainersVars == <<shim, req, conts, init, out, told, budget>>
shimExecVars == <<main, fds, table, mid, child, pipes, relay, client, faults>>
brokerVars == <<serve, crun, tasks, notes, judge, cache, log, result,
                brokerFaults>>
containerdTaskVars == <<podTasks, zoneName, signalled, podClient, call, zone,
                        cont, up, podFaults, tried, released>>
imageStoreVars == <<blobs, refs, served, pc, ref, cached, manifest, todo,
                    item, asked, pullFaults>>
baseRootfsVars == <<temp, rootfs, marker, extracting, linked, basePc, version,
                    next, crashes>>
registryAuthVars == <<token, issued, live, authPc, bearer, attempt, fetched,
                      sent, throttles, authFaults>>
containerRowsVars == <<row, handle, rowsZone, rowsShim, rowsPc, op, id, copy,
                       rowsTodo, expired, used, deleted, rowsCrashes, lost>>
enforcementEventsVars == <<ring, raised, eventsSent, task, capture, eventsLog,
                           eventsResult, tailers, TAILED, starts, watch>>
all == <<scene, shimContainersVars, shimExecVars, brokerVars,
         containerdTaskVars, imageStoreVars, baseRootfsVars, registryAuthVars,
         containerRowsVars, enforcementEventsVars>>

-----------------------------------------------------------------------------
Shim == INSTANCE ShimContainers WITH
    Containers <- {"c"}, LogMaxBytes <- 1, MaxBytes <- 1, MaxFaults <- 1,
    MaxStuck <- 1, MaxCrashes <- 1
Exec == INSTANCE ShimExec WITH
    Sessions <- {"s"}, MaxFd <- 1, MaxOutput <- 1, MaxInput <- 1,
    SockCap <- 1, MaxFaults <- 1, ServeFails <- FALSE
Broker == INSTANCE Broker WITH
    Judges <- {1, 2}, Tids <- {"t"}, Paths <- {"p"}, CacheMax <- 2,
    NoFile <- 20, FD_HEADROOM <- 2, MaxGen <- 1, MaxCalls <- 2, LogLimit <- 1,
    MaxFailures <- 1, MaxPollErrors <- 0, CrunConnects <- TRUE,
    faults <- brokerFaults
Pod == INSTANCE ContainerdTask WITH
    Ids <- {"pod", "a"}, Bundle <- [pod |-> "sandbox", a |-> "sandbox-id"],
    Calls <- {1, 2}, Creates <- 1, MaxFaults <- 1, tasks <- podTasks,
    client <- podClient, faults <- podFaults
Pull == INSTANCE ImageStore WITH
    Pulls <- {1, 2}, Tags <- {"app:1"}, DigestRefs <- {}, Manifests <- {"m1"},
    Blobs <- {"c1", "l1"}, ConfigOf <- [m1 |-> "c1"],
    LayersOf <- [m1 |-> <<"l1">>], Registry <- [r \in {"app:1"} |-> {"m1"}],
    Indexed <- {"m1"}, Unparsable <- {}, FileOf <- [r \in {"app:1"} |-> r],
    Removable <- {}, MaxFaults <- 0, Faults <- {}, faults <- pullFaults
Rootfs == INSTANCE BaseRootfs WITH
    Callers <- {1, 2}, Images <- {"app"}, ImageOf <- [c \in {1, 2} |-> "app"],
    Versions <- {"v1"}, Layers <- 2, MaxCrashes <- 1, pc <- basePc
Get == INSTANCE RegistryAuth WITH
    Gets <- {1, 2}, Public <- FALSE, MaxTokens <- 2, MaxThrottles <- 2,
    MaxFaults <- 0, pc <- authPc, faults <- authFaults
Polled == INSTANCE ContainerRows WITH
    Containers <- {"c"}, Calls <- {1, 2},
    Ops <- {"create", "start", "stop", "state", "get"}, MaxCrashes <- 0,
    MaxLost <- 0, ZoneMayFail <- FALSE, zone <- rowsZone, shim <- rowsShim,
    pc <- rowsPc, todo <- rowsTodo, crashes <- rowsCrashes
Waits == INSTANCE ContainerRows WITH
    Containers <- {"c"}, Calls <- {1, 2},
    Ops <- {"create", "start", "wait", "twait", "stop", "delete"},
    MaxCrashes <- 0, MaxLost <- 1, ZoneMayFail <- FALSE, zone <- rowsZone,
    shim <- rowsShim, pc <- rowsPc, todo <- rowsTodo, crashes <- rowsCrashes
Events == INSTANCE EnforcementEvents WITH
    Task <- 1, Zones <- {1}, Kinds <- {"deny", "short"}, ChannelCap <- 1,
    StreamCap <- 1, Filter <- "all", MaxItems <- 1, MaxLines <- 1,
    sent <- eventsSent, log <- eventsLog, result <- eventsResult

\* Call 1 asks for the container's state again and again, and does nothing else.
OnlyPolls == rowsPc[1] \in Polled!Resting /\ rowsPc'[1] \notin Polled!Resting => op'[1] = "state"

\* Call 1 waits for the container to exit, call 2 does not.
OnlyWaits ==
    \A k \in {1, 2} : rowsPc[k] \in Waits!Resting /\ rowsPc'[k] \notin Waits!Resting =>
                        (k = 1 <=> op'[k] \in {"wait", "twait"})

\* The variables of a component that the scene is not about.
NoShimContainers ==
    /\ shim = 0 /\ req = 0 /\ conts = 0 /\ init = 0 /\ out = 0 /\ told = 0
    /\ budget = 0
NoShimExec ==
    /\ main = 0 /\ fds = 0 /\ table = 0 /\ mid = 0 /\ child = 0
    /\ pipes = 0 /\ relay = 0 /\ client = 0 /\ faults = 0
NoBroker ==
    /\ serve = 0 /\ crun = 0 /\ tasks = 0 /\ notes = 0 /\ judge = 0
    /\ cache = 0 /\ log = 0 /\ result = 0 /\ brokerFaults = 0
NoContainerdTask ==
    /\ podTasks = 0 /\ zoneName = 0 /\ signalled = 0 /\ podClient = 0
    /\ call = 0 /\ zone = 0 /\ cont = 0 /\ up = 0 /\ podFaults = 0
    /\ tried = 0 /\ released = 0
NoImageStore ==
    /\ blobs = 0 /\ refs = 0 /\ served = 0 /\ pc = 0 /\ ref = 0
    /\ cached = 0 /\ manifest = 0 /\ todo = 0 /\ item = 0 /\ asked = 0
    /\ pullFaults = 0
NoBaseRootfs ==
    /\ temp = 0 /\ rootfs = 0 /\ marker = 0 /\ extracting = 0 /\ linked = 0
    /\ basePc = 0 /\ version = 0 /\ next = 0 /\ crashes = 0
NoRegistryAuth ==
    /\ token = 0 /\ issued = 0 /\ live = 0 /\ authPc = 0 /\ bearer = 0
    /\ attempt = 0 /\ fetched = 0 /\ sent = 0 /\ throttles = 0
    /\ authFaults = 0
NoContainerRows ==
    /\ row = 0 /\ handle = 0 /\ rowsZone = 0 /\ rowsShim = 0 /\ rowsPc = 0
    /\ op = 0 /\ id = 0 /\ copy = 0 /\ rowsTodo = 0 /\ expired = 0
    /\ used = 0 /\ deleted = 0 /\ rowsCrashes = 0 /\ lost = 0
NoEnforcementEvents ==
    /\ ring = 0 /\ raised = 0 /\ eventsSent = 0 /\ task = 0 /\ capture = 0
    /\ eventsLog = 0 /\ eventsResult = 0 /\ tailers = 0 /\ TAILED = 0
    /\ starts = 0 /\ watch = 0

Scenes == {"shim", "exec", "broker", "task", "pull", "rootfs", "get",
           "polled", "waits", "events"}

AnyInit ==
    /\ scene \in Scenes
    /\ \/ scene = "shim" /\ Shim!Init
       \/ scene # "shim" /\ NoShimContainers
    /\ \/ scene = "exec" /\ Exec!Init
       \/ scene # "exec" /\ NoShimExec
    /\ \/ scene = "broker" /\ Broker!BrokerInit
       \/ scene # "broker" /\ NoBroker
    /\ \/ scene = "task" /\ Pod!Init
       \/ scene # "task" /\ NoContainerdTask
    /\ \/ scene = "pull" /\ Pull!Init
       \/ scene # "pull" /\ NoImageStore
    /\ \/ scene = "rootfs" /\ Rootfs!Init
       \/ scene # "rootfs" /\ NoBaseRootfs
    /\ \/ scene = "get" /\ Get!Init
       \/ scene # "get" /\ NoRegistryAuth
    /\ \/ scene = "polled" /\ Polled!Init
       \/ scene = "waits" /\ Waits!Init
       \/ scene \notin {"polled", "waits"} /\ NoContainerRows
    /\ \/ scene = "events" /\ Events!Init
       \/ scene # "events" /\ NoEnforcementEvents

\* The component that the scene is about takes a step of its own.
AnyNext ==
    /\ UNCHANGED scene
    /\ \/ scene = "shim" /\ Shim!Next
       \/ scene # "shim" /\ UNCHANGED shimContainersVars
    /\ \/ scene = "exec" /\ Exec!Next
       \/ scene # "exec" /\ UNCHANGED shimExecVars
    /\ \/ scene = "broker" /\ Broker!BrokerNext
       \/ scene # "broker" /\ UNCHANGED brokerVars
    /\ \/ scene = "task" /\ Pod!Next
       \/ scene # "task" /\ UNCHANGED containerdTaskVars
    /\ \/ scene = "pull" /\ Pull!Next
       \/ scene # "pull" /\ UNCHANGED imageStoreVars
    /\ \/ scene = "rootfs" /\ (Rootfs!Crash \/ \E c \in {1, 2} : Rootfs!Step(c))
       \/ scene # "rootfs" /\ UNCHANGED baseRootfsVars
    /\ \/ scene = "get" /\ Get!Next
       \/ scene # "get" /\ UNCHANGED registryAuthVars
    /\ \/ scene = "polled" /\ Polled!Next /\ OnlyPolls
       \/ scene = "waits" /\ Waits!Next /\ OnlyWaits
       \/ scene \notin {"polled", "waits"} /\ UNCHANGED containerRowsVars
    /\ \/ scene = "events" /\ Events!Next
       \/ scene # "events" /\ UNCHANGED enforcementEventsVars

(***************************************************************************)
(* Fairness.  The shim's request, capture, relay and judge threads run,    *)
(* its forks run, and a daemon polls a container it waits for and connects *)
(* to a session it was told of; crun's helper does its part or gives up,   *)
(* and the kernel releases a closed listener.                              *)
(***************************************************************************)
ShimFairness ==
    /\ WF_(Shim!vars)(scene = "shim" /\ Shim!Handle)
    /\ WF_(Shim!vars)(scene = "shim" /\ Shim!Capture("c")) /\ SF_(Shim!vars)(scene = "shim" /\ Shim!Poll("c"))
    /\ WF_(Exec!vars)(scene = "exec" /\ Exec!Exec)
    /\ WF_(Exec!vars)(scene = "exec" /\ Exec!Child("s")) /\ WF_(Exec!vars)(scene = "exec" /\ Exec!Relay("s"))
    /\ WF_(Exec!vars)(scene = "exec" /\ Exec!Connect("s"))
    /\ \A j \in {1, 2} : WF_(Broker!brokerVars)(scene = "broker" /\ Broker!JudgeStep(j))
    /\ WF_(Broker!brokerVars)(scene = "broker" /\ Broker!ServeStep) /\ WF_(Broker!brokerVars)(scene = "broker" /\ Broker!CrunStep)
    /\ WF_(Broker!brokerVars)(scene = "broker" /\ Broker!ListenerReleased)

(***************************************************************************)
(* Tokio runs every ready handler, poll timers and deadlines fire, and a   *)
(* daemon that is away comes back.  A client of WatchEvents reads, and one *)
(* of the calls asks for the state of the container again and again.       *)
(***************************************************************************)
HandlerFairness ==
    /\ \A c \in {1, 2} :
         /\ WF_(Pod!vars)(scene = "task" /\ Pod!ShimSteps(c))
         /\ WF_(Pull!vars)(scene = "pull" /\ Pull!PullStep(c))
         /\ WF_(Rootfs!vars)(scene = "rootfs" /\ Rootfs!Step(c))
         /\ WF_(Get!vars)(scene = "get" /\ Get!Step(c))
         /\ WF_(Polled!vars)(scene = "polled" /\ Polled!Step(c))
         /\ WF_(Waits!vars)(scene = "waits" /\ Waits!Step(c)) /\ WF_(Waits!vars)(scene = "waits" /\ Waits!Expire(c))
    /\ WF_(Pod!vars)(scene = "task" /\ Pod!DaemonBack)
    /\ WF_(Polled!vars)(scene = "polled" /\ Polled!Begin(1, "state", "c"))
    /\ WF_(Events!vars)(scene = "events" /\ Events!drain_events)
    /\ WF_(Events!vars)(scene = "events" /\ \E i \in DOMAIN tailers : Events!TailLine(i))
    /\ WF_(Events!vars)(scene = "events" /\ Events!WatchReceive)
    /\ WF_(Events!vars)(scene = "events" /\ Events!WatchSend) /\ WF_(Events!vars)(scene = "events" /\ Events!ClientReads)

Fairness == ShimFairness /\ HandlerFairness

AnySpec == AnyInit /\ [][AnyNext]_all /\ Fairness
-----------------------------------------------------------------------------
\* An exit is reported: whoever polls GetState is told of it in the end, though
\* GetState itself reads a table that was reaped before the exit.
ExitReported ==
    (scene = "shim" /\ conts["c"].status = "running" /\ ~Shim!Alive("c"))
        ~> (scene = "shim" /\ (told["c"] # "running" \/ shim # "up"))

\* No request blocks the shim for ever: graces, kills and joins all end, an
\* unkillable init that holds the output pipe open included.
RequestEnds ==
    (scene = "shim" /\ shim = "up" /\ req.pc # "idle")
        ~> (scene = "shim" /\ (shim # "up" \/ req.pc = "idle"))

\* The request thread gets out of every exec: no failure of the handshake leaves
\* the shim, its fork and the exec child waiting for each other.
ExecEnds ==
    (scene = "exec" /\ main.pc # "idle") ~> (scene = "exec" /\ main.pc \in {"idle", "dead"})

\* The session of a program that ended is closed and its entry removed.
SessionEnds ==
    (scene = "exec" /\ relay["s"].pc # "none" /\ Exec!HungUp("s"))
        ~> (scene = "exec" /\ relay["s"].pc = "done")

\* No brokered call stays suspended for ever: it is answered or its task
\* dies, whatever panics, fails or ends ("a zone deadlock, not a degraded mode").
EveryCallEnds ==
    \A n \in {1, 2} :
        (scene = "broker" /\ n \in DOMAIN notes /\ Broker!Valid(n))
            ~> (scene = "broker" /\ n \in DOMAIN notes /\ ~Broker!Valid(n))

\* A wait on a task that has been deleted, and is not created again, returns
\* (the loop's else branch), also when the daemon was away for a while.
WaitEndsAfterDelete ==
    (scene = "task" /\ call[1].op \in {"poll", "wait"} /\ call[1].id = "a" /\ ~Pod!Known("a"))
        ~> (scene = "task" /\ (call[1] = Pod!Idle \/ Pod!Known("a")))

\* Every pull ends, with Ok or with an error.
PullEnds ==
    (scene = "pull" /\ pc[1] \notin Pull!Resting) ~> (scene = "pull" /\ pc[1] \in Pull!Resting)

\* Every caller of prepare_rootfs returns: the lock is released on success and
\* on failure.
CallsReturn == <>(scene = "rootfs" => basePc[1] \in {"ok", "failed"})

\* Every authenticated get ends, however its token expires and whoever throttles.
GetsEnd ==
    (scene = "get" /\ authPc[1] \in Get!Sending) ~> (scene = "get" /\ authPc[1] \in {"ok", "failed"})

\* When somebody keeps asking for its state, a container that stopped ends up
\* as Stopped with its exit code in the row for good, whatever starts, stops
\* and reaps were writing back older copies meanwhile.
ExitIsKept ==
    (scene = "polled" /\ rowsShim["c"] = "stopped")
        ~> [](scene = "polled" /\ row["c"].state = "Stopped" /\ row["c"].exit)

\* wait_for_exit with a deadline returns, even when the container is deleted
\* or the shim does not answer.
TimedWaitEnds ==
    (scene = "waits" /\ op[1] = "twait" /\ rowsPc[1] \notin Waits!Resting)
        ~> (scene = "waits" /\ rowsPc[1] \in Waits!Resting)

\* wait_for_exit without a deadline returns after its container has exited,
\* unless the container is deleted first: then it polls for ever.
WaitSeesExit ==
    (scene = "waits" /\ op[1] = "wait" /\ rowsPc[1] \notin Waits!Resting
       /\ rowsShim["c"] \in {"exited", "stopped"})
        ~> (scene = "waits" /\ (rowsPc[1] \in Waits!Resting \/ rowsShim["c"] = "absent"))

\* Every item leaves the ring: an undersized one does not hold up the rest.
RingIsRead == []<>(scene = "events" => ring = <<>>)

\* A connected watcher whose client reads comes to the end of the broadcast.
WatcherCatchesUp ==
    (scene = "events" /\ watch.open)
        ~> (scene = "events" /\ (~watch.open \/ (watch.pos = Len(eventsSent) /\ watch.stream = <<>>)))

\* Every line of the broker's log is broadcast in the end, if there is a tailer.
DecisionsStream ==
    (scene = "events" /\ TAILED)
        ~> (scene = "events" /\ \A n \in 1..eventsLog : \E i \in DOMAIN eventsSent : eventsSent[i].line = n)

\* The threads of the shim get on: exits are reported (ExitReported), requests
\* and execs return (RequestEnds, ExecEnds), sessions of programs that ended are
\* closed (SessionEnds), and brokered calls are answered (EveryCallEnds).
ShimGetsOn ==
    ExitReported /\ RequestEnds /\ ExecEnds /\ SessionEnds /\ EveryCallEnds

\* The handlers of the daemon and of the containerd shim get on: waits, pulls,
\* extractions and gets end (WaitEndsAfterDelete, PullEnds, CallsReturn, GetsEnd,
\* TimedWaitEnds, WaitSeesExit), an exit is kept (ExitIsKept), and events and
\* decisions reach those who watch (RingIsRead, WatcherCatchesUp,
\* DecisionsStream).
DaemonGetsOn ==
    /\ WaitEndsAfterDelete /\ PullEnds /\ CallsReturn /\ GetsEnd
    /\ TimedWaitEnds /\ WaitSeesExit /\ ExitIsKept
    /\ RingIsRead /\ WatcherCatchesUp /\ DecisionsStream
=============================================================================
