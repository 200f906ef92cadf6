------------------------------- MODULE MCShim -------------------------------
(***************************************************************************)
(* The zone shim: its container table, its exec sessions and its seccomp   *)
(* broker, each by itself. A behaviour is about one of them, in the        *)
(* instance that its scene names; the others stand still.                  *)
(***************************************************************************)
EXTENDS ShimContainers, Broker, BrokerClassify, TLC

CONSTANTS c1, c2,   \* containers
          s1, s2,   \* exec sessions
          j1, j2    \* judge threads

VARIABLES
    scene,   \* what this behaviour is about; it never changes
    oShim, oReq, oConts, oInit, oOut, oTold, oBudget,
    main, fds, table, mid, child, pipes, relay, client, execFaults,
    bServe, bCrun, bTasks, bNotes, bJudge, bCache, bLog, bResult, bFaults

outputVars == <<oShim, oReq, oConts, oInit, oOut, oTold, oBudget>>
shimExecVars == <<main, fds, table, mid, child, pipes, relay, client, execFaults>>
judgingVars == <<bServe, bCrun, bTasks, bNotes, bJudge, bCache, bLog, bResult,
                 bFaults>>
all == <<scene, vars, outputVars, shimExecVars, brokerVars, judgingVars,
         classifyVars>>

Symmetry == Permutations({c1, c2}) \cup Permutations({s1, s2}) \cup Permutations({j1, j2})

\* Requests on two containers, with a system call that fails.
TwoContainers == {c1, c2}

\* A judge at work while threads die and their ids are reused.
OneJudge == {"j"}

\* Every openat flag word; openat2 with up to two flags and any resolve word.
Flags == {"WRITE", "TMPFILE", "CREAT", "TRUNC", "PATH", "DIRECT",
          "DIRECTORY", "NOFOLLOW", "CLOEXEC", "NONBLOCK"}
AllFlags == SUBSET Flags
PairsOfFlags == {{}} \cup {{f, g} : f, g \in Flags \cup {"HIGH"}}
ResolveWords == SUBSET {"NO_XDEV", "NO_MAGICLINKS", "NO_SYMLINKS", "CTIME",
                        "BENEATH", "IN_ROOT", "UNKNOWN"}
PlainCall == [sc |-> "openat", flags |-> {}, path |-> "relative", resolve |-> {}, size |-> "exact"]

-----------------------------------------------------------------------------
\* One container that writes past its log, cannot be killed, or loses its shim.
Output == INSTANCE ShimContainers WITH
    Containers <- {c1}, LogMaxBytes <- 1, MaxBytes <- 2, MaxFaults <- 1,
    MaxStuck <- 1, MaxCrashes <- 1, shim <- oShim, req <- oReq,
    conts <- oConts, init <- oInit, out <- oOut, told <- oTold,
    budget <- oBudget
\* Two sessions over two descriptor numbers.
Exec == INSTANCE ShimExec WITH
    Sessions <- {s1, s2}, MaxFd <- 2, MaxOutput <- 1, MaxInput <- 0,
    SockCap <- 1, MaxFaults <- 1, ServeFails <- FALSE, faults <- execFaults
\* One session whose child writes twice.
Relay == INSTANCE ShimExec WITH
    Sessions <- {s1}, MaxFd <- 1, MaxOutput <- 2, MaxInput <- 0, SockCap <- 2,
    MaxFaults <- 1, ServeFails <- FALSE, faults <- execFaults
\* Two judges at work on the calls of two threads.
Judging == INSTANCE Broker WITH
    Judges <- {j1, j2}, Tids <- {"t1", "t2"}, Paths <- {"p", "q"},
    CacheMax <- 2, NoFile <- 20, FD_HEADROOM <- 2, MaxGen <- 1, MaxCalls <- 2,
    LogLimit <- 2, MaxFailures <- 0, MaxPollErrors <- 0, CrunConnects <- TRUE,
    serve <- bServe, crun <- bCrun, tasks <- bTasks, notes <- bNotes,
    judge <- bJudge, cache <- bCache, log <- bLog, result <- bResult,
    faults <- bFaults
\* One judge whose cache holds one task.
Caching == INSTANCE Broker WITH
    Judges <- {j1}, Tids <- {"t1", "t2"}, Paths <- {"p"},
    CacheMax <- 1, NoFile <- 20, FD_HEADROOM <- 2, MaxGen <- 1, MaxCalls <- 3,
    LogLimit <- 2, MaxFailures <- 0, MaxPollErrors <- 0, CrunConnects <- TRUE,
    serve <- bServe, crun <- bCrun, tasks <- bTasks, notes <- bNotes,
    judge <- bJudge, cache <- bCache, log <- bLog, result <- bResult,
    faults <- bFaults
\* A judge that panics, a call that fails.
Failing == INSTANCE Broker WITH
    Judges <- {j1, j2}, Tids <- {"t1", "t2"}, Paths <- {"p"},
    CacheMax <- 2, NoFile <- 20, FD_HEADROOM <- 2, MaxGen <- 1, MaxCalls <- 2,
    LogLimit <- 1, MaxFailures <- 1, MaxPollErrors <- 0, CrunConnects <- TRUE,
    serve <- bServe, crun <- bCrun, tasks <- bTasks, notes <- bNotes,
    judge <- bJudge, cache <- bCache, log <- bLog, result <- bResult,
    faults <- bFaults

\* The variables of a component that the scene is not about.
NoOutputScene ==
    /\ oShim = 0 /\ oReq = 0 /\ oConts = 0 /\ oInit = 0 /\ oOut = 0 /\ oTold = 0
    /\ oBudget = 0
NoShimExec ==
    /\ main = 0 /\ fds = 0 /\ table = 0 /\ mid = 0 /\ child = 0
    /\ pipes = 0 /\ relay = 0 /\ client = 0 /\ execFaults = 0
NoJudging ==
    /\ bServe = 0 /\ bCrun = 0 /\ bTasks = 0 /\ bNotes = 0 /\ bJudge = 0
    /\ bCache = 0 /\ bLog = 0 /\ bResult = 0 /\ bFaults = 0

Scenes == {"requests", "output", "exec", "relay", "judges", "reuse", "cache",
           "faults", "classify"}

AnyInit ==
    /\ scene \in Scenes
    /\ Init /\ BrokerInit
    /\ scene # "classify" => call = PlainCall
    /\ ClassifyInit
    /\ \/ scene = "output" /\ Output!Init
       \/ scene # "output" /\ NoOutputScene
    /\ \/ scene = "exec" /\ Exec!Init
       \/ scene = "relay" /\ Relay!Init
       \/ scene \notin {"exec", "relay"} /\ NoShimExec
    /\ \/ scene = "judges" /\ Judging!BrokerInit
       \/ scene = "cache" /\ Caching!BrokerInit
       \/ scene = "faults" /\ Failing!BrokerInit
       \/ scene \notin {"judges", "cache", "faults"} /\ NoJudging

\* The component that the scene is about takes a step of its own.
AnyNext ==
    /\ UNCHANGED scene
    /\ \/ scene = "requests" /\ Next
       \/ scene # "requests" /\ UNCHANGED vars
    /\ \/ scene = "output" /\ Output!Next
       \/ scene # "output" /\ UNCHANGED outputVars
    /\ \/ scene = "exec" /\ Exec!Next
       \/ scene = "relay" /\ Relay!Next
       \/ scene \notin {"exec", "relay"} /\ UNCHANGED shimExecVars
    /\ \/ scene = "reuse" /\ BrokerNext
       \/ scene # "reuse" /\ UNCHANGED brokerVars
    /\ \/ scene = "judges" /\ Judging!BrokerNext
       \/ scene = "cache" /\ Caching!BrokerNext
       \/ scene = "faults" /\ Failing!BrokerNext
       \/ scene \notin {"judges", "cache", "faults"} /\ UNCHANGED judgingVars
    /\ \/ scene = "classify" /\ ClassifyNext
       \/ scene # "classify" /\ UNCHANGED classifyVars

AnySpec == AnyInit /\ [][AnyNext]_all
-----------------------------------------------------------------------------
(***************************************************************************)
(* The properties of the three modules that this one extends are stated in *)
(* them: ContainersFaithful and KeepsContract (ShimContainers),            *)
(* JudgmentsFaithful (Broker) and OpensConfined (BrokerClassify).          *)
(***************************************************************************)

\* The scenes that are instances of their own. An exec'd program runs only in
\* the zone's cgroup, whatever fails in the handshake (ExecOnlyEnrolled); a
\* resize never reaches another session's terminal although descriptor numbers
\* are reused (ResizeHitsOwnPty); and what a program wrote before it ended
\* reaches a client that stayed (OutputRelayed). What the shim says of a
\* container holds when no signal ends its init or the shim is killed
\* (ContainersFaithful), and what it says of its judgments when judges share
\* the work, evict, panic or fail (JudgmentsFaithful).
ScenesFaithful ==
    /\ scene = "exec" =>
         /\ Exec!TypeOK /\ Exec!ExecOnlyEnrolled /\ Exec!ResizeHitsOwnPty
         /\ Exec!OutputRelayed
    /\ scene = "relay" =>
         /\ Relay!TypeOK /\ Relay!OutputRelayed
    /\ scene = "output" => Output!ContainersFaithful
    /\ scene = "judges" => Judging!JudgmentsFaithful
    /\ scene = "cache" => Caching!JudgmentsFaithful
    /\ scene = "faults" => Failing!JudgmentsFaithful
=============================================================================
