--------------------------- MODULE ShimContainers ---------------------------
(***************************************************************************)
(* The zone shim (rauha-shim/src/main.rs, state.rs, container.rs,          *)
(* output.rs): one thread takes one request per connection, carries it out *)
(* against its table of containers and against crun, answers, and then     *)
(* reaps.  Beside it run the init processes of the containers and one      *)
(* capture thread per output stream; the shim itself may be killed and     *)
(* started again by the daemon (ensure_shim).                              *)
(*                                                                         *)
(* Container ids are the daemon's fresh uuids, so an id is created once.   *)
(* The two streams of a container go through the same code and are one     *)
(* stream here; output is counted in bytes.  A stuck init is one that no   *)
(* signal ends in time (uninterruptible sleep).                            *)
(***************************************************************************)
EXTENDS Integers, FiniteSets

CONSTANTS Containers,
          LogMaxBytes,   \* RAUHA_LOG_MAX_BYTES
          MaxBytes,      \* bytes a workload writes
          MaxFaults,     \* failing system calls and crun commands
          MaxStuck,      \* inits that do not die of SIGKILL in time
          MaxCrashes     \* times the shim is killed

VARIABLES
  shim,    \* whether the shim process runs
  req,     \* the request it is carrying out
  conts,   \* ShimState.containers
  init,    \* the OCI init process of each container
  out,     \* each container's capture: pipe, thread, log file and marker
  told,    \* whether the last GetState of a container answered "running"
  budget   \* faults, stuck inits and crashes so far

vars == <<shim, req, conts, init, out, told, budget>>

Idle == [pc |-> "idle", c |-> "none", then |-> "none", todo |-> {}, waited |-> "none", code |-> 0]
Absent == [status |-> "absent", exit |-> -1]
NoInit == [state |-> "none", enrolled |-> FALSE, code |-> -1, stuck |-> FALSE]
NoOutput == [file |-> FALSE, marker |-> FALSE, kept |-> 0, remaining |-> 0, incomplete |-> FALSE,
             thread |-> "none", stop |-> FALSE, pipe |-> 0, wrote |-> 0]

SIGKILLED == 137

Init ==
  /\ shim = "up" /\ req = Idle
  /\ conts = [c \in Containers |-> Absent]
  /\ init = [c \in Containers |-> NoInit]
  /\ out = [c \in Containers |-> NoOutput]
  /\ told = [c \in Containers |-> "ended"]
  /\ budget = [faults |-> 0, stuck |-> 0, crashes |-> 0]

Alive(c) == init[c].state \in {"created", "running"}
Fault == budget.faults < MaxFaults
Spend(what) == budget' = [budget EXCEPT ![what] = @ + 1]

\* The shim is at step pc of the request in progress.
At(pc) == shim = "up" /\ req.pc = pc
Goto(pc) == req' = [req EXCEPT !.pc = pc]

\* reap_children, and what follows it: it sees every exit up to now, and may see
\* one that happens while it goes through the table.
Exited(c) == conts[c].status = "running" /\ init[c].state = "zombie"
Reaping(c, then) ==
  [Idle EXCEPT !.pc = "reap", !.c = c, !.then = then, !.todo = {k \in Containers : Exited(k)}]

Answered == req' = Reaping("none", "answered")

(***************************************************************************)
(* The main loop: one request at a time.                                   *)
(***************************************************************************)
CreateContainer(c) ==
  /\ At("idle") /\ init[c].state = "none" /\ ~out[c].file
  /\ conts' = [conts EXCEPT ![c] = IF @ = Absent THEN [status |-> "created", exit |-> -1] ELSE @]
  /\ Answered
  /\ UNCHANGED <<shim, init, out, told, budget>>

StartContainer(c) ==
  /\ At("idle")
  /\ IF conts[c].status = "created"
     THEN req' = [Idle EXCEPT !.pc = "prepare", !.c = c]
     ELSE Answered
  /\ UNCHANGED <<shim, conts, init, out, told, budget>>

StopContainer(c) ==
  /\ At("idle")
  /\ req' = Reaping(c, "stop")
  /\ UNCHANGED <<shim, conts, init, out, told, budget>>

DeleteContainer(c) ==
  /\ At("idle")
  /\ req' = Reaping(c, "delete")
  /\ UNCHANGED <<shim, conts, init, out, told, budget>>

\* Answers from the table as it is: nothing is reaped first.
GetState(c) ==
  /\ At("idle")
  /\ told' = [told EXCEPT ![c] = IF conts[c].status = "running" THEN "running" ELSE "ended"]
  /\ Answered
  /\ UNCHANGED <<shim, conts, init, out, budget>>

\* Signal, GetStats, Attach, a request that does not decode, a failed accept.
OtherRequest ==
  /\ At("idle") /\ Answered
  /\ UNCHANGED <<shim, conts, init, out, told, budget>>

Shutdown ==
  /\ At("idle")
  /\ req' = [Idle EXCEPT !.pc = "shutdown", !.todo = {c \in Containers : conts[c].status # "absent"}]
  /\ UNCHANGED <<shim, conts, init, out, told, budget>>

(***************************************************************************)
(* RuntimeProcess::delete: crun delete --force, then every capture is told *)
(* to stop and joined.  The shim blocks in Join until the thread ended.    *)
(***************************************************************************)
\* What SIGKILL leaves of an init, sent by the shim or by crun delete --force.
Killed(i) ==
  IF i.state \in {"created", "running"} /\ ~i.stuck
  THEN [i EXCEPT !.state = "zombie", !.code = SIGKILLED] ELSE i

StopCapture(o) == [o EXCEPT !.stop = @ \/ o.thread = "reading"]

\* try_wait: once init is a zombie its code is taken and its runtime deleted.
try_wait(c) ==
  /\ init[c].state = "zombie"
  /\ init' = [init EXCEPT ![c].state = "gone"]
  /\ out' = [out EXCEPT ![c] = StopCapture(@)]
  /\ req' = [req EXCEPT !.pc = "join", !.waited = c, !.code = init[c].code]
  /\ UNCHANGED <<shim, conts, told, budget>>

\* A mutant: a container whose start failed is marked stopped.
JoinMarksFailed ==
  /\ At("join") /\ out[req.waited].thread # "reading"
  /\ conts' = [conts EXCEPT ![req.waited] = [status |-> "stopped", exit |-> req.code]]
  /\ req' = IF req.then \in {"stopping", "failed"} THEN Reaping("none", "answered")
            ELSE [req EXCEPT !.pc = IF req.then = "shutdown" THEN "shutdown" ELSE "reap",
                             !.todo = @ \ {req.waited}]
  /\ UNCHANGED <<shim, init, out, told, budget>>

\* The thread of the deleted runtime has ended.  A reaped or stopped container
\* is marked; a start that failed leaves it created, a shutdown marks nothing.
Join ==
  /\ At("join") /\ out[req.waited].thread # "reading"
  /\ conts' = IF req.then \in {"failed", "shutdown"} THEN conts
              ELSE [conts EXCEPT ![req.waited] = [status |-> "stopped", exit |-> req.code]]
  /\ req' = CASE req.then = "stopping" -> Reaping("none", "answered")
              [] req.then = "failed"   -> Reaping("none", "answered")
              [] req.then = "shutdown" -> [req EXCEPT !.pc = "shutdown", !.todo = @ \ {req.waited},
                                                      !.c = "none", !.waited = "none", !.code = 0]
              [] OTHER                 -> [req EXCEPT !.pc = "reap", !.waited = "none", !.code = 0]
  /\ UNCHANGED <<shim, init, out, told, budget>>

ReapOne == At("reap") /\ \E c \in Containers : Exited(c) /\ try_wait(c)

\* After the reaping: the next request, the rest of stop_container (refused
\* unless the container still runs) or of delete_container (refused if it does).
ReapEnds ==
  /\ At("reap") /\ \A c \in req.todo : ~Exited(c)
  /\ conts' = IF req.then = "delete" /\ conts[req.c].status # "running"
              THEN [conts EXCEPT ![req.c] = Absent] ELSE conts
  /\ req' = CASE req.then = "answered" -> Idle
              [] req.then = "stop" /\ conts[req.c].status = "running" ->
                   [req EXCEPT !.pc = "grace", !.then = "stopping"]
              [] OTHER -> Reaping("none", "answered")
  /\ UNCHANGED <<shim, init, out, told, budget>>

(***************************************************************************)
(* wait_or_kill: the grace period, SIGKILL, five more seconds.             *)
(***************************************************************************)
GraceExit == At("grace") /\ try_wait(req.c)

GraceEnds ==
  /\ At("grace") /\ init[req.c].state # "zombie"
  /\ Goto("sigkill")
  /\ UNCHANGED <<shim, conts, init, out, told, budget>>

SendKill ==
  /\ At("sigkill")
  /\ \/ init' = [init EXCEPT ![req.c] = Killed(@)] /\ UNCHANGED budget
     \/ /\ budget.stuck < MaxStuck /\ Alive(req.c)
        /\ init' = [init EXCEPT ![req.c].stuck = TRUE] /\ Spend("stuck")
  /\ Goto("kill")
  /\ UNCHANGED <<shim, conts, out, told>>

KilledExit == At("kill") /\ try_wait(req.c)

\* The second wait ran out: the code is taken to be 128 + 9.
KillTimesOut ==
  /\ At("kill") /\ init[req.c].stuck /\ init[req.c].state # "zombie"
  /\ out' = [out EXCEPT ![req.c] = StopCapture(@)]
  /\ req' = [req EXCEPT !.pc = "join", !.waited = req.c, !.code = SIGKILLED]
  /\ UNCHANGED <<shim, conts, init, told, budget>>

\* request_shutdown: stop_and_delete on every container that was started.
ShutdownOne ==
  /\ At("shutdown")
  /\ \E c \in req.todo :
       req' = IF conts[c].status = "running"
              THEN [req EXCEPT !.pc = "grace", !.c = c, !.then = "shutdown"]
              ELSE [req EXCEPT !.todo = @ \ {c}]
  /\ UNCHANGED <<shim, conts, init, out, told, budget>>

ShutdownEnds ==
  /\ At("shutdown") /\ req.todo = {}
  /\ shim' = "exited" /\ req' = Idle
  /\ out' = [c \in Containers |-> IF out[c].thread = "reading" THEN [out[c] EXCEPT !.thread = "dead"] ELSE out[c]]
  /\ UNCHANGED <<conts, init, told, budget>>

(***************************************************************************)
(* start_with_crun: every step may fail.                                   *)
(***************************************************************************)
\* BoundedLog::open: the marker first, then a file that must be new.
Opened(o) == [o EXCEPT !.file = TRUE, !.marker = TRUE, !.thread = "reading",
                       !.remaining = LogMaxBytes]

Prepare ==
  /\ At("prepare")
  /\ \/ /\ ~out[req.c].file
        /\ out' = [out EXCEPT ![req.c] = Opened(@)] /\ Goto("create") /\ UNCHANGED budget
     \/ /\ out[req.c].file
        /\ out' = [out EXCEPT ![req.c].marker = TRUE] /\ Answered /\ UNCHANGED budget
     \/ Fault /\ Answered /\ Spend("faults") /\ UNCHANGED out
  /\ UNCHANGED <<shim, conts, init, told>>

\* The failure path: crun delete --force, and the captures are dropped.
StartFails ==
  /\ init' = [init EXCEPT ![req.c] = Killed(@)]
  /\ out' = [out EXCEPT ![req.c] = StopCapture(@)]
  /\ req' = [req EXCEPT !.pc = "join", !.then = "failed", !.waited = req.c]

CrunCreate ==
  /\ At("create")
  /\ \/ /\ init' = [init EXCEPT ![req.c].state = "created"] /\ Goto("enrol") /\ UNCHANGED <<out, budget>>
     \/ Fault /\ StartFails /\ Spend("faults")
  /\ UNCHANGED <<shim, conts, told>>

\* The pid file, the pidfd and the zone's cgroup.procs; a dead init fails them.
Enroll ==
  /\ At("enrol")
  /\ \/ /\ init[req.c].state = "created"
        /\ init' = [init EXCEPT ![req.c].enrolled = TRUE] /\ Goto("start") /\ UNCHANGED <<out, budget>>
     \/ Fault /\ StartFails /\ Spend("faults")
     \/ init[req.c].state # "created" /\ StartFails /\ UNCHANGED budget
  /\ UNCHANGED <<shim, conts, told>>

CrunStart ==
  /\ At("start")
  /\ \/ /\ init[req.c].state = "created"
        /\ init' = [init EXCEPT ![req.c].state = "running"]
        /\ conts' = [conts EXCEPT ![req.c].status = "running"]
        /\ Answered /\ UNCHANGED <<out, budget>>
     \/ Fault /\ StartFails /\ Spend("faults") /\ UNCHANGED conts
     \/ init[req.c].state # "created" /\ StartFails /\ UNCHANGED <<conts, budget>>
  /\ UNCHANGED <<shim, told>>

(***************************************************************************)
(* The capture thread.                                                     *)
(***************************************************************************)

\* BoundedLog::write of n bytes taken from the pipe.
write(o, n) ==
  LET count == IF n < o.remaining THEN n ELSE o.remaining
  IN  [o EXCEPT !.pipe = @ - n, !.kept = @ + count, !.remaining = @ - count,
                !.incomplete = @ \/ count < n]

Reading(c) == shim = "up" /\ out[c].thread = "reading"

CaptureRead(c) ==
  /\ Reading(c) /\ out[c].pipe > 0
  /\ \/ out' = [out EXCEPT ![c] = write(@, @.pipe)] /\ UNCHANGED budget
     \/ /\ Fault /\ Spend("faults")
        /\ out' = [out EXCEPT ![c].pipe = 0, ![c].incomplete = TRUE, ![c].remaining = 0]
  /\ UNCHANGED <<shim, req, conts, init, told>>

\* End of file once every writer is gone: init, and the shim until crun took
\* its end over.  finish() takes the marker away unless something is missing.
CaptureEof(c) ==
  /\ Reading(c) /\ out[c].pipe = 0 /\ ~Alive(c) /\ ~(req.pc = "create" /\ req.c = c)
  /\ \/ /\ out' = [out EXCEPT ![c].thread = "ended", ![c].marker = out[c].incomplete]
        /\ UNCHANGED budget
     \/ Fault /\ Spend("faults") /\ out' = [out EXCEPT ![c].thread = "ended"]
  /\ UNCHANGED <<shim, req, conts, init, told>>

\* A mutant: giving up is finishing.
CaptureFinishes(c) ==
  /\ Reading(c) /\ out[c].stop
  /\ out' = [out EXCEPT ![c].thread = "ended", ![c].marker = out[c].incomplete]
  /\ UNCHANGED <<shim, req, conts, init, told, budget>>

\* The deadline after a stop, or a failing read: the marker stays.
CaptureGivesUp(c) ==
  /\ Reading(c)
  /\ \/ out[c].stop /\ UNCHANGED budget
     \/ Fault /\ Spend("faults")
  /\ out' = [out EXCEPT ![c].thread = "ended"]
  /\ UNCHANGED <<shim, req, conts, init, told>>

(***************************************************************************)
(* The workload, and the shim process itself.                              *)
(***************************************************************************)
WorkloadWrites(c) ==
  /\ init[c].state = "running" /\ Reading(c) /\ out[c].wrote < MaxBytes
  /\ out' = [out EXCEPT ![c].pipe = @ + 1, ![c].wrote = @ + 1]
  /\ UNCHANGED <<shim, req, conts, init, told, budget>>

\* Init exits by itself or by a signal from elsewhere.
InitExits(c) ==
  /\ Alive(c)
  /\ init' = [init EXCEPT ![c].state = "zombie", ![c].code = 0]
  /\ UNCHANGED <<shim, req, conts, out, told, budget>>

\* The shim is killed: its table, its threads and the unread output are gone.
ShimCrash ==
  /\ shim = "up" /\ budget.crashes < MaxCrashes
  /\ shim' = "down" /\ req' = Idle
  /\ conts' = [c \in Containers |-> Absent]
  /\ out' = [c \in Containers |-> IF out[c].thread = "reading"
                                  THEN [out[c] EXCEPT !.thread = "dead", !.pipe = 0] ELSE out[c]]
  /\ Spend("crashes")
  /\ UNCHANGED <<init, told>>

\* ensure_shim: the probe fails, the stale socket goes and a shim is spawned.
ShimSpawned ==
  /\ shim = "down" /\ shim' = "up"
  /\ UNCHANGED <<req, conts, init, out, told, budget>>

Request ==
  \/ \E c \in Containers : CreateContainer(c) \/ StartContainer(c) \/ StopContainer(c) \/ DeleteContainer(c)
  \/ OtherRequest
  \/ Shutdown

Poll(c) == GetState(c)

Handle ==
  \/ Join \/ ReapOne \/ ReapEnds
  \/ GraceExit \/ GraceEnds \/ SendKill \/ KilledExit \/ KillTimesOut
  \/ ShutdownOne \/ ShutdownEnds
  \/ Prepare \/ CrunCreate \/ Enroll \/ CrunStart

Capture(c) == CaptureRead(c) \/ CaptureEof(c) \/ CaptureGivesUp(c)

Next ==
  \/ Request \/ Handle \/ ShimCrash \/ ShimSpawned
  \/ \E c \in Containers : Poll(c) \/ Capture(c) \/ WorkloadWrites(c) \/ InitExits(c)

Spec == Init /\ [][Next]_vars

(***************************************************************************)
(* Properties.                                                             *)
(***************************************************************************)
TypeOK ==
  /\ shim \in {"up", "down", "exited"}
  /\ req.pc \in {"idle", "reap", "join", "grace", "sigkill", "kill", "shutdown", "prepare", "create",
                 "enrol", "start"}
  /\ \A c \in Containers :
       /\ conts[c].status \in {"absent", "created", "running", "stopped"}
       /\ conts[c].exit \in {-1, 0, SIGKILLED}
       /\ init[c].state \in {"none", "created", "running", "zombie", "gone"}
       /\ out[c].thread \in {"none", "reading", "ended", "dead"}
       /\ out[c].kept <= LogMaxBytes /\ out[c].pipe >= 0

\* No code of the image runs outside the zone's cgroup: start_with_crun writes
\* the pid to cgroup.procs between crun create and crun start, and a failure at
\* any step ends the init instead of starting it.
EnrolledBeforeWorkload ==
  \A c \in Containers : init[c].state = "running" \/ out[c].wrote > 0 => init[c].enrolled

\* A log without its incomplete marker holds every byte the workload wrote, in
\* spite of the size limit, failing writes, an abandoned capture thread or a
\* shim that was killed (BoundedLog, Capture).
OutputCompleteOrMarked ==
  \A c \in Containers : out[c].file /\ ~out[c].marker => out[c].kept = out[c].wrote

\* While the shim is not killed, every live init belongs to a container it
\* counts as running or is in the middle of starting: no sequence of requests,
\* failed starts, stops and deletes leaves a process behind that nothing
\* tracks, except an init that no signal ends.
EveryInitTracked ==
  budget.crashes = 0 =>
  \A c \in Containers : Alive(c) /\ ~init[c].stuck =>
     shim = "up" /\ (conts[c].status = "running" \/ (req.c = c /\ req.pc \in {"enrol", "start"}))

\* The recorded exit code is the code init ended with, also when it exits by
\* itself in the moment the stop escalates to SIGKILL; only of an init that no
\* signal ends it is a guess.
ExitCodeTrue ==
  \A c \in Containers : conts[c].status = "stopped" /\ ~init[c].stuck => conts[c].exit = init[c].code

\* The four together: what the shim says of a container and of its output is
\* so, and no workload runs outside its zone or untracked.
ContainersFaithful ==
  /\ TypeOK
  /\ EnrolledBeforeWorkload /\ OutputCompleteOrMarked
  /\ EveryInitTracked /\ ExitCodeTrue

(***************************************************************************)
(* What a container of a shim goes through, whoever asks for what: the     *)
(* state of ContainerContract.                                             *)
(***************************************************************************)
Lifecycle ==
  [c \in Containers |->
     IF conts[c].status = "running" /\ ~Alive(c) THEN "exited" ELSE conts[c].status]
Working == {c \in Containers : init[c].state = "running"}
Contract == INSTANCE ContainerContract WITH st <- Lifecycle, alive <- Working

\* What state.rs does to a container, whoever asks for what and whatever fails,
\* is a behaviour of ContainerContract: it starts at most once, is stopped only
\* after its init ended and is removed only when it does not run.
KeepsContract == Contract!Spec
=============================================================================
