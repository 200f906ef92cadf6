---------------------------- MODULE SandboxTasks ----------------------------
(***************************************************************************)
(* The durable life of a sandbox task in rauhad: RunSandbox reserves the   *)
(* task identifier in redb, resolves a zone, commits a recovery record,    *)
(* creates and starts one container through the zone's shim, waits for it, *)
(* commits a signed result and only then cleans up.  The daemon may die    *)
(* between any two of these steps; recover_tasks runs before the next      *)
(* daemon serves.  Meanwhile operators delete zones, containers and        *)
(* results, and the shim's workloads run on.                               *)
(*                                                                         *)
(* redb is the pair of tables `result' and `rec' plus the registry's zone  *)
(* (`named', `temps') and container (`row') tables: they survive a crash.  *)
(* `handles', `hc', `pc', `wk' and `doomed' are the daemon's memory.       *)
(* `shim' is the truth in the shims, which survive the daemon.             *)
(*                                                                         *)
(* Each action is one stretch of the handler in which no other handler can *)
(* see or change what it touches: one redb transaction, one shim           *)
(* exchange, or a section under zone_mutation_lock and the handles lock.   *)
(***************************************************************************)
EXTENDS Integers, FiniteSets, FiniteSetsExt

CONSTANTS
    Tasks,              \* task identifiers that clients submit
    ZoneIds,            \* zone UUIDs that can be minted
    Containers,         \* container UUIDs that can be minted
    None,               \* no zone, no container, no row, no record
    MAX_RESULT_BYTES,   \* the wire budget of one sealed result
    ResultsMaxBytes,    \* [evidence] results_max_bytes
    FaultKinds,         \* the faults that may happen
    MaxFaults,          \* how many faults may happen in one behaviour
    Operator            \* whether operators delete zones and containers

AllFaults == {"crash", "io", "reply", "zone"}

ASSUME ConstantsAssumption ==
    /\ MAX_RESULT_BYTES \in Nat \ {0}
    /\ ResultsMaxBytes \in Nat
    /\ MaxFaults \in Nat
    /\ FaultKinds \subseteq AllFaults
    /\ Operator \in BOOLEAN

VARIABLES
    daemon,   \* "down", "recovering" (before serving) or "serving"
    result,   \* sandbox_results: length and verdict of each task's entry
    rec,      \* the recovery table
    named,    \* zone id redb holds under the operators' zone name
    temps,    \* temporary zones in redb, each under its own random name
    row,      \* the containers table
    handles,  \* zones with a live backend handle in this daemon
    hc,       \* containers with a cached handle in this daemon
    shim,     \* what the zone shims know of each container
    pc, wk,   \* the worker of each task: where it is, and its locals
    doomed,   \* zones whose asynchronous cleanup has been spawned
    minted,   \* zone ids already used: a UUID is never minted twice
    starts,   \* history: executions of a task since it was reserved
    opGone,   \* history: zones and containers operators deleted
    faults    \* faults so far

store    == <<result, rec>>
registry == <<named, temps, row, handles, hc>>
worker   == <<pc, wk>>
history  == <<minted, starts, opGone>>
vars     == <<daemon, store, registry, shim, worker, doomed, history, faults>>

-----------------------------------------------------------------------------
(* The tables.  An entry of length 0 is a reservation; a committed entry   *)
(* carries the verdict that was signed.                                    *)

Verdicts == {"exited", "timed_out", "runtime_error", "interrupted"}

Absent == [len |-> -1, by |-> "none"]
Empty  == [len |-> 0,  by |-> "none"]
Sealed == [len: 1..MAX_RESULT_BYTES, by: Verdicts]

Records == [zone: ZoneIds, cont: Containers \cup {None}, owns: BOOLEAN]
Rows    == [task: Tasks, zone: ZoneIds, st: {"Created", "Running", "Stopped"}]
Insts   == [task: Tasks, zone: ZoneIds, admitted: ZoneIds,
            st: {"created", "running", "stopped", "gone"}]

Workers == [kind: {"temp", "keep", "named"}, zone: ZoneIds \cup {None},
            cont: Containers \cup {None}, owns: BOOLEAN,
            at: ZoneIds \cup {None}, out: Verdicts]

\* `None' is none of the things it stands in for.
ASSUME NoneAssumption ==
    /\ None \notin ZoneIds
    /\ None \notin Containers
    /\ None \notin Records
    /\ None \notin Rows
    /\ None \notin Insts

PCs == {"idle", "zone", "admit", "create", "backend", "bind", "start",
        "started", "wait", "polled", "stopping", "post", "rsave", "cleanup",
        "finish"}

IdleWorker == [kind |-> "temp", zone |-> None, cont |-> None, owns |-> FALSE,
               at |-> None, out |-> "runtime_error"]

\* Mutant: a reservation is charged its present length.
ChargeLength(t) == IF result[t] = Absent THEN 0 ELSE result[t].len

\* What reserve_result charges an entry: anything not finally settled costs
\* the whole wire budget.
Charge(t) ==
    IF result[t] = Absent THEN 0
    ELSE IF result[t] = Empty \/ rec[t] # None THEN MAX_RESULT_BYTES
    ELSE result[t].len

Used == MapThenSumSet(Charge, Tasks)

\* Mutant: an interrupted reservation may be taken again.
reserve_result_again(t) ==
    /\ result[t] \in {Absent, Empty}
    /\ Used + MAX_RESULT_BYTES =< ResultsMaxBytes
    /\ result' = [result EXCEPT ![t] = Empty]

reserve_result(t) ==
    /\ result[t] = Absent
    /\ Used + MAX_RESULT_BYTES =< ResultsMaxBytes
    /\ result' = [result EXCEPT ![t] = Empty]

save_result(t, r) ==
    /\ result[t] = Empty
    /\ result' = [result EXCEPT ![t] = r]

\* Mutant: the recovery table is not consulted.
delete_result_blindly(t) == result' = [result EXCEPT ![t] = Absent]

delete_result(t) ==
    /\ rec[t] = None
    /\ result' = [result EXCEPT ![t] = Absent]

put_recovery(t, r) ==
    /\ result[t] = Empty
    /\ rec' = [rec EXCEPT ![t] = r]

finish_recovery(t) ==
    /\ result[t] \in Sealed
    /\ rec' = [rec EXCEPT ![t] = None]

-----------------------------------------------------------------------------
(* Helpers shared by the handlers.                                         *)

Goto(t, l) == pc' = [pc EXCEPT ![t] = l]

Done(t) == Goto(t, "idle") /\ wk' = [wk EXCEPT ![t] = IdleWorker]

At(t, l) == daemon = "serving" /\ pc[t] = l

Fault(k) == k \in FaultKinds /\ faults < MaxFaults /\ faults' = faults + 1

\* The zone id that redb and the handle map hold now under the name the
\* worker resolved; a temporary name is random and never reused.
ZoneByName(t) ==
    IF wk[t].kind = "named" THEN named
    ELSE IF wk[t].zone \in temps THEN wk[t].zone ELSE None

SetInst(c, st) == [shim EXCEPT ![c].st = st]

\* put_container: an upsert of the copy the handler read earlier, whatever
\* has happened to the row since.
put_container(c, t, z, st) ==
    row' = [row EXCEPT ![c] = [task |-> t, zone |-> z, st |-> st]]

\* The rows cleanup and recovery attribute to the record r of task t: in the
\* recorded zone id, by container id once bound, by container name before.
task_containers(t, r) ==
    {c \in Containers :
        /\ row[c] # None
        /\ row[c].zone = r.zone
        /\ IF r.cont = None THEN row[c].task = t ELSE c = r.cont}

\* delete_zone with force: the backend drains the zone (every workload in its
\* cgroup is gone, its shim with it), then rows, zone and handles go.
Drained(z) ==
    [c \in Containers |->
        IF shim[c] # None /\ shim[c].zone = z
        THEN [shim[c] EXCEPT !.st = "gone"] ELSE shim[c]]

RowsOf(z) == {c \in Containers : row[c] # None /\ row[c].zone = z}

delete_zone(z) ==
    /\ z \in temps \cup {named}
    /\ z \in handles
    /\ shim' = Drained(z)
    /\ row' = [c \in Containers |-> IF c \in RowsOf(z) THEN None ELSE row[c]]
    /\ hc' = hc \ RowsOf(z)
    /\ temps' = temps \ {z}
    /\ named' = IF named = z THEN None ELSE named
    /\ handles' = handles \ {z}

\* delete_container with force, given the state st its row shows: only a row
\* that says Running is stopped first, and only a zone with a live handle
\* has its shim asked; the shim refuses to delete a running container and
\* deletes an unknown one as a no-op.
ShimAfterStop(c, st) == IF st = "Running" THEN "stopped" ELSE shim[c].st

CanDeleteContainer(c, st) ==
    /\ st = "Running" => c \in hc /\ shim[c].st = "running"
    /\ row[c].zone \in handles => ShimAfterStop(c, st) # "running"

delete_container(c, st) ==
    /\ CanDeleteContainer(c, st)
    /\ shim' = SetInst(c, IF row[c].zone \in handles THEN "gone"
                          ELSE ShimAfterStop(c, st))
    /\ row' = [row EXCEPT ![c] = None]
    /\ hc' = hc \ {c}

\* Mutant: the row is taken as it is.
NotRefreshed(c) == row[c].st

\* What get_container_state leaves in the row: an exit the shim reports.
Refreshed(c) ==
    IF row[c].zone \in handles /\ shim[c].st = "stopped"
    THEN "Stopped" ELSE row[c].st

-----------------------------------------------------------------------------
(* RunSandbox, from the reservation to the recovery record.                *)

Init ==
    /\ daemon = "serving"
    /\ result = [t \in Tasks |-> Absent]
    /\ rec = [t \in Tasks |-> None]
    /\ named = None /\ temps = {} /\ handles = {} /\ hc = {}
    /\ row = [c \in Containers |-> None]
    /\ shim = [c \in Containers |-> None]
    /\ pc = [t \in Tasks |-> "idle"]
    /\ wk = [t \in Tasks |-> IdleWorker]
    /\ doomed = {} /\ minted = {} /\ opGone = {}
    /\ starts = [t \in Tasks |-> 0]
    /\ faults = 0

\* An identifier already reserved, or a full store, is refused with no effect.
Reserve(t) ==
    /\ At(t, "idle")
    /\ reserve_result(t)
    /\ Goto(t, "zone")
    /\ \E k \in {"temp", "keep", "named"} :
         wk' = [wk EXCEPT ![t] = [IdleWorker EXCEPT !.kind = k,
                                                    !.owns = (k = "temp")]]
    /\ UNCHANGED <<daemon, rec, registry, shim, doomed, history, faults>>

\* An empty zone name allocates a temporary zone.
AllocateZone(t) ==
    /\ At(t, "zone")
    /\ wk[t].kind # "named"
    /\ \E z \in ZoneIds \ minted :
         /\ minted' = minted \cup {z}
         /\ temps' = temps \cup {z}
         /\ handles' = handles \cup {z}
         /\ wk' = [wk EXCEPT ![t].zone = z]
    /\ Goto(t, "admit")
    /\ UNCHANGED <<daemon, store, named, row, hc, shim, doomed, starts, opGone,
                   faults>>

\* A named zone must already exist.
ResolveZone(t) ==
    /\ At(t, "zone")
    /\ wk[t].kind = "named"
    /\ named # None
    /\ wk' = [wk EXCEPT ![t].zone = named]
    /\ Goto(t, "admit")
    /\ UNCHANGED <<daemon, store, registry, shim, doomed, history, faults>>

\* The temporary zone the cleanup guard is armed for.
Guarded(t) == IF pc[t] = "admit" /\ wk[t].owns THEN {wk[t].zone} ELSE {}

\* Mutant: the guard of the temporary zone stays armed after admission.
AdmitArmed(t) ==
    /\ At(t, "admit")
    /\ ZoneByName(t) \in handles
    /\ put_recovery(t, [zone |-> wk[t].zone, cont |-> None, owns |-> wk[t].owns])
    /\ Goto(t, "create")
    /\ doomed' = doomed \cup Guarded(t)
    /\ UNCHANGED <<daemon, result, registry, shim, wk, history, faults>>

\* The preflight passes and the recovery context is committed: from here the
\* reservation is never released by the worker and the guard is disarmed.
Admit(t) ==
    /\ At(t, "admit")
    /\ ZoneByName(t) \in handles
    /\ put_recovery(t, [zone |-> wk[t].zone, cont |-> None, owns |-> wk[t].owns])
    /\ Goto(t, "create")
    /\ UNCHANGED <<daemon, result, registry, shim, wk, doomed, history, faults>>

\* Any refusal before admission: the cleanup guard spawns the deletion of the
\* temporary zone, then ActiveTask's drop releases the reservation.
Refuse(t) ==
    /\ At(t, "zone") \/ At(t, "admit")
    /\ delete_result(t)
    /\ doomed' = doomed \cup Guarded(t)
    /\ Done(t)
    /\ UNCHANGED <<daemon, rec, registry, shim, history, faults>>

\* The drop's delete_result fails: the error is only logged.
RefuseLeaks(t) ==
    /\ At(t, "zone") \/ At(t, "admit")
    /\ Fault("io")
    /\ doomed' = doomed \cup Guarded(t)
    /\ Done(t)
    /\ UNCHANGED <<daemon, store, registry, shim, history>>

\* The spawned deletion of a refused task's temporary zone, some time later.
GuardedZoneCleanup(z) ==
    /\ daemon = "serving"
    /\ z \in doomed
    /\ doomed' = doomed \ {z}
    /\ IF z \in temps THEN delete_zone(z)
       ELSE UNCHANGED <<registry, shim>>
    /\ UNCHANGED <<daemon, store, worker, history, faults>>

GuardedZoneCleanupFails(z) ==
    /\ daemon = "serving"
    /\ z \in doomed
    /\ Fault("io")
    /\ doomed' = doomed \ {z}
    /\ UNCHANGED <<daemon, store, registry, shim, worker, history>>

-----------------------------------------------------------------------------
(* execute_task and run_started_container.                                 *)

\* Every failure after admission becomes a runtime_error outcome.
Fails(t) ==
    /\ Goto(t, "post")
    /\ wk' = [wk EXCEPT ![t].out = "runtime_error"]

\* create_container reads the zone by name, then prepares the layers.
ReadZone(t) ==
    /\ At(t, "create")
    /\ IF ZoneByName(t) = None THEN Fails(t)
       ELSE wk' = [wk EXCEPT ![t].at = ZoneByName(t)] /\ Goto(t, "backend")
    /\ UNCHANGED <<daemon, store, registry, shim, doomed, history, faults>>

\* Under the handles read lock: the shim of the zone that has the name *now*
\* registers the container; its row carries the zone id read before.
NewInst(t) ==
    [task |-> t, zone |-> ZoneByName(t), admitted |-> wk[t].zone,
     st |-> "created"]

CreateContainer(t) ==
    /\ At(t, "backend")
    /\ ZoneByName(t) \in handles
    /\ \E c \in Containers :
         /\ shim[c] = None
         /\ shim' = [shim EXCEPT ![c] = NewInst(t)]
         /\ put_container(c, t, wk[t].at, "Created")
         /\ hc' = hc \cup {c}
         /\ wk' = [wk EXCEPT ![t].cont = c]
    /\ Goto(t, "bind")
    /\ UNCHANGED <<daemon, store, named, temps, handles, doomed, history, faults>>

\* No handle for the name, a missing image, a backend error; or put_container
\* fails after the shim registered the container.
CreateFails(t) ==
    /\ At(t, "backend")
    /\ \/ ZoneByName(t) \notin handles /\ UNCHANGED <<shim, faults>>
       \/ Fault("io") /\ UNCHANGED shim
       \/ /\ Fault("io")
          /\ ZoneByName(t) \in handles
          /\ \E c \in Containers : shim[c] = None
                                   /\ shim' = [shim EXCEPT ![c] = NewInst(t)]
    /\ Fails(t)
    /\ UNCHANGED <<daemon, store, registry, doomed, history>>

\* The container id and image commitment reach the record before the start.
BindContainer(t) ==
    /\ At(t, "bind")
    /\ put_recovery(t, [zone |-> wk[t].zone, cont |-> wk[t].cont,
                        owns |-> wk[t].owns])
    /\ Goto(t, "start")
    /\ UNCHANGED <<daemon, result, registry, shim, wk, doomed, history, faults>>

BindFails(t) ==
    /\ At(t, "bind")
    /\ Fault("io")
    /\ Fails(t)
    /\ UNCHANGED <<daemon, store, registry, shim, doomed, history>>

\* The row and the handle are found and the shim starts the container; only a
\* created container starts.
Startable(t) ==
    /\ row[wk[t].cont] # None
    /\ wk[t].cont \in hc
    /\ shim[wk[t].cont].st = "created"

StartContainer(t) ==
    /\ At(t, "start")
    /\ Startable(t)
    /\ shim' = SetInst(wk[t].cont, "running")
    /\ starts' = [starts EXCEPT ![t] = @ + 1]
    /\ Goto(t, "started")
    /\ UNCHANGED <<daemon, store, registry, wk, doomed, minted, opGone, faults>>

\* The shim starts the container but the daemon sees an error: the reply is
\* late (30 s read timeout) or the connection breaks.
StartReplyLost(t) ==
    /\ At(t, "start")
    /\ Startable(t)
    /\ Fault("reply")
    /\ shim' = SetInst(wk[t].cont, "running")
    /\ starts' = [starts EXCEPT ![t] = @ + 1]
    /\ Fails(t)
    /\ UNCHANGED <<daemon, store, registry, doomed, minted, opGone>>

StartFails(t) ==
    /\ At(t, "start")
    /\ \/ ~Startable(t) /\ UNCHANGED faults
       \/ Fault("io")
    /\ Fails(t)
    /\ UNCHANGED <<daemon, store, registry, shim, doomed, history>>

\* start_container's put_container of the row it read before the shim call.
RecordRunning(t) ==
    /\ At(t, "started")
    /\ put_container(wk[t].cont, t, wk[t].at, "Running")
    /\ Goto(t, "wait")
    /\ UNCHANGED <<daemon, store, named, temps, handles, hc, shim, wk, doomed,
                   history, faults>>

RecordRunningFails(t) ==
    /\ At(t, "started")
    /\ Fault("io")
    /\ Fails(t)
    /\ UNCHANGED <<daemon, store, registry, shim, doomed, history>>

\* wait_for_exit: one poll reads the row and asks the shim of the row's zone;
\* every error, and every state but stopped, means another round.
PollStopped(t) ==
    /\ At(t, "wait")
    /\ row[wk[t].cont] # None
    /\ row[wk[t].cont].zone \in handles
    /\ shim[wk[t].cont].st = "stopped"
    /\ Goto(t, "polled")
    /\ UNCHANGED <<daemon, store, registry, shim, wk, doomed, history, faults>>

\* After the wait: the output is read, and the zone's policy by zone name.
Waited(t, out) ==
    /\ Goto(t, "post")
    /\ wk' = [wk EXCEPT ![t].out =
                IF ZoneByName(t) = None THEN "runtime_error" ELSE out]

RecordExit(t) ==
    /\ At(t, "polled")
    /\ put_container(wk[t].cont, t, wk[t].at, "Stopped")
    /\ Waited(t, "exited")
    /\ UNCHANGED <<daemon, store, named, temps, handles, hc, shim, doomed,
                   history, faults>>

\* The deadline passes: stop_container through the cached handle.
Timeout(t) ==
    /\ At(t, "wait")
    /\ row[wk[t].cont] # None
    /\ wk[t].cont \in hc
    /\ shim[wk[t].cont].st = "running"
    /\ shim' = SetInst(wk[t].cont, "stopped")
    /\ Goto(t, "stopping")
    /\ UNCHANGED <<daemon, store, registry, wk, doomed, history, faults>>

RecordStopped(t) ==
    /\ At(t, "stopping")
    /\ put_container(wk[t].cont, t, wk[t].at, "Stopped")
    /\ Waited(t, "timed_out")
    /\ UNCHANGED <<daemon, store, named, temps, handles, hc, shim, doomed,
                   history, faults>>

\* The stop fails (nothing left to stop, or an error): the error is dropped.
TimeoutStopFails(t) ==
    /\ At(t, "wait")
    /\ \/ /\ \/ row[wk[t].cont] = None
             \/ wk[t].cont \notin hc
             \/ shim[wk[t].cont].st # "running"
          /\ UNCHANGED faults
       \/ Fault("reply")
    /\ Waited(t, "timed_out")
    /\ UNCHANGED <<daemon, store, registry, shim, doomed, history>>

-----------------------------------------------------------------------------
(* Sealing the result, and the cleanup the worker and recovery share.      *)

\* Postflight, seal_bounded_result and save_result.
Commit(t) ==
    /\ At(t, "post")
    /\ \E n \in 1..MAX_RESULT_BYTES :
         save_result(t, [len |-> n, by |-> wk[t].out])
    /\ Goto(t, "cleanup")
    /\ UNCHANGED <<daemon, rec, registry, shim, wk, doomed, history, faults>>

\* Sealing or saving fails: the request errs, the record stays for recovery.
CommitFails(t) ==
    /\ At(t, "post")
    /\ Fault("io")
    /\ Done(t)
    /\ UNCHANGED <<daemon, store, registry, shim, doomed, history>>

\* cleanup_recovered_task, for the in-memory record wk[t].
CleanupZone(t) ==
    /\ pc[t] = "cleanup"
    /\ wk[t].owns
    /\ IF wk[t].zone \in temps THEN delete_zone(wk[t].zone)
       ELSE UNCHANGED <<registry, shim>>
    /\ Goto(t, "finish")
    /\ UNCHANGED <<daemon, store, wk, doomed, history, faults>>

CleanupContainer(t) ==
    /\ pc[t] = "cleanup"
    /\ ~wk[t].owns
    /\ IF task_containers(t, wk[t]) = {} THEN UNCHANGED <<row, hc, shim>>
       ELSE \E c \in task_containers(t, wk[t]) :
              delete_container(c, Refreshed(c))
    /\ Goto(t, "finish")
    /\ UNCHANGED <<daemon, store, named, temps, handles, wk, doomed, history,
                   faults>>

FinishRecovery(t) ==
    /\ pc[t] = "finish"
    /\ task_containers(t, wk[t]) = {}
    /\ finish_recovery(t)
    /\ Done(t)
    /\ UNCHANGED <<daemon, result, registry, shim, doomed, history, faults>>

\* Everything the daemon holds in memory, lost when the process ends.
Forget ==
    /\ daemon' = "down"
    /\ pc' = [t \in Tasks |-> "idle"]
    /\ wk' = [t \in Tasks |-> IdleWorker]
    /\ handles' = {} /\ hc' = {} /\ doomed' = {}

CleanupBlocked(t) ==
    IF pc[t] = "finish" THEN task_containers(t, wk[t]) # {}
    ELSE IF wk[t].owns THEN wk[t].zone \in temps /\ wk[t].zone \notin handles
    ELSE \E c \in task_containers(t, wk[t]) : ~CanDeleteContainer(c, Refreshed(c))

\* delete_zone fails, or the daemon dies, after the backend is drained: some
\* rows are already gone, the zone is still in redb.
PartlyDeleted(z) ==
    /\ z \in handles
    /\ shim' = Drained(z)
    /\ \E R \in SUBSET RowsOf(z) :
         row' = [c \in Containers |-> IF c \in R THEN None ELSE row[c]]

CleanupZonePartly(t) ==
    /\ pc[t] = "cleanup"
    /\ wk[t].owns
    /\ wk[t].zone \in temps
    /\ Fault("io")
    /\ PartlyDeleted(wk[t].zone)
    /\ IF daemon = "recovering" THEN Forget
       ELSE /\ Done(t)
            /\ hc' = {c \in hc : row'[c] # None \/ row[c] = None}
            /\ UNCHANGED <<daemon, handles, doomed>>
    /\ UNCHANGED <<store, named, temps, history>>

\* Mutant: the record is dropped although the cleanup failed.
CleanupFailsForgets(t) ==
    /\ pc[t] \in {"cleanup", "finish"}
    /\ CleanupBlocked(t)
    /\ finish_recovery(t)
    /\ Done(t)
    /\ UNCHANGED <<daemon, result, registry, shim, doomed, history, faults>>

\* A failed cleanup leaves the record.  The worker only logs it; during
\* recovery it ends the daemon.
CleanupFails(t) ==
    /\ pc[t] \in {"cleanup", "finish"}
    /\ \/ CleanupBlocked(t) /\ UNCHANGED faults
       \/ Fault("io")
    /\ IF daemon = "recovering" THEN Forget
       ELSE Done(t) /\ UNCHANGED <<daemon, handles, hc, doomed>>
    /\ UNCHANGED <<store, named, temps, row, shim, history>>

-----------------------------------------------------------------------------
(* Crash, restart and recover_tasks.                                       *)

Crash ==
    /\ daemon # "down"
    /\ Fault("crash")
    /\ Forget
    /\ UNCHANGED <<store, named, temps, row, shim, history>>

Zones == temps \cup ({named} \ {None})

\* Mutant: container handles are not rebuilt.
ReconcileZonesOnly(recovered) ==
    /\ daemon = "down"
    /\ daemon' = "recovering"
    /\ handles' = recovered
    /\ hc' = {}
    /\ UNCHANGED <<store, named, temps, row, shim, worker, doomed, history>>

\* reconcile: a zone whose recovery fails has no handle, and neither have its
\* containers.
Reconcile(recovered) ==
    /\ daemon = "down"
    /\ daemon' = "recovering"
    /\ handles' = recovered
    /\ hc' = {c \in Containers : row[c] # None /\ row[c].zone \in recovered}
    /\ UNCHANGED <<store, named, temps, row, shim, worker, doomed, history>>

Restart == Reconcile(Zones) /\ UNCHANGED faults

RestartZoneFails ==
    \E z \in Zones : Fault("zone") /\ Reconcile(Zones \ {z})

\* One record is handled at a time.
RecoverTurn(t) ==
    /\ daemon = "recovering"
    /\ \A u \in Tasks : pc[u] = "idle"
    /\ rec[t] # None

Adopt(t) ==
    wk' = [wk EXCEPT ![t] = [IdleWorker EXCEPT !.zone = rec[t].zone,
                                               !.cont = rec[t].cont,
                                               !.owns = rec[t].owns]]

\* A committed result is left alone; only its cleanup is retried.
RecoverCommitted(t) ==
    /\ RecoverTurn(t)
    /\ result[t] \in Sealed
    /\ Adopt(t)
    /\ Goto(t, "cleanup")
    /\ UNCHANGED <<daemon, store, registry, shim, doomed, history, faults>>

\* The shim can say what became of the container.
Reconcilable(c) ==
    /\ row[c].zone \in handles
    /\ shim[c].st # "gone"
    /\ shim[c].st = "running" => c \in hc

\* Mutant: recovery believes the row, which lags behind the shim.
RecoverStopByRow(t) ==
    /\ RecoverTurn(t)
    /\ result[t] = Empty
    /\ \/ task_containers(t, rec[t]) = {} /\ UNCHANGED <<row, shim>>
       \/ \E c \in Containers :
            /\ task_containers(t, rec[t]) = {c}
            /\ Reconcilable(c)
            /\ IF row[c].st # "Running" THEN UNCHANGED <<row, shim>>
               ELSE /\ shim' = SetInst(c, "stopped")
                    /\ row' = [row EXCEPT ![c].st = "Stopped"]
    /\ Adopt(t)
    /\ Goto(t, "rsave")
    /\ UNCHANGED <<daemon, store, named, temps, handles, hc, doomed, history,
                   faults>>

\* An uncommitted task: the shim is consulted and a running container
\* stopped; a stop or an exit is recorded in the row.
RecoverStop(t) ==
    /\ RecoverTurn(t)
    /\ result[t] = Empty
    /\ \/ task_containers(t, rec[t]) = {} /\ UNCHANGED <<row, shim>>
       \/ \E c \in Containers :
            /\ task_containers(t, rec[t]) = {c}
            /\ Reconcilable(c)
            /\ IF shim[c].st = "created" THEN UNCHANGED <<row, shim>>
               ELSE /\ shim' = SetInst(c, "stopped")
                    /\ row' = [row EXCEPT ![c].st = "Stopped"]
    /\ Adopt(t)
    /\ Goto(t, "rsave")
    /\ UNCHANGED <<daemon, store, named, temps, handles, hc, doomed, history,
                   faults>>

RecoverSave(t) ==
    /\ daemon = "recovering"
    /\ pc[t] = "rsave"
    /\ \E n \in 1..MAX_RESULT_BYTES :
         save_result(t, [len |-> n, by |-> "interrupted"])
    /\ Goto(t, "cleanup")
    /\ UNCHANGED <<daemon, rec, registry, shim, wk, doomed, history, faults>>

\* Anything recovery cannot reconcile fails the startup and keeps the record.
RecoverFails(t) ==
    /\ \/ /\ RecoverTurn(t)
          /\ \/ result[t] = Absent
             \/ /\ result[t] = Empty
                /\ \/ Cardinality(task_containers(t, rec[t])) > 1
                   \/ \E c \in task_containers(t, rec[t]) : ~Reconcilable(c)
          /\ UNCHANGED faults
       \/ RecoverTurn(t) /\ Fault("io")
       \/ daemon = "recovering" /\ pc[t] = "rsave" /\ Fault("io")
    /\ Forget
    /\ UNCHANGED <<store, named, temps, row, shim, history>>

Serve ==
    /\ daemon = "recovering"
    /\ \A t \in Tasks : rec[t] = None
    /\ daemon' = "serving"
    /\ UNCHANGED <<store, registry, shim, worker, doomed, history, faults>>

-----------------------------------------------------------------------------
(* The other actors: workloads, clients that delete results, operators.    *)

Exit(c) ==
    /\ shim[c] # None
    /\ shim[c].st = "running"
    /\ shim' = SetInst(c, "stopped")
    /\ UNCHANGED <<daemon, store, registry, worker, doomed, history, faults>>

\* Mutant: container rows do not keep the identifier reserved.
DeleteResultUnscanned(t) ==
    /\ At(t, "idle")
    /\ result[t] # Absent
    /\ delete_result(t)
    /\ starts' = [starts EXCEPT ![t] = 0]
    /\ UNCHANGED <<daemon, rec, registry, shim, worker, doomed, minted, opGone,
                   faults>>

\* delete_sandbox_result, under the active_tasks lock.
DeleteResult(t) ==
    /\ At(t, "idle")
    /\ result[t] # Absent
    /\ \A c \in Containers : row[c] # None => row[c].task # t
    /\ delete_result(t)
    /\ starts' = [starts EXCEPT ![t] = 0]
    /\ UNCHANGED <<daemon, rec, registry, shim, worker, doomed, minted, opGone,
                   faults>>

OperatorCreatesZone ==
    /\ daemon = "serving"
    /\ named = None
    /\ \E z \in ZoneIds \ minted :
         /\ named' = z
         /\ minted' = minted \cup {z}
         /\ handles' = handles \cup {z}
    /\ UNCHANGED <<daemon, store, temps, row, hc, shim, worker, doomed, starts,
                   opGone, faults>>

OperatorDeletesZone(z) ==
    /\ Operator
    /\ daemon = "serving"
    /\ delete_zone(z)
    /\ opGone' = opGone \cup {z}
    /\ UNCHANGED <<daemon, store, worker, doomed, minted, starts, faults>>

OperatorDeletesZonePartly(z) ==
    /\ Operator
    /\ daemon = "serving"
    /\ z \in Zones
    /\ Fault("io")
    /\ PartlyDeleted(z)
    /\ hc' = {c \in hc : row'[c] # None \/ row[c] = None}
    /\ opGone' = opGone \cup {z}
    /\ UNCHANGED <<daemon, store, named, temps, handles, worker, doomed, minted,
                   starts>>

OperatorDeletesContainer(c) ==
    /\ Operator
    /\ daemon = "serving"
    /\ row[c] # None
    /\ delete_container(c, row[c].st)
    /\ opGone' = opGone \cup {c}
    /\ UNCHANGED <<daemon, store, named, temps, handles, worker, doomed, minted,
                   starts, faults>>

-----------------------------------------------------------------------------

WorkerStep(t) ==
    \/ Reserve(t) \/ AllocateZone(t) \/ ResolveZone(t) \/ Admit(t)
    \/ Refuse(t) \/ RefuseLeaks(t)
    \/ ReadZone(t) \/ CreateContainer(t) \/ CreateFails(t)
    \/ BindContainer(t) \/ BindFails(t)
    \/ StartContainer(t) \/ StartReplyLost(t) \/ StartFails(t)
    \/ RecordRunning(t) \/ RecordRunningFails(t)
    \/ PollStopped(t) \/ RecordExit(t)
    \/ Timeout(t) \/ RecordStopped(t) \/ TimeoutStopFails(t)
    \/ Commit(t) \/ CommitFails(t)

CleanupStep(t) ==
    \/ CleanupZone(t) \/ CleanupZonePartly(t) \/ CleanupContainer(t)
    \/ FinishRecovery(t) \/ CleanupFails(t)

RecoveryStep(t) ==
    RecoverCommitted(t) \/ RecoverStop(t) \/ RecoverSave(t) \/ RecoverFails(t)

Next ==
    \/ \E t \in Tasks : WorkerStep(t) \/ CleanupStep(t) \/ RecoveryStep(t)
                        \/ DeleteResult(t)
    \/ \E z \in ZoneIds : GuardedZoneCleanup(z) \/ GuardedZoneCleanupFails(z)
                          \/ OperatorDeletesZone(z) \/ OperatorDeletesZonePartly(z)
    \/ \E c \in Containers : Exit(c) \/ OperatorDeletesContainer(c)
    \/ OperatorCreatesZone
    \/ Crash \/ Restart \/ RestartZoneFails \/ Serve

Spec == Init /\ [][Next]_vars

-----------------------------------------------------------------------------
TypeOK ==
    /\ daemon \in {"down", "recovering", "serving"}
    /\ result \in [Tasks -> {Absent, Empty} \cup Sealed]
    /\ rec \in [Tasks -> Records \cup {None}]
    /\ named \in ZoneIds \cup {None}
    /\ temps \subseteq ZoneIds
    /\ row \in [Containers -> Rows \cup {None}]
    /\ handles \subseteq ZoneIds
    /\ hc \subseteq Containers
    /\ shim \in [Containers -> Insts \cup {None}]
    /\ pc \in [Tasks -> PCs]
    /\ wk \in [Tasks -> Workers]
    /\ doomed \subseteq ZoneIds
    /\ minted \subseteq ZoneIds
    /\ starts \in [Tasks -> Nat]
    /\ opGone \subseteq ZoneIds \cup Containers
    /\ faults \in Nat

-----------------------------------------------------------------------------
(* Properties.                                                             *)

Running(c) == shim[c] # None /\ shim[c].st = "running"

\* The container lives in the zone its task was admitted to.  A zone deleted
\* and recreated under the same name between admission and create_container
\* is a different zone.
Resident(c) == shim[c].zone = shim[c].admitted

\* "The command is never restarted": from the reservation of an identifier to
\* its deletion, run_owned and recover_tasks together start it at most once.
ExecutedAtMostOnce == \A t \in Tasks : starts[t] =< 1

\* A running task container is covered by a recovery record, so a crash at
\* any point finds it: put_recovery precedes the start, and finish_recovery
\* follows the container's end.
RunningIsRecorded ==
    \A c \in Containers :
        Running(c) /\ Resident(c) => rec[shim[c].task] # None

\* A record always has its result entry (recover_tasks fails the startup on
\* one that has not), and a worker past admission has both.
RecordHasReservation ==
    \A t \in Tasks :
        /\ rec[t] # None => result[t] # Absent
        /\ pc[t] \notin {"idle", "zone", "admit"} => rec[t] # None

\* "Recovery context is removed only after cleanup succeeds", and startup
\* recovery stops any running task: no task runs without a record, wherever
\* its container was created.
NoRunWithoutRecord ==
    \A c \in Containers : Running(c) => rec[shim[c].task] # None

\* A result that says the task exited, or that recovery settled it, is never
\* on record while the task still runs in its zone: recover_tasks trusts the
\* shim, not the row, which lags behind a start.
SettledIsStopped ==
    \A c \in Containers :
        Running(c) /\ Resident(c) =>
            result[shim[c].task].by \notin {"exited", "interrupted"}

\* Until the result is committed, nothing but an operator removes the task's
\* zone, its container row or the shim's container: cleanup_recovered_task
\* and the disarmed ZoneCleanupGuard never run ahead of save_result.
EvidenceKeptUntilCommit ==
    \A t \in Tasks :
        (rec[t] # None /\ result[t] = Empty /\ rec[t].zone \notin opGone) =>
            /\ rec[t].zone \in Zones
            /\ rec[t].cont \notin opGone \cup {None} =>
                 /\ row[rec[t].cont] # None
                 /\ shim[rec[t].cont].st # "gone"

\* At most one container row carries a task's name at a time, over every
\* reuse of the identifier: task_containers is never ambiguous.
OneContainerPerTask ==
    \A c, d \in Containers :
        (row[c] # None /\ row[d] # None /\ row[c].task = row[d].task) => c = d

\* What has been reserved never exceeds results_max_bytes, although every
\* reservation may still grow to a full-size result.
WithinCapacity == Used =< ResultsMaxBytes

\* A committed result stays byte-for-byte what it was until it is explicitly
\* deleted, and that only once no record, worker or container row needs it.
CommittedIsImmutable ==
    [][\A t \in Tasks :
         result[t] \in Sealed =>
           \/ result'[t] = result[t]
           \/ /\ result'[t] = Absent
              /\ daemon = "serving" /\ pc[t] = "idle" /\ rec[t] = None
              /\ \A c \in Containers : row[c] # None => row[c].task # t]_vars

-----------------------------------------------------------------------------
(* The inductive invariant behind the safety properties.                   *)

Holding  == {"bind", "start", "started", "wait", "polled", "stopping"}
Admitted == {"create", "backend", "post", "rsave"} \cup Holding
Settling == {"cleanup", "finish"}

\* A worker's locals are set where its next steps use them.
LocalsSet ==
    \A t \in Tasks :
        /\ pc[t] \in {"admit"} \cup Admitted \cup Settling => wk[t].zone \in ZoneIds
        /\ pc[t] \in {"backend"} \cup Holding => wk[t].at \in ZoneIds
        /\ pc[t] \in Holding =>
             /\ wk[t].cont \in Containers
             /\ shim[wk[t].cont] # None
             /\ shim[wk[t].cont].task = t
             /\ shim[wk[t].cont].admitted = wk[t].zone

\* What redb holds for a task at each point of its worker.
StoreInStep ==
    \A t \in Tasks :
        /\ pc[t] \in {"zone", "admit"} => result[t] = Empty /\ rec[t] = None
        /\ pc[t] \in Admitted => result[t] = Empty /\ rec[t] # None
        /\ pc[t] \in Settling => result[t] \in Sealed /\ rec[t] # None
        /\ rec[t] # None => result[t] # Absent

\* Nothing has run before the one start a reservation leads to.
StartsInStep ==
    \A t \in Tasks :
        /\ starts[t] =< 1
        /\ \/ result[t] = Absent
           \/ pc[t] \in {"zone", "admit", "create", "backend", "bind", "start"}
           => starts[t] = 0

\* The worker's copy of the record agrees with the one in redb, which learns
\* the container between create_container and the start.
RecordInStep ==
    \A t \in Tasks :
        /\ pc[t] \in Admitted \cup Settling =>
             /\ rec[t].zone = wk[t].zone
             /\ rec[t].cont # None => rec[t].cont = wk[t].cont
        /\ pc[t] \in {"create", "backend", "bind"} => rec[t].cont = None
        /\ pc[t] \in Holding \ {"bind"} => rec[t].cont = wk[t].cont

\* Zone ids are never reused, and a handle belongs to a zone in redb.
RegistryZones ==
    /\ Zones \subseteq minted
    /\ named \notin temps
    /\ handles \subseteq Zones

\* A container the shim still has lives in a zone of redb.
ShimZones ==
    \A c \in Containers :
        shim[c] # None => /\ shim[c].admitted \in minted
                          /\ shim[c].st # "gone" => shim[c].zone \in Zones

\* Workers and records name zones that existed; a worker admitted to the
\* operators' zone never holds a temporary one.
TaskZones ==
    \A t \in Tasks :
        /\ wk[t].zone # None => wk[t].zone \in minted
        /\ (wk[t].kind = "named" /\ pc[t] # "idle") => wk[t].zone \notin temps
        /\ rec[t] # None => rec[t].zone \in minted

\* The zone id create_container read is the admitted one whenever that zone
\* still exists: an id read after the zone was replaced matches no container
\* that lives where its task was admitted.
ZoneCopies ==
    \A t \in Tasks :
        /\ pc[t] = "backend" /\ wk[t].zone \in Zones => wk[t].at = wk[t].zone
        /\ pc[t] \in Holding /\ Resident(wk[t].cont) => wk[t].at = wk[t].zone

\* A row belongs to a container of the shim and names its task; where the
\* container lives in the zone it was admitted to, it names that zone too.
RowsInStep ==
    \A c \in Containers :
        row[c] # None => /\ shim[c] # None
                         /\ row[c].task = shim[c].task
                         /\ Resident(c) => row[c].zone = shim[c].zone

TaskInv ==
    /\ TypeOK /\ LocalsSet /\ StoreInStep /\ StartsInStep
    /\ RecordInStep /\ RegistryZones /\ ShimZones /\ TaskZones
    /\ ZoneCopies /\ RowsInStep

\* A dead daemon has no workers.  While no zone fails to recover, a live one
\* has a handle for every zone.
HandlesComplete ==
    IF daemon = "down" THEN \A t \in Tasks : pc[t] = "idle"
    ELSE Zones \subseteq handles

\* A running container keeps its row and its record, which names it.
RunningIsOwned ==
    \A c \in Containers :
        Running(c) /\ Resident(c) =>
            /\ row[c] # None
            /\ rec[shim[c].task] # None
            /\ rec[shim[c].task].cont = c
            /\ rec[shim[c].task].zone = shim[c].zone

\* No container of the task runs where the task was admitted.
Quiet(t) ==
    \A c \in Containers : Running(c) /\ Resident(c) => shim[c].task # t

\* The points from which a settled verdict is or will be signed.
QuietWhenSettled ==
    \A t \in Tasks :
        \/ pc[t] \in {"polled", "rsave"}
        \/ pc[t] = "post" /\ wk[t].out \in {"exited", "interrupted"}
        \/ result[t].by \in {"exited", "interrupted"}
        => Quiet(t)

OwnershipInv ==
    "zone" \notin FaultKinds =>
        HandlesComplete /\ RunningIsOwned /\ QuietWhenSettled

\* No container row carries the task's name.
NoRows(t) == \A c \in Containers : row[c] # None => row[c].task # t

\* A task that has not created its container.
Uncreated(t) ==
    result[t] = Absent \/ pc[t] \in {"zone", "admit", "create", "backend"}

\* A task's row appears once, between its reservation and its deletion, and
\* is the one its worker holds.
RowsOnce ==
    /\ OneContainerPerTask
    /\ \A t \in Tasks :
         /\ Uncreated(t) => NoRows(t)
         /\ pc[t] \in Holding =>
              \A c \in Containers :
                  row[c] # None /\ row[c].task = t => c = wk[t].cont

\* The zones a task names, in redb or in its worker, and the one it has to
\* itself: a temporary zone that goes when the task ends.
Claims(t, z) == wk[t].zone = z \/ (rec[t] # None /\ rec[t].zone = z)
Owns(t, z) ==
    \/ wk[t].owns /\ wk[t].zone = z
    \/ rec[t] # None /\ rec[t].owns /\ rec[t].zone = z

\* No other task and no operator knows a zone that a task owns, and nobody a
\* zone whose deletion was spawned.
ZonesExclusive ==
    /\ \A z \in ZoneIds, t \in Tasks :
         Owns(t, z) => z # named /\ \A u \in Tasks : Claims(u, z) => u = t
    /\ \A z \in doomed : z \in minted /\ z # named /\ \A t \in Tasks : ~Claims(t, z)
    /\ \A t \in Tasks :
         /\ wk[t].kind = "named" => ~wk[t].owns
         /\ pc[t] \in Admitted \cup Settling => rec[t].owns = wk[t].owns

\* A task with a record and no committed result.
Open(t) == rec[t] # None /\ result[t] = Empty

\* The container of a task: the one its worker or its record names.
Bound(t, c) == wk[t].cont = c \/ (rec[t] # None /\ rec[t].cont = c)

\* The container an open task has created, once it has its row.
Created(t, c) == rec[t].cont = c \/ (pc[t] = "bind" /\ wk[t].cont = c)

\* The row and the shim's container are there, in zone z.
Intact(c, z) ==
    /\ row[c] # None /\ row[c].zone = z
    /\ shim[c].zone = z /\ shim[c].st # "gone"

\* What belongs to a task whose result is not committed is there, unless an
\* operator removed it.
Kept(t) ==
    /\ \A c \in Containers : Bound(t, c) => shim[c] # None /\ shim[c].task = t
    /\ pc[t] = "admit" /\ wk[t].zone \notin opGone => wk[t].zone \in Zones
    /\ Open(t) /\ rec[t].zone \notin opGone =>
         /\ rec[t].zone \in Zones
         /\ \A c \in Containers \ opGone :
              Created(t, c) => Intact(c, rec[t].zone)

EvidenceKept == \A t \in Tasks : Kept(t)

EvidenceInv == RowsOnce /\ ZonesExclusive /\ EvidenceKept

-----------------------------------------------------------------------------
(* Liveness.  A supervisor restarts the daemon; recovery and cleanup are   *)
(* straight-line code that runs to its end.  Nothing makes clients submit, *)
(* workloads exit or deadlines pass.                                       *)

Fairness ==
    /\ WF_vars(Restart)
    /\ WF_vars(Serve)
    /\ \A t \in Tasks : WF_vars(CleanupStep(t)) /\ WF_vars(RecoveryStep(t))

FairSpec == Spec /\ Fairness

\* Startup recovery ends: after the last crash the daemon serves again,
\* whatever the crash interrupted, with no workload's help.
ServesAgain == daemon # "serving" ~> daemon = "serving"

\* Once a result is committed its cleanup ends and the record goes.
CleanupEnds ==
    \A t \in Tasks : result[t] \in Sealed /\ rec[t] # None ~> rec[t] = None

=============================================================================
