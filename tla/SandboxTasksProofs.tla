------------------------- MODULE SandboxTasksProofs -------------------------
(***************************************************************************)
(* Every reachable state of SandboxTasks satisfies TaskInv, for any number *)
(* of tasks, zones, containers and faults of every kind.  From it follow   *)
(* the type invariant and what redb guarantees about a task: it is started *)
(* at most once, its record never outlives its reservation, its committed  *)
(* result never changes.                                                   *)
(*                                                                         *)
(* Each conjunct of TaskInv has its own step lemma, with one case per      *)
(* group of actions that disturb it in the same way: first the types and   *)
(* what a step may do to a container in its shim, then what a worker       *)
(* relies on (its locals, the entries of redb, its copy of the record),    *)
(* then the rows and results that outlive it.                              *)
(*                                                                         *)
(* While every registered zone recovers at each restart, OwnershipInv      *)
(* holds as well: a running container is always owned by a recovery record *)
(* that names it, and a verdict that says the task ended is true.  With a  *)
(* zone that fails to recover neither holds in general: its containers     *)
(* have no handle, so cleanup drops their rows without asking the shim.    *)
(***************************************************************************)
EXTENDS SandboxTasks, TLAPS

\* Leaves go to the SMT solver, then to Zenon, unless they name a prover.
USE SMTT(20), ZenonT(20)

(* Types of the worker and of the shims' containers.                       *)

\* The locals of a worker stay typed under the updates the handlers make.
LEMMA WorkerTypes ==
    /\ IdleWorker \in Workers
    /\ \A k \in {"temp", "keep", "named"}, b \in BOOLEAN :
         [IdleWorker EXCEPT !.kind = k, !.owns = b] \in Workers
    /\ \A z \in ZoneIds, c \in Containers \cup {None}, b \in BOOLEAN :
         [IdleWorker EXCEPT !.zone = z, !.cont = c, !.owns = b] \in Workers
    /\ \A w \in Workers :
         /\ w.zone \in ZoneIds \cup {None}
         /\ w.cont \in Containers \cup {None}
         /\ w.owns \in BOOLEAN
         /\ w.at \in ZoneIds \cup {None}
         /\ w.out \in Verdicts
         /\ \A z \in ZoneIds \cup {None} : [w EXCEPT !.zone = z] \in Workers
         /\ \A z \in ZoneIds \cup {None} : [w EXCEPT !.at = z] \in Workers
         /\ \A c \in Containers \cup {None} : [w EXCEPT !.cont = c] \in Workers
         /\ \A v \in Verdicts : [w EXCEPT !.out = v] \in Workers
<1>1. IdleWorker \in Workers
  BY Zenon DEF Workers, IdleWorker, Verdicts
<1>2. \A k \in {"temp", "keep", "named"}, b \in BOOLEAN :
        [IdleWorker EXCEPT !.kind = k, !.owns = b] \in Workers
  BY ZenonT(20), SMTT(20) DEF Workers, IdleWorker, Verdicts
<1>3. \A z \in ZoneIds, c \in Containers \cup {None}, b \in BOOLEAN :
        [IdleWorker EXCEPT !.zone = z, !.cont = c, !.owns = b] \in Workers
  BY ZenonT(20), SMTT(20) DEF Workers, IdleWorker, Verdicts
<1>4. ASSUME NEW w \in Workers
      PROVE  /\ w.zone \in ZoneIds \cup {None}
             /\ w.cont \in Containers \cup {None}
             /\ w.owns \in BOOLEAN
             /\ w.at \in ZoneIds \cup {None}
             /\ w.out \in Verdicts
  BY Zenon DEF Workers
<1>5. ASSUME NEW w \in Workers
      PROVE  /\ \A z \in ZoneIds \cup {None} : [w EXCEPT !.zone = z] \in Workers
             /\ \A z \in ZoneIds \cup {None} : [w EXCEPT !.at = z] \in Workers
  BY Zenon DEF Workers
<1>6. ASSUME NEW w \in Workers
      PROVE  /\ \A c \in Containers \cup {None} : [w EXCEPT !.cont = c] \in Workers
             /\ \A v \in Verdicts : [w EXCEPT !.out = v] \in Workers
  BY Zenon DEF Workers
<1> QED BY <1>1, <1>2, <1>3, <1>4, <1>5, <1>6, ZenonT(20), SMTT(20)

InstStates == {"created", "running", "stopped", "gone"}

\* What every step leaves of a container in its shim: its task and its zones.
ShimFrame ==
    /\ shim' \in [Containers -> Insts \cup {None}]
    /\ \A c \in Containers :
         shim[c] # None =>
           /\ shim'[c] # None
           /\ shim'[c].task = shim[c].task
           /\ shim'[c].zone = shim[c].zone
           /\ shim'[c].admitted = shim[c].admitted
           /\ shim[c].st = "gone" => shim'[c].st = "gone"

\* A state change the shim makes to one container.
LEMMA SetInstFrame ==
  ASSUME TypeOK, NEW c \in Containers, shim[c] # None, NEW st \in InstStates,
         shim[c].st = "gone" => st = "gone",
         shim' = [shim EXCEPT ![c].st = st]
  PROVE  ShimFrame
<1>1. shim[c] \in Insts
  BY Zenon DEF TypeOK
<1>2. [shim[c] EXCEPT !.st = st] \in Insts
  BY Zenon, <1>1 DEF Insts, InstStates
<1> QED BY Zenon, <1>1, <1>2, NoneAssumption DEF TypeOK, ShimFrame, Insts

\* destroy_zone ends every container of the zone and no other.
LEMMA DrainedFrame ==
  ASSUME TypeOK, NEW z, shim' = Drained(z)
  PROVE  ShimFrame
<1>1. \A c \in Containers : shim[c] # None =>
          shim[c] \in Insts /\ [shim[c] EXCEPT !.st = "gone"] \in Insts
  BY Zenon DEF TypeOK, Insts
<1> QED BY Zenon, <1>1, NoneAssumption DEF TypeOK, ShimFrame, Drained, Insts

\* create_container registers a container the shims did not know.
LEMMA NewInstFrame ==
  ASSUME TypeOK, NEW c \in Containers, shim[c] = None, NEW i \in Insts,
         shim' = [shim EXCEPT ![c] = i]
  PROVE  ShimFrame
  BY Zenon, NoneAssumption DEF TypeOK, ShimFrame
\* The container create_container registers lives in a zone with a handle.
LEMMA NewInstType ==
  ASSUME TypeOK, LocalsSet, NEW t \in Tasks, At(t, "backend"),
         ZoneByName(t) \in handles
  PROVE  NewInst(t) \in Insts
<1>1. wk[t].zone \in ZoneIds /\ ZoneByName(t) \in ZoneIds
  BY Zenon DEF At, TypeOK, LocalsSet, Admitted
<1> QED BY Zenon, <1>1 DEF NewInst, Insts

\* Recovery works on the record of redb.
LEMMA AdoptLocals ==
  ASSUME TypeOK, NEW t \in Tasks, Adopt(t)
  PROVE  /\ wk'[t].zone = rec[t].zone
         /\ wk'[t].cont = rec[t].cont
         /\ wk'[t].owns = rec[t].owns
         /\ wk'[t].kind = "temp"
<1>1. wk'[t] = [IdleWorker EXCEPT !.zone = rec[t].zone, !.cont = rec[t].cont,
                                  !.owns = rec[t].owns]
  BY Zenon DEF Adopt, TypeOK
<1> QED BY Zenon, <1>1 DEF IdleWorker

\* delete_container only ever moves the shim's container forward.
LEMMA DeleteContainerFrame ==
  ASSUME TypeOK, RowsInStep, NEW c \in Containers, row[c] # None,
         NEW st, delete_container(c, st)
  PROVE  ShimFrame
<1>1. shim[c] # None /\ shim[c] \in Insts
  BY Zenon DEF RowsInStep, TypeOK
<1>2. ShimAfterStop(c, st) \in InstStates
  BY Zenon, <1>1 DEF ShimAfterStop, InstStates, Insts
<1>3. shim[c].st = "gone" => ShimAfterStop(c, st) = "gone"
  BY Zenon DEF delete_container, CanDeleteContainer, ShimAfterStop
<1> QED BY <1>1, <1>2, <1>3, SetInstFrame, ZenonT(20), SMTT(20)
           DEF delete_container, SetInst, InstStates

\* No step changes the task or the zones of a container, or revives one.
LEMMA ShimStep ==
  TypeOK /\ LocalsSet /\ RowsInStep /\ [Next]_vars
  => ShimFrame
<1> SUFFICES ASSUME TypeOK, LocalsSet, RowsInStep, [Next]_vars
             PROVE  ShimFrame
    OBVIOUS
<1>1. ASSUME NEW t \in Tasks, 
             WorkerStep(t) \/ CleanupStep(t) \/ RecoveryStep(t)
             \/ DeleteResult(t)
      PROVE  ShimFrame
  <2>1. CASE Reserve(t) \/ AllocateZone(t) \/ ResolveZone(t) \/ Admit(t) \/
              Refuse(t) \/ RefuseLeaks(t) \/ ReadZone(t) \/
              BindContainer(t) \/ BindFails(t) \/ StartFails(t) \/
              RecordRunning(t) \/ RecordRunningFails(t) \/ PollStopped(t) \/
              RecordExit(t) \/ RecordStopped(t) \/ TimeoutStopFails(t) \/
              Commit(t) \/ CommitFails(t) \/ FinishRecovery(t) \/
              CleanupFails(t) \/ RecoverCommitted(t) \/ RecoverSave(t) \/
              RecoverFails(t) \/ DeleteResult(t)
    BY Zenon, <2>1 DEF Reserve, AllocateZone, ResolveZone, Admit, Refuse,
       RefuseLeaks, ReadZone, BindContainer, BindFails, StartFails,
       RecordRunning, RecordRunningFails, PollStopped, RecordExit,
       RecordStopped, TimeoutStopFails, Commit, CommitFails, FinishRecovery,
       CleanupFails, Forget, RecoverCommitted, RecoverSave, RecoverFails,
       DeleteResult, worker, TypeOK, ShimFrame
  <2>2. CASE CreateContainer(t)
    <3>1. wk[t].zone \in ZoneIds /\ ZoneByName(t) \in ZoneIds
      BY Zenon, <2>2 DEF CreateContainer, At, TypeOK, LocalsSet, Admitted
    <3>2. NewInst(t) \in Insts
      BY Zenon, <3>1 DEF NewInst, Insts
    <3> QED BY <2>2, <3>2, NewInstFrame, ZenonT(20), SMTT(20)
               DEF CreateContainer
  <2>3. CASE CreateFails(t)
    <3>1. CASE UNCHANGED shim
      BY Zenon, <3>1 DEF ShimFrame, TypeOK
    <3>2. CASE ZoneByName(t) \in handles
      <4>1. wk[t].zone \in ZoneIds /\ ZoneByName(t) \in ZoneIds
        BY Zenon, <2>3, <3>2 DEF CreateFails, At, TypeOK, LocalsSet, Admitted
      <4>2. NewInst(t) \in Insts
        BY Zenon, <4>1 DEF NewInst, Insts
      <4> QED BY Zenon, <2>3, <3>1, <4>2, NewInstFrame DEF CreateFails
    <3> QED BY Zenon, <2>3, <3>1, <3>2 DEF CreateFails
  <2>4. CASE StartContainer(t) \/ StartReplyLost(t) \/ Timeout(t)
    <3>1. wk[t].cont \in Containers /\ shim[wk[t].cont] # None
      BY Zenon, <2>4 DEF StartContainer, StartReplyLost, Timeout, At,
         LocalsSet, Holding
    <3> QED BY Zenon, <2>4, <3>1, SetInstFrame DEF StartContainer,
               StartReplyLost, Timeout, Startable, SetInst, InstStates
  <2>5. CASE CleanupZone(t) \/ CleanupZonePartly(t)
    BY Zenon, <2>5, DrainedFrame DEF CleanupZone, CleanupZonePartly,
       delete_zone, PartlyDeleted, ShimFrame, TypeOK
  <2>6. CASE CleanupContainer(t)
    <3>1. CASE UNCHANGED shim
      BY Zenon, <3>1 DEF ShimFrame, TypeOK
    <3>2. ASSUME NEW c \in task_containers(t, wk[t]),
                 delete_container(c, Refreshed(c))
          PROVE  ShimFrame
      BY Zenon, <3>2, DeleteContainerFrame DEF task_containers
    <3> QED BY Zenon, <2>6, <3>1, <3>2 DEF CleanupContainer
  <2>7. CASE RecoverStop(t)
    <3>1. CASE UNCHANGED shim
      BY Zenon, <3>1 DEF ShimFrame, TypeOK
    <3>2. ASSUME NEW c \in Containers, task_containers(t, rec[t]) = {c},
                 Reconcilable(c), shim' = SetInst(c, "stopped")
          PROVE  ShimFrame
      <4>1. shim[c] # None
        BY Zenon, <3>2 DEF task_containers, RowsInStep
      <4> QED BY <3>2, <4>1, SetInstFrame, ZenonT(20), SMTT(20)
                 DEF Reconcilable, SetInst, InstStates
    <3> QED BY Zenon, <2>7, <3>1, <3>2 DEF RecoverStop
  <2> QED BY Zenon, <1>1, <2>1, <2>2, <2>3, <2>4, <2>5, <2>6, <2>7
             DEF WorkerStep, CleanupStep, RecoveryStep
<1>2. ASSUME NEW z \in ZoneIds, 
             \/ GuardedZoneCleanup(z) \/ GuardedZoneCleanupFails(z)
             \/ OperatorDeletesZone(z) \/ OperatorDeletesZonePartly(z)
      PROVE  ShimFrame
  <2>1. CASE GuardedZoneCleanupFails(z)
    BY Zenon, <2>1 DEF GuardedZoneCleanupFails, worker, TypeOK, ShimFrame
  <2>2. CASE GuardedZoneCleanup(z) \/ OperatorDeletesZone(z) \/
              OperatorDeletesZonePartly(z)
    BY Zenon, <2>2, DrainedFrame DEF GuardedZoneCleanup, OperatorDeletesZone,
       OperatorDeletesZonePartly, delete_zone, PartlyDeleted, ShimFrame,
       TypeOK
  <2> QED BY Zenon, <1>2, <2>1, <2>2
<1>3. ASSUME NEW c \in Containers, Exit(c) \/ OperatorDeletesContainer(c)
      PROVE  ShimFrame
  <2>1. CASE Exit(c)
    BY <2>1, SetInstFrame, ZenonT(20), SMTT(20) DEF Exit, SetInst, InstStates
  <2>2. CASE OperatorDeletesContainer(c)
    BY Zenon, <2>2, DeleteContainerFrame DEF OperatorDeletesContainer
  <2> QED BY Zenon, <1>3, <2>1, <2>2
<1>4. CASE OperatorCreatesZone \/ Crash \/ Restart \/ RestartZoneFails \/
              Serve
  BY Zenon, <1>4 DEF OperatorCreatesZone, worker, Crash, Forget, Restart,
     Reconcile, RestartZoneFails, Serve, TypeOK, ShimFrame
<1>5. CASE UNCHANGED vars
  BY Zenon, <1>5 DEF vars, store, registry, worker, history, TypeOK, ShimFrame
<1> QED BY Zenon, <1>1, <1>2, <1>3, <1>4, <1>5 DEF Next

-----------------------------------------------------------------------------
(* TypeOK is preserved, one group of variables at a time.                  *)

\* A worker stays at one of the points of run_owned and recover_tasks.
LEMMA PcType == TypeOK /\ [Next]_vars => pc' \in [Tasks -> PCs]
<1> SUFFICES ASSUME TypeOK, [Next]_vars PROVE pc' \in [Tasks -> PCs]
    OBVIOUS
<1>1. ASSUME NEW t \in Tasks, 
             WorkerStep(t) \/ CleanupStep(t) \/ RecoveryStep(t)
             \/ DeleteResult(t)
      PROVE pc' \in [Tasks -> PCs]
  <2>1. CASE Admit(t) \/ BindContainer(t) \/ StartContainer(t) \/
              RecordRunning(t) \/ PollStopped(t) \/ Timeout(t) \/ Commit(t) \/
              CleanupZone(t) \/ CleanupContainer(t) \/ RecoverSave(t) \/
              DeleteResult(t)
    BY Zenon, <2>1 DEF Admit, Goto, BindContainer, StartContainer,
       RecordRunning, PollStopped, Timeout, Commit, CleanupZone,
       CleanupContainer, RecoverSave, DeleteResult, worker, TypeOK, PCs
  <2>2. CASE Reserve(t) \/ AllocateZone(t) \/ ResolveZone(t) \/ ReadZone(t) \/
              CreateContainer(t) \/ RecordExit(t) \/ RecordStopped(t) \/
              TimeoutStopFails(t) \/ RecoverCommitted(t) \/ RecoverStop(t)
    BY Zenon, <2>2 DEF Reserve, Goto, AllocateZone, ResolveZone, ReadZone,
       Fails, CreateContainer, RecordExit, Waited, RecordStopped,
       TimeoutStopFails, RecoverCommitted, RecoverStop, TypeOK, PCs, worker
  <2>3. CASE CreateFails(t) \/ StartFails(t) \/ BindFails(t) \/
              StartReplyLost(t) \/ RecordRunningFails(t)
    BY Zenon, <2>3 DEF CreateFails, Fails, Goto, StartFails, BindFails,
       StartReplyLost, RecordRunningFails, TypeOK, PCs, worker
  <2>4. CASE Refuse(t) \/ RefuseLeaks(t) \/ CommitFails(t) \/
              CleanupZonePartly(t) \/ FinishRecovery(t) \/ CleanupFails(t) \/
              RecoverFails(t)
    BY Zenon, <2>4 DEF Refuse, Done, Goto, RefuseLeaks, CommitFails,
       CleanupZonePartly, Forget, FinishRecovery, CleanupFails, RecoverFails,
       TypeOK, PCs, worker
  <2> QED BY Zenon, <1>1, <2>1, <2>2, <2>3, <2>4 DEF WorkerStep, CleanupStep,
             RecoveryStep
<1>2. ASSUME NEW z \in ZoneIds, 
             \/ GuardedZoneCleanup(z) \/ GuardedZoneCleanupFails(z)
             \/ OperatorDeletesZone(z) \/ OperatorDeletesZonePartly(z)
      PROVE pc' \in [Tasks -> PCs]
  <2>1. CASE GuardedZoneCleanup(z) \/ GuardedZoneCleanupFails(z) \/
              OperatorDeletesZone(z) \/ OperatorDeletesZonePartly(z)
    BY Zenon, <2>1 DEF GuardedZoneCleanup, worker, GuardedZoneCleanupFails,
       OperatorDeletesZone, OperatorDeletesZonePartly, TypeOK, PCs
  <2> QED BY Zenon, <1>2, <2>1
<1>3. ASSUME NEW c \in Containers, Exit(c) \/ OperatorDeletesContainer(c)
      PROVE pc' \in [Tasks -> PCs]
  <2>1. CASE Exit(c) \/ OperatorDeletesContainer(c)
    BY Zenon, <2>1 DEF Exit, worker, OperatorDeletesContainer, TypeOK, PCs
  <2> QED BY Zenon, <1>3, <2>1
<1>4. CASE OperatorCreatesZone \/ Restart \/ RestartZoneFails \/ Serve
    BY Zenon, <1>4 DEF OperatorCreatesZone, worker, Restart, Reconcile,
       RestartZoneFails, Serve, TypeOK, PCs
<1>5. CASE Crash
    BY Zenon, <1>5 DEF Crash, Forget, TypeOK, PCs, worker
<1>6. CASE UNCHANGED vars
    BY Zenon, <1>6 DEF vars, store, registry, worker, history, TypeOK, PCs
<1> QED BY Zenon, <1>1, <1>2, <1>3, <1>4, <1>5, <1>6 DEF Next

\* Setting one of a worker's locals.
LEMMA WorkerSet ==
  ASSUME TypeOK, NEW t \in Tasks
  PROVE  /\ \A z \in ZoneIds \cup {None} :
              /\ [wk EXCEPT ![t].zone = z] \in [Tasks -> Workers]
              /\ [wk EXCEPT ![t].at = z] \in [Tasks -> Workers]
         /\ \A c \in Containers \cup {None} :
              [wk EXCEPT ![t].cont = c] \in [Tasks -> Workers]
         /\ \A v \in Verdicts : [wk EXCEPT ![t].out = v] \in [Tasks -> Workers]
<1>1. wk \in [Tasks -> Workers]
  BY Zenon DEF TypeOK
<1>2. \A w \in Workers : [wk EXCEPT ![t] = w] \in [Tasks -> Workers]
  BY Zenon, <1>1
<1>3. wk[t] \in Workers
  BY Zenon, <1>1
<1>4. ASSUME NEW z \in ZoneIds \cup {None}
      PROVE  /\ [wk EXCEPT ![t] = [wk[t] EXCEPT !.zone = z]] \in [Tasks -> Workers]
             /\ [wk EXCEPT ![t] = [wk[t] EXCEPT !.at = z]] \in [Tasks -> Workers]
  BY <1>2, <1>3, WorkerTypes, ZenonT(20), SMTT(20)
<1>5. ASSUME NEW c \in Containers \cup {None}
      PROVE  [wk EXCEPT ![t] = [wk[t] EXCEPT !.cont = c]] \in [Tasks -> Workers]
  BY <1>2, <1>3, WorkerTypes, ZenonT(20), SMTT(20)
<1>6. ASSUME NEW v \in Verdicts
      PROVE  [wk EXCEPT ![t] = [wk[t] EXCEPT !.out = v]] \in [Tasks -> Workers]
  BY <1>2, <1>3, WorkerTypes, ZenonT(20), SMTT(20)
<1> QED BY Zenon, <1>4, <1>5, <1>6

\* The worker's locals stay typed.
LEMMA WkType ==
  TypeOK /\ [Next]_vars
  => wk' \in [Tasks -> Workers]
<1> SUFFICES ASSUME TypeOK, [Next]_vars
             PROVE  wk' \in [Tasks -> Workers]
    OBVIOUS
<1>1. ASSUME NEW t \in Tasks, 
             WorkerStep(t) \/ CleanupStep(t) \/ RecoveryStep(t)
             \/ DeleteResult(t)
      PROVE  wk' \in [Tasks -> Workers]
  <2>1. CASE Admit(t) \/ BindContainer(t) \/ StartContainer(t) \/
              RecordRunning(t) \/ PollStopped(t) \/ Timeout(t) \/ Commit(t) \/
              CleanupZone(t) \/ CleanupContainer(t) \/ RecoverSave(t) \/
              DeleteResult(t)
    <3>1. UNCHANGED wk
      BY Zenon, <2>1 DEF Admit, BindContainer, StartContainer, RecordRunning,
         PollStopped, Timeout, Commit, CleanupZone, CleanupContainer,
         RecoverSave, DeleteResult, worker
    <3> QED BY Zenon, <3>1 DEF TypeOK
  <2>2. CASE AllocateZone(t)
    <3>1. PICK z \in ZoneIds : wk' = [wk EXCEPT ![t].zone = z]
      BY <2>2, ZenonT(20), SMTT(20) DEF AllocateZone
    <3> QED BY <3>1, WorkerSet, ZenonT(20), SMTT(20)
  <2>3. CASE ResolveZone(t)
    <3>1. named \in ZoneIds \cup {None}
      BY Zenon DEF TypeOK
    <3> QED BY <2>3, <3>1, WorkerSet, ZenonT(20), SMTT(20) DEF ResolveZone
  <2>4. CASE ReadZone(t)
    <3>1. ZoneByName(t) \in ZoneIds \cup {None} /\ "runtime_error" \in Verdicts
      BY Zenon DEF ZoneByName, TypeOK, Verdicts
    <3>2. CASE wk' = [wk EXCEPT ![t].out = "runtime_error"]
      BY Zenon, <3>1, <3>2, WorkerSet
    <3>3. CASE wk' = [wk EXCEPT ![t].at = ZoneByName(t)]
      BY <3>1, <3>3, WorkerSet, ZenonT(20), SMTT(20)
    <3> QED BY Zenon, <2>4, <3>2, <3>3 DEF ReadZone, Fails
  <2>5. CASE RecordExit(t) \/ RecordStopped(t) \/ TimeoutStopFails(t)
    <3>1. \E v \in Verdicts : wk' = [wk EXCEPT ![t].out = v]
      BY Zenon, <2>5 DEF RecordExit, RecordStopped, TimeoutStopFails, Waited,
         Verdicts
    <3> QED BY <3>1, WorkerSet
  <2>6. CASE CreateFails(t) \/ StartFails(t) \/ BindFails(t) \/
              StartReplyLost(t) \/ RecordRunningFails(t)
    <3>1. \E v \in Verdicts : wk' = [wk EXCEPT ![t].out = v]
      BY Zenon, <2>6 DEF CreateFails, StartFails, BindFails, StartReplyLost,
         RecordRunningFails, Fails, Verdicts
    <3> QED BY <3>1, WorkerSet
  <2>7. CASE Reserve(t)
    BY <2>7, WorkerTypes, ZenonT(20), SMTT(20) DEF Reserve, TypeOK
  <2>8. CASE CreateContainer(t)
    BY <2>8, WorkerSet DEF CreateContainer
  <2>9. CASE RecoverCommitted(t) \/ RecoverStop(t)
    <3>1. rec[t] \in Records
      BY Zenon, <2>9 DEF RecoverCommitted, RecoverStop, RecoverTurn, TypeOK
    <3>2. [IdleWorker EXCEPT !.zone = rec[t].zone, !.cont = rec[t].cont,
                             !.owns = rec[t].owns] \in Workers
      BY <3>1, WorkerTypes, ZenonT(20), SMTT(20) DEF Records
    <3> QED BY Zenon, <2>9, <3>2 DEF RecoverCommitted, RecoverStop, Adopt,
               TypeOK
  <2>10. CASE Refuse(t) \/ RefuseLeaks(t) \/ CommitFails(t) \/
              CleanupZonePartly(t) \/ FinishRecovery(t) \/ CleanupFails(t) \/
              RecoverFails(t)
    BY <2>10, WorkerTypes, ZenonT(20), SMTT(20) DEF Refuse, RefuseLeaks,
       CommitFails, CleanupZonePartly, FinishRecovery, CleanupFails,
       RecoverFails, Crash, Done, Forget, TypeOK
  <2> QED BY Zenon, <1>1, <2>1, <2>2, <2>3, <2>4, <2>5, <2>6, <2>7, <2>8, <2>9,
         <2>10
       DEF WorkerStep, CleanupStep, RecoveryStep
<1>2. ASSUME NEW z \in ZoneIds, 
             \/ GuardedZoneCleanup(z) \/ GuardedZoneCleanupFails(z)
             \/ OperatorDeletesZone(z) \/ OperatorDeletesZonePartly(z)
      PROVE  wk' \in [Tasks -> Workers]
  <2>1. CASE GuardedZoneCleanup(z) \/ GuardedZoneCleanupFails(z) \/
              OperatorDeletesZone(z) \/ OperatorDeletesZonePartly(z)
    BY Zenon, <2>1 DEF GuardedZoneCleanup, worker, GuardedZoneCleanupFails,
       OperatorDeletesZone, OperatorDeletesZonePartly, TypeOK, Workers,
       Verdicts
  <2> QED BY Zenon, <1>2, <2>1
<1>3. ASSUME NEW c \in Containers, Exit(c) \/ OperatorDeletesContainer(c)
      PROVE  wk' \in [Tasks -> Workers]
  <2>1. CASE Exit(c) \/ OperatorDeletesContainer(c)
    BY Zenon, <2>1 DEF Exit, worker, OperatorDeletesContainer, TypeOK, Workers,
       Verdicts
  <2> QED BY Zenon, <1>3, <2>1
<1>4. CASE OperatorCreatesZone \/ Restart \/ RestartZoneFails \/ Serve
  BY Zenon, <1>4 DEF OperatorCreatesZone, worker, Restart, Reconcile,
     RestartZoneFails, Serve, TypeOK, Workers, Verdicts
<1>5. CASE Crash
  BY <1>5, WorkerTypes, ZenonT(20), SMTT(20) DEF Refuse, RefuseLeaks,
     CommitFails, CleanupZonePartly, FinishRecovery, CleanupFails,
     RecoverFails, Crash, Done, Forget, TypeOK
<1>6. CASE UNCHANGED vars
  BY Zenon, <1>6 DEF vars, store, registry, worker, history, TypeOK, Workers,
     Verdicts
<1> QED BY Zenon, <1>1, <1>2, <1>3, <1>4, <1>5, <1>6 DEF Next

\* The types of the two tables of redb the worker writes.
StoreTypes ==
    /\ result' \in [Tasks -> {Absent, Empty} \cup Sealed]
    /\ rec' \in [Tasks -> Records \cup {None}]

\* Every entry of redb's result and recovery tables is well formed: a sealed
\* result fits the wire budget.
LEMMA StoreType ==
  TypeOK /\ LocalsSet /\ [Next]_vars
  => StoreTypes
<1> SUFFICES ASSUME TypeOK, LocalsSet, [Next]_vars
             PROVE  StoreTypes
    OBVIOUS
<1>1. ASSUME NEW t \in Tasks, 
             WorkerStep(t) \/ CleanupStep(t) \/ RecoveryStep(t)
             \/ DeleteResult(t)
      PROVE  StoreTypes
  <2>1. CASE AllocateZone(t) \/ ResolveZone(t) \/ RefuseLeaks(t) \/
              ReadZone(t) \/ CreateContainer(t) \/ CreateFails(t) \/
              BindFails(t) \/ StartContainer(t) \/ StartReplyLost(t) \/
              StartFails(t) \/ RecordRunning(t) \/ RecordRunningFails(t) \/
              PollStopped(t) \/ RecordExit(t) \/ Timeout(t) \/
              RecordStopped(t) \/ TimeoutStopFails(t) \/ CommitFails(t) \/
              CleanupZone(t) \/ CleanupZonePartly(t) \/ CleanupContainer(t) \/
              CleanupFails(t) \/ RecoverCommitted(t) \/ RecoverStop(t) \/
              RecoverFails(t)
    BY Zenon, <2>1 DEF AllocateZone, ResolveZone, RefuseLeaks, ReadZone,
       CreateContainer, CreateFails, BindFails, StartContainer,
       StartReplyLost, StartFails, RecordRunning, RecordRunningFails,
       PollStopped, RecordExit, Timeout, RecordStopped, TimeoutStopFails,
       CommitFails, CleanupZone, CleanupZonePartly, Forget, CleanupContainer,
       CleanupFails, RecoverCommitted, RecoverStop, RecoverFails, TypeOK,
       StoreTypes, store
  <2>2. CASE Reserve(t)
    BY Zenon, <2>2 DEF Reserve, reserve_result, TypeOK, StoreTypes
  <2>3. CASE Refuse(t) \/ DeleteResult(t)
    BY Zenon, <2>3 DEF Refuse, DeleteResult, delete_result, TypeOK, StoreTypes
  <2>4. CASE FinishRecovery(t)
    BY Zenon, <2>4 DEF FinishRecovery, finish_recovery, TypeOK, StoreTypes
  <2>5. CASE Admit(t)
    <3>1. [zone |-> wk[t].zone, cont |-> None, owns |-> wk[t].owns] \in Records
      BY Zenon, <2>5 DEF Admit, At, LocalsSet, TypeOK, Workers, Records
    <3> QED BY Zenon, <2>5, <3>1 DEF Admit, put_recovery, TypeOK, StoreTypes
  <2>6. CASE BindContainer(t)
    <3>1. [zone |-> wk[t].zone, cont |-> wk[t].cont, owns |-> wk[t].owns]
            \in Records
      BY Zenon, <2>6 DEF BindContainer, At, LocalsSet, Admitted, Holding,
         TypeOK, Workers, Records
    <3> QED BY Zenon, <2>6, <3>1 DEF BindContainer, put_recovery, TypeOK,
               StoreTypes
  <2>7. CASE Commit(t)
    <3>1. wk[t].out \in Verdicts
      BY Zenon DEF TypeOK, Workers
    <3>2. \A n \in 1..MAX_RESULT_BYTES : [len |-> n, by |-> wk[t].out] \in Sealed
      BY Zenon, <3>1 DEF Sealed
    <3> QED BY Zenon, <2>7, <3>2 DEF Commit, save_result, TypeOK, StoreTypes
  <2>8. CASE RecoverSave(t)
    <3>1. \A n \in 1..MAX_RESULT_BYTES : [len |-> n, by |-> "interrupted"] \in Sealed
      BY Zenon DEF Sealed, Verdicts
    <3> QED BY Zenon, <2>8, <3>1 DEF RecoverSave, save_result, TypeOK,
               StoreTypes
  <2> QED BY Zenon, <1>1, <2>1, <2>2, <2>3, <2>4, <2>5, <2>6, <2>7, <2>8 DEF
             WorkerStep, CleanupStep, RecoveryStep
<1>2. ASSUME NEW z \in ZoneIds, 
             \/ GuardedZoneCleanup(z) \/ GuardedZoneCleanupFails(z)
             \/ OperatorDeletesZone(z) \/ OperatorDeletesZonePartly(z)
      PROVE  StoreTypes
  <2>1. CASE GuardedZoneCleanup(z) \/ GuardedZoneCleanupFails(z) \/
              OperatorDeletesZone(z) \/ OperatorDeletesZonePartly(z)
    BY Zenon, <2>1 DEF GuardedZoneCleanup, worker, GuardedZoneCleanupFails,
       OperatorDeletesZone, OperatorDeletesZonePartly, TypeOK, StoreTypes,
       store
  <2> QED BY Zenon, <1>2, <2>1
<1>3. ASSUME NEW c \in Containers, Exit(c) \/ OperatorDeletesContainer(c)
      PROVE  StoreTypes
  <2>1. CASE Exit(c) \/ OperatorDeletesContainer(c)
    BY Zenon, <2>1 DEF Exit, worker, OperatorDeletesContainer, TypeOK,
       StoreTypes, store
  <2> QED BY Zenon, <1>3, <2>1
<1>4. CASE OperatorCreatesZone \/ Crash \/ Restart \/ RestartZoneFails \/
              Serve
  BY Zenon, <1>4 DEF OperatorCreatesZone, worker, Crash, Forget, Restart,
     Reconcile, RestartZoneFails, Serve, TypeOK, StoreTypes, store
<1>5. CASE UNCHANGED vars
  BY Zenon, <1>5 DEF vars, store, registry, worker, history, TypeOK, StoreTypes
<1> QED BY Zenon, <1>1, <1>2, <1>3, <1>4, <1>5 DEF Next

\* Every container row is well formed.
LEMMA RowType ==
  TypeOK /\ LocalsSet /\ [Next]_vars
  => row' \in [Containers -> Rows \cup {None}]
<1> SUFFICES ASSUME TypeOK, LocalsSet, [Next]_vars
             PROVE  row' \in [Containers -> Rows \cup {None}]
    OBVIOUS
<1>1. ASSUME NEW t \in Tasks, 
             WorkerStep(t) \/ CleanupStep(t) \/ RecoveryStep(t)
             \/ DeleteResult(t)
      PROVE  row' \in [Containers -> Rows \cup {None}]
  <2>1. CASE Reserve(t) \/ AllocateZone(t) \/ ResolveZone(t) \/ Admit(t) \/
              Refuse(t) \/ RefuseLeaks(t) \/ ReadZone(t) \/ CreateFails(t) \/
              BindContainer(t) \/ BindFails(t) \/ StartContainer(t) \/
              StartReplyLost(t) \/ StartFails(t) \/ RecordRunningFails(t) \/
              PollStopped(t) \/ Timeout(t) \/ TimeoutStopFails(t) \/
              Commit(t) \/ CommitFails(t) \/ FinishRecovery(t) \/
              CleanupFails(t) \/ RecoverCommitted(t) \/ RecoverSave(t) \/
              RecoverFails(t) \/ DeleteResult(t)
    BY Zenon, <2>1 DEF Reserve, AllocateZone, ResolveZone, Admit, Refuse,
       RefuseLeaks, ReadZone, CreateFails, BindContainer, BindFails,
       StartContainer, StartReplyLost, StartFails, RecordRunningFails,
       PollStopped, Timeout, TimeoutStopFails, Commit, CommitFails,
       FinishRecovery, CleanupFails, Forget, RecoverCommitted, RecoverSave,
       RecoverFails, DeleteResult, worker, TypeOK, registry
  <2>2. CASE CreateContainer(t)
    <3>1. wk[t].at \in ZoneIds
      BY Zenon, <2>2 DEF CreateContainer, At, LocalsSet
    <3>2. [task |-> t, zone |-> wk[t].at, st |-> "Created"] \in Rows
      BY Zenon, <3>1 DEF Rows
    <3> QED BY <2>2, <3>2 DEF CreateContainer, put_container, TypeOK
  <2>3. CASE RecordRunning(t) \/ RecordExit(t) \/ RecordStopped(t)
    <3>1. wk[t].at \in ZoneIds /\ wk[t].cont \in Containers
      BY <2>3, ZenonT(20), SMTT(20) DEF RecordRunning, RecordExit,
         RecordStopped, At, LocalsSet, Holding
    <3>2. \A s \in {"Running", "Stopped"} :
            [task |-> t, zone |-> wk[t].at, st |-> s] \in Rows
      BY Zenon, <3>1 DEF Rows
    <3> QED BY Zenon, <2>3, <3>1, <3>2 DEF RecordRunning, RecordExit,
               RecordStopped, put_container, TypeOK
  <2>4. CASE CleanupZone(t) \/ CleanupZonePartly(t)
    BY Zenon, <2>4 DEF CleanupZone, CleanupZonePartly, delete_zone,
       PartlyDeleted, TypeOK, registry
  <2>5. CASE CleanupContainer(t)
    BY Zenon, <2>5 DEF CleanupContainer, delete_container, TypeOK
  <2>6. CASE RecoverStop(t)
    <3>1. \A c \in Containers : row[c] # None => [row[c] EXCEPT !.st = "Stopped"] \in Rows
      BY Zenon DEF TypeOK, Rows
    <3>2. CASE UNCHANGED row
      BY Zenon, <3>2 DEF TypeOK
    <3>3. ASSUME NEW c \in Containers, task_containers(t, rec[t]) = {c},
                 row' = [row EXCEPT ![c].st = "Stopped"]
          PROVE  row' \in [Containers -> Rows \cup {None}]
      BY Zenon, <3>1, <3>3 DEF task_containers, TypeOK
    <3> QED BY Zenon, <2>6, <3>2, <3>3 DEF RecoverStop
  <2> QED BY Zenon, <1>1, <2>1, <2>2, <2>3, <2>4, <2>5, <2>6 DEF WorkerStep,
             CleanupStep, RecoveryStep
<1>2. ASSUME NEW z \in ZoneIds, 
             \/ GuardedZoneCleanup(z) \/ GuardedZoneCleanupFails(z)
             \/ OperatorDeletesZone(z) \/ OperatorDeletesZonePartly(z)
      PROVE  row' \in [Containers -> Rows \cup {None}]
  <2>1. CASE GuardedZoneCleanupFails(z)
    BY Zenon, <2>1 DEF GuardedZoneCleanupFails, worker, TypeOK, registry
  <2>2. CASE GuardedZoneCleanup(z) \/ OperatorDeletesZone(z) \/
              OperatorDeletesZonePartly(z)
    BY Zenon, <2>2 DEF GuardedZoneCleanup, OperatorDeletesZone,
       OperatorDeletesZonePartly, delete_zone, PartlyDeleted, TypeOK, registry
  <2> QED BY Zenon, <1>2, <2>1, <2>2
<1>3. ASSUME NEW c \in Containers, Exit(c) \/ OperatorDeletesContainer(c)
      PROVE  row' \in [Containers -> Rows \cup {None}]
  <2>1. CASE Exit(c)
    BY Zenon, <2>1 DEF Exit, worker, TypeOK, registry
  <2>2. CASE OperatorDeletesContainer(c)
    BY Zenon, <2>2 DEF OperatorDeletesContainer, delete_container, TypeOK
  <2> QED BY Zenon, <1>3, <2>1, <2>2
<1>4. CASE OperatorCreatesZone \/ Crash \/ Restart \/ RestartZoneFails \/
              Serve
  BY Zenon, <1>4 DEF OperatorCreatesZone, worker, Crash, Forget, Restart,
     Reconcile, RestartZoneFails, Serve, TypeOK, registry
<1>5. CASE UNCHANGED vars
  BY Zenon, <1>5 DEF vars, store, registry, worker, history, TypeOK
<1> QED BY Zenon, <1>1, <1>2, <1>3, <1>4, <1>5 DEF Next

\* The types of what is left: the registry, the handles and the history.
RegistryTypes ==
    /\ daemon' \in {"down", "recovering", "serving"}
    /\ named' \in ZoneIds \cup {None}
    /\ temps' \subseteq ZoneIds
    /\ handles' \subseteq ZoneIds
    /\ hc' \subseteq Containers
    /\ doomed' \subseteq ZoneIds
    /\ minted' \subseteq ZoneIds
    /\ opGone' \subseteq ZoneIds \cup Containers
    /\ faults' \in Nat
    /\ starts' \in [Tasks -> Nat]

\* The registry, the daemon's handles and the history stay typed.
LEMMA RegistryType ==
  TypeOK /\ LocalsSet /\ [Next]_vars
  => RegistryTypes
<1> SUFFICES ASSUME TypeOK, LocalsSet, [Next]_vars
             PROVE  RegistryTypes
    OBVIOUS
<1>1. ASSUME NEW t \in Tasks, 
             WorkerStep(t) \/ CleanupStep(t) \/ RecoveryStep(t)
             \/ DeleteResult(t)
      PROVE  RegistryTypes
  <2>1. CASE Reserve(t) \/ ResolveZone(t) \/ Admit(t) \/ ReadZone(t) \/
              CreateFails(t) \/ BindContainer(t) \/ BindFails(t) \/
              StartContainer(t) \/ StartReplyLost(t) \/ StartFails(t) \/
              RecordRunning(t) \/ RecordRunningFails(t) \/ PollStopped(t) \/
              RecordExit(t) \/ Timeout(t) \/ RecordStopped(t) \/
              TimeoutStopFails(t) \/ Commit(t) \/ CommitFails(t) \/
              FinishRecovery(t) \/ RecoverCommitted(t) \/ RecoverStop(t) \/
              RecoverSave(t) \/ DeleteResult(t)
    <3>1. CASE Reserve(t) \/ ResolveZone(t) \/ Admit(t)
      BY Zenon, <3>1 DEF Reserve, ResolveZone, Admit, registry, history, store,
         worker, Fault, TypeOK, RegistryTypes
    <3>2. CASE ReadZone(t) \/ CreateFails(t) \/ BindContainer(t)
      BY <3>2 DEF ReadZone, CreateFails, BindContainer, registry, history,
         store, worker, Fault, TypeOK, RegistryTypes
    <3>3. CASE BindFails(t) \/ StartContainer(t) \/ StartReplyLost(t)
      BY <3>3 DEF BindFails, StartContainer, StartReplyLost, registry, history,
         store, worker, Fault, TypeOK, RegistryTypes
    <3>4. CASE StartFails(t) \/ RecordRunning(t) \/ RecordRunningFails(t)
      BY <3>4 DEF StartFails, RecordRunning, RecordRunningFails, registry,
         history, store, worker, Fault, TypeOK, RegistryTypes
    <3>5. CASE PollStopped(t) \/ RecordExit(t) \/ Timeout(t)
      BY Zenon, <3>5 DEF PollStopped, RecordExit, Timeout, registry, history,
         store, worker, Fault, TypeOK, RegistryTypes
    <3>6. CASE RecordStopped(t) \/ TimeoutStopFails(t) \/ Commit(t)
      <4>1. CASE RecordStopped(t)
        BY Zenon, <4>1 DEF RecordStopped, registry, history, store, worker,
           Fault, TypeOK, RegistryTypes
      <4>2. CASE TimeoutStopFails(t)
        <5>1. UNCHANGED <<daemon, registry, doomed, history>>
          BY Zenon, <4>2 DEF TimeoutStopFails
        <5>2. faults' \in Nat
          BY <4>2 DEF TimeoutStopFails, Fault, TypeOK
        <5> QED BY Zenon, <5>1, <5>2 DEF registry, history, TypeOK,
                   RegistryTypes
      <4>3. CASE Commit(t)
        BY Zenon, <4>3 DEF Commit, registry, history, store, worker, Fault,
           TypeOK, RegistryTypes
      <4> QED BY Zenon, <3>6, <4>1, <4>2, <4>3
    <3>7. CASE CommitFails(t) \/ FinishRecovery(t) \/ RecoverCommitted(t)
      BY <3>7 DEF CommitFails, FinishRecovery, RecoverCommitted, registry,
         history, store, worker, Fault, TypeOK, RegistryTypes
    <3>8. CASE RecoverStop(t) \/ RecoverSave(t) \/ DeleteResult(t)
      BY <3>8 DEF RecoverStop, RecoverSave, DeleteResult, registry, history,
         store, worker, Fault, TypeOK, RegistryTypes
    <3> QED BY Zenon, <2>1, <3>1, <3>2, <3>3, <3>4, <3>5, <3>6, <3>7, <3>8
  <2>2. CASE Refuse(t) \/ RefuseLeaks(t)
    <3>1. Guarded(t) \subseteq ZoneIds
      BY Zenon DEF Guarded, LocalsSet
    <3> QED BY <2>2, <3>1 DEF Refuse, RefuseLeaks, Fault, registry, history,
               TypeOK, RegistryTypes
  <2>3. CASE CleanupZonePartly(t)
    <3>1. faults' \in Nat
      BY <2>3 DEF CleanupZonePartly, Fault, TypeOK
    <3> QED BY Zenon, <2>3, <3>1 DEF CleanupZonePartly, Forget, history,
               TypeOK, RegistryTypes
  <2>4. CASE AllocateZone(t)
    BY Zenon, <2>4 DEF AllocateZone, store, TypeOK, RegistryTypes, registry,
       history
  <2>5. CASE CreateContainer(t)
    BY Zenon, <2>5 DEF CreateContainer, store, history, TypeOK, RegistryTypes,
       registry
  <2>6. CASE CleanupZone(t)
    BY Zenon, <2>6 DEF CleanupZone, delete_zone, registry, store, history,
       TypeOK, RegistryTypes
  <2>7. CASE CleanupContainer(t)
    BY Zenon, <2>7 DEF CleanupContainer, delete_container, store, history,
       TypeOK, RegistryTypes, registry
  <2>8. CASE CleanupFails(t)
    BY <2>8 DEF CleanupFails, Fault, Forget, store, history, TypeOK,
       RegistryTypes, registry
  <2>9. CASE RecoverFails(t)
    BY <2>9 DEF RecoverFails, Fault, Forget, store, history, TypeOK,
       RegistryTypes, registry
  <2> QED BY Zenon, <1>1, <2>1, <2>2, <2>3, <2>4, <2>5, <2>6, <2>7, <2>8, <2>9
             DEF WorkerStep, CleanupStep, RecoveryStep
<1>2. ASSUME NEW z \in ZoneIds, 
             \/ GuardedZoneCleanup(z) \/ GuardedZoneCleanupFails(z)
             \/ OperatorDeletesZone(z) \/ OperatorDeletesZonePartly(z)
      PROVE  RegistryTypes
  <2>1. CASE OperatorDeletesZone(z)
    BY Zenon, <2>1 DEF OperatorDeletesZone, delete_zone, store, worker, TypeOK,
       RegistryTypes, registry, history
  <2>2. CASE OperatorDeletesZonePartly(z)
    BY <2>2 DEF OperatorDeletesZonePartly, Zones, Fault, PartlyDeleted, store,
       worker, TypeOK, RegistryTypes, registry, history
  <2>3. CASE GuardedZoneCleanup(z)
    BY Zenon, <2>3 DEF GuardedZoneCleanup, delete_zone, registry, store,
       worker, history, TypeOK, RegistryTypes
  <2>4. CASE GuardedZoneCleanupFails(z)
    BY <2>4 DEF GuardedZoneCleanupFails, Fault, store, registry, worker,
       history, TypeOK, RegistryTypes
  <2> QED BY Zenon, <1>2, <2>1, <2>2, <2>3, <2>4
<1>3. ASSUME NEW c \in Containers, Exit(c) \/ OperatorDeletesContainer(c)
      PROVE  RegistryTypes
  <2>1. CASE Exit(c)
    BY Zenon, <2>1 DEF Exit, store, registry, worker, history, TypeOK,
       RegistryTypes
  <2>2. CASE OperatorDeletesContainer(c)
    BY Zenon, <2>2 DEF OperatorDeletesContainer, delete_container, store,
       worker, TypeOK, RegistryTypes, registry, history
  <2> QED BY Zenon, <1>3, <2>1, <2>2
<1>4. CASE Serve
  BY Zenon, <1>4 DEF Serve, store, registry, worker, history, TypeOK,
     RegistryTypes
<1>5. CASE Crash
  BY <1>5 DEF Crash, Fault, Forget, store, history, TypeOK, RegistryTypes,
     registry
<1>6. CASE Restart
  BY Zenon, <1>6 DEF Restart, Reconcile, Zones, store, worker, history, TypeOK,
     RegistryTypes, registry
<1>7. CASE RestartZoneFails
  BY <1>7 DEF RestartZoneFails, Zones, Fault, Reconcile, store, worker,
     history, TypeOK, RegistryTypes, registry
<1>8. CASE OperatorCreatesZone
  BY Zenon, <1>8 DEF OperatorCreatesZone, store, worker, TypeOK, RegistryTypes,
     registry, history
<1>9. CASE UNCHANGED vars
  BY Zenon, <1>9 DEF vars, store, registry, worker, history, TypeOK,
     RegistryTypes
<1> QED BY Zenon, <1>1, <1>2, <1>3, <1>4, <1>5, <1>6, <1>7, <1>8, <1>9 DEF Next

\* TypeOK needs LocalsSet (a record is built from a worker's locals) and
\* RowsInStep (recovery stops the container a row names).
LEMMA TypeStep ==
  TypeOK /\ LocalsSet /\ RowsInStep /\ [Next]_vars => TypeOK'
  BY Zenon, PcType, WkType, StoreType, RowType, RegistryType, ShimStep
     DEF TypeOK, StoreTypes, RegistryTypes, ShimFrame

-----------------------------------------------------------------------------
(* The worker, the store and its copy of the record.                       *)

\* A worker's zone, zone copy and container are set before they are used, and
\* its container is its own.
LEMMA LocalsStep ==
  TypeOK /\ LocalsSet /\ ShimFrame /\ [Next]_vars
  => LocalsSet'
<1> SUFFICES ASSUME TypeOK, LocalsSet, ShimFrame, [Next]_vars
             PROVE  LocalsSet'
    OBVIOUS
<1>1. ASSUME NEW t \in Tasks, 
             WorkerStep(t) \/ CleanupStep(t) \/ RecoveryStep(t)
             \/ DeleteResult(t)
      PROVE  LocalsSet'
  <2>1. CASE RecoverFails(t)
    BY Zenon, <2>1 DEF Crash, RecoverFails, Forget, LocalsSet, Admitted,
       Holding, Settling
  <2>2. CASE CleanupZonePartly(t) \/ CleanupFails(t)
    BY <2>2 DEF CleanupZonePartly, CleanupFails, Forget, Done, Goto,
       ShimFrame, LocalsSet, Admitted, Holding, Settling, TypeOK
  <2>3. CASE RecoverCommitted(t) \/ RecoverStop(t)
    <3>1. rec[t] \in Records
      BY Zenon, <2>3 DEF RecoverCommitted, RecoverStop, RecoverTurn, TypeOK
    <3>2. wk'[t].zone \in ZoneIds
      BY Zenon, <2>3, <3>1, AdoptLocals DEF RecoverCommitted, RecoverStop,
         Records
    <3> QED BY <2>3, <3>2 DEF RecoverCommitted, RecoverStop, RecoverTurn,
               Adopt, Goto, LocalsSet, Admitted, Holding, Settling, TypeOK
  <2>4. CASE CreateContainer(t)
    <3>1. PICK c \in Containers :
            /\ shim[c] = None
            /\ shim' = [shim EXCEPT ![c] = NewInst(t)]
            /\ wk' = [wk EXCEPT ![t].cont = c]
      BY <2>4, ZenonT(20), SMTT(20) DEF CreateContainer
    <3>2. shim'[c] = NewInst(t) /\ wk'[t].cont = c /\ wk'[t].zone = wk[t].zone
          /\ wk'[t].at = wk[t].at
      BY Zenon, <3>1 DEF TypeOK, Workers
    <3>3. shim'[c] \in Insts /\ shim'[c].task = t /\ shim'[c].admitted = wk[t].zone
      BY <2>4, <3>1, <3>2, NewInstType DEF CreateContainer, NewInst
    <3> QED BY <2>4, <3>1, <3>2, <3>3, NoneAssumption DEF CreateContainer, At,
               Goto, ShimFrame, LocalsSet, Admitted, Holding, Settling, TypeOK
  <2>5. CASE AllocateZone(t) \/ ResolveZone(t) \/ RecordExit(t) \/
              RecordStopped(t) \/ TimeoutStopFails(t)
    BY <2>5 DEF AllocateZone, At, Goto, ResolveZone, RecordExit, Waited,
       RecordStopped, TimeoutStopFails, LocalsSet, Admitted, Holding,
       Settling, TypeOK, ShimFrame, Workers
  <2>6. CASE ReadZone(t)
    BY <2>6 DEF ReadZone, At, Fails, Goto, LocalsSet, Admitted, Holding,
       Settling, TypeOK, ShimFrame, Workers, ZoneByName
  <2>7. CASE CreateFails(t) \/ StartFails(t) \/ BindFails(t) \/
              StartReplyLost(t) \/ RecordRunningFails(t)
    BY <2>7 DEF CreateFails, At, Fails, Goto, StartFails, BindFails,
       StartReplyLost, RecordRunningFails, LocalsSet, Admitted, Holding,
       Settling, TypeOK, ShimFrame, Workers
  <2>8. CASE Reserve(t) \/ Admit(t) \/ Refuse(t) \/ RefuseLeaks(t) \/
              BindContainer(t)
    BY <2>8 DEF Reserve, At, Goto, IdleWorker, Admit, Refuse, Done,
       RefuseLeaks, BindContainer, LocalsSet, Admitted, Holding, Settling,
       TypeOK, ShimFrame
  <2>9. CASE StartContainer(t) \/ RecordRunning(t) \/ PollStopped(t) \/
              Timeout(t) \/ Commit(t)
    BY <2>9 DEF StartContainer, At, Goto, RecordRunning, PollStopped, Timeout,
       Commit, LocalsSet, Admitted, Holding, Settling, TypeOK, ShimFrame
  <2>10. CASE CommitFails(t) \/ CleanupZone(t) \/ CleanupContainer(t) \/
              FinishRecovery(t) \/ RecoverSave(t)
    BY <2>10 DEF CommitFails, At, Done, Goto, IdleWorker, CleanupZone,
       CleanupContainer, FinishRecovery, RecoverSave, LocalsSet, Admitted,
       Holding, Settling, TypeOK, ShimFrame
  <2>11. CASE DeleteResult(t)
    BY Zenon, <2>11 DEF DeleteResult, At, worker, LocalsSet, Admitted, Holding,
       Settling, TypeOK, ShimFrame
  <2> QED BY Zenon, <1>1, <2>1, <2>2, <2>3, <2>4, <2>5, <2>6, <2>7, <2>8, <2>9,
         <2>10, <2>11
       DEF WorkerStep, CleanupStep, RecoveryStep
<1>2. ASSUME NEW z \in ZoneIds, 
             \/ GuardedZoneCleanup(z) \/ GuardedZoneCleanupFails(z)
             \/ OperatorDeletesZone(z) \/ OperatorDeletesZonePartly(z)
      PROVE  LocalsSet'
  <2>1. UNCHANGED <<pc, wk>>
    BY Zenon, <1>2 DEF GuardedZoneCleanup, worker, GuardedZoneCleanupFails,
       OperatorDeletesZone, OperatorDeletesZonePartly
  <2> QED BY Zenon, <2>1 DEF LocalsSet, ShimFrame
<1>3. ASSUME NEW c \in Containers, Exit(c) \/ OperatorDeletesContainer(c)
      PROVE  LocalsSet'
  <2>1. UNCHANGED <<pc, wk>>
    BY Zenon, <1>3 DEF Exit, worker, OperatorDeletesContainer
  <2> QED BY Zenon, <2>1 DEF LocalsSet, ShimFrame
<1>4. CASE OperatorCreatesZone \/ Restart \/ RestartZoneFails \/ Serve
  <2>1. UNCHANGED <<pc, wk>>
    BY Zenon, <1>4 DEF OperatorCreatesZone, worker, Restart, Reconcile,
       RestartZoneFails, Serve
  <2> QED BY Zenon, <2>1 DEF LocalsSet, ShimFrame
<1>5. CASE Crash
  BY Zenon, <1>5 DEF Crash, RecoverFails, Forget, LocalsSet, Admitted, Holding,
     Settling
<1>6. CASE UNCHANGED vars
  BY Zenon, <1>6 DEF vars, store, registry, worker, history, LocalsSet,
     Admitted, Holding, Settling, TypeOK, ShimFrame
<1> QED BY Zenon, <1>1, <1>2, <1>3, <1>4, <1>5, <1>6 DEF Next

\* An entry is absent, a reservation or a committed result.
LEMMA SealedDistinct == Absent # Empty /\ Absent \notin Sealed /\ Empty \notin Sealed
  BY DEF Absent, Empty, Sealed

\* redb holds what the worker's point in run_owned requires.
LEMMA StoreStep ==
  TypeOK /\ LocalsSet /\ StoreInStep /\ [Next]_vars
  => StoreInStep'
<1> SUFFICES ASSUME TypeOK, LocalsSet, StoreInStep, [Next]_vars
             PROVE  StoreInStep'
    OBVIOUS
<1>1. ASSUME NEW t \in Tasks, 
             WorkerStep(t) \/ CleanupStep(t) \/ RecoveryStep(t)
             \/ DeleteResult(t)
      PROVE  StoreInStep'
  <2>1. CASE RecoverFails(t)
    BY Zenon, <2>1 DEF Crash, RecoverFails, Forget, store, StoreInStep,
       Admitted, Holding, Settling
  <2>2. CASE CleanupZonePartly(t) \/ CleanupFails(t)
    BY <2>2 DEF CleanupZonePartly, CleanupFails, Forget, Done, Goto, store,
       StoreInStep, Admitted, Holding, Settling, TypeOK
  <2>3. CASE Admit(t)
    <3>1. rec'[t] # None
      <4>1. rec'[t] = [zone |-> wk[t].zone, cont |-> None, owns |-> wk[t].owns]
        BY Zenon, <2>3 DEF Admit, put_recovery, TypeOK
      <4>2. wk[t].zone \in ZoneIds /\ wk[t].owns \in BOOLEAN
        BY Zenon, <2>3 DEF Admit, At, LocalsSet, TypeOK, Workers
      <4>3. rec'[t] \in Records
        BY <4>1, <4>2 DEF Records
      <4> QED BY Zenon, <4>3, NoneAssumption
    <3> QED BY Zenon, <2>3, <3>1, SealedDistinct DEF Admit, At, Goto,
               put_recovery, StoreInStep, Admitted, Holding, Settling, TypeOK
  <2>4. CASE BindContainer(t)
    <3>1. rec'[t] # None
      BY <2>4, NoneAssumption DEF BindContainer, At, put_recovery, LocalsSet,
         Admitted, Holding, TypeOK, Workers, Records
    <3> QED BY Zenon, <2>4, <3>1 DEF BindContainer, At, Goto, put_recovery,
               StoreInStep, Admitted, Holding, Settling, TypeOK
  <2>5. CASE Commit(t)
    <3>1. result'[t] \in Sealed
      BY <2>5 DEF Commit, save_result, TypeOK, Workers, Sealed
    <3> QED BY Zenon, <2>5, <3>1, SealedDistinct DEF Commit, At, Goto,
               save_result, StoreInStep, Admitted, Holding, Settling, TypeOK
  <2>6. CASE RecoverSave(t)
    <3>1. result'[t] \in Sealed
      BY <2>6 DEF RecoverSave, save_result, TypeOK, Sealed, Verdicts
    <3> QED BY <2>6, <3>1, SealedDistinct DEF RecoverSave, Goto, save_result,
               StoreInStep, Admitted, Holding, Settling, TypeOK
  <2>7. CASE Reserve(t) \/ AllocateZone(t) \/ ResolveZone(t) \/ Refuse(t) \/
              RefuseLeaks(t)
    BY <2>7, SealedDistinct DEF Reserve, At, reserve_result, Goto,
       AllocateZone, store, ResolveZone, Refuse, delete_result, Done,
       RefuseLeaks, StoreInStep, Admitted, Holding, Settling, TypeOK
  <2>8. CASE ReadZone(t) \/ CreateContainer(t) \/ CreateFails(t) \/
              BindFails(t) \/ StartContainer(t)
    BY <2>8, SealedDistinct DEF ReadZone, At, Fails, Goto, store,
       CreateContainer, CreateFails, BindFails, StartContainer, StoreInStep,
       Admitted, Holding, Settling, TypeOK
  <2>9. CASE StartReplyLost(t) \/ StartFails(t) \/ RecordRunning(t) \/
              RecordRunningFails(t) \/ PollStopped(t)
    BY <2>9, SealedDistinct DEF StartReplyLost, At, Fails, store, Goto,
       StartFails, RecordRunning, RecordRunningFails, PollStopped,
       StoreInStep, Admitted, Holding, Settling, TypeOK
  <2>10. CASE RecordExit(t) \/ Timeout(t) \/ RecordStopped(t) \/
              TimeoutStopFails(t) \/ CommitFails(t)
    BY <2>10, SealedDistinct DEF RecordExit, At, Waited, store, Goto, Timeout,
       RecordStopped, TimeoutStopFails, CommitFails, Done, StoreInStep,
       Admitted, Holding, Settling, TypeOK
  <2>11. CASE CleanupZone(t) \/ CleanupContainer(t) \/ FinishRecovery(t) \/
              RecoverCommitted(t) \/ RecoverStop(t)
    BY <2>11, SealedDistinct DEF CleanupZone, Goto, store, CleanupContainer,
       FinishRecovery, finish_recovery, Done, RecoverCommitted, RecoverTurn,
       RecoverStop, StoreInStep, Admitted, Holding, Settling, TypeOK
  <2>12. CASE DeleteResult(t)
    BY Zenon, <2>12, SealedDistinct DEF DeleteResult, At, delete_result,
       worker, StoreInStep, Admitted, Holding, Settling, TypeOK, store
  <2> QED BY Zenon, <1>1, <2>1, <2>2, <2>3, <2>4, <2>5, <2>6, <2>7, <2>8, <2>9,
         <2>10, <2>11, <2>12
       DEF WorkerStep, CleanupStep, RecoveryStep
<1>2. ASSUME NEW z \in ZoneIds, 
             \/ GuardedZoneCleanup(z) \/ GuardedZoneCleanupFails(z)
             \/ OperatorDeletesZone(z) \/ OperatorDeletesZonePartly(z)
      PROVE  StoreInStep'
  <2>1. CASE GuardedZoneCleanup(z) \/ GuardedZoneCleanupFails(z) \/
              OperatorDeletesZone(z) \/ OperatorDeletesZonePartly(z)
    BY <2>1 DEF GuardedZoneCleanup, store, worker, GuardedZoneCleanupFails,
       OperatorDeletesZone, OperatorDeletesZonePartly, StoreInStep, Admitted,
       Holding, Settling, TypeOK
  <2> QED BY Zenon, <1>2, <2>1
<1>3. ASSUME NEW c \in Containers, Exit(c) \/ OperatorDeletesContainer(c)
      PROVE  StoreInStep'
  <2>1. CASE Exit(c) \/ OperatorDeletesContainer(c)
    BY Zenon, <2>1 DEF Exit, store, worker, OperatorDeletesContainer,
       StoreInStep, Admitted, Holding, Settling, TypeOK
  <2> QED BY Zenon, <1>3, <2>1
<1>4. CASE OperatorCreatesZone \/ Restart \/ RestartZoneFails \/ Serve
  BY <1>4 DEF OperatorCreatesZone, store, worker, Restart, Reconcile,
     RestartZoneFails, Serve, StoreInStep, Admitted, Holding, Settling, TypeOK
<1>5. CASE Crash
  BY Zenon, <1>5 DEF Crash, RecoverFails, Forget, store, StoreInStep, Admitted,
     Holding, Settling
<1>6. CASE UNCHANGED vars
  BY Zenon, <1>6 DEF vars, store, registry, worker, history, StoreInStep,
     Admitted, Holding, Settling, TypeOK
<1> QED BY Zenon, <1>1, <1>2, <1>3, <1>4, <1>5, <1>6 DEF Next

\* A reservation leads to one start.
LEMMA StartsStep ==
  TypeOK /\ StoreInStep /\ StartsInStep /\ [Next]_vars
  => StartsInStep'
<1> SUFFICES ASSUME TypeOK, StoreInStep, StartsInStep, [Next]_vars
             PROVE  StartsInStep'
    OBVIOUS
<1>1. ASSUME NEW t \in Tasks, 
             WorkerStep(t) \/ CleanupStep(t) \/ RecoveryStep(t)
             \/ DeleteResult(t)
      PROVE  StartsInStep'
  <2>1. CASE RecoverFails(t)
    BY Zenon, <2>1 DEF Crash, RecoverFails, Forget, store, history,
       StartsInStep
  <2>2. CASE CleanupZonePartly(t) \/ CleanupFails(t)
    BY Zenon, <2>2 DEF CleanupZonePartly, CleanupFails, Forget, Done, Goto,
       store, history, StartsInStep, TypeOK
  <2>3. CASE Reserve(t) \/ AllocateZone(t) \/ ResolveZone(t) \/ Admit(t) \/
              Refuse(t)
    BY Zenon, <2>3 DEF Reserve, At, reserve_result, Goto, history, Absent,
       Empty, AllocateZone, ResolveZone, Admit, Refuse, delete_result, Done,
       StartsInStep, StoreInStep, Admitted, Holding, Settling, Sealed, TypeOK,
       store
  <2>4. CASE RefuseLeaks(t) \/ ReadZone(t) \/ CreateContainer(t) \/
              CreateFails(t) \/ BindContainer(t)
    BY Zenon, <2>4 DEF RefuseLeaks, At, Done, history, Goto, ReadZone, Fails,
       CreateContainer, CreateFails, BindContainer, StartsInStep, StoreInStep,
       Admitted, Holding, Settling, Absent, Empty, Sealed, TypeOK, store
  <2>5. CASE BindFails(t) \/ StartContainer(t) \/ StartReplyLost(t) \/
              StartFails(t) \/ RecordRunning(t)
    BY <2>5 DEF BindFails, At, Fails, history, Goto, StartContainer,
       StartReplyLost, StartFails, RecordRunning, StartsInStep, StoreInStep,
       Admitted, Holding, Settling, Absent, Empty, Sealed, TypeOK, store
  <2>6. CASE RecordRunningFails(t) \/ PollStopped(t) \/ RecordExit(t) \/
              Timeout(t) \/ RecordStopped(t)
    BY <2>6 DEF RecordRunningFails, At, Fails, history, Goto, PollStopped,
       RecordExit, Waited, Timeout, RecordStopped, StartsInStep, StoreInStep,
       Admitted, Holding, Settling, Absent, Empty, Sealed, TypeOK, store
  <2>7. CASE TimeoutStopFails(t) \/ Commit(t) \/ CommitFails(t) \/
              CleanupZone(t) \/ CleanupContainer(t)
    BY <2>7 DEF TimeoutStopFails, At, Waited, history, Goto, Commit,
       save_result, Empty, CommitFails, Done, CleanupZone, CleanupContainer,
       StartsInStep, StoreInStep, Admitted, Holding, Settling, Absent, Sealed,
       TypeOK, store
  <2>8. CASE FinishRecovery(t) \/ RecoverCommitted(t) \/ RecoverStop(t) \/
              RecoverSave(t) \/ DeleteResult(t)
    BY <2>8 DEF FinishRecovery, Done, history, Goto, RecoverCommitted,
       RecoverTurn, Sealed, Verdicts, RecoverStop, Empty, RecoverSave,
       save_result, DeleteResult, At, Absent, delete_result, worker,
       StartsInStep, StoreInStep, Admitted, Holding, Settling, TypeOK, store
  <2> QED BY Zenon, <1>1, <2>1, <2>2, <2>3, <2>4, <2>5, <2>6, <2>7, <2>8 DEF
             WorkerStep, CleanupStep, RecoveryStep
<1>2. ASSUME NEW z \in ZoneIds, 
             \/ GuardedZoneCleanup(z) \/ GuardedZoneCleanupFails(z)
             \/ OperatorDeletesZone(z) \/ OperatorDeletesZonePartly(z)
      PROVE  StartsInStep'
  <2>1. CASE GuardedZoneCleanup(z) \/ GuardedZoneCleanupFails(z) \/
              OperatorDeletesZone(z) \/ OperatorDeletesZonePartly(z)
    BY Zenon, <2>1 DEF GuardedZoneCleanup, worker, history,
       GuardedZoneCleanupFails, OperatorDeletesZone, OperatorDeletesZonePartly,
       StartsInStep, StoreInStep, Admitted, Holding, Settling, Absent, Empty,
       Sealed, TypeOK, store
  <2> QED BY Zenon, <1>2, <2>1
<1>3. ASSUME NEW c \in Containers, Exit(c) \/ OperatorDeletesContainer(c)
      PROVE  StartsInStep'
  <2>1. CASE Exit(c) \/ OperatorDeletesContainer(c)
    BY Zenon, <2>1 DEF Exit, worker, history, OperatorDeletesContainer,
       StartsInStep, StoreInStep, Admitted, Holding, Settling, Absent, Empty,
       Sealed, TypeOK, store
  <2> QED BY Zenon, <1>3, <2>1
<1>4. CASE OperatorCreatesZone \/ Restart \/ RestartZoneFails \/ Serve
  BY Zenon, <1>4 DEF OperatorCreatesZone, worker, Restart, Reconcile, history,
     RestartZoneFails, Serve, StartsInStep, StoreInStep, Admitted, Holding,
     Settling, Absent, Empty, Sealed, TypeOK, store
<1>5. CASE Crash
  BY Zenon, <1>5 DEF Crash, RecoverFails, Forget, store, history, StartsInStep
<1>6. CASE UNCHANGED vars
  BY Zenon, <1>6 DEF vars, store, registry, worker, history, StartsInStep,
     StoreInStep, Admitted, Holding, Settling, Absent, Empty, Sealed, TypeOK
<1> QED BY Zenon, <1>1, <1>2, <1>3, <1>4, <1>5, <1>6 DEF Next

\* The worker's copy of its record agrees with redb's.
LEMMA RecordStep ==
  TypeOK /\ LocalsSet /\ RecordInStep /\ [Next]_vars
  => RecordInStep'
<1> SUFFICES ASSUME TypeOK, LocalsSet, RecordInStep, [Next]_vars
             PROVE  RecordInStep'
    OBVIOUS
<1>1. ASSUME NEW t \in Tasks, 
             WorkerStep(t) \/ CleanupStep(t) \/ RecoveryStep(t)
             \/ DeleteResult(t)
      PROVE  RecordInStep'
  <2>1. CASE RecoverFails(t)
    BY Zenon, <2>1 DEF Crash, RecoverFails, Forget, RecordInStep, Admitted,
       Holding, Settling
  <2>2. CASE CleanupZonePartly(t) \/ CleanupFails(t)
    <3>1. /\ UNCHANGED rec
          /\ \A u \in Tasks : pc'[u] = "idle" \/ (pc'[u] = pc[u] /\ wk'[u] = wk[u])
      BY Zenon, <2>2 DEF CleanupZonePartly, CleanupFails, Forget, Done, Goto,
         store, TypeOK
    <3> QED BY Zenon, <3>1 DEF RecordInStep, Admitted, Holding, Settling
  <2>3. CASE RecoverCommitted(t) \/ RecoverStop(t)
    <3>1. CASE RecoverCommitted(t)
      BY <3>1, AdoptLocals, ZenonT(20), SMTT(20) DEF RecoverCommitted,
         RecoverTurn, Adopt, Goto, store, RecordInStep, Admitted, Holding,
         Settling, TypeOK
    <3>2. CASE RecoverStop(t)
      BY <3>2, AdoptLocals, ZenonT(20), SMTT(20) DEF RecoverStop, RecoverTurn,
         Adopt, Goto, store, RecordInStep, Admitted, Holding, Settling, TypeOK
    <3> QED BY Zenon, <2>3, <3>1, <3>2
  <2>4. CASE Admit(t) \/ BindContainer(t)
    <3>1. CASE Admit(t)
      BY Zenon, <3>1 DEF Admit, At, Goto, RecordInStep, Admitted, Holding,
         Settling, TypeOK, store, put_recovery, LocalsSet
    <3>2. CASE BindContainer(t)
      BY Zenon, <3>2 DEF At, Goto, BindContainer, RecordInStep, Admitted,
         Holding, Settling, TypeOK, store, put_recovery, LocalsSet
    <3> QED BY Zenon, <2>4, <3>1, <3>2
  <2>5. CASE FinishRecovery(t)
    BY Zenon, <2>5 DEF FinishRecovery, Done, Goto, RecordInStep, Admitted,
       Holding, Settling, TypeOK, store, finish_recovery
  <2>6. CASE AllocateZone(t) \/ ResolveZone(t) \/ ReadZone(t) \/
              CreateContainer(t) \/ CreateFails(t)
    BY <2>6 DEF AllocateZone, At, Goto, store, ResolveZone, ReadZone, Fails,
       CreateContainer, CreateFails, RecordInStep, Admitted, Holding,
       Settling, TypeOK, Workers
  <2>7. CASE BindFails(t) \/ StartReplyLost(t) \/ StartFails(t) \/
              RecordRunningFails(t) \/ RecordExit(t)
    BY <2>7 DEF BindFails, At, Fails, store, Goto, StartReplyLost, StartFails,
       RecordRunningFails, RecordExit, Waited, RecordInStep, Admitted,
       Holding, Settling, TypeOK, Workers
  <2>8. CASE RecordStopped(t) \/ TimeoutStopFails(t)
    BY <2>8 DEF RecordStopped, At, Waited, store, Goto, TimeoutStopFails,
       RecordInStep, Admitted, Holding, Settling, TypeOK, Workers
  <2>9. CASE Reserve(t) \/ Refuse(t) \/ RefuseLeaks(t) \/ StartContainer(t) \/
              RecordRunning(t)
    BY <2>9 DEF Reserve, At, Goto, Refuse, Done, RefuseLeaks, store,
       StartContainer, RecordRunning, RecordInStep, Admitted, Holding,
       Settling, TypeOK
  <2>10. CASE PollStopped(t) \/ Timeout(t) \/ Commit(t) \/ CommitFails(t) \/
              CleanupZone(t)
    <3>1. CASE PollStopped(t) \/ Timeout(t)
      BY <3>1 DEF PollStopped, At, Goto, store, Timeout, Done, RecordInStep,
         Admitted, Holding, Settling, TypeOK
    <3>2. CASE Commit(t) \/ CommitFails(t)
      BY <3>2 DEF At, Goto, store, Commit, CommitFails, Done, RecordInStep,
         Admitted, Holding, Settling, TypeOK
    <3>3. CASE CleanupZone(t)
      BY Zenon, <3>3 DEF At, Goto, store, Done, CleanupZone, RecordInStep,
         Admitted, Holding, Settling, TypeOK
    <3> QED BY Zenon, <2>10, <3>1, <3>2, <3>3
  <2>11. CASE CleanupContainer(t) \/ RecoverSave(t) \/ DeleteResult(t)
    <3>1. CASE CleanupContainer(t)
      BY Zenon, <3>1 DEF CleanupContainer, Goto, store, RecordInStep, Admitted,
         Holding, Settling, TypeOK
    <3>2. CASE RecoverSave(t)
      BY Zenon, <3>2 DEF RecoverSave, Goto, store, RecordInStep, Admitted,
         Holding, Settling, TypeOK
    <3>3. CASE DeleteResult(t)
      BY Zenon, <3>3 DEF DeleteResult, At, worker, RecordInStep, Admitted,
         Holding, Settling, TypeOK
    <3> QED BY Zenon, <2>11, <3>1, <3>2, <3>3
  <2> QED BY Zenon, <1>1, <2>1, <2>2, <2>3, <2>4, <2>5, <2>6, <2>7, <2>8, <2>9,
         <2>10, <2>11
       DEF WorkerStep, CleanupStep, RecoveryStep
<1>2. ASSUME NEW z \in ZoneIds, 
             \/ GuardedZoneCleanup(z) \/ GuardedZoneCleanupFails(z)
             \/ OperatorDeletesZone(z) \/ OperatorDeletesZonePartly(z)
      PROVE  RecordInStep'
  <2>1. CASE GuardedZoneCleanup(z) \/ GuardedZoneCleanupFails(z) \/
              OperatorDeletesZone(z) \/ OperatorDeletesZonePartly(z)
    BY Zenon, <2>1 DEF GuardedZoneCleanup, store, worker,
       GuardedZoneCleanupFails, OperatorDeletesZone, OperatorDeletesZonePartly,
       RecordInStep, Admitted, Holding, Settling, TypeOK
  <2> QED BY Zenon, <1>2, <2>1
<1>3. ASSUME NEW c \in Containers, Exit(c) \/ OperatorDeletesContainer(c)
      PROVE  RecordInStep'
  <2>1. CASE Exit(c) \/ OperatorDeletesContainer(c)
    BY Zenon, <2>1 DEF Exit, store, worker, OperatorDeletesContainer,
       RecordInStep, Admitted, Holding, Settling, TypeOK
  <2> QED BY Zenon, <1>3, <2>1
<1>4. CASE OperatorCreatesZone \/ Restart \/ RestartZoneFails \/ Serve
  BY Zenon, <1>4 DEF OperatorCreatesZone, store, worker, Restart, Reconcile,
     RestartZoneFails, Serve, RecordInStep, Admitted, Holding, Settling,
     TypeOK
<1>5. CASE Crash
  BY Zenon, <1>5 DEF Crash, RecoverFails, Forget, RecordInStep, Admitted,
     Holding, Settling
<1>6. CASE UNCHANGED vars
  BY Zenon, <1>6 DEF vars, store, registry, worker, history, RecordInStep,
     Admitted, Holding, Settling, TypeOK
<1> QED BY Zenon, <1>1, <1>2, <1>3, <1>4, <1>5, <1>6 DEF Next


-----------------------------------------------------------------------------
(* The conjuncts of TaskInv about zones, containers and rows.              *)

\* Zone ids are never reused and handles belong to registered zones.
LEMMA RegistryZonesStep ==
  TypeOK /\ RegistryZones /\ [Next]_vars
  => RegistryZones'
<1> SUFFICES ASSUME TypeOK, RegistryZones, [Next]_vars
             PROVE  RegistryZones'
    OBVIOUS
<1>1. ASSUME NEW t \in Tasks, 
             WorkerStep(t) \/ CleanupStep(t) \/ RecoveryStep(t)
             \/ DeleteResult(t)
      PROVE  RegistryZones'
  <2>1. CASE Reserve(t) \/ ResolveZone(t) \/ Admit(t) \/ Refuse(t) \/
              RefuseLeaks(t) \/ ReadZone(t) \/ CreateContainer(t) \/
              CreateFails(t) \/ BindContainer(t) \/ BindFails(t) \/
              StartContainer(t) \/ StartReplyLost(t) \/ StartFails(t) \/
              RecordRunning(t) \/ RecordRunningFails(t) \/ PollStopped(t) \/
              RecordExit(t) \/ Timeout(t) \/ RecordStopped(t) \/
              TimeoutStopFails(t) \/ Commit(t) \/ CommitFails(t) \/
              CleanupContainer(t) \/ FinishRecovery(t) \/
              RecoverCommitted(t) \/ RecoverStop(t) \/ RecoverSave(t) \/
              DeleteResult(t)
    BY <2>1, ZenonT(20), SMTT(20) DEF Reserve, registry, history, ResolveZone,
       Admit, Refuse, RefuseLeaks, ReadZone, CreateContainer, CreateFails,
       BindContainer, BindFails, StartContainer, StartReplyLost, StartFails,
       RecordRunning, RecordRunningFails, PollStopped, RecordExit, Timeout,
       RecordStopped, TimeoutStopFails, Commit, CommitFails, CleanupContainer,
       FinishRecovery, RecoverCommitted, RecoverStop, RecoverSave,
       DeleteResult, worker, RegistryZones, TypeOK, Zones
  <2>2. CASE AllocateZone(t) \/ CleanupZone(t) \/ CleanupZonePartly(t) \/
              CleanupFails(t) \/ RecoverFails(t)
    BY Zenon, <2>2, NoneAssumption DEF AllocateZone, CleanupZone, delete_zone,
       registry, history, CleanupZonePartly, Forget, CleanupFails,
       RecoverFails, RegistryZones, TypeOK, Zones
  <2> QED BY Zenon, <1>1, <2>1, <2>2 DEF WorkerStep, CleanupStep, RecoveryStep
<1>2. ASSUME NEW z \in ZoneIds, 
             \/ GuardedZoneCleanup(z) \/ GuardedZoneCleanupFails(z)
             \/ OperatorDeletesZone(z) \/ OperatorDeletesZonePartly(z)
      PROVE  RegistryZones'
  <2>1. CASE GuardedZoneCleanupFails(z)
    BY Zenon, <2>1 DEF GuardedZoneCleanupFails, registry, worker, history,
       RegistryZones, TypeOK, Zones
  <2>2. CASE GuardedZoneCleanup(z) \/ OperatorDeletesZone(z) \/
              OperatorDeletesZonePartly(z)
    BY <2>2, NoneAssumption DEF GuardedZoneCleanup, delete_zone, registry,
       worker, history, OperatorDeletesZone, OperatorDeletesZonePartly, Zones,
       RegistryZones, TypeOK
  <2> QED BY Zenon, <1>2, <2>1, <2>2
<1>3. ASSUME NEW c \in Containers, Exit(c) \/ OperatorDeletesContainer(c)
      PROVE  RegistryZones'
  <2>1. CASE Exit(c) \/ OperatorDeletesContainer(c)
    BY Zenon, <2>1 DEF Exit, registry, worker, history,
       OperatorDeletesContainer, RegistryZones, TypeOK, Zones
  <2> QED BY Zenon, <1>3, <2>1
<1>4. CASE Serve
  BY Zenon, <1>4 DEF Serve, registry, worker, history, RegistryZones, TypeOK,
     Zones
<1>5. CASE OperatorCreatesZone \/ Crash \/ Restart \/ RestartZoneFails
  BY Zenon, <1>5, NoneAssumption DEF OperatorCreatesZone, worker, Crash,
     Forget, history, Restart, Reconcile, Zones, RestartZoneFails,
     RegistryZones, TypeOK, registry
<1>6. CASE UNCHANGED vars
  BY Zenon, <1>6 DEF vars, store, registry, worker, history, RegistryZones,
     TypeOK, Zones
<1> QED BY Zenon, <1>1, <1>2, <1>3, <1>4, <1>5, <1>6 DEF Next

\* delete_zone takes the zone's containers with it.
LEMMA DeleteZoneShimZones ==
  ASSUME TypeOK, ShimZones, NEW z, delete_zone(z), UNCHANGED minted
  PROVE  ShimZones'
<1>1. \A c \in Containers : shim[c] # None /\ shim[c].zone = z =>
        shim'[c] = [shim[c] EXCEPT !.st = "gone"] /\ shim[c] \in Insts
  BY Zenon DEF delete_zone, Drained, TypeOK
<1>2. \A c \in Containers : ~(shim[c] # None /\ shim[c].zone = z) =>
        shim'[c] = shim[c]
  BY Zenon DEF delete_zone, Drained
<1>3. Zones' = Zones \ {z}
  BY Zenon DEF delete_zone, Zones
<1> QED BY <1>1, <1>2, <1>3, ZenonT(20), SMTT(20) DEF ShimZones, Insts

\* A container the shim still has lives in a registered zone.
LEMMA ShimZonesStep ==
  TaskInv /\ ShimFrame /\ [Next]_vars
  => ShimZones'
<1> SUFFICES ASSUME TaskInv, ShimFrame, [Next]_vars
             PROVE  ShimZones'
    OBVIOUS
<1> USE DEF TaskInv
<1>1. ASSUME NEW t \in Tasks, 
             WorkerStep(t) \/ CleanupStep(t) \/ RecoveryStep(t)
             \/ DeleteResult(t)
      PROVE  ShimZones'
  <2>1. CASE Reserve(t) \/ ResolveZone(t) \/ Admit(t) \/ Refuse(t) \/
              RefuseLeaks(t) \/ ReadZone(t) \/ BindContainer(t) \/
              BindFails(t) \/ StartFails(t) \/ RecordRunning(t) \/
              RecordRunningFails(t) \/ PollStopped(t) \/ RecordExit(t) \/
              RecordStopped(t) \/ TimeoutStopFails(t) \/ Commit(t) \/
              CommitFails(t) \/ FinishRecovery(t) \/ CleanupFails(t) \/
              RecoverCommitted(t) \/ RecoverSave(t) \/ RecoverFails(t) \/
              DeleteResult(t)
    BY <2>1, ZenonT(20), SMTT(20) DEF Reserve, registry, history, ResolveZone,
       Admit, Refuse, RefuseLeaks, ReadZone, BindContainer, BindFails,
       StartFails, RecordRunning, RecordRunningFails, PollStopped, RecordExit,
       RecordStopped, TimeoutStopFails, Commit, CommitFails, FinishRecovery,
       CleanupFails, Forget, RecoverCommitted, RecoverSave, RecoverFails,
       DeleteResult, worker, ShimZones, ShimFrame, TypeOK, Zones
  <2>2. CASE CreateContainer(t)
    <3>1. NewInst(t) \in Insts /\ NewInst(t).admitted \in minted
          /\ NewInst(t).zone \in Zones
      BY Zenon, <2>2, NewInstType, NoneAssumption DEF CreateContainer, NewInst,
         At, LocalsSet, Admitted, TaskZones, RegistryZones
    <3> QED BY <2>2, <3>1, NoneAssumption DEF CreateContainer, history, Zones,
               ShimZones, TypeOK
  <2>3. CASE CreateFails(t)
    <3>1. CASE UNCHANGED shim
      BY Zenon, <2>3, <3>1 DEF CreateFails, registry, history, Zones, ShimZones
    <3>2. ASSUME ZoneByName(t) \in handles, NEW c \in Containers,
                 shim' = [shim EXCEPT ![c] = NewInst(t)]
          PROVE  ShimZones'
      <4>1. NewInst(t) \in Insts /\ NewInst(t).admitted \in minted
            /\ NewInst(t).zone \in Zones
        BY Zenon, <2>3, <3>2, NewInstType, NoneAssumption DEF CreateFails,
           NewInst, At, LocalsSet, Admitted, TaskZones, RegistryZones
      <4> QED BY Zenon, <2>3, <3>2, <4>1 DEF CreateFails, registry, history,
                 Zones, ShimZones, TypeOK
    <3> QED BY Zenon, <2>3, <3>1, <3>2 DEF CreateFails
  <2>4. CASE AllocateZone(t)
    BY Zenon, <2>4 DEF AllocateZone, ShimZones, ShimFrame, TypeOK, Zones,
       registry, history
  <2>5. CASE CleanupZone(t)
    <3>1. CASE UNCHANGED <<registry, shim>>
      BY Zenon, <2>5, <3>1 DEF CleanupZone, registry, history, Zones, ShimZones
    <3>2. CASE delete_zone(wk[t].zone)
      BY Zenon, <2>5, <3>2, DeleteZoneShimZones DEF CleanupZone, history
    <3> QED BY Zenon, <2>5, <3>1, <3>2 DEF CleanupZone
  <2>6. CASE StartContainer(t) \/ StartReplyLost(t) \/ Timeout(t)
    <3>1. wk[t].cont \in Containers /\ shim[wk[t].cont] # None
      BY Zenon, <2>6 DEF StartContainer, StartReplyLost, Timeout, At,
         LocalsSet, Holding
    <3> QED BY <2>6, <3>1 DEF StartContainer, StartReplyLost, Timeout,
               SetInst, registry, history, Zones, ShimFrame, ShimZones, TypeOK
  <2>7. CASE CleanupZonePartly(t)
    BY <2>7 DEF CleanupZonePartly, PartlyDeleted, Forget, history, ShimZones,
       ShimFrame, TypeOK, Zones, registry, Drained
  <2>8. CASE CleanupContainer(t)
    <3>1. CASE UNCHANGED shim
      BY Zenon, <2>8, <3>1 DEF CleanupContainer, history, Zones, ShimZones
    <3>2. ASSUME NEW c \in task_containers(t, wk[t]),
                 delete_container(c, Refreshed(c))
          PROVE  ShimZones'
      <4>1. c \in Containers /\ shim[c] # None
        BY Zenon, <3>2 DEF task_containers, RowsInStep
      <4> QED BY <2>8, <3>2, <4>1 DEF CleanupContainer, delete_container,
                 SetInst, history, Zones, ShimFrame, ShimZones, TypeOK
    <3> QED BY Zenon, <2>8, <3>1, <3>2 DEF CleanupContainer
  <2>9. CASE RecoverStop(t)
    <3>1. CASE UNCHANGED shim
      BY Zenon, <2>9, <3>1 DEF RecoverStop, history, Zones, ShimZones
    <3>2. ASSUME NEW c \in Containers, task_containers(t, rec[t]) = {c},
                 shim' = SetInst(c, "stopped")
          PROVE  ShimZones'
      <4>1. shim[c] # None
        BY Zenon, <3>2 DEF task_containers, RowsInStep
      <4> QED BY <2>9, <3>2, <4>1 DEF RecoverStop, SetInst, history, Zones,
                 ShimFrame, ShimZones, TypeOK
    <3> QED BY Zenon, <2>9, <3>1, <3>2 DEF RecoverStop
  <2> QED BY Zenon, <1>1, <2>1, <2>2, <2>3, <2>4, <2>5, <2>6, <2>7, <2>8, <2>9
             DEF WorkerStep, CleanupStep, RecoveryStep
<1>2. ASSUME NEW z \in ZoneIds, 
             \/ GuardedZoneCleanup(z) \/ GuardedZoneCleanupFails(z)
             \/ OperatorDeletesZone(z) \/ OperatorDeletesZonePartly(z)
      PROVE  ShimZones'
  <2>1. CASE GuardedZoneCleanupFails(z)
    BY Zenon, <2>1 DEF GuardedZoneCleanupFails, registry, worker, history,
       ShimZones, ShimFrame, TypeOK, Zones
  <2>2. CASE GuardedZoneCleanup(z)
    <3>1. CASE UNCHANGED <<registry, shim>>
      BY Zenon, <2>2, <3>1 DEF GuardedZoneCleanup, registry, history, Zones,
         ShimZones
    <3>2. CASE delete_zone(z)
      BY Zenon, <2>2, <3>2, DeleteZoneShimZones DEF GuardedZoneCleanup, history
    <3> QED BY Zenon, <2>2, <3>1, <3>2 DEF GuardedZoneCleanup
  <2>3. CASE OperatorDeletesZone(z)
    BY Zenon, <2>3, DeleteZoneShimZones DEF OperatorDeletesZone
  <2>4. CASE OperatorDeletesZonePartly(z)
    BY <2>4 DEF OperatorDeletesZonePartly, Zones, PartlyDeleted, worker,
       ShimZones, ShimFrame, TypeOK, registry, history, Drained
  <2> QED BY Zenon, <1>2, <2>1, <2>2, <2>3, <2>4
<1>3. ASSUME NEW c \in Containers, Exit(c) \/ OperatorDeletesContainer(c)
      PROVE  ShimZones'
  <2>1. CASE Exit(c)
    BY <2>1 DEF Exit, SetInst, registry, worker, history, ShimZones,
       ShimFrame, TypeOK, Zones
  <2>2. CASE OperatorDeletesContainer(c)
    BY <2>2 DEF OperatorDeletesContainer, delete_container, worker, SetInst,
       ShimZones, ShimFrame, TypeOK, Zones, registry, history, RowsInStep
  <2> QED BY Zenon, <1>3, <2>1, <2>2
<1>4. CASE Crash \/ Restart \/ RestartZoneFails \/ Serve
  BY Zenon, <1>4 DEF Crash, Forget, history, Restart, Reconcile, Zones, worker,
     RestartZoneFails, Serve, registry, ShimZones, ShimFrame, TypeOK
<1>5. CASE OperatorCreatesZone
  BY Zenon, <1>5 DEF OperatorCreatesZone, worker, ShimZones, ShimFrame, TypeOK,
     Zones, registry, history
<1>6. CASE UNCHANGED vars
  BY Zenon, <1>6 DEF vars, store, registry, worker, history, ShimZones,
     ShimFrame, TypeOK, Zones
<1> QED BY Zenon, <1>1, <1>2, <1>3, <1>4, <1>5, <1>6 DEF Next

\* A worker that ends, or all of them when the daemon ends, knows no zone.
LEMMA EndedZones ==
  ASSUME TypeOK, TaskZones, NEW t \in Tasks, Done(t) \/ Forget,
         UNCHANGED <<rec, temps, minted>>
  PROVE  TaskZones'
<1>1. \A u \in Tasks : \/ wk'[u] = wk[u] /\ pc'[u] = pc[u]
                       \/ wk'[u] = IdleWorker /\ pc'[u] = "idle"
  BY Zenon DEF Done, Forget, Goto, TypeOK
<1>2. IdleWorker.zone = None
  BY DEF IdleWorker
<1> QED BY Zenon, <1>1, <1>2 DEF TaskZones

\* Workers and records name zones that existed.
LEMMA TaskZonesStep ==
  TaskInv /\ [Next]_vars
  => TaskZones'
<1> SUFFICES ASSUME TaskInv, [Next]_vars
             PROVE  TaskZones'
    OBVIOUS
<1> USE DEF TaskInv
<1>1. ASSUME NEW t \in Tasks, 
             WorkerStep(t) \/ CleanupStep(t) \/ RecoveryStep(t)
             \/ DeleteResult(t)
      PROVE  TaskZones'
  <2>1. CASE RecoverFails(t)
    BY Zenon, <2>1, NoneAssumption DEF RecoverFails, RecoverTurn, Forget,
       store, history, IdleWorker, TaskZones, TypeOK, registry
  <2>2. CASE CleanupZonePartly(t) \/ CleanupFails(t)
    BY Zenon, <2>2, EndedZones DEF CleanupZonePartly, CleanupFails, store,
       history
  <2>3. CASE RecoverCommitted(t) \/ RecoverStop(t)
    <3>1. Adopt(t) /\ rec[t] # None /\ UNCHANGED <<rec, temps, minted>>
      BY Zenon, <2>3 DEF RecoverCommitted, RecoverStop, RecoverTurn, store,
         registry, history
    <3>2. wk'[t].zone \in minted /\ wk'[t].kind # "named"
      BY Zenon, <3>1, AdoptLocals DEF TaskZones
    <3>3. \A u \in Tasks : u # t => wk'[u] = wk[u] /\ pc'[u] = pc[u]
      BY Zenon, <2>3, <3>1 DEF RecoverCommitted, RecoverStop, Adopt, Goto,
         TypeOK
    <3> QED BY Zenon, <3>1, <3>2, <3>3 DEF TaskZones
  <2>4. CASE Admit(t) \/ BindContainer(t)
    <3>1. /\ pc[t] \in {"admit", "bind"} /\ UNCHANGED <<wk, temps, minted>>
          /\ \E c : rec' = [rec EXCEPT ![t] = [zone |-> wk[t].zone, cont |-> c, owns |-> wk[t].owns]]
          /\ \E l : Goto(t, l)
      BY Zenon, <2>4 DEF Admit, BindContainer, At, put_recovery, registry, history
    <3>2. /\ rec'[t].zone = wk[t].zone
          /\ \A u \in Tasks : u # t => rec'[u] = rec[u] /\ pc'[u] = pc[u]
      BY <3>1 DEF TypeOK, Goto
    <3>3. wk[t].zone \in minted
      BY Zenon, <3>1, NoneAssumption DEF TaskZones, LocalsSet, Admitted, Holding
    <3>4. pc[t] # "idle"
      BY Zenon, <3>1
    <3> QED BY Zenon, <3>1, <3>2, <3>3, <3>4 DEF TaskZones
  <2>5. CASE FinishRecovery(t)
    BY Zenon, <2>5, NoneAssumption DEF FinishRecovery, Done, registry, history,
       Goto, IdleWorker, TaskZones, TypeOK, store, finish_recovery
  <2>6. CASE Refuse(t) \/ RefuseLeaks(t) \/ CommitFails(t)
    BY Zenon, <2>6, EndedZones DEF Refuse, RefuseLeaks, CommitFails, registry,
       history, store
  <2>7. CASE Reserve(t)
    <3>1. wk'[t].zone = None
      BY Zenon, <2>7 DEF Reserve, TypeOK, IdleWorker
    <3> QED BY Zenon, <2>7, <3>1, NoneAssumption DEF Reserve, Goto, registry,
               history, TaskZones, TypeOK
  <2>8. CASE AllocateZone(t) \/ ResolveZone(t)
    BY <2>8, NoneAssumption DEF AllocateZone, At, Goto, store, ResolveZone,
       registry, history, TaskZones, TypeOK, Workers, RegistryZones, Zones
  <2>9. CASE ReadZone(t)
    <3>1. wk'[t].zone = wk[t].zone /\ wk'[t].kind = wk[t].kind
      BY <2>9 DEF ReadZone, Fails, TypeOK, Workers
    <3> QED BY Zenon, <2>9, <3>1 DEF ReadZone, Fails, At, Goto, store,
               registry, history, TaskZones, TypeOK
  <2>10. CASE CreateContainer(t)
    BY <2>10 DEF CreateContainer, At, Goto, store, history, TaskZones, TypeOK,
       registry, Workers
  <2>11. CASE CreateFails(t) \/ BindFails(t) \/ StartReplyLost(t) \/
              StartFails(t)
    BY <2>11 DEF CreateFails, At, Fails, store, registry, history, Goto,
       BindFails, StartReplyLost, StartFails, TaskZones, TypeOK, Workers
  <2>12. CASE RecordRunningFails(t) \/ RecordExit(t) \/ RecordStopped(t) \/
              TimeoutStopFails(t)
    BY <2>12 DEF RecordRunningFails, At, Fails, store, registry, history,
       Goto, RecordExit, Waited, RecordStopped, TimeoutStopFails, TaskZones,
       TypeOK, Workers
  <2>13. CASE StartContainer(t) \/ RecordRunning(t) \/ PollStopped(t) \/
              Timeout(t) \/ Commit(t)
    BY Zenon, <2>13 DEF StartContainer, At, Goto, store, registry,
       RecordRunning, history, PollStopped, Timeout, Commit, TaskZones, TypeOK
  <2>14. CASE CleanupZone(t) \/ CleanupContainer(t) \/ RecoverSave(t) \/
              DeleteResult(t)
    BY Zenon, <2>14 DEF CleanupZone, delete_zone, registry, Goto, store,
       history, CleanupContainer, RecoverSave, DeleteResult, At, worker,
       TaskZones, TypeOK
  <2> QED BY Zenon, <1>1, <2>1, <2>2, <2>3, <2>4, <2>5, <2>6, <2>7, <2>8, <2>9,
         <2>10, <2>11, <2>12, <2>13, <2>14
       DEF WorkerStep, CleanupStep, RecoveryStep
<1>2. ASSUME NEW z \in ZoneIds, 
             \/ GuardedZoneCleanup(z) \/ GuardedZoneCleanupFails(z)
             \/ OperatorDeletesZone(z) \/ OperatorDeletesZonePartly(z)
      PROVE  TaskZones'
  <2>1. CASE GuardedZoneCleanup(z) \/ GuardedZoneCleanupFails(z) \/
              OperatorDeletesZone(z) \/ OperatorDeletesZonePartly(z)
    BY Zenon, <2>1 DEF GuardedZoneCleanup, delete_zone, registry, store,
       worker, history, GuardedZoneCleanupFails, OperatorDeletesZone,
       OperatorDeletesZonePartly, Zones, TaskZones, TypeOK
  <2> QED BY Zenon, <1>2, <2>1
<1>3. ASSUME NEW c \in Containers, Exit(c) \/ OperatorDeletesContainer(c)
      PROVE  TaskZones'
  <2>1. CASE Exit(c) \/ OperatorDeletesContainer(c)
    BY Zenon, <2>1 DEF Exit, store, registry, worker, history,
       OperatorDeletesContainer, TaskZones, TypeOK
  <2> QED BY Zenon, <1>3, <2>1
<1>4. CASE OperatorCreatesZone \/ Restart \/ RestartZoneFails \/ Serve
  BY Zenon, <1>4 DEF OperatorCreatesZone, store, worker, Restart, Reconcile,
     Zones, history, RestartZoneFails, Serve, registry, TaskZones, TypeOK
<1>5. CASE Crash
  BY Zenon, <1>5, NoneAssumption DEF Crash, Forget, store, history, IdleWorker,
     TaskZones, TypeOK, registry
<1>6. CASE UNCHANGED vars
  BY Zenon, <1>6 DEF vars, store, registry, worker, history, TaskZones, TypeOK
<1> QED BY Zenon, <1>1, <1>2, <1>3, <1>4, <1>5, <1>6 DEF Next

\* What a step leaves of a worker that keeps a zone it has read.
Copied(u) ==
    /\ pc'[u] = "backend" => pc[u] = "backend"
    /\ pc'[u] \in Holding => pc[u] \in Holding
    /\ pc'[u] \in {"backend"} \cup Holding =>
         /\ wk'[u].zone = wk[u].zone
         /\ wk'[u].at = wk[u].at
         /\ wk'[u].cont = wk[u].cont

\* Zone copies stay right if no zone appears and no worker reads one.
LEMMA CopiesKept ==
  ASSUME ZoneCopies, LocalsSet, ShimFrame, Zones' \subseteq Zones,
         \A u \in Tasks : Copied(u)
  PROVE  ZoneCopies'
<1>1. ASSUME NEW u \in Tasks, pc'[u] = "backend", wk'[u].zone \in Zones'
      PROVE  wk'[u].at = wk'[u].zone
  BY Zenon, <1>1 DEF ZoneCopies, Copied
<1>2. ASSUME NEW u \in Tasks, pc'[u] \in Holding, Resident(wk[u].cont)'
      PROVE  wk'[u].at = wk'[u].zone
  <2>1. pc[u] \in Holding /\ wk[u].cont \in Containers /\ shim[wk[u].cont] # None
    BY Zenon, <1>2 DEF Copied, LocalsSet
  <2>2. /\ wk'[u].cont = wk[u].cont
        /\ wk'[u].zone = wk[u].zone /\ wk'[u].at = wk[u].at
    BY Zenon, <1>2 DEF Copied
  <2>3. Resident(wk[u].cont)
    BY Zenon, <1>2, <2>1, <2>2 DEF Resident, ShimFrame
  <2> QED BY Zenon, <2>1, <2>2, <2>3 DEF ZoneCopies
<1> QED BY Zenon, <1>1, <1>2 DEF ZoneCopies

\* The zone id create_container copied is the admitted one while that zone
\* lives.
LEMMA ZoneCopiesStep ==
  TaskInv /\ ShimFrame /\ [Next]_vars
  => ZoneCopies'
<1> SUFFICES ASSUME TaskInv, ShimFrame, [Next]_vars
             PROVE  ZoneCopies'
    OBVIOUS
<1> USE DEF TaskInv
<1>1. ASSUME NEW t \in Tasks, 
             WorkerStep(t) \/ CleanupStep(t) \/ RecoveryStep(t)
             \/ DeleteResult(t)
      PROVE  ZoneCopies'
  <2>1. CASE RecoverFails(t)
    BY Zenon, <2>1 DEF Crash, RecoverFails, Forget, ZoneCopies, Holding
  <2>2. CASE CleanupZonePartly(t) \/ CleanupFails(t)
    <3>1. Zones' \subseteq Zones
      BY Zenon, <2>2 DEF CleanupZonePartly, CleanupFails, Forget, registry,
         Zones
    <3>2. \A u \in Tasks : Copied(u)
      BY Zenon, <2>2 DEF CleanupZonePartly, CleanupFails, Forget, Done, Goto,
         Copied, Holding, TypeOK
    <3> QED BY Zenon, <3>1, <3>2, CopiesKept
  <2>3. CASE RecoverCommitted(t) \/ RecoverStop(t)
    BY Zenon, <2>3 DEF RecoverCommitted, RecoverStop, RecoverTurn, Goto,
       ZoneCopies, Holding, TypeOK
  <2>4. CASE AllocateZone(t)
    BY <2>4, NoneAssumption DEF AllocateZone, At, Goto, ZoneCopies, Resident,
       Zones, Holding, LocalsSet, ShimFrame, TypeOK, registry, history,
       Workers, RegistryZones, TaskZones, Admitted
  <2>5. CASE ReadZone(t)
    BY <2>5, NoneAssumption DEF ReadZone, At, Fails, Goto, registry, history,
       ZoneCopies, Resident, Zones, Holding, LocalsSet, ShimFrame, TypeOK,
       Workers, ZoneByName, TaskZones
  <2>6. CASE CreateContainer(t)
    <3>1. PICK c \in Containers :
            /\ shim[c] = None
            /\ shim' = [shim EXCEPT ![c] = NewInst(t)]
            /\ wk' = [wk EXCEPT ![t].cont = c]
      BY <2>6, ZenonT(20), SMTT(20) DEF CreateContainer
    <3>2. shim'[c] = NewInst(t) /\ wk'[t].cont = c /\ wk'[t].zone = wk[t].zone
          /\ wk'[t].at = wk[t].at
      BY Zenon, <3>1 DEF TypeOK, Workers
    <3>3. Resident(c)' => wk'[t].at = wk'[t].zone
      BY <2>6, <3>2 DEF CreateContainer, NewInst, At, Resident, ZoneCopies,
         RegistryZones
    <3>4. ASSUME NEW u \in Tasks, u # t
          PROVE  /\ pc'[u] = pc[u] /\ wk'[u] = wk[u]
                 /\ pc[u] \in Holding => Resident(wk[u].cont)' = Resident(wk[u].cont)
      BY <2>6, <3>1, <3>4 DEF CreateContainer, Goto, LocalsSet, Resident,
         ShimFrame, TypeOK
    <3> QED BY <2>6, <3>2, <3>3, <3>4 DEF CreateContainer, Goto, Zones,
               Holding, ZoneCopies, TypeOK
  <2>7. CASE ResolveZone(t) \/ CreateFails(t) \/ BindFails(t) \/
             StartReplyLost(t) \/ StartFails(t)
    <3>1. Zones' \subseteq Zones
      BY Zenon, <2>7 DEF ResolveZone, CreateFails, BindFails, StartReplyLost,
         StartFails, registry, Zones
    <3>2. \A u \in Tasks : Copied(u)
      BY Zenon, <2>7 DEF ResolveZone, CreateFails, BindFails, StartReplyLost,
         StartFails, At, Goto, Fails, Workers, Copied, Holding, TypeOK
    <3> QED BY Zenon, <3>1, <3>2, CopiesKept
  <2>8. CASE RecordRunningFails(t) \/ RecordExit(t) \/ RecordStopped(t) \/
             TimeoutStopFails(t)
    <3>1. Zones' \subseteq Zones
      BY Zenon, <2>8 DEF RecordRunningFails, RecordExit, RecordStopped,
         TimeoutStopFails, registry, Zones
    <3>2. \A u \in Tasks : Copied(u)
      BY Zenon, <2>8 DEF RecordRunningFails, RecordExit, RecordStopped,
         TimeoutStopFails, At, Goto, Fails, Waited, Workers, Copied, Holding,
         TypeOK
    <3> QED BY Zenon, <3>1, <3>2, CopiesKept
  <2>9. CASE Reserve(t) \/ Admit(t) \/ Refuse(t) \/ RefuseLeaks(t) \/
             BindContainer(t)
    <3>1. Zones' \subseteq Zones
      BY Zenon, <2>9 DEF Reserve, Admit, Refuse, RefuseLeaks, BindContainer,
         registry, Zones
    <3>2. \A u \in Tasks : Copied(u)
      BY Zenon, <2>9 DEF Reserve, Admit, Refuse, RefuseLeaks, BindContainer,
         At, Goto, Done, Copied, Holding, TypeOK
    <3> QED BY Zenon, <3>1, <3>2, CopiesKept
  <2>10. CASE StartContainer(t) \/ RecordRunning(t) \/ PollStopped(t) \/
             Timeout(t) \/ Commit(t)
    <3>1. Zones' \subseteq Zones
      BY Zenon, <2>10 DEF StartContainer, RecordRunning, PollStopped, Timeout,
         Commit, registry, Zones
    <3>2. \A u \in Tasks : Copied(u)
      BY Zenon, <2>10 DEF StartContainer, RecordRunning, PollStopped, Timeout,
         Commit, At, Goto, Copied, Holding, TypeOK
    <3> QED BY Zenon, <3>1, <3>2, CopiesKept
  <2>11. CASE CommitFails(t) \/ CleanupZone(t) \/ CleanupContainer(t) \/
             FinishRecovery(t) \/ RecoverSave(t)
    <3>1. Zones' \subseteq Zones
      BY Zenon, <2>11 DEF CommitFails, CleanupZone, CleanupContainer,
         FinishRecovery, RecoverSave, delete_zone, registry, Zones
    <3>2. \A u \in Tasks : Copied(u)
      BY <2>11 DEF CommitFails, CleanupZone, CleanupContainer, FinishRecovery,
         RecoverSave, Goto, Done, Copied, Holding, TypeOK
    <3> QED BY Zenon, <3>1, <3>2, CopiesKept
  <2>12. CASE DeleteResult(t)
    <3>1. Zones' \subseteq Zones
      BY Zenon, <2>12 DEF DeleteResult, registry, Zones
    <3>2. \A u \in Tasks : Copied(u)
      BY Zenon, <2>12 DEF DeleteResult, worker, Copied, Holding, TypeOK
    <3> QED BY Zenon, <3>1, <3>2, CopiesKept
  <2> QED BY Zenon, <1>1, <2>1, <2>2, <2>3, <2>4, <2>5, <2>6, <2>7, <2>8, <2>9,
         <2>10, <2>11, <2>12
       DEF WorkerStep, CleanupStep, RecoveryStep
<1>2. ASSUME NEW z \in ZoneIds,
             \/ GuardedZoneCleanup(z) \/ GuardedZoneCleanupFails(z)
             \/ OperatorDeletesZone(z) \/ OperatorDeletesZonePartly(z)
      PROVE  ZoneCopies'
  <2>1. Zones' \subseteq Zones
    BY Zenon, <1>2 DEF GuardedZoneCleanup, GuardedZoneCleanupFails,
       OperatorDeletesZone, OperatorDeletesZonePartly, delete_zone, registry,
       Zones
  <2>2. \A u \in Tasks : Copied(u)
    BY Zenon, <1>2 DEF GuardedZoneCleanup, GuardedZoneCleanupFails,
       OperatorDeletesZone, OperatorDeletesZonePartly, worker, Copied, Holding,
       TypeOK
  <2> QED BY Zenon, <2>1, <2>2, CopiesKept
<1>3. ASSUME NEW c \in Containers, Exit(c) \/ OperatorDeletesContainer(c)
      PROVE  ZoneCopies'
  <2>1. Zones' \subseteq Zones
    BY Zenon, <1>3 DEF Exit, OperatorDeletesContainer, registry, Zones
  <2>2. \A u \in Tasks : Copied(u)
    BY Zenon, <1>3 DEF Exit, OperatorDeletesContainer, worker, Copied, Holding,
       TypeOK
  <2> QED BY Zenon, <2>1, <2>2, CopiesKept
<1>4. CASE Restart \/ RestartZoneFails \/ Serve
  <2>1. Zones' \subseteq Zones
    BY Zenon, <1>4 DEF Restart, RestartZoneFails, Serve, Reconcile, registry,
       Zones
  <2>2. \A u \in Tasks : Copied(u)
    BY Zenon, <1>4 DEF Restart, RestartZoneFails, Serve, Reconcile, worker,
       Copied, Holding, TypeOK
  <2> QED BY Zenon, <2>1, <2>2, CopiesKept
<1>5. CASE Crash
  BY <1>5, ZenonT(20), SMTT(20) DEF Crash, RecoverFails, Forget, ZoneCopies,
     Holding
<1>6. CASE OperatorCreatesZone
  <2>1. PICK z \in ZoneIds \ minted : Zones' \subseteq Zones \cup {z}
    BY Zenon, <1>6 DEF OperatorCreatesZone, Zones
  <2>2. UNCHANGED <<pc, wk, shim>>
    BY Zenon, <1>6 DEF OperatorCreatesZone, worker
  <2>3. ASSUME NEW u \in Tasks, pc[u] = "backend"
        PROVE  wk[u].zone # z
    BY Zenon, <2>1, <2>3, NoneAssumption DEF TaskZones, LocalsSet, Admitted
  <2> QED BY Zenon, <2>1, <2>2, <2>3 DEF ZoneCopies, Resident
<1>7. CASE UNCHANGED vars
  <2>1. Zones' \subseteq Zones
    BY Zenon, <1>7 DEF vars, registry, Zones
  <2>2. \A u \in Tasks : Copied(u)
    BY Zenon, <1>7 DEF vars, worker, Copied, Holding, TypeOK
  <2> QED BY Zenon, <2>1, <2>2, CopiesKept
<1> QED BY Zenon, <1>1, <1>2, <1>3, <1>4, <1>5, <1>6, <1>7 DEF Next

\* Dropping rows keeps the others right.
LEMMA RowsShrink ==
  ASSUME RowsInStep, ShimFrame, \A c \in Containers : row'[c] \in {row[c], None}
  PROVE  RowsInStep'
  BY Zenon DEF RowsInStep, Resident, ShimFrame

\* A row agrees with its container.
LEMMA RowsStep ==
  TaskInv /\ ShimFrame /\ [Next]_vars
  => RowsInStep'
<1> SUFFICES ASSUME TaskInv, ShimFrame, [Next]_vars
             PROVE  RowsInStep'
    OBVIOUS
<1> USE DEF TaskInv
<1>1. ASSUME NEW t \in Tasks, 
             WorkerStep(t) \/ CleanupStep(t) \/ RecoveryStep(t)
             \/ DeleteResult(t)
      PROVE  RowsInStep'
  <2>1. CASE Reserve(t) \/ AllocateZone(t) \/ ResolveZone(t) \/ Admit(t) \/
              Refuse(t) \/ RefuseLeaks(t) \/ ReadZone(t) \/ CreateFails(t) \/
              BindContainer(t) \/ BindFails(t)
    BY Zenon, <2>1, RowsShrink DEF Reserve, At, registry, AllocateZone,
       ResolveZone, Admit, Refuse, RefuseLeaks, ReadZone, CreateFails,
       BindContainer, BindFails
  <2>2. CASE StartContainer(t) \/ StartReplyLost(t) \/ StartFails(t) \/
              RecordRunningFails(t) \/ PollStopped(t) \/ Timeout(t) \/
              TimeoutStopFails(t) \/ Commit(t) \/ CommitFails(t) \/
              FinishRecovery(t)
    BY <2>2, RowsShrink, ZenonT(20), SMTT(20) DEF StartContainer, At, registry,
       StartReplyLost, StartFails, RecordRunningFails, PollStopped, Timeout,
       TimeoutStopFails, Commit, CommitFails, FinishRecovery
  <2>3. CASE CleanupFails(t) \/ RecoverCommitted(t) \/ RecoverSave(t) \/
              RecoverFails(t) \/ DeleteResult(t)
    BY Zenon, <2>3, RowsShrink DEF CleanupFails, Forget, RecoverCommitted,
       registry, RecoverSave, RecoverFails, DeleteResult, At, worker
  <2>4. CASE RecordRunning(t) \/ RecordExit(t) \/ RecordStopped(t)
    <3> DEFINE c == wk[t].cont
    <3>1. /\ c \in Containers
          /\ shim[c] # None
          /\ shim[c].task = t
          /\ shim[c].admitted = wk[t].zone
          /\ Resident(c) => wk[t].at = wk[t].zone
      BY Zenon, <2>4 DEF RecordRunning, RecordExit, RecordStopped, At,
         LocalsSet, Holding, ZoneCopies
    <3>2. /\ row'[c].task = t
          /\ row'[c].zone = wk[t].at
          /\ \A d \in Containers : d # c => row'[d] = row[d]
      <4>1. \E st : put_container(c, t, wk[t].at, st)
        BY Zenon, <2>4 DEF RecordRunning, RecordExit, RecordStopped
      <4> QED BY <3>1, <4>1 DEF put_container, TypeOK
    <3>3. UNCHANGED shim
      BY Zenon, <2>4 DEF RecordRunning, RecordExit, RecordStopped
    <3> HIDE DEF c
    <3> QED BY Zenon, <3>1, <3>2, <3>3 DEF RowsInStep, Resident
  <2>5. CASE CreateContainer(t)
    <3>1. PICK c \in Containers :
            /\ shim[c] = None
            /\ shim' = [shim EXCEPT ![c] = NewInst(t)]
            /\ put_container(c, t, wk[t].at, "Created")
      BY <2>5, ZenonT(20), SMTT(20) DEF CreateContainer
    <3>2. shim'[c] = NewInst(t) /\ shim'[c] # None
      BY <2>5, <3>1, NewInstType, NoneAssumption DEF CreateContainer, TypeOK
    <3>3. row'[c].task = t /\ row'[c].zone = wk[t].at
      BY Zenon, <3>1 DEF put_container, TypeOK
    <3>4. Resident(c)' => wk[t].at = shim'[c].zone
      BY <2>5, <3>2 DEF CreateContainer, NewInst, At, Resident, ZoneCopies,
         RegistryZones
    <3>5. ASSUME NEW d \in Containers, d # c
          PROVE  row'[d] = row[d] /\ shim'[d] = shim[d]
      BY Zenon, <3>1, <3>5 DEF put_container, TypeOK
    <3>6. shim'[c].task = t
      <4>1. NewInst(t).task = t
        BY Zenon DEF NewInst
      <4> QED BY Zenon, <3>2, <4>1
    <3>7. ASSUME NEW d \in Containers, d # c, row'[d] # None
          PROVE  /\ shim'[d] # None /\ row'[d].task = shim'[d].task
                 /\ Resident(d)' => row'[d].zone = shim'[d].zone
      BY Zenon, <3>5, <3>7 DEF RowsInStep, Resident
    <3> QED BY Zenon, <3>2, <3>3, <3>4, <3>6, <3>7 DEF RowsInStep, Resident
  <2>6. CASE RecoverStop(t)
    <3>1. CASE UNCHANGED row
      BY Zenon, <3>1 DEF RowsInStep, Resident, ShimFrame
    <3>2. ASSUME NEW c \in Containers, task_containers(t, rec[t]) = {c},
                 row' = [row EXCEPT ![c].st = "Stopped"]
          PROVE  RowsInStep'
      <4>1. row[c] # None /\ row[c] \in Rows
        BY Zenon, <3>2 DEF task_containers, TypeOK
      <4>2. row'[c].task = row[c].task /\ row'[c].zone = row[c].zone
        BY Zenon, <3>2, <4>1 DEF Rows, TypeOK
      <4> QED BY <3>2, <4>1, <4>2 DEF RowsInStep, Resident, ShimFrame, TypeOK
    <3> QED BY Zenon, <2>6, <3>1, <3>2 DEF RecoverStop
  <2>7. CASE CleanupZone(t) \/ CleanupZonePartly(t)
    BY Zenon, <2>7, RowsShrink DEF CleanupZone, CleanupZonePartly, delete_zone,
       PartlyDeleted, registry
  <2>8. CASE CleanupContainer(t)
    BY Zenon, <2>8, RowsShrink DEF CleanupContainer, delete_container, TypeOK
  <2> QED BY Zenon, <1>1, <2>1, <2>2, <2>3, <2>4, <2>5, <2>6, <2>7, <2>8 DEF
             WorkerStep, CleanupStep, RecoveryStep
<1>2. ASSUME NEW z \in ZoneIds, 
             \/ GuardedZoneCleanup(z) \/ GuardedZoneCleanupFails(z)
             \/ OperatorDeletesZone(z) \/ OperatorDeletesZonePartly(z)
      PROVE  RowsInStep'
  <2>1. CASE GuardedZoneCleanupFails(z)
    BY Zenon, <2>1, RowsShrink DEF GuardedZoneCleanupFails, registry, worker
  <2>2. CASE GuardedZoneCleanup(z) \/ OperatorDeletesZone(z) \/
              OperatorDeletesZonePartly(z)
    BY Zenon, <2>2, RowsShrink DEF GuardedZoneCleanup, OperatorDeletesZone,
       OperatorDeletesZonePartly, delete_zone, PartlyDeleted, registry
  <2> QED BY Zenon, <1>2, <2>1, <2>2
<1>3. ASSUME NEW c \in Containers, Exit(c) \/ OperatorDeletesContainer(c)
      PROVE  RowsInStep'
  <2>1. CASE Exit(c)
    BY Zenon, <2>1, RowsShrink DEF Exit, registry, worker
  <2>2. CASE OperatorDeletesContainer(c)
    BY Zenon, <2>2, RowsShrink DEF OperatorDeletesContainer, delete_container,
       TypeOK
  <2> QED BY Zenon, <1>3, <2>1, <2>2
<1>4. CASE OperatorCreatesZone \/ Crash \/ Restart
  BY <1>4, RowsShrink, ZenonT(20), SMTT(20) DEF OperatorCreatesZone, worker,
     Crash, Forget, Restart, Reconcile, registry
<1>5. CASE RestartZoneFails \/ Serve
  BY <1>5, RowsShrink, ZenonT(20), SMTT(20) DEF RestartZoneFails, Reconcile,
     worker, Serve, registry
<1>6. CASE UNCHANGED vars
  BY Zenon, <1>6, RowsShrink DEF vars, store, registry, worker, history
<1> QED BY Zenon, <1>1, <1>2, <1>3, <1>4, <1>5, <1>6 DEF Next

\* The initial state satisfies TaskInv.
LEMMA TaskInvInit == Init => TaskInv
<1> SUFFICES ASSUME Init PROVE TaskInv
    OBVIOUS
<1>1. TypeOK
  BY WorkerTypes, ZenonT(20), SMTT(20) DEF Init, TypeOK, PCs
<1>2. /\ LocalsSet /\ StoreInStep /\ RecordInStep /\ ZoneCopies
  BY Zenon DEF Init, LocalsSet, StoreInStep, RecordInStep, ZoneCopies,
     Admitted, Holding, Settling
<1>3. StartsInStep
  BY DEF Init, StartsInStep
<1>4. RegistryZones /\ ShimZones /\ TaskZones /\ RowsInStep
  BY Zenon, NoneAssumption DEF Init, RegistryZones, ShimZones, TaskZones,
     RowsInStep, Zones, IdleWorker
<1> QED BY Zenon, <1>1, <1>2, <1>3, <1>4 DEF TaskInv

\* Every step preserves TaskInv.
LEMMA TaskInvStep == TaskInv /\ [Next]_vars => TaskInv' /\ ShimFrame
<1> SUFFICES ASSUME TaskInv, [Next]_vars PROVE TaskInv' /\ ShimFrame
    OBVIOUS
<1>1. ShimFrame
  BY Zenon, ShimStep DEF TaskInv
<1>2. TypeOK' /\ LocalsSet' /\ StoreInStep' /\ StartsInStep' /\ RecordInStep'
  BY Zenon, <1>1, TypeStep, LocalsStep, StoreStep, StartsStep, RecordStep
     DEF TaskInv
<1>3. RegistryZones' /\ ShimZones' /\ TaskZones' /\ ZoneCopies' /\ RowsInStep'
  BY Zenon, <1>1, RegistryZonesStep, ShimZonesStep, TaskZonesStep,
     ZoneCopiesStep, RowsStep DEF TaskInv
<1> QED BY Zenon, <1>1, <1>2, <1>3 DEF TaskInv

\* TaskInv is an invariant: it ties every worker of run_owned and recover_tasks
\* to what redb, the registry and the shims hold for its task.
THEOREM TaskInvariant == Spec => []TaskInv
<1>1. TaskInv /\ [Next]_vars => TaskInv'
  BY Zenon, TaskInvStep
<1> QED BY TaskInvInit, <1>1, PTL DEF Spec

-----------------------------------------------------------------------------
(* What follows from it.                                                   *)

\* Every variable keeps its type: no table of redb ever holds a malformed
\* record, row or result, whatever crashes and failures interleave.
THEOREM TypeCorrect == Spec => []TypeOK
<1>1. TaskInv => TypeOK
  BY Zenon DEF TaskInv
<1> QED BY TaskInvariant, <1>1, PTL

\* A reserved identifier is executed at most once: neither a retry by a client
\* nor recover_tasks after any number of crashes starts its command again.
THEOREM AtMostOnce == Spec => []ExecutedAtMostOnce
<1>1. TaskInv => ExecutedAtMostOnce
  BY Zenon DEF TaskInv, StartsInStep, ExecutedAtMostOnce
<1> QED BY TaskInvariant, <1>1, PTL

\* delete_result never removes the entry of a task with a recovery record, and
\* a worker past admission has both: recovery always finds the reservation.
THEOREM RecordsReserved == Spec => []RecordHasReservation
<1>1. TaskInv => RecordHasReservation
  BY Zenon DEF TaskInv, TypeOK, StoreInStep, RecordHasReservation, Admitted,
     Holding, Settling, PCs
<1> QED BY TaskInvariant, <1>1, PTL

\* The action of CommittedIsImmutable.
CommittedKept ==
    \A t \in Tasks :
        result[t] \in Sealed =>
          \/ result'[t] = result[t]
          \/ /\ result'[t] = Absent
             /\ daemon = "serving" /\ pc[t] = "idle" /\ rec[t] = None
             /\ \A c \in Containers : row[c] # None => row[c].task # t

\* save_result only fills a reservation and only delete_sandbox_result empties
\* a committed entry.
LEMMA CommittedStep ==
  TypeOK /\ StoreInStep /\ [Next]_vars
  => CommittedKept
<1> SUFFICES ASSUME TypeOK, StoreInStep, [Next]_vars
             PROVE  CommittedKept
    OBVIOUS
<1>1. ASSUME NEW t \in Tasks, 
             WorkerStep(t) \/ CleanupStep(t) \/ RecoveryStep(t)
             \/ DeleteResult(t)
      PROVE  CommittedKept
  <2>1. CASE AllocateZone(t) \/ ResolveZone(t) \/ Admit(t) \/
              RefuseLeaks(t) \/ ReadZone(t) \/ CreateContainer(t) \/
              CreateFails(t) \/ BindContainer(t) \/ BindFails(t) \/
              StartContainer(t) \/ StartReplyLost(t) \/ StartFails(t) \/
              RecordRunning(t) \/ RecordRunningFails(t) \/ PollStopped(t) \/
              RecordExit(t) \/ Timeout(t) \/ RecordStopped(t) \/
              TimeoutStopFails(t) \/ CommitFails(t) \/ CleanupZone(t) \/
              CleanupZonePartly(t) \/ CleanupContainer(t) \/
              FinishRecovery(t) \/ CleanupFails(t) \/ RecoverCommitted(t) \/
              RecoverStop(t) \/ RecoverFails(t)
    BY Zenon, <2>1 DEF AllocateZone, At, store, ResolveZone, Admit,
       RefuseLeaks, ReadZone, CreateContainer, CreateFails, BindContainer,
       BindFails, StartContainer, StartReplyLost, StartFails, RecordRunning,
       RecordRunningFails, PollStopped, RecordExit, Timeout, RecordStopped,
       TimeoutStopFails, CommitFails, CleanupZone, CleanupZonePartly, Forget,
       CleanupContainer, FinishRecovery, finish_recovery, CleanupFails,
       RecoverCommitted, RecoverStop, RecoverFails, CommittedKept
  <2>2. CASE Reserve(t) \/ Refuse(t) \/ Commit(t) \/ RecoverSave(t) \/
              DeleteResult(t)
    BY <2>2, SealedDistinct DEF Reserve, At, reserve_result, Refuse,
       delete_result, Commit, save_result, RecoverSave, DeleteResult, worker,
       CommittedKept, store, StoreInStep, Admitted, Holding, TypeOK
  <2> QED BY Zenon, <1>1, <2>1, <2>2 DEF WorkerStep, CleanupStep, RecoveryStep
<1>2. ASSUME NEW z \in ZoneIds, 
             \/ GuardedZoneCleanup(z) \/ GuardedZoneCleanupFails(z)
             \/ OperatorDeletesZone(z) \/ OperatorDeletesZonePartly(z)
      PROVE  CommittedKept
  <2>1. CASE GuardedZoneCleanup(z) \/ GuardedZoneCleanupFails(z) \/
              OperatorDeletesZone(z) \/ OperatorDeletesZonePartly(z)
    BY Zenon, <2>1 DEF GuardedZoneCleanup, store, worker,
       GuardedZoneCleanupFails, OperatorDeletesZone, OperatorDeletesZonePartly,
       CommittedKept
  <2> QED BY Zenon, <1>2, <2>1
<1>3. ASSUME NEW c \in Containers, Exit(c) \/ OperatorDeletesContainer(c)
      PROVE  CommittedKept
  <2>1. CASE Exit(c) \/ OperatorDeletesContainer(c)
    BY Zenon, <2>1 DEF Exit, store, worker, OperatorDeletesContainer,
       CommittedKept
  <2> QED BY Zenon, <1>3, <2>1
<1>4. CASE OperatorCreatesZone \/ Crash \/ Restart \/ RestartZoneFails \/
              Serve
  BY Zenon, <1>4 DEF OperatorCreatesZone, store, worker, Crash, Forget,
     Restart, Reconcile, RestartZoneFails, Serve, CommittedKept
<1>5. CASE UNCHANGED vars
  BY Zenon, <1>5 DEF vars, store, registry, worker, history, CommittedKept
<1> QED BY Zenon, <1>1, <1>2, <1>3, <1>4, <1>5 DEF Next

\* A committed result never changes until it is explicitly deleted, and then no
\* record, worker or container row needs it.
THEOREM CommittedImmutable == Spec => CommittedIsImmutable
<1>1. TaskInv /\ [Next]_vars => [CommittedKept]_vars
  BY Zenon, CommittedStep DEF TaskInv
<1> QED BY TaskInvariant, <1>1, PTL DEF Spec, CommittedIsImmutable,
           CommittedKept

-----------------------------------------------------------------------------

\* A live daemon has a handle for every registered zone.
LEMMA HandlesStep ==
  "zone" \notin FaultKinds /\ TypeOK /\ HandlesComplete /\ [Next]_vars
  => HandlesComplete'
<1> SUFFICES ASSUME "zone" \notin FaultKinds, TypeOK, HandlesComplete,
                    [Next]_vars
             PROVE  HandlesComplete'
    OBVIOUS
<1>1. ASSUME NEW t \in Tasks, 
             WorkerStep(t) \/ CleanupStep(t) \/ RecoveryStep(t)
             \/ DeleteResult(t)
      PROVE  HandlesComplete'
  <2>1. CASE Reserve(t) \/ AllocateZone(t) \/ ResolveZone(t) \/ Admit(t) \/
              Refuse(t)
    BY Zenon, <2>1 DEF Reserve, At, Goto, registry, AllocateZone, ResolveZone,
       Admit, Refuse, Done, HandlesComplete, Zones, TypeOK
  <2>2. CASE RefuseLeaks(t) \/ ReadZone(t) \/ CreateContainer(t) \/
              CreateFails(t) \/ BindContainer(t)
    BY Zenon, <2>2 DEF RefuseLeaks, At, Fault, Done, registry, Goto, ReadZone,
       Fails, CreateContainer, CreateFails, BindContainer, HandlesComplete,
       Zones, TypeOK
  <2>3. CASE BindFails(t) \/ StartContainer(t) \/ StartReplyLost(t) \/
              StartFails(t) \/ RecordRunning(t)
    BY Zenon, <2>3 DEF BindFails, At, Fault, Fails, registry, Goto,
       StartContainer, StartReplyLost, StartFails, RecordRunning,
       HandlesComplete, Zones, TypeOK
  <2>4. CASE RecordRunningFails(t) \/ PollStopped(t) \/ RecordExit(t) \/
              Timeout(t) \/ RecordStopped(t)
    BY Zenon, <2>4 DEF RecordRunningFails, At, Fault, Fails, registry, Goto,
       PollStopped, RecordExit, Waited, Timeout, RecordStopped,
       HandlesComplete, Zones, TypeOK
  <2>5. CASE TimeoutStopFails(t) \/ Commit(t) \/ CommitFails(t) \/
              CleanupZone(t) \/ CleanupZonePartly(t)
    BY Zenon, <2>5 DEF TimeoutStopFails, At, Fault, Waited, registry, Goto,
       Commit, CommitFails, Done, CleanupZone, delete_zone, CleanupZonePartly,
       Forget, HandlesComplete, Zones, TypeOK
  <2>6. CASE CleanupContainer(t) \/ FinishRecovery(t) \/ CleanupFails(t) \/
              RecoverCommitted(t) \/ RecoverStop(t)
    BY Zenon, <2>6 DEF CleanupContainer, Goto, FinishRecovery, Done, registry,
       CleanupFails, Fault, Forget, RecoverCommitted, RecoverTurn,
       RecoverStop, HandlesComplete, Zones, TypeOK
  <2>7. CASE RecoverSave(t) \/ RecoverFails(t) \/ DeleteResult(t)
    BY Zenon, <2>7 DEF RecoverSave, Goto, registry, RecoverFails, RecoverTurn,
       Fault, Forget, DeleteResult, At, worker, HandlesComplete, Zones, TypeOK
  <2> QED BY Zenon, <1>1, <2>1, <2>2, <2>3, <2>4, <2>5, <2>6, <2>7
             DEF WorkerStep, CleanupStep, RecoveryStep
<1>2. ASSUME NEW z \in ZoneIds, 
             \/ GuardedZoneCleanup(z) \/ GuardedZoneCleanupFails(z)
             \/ OperatorDeletesZone(z) \/ OperatorDeletesZonePartly(z)
      PROVE  HandlesComplete'
  <2>1. CASE GuardedZoneCleanupFails(z)
    BY Zenon, <2>1 DEF GuardedZoneCleanupFails, Fault, registry, worker,
       HandlesComplete, Zones, TypeOK
  <2>2. CASE GuardedZoneCleanup(z) \/ OperatorDeletesZone(z) \/
              OperatorDeletesZonePartly(z)
    BY Zenon, <2>2 DEF GuardedZoneCleanup, delete_zone, registry, worker,
       OperatorDeletesZone, OperatorDeletesZonePartly, Zones, Fault,
       HandlesComplete, TypeOK
  <2> QED BY Zenon, <1>2, <2>1, <2>2
<1>3. ASSUME NEW c \in Containers, Exit(c) \/ OperatorDeletesContainer(c)
      PROVE  HandlesComplete'
  <2>1. CASE Exit(c)
    BY Zenon, <2>1 DEF Exit, registry, worker, HandlesComplete, Zones, TypeOK
  <2>2. CASE OperatorDeletesContainer(c)
    BY Zenon, <2>2 DEF OperatorDeletesContainer, worker, HandlesComplete,
       Zones, TypeOK, registry
  <2> QED BY Zenon, <1>3, <2>1, <2>2
<1>4. CASE OperatorCreatesZone \/ Crash \/ Restart \/ RestartZoneFails \/
              Serve
  BY Zenon, <1>4 DEF OperatorCreatesZone, worker, Crash, Fault, Forget,
     Restart, Reconcile, Zones, RestartZoneFails, Serve, registry,
     HandlesComplete, TypeOK
<1>5. CASE UNCHANGED vars
  BY Zenon, <1>5 DEF vars, store, registry, worker, history, HandlesComplete,
     Zones, TypeOK
<1> QED BY Zenon, <1>1, <1>2, <1>3, <1>4, <1>5 DEF Next

\* No container starts in this step.
NoNewRun == \A c \in Containers : Running(c)' => Running(c)

\* Only a start makes a container run.
RunFrame == NoNewRun \/ \E t \in Tasks : StartContainer(t) \/ StartReplyLost(t)

\* Stopping or deleting a container starts none.
LEMMA SetInstRuns ==
  ASSUME TypeOK, NEW c \in Containers, shim[c] # None, NEW st \in InstStates,
         st = "running" => shim[c].st = "running",
         shim' = SetInst(c, st)
  PROVE  NoNewRun
<1>1. shim[c] \in Insts
  BY Zenon DEF TypeOK
<1>2. shim'[c].st = st
  BY Zenon, <1>1 DEF SetInst, TypeOK, Insts
<1> QED BY Zenon, <1>2 DEF NoNewRun, Running, SetInst, TypeOK

\* Draining a zone leaves nothing running in it.
LEMMA DrainedRuns ==
  ASSUME TypeOK, NEW z, shim' = Drained(z)
  PROVE  /\ NoNewRun
         /\ \A c \in Containers : Running(c)' => shim[c].zone # z
<1>1. \A c \in Containers : shim[c] # None /\ shim[c].zone = z =>
        shim[c] \in Insts /\ shim'[c] = [shim[c] EXCEPT !.st = "gone"]
  BY Zenon DEF TypeOK, Drained
<1>2. \A c \in Containers : shim[c] # None /\ shim[c].zone = z =>
        shim'[c].st = "gone"
  BY <1>1, ZenonT(20), SMTT(20) DEF Insts
<1>3. \A c \in Containers : ~(shim[c] # None /\ shim[c].zone = z) =>
        shim'[c] = shim[c]
  BY Zenon DEF Drained
<1> QED BY Zenon, <1>2, <1>3 DEF NoNewRun, Running

\* A zone's rows go only with its containers.
LEMMA DrainedRows ==
  ASSUME TypeOK, RunningIsOwned, RowsInStep, NEW z, shim' = Drained(z),
         \A c \in Containers : row'[c] # row[c] => c \in RowsOf(z)
  PROVE  \A c \in Containers :
           Running(c)' /\ Running(c) /\ Resident(c) => row'[c] # None
<1> SUFFICES ASSUME NEW c \in Containers, Running(c)', Running(c), Resident(c)
             PROVE  row'[c] # None
    OBVIOUS
<1>1. row[c] # None /\ row[c].zone = shim[c].zone
  BY Zenon DEF RunningIsOwned, RowsInStep
<1>2. shim[c].zone # z
  BY Zenon, DrainedRuns
<1> QED BY Zenon, <1>1, <1>2 DEF RowsOf

\* delete_container starts no container.
LEMMA DeleteContainerRuns ==
  ASSUME TypeOK, RowsInStep, NEW c \in Containers, row[c] # None,
         NEW st, delete_container(c, st)
  PROVE  NoNewRun
<1>1. shim[c] # None /\ shim[c] \in Insts
  BY Zenon DEF RowsInStep, TypeOK
<1>2. ShimAfterStop(c, st) \in InstStates
  BY Zenon, <1>1 DEF ShimAfterStop, InstStates, Insts
<1>3. ShimAfterStop(c, st) = "running" => shim[c].st = "running"
  BY Zenon DEF ShimAfterStop
<1> QED BY Zenon, <1>1, <1>2, <1>3, SetInstRuns DEF delete_container,
           InstStates

\* Containers run only through start_container.
LEMMA RunStep ==
  TypeOK /\ LocalsSet /\ RowsInStep /\ [Next]_vars
  => RunFrame
<1> SUFFICES ASSUME TypeOK, LocalsSet, RowsInStep, [Next]_vars
             PROVE  RunFrame
    OBVIOUS
<1>1. ASSUME NEW t \in Tasks, 
             WorkerStep(t) \/ CleanupStep(t) \/ RecoveryStep(t)
             \/ DeleteResult(t)
      PROVE  RunFrame
  <2>1. CASE Reserve(t) \/ AllocateZone(t) \/ ResolveZone(t) \/ Admit(t) \/
              Refuse(t) \/ RefuseLeaks(t) \/ ReadZone(t) \/
              BindContainer(t) \/ BindFails(t) \/ StartFails(t) \/
              RecordRunning(t) \/ RecordRunningFails(t) \/ PollStopped(t) \/
              RecordExit(t) \/ RecordStopped(t) \/ TimeoutStopFails(t) \/
              Commit(t) \/ CommitFails(t) \/ FinishRecovery(t) \/
              CleanupFails(t) \/ RecoverCommitted(t) \/ RecoverSave(t) \/
              RecoverFails(t) \/ DeleteResult(t)
    BY Zenon, <2>1 DEF Reserve, AllocateZone, ResolveZone, Admit, Refuse,
       RefuseLeaks, ReadZone, BindContainer, BindFails, StartFails,
       RecordRunning, RecordRunningFails, PollStopped, RecordExit,
       RecordStopped, TimeoutStopFails, Commit, CommitFails, FinishRecovery,
       CleanupFails, Forget, RecoverCommitted, RecoverSave, RecoverFails,
       DeleteResult, worker, RunFrame, NoNewRun, Running
  <2>2. CASE CreateContainer(t) \/ CreateFails(t)
    <3>1. NewInst(t).st = "created"
      BY Zenon DEF NewInst
    <3> QED BY Zenon, <2>2, <3>1 DEF CreateContainer, CreateFails, RunFrame,
               NoNewRun, Running, TypeOK
  <2>3. CASE StartContainer(t) \/ StartReplyLost(t)
    BY Zenon, <2>3 DEF RunFrame
  <2>4. CASE Timeout(t)
    <3>1. wk[t].cont \in Containers /\ shim[wk[t].cont] # None
      BY Zenon, <2>4 DEF Timeout, At, LocalsSet, Holding
    <3> QED BY Zenon, <2>4, <3>1, SetInstRuns DEF Timeout, InstStates, RunFrame
  <2>5. CASE CleanupZone(t) \/ CleanupZonePartly(t)
    BY Zenon, <2>5, DrainedRuns DEF CleanupZone, CleanupZonePartly,
       delete_zone, PartlyDeleted, RunFrame, NoNewRun, Running
  <2>6. CASE CleanupContainer(t)
    <3>1. CASE UNCHANGED shim
      BY Zenon, <3>1 DEF RunFrame, NoNewRun, Running
    <3>2. ASSUME NEW c \in task_containers(t, wk[t]),
                 delete_container(c, Refreshed(c))
          PROVE  RunFrame
      BY Zenon, <3>2, DeleteContainerRuns DEF task_containers, RunFrame
    <3> QED BY Zenon, <2>6, <3>1, <3>2 DEF CleanupContainer
  <2>7. CASE RecoverStop(t)
    <3>1. CASE UNCHANGED shim
      BY Zenon, <3>1 DEF RunFrame, NoNewRun, Running
    <3>2. ASSUME NEW c \in Containers, task_containers(t, rec[t]) = {c},
                 shim' = SetInst(c, "stopped")
          PROVE  RunFrame
      <4>1. shim[c] # None
        BY Zenon, <3>2 DEF task_containers, RowsInStep
      <4> QED BY Zenon, <3>2, <4>1, SetInstRuns DEF InstStates, RunFrame
    <3> QED BY Zenon, <2>7, <3>1, <3>2 DEF RecoverStop
  <2> QED BY Zenon, <1>1, <2>1, <2>2, <2>3, <2>4, <2>5, <2>6, <2>7
             DEF WorkerStep, CleanupStep, RecoveryStep
<1>2. ASSUME NEW z \in ZoneIds, 
             \/ GuardedZoneCleanup(z) \/ GuardedZoneCleanupFails(z)
             \/ OperatorDeletesZone(z) \/ OperatorDeletesZonePartly(z)
      PROVE  RunFrame
  <2>1. CASE GuardedZoneCleanupFails(z)
    BY Zenon, <2>1 DEF GuardedZoneCleanupFails, worker, RunFrame, NoNewRun,
       Running
  <2>2. CASE GuardedZoneCleanup(z) \/ OperatorDeletesZone(z) \/
              OperatorDeletesZonePartly(z)
    BY Zenon, <2>2, DrainedRuns DEF GuardedZoneCleanup, OperatorDeletesZone,
       OperatorDeletesZonePartly, delete_zone, PartlyDeleted, RunFrame,
       NoNewRun, Running
  <2> QED BY Zenon, <1>2, <2>1, <2>2
<1>3. ASSUME NEW c \in Containers, Exit(c) \/ OperatorDeletesContainer(c)
      PROVE  RunFrame
  <2>1. CASE Exit(c)
    BY Zenon, <2>1, SetInstRuns DEF Exit, InstStates, RunFrame
  <2>2. CASE OperatorDeletesContainer(c)
    BY Zenon, <2>2, DeleteContainerRuns DEF OperatorDeletesContainer, RunFrame
  <2> QED BY Zenon, <1>3, <2>1, <2>2
<1>4. CASE OperatorCreatesZone \/ Crash \/ Restart \/ RestartZoneFails \/
              Serve
  BY Zenon, <1>4 DEF OperatorCreatesZone, worker, Crash, Forget, Restart,
     Reconcile, RestartZoneFails, Serve, RunFrame, NoNewRun, Running
<1>5. CASE UNCHANGED vars
  BY Zenon, <1>5 DEF vars, store, registry, worker, history, RunFrame,
     NoNewRun, Running
<1> QED BY Zenon, <1>1, <1>2, <1>3, <1>4, <1>5 DEF Next

-----------------------------------------------------------------------------
(* RunningIsOwned.                                                         *)

\* start_container runs a container whose record was bound before.
LEMMA OwnedStart ==
  ASSUME TaskInv, RunningIsOwned, ShimFrame,
         NEW t \in Tasks, StartContainer(t) \/ StartReplyLost(t)
  PROVE  RunningIsOwned'
<1> DEFINE c == wk[t].cont
<1> USE DEF TaskInv
<1>1. /\ c \in Containers /\ shim[c] # None /\ shim[c].task = t
      /\ shim[c].admitted = wk[t].zone
      /\ rec[t] # None /\ rec[t].zone = wk[t].zone /\ rec[t].cont = c
      /\ row[c] # None
  BY Zenon DEF StartContainer, StartReplyLost, Startable, At, LocalsSet,
     StoreInStep, RecordInStep, Admitted, Holding
<1>2. \A d \in Containers : d # c => shim'[d] = shim[d]
  BY Zenon, <1>1 DEF StartContainer, StartReplyLost, SetInst, TypeOK
<1>3. UNCHANGED <<row, rec>>
  BY Zenon DEF StartContainer, StartReplyLost, store, registry
<1> HIDE DEF c
<1> QED BY <1>1, <1>2, <1>3 DEF RunningIsOwned, Running, Resident, ShimFrame

\* Ownership is kept if no running container loses its row or its record.
LEMMA OwnedStays ==
  ASSUME RunningIsOwned, ShimFrame, NoNewRun,
         \A c \in Containers : Running(c)' /\ Running(c) /\ Resident(c) =>
           row'[c] # None /\ rec'[shim[c].task] = rec[shim[c].task]
  PROVE  RunningIsOwned'
  BY DEF RunningIsOwned, Running, Resident, ShimFrame, NoNewRun

\* delete_container only removes the row of a container that has ended.
LEMMA DeletedIsStopped ==
  ASSUME TypeOK, ShimZones, RowsInStep, HandlesComplete, daemon # "down",
         NEW c \in Containers, row[c] # None, Resident(c),
         NEW st, delete_container(c, st)
  PROVE  ~Running(c)'
<1>1. shim[c] # None /\ shim[c] \in Insts /\ row[c].zone = shim[c].zone
  BY Zenon DEF RowsInStep, TypeOK
<1>2. CASE row[c].zone \in handles
  <2>1. shim'[c] = [shim[c] EXCEPT !.st = "gone"]
    BY Zenon, <1>2 DEF delete_container, SetInst, TypeOK
  <2> QED BY Zenon, <1>1, <2>1 DEF Running, Insts
<1>3. CASE row[c].zone \notin handles
  <2>1. shim[c].st = "gone"
    BY Zenon, <1>1, <1>3 DEF ShimZones, HandlesComplete
  <2>2. ShimAfterStop(c, st) = "gone"
    BY Zenon, <2>1 DEF delete_container, CanDeleteContainer, ShimAfterStop
  <2>3. shim'[c] = [shim[c] EXCEPT !.st = "gone"]
    BY Zenon, <1>3, <2>2 DEF delete_container, SetInst, TypeOK
  <2> QED BY Zenon, <1>1, <2>3 DEF Running, Insts
<1> QED BY Zenon, <1>2, <1>3

\* No other step takes the row or the record of a running container.
LEMMA OwnedStep ==
  TaskInv /\ HandlesComplete /\ RunningIsOwned /\ ShimFrame /\ NoNewRun /\
  [Next]_vars
  => RunningIsOwned'
<1> SUFFICES ASSUME TaskInv, HandlesComplete, RunningIsOwned, ShimFrame,
                    NoNewRun, [Next]_vars
             PROVE  RunningIsOwned'
    OBVIOUS
<1> USE DEF TaskInv
<1>1. ASSUME NEW t \in Tasks, 
             WorkerStep(t) \/ CleanupStep(t) \/ RecoveryStep(t)
             \/ DeleteResult(t)
      PROVE  RunningIsOwned'
  <2>1. CASE Reserve(t) \/ AllocateZone(t) \/ ResolveZone(t) \/ Refuse(t) \/
              RefuseLeaks(t)
    BY Zenon, <2>1, OwnedStays DEF Reserve, registry, AllocateZone, store,
       ResolveZone, Refuse, RefuseLeaks, RunningIsOwned
  <2>2. CASE ReadZone(t) \/ CreateFails(t) \/ BindFails(t) \/
              StartContainer(t) \/ StartReplyLost(t)
    BY Zenon, <2>2, OwnedStays DEF ReadZone, store, registry, CreateFails,
       BindFails, StartContainer, StartReplyLost, RunningIsOwned
  <2>3. CASE StartFails(t) \/ RecordRunningFails(t) \/ PollStopped(t) \/
              Timeout(t) \/ TimeoutStopFails(t)
    BY Zenon, <2>3, OwnedStays DEF StartFails, store, registry,
       RecordRunningFails, PollStopped, Timeout, TimeoutStopFails,
       RunningIsOwned
  <2>4. CASE Commit(t) \/ CommitFails(t) \/ CleanupFails(t) \/
              RecoverCommitted(t) \/ RecoverSave(t)
    BY Zenon, <2>4, OwnedStays DEF Commit, registry, CommitFails, store,
       CleanupFails, Forget, RecoverCommitted, RecoverSave, RunningIsOwned
  <2>5. CASE RecoverFails(t) \/ DeleteResult(t)
    BY Zenon, <2>5, OwnedStays DEF RecoverFails, Forget, store, DeleteResult,
       registry, worker, RunningIsOwned
  <2>6. CASE CleanupZone(t)
    <3>1. \A d \in Containers : Running(d)' /\ Running(d) /\ Resident(d) =>
            row'[d] # None /\ rec'[shim[d].task] = rec[shim[d].task]
      <4>1. CASE UNCHANGED <<registry, shim>>
        BY Zenon, <2>6, <4>1 DEF CleanupZone, RunningIsOwned, registry, store
      <4>2. CASE delete_zone(wk[t].zone)
        <5>1. shim' = Drained(wk[t].zone) /\ \A d \in Containers :
                row'[d] # row[d] => d \in RowsOf(wk[t].zone)
          BY Zenon, <4>2 DEF delete_zone
        <5> QED BY Zenon, <2>6, <5>1, DrainedRows DEF CleanupZone, store
      <4> QED BY Zenon, <2>6, <4>1, <4>2 DEF CleanupZone
    <3> QED BY Zenon, <3>1, OwnedStays
  <2>7. CASE CleanupZonePartly(t)
    <3>1. \A d \in Containers : Running(d)' /\ Running(d) /\ Resident(d) =>
            row'[d] # None /\ rec'[shim[d].task] = rec[shim[d].task]
      <4>1. shim' = Drained(wk[t].zone) /\ \A d \in Containers :
              row'[d] # row[d] => d \in RowsOf(wk[t].zone)
        BY Zenon, <2>7 DEF CleanupZonePartly, PartlyDeleted
      <4> QED BY Zenon, <2>7, <4>1, DrainedRows DEF CleanupZonePartly, store
    <3> QED BY Zenon, <3>1, OwnedStays
  <2>8. CASE Admit(t)
    <3>1. \A d \in Containers : Running(d)' /\ Running(d) /\ Resident(d) =>
            row'[d] # None /\ rec'[shim[d].task] = rec[shim[d].task]
      <4>1. rec[t] = None /\ UNCHANGED row
            /\ \A u \in Tasks : u # t => rec'[u] = rec[u]
        BY Zenon, <2>8 DEF Admit, At, put_recovery, StoreInStep, registry,
           TypeOK
      <4>2. \A d \in Containers : Running(d) => shim[d].task \in Tasks
        BY Zenon DEF Running, TypeOK, Insts
      <4> QED BY Zenon, <4>1, <4>2 DEF RunningIsOwned
    <3> QED BY Zenon, <3>1, OwnedStays
  <2>9. CASE BindContainer(t)
    <3>1. \A d \in Containers : Running(d)' /\ Running(d) /\ Resident(d) =>
            row'[d] # None /\ rec'[shim[d].task] = rec[shim[d].task]
      <4>1. rec[t].cont = None /\ UNCHANGED row
            /\ \A u \in Tasks : u # t => rec'[u] = rec[u]
        BY Zenon, <2>9 DEF BindContainer, At, put_recovery, RecordInStep,
           registry, TypeOK
      <4>2. ASSUME NEW d \in Containers, Running(d), Resident(d)
            PROVE  row[d] # None /\ shim[d].task \in Tasks /\ shim[d].task # t
        <5>1. row[d] # None /\ rec[shim[d].task].cont = d
          BY Zenon, <4>2 DEF RunningIsOwned
        <5>2. shim[d].task \in Tasks
          BY Zenon, <4>2 DEF Running, TypeOK, Insts
        <5>3. d # None
          BY Zenon, NoneAssumption
        <5> QED BY Zenon, <4>1, <5>1, <5>2, <5>3
      <4> QED BY Zenon, <4>1, <4>2
    <3> QED BY Zenon, <3>1, OwnedStays
  <2>10. CASE FinishRecovery(t)
    <3>1. \A d \in Containers : Running(d)' /\ Running(d) /\ Resident(d) =>
            row'[d] # None /\ rec'[shim[d].task] = rec[shim[d].task]
      <4>1. ASSUME NEW c \in Containers, Running(c), Resident(c), shim[c].task = t
            PROVE  FALSE
        <5>1. /\ row[c] # None /\ row[c].zone = wk[t].zone /\ c = wk[t].cont
              /\ row[c].task = t
          BY <2>10, <4>1, NoneAssumption DEF FinishRecovery, RunningIsOwned,
             RowsInStep, RecordInStep, Settling
        <5> QED BY Zenon, <2>10, <5>1 DEF FinishRecovery, task_containers
      <4>2. UNCHANGED row /\ \A u \in Tasks : u # t => rec'[u] = rec[u]
        BY Zenon, <2>10 DEF FinishRecovery, finish_recovery, registry, TypeOK
      <4>3. \A d \in Containers : Running(d) => shim[d].task \in Tasks
        BY Zenon DEF Running, TypeOK, Insts
      <4> QED BY Zenon, <4>1, <4>2, <4>3 DEF RunningIsOwned
    <3> QED BY Zenon, <3>1, OwnedStays
  <2>11. CASE CreateContainer(t)
    <3>1. \A d \in Containers : Running(d)' /\ Running(d) /\ Resident(d) =>
            row'[d] # None /\ rec'[shim[d].task] = rec[shim[d].task]
      <4>1. PICK c \in Containers : shim[c] = None /\ put_container(c, t, wk[t].at, "Created")
        BY Zenon, <2>11 DEF CreateContainer
      <4>2. ~Running(c) /\ \A d \in Containers : d # c => row'[d] = row[d]
        BY Zenon, <4>1 DEF Running, put_container, TypeOK
      <4> QED BY Zenon, <2>11, <4>2 DEF CreateContainer, RunningIsOwned, store
    <3> QED BY Zenon, <3>1, OwnedStays
  <2>12. CASE RecordRunning(t) \/ RecordExit(t) \/ RecordStopped(t)
    <3>1. \A d \in Containers : Running(d)' /\ Running(d) /\ Resident(d) =>
            row'[d] # None /\ rec'[shim[d].task] = rec[shim[d].task]
      <4>1. wk[t].cont \in Containers /\ wk[t].at \in ZoneIds
        BY Zenon, <2>12 DEF RecordRunning, RecordExit, RecordStopped, At,
           LocalsSet, Holding
      <4>2. row'[wk[t].cont] \in Rows
        <5>1. \E st \in {"Running", "Stopped"} :
                put_container(wk[t].cont, t, wk[t].at, st)
          BY Zenon, <2>12 DEF RecordRunning, RecordExit, RecordStopped
        <5>2. PICK st \in {"Running", "Stopped"} :
                row'[wk[t].cont] = [task |-> t, zone |-> wk[t].at, st |-> st]
          BY Zenon, <4>1, <5>1 DEF put_container, TypeOK
        <5> QED BY <4>1, <5>2 DEF Rows
      <4>3. \A d \in Containers : d # wk[t].cont => row'[d] = row[d]
        BY Zenon, <2>12, <4>1 DEF RecordRunning, RecordExit, RecordStopped,
           put_container, TypeOK
      <4> QED BY <2>12, <4>2, <4>3, NoneAssumption DEF RecordRunning,
                 RecordExit, RecordStopped, RunningIsOwned, store
    <3> QED BY Zenon, <3>1, OwnedStays
  <2>13. CASE RecoverStop(t)
    <3>1. \A d \in Containers : Running(d)' /\ Running(d) /\ Resident(d) =>
            row'[d] # None /\ rec'[shim[d].task] = rec[shim[d].task]
      <4>1. \A d \in Containers : row[d] # None =>
              row[d] \in Rows /\ [row[d] EXCEPT !.st = "Stopped"] \in Rows
        BY Zenon DEF TypeOK, Rows
      <4>2. ASSUME NEW d \in Containers, row[d] # None PROVE row'[d] # None
        BY <2>13, <4>1, <4>2, NoneAssumption DEF RecoverStop, TypeOK
      <4> QED BY Zenon, <2>13, <4>2 DEF RecoverStop, RunningIsOwned, store
    <3> QED BY Zenon, <3>1, OwnedStays
  <2>14. CASE CleanupContainer(t)
    <3>1. \A d \in Containers : Running(d)' /\ Running(d) /\ Resident(d) =>
            row'[d] # None /\ rec'[shim[d].task] = rec[shim[d].task]
      <4>1. CASE UNCHANGED <<row, hc, shim>>
        BY Zenon, <2>14, <4>1 DEF CleanupContainer, RunningIsOwned, store
      <4>2. ASSUME NEW c \in task_containers(t, wk[t]),
                   delete_container(c, Refreshed(c))
            PROVE  \A d \in Containers : Running(d)' /\ Running(d) /\ Resident(d) =>
                     row'[d] # None
        <5>1. c \in Containers /\ row[c] # None
          BY Zenon, <4>2 DEF task_containers
        <5>2. daemon # "down"
          BY Zenon, <2>14 DEF CleanupContainer, HandlesComplete
        <5>3. Resident(c) => ~Running(c)'
          BY Zenon, <4>2, <5>1, <5>2, DeletedIsStopped
        <5> QED BY Zenon, <4>2, <5>1, <5>3 DEF delete_container,
                   RunningIsOwned, TypeOK
      <4> QED BY <2>14, <4>1, <4>2, ZenonT(20), SMTT(20) DEF CleanupContainer,
                 store
    <3> QED BY Zenon, <3>1, OwnedStays
  <2> QED BY Zenon, <1>1, <2>1, <2>2, <2>3, <2>4, <2>5, <2>6, <2>7, <2>8, <2>9,
         <2>10, <2>11, <2>12, <2>13, <2>14
       DEF WorkerStep, CleanupStep, RecoveryStep
<1>2. ASSUME NEW z \in ZoneIds, 
             \/ GuardedZoneCleanup(z) \/ GuardedZoneCleanupFails(z)
             \/ OperatorDeletesZone(z) \/ OperatorDeletesZonePartly(z)
      PROVE  RunningIsOwned'
  <2>1. CASE GuardedZoneCleanupFails(z)
    BY Zenon, <2>1, OwnedStays DEF GuardedZoneCleanupFails, store, registry,
       worker, RunningIsOwned
  <2>2. CASE GuardedZoneCleanup(z)
    <3>1. \A d \in Containers : Running(d)' /\ Running(d) /\ Resident(d) =>
            row'[d] # None /\ rec'[shim[d].task] = rec[shim[d].task]
      <4>1. CASE UNCHANGED <<registry, shim>>
        BY Zenon, <2>2, <4>1 DEF GuardedZoneCleanup, RunningIsOwned, registry,
           store
      <4>2. CASE delete_zone(z)
        <5>1. shim' = Drained(z) /\ \A d \in Containers :
                row'[d] # row[d] => d \in RowsOf(z)
          BY Zenon, <4>2 DEF delete_zone
        <5> QED BY Zenon, <2>2, <5>1, DrainedRows DEF GuardedZoneCleanup, store
      <4> QED BY Zenon, <2>2, <4>1, <4>2 DEF GuardedZoneCleanup
    <3> QED BY Zenon, <3>1, OwnedStays
  <2>3. CASE OperatorDeletesZone(z)
    <3>1. \A d \in Containers : Running(d)' /\ Running(d) /\ Resident(d) =>
            row'[d] # None /\ rec'[shim[d].task] = rec[shim[d].task]
      <4>1. CASE UNCHANGED <<registry, shim>>
        BY Zenon, <2>3, <4>1 DEF OperatorDeletesZone, RunningIsOwned, registry,
           store
      <4>2. CASE delete_zone(z)
        <5>1. shim' = Drained(z) /\ \A d \in Containers :
                row'[d] # row[d] => d \in RowsOf(z)
          BY Zenon, <4>2 DEF delete_zone
        <5> QED BY Zenon, <2>3, <5>1, DrainedRows DEF OperatorDeletesZone,
                   store
      <4> QED BY Zenon, <2>3, <4>1, <4>2 DEF OperatorDeletesZone
    <3> QED BY Zenon, <3>1, OwnedStays
  <2>4. CASE OperatorDeletesZonePartly(z)
    <3>1. \A d \in Containers : Running(d)' /\ Running(d) /\ Resident(d) =>
            row'[d] # None /\ rec'[shim[d].task] = rec[shim[d].task]
      <4>1. shim' = Drained(z) /\ \A d \in Containers :
              row'[d] # row[d] => d \in RowsOf(z)
        BY Zenon, <2>4 DEF OperatorDeletesZonePartly, PartlyDeleted
      <4> QED BY Zenon, <2>4, <4>1, DrainedRows DEF OperatorDeletesZonePartly,
                 store
    <3> QED BY Zenon, <3>1, OwnedStays
  <2> QED BY Zenon, <1>2, <2>1, <2>2, <2>3, <2>4
<1>3. ASSUME NEW c \in Containers, Exit(c) \/ OperatorDeletesContainer(c)
      PROVE  RunningIsOwned'
  <2>1. CASE Exit(c)
    BY <2>1, OwnedStays, ZenonT(20), SMTT(20) DEF Exit, store, registry,
       worker, RunningIsOwned
  <2>2. CASE OperatorDeletesContainer(c)
    <3>1. \A d \in Containers : Running(d)' /\ Running(d) /\ Resident(d) =>
            row'[d] # None /\ rec'[shim[d].task] = rec[shim[d].task]
      <4>1. Resident(c) => ~Running(c)'
        BY Zenon, <2>2, DeletedIsStopped DEF OperatorDeletesContainer
      <4> QED BY Zenon, <2>2, <4>1 DEF OperatorDeletesContainer,
                 delete_container, RunningIsOwned, store, TypeOK
    <3> QED BY Zenon, <3>1, OwnedStays
  <2> QED BY Zenon, <1>3, <2>1, <2>2
<1>4. CASE OperatorCreatesZone
  BY <1>4, OwnedStays, ZenonT(20), SMTT(20) DEF OperatorCreatesZone, store,
     worker, RunningIsOwned, registry
<1>5. CASE Crash \/ Restart \/ RestartZoneFails \/ Serve
  BY Zenon, <1>5, OwnedStays DEF Crash, Forget, store, Restart, Reconcile,
     worker, RestartZoneFails, Serve, registry, RunningIsOwned
<1>6. CASE UNCHANGED vars
  BY Zenon, <1>6, OwnedStays DEF vars, store, registry, worker, history,
     RunningIsOwned
<1> QED BY Zenon, <1>1, <1>2, <1>3, <1>4, <1>5, <1>6 DEF Next

-----------------------------------------------------------------------------
(* QuietWhenSettled.                                                       *)

\* Without a start, a task whose containers are quiet stays quiet.
LEMMA QuietStays ==
  ASSUME ShimFrame, NoNewRun, NEW t \in Tasks, Quiet(t)
  PROVE  Quiet(t)'
  BY Zenon DEF Quiet, Running, Resident, ShimFrame, NoNewRun

\* A container of the task that runs where it was admitted is the one
\* task_containers finds for the record.
LEMMA RunningIsFound ==
  ASSUME RunningIsOwned, RowsInStep, NEW t \in Tasks, NEW c \in Containers,
         Running(c), Resident(c), shim[c].task = t
  PROVE  c \in task_containers(t, rec[t]) /\ c = rec[t].cont
  BY Zenon, NoneAssumption DEF RunningIsOwned, RowsInStep, Running,
     task_containers

\* A task is started only before it is settled.
LEMMA QuietStart ==
  ASSUME TaskInv, QuietWhenSettled, ShimFrame,
         NEW t \in Tasks, StartContainer(t) \/ StartReplyLost(t)
  PROVE  QuietWhenSettled'
<1> DEFINE c == wk[t].cont
<1> USE DEF TaskInv
<1>1. c \in Containers /\ shim[c] # None /\ shim[c].task = t
  BY Zenon DEF StartContainer, StartReplyLost, At, LocalsSet, Holding
<1>2. \A d \in Containers : d # c => shim'[d] = shim[d]
  BY Zenon, <1>1 DEF StartContainer, StartReplyLost, SetInst, TypeOK
<1>3. result'[t] = Empty /\ result' = result
  BY Zenon DEF StartContainer, StartReplyLost, At, StoreInStep, Admitted,
     Holding, store
<1>4. pc'[t] \in {"started", "post"} /\ (pc'[t] = "post" => wk'[t].out = "runtime_error")
  BY DEF StartContainer, StartReplyLost, Goto, Fails, TypeOK, Workers
<1>5. \A u \in Tasks : u # t => pc'[u] = pc[u] /\ wk'[u] = wk[u]
  BY Zenon DEF StartContainer, StartReplyLost, Goto, Fails, TypeOK
<1> HIDE DEF c
<1>6. \A u \in Tasks : u # t /\ Quiet(u) => Quiet(u)'
  BY Zenon, <1>1, <1>2 DEF Quiet, Running, Resident, ShimFrame
<1>7. ASSUME NEW u \in Tasks, u # t,
             \/ pc'[u] \in {"polled", "rsave"}
             \/ pc'[u] = "post" /\ wk'[u].out \in {"exited", "interrupted"}
             \/ result'[u].by \in {"exited", "interrupted"}
      PROVE  Quiet(u)'
  <2>1. Quiet(u)
    BY Zenon, <1>3, <1>5, <1>7 DEF QuietWhenSettled
  <2> QED BY Zenon, <1>6, <1>7, <2>1
<1>8. /\ pc'[t] \notin {"polled", "rsave"}
      /\ pc'[t] = "post" => wk'[t].out \notin {"exited", "interrupted"}
      /\ result'[t].by \notin {"exited", "interrupted"}
  <2>1. Empty.by = "none"
    BY DEF Empty
  <2> QED BY <1>3, <1>4, <2>1
<1> QED BY Zenon, <1>7, <1>8 DEF QuietWhenSettled

\* A settled verdict is reached only when the task's container has ended.
LEMMA QuietStep ==
  TaskInv /\ RunningIsOwned /\ QuietWhenSettled /\ ShimFrame /\ NoNewRun /\
  [Next]_vars
  => QuietWhenSettled'
<1> SUFFICES ASSUME TaskInv, RunningIsOwned, QuietWhenSettled, ShimFrame,
                    NoNewRun, [Next]_vars
             PROVE  QuietWhenSettled'
    OBVIOUS
<1> USE DEF TaskInv
<1>1. ASSUME NEW t \in Tasks, 
             WorkerStep(t) \/ CleanupStep(t) \/ RecoveryStep(t)
             \/ DeleteResult(t)
      PROVE  QuietWhenSettled'
  <2>1. CASE RecoverFails(t)
    BY Zenon, <2>1, QuietStays DEF RecoverFails, Forget, store,
       QuietWhenSettled, TypeOK
  <2>2. CASE CleanupZonePartly(t) \/ CleanupFails(t)
    BY <2>2, QuietStays, ZenonT(20), SMTT(20) DEF CleanupZonePartly, Forget,
       Done, store, Goto, CleanupFails, QuietWhenSettled, TypeOK
  <2>3. CASE PollStopped(t)
    <3>1. Quiet(t)
      BY Zenon, <2>3, RunningIsFound DEF PollStopped, At, RecordInStep,
         Holding, Quiet, Running
    <3> QED BY Zenon, <2>3, <3>1, QuietStays DEF PollStopped, Goto, store,
               QuietWhenSettled, TypeOK
  <2>4. CASE RecordExit(t)
    <3>1. Quiet(t)
      BY Zenon, <2>4 DEF RecordExit, At, QuietWhenSettled
    <3> QED BY Zenon, <2>4, <3>1, QuietStays DEF RecordExit, Waited, Goto,
               store, QuietWhenSettled, TypeOK
  <2>5. CASE Commit(t)
    <3>1. wk[t].out \in {"exited", "interrupted"} => Quiet(t)
      BY <2>5, ZenonT(20), SMTT(20) DEF Commit, At, QuietWhenSettled
    <3>2. result'[t].by = wk[t].out
      BY <2>5 DEF Commit, save_result, TypeOK
    <3>3. \A u \in Tasks : u # t => pc'[u] = pc[u] /\ result'[u] = result[u]
      BY Zenon, <2>5 DEF Commit, save_result, Goto, TypeOK
    <3> QED BY Zenon, <2>5, <3>1, <3>2, <3>3, QuietStays DEF Commit, Goto,
               QuietWhenSettled, TypeOK
  <2>6. CASE RecoverSave(t)
    <3>1. Quiet(t)
      BY Zenon, <2>6 DEF RecoverSave, QuietWhenSettled
    <3> QED BY Zenon, <2>6, <3>1, QuietStays DEF RecoverSave, save_result,
               Goto, QuietWhenSettled, TypeOK
  <2>7. CASE RecoverStop(t)
    <3>1. Quiet(t)'
      <4>1. CASE task_containers(t, rec[t]) = {}
        BY Zenon, <4>1, RunningIsFound, QuietStays DEF Quiet
      <4>2. ASSUME NEW c \in Containers, task_containers(t, rec[t]) = {c},
                   shim[c].st = "created", UNCHANGED shim
            PROVE  Quiet(t)'
        BY Zenon, <4>2, RunningIsFound, QuietStays DEF Quiet, Running
      <4>3. ASSUME NEW c \in Containers, task_containers(t, rec[t]) = {c},
                   shim' = SetInst(c, "stopped")
            PROVE  Quiet(t)'
        <5>1. shim[c] # None /\ shim[c] \in Insts
          BY Zenon, <4>3 DEF task_containers, RowsInStep, TypeOK
        <5>2. ~Running(c)'
          BY Zenon, <4>3, <5>1 DEF SetInst, Running, Insts, TypeOK
        <5>3. ASSUME NEW d \in Containers, Running(d)', Resident(d)'
              PROVE  Running(d) /\ Resident(d) /\ shim'[d].task = shim[d].task
          BY Zenon, <5>3 DEF Running, Resident, ShimFrame, NoNewRun
        <5> QED BY Zenon, <4>3, <5>2, <5>3, RunningIsFound DEF Quiet
      <4> QED BY Zenon, <2>7, <4>1, <4>2, <4>3 DEF RecoverStop
    <3> QED BY Zenon, <2>7, <3>1, QuietStays DEF RecoverStop, Adopt, Goto,
               store, QuietWhenSettled, TypeOK
  <2>8. CASE RecoverCommitted(t)
    BY Zenon, <2>8, QuietStays DEF RecoverCommitted, Goto, store,
       QuietWhenSettled, TypeOK, Adopt
  <2>9. CASE Reserve(t)
    BY Zenon, <2>9, QuietStays DEF Reserve, reserve_result, Goto, Empty,
       QuietWhenSettled, TypeOK
  <2>10. CASE Refuse(t)
    BY Zenon, <2>10, QuietStays DEF Refuse, delete_result, Done, Goto, Absent,
       QuietWhenSettled, TypeOK
  <2>11. CASE DeleteResult(t)
    BY Zenon, <2>11, QuietStays DEF DeleteResult, delete_result, worker,
       Absent, QuietWhenSettled, TypeOK
  <2>12. CASE AllocateZone(t) \/ ResolveZone(t) \/ ReadZone(t) \/
              CreateContainer(t) \/ CreateFails(t)
    BY <2>12, QuietStays DEF AllocateZone, At, Goto, store, ResolveZone,
       ReadZone, Fails, CreateContainer, CreateFails, QuietWhenSettled,
       TypeOK, Workers
  <2>13. CASE BindFails(t) \/ StartReplyLost(t) \/ StartFails(t) \/
              RecordRunningFails(t) \/ RecordStopped(t)
    <3>1. CASE BindFails(t) \/ StartReplyLost(t) \/ StartFails(t)
      BY <3>1, QuietStays DEF BindFails, At, Fails, store, Goto,
         StartReplyLost, StartFails, Waited, QuietWhenSettled, TypeOK, Workers
    <3>2. CASE RecordRunningFails(t) \/ RecordStopped(t)
      BY <3>2, QuietStays DEF At, Fails, store, Goto, RecordRunningFails,
         RecordStopped, Waited, QuietWhenSettled, TypeOK, Workers
    <3> QED BY Zenon, <2>13, <3>1, <3>2
  <2>14. CASE TimeoutStopFails(t)
    BY ZenonT(30), <2>14, QuietStays DEF TimeoutStopFails, At, Waited, store, Goto,
       QuietWhenSettled, TypeOK, Workers
  <2>15. CASE Admit(t) \/ RefuseLeaks(t) \/ BindContainer(t) \/
              StartContainer(t) \/ RecordRunning(t)
    BY <2>15, QuietStays, ZenonT(20), SMTT(20) DEF Admit, At, Goto,
       RefuseLeaks, Done, store, BindContainer, StartContainer, RecordRunning,
       QuietWhenSettled, TypeOK
  <2>16. CASE Timeout(t) \/ CommitFails(t) \/ CleanupZone(t) \/
              CleanupContainer(t) \/ FinishRecovery(t)
    BY <2>16, QuietStays, ZenonT(20), SMTT(20) DEF Timeout, At, Goto, store,
       CommitFails, Done, CleanupZone, CleanupContainer, FinishRecovery,
       QuietWhenSettled, TypeOK
  <2> QED BY Zenon, <1>1, <2>1, <2>2, <2>3, <2>4, <2>5, <2>6, <2>7, <2>8, <2>9,
         <2>10, <2>11, <2>12, <2>13, <2>14, <2>15, <2>16
       DEF WorkerStep, CleanupStep, RecoveryStep
<1>2. ASSUME NEW z \in ZoneIds, 
             \/ GuardedZoneCleanup(z) \/ GuardedZoneCleanupFails(z)
             \/ OperatorDeletesZone(z) \/ OperatorDeletesZonePartly(z)
      PROVE  QuietWhenSettled'
  <2>1. CASE GuardedZoneCleanup(z) \/ GuardedZoneCleanupFails(z) \/
              OperatorDeletesZone(z) \/ OperatorDeletesZonePartly(z)
    BY <2>1, QuietStays, ZenonT(20), SMTT(20) DEF GuardedZoneCleanup, store,
       worker, GuardedZoneCleanupFails, OperatorDeletesZone,
       OperatorDeletesZonePartly, QuietWhenSettled, TypeOK
  <2> QED BY Zenon, <1>2, <2>1
<1>3. ASSUME NEW c \in Containers, Exit(c) \/ OperatorDeletesContainer(c)
      PROVE  QuietWhenSettled'
  <2>1. CASE Exit(c) \/ OperatorDeletesContainer(c)
    BY Zenon, <2>1, QuietStays DEF Exit, store, worker,
       OperatorDeletesContainer, QuietWhenSettled, TypeOK
  <2> QED BY Zenon, <1>3, <2>1
<1>4. CASE OperatorCreatesZone \/ Restart \/ RestartZoneFails \/ Serve
  BY Zenon, <1>4, QuietStays DEF OperatorCreatesZone, store, worker, Restart,
     Reconcile, RestartZoneFails, Serve, QuietWhenSettled, TypeOK
<1>5. CASE Crash
  BY Zenon, <1>5, QuietStays DEF Crash, Forget, store, QuietWhenSettled, TypeOK
<1>6. CASE UNCHANGED vars
  BY Zenon, <1>6, QuietStays DEF vars, store, registry, worker, history,
     QuietWhenSettled, TypeOK
<1> QED BY Zenon, <1>1, <1>2, <1>3, <1>4, <1>5, <1>6 DEF Next

-----------------------------------------------------------------------------

\* The inductive step of OwnershipInv.
LEMMA OwnershipStep ==
  TaskInv /\ OwnershipInv /\ [Next]_vars => OwnershipInv'
<1> SUFFICES ASSUME TaskInv, OwnershipInv, [Next]_vars, "zone" \notin FaultKinds
             PROVE  HandlesComplete' /\ RunningIsOwned' /\ QuietWhenSettled'
    BY Zenon DEF OwnershipInv
<1>1. HandlesComplete /\ RunningIsOwned /\ QuietWhenSettled
  BY Zenon DEF OwnershipInv
<1>2. HandlesComplete'
  BY Zenon, <1>1, HandlesStep DEF TaskInv
<1>3. ShimFrame /\ RunFrame
  BY Zenon, TaskInvStep, RunStep DEF TaskInv
<1>4. CASE NoNewRun
  BY Zenon, <1>1, <1>2, <1>3, <1>4, OwnedStep, QuietStep
<1>5. ASSUME NEW t \in Tasks, StartContainer(t) \/ StartReplyLost(t)
      PROVE  RunningIsOwned' /\ QuietWhenSettled'
  BY Zenon, <1>1, <1>3, <1>5, OwnedStart, QuietStart
<1> QED BY Zenon, <1>2, <1>3, <1>4, <1>5 DEF RunFrame

\* OwnershipInv is an invariant, for every set of fault kinds without "zone".
THEOREM Ownership == Spec => []OwnershipInv
<1>1. Init => OwnershipInv
  <2> SUFFICES ASSUME Init
               PROVE  HandlesComplete /\ RunningIsOwned /\ QuietWhenSettled
      BY Zenon DEF OwnershipInv
  <2>1. HandlesComplete
    BY Zenon DEF Init, HandlesComplete, Zones
  <2>2. RunningIsOwned /\ QuietWhenSettled
    BY Zenon DEF Init, RunningIsOwned, QuietWhenSettled, Quiet, Running
  <2> QED BY Zenon, <2>1, <2>2
<1> QED BY <1>1, TaskInvariant, OwnershipStep, PTL DEF Spec

\* If every zone recovers at every restart, a task container that runs in the
\* zone its task was admitted to is covered by a recovery record at every
\* moment, so that recover_tasks finds it after a crash at any point.
THEOREM RunningRecorded ==
  ASSUME "zone" \notin FaultKinds
  PROVE  Spec => []RunningIsRecorded
<1>1. OwnershipInv => RunningIsRecorded
  BY Zenon DEF OwnershipInv, RunningIsOwned, RunningIsRecorded
<1> QED BY Ownership, <1>1, PTL

\* If every zone recovers at every restart, a result that says the task exited
\* or was interrupted is never on record while its container still runs in
\* the zone it was admitted to.
THEOREM SettledStopped ==
  ASSUME "zone" \notin FaultKinds
  PROVE  Spec => []SettledIsStopped
<1>1. TaskInv /\ OwnershipInv => SettledIsStopped
  <2> SUFFICES ASSUME TaskInv, OwnershipInv, NEW c \in Containers,
                      Running(c), Resident(c)
               PROVE  result[shim[c].task].by \notin {"exited", "interrupted"}
      BY Zenon DEF SettledIsStopped
  <2>1. shim[c].task \in Tasks
    BY Zenon DEF TaskInv, TypeOK, Insts, Running
  <2> QED BY Zenon, <2>1 DEF OwnershipInv, QuietWhenSettled, Quiet
<1> QED BY TaskInvariant, Ownership, <1>1, PTL

=============================================================================
