----------------------- MODULE SandboxEvidenceProofs -----------------------
(***************************************************************************)
(* Every reachable state of SandboxTasks satisfies EvidenceInv, with every *)
(* kind of fault and with operators that delete what they like: at most    *)
(* one container row carries a task's name, and what belongs to a task     *)
(* whose result is not committed stays until an operator removes it.       *)
(*                                                                         *)
(* Three facts support each other.  RowsOnce: a task's row is put by its   *)
(* own worker only, once.  ZonesExclusive: nobody but its task knows a     *)
(* temporary zone, and nobody at all one whose deletion was spawned, so    *)
(* deleting it deprives no one else.  EvidenceKept: the zone, the row and  *)
(* the shim's container of an open task are there; a cleanup only concerns *)
(* a task whose result is committed.  Each is kept by a step that adds     *)
(* nothing (the *Stays lemmas) and by the few steps that do.               *)
(***************************************************************************)
EXTENDS SandboxTasksProofs

(* What a handler leaves of the other tasks.                               *)

\* A handler of one task leaves the other tasks' workers and entries alone.
Others(t) ==
    \A u \in Tasks : u # t => /\ pc'[u] = pc[u] /\ wk'[u] = wk[u]
                              /\ result'[u] = result[u] /\ rec'[u] = rec[u]

\* The daemon ends, and redb keeps what it had.
Ends == Forget /\ UNCHANGED <<store, named, temps, history>>

\* A step of one task's handler, or the end of the daemon during recovery.
LEMMA OthersKept ==
  ASSUME TypeOK, NEW t \in Tasks,
         WorkerStep(t) \/ CleanupStep(t) \/ RecoveryStep(t) \/ DeleteResult(t)
  PROVE  Others(t) \/ Ends
<1>1. CASE Reserve(t) \/ AllocateZone(t) \/ ResolveZone(t) \/ Admit(t) \/
           Refuse(t) \/ RefuseLeaks(t) \/ ReadZone(t)
  BY Zenon, <1>1 DEF Reserve, reserve_result, AllocateZone, ResolveZone,
     Admit, put_recovery, Refuse, delete_result, RefuseLeaks, ReadZone, Fails,
     Goto, Done, store, Others, TypeOK
<1>2. CASE CreateContainer(t) \/ CreateFails(t) \/ BindContainer(t) \/
           BindFails(t) \/ StartContainer(t) \/ StartReplyLost(t) \/
           StartFails(t)
  BY Zenon, <1>2 DEF CreateContainer, CreateFails, BindContainer,
     put_recovery, BindFails, StartContainer, StartReplyLost, StartFails,
     Fails, Goto, store, Others, TypeOK
<1>3. CASE RecordRunning(t) \/ RecordRunningFails(t) \/ PollStopped(t) \/
           RecordExit(t) \/ Timeout(t) \/ RecordStopped(t) \/
           TimeoutStopFails(t)
  BY Zenon, <1>3 DEF RecordRunning, RecordRunningFails, PollStopped,
     RecordExit, Timeout, RecordStopped, TimeoutStopFails, Waited, Fails,
     Goto, store, Others, TypeOK
<1>4. CASE Commit(t) \/ CommitFails(t) \/ CleanupZone(t) \/
           CleanupContainer(t) \/ FinishRecovery(t)
  BY Zenon, <1>4 DEF Commit, save_result, CommitFails, CleanupZone,
     CleanupContainer, FinishRecovery, finish_recovery, Goto, Done, store,
     Others, TypeOK
<1>5. CASE CleanupZonePartly(t) \/ CleanupFails(t)
  BY Zenon, <1>5 DEF CleanupZonePartly, CleanupFails, Done, Goto, store,
     Others, Ends, TypeOK
<1>6. CASE RecoverCommitted(t) \/ RecoverStop(t) \/ RecoverSave(t) \/
           RecoverFails(t) \/ DeleteResult(t)
  BY Zenon, <1>6 DEF RecoverCommitted, RecoverStop, RecoverSave, save_result,
     RecoverFails, DeleteResult, delete_result, Adopt, Goto, store, worker,
     Others, Ends, TypeOK
<1> QED BY Zenon, <1>1, <1>2, <1>3, <1>4, <1>5, <1>6
           DEF WorkerStep, CleanupStep, RecoveryStep

-----------------------------------------------------------------------------
(* RowsOnce.                                                               *)

\* What a step leaves of a task whose rows appear once.
RowsFollow(u) ==
    /\ Uncreated(u)' => Uncreated(u) \/ NoRows(u)
    /\ pc'[u] \in Holding => pc[u] \in Holding /\ wk'[u].cont = wk[u].cont

\* The step adds no row.
NoNewRow ==
    \A c \in Containers :
        row'[c] # None => row[c] # None /\ row'[c].task = row[c].task

\* A step that adds no row keeps RowsOnce.
LEMMA RowsOnceStays ==
  ASSUME RowsOnce, NoNewRow, \A u \in Tasks : RowsFollow(u)
  PROVE  RowsOnce'
<1>1. OneContainerPerTask'
  BY Zenon DEF RowsOnce, OneContainerPerTask, NoNewRow
<1>2. ASSUME NEW u \in Tasks, Uncreated(u)'
      PROVE  NoRows(u)'
  BY Zenon, <1>2 DEF RowsOnce, RowsFollow, NoNewRow, NoRows
<1>3. ASSUME NEW u \in Tasks, pc'[u] \in Holding,
             NEW c \in Containers, row'[c] # None, row'[c].task = u
      PROVE  c = wk'[u].cont
  BY Zenon, <1>3 DEF RowsOnce, RowsFollow, NoNewRow
<1> QED BY Zenon, <1>1, <1>2, <1>3 DEF RowsOnce

\* Only a task's own handler touches what RowsFollow reads.
LEMMA RowsFollowOthers ==
  ASSUME NEW t \in Tasks, Others(t), RowsFollow(t)
  PROVE  \A u \in Tasks : RowsFollow(u)
<1>1. ASSUME NEW u \in Tasks, u # t
      PROVE  RowsFollow(u)
  BY Zenon, <1>1 DEF Others, RowsFollow, Uncreated
<1> QED BY Zenon, <1>1

\* The end of the daemon leaves no worker.
LEMMA RowsFollowEnds ==
  ASSUME Ends
  PROVE  \A u \in Tasks : RowsFollow(u)
<1>1. ASSUME NEW u \in Tasks
      PROVE  pc'[u] = "idle" /\ result' = result
  BY Zenon DEF Ends, Forget, store
<1> QED BY Zenon, <1>1 DEF RowsFollow, Uncreated, Holding

\* A row a worker puts back is the one its task has.
LEMMA RowsOncePut ==
  ASSUME TaskInv, RowsOnce, NEW t \in Tasks, Others(t),
         NEW c \in Containers, NEW z \in ZoneIds,
         NEW st, st \in {"Created", "Running", "Stopped"},
         put_container(c, t, z, st),
         \A d \in Containers : row[d] # None /\ row[d].task = t => d = c,
         ~Uncreated(t)', pc'[t] \in Holding => wk'[t].cont = c
  PROVE  RowsOnce'
<1>1. /\ row'[c].task = t
      /\ \A d \in Containers : d # c => row'[d] = row[d]
  BY Zenon DEF put_container, TaskInv, TypeOK
<1>2. \A d \in Containers : row'[d] # None /\ row'[d].task = t => d = c
  BY Zenon, <1>1
<1>3. ASSUME NEW d \in Containers, NEW e \in Containers,
             row'[d] # None, row'[e] # None, row'[d].task = row'[e].task
      PROVE  d = e
  <2>1. CASE d = c \/ e = c
    BY Zenon, <1>1, <1>2, <1>3, <2>1
  <2>2. CASE d # c /\ e # c
    BY Zenon, <1>1, <1>3, <2>2 DEF RowsOnce, OneContainerPerTask
  <2> QED BY Zenon, <2>1, <2>2
<1>4. ASSUME NEW u \in Tasks, u # t
      PROVE  /\ Uncreated(u)' => NoRows(u)'
             /\ pc'[u] \in Holding =>
                  \A d \in Containers :
                    row'[d] # None /\ row'[d].task = u => d = wk'[u].cont
  <2>1. \A d \in Containers : row'[d].task = u => row'[d] = row[d]
    BY Zenon, <1>1, <1>4
  <2>2. (Uncreated(u)' => Uncreated(u)) /\ pc'[u] = pc[u] /\ wk'[u] = wk[u]
    BY Zenon, <1>4 DEF Others, Uncreated
  <2>3. ASSUME NEW d \in Containers, row'[d] # None, row'[d].task = u
        PROVE  /\ ~Uncreated(u)
               /\ pc[u] \in Holding => d = wk[u].cont
    BY Zenon, <2>1, <2>3 DEF RowsOnce, NoRows
  <2> QED BY Zenon, <2>2, <2>3 DEF NoRows
<1> QED BY Zenon, <1>2, <1>3, <1>4 DEF RowsOnce, OneContainerPerTask

\* Every step keeps RowsOnce.
LEMMA RowsOnceStep ==
  TaskInv /\ RowsOnce /\ [Next]_vars => RowsOnce'
<1> SUFFICES ASSUME TaskInv, RowsOnce, [Next]_vars
             PROVE  RowsOnce'
    OBVIOUS
<1> USE DEF TaskInv
<1>1. ASSUME NEW t \in Tasks,
             WorkerStep(t) \/ CleanupStep(t) \/ RecoveryStep(t)
             \/ DeleteResult(t)
      PROVE  RowsOnce'
  <2>0. Others(t) \/ Ends
    BY Zenon, <1>1, OthersKept
  <2>1. CASE NoNewRow /\ (Others(t) => RowsFollow(t))
    BY Zenon, <2>0, <2>1, RowsFollowOthers, RowsFollowEnds, RowsOnceStays
  <2>2. CASE Reserve(t) \/ AllocateZone(t) \/ ResolveZone(t) \/ Admit(t) \/
             Refuse(t) \/ RefuseLeaks(t)
    <3>1. Uncreated(t) /\ pc'[t] \notin Holding
      BY Zenon, <2>2 DEF Reserve, reserve_result, AllocateZone, ResolveZone,
         Admit, Refuse, RefuseLeaks, At, Goto, Done, Uncreated, Holding, TypeOK
    <3>2. UNCHANGED row
      BY Zenon, <2>2 DEF Reserve, AllocateZone, ResolveZone, Admit, Refuse,
         RefuseLeaks, registry
    <3> QED BY Zenon, <2>1, <3>1, <3>2 DEF NoNewRow, RowsFollow
  <2>3. CASE ReadZone(t) \/ CreateFails(t) \/ BindContainer(t) \/
             BindFails(t) \/ StartContainer(t) \/ StartReplyLost(t) \/
             StartFails(t)
    <3>1. UNCHANGED <<row, result>>
      BY Zenon, <2>3 DEF ReadZone, CreateFails, BindContainer, BindFails,
         StartContainer, StartReplyLost, StartFails, registry, store
    <3>2. /\ Uncreated(t)' => Uncreated(t)
          /\ pc'[t] \in Holding => pc[t] \in Holding /\ wk' = wk
      BY Zenon, <2>3, <3>1 DEF ReadZone, CreateFails, BindContainer,
         BindFails, StartContainer, StartReplyLost, StartFails, At, Fails,
         Goto, Uncreated, Holding, TypeOK
    <3> QED BY Zenon, <2>1, <3>1, <3>2 DEF NoNewRow, RowsFollow
  <2>4. CASE RecordRunningFails(t) \/ PollStopped(t) \/ Timeout(t) \/
             TimeoutStopFails(t) \/ Commit(t) \/ CommitFails(t)
    <3>1. UNCHANGED row /\ result'[t] # Absent
      BY <2>4, SealedDistinct DEF RecordRunningFails, PollStopped, Timeout,
         TimeoutStopFails, Commit, CommitFails, At, save_result, registry,
         store, StoreInStep, Admitted, Holding, Absent, Empty, TypeOK
    <3>2. /\ pc'[t] \notin {"zone", "admit", "create", "backend"}
          /\ pc'[t] \in Holding => pc[t] \in Holding /\ wk' = wk
      BY Zenon, <2>4 DEF RecordRunningFails, PollStopped, Timeout,
         TimeoutStopFails, Commit, CommitFails, At, Fails, Waited, Goto, Done,
         Holding, TypeOK
    <3> QED BY Zenon, <2>1, <3>1, <3>2 DEF NoNewRow, RowsFollow, Uncreated
  <2>5. CASE CleanupZone(t) \/ CleanupContainer(t) \/ FinishRecovery(t) \/
             CleanupZonePartly(t) \/ CleanupFails(t)
    <3>1. NoNewRow
      BY Zenon, <2>5 DEF CleanupZone, CleanupContainer, FinishRecovery,
         CleanupZonePartly, CleanupFails, delete_zone, delete_container,
         PartlyDeleted, registry, NoNewRow, TypeOK
    <3>2. UNCHANGED result
      BY Zenon, <2>5 DEF CleanupZone, CleanupContainer, FinishRecovery,
         CleanupZonePartly, CleanupFails, store
    <3>3. Others(t) => pc'[t] \in {"idle", "finish"}
      BY Zenon, <2>5 DEF CleanupZone, CleanupContainer, FinishRecovery,
         CleanupZonePartly, CleanupFails, Forget, Goto, Done, TypeOK
    <3> QED BY Zenon, <2>1, <3>1, <3>2, <3>3 DEF RowsFollow, Uncreated, Holding
  <2>6. CASE RecoverCommitted(t) \/ RecoverStop(t) \/ RecoverSave(t) \/
             RecoverFails(t)
    <3>1. NoNewRow
      <4>1. ASSUME NEW c \in Containers, task_containers(t, rec[t]) = {c},
                   row' = [row EXCEPT ![c].st = "Stopped"]
            PROVE  NoNewRow
        <5>1. row[c] # None /\ row[c] \in Rows
          BY Zenon, <4>1 DEF task_containers, TypeOK
        <5>2. row'[c].task = row[c].task
          BY Zenon, <4>1, <5>1 DEF Rows, TypeOK
        <5> QED BY Zenon, <4>1, <5>1, <5>2 DEF NoNewRow, TypeOK
      <4> QED BY Zenon, <2>6, <4>1 DEF RecoverCommitted, RecoverStop,
                 RecoverSave, RecoverFails, registry, NoNewRow
    <3>2. result'[t] = Absent => result[t] = Absent
      BY <2>6, SealedDistinct DEF RecoverCommitted, RecoverStop, RecoverSave,
         RecoverFails, save_result, store, Absent, TypeOK
    <3>3. pc'[t] \in {"cleanup", "rsave", "idle"}
      BY Zenon, <2>6 DEF RecoverCommitted, RecoverStop, RecoverSave,
         RecoverFails, Forget, Goto, TypeOK
    <3> QED BY Zenon, <2>1, <3>1, <3>2, <3>3 DEF RowsFollow, Uncreated, Holding
  <2>7. CASE DeleteResult(t)
    <3>1. NoRows(t) /\ UNCHANGED <<row, pc>> /\ pc[t] = "idle"
      BY Zenon, <2>7 DEF DeleteResult, At, registry, worker, NoRows
    <3> QED BY Zenon, <2>1, <3>1 DEF NoNewRow, RowsFollow, Holding
  <2>8. CASE RecordRunning(t) \/ RecordExit(t) \/ RecordStopped(t)
    <3>1. /\ pc[t] \in Holding
          /\ wk[t].cont \in Containers /\ wk[t].at \in ZoneIds
          /\ result[t] = Empty
      BY Zenon, <2>8 DEF RecordRunning, RecordExit, RecordStopped, At,
         LocalsSet, StoreInStep, Admitted, Holding
    <3>2. \E st \in {"Created", "Running", "Stopped"} :
            put_container(wk[t].cont, t, wk[t].at, st)
      BY Zenon, <2>8 DEF RecordRunning, RecordExit, RecordStopped
    <3>3. \A d \in Containers :
            row[d] # None /\ row[d].task = t => d = wk[t].cont
      BY Zenon, <3>1 DEF RowsOnce
    <3>4. ~Uncreated(t)'
      BY Zenon, <2>8, <3>1, SealedDistinct DEF RecordRunning, RecordExit,
         RecordStopped, Waited, Goto, store, Uncreated, TypeOK
    <3>5. pc'[t] \in Holding => wk' = wk
      BY Zenon, <2>8 DEF RecordRunning, RecordExit, RecordStopped, Waited,
         Goto, Holding, TypeOK
    <3>6. Others(t)
      BY Zenon, <2>8 DEF RecordRunning, RecordExit, RecordStopped, Waited,
         Goto, store, Others, TypeOK
    <3> QED BY Zenon, <3>1, <3>2, <3>3, <3>4, <3>5, <3>6, RowsOncePut
  <2>9. CASE CreateContainer(t)
    <3>1. PICK c \in Containers :
            /\ put_container(c, t, wk[t].at, "Created")
            /\ wk' = [wk EXCEPT ![t].cont = c]
      BY Zenon, <2>9 DEF CreateContainer
    <3>2. wk[t].at \in ZoneIds /\ NoRows(t) /\ result[t] = Empty
      BY Zenon, <2>9 DEF CreateContainer, At, LocalsSet, RowsOnce, Uncreated,
         StoreInStep, Admitted
    <3>3. wk'[t].cont = c /\ pc'[t] = "bind" /\ UNCHANGED result
      <4>1. wk'[t].cont = c
        BY <3>1 DEF TypeOK, Workers
      <4> QED BY Zenon, <2>9, <4>1 DEF CreateContainer, Goto, store, TypeOK
    <3>4. ~Uncreated(t)'
      BY Zenon, <3>2, <3>3, SealedDistinct DEF Uncreated
    <3>5. Others(t)
      BY Zenon, <2>9 DEF CreateContainer, Goto, store, Others, TypeOK
    <3> QED BY Zenon, <3>1, <3>2, <3>3, <3>4, <3>5, RowsOncePut DEF NoRows
  <2> QED BY Zenon, <1>1, <2>2, <2>3, <2>4, <2>5, <2>6, <2>7, <2>8, <2>9
             DEF WorkerStep, CleanupStep, RecoveryStep
<1>2. ASSUME NEW z \in ZoneIds,
             \/ GuardedZoneCleanup(z) \/ GuardedZoneCleanupFails(z)
             \/ OperatorDeletesZone(z) \/ OperatorDeletesZonePartly(z)
      PROVE  RowsOnce'
  <2>1. NoNewRow
    BY Zenon, <1>2 DEF GuardedZoneCleanup, GuardedZoneCleanupFails,
       OperatorDeletesZone, OperatorDeletesZonePartly, delete_zone,
       PartlyDeleted, registry, NoNewRow
  <2>2. UNCHANGED <<pc, wk, result>>
    BY Zenon, <1>2 DEF GuardedZoneCleanup, GuardedZoneCleanupFails,
       OperatorDeletesZone, OperatorDeletesZonePartly, store, worker
  <2> QED BY Zenon, <2>1, <2>2, RowsOnceStays DEF RowsFollow, Uncreated
<1>3. ASSUME NEW c \in Containers, Exit(c) \/ OperatorDeletesContainer(c)
      PROVE  RowsOnce'
  <2>1. NoNewRow
    BY Zenon, <1>3 DEF Exit, OperatorDeletesContainer, delete_container,
       registry, NoNewRow, TypeOK
  <2>2. UNCHANGED <<pc, wk, result>>
    BY Zenon, <1>3 DEF Exit, OperatorDeletesContainer, store, worker
  <2> QED BY Zenon, <2>1, <2>2, RowsOnceStays DEF RowsFollow, Uncreated
<1>4. CASE OperatorCreatesZone \/ Restart \/ RestartZoneFails \/ Serve \/
           UNCHANGED vars
  <2>1. UNCHANGED <<row, pc, wk, result>>
    BY Zenon, <1>4 DEF OperatorCreatesZone, Restart, RestartZoneFails,
       Reconcile, Serve, vars, registry, store, worker
  <2> QED BY Zenon, <2>1, RowsOnceStays DEF NoNewRow, RowsFollow, Uncreated
<1>5. CASE Crash
  <2>1. Ends /\ NoNewRow
    BY Zenon, <1>5 DEF Crash, Ends, NoNewRow
  <2> QED BY Zenon, <2>1, RowsFollowEnds, RowsOnceStays
<1> QED BY Zenon, <1>1, <1>2, <1>3, <1>4, <1>5 DEF Next

-----------------------------------------------------------------------------
(* ZonesExclusive.                                                         *)

\* What a step leaves of the zones a task claims.
ClaimsFollow(u) ==
    /\ \A z \in ZoneIds : /\ Claims(u, z)' => Claims(u, z)
                          /\ Owns(u, z)' => Owns(u, z)
    /\ wk'[u].kind = "named" => ~wk'[u].owns
    /\ pc'[u] \in Admitted \cup Settling => rec'[u].owns = wk'[u].owns

\* The step creates no zone and spawns no deletion.
NoNewZone ==
    /\ doomed' \subseteq doomed /\ minted \subseteq minted'
    /\ named' \in {named, None}

\* A step in which nobody claims a zone keeps ZonesExclusive.
LEMMA ZonesExclusiveStays ==
  ASSUME TypeOK, ZonesExclusive, NoNewZone, \A u \in Tasks : ClaimsFollow(u)
  PROVE  ZonesExclusive'
<1>1. \A z \in ZoneIds : z # named => z # named'
  BY Zenon, NoneAssumption DEF NoNewZone
<1>2. ASSUME NEW z \in ZoneIds, NEW t \in Tasks, Owns(t, z)'
      PROVE  z # named' /\ \A u \in Tasks : Claims(u, z)' => u = t
  BY Zenon, <1>1, <1>2 DEF ZonesExclusive, ClaimsFollow
<1>3. ASSUME NEW z \in doomed'
      PROVE  z \in minted' /\ z # named' /\ \A t \in Tasks : ~Claims(t, z)'
  <2>1. z \in doomed /\ z \in ZoneIds
    BY Zenon, <1>3 DEF NoNewZone, TypeOK
  <2> QED BY Zenon, <1>1, <2>1 DEF ZonesExclusive, ClaimsFollow, NoNewZone
<1> QED BY Zenon, <1>2, <1>3 DEF ZonesExclusive, ClaimsFollow

\* A worker that keeps its zone claims no other.
LEMMA ClaimsFollowSame ==
  ASSUME ZonesExclusive, NEW u \in Tasks, wk'[u].zone = wk[u].zone,
         wk'[u].kind = wk[u].kind, wk'[u].owns = wk[u].owns,
         rec'[u] = rec[u], 
         pc'[u] \in Admitted \cup Settling => pc[u] \in Admitted \cup Settling
  PROVE  ClaimsFollow(u)
<1>1. \A z \in ZoneIds : /\ Claims(u, z)' => Claims(u, z)
                         /\ Owns(u, z)' => Owns(u, z)
  BY Zenon DEF Claims, Owns
<1> QED BY Zenon, <1>1 DEF ClaimsFollow, ZonesExclusive

\* Only a task's own handler touches what ClaimsFollow reads.
LEMMA ClaimsFollowOthers ==
  ASSUME ZonesExclusive, NEW t \in Tasks, Others(t), ClaimsFollow(t)
  PROVE  \A u \in Tasks : ClaimsFollow(u)
<1>1. ASSUME NEW u \in Tasks, u # t
      PROVE  ClaimsFollow(u)
  BY Zenon, <1>1, ClaimsFollowSame DEF Others
<1> QED BY Zenon, <1>1

\* A worker that is gone claims nothing beyond its record.
LEMMA ClaimsFollowIdle ==
  ASSUME NEW u \in Tasks, wk'[u].zone = None,
         wk'[u].kind = "named" => ~wk'[u].owns,
         rec'[u] \in {rec[u], None}, pc'[u] \notin Admitted \cup Settling
  PROVE  ClaimsFollow(u)
  BY Zenon, NoneAssumption DEF ClaimsFollow, Claims, Owns

\* The end of the daemon leaves no worker.
LEMMA ClaimsFollowEnds ==
  ASSUME Ends
  PROVE  \A u \in Tasks : ClaimsFollow(u)
<1> SUFFICES ASSUME NEW u \in Tasks PROVE ClaimsFollow(u)
    OBVIOUS
<1>1. wk'[u] = IdleWorker /\ pc'[u] = "idle" /\ rec' = rec
  BY Zenon DEF Ends, Forget, store
<1>2. IdleWorker.zone = None /\ IdleWorker.kind # "named"
  BY Zenon DEF IdleWorker
<1>3. pc'[u] \notin Admitted \cup Settling
  BY Zenon, <1>1 DEF Admitted, Holding, Settling
<1> QED BY Zenon, <1>1, <1>2, <1>3, ClaimsFollowIdle

\* A worker keeps its zone when one of its other locals is set.
LEMMA WorkerSets ==
  ASSUME TypeOK, NEW t \in Tasks, NEW x,
         \/ wk' = [wk EXCEPT ![t].at = x]
         \/ wk' = [wk EXCEPT ![t].cont = x]
         \/ wk' = [wk EXCEPT ![t].out = x]
  PROVE  /\ wk'[t].zone = wk[t].zone
         /\ wk'[t].kind = wk[t].kind /\ wk'[t].owns = wk[t].owns
<1>1. wk[t] \in Workers
  BY Zenon DEF TypeOK
<1>2. \/ wk'[t] = [wk[t] EXCEPT !.at = x]
      \/ wk'[t] = [wk[t] EXCEPT !.cont = x]
      \/ wk'[t] = [wk[t] EXCEPT !.out = x]
  BY Zenon DEF TypeOK
<1> QED BY <1>1, <1>2 DEF Workers

\* The locals of a worker that begins: a zone of its own exactly if the policy
\* asks for a temporary one.
LEMMA NewWorker ==
  ASSUME NEW k
  PROVE  LET w == [IdleWorker EXCEPT !.kind = k, !.owns = (k = "temp")]
         IN  w.zone = None /\ w.kind = k /\ (w.owns <=> k = "temp")
  BY Zenon DEF IdleWorker

\* Every step keeps ZonesExclusive.
LEMMA ZonesExclusiveStep ==
  TaskInv /\ ZonesExclusive /\ [Next]_vars => ZonesExclusive'
<1> SUFFICES ASSUME TaskInv, ZonesExclusive, [Next]_vars
             PROVE  ZonesExclusive'
    OBVIOUS
<1> USE DEF TaskInv
<1>0. /\ IdleWorker.zone = None /\ IdleWorker.kind = "temp"
      /\ {"idle", "zone", "admit"} \cap (Admitted \cup Settling) = {}
  BY Zenon DEF IdleWorker, Admitted, Holding, Settling
<1>1. ASSUME NEW t \in Tasks,
             WorkerStep(t) \/ CleanupStep(t) \/ RecoveryStep(t)
             \/ DeleteResult(t)
      PROVE  ZonesExclusive'
  <2>0. Others(t) \/ Ends
    BY Zenon, <1>1, OthersKept
  <2>1. CASE NoNewZone /\ (Others(t) => ClaimsFollow(t))
    BY Zenon, <2>0, <2>1, ClaimsFollowOthers, ClaimsFollowEnds,
       ZonesExclusiveStays
  <2>2. CASE Reserve(t)
    <3>1. wk'[t].zone = None /\ (wk'[t].kind = "named" => ~wk'[t].owns)
      <4>1. PICK k \in {"temp", "keep", "named"} :
              wk'[t] = [IdleWorker EXCEPT !.kind = k, !.owns = (k = "temp")]
        BY Zenon, <2>2 DEF Reserve, TypeOK
      <4> QED BY Zenon, <4>1, NewWorker
    <3>2. pc'[t] = "zone" /\ rec' = rec /\ NoNewZone
      BY Zenon, <2>2 DEF Reserve, Goto, registry, history, NoNewZone, TypeOK
    <3> QED BY Zenon, <1>0, <2>1, <3>1, <3>2, ClaimsFollowIdle
  <2>3. CASE CommitFails(t) \/ FinishRecovery(t) \/ CleanupFails(t) \/
             CleanupZonePartly(t)
    <3>1. NoNewZone
      BY Zenon, <2>3 DEF CommitFails, FinishRecovery, CleanupFails,
         CleanupZonePartly, Forget, registry, history, NoNewZone
    <3>2. ASSUME Others(t)
          PROVE  /\ wk'[t] = IdleWorker /\ pc'[t] = "idle"
                 /\ rec'[t] \in {rec[t], None}
      BY Zenon, <2>3 DEF CommitFails, FinishRecovery, finish_recovery,
         CleanupFails, CleanupZonePartly, Forget, Done, Goto, store, TypeOK
    <3> QED BY Zenon, <1>0, <2>1, <3>1, <3>2, ClaimsFollowIdle
  <2>4. CASE RecoverFails(t)
    <3>1. NoNewZone /\ Ends
      BY Zenon, <2>4 DEF RecoverFails, Forget, Ends, history, NoNewZone
    <3> QED BY Zenon, <3>1, ClaimsFollowEnds, ZonesExclusiveStays
  <2>5. CASE CleanupZone(t) \/ CleanupContainer(t) \/ Commit(t) \/
             RecoverSave(t)
    <3>1. NoNewZone /\ UNCHANGED <<rec, wk>>
      BY Zenon, <2>5 DEF CleanupZone, CleanupContainer, Commit, RecoverSave,
         delete_zone, registry, store, history, NoNewZone
    <3>2. pc[t] \in Admitted \cup Settling
      BY Zenon, <2>5 DEF CleanupZone, CleanupContainer, Commit, RecoverSave,
         At, Admitted, Settling
    <3> QED BY Zenon, <2>1, <3>1, <3>2, ClaimsFollowSame
  <2>6. CASE DeleteResult(t)
    <3>1. NoNewZone /\ UNCHANGED <<rec, wk, pc>>
      BY Zenon, <2>6 DEF DeleteResult, registry, worker, NoNewZone
    <3> QED BY Zenon, <2>1, <3>1, ClaimsFollowSame
  <2>7. CASE StartContainer(t) \/ RecordRunning(t) \/ PollStopped(t) \/
             Timeout(t)
    <3>1. NoNewZone /\ UNCHANGED <<rec, wk>>
      BY Zenon, <2>7 DEF StartContainer, RecordRunning, PollStopped, Timeout,
         registry, store, history, NoNewZone
    <3>2. pc[t] \in Admitted
      BY Zenon, <2>7 DEF StartContainer, RecordRunning, PollStopped, Timeout,
         At, Admitted, Holding
    <3> QED BY Zenon, <2>1, <3>1, <3>2, ClaimsFollowSame
  <2>8. CASE ReadZone(t) \/ CreateContainer(t) \/ CreateFails(t) \/
             BindFails(t) \/ StartReplyLost(t) \/ StartFails(t)
    <3>1. NoNewZone /\ UNCHANGED rec
      BY Zenon, <2>8 DEF ReadZone, CreateContainer, CreateFails, BindFails,
         StartReplyLost, StartFails, registry, store, history, NoNewZone
    <3>2. pc[t] \in Admitted
      BY Zenon, <2>8 DEF ReadZone, CreateContainer, CreateFails, BindFails,
         StartReplyLost, StartFails, At, Admitted, Holding
    <3>3. \E x : \/ wk' = [wk EXCEPT ![t].at = x]
                 \/ wk' = [wk EXCEPT ![t].cont = x]
                 \/ wk' = [wk EXCEPT ![t].out = x]
      BY Zenon, <2>8 DEF ReadZone, CreateContainer, CreateFails, BindFails,
         StartReplyLost, StartFails, Fails
    <3> QED BY Zenon, <2>1, <3>1, <3>2, <3>3, ClaimsFollowSame, WorkerSets
  <2>9. CASE RecordRunningFails(t) \/ RecordExit(t) \/ RecordStopped(t) \/
             TimeoutStopFails(t)
    <3>1. NoNewZone /\ UNCHANGED rec
      BY Zenon, <2>9 DEF RecordRunningFails, RecordExit, RecordStopped,
         TimeoutStopFails, registry, store, history, NoNewZone
    <3>2. pc[t] \in Admitted
      BY Zenon, <2>9 DEF RecordRunningFails, RecordExit, RecordStopped,
         TimeoutStopFails, At, Admitted, Holding
    <3>3. \E x : wk' = [wk EXCEPT ![t].out = x]
      BY Zenon, <2>9 DEF RecordRunningFails, RecordExit, RecordStopped,
         TimeoutStopFails, Fails, Waited
    <3> QED BY Zenon, <2>1, <3>1, <3>2, <3>3, ClaimsFollowSame, WorkerSets
  <2>10. CASE Admit(t) \/ BindContainer(t)
    <3>1. NoNewZone /\ UNCHANGED wk
      BY Zenon, <2>10 DEF Admit, BindContainer, registry, history, NoNewZone
    <3>2. rec'[t].zone = wk[t].zone /\ rec'[t].owns = wk[t].owns
      <4>1. \E c : rec'[t] = [zone |-> wk[t].zone, cont |-> c,
                              owns |-> wk[t].owns]
        BY Zenon, <2>10 DEF Admit, BindContainer, put_recovery, TypeOK
      <4> QED BY <4>1
    <3> QED BY Zenon, <2>1, <3>1, <3>2
               DEF ClaimsFollow, Claims, Owns, ZonesExclusive
  <2>11. CASE RecoverCommitted(t) \/ RecoverStop(t)
    <3>1. NoNewZone /\ UNCHANGED rec /\ rec[t] # None /\ Adopt(t)
      BY Zenon, <2>11 DEF RecoverCommitted, RecoverStop, RecoverTurn,
         registry, store, history, NoNewZone
    <3>2. /\ wk'[t].zone = rec[t].zone /\ wk'[t].owns = rec[t].owns
          /\ wk'[t].kind = "temp"
      BY Zenon, <3>1, AdoptLocals
    <3> QED BY Zenon, <2>1, <3>1, <3>2 DEF ClaimsFollow, Claims, Owns
  <2>12. CASE Refuse(t) \/ RefuseLeaks(t)
    <3>1. /\ doomed' = doomed \cup Guarded(t)
          /\ UNCHANGED <<rec, named, minted>>
          /\ wk'[t] = IdleWorker /\ pc'[t] = "idle"
          /\ rec[t] = None
      BY Zenon, <2>12 DEF Refuse, RefuseLeaks, Done, Goto, At, registry, store,
         history, StoreInStep, TypeOK
    <3>2. \A u \in Tasks : ClaimsFollow(u)
      <4>1. Others(t)
        BY Zenon, <2>12 DEF Refuse, RefuseLeaks, delete_result, Done, Goto,
           store, Others, TypeOK
      <4> QED BY Zenon, <1>0, <3>1, <4>1, ClaimsFollowIdle, ClaimsFollowOthers
    <3>3. ASSUME NEW z \in Guarded(t)
          PROVE  /\ z \in minted /\ z # named
                 /\ \A u \in Tasks : ~Claims(u, z)'
      <4>1. pc[t] = "admit" /\ wk[t].owns /\ z = wk[t].zone
        BY Zenon, <3>3 DEF Guarded
      <4>2. z \in ZoneIds /\ z # None /\ Owns(t, z)
        BY Zenon, <4>1, NoneAssumption DEF LocalsSet, Owns
      <4>3. z \in minted /\ z # named /\ \A u \in Tasks : Claims(u, z) => u = t
        BY Zenon, <4>1, <4>2 DEF ZonesExclusive, TaskZones
      <4>4. ~Claims(t, z)'
        BY Zenon, <1>0, <3>1, <4>2 DEF Claims
      <4> QED BY Zenon, <3>2, <4>2, <4>3, <4>4 DEF ClaimsFollow
    <3>4. \A z \in doomed : z \in minted /\ z # named /\
                            \A u \in Tasks : ~Claims(u, z)'
      BY Zenon, <3>2 DEF ZonesExclusive, ClaimsFollow, TypeOK
    <3>5. \A z \in ZoneIds, u \in Tasks : Owns(u, z)' =>
            z # named /\ \A v \in Tasks : Claims(v, z)' => v = u
      BY Zenon, <3>2 DEF ZonesExclusive, ClaimsFollow
    <3>6. \A z \in doomed' : z \in minted' /\ z # named' /\
                             \A u \in Tasks : ~Claims(u, z)'
      BY Zenon, <3>1, <3>3, <3>4
    <3> QED BY Zenon, <3>1, <3>2, <3>5, <3>6 DEF ZonesExclusive, ClaimsFollow
  <2>13. CASE AllocateZone(t) \/ ResolveZone(t)
    <3>1. PICK y \in ZoneIds : wk' = [wk EXCEPT ![t].zone = y]
                               /\ \/ y \notin minted
                                  \/ y = named /\ wk[t].kind = "named"
      BY Zenon, <2>13 DEF AllocateZone, ResolveZone, TypeOK
    <3>2. /\ UNCHANGED <<rec, named, doomed>> /\ minted \subseteq minted'
          /\ pc'[t] = "admit" /\ rec[t] = None /\ Others(t)
      BY Zenon, <2>13 DEF AllocateZone, ResolveZone, Goto, At, registry, store,
         history, StoreInStep, Others, TypeOK
    <3>3. /\ wk'[t].zone = y /\ wk'[t].owns = wk[t].owns
          /\ wk'[t].kind = wk[t].kind
      BY <3>1 DEF TypeOK, Workers
    <3>4. \A u \in Tasks, z \in ZoneIds :
            Claims(u, z) => z \in minted
      BY Zenon, NoneAssumption DEF Claims, TaskZones
    <3>5. ASSUME NEW u \in Tasks, u # t
          PROVE  \A z : /\ Claims(u, z)' <=> Claims(u, z)
                        /\ Owns(u, z)' <=> Owns(u, z)
      BY Zenon, <3>2, <3>5 DEF Others, Claims, Owns
    <3>6. \A z : /\ Claims(t, z)' <=> z = y
                 /\ Owns(t, z)' <=> z = y /\ wk[t].owns
      BY Zenon, <3>2, <3>3 DEF Claims, Owns
    <3>7. \A u \in Tasks, z \in ZoneIds : Owns(u, z) => Claims(u, z)
      BY Zenon DEF Owns, Claims
    <3>8. /\ y \in minted => y = named /\ ~wk[t].owns
          /\ named \in ZoneIds => named \in minted
      BY Zenon, <3>1, NoneAssumption DEF ZonesExclusive, RegistryZones, Zones
    <3>9. ASSUME NEW z \in ZoneIds, NEW u \in Tasks, Owns(u, z)'
          PROVE  z # named' /\ \A v \in Tasks : Claims(v, z)' => v = u
      <4>1. CASE u = t
        BY Zenon, <3>1, <3>2, <3>4, <3>5, <3>6, <3>8, <3>9, <4>1
      <4>2. CASE u # t
        <5>1. Owns(u, z) /\ z \in minted /\ z # named
          BY Zenon, <3>4, <3>5, <3>7, <3>9, <4>2 DEF ZonesExclusive
        <5>2. z # y
          BY Zenon, <3>1, <5>1
        <5> QED BY Zenon, <3>2, <3>5, <3>6, <5>1, <5>2 DEF ZonesExclusive
      <4> QED BY Zenon, <4>1, <4>2
    <3>10. ASSUME NEW z \in doomed'
           PROVE  z \in minted' /\ z # named' /\ \A u \in Tasks : ~Claims(u, z)'
      <4>1. z \in doomed /\ z \in minted /\ z # named
        BY Zenon, <3>2, <3>10 DEF ZonesExclusive
      <4>2. z # y
        BY Zenon, <3>1, <4>1
      <4> QED BY Zenon, <3>2, <3>5, <3>6, <4>1, <4>2 DEF ZonesExclusive
    <3>11. ASSUME NEW u \in Tasks
           PROVE  /\ wk'[u].kind = "named" => ~wk'[u].owns
                  /\ pc'[u] \in Admitted \cup Settling =>
                       rec'[u].owns = wk'[u].owns
      BY Zenon, <1>0, <3>2, <3>3 DEF ZonesExclusive, Others
    <3> QED BY Zenon, <3>9, <3>10, <3>11 DEF ZonesExclusive
  <2> QED BY Zenon, <1>1, <2>2, <2>3, <2>4, <2>5, <2>6, <2>7, <2>8, <2>9,
         <2>10, <2>11, <2>12, <2>13 DEF WorkerStep, CleanupStep, RecoveryStep
<1>2. CASE \E z \in ZoneIds :
             \/ GuardedZoneCleanup(z) \/ GuardedZoneCleanupFails(z)
             \/ OperatorDeletesZone(z) \/ OperatorDeletesZonePartly(z)
  <2>1. NoNewZone /\ UNCHANGED <<rec, wk, pc>>
    BY Zenon, <1>2 DEF GuardedZoneCleanup, GuardedZoneCleanupFails,
       OperatorDeletesZone, OperatorDeletesZonePartly, delete_zone, registry,
       store, worker, history, NoNewZone
  <2> QED BY Zenon, <2>1, ClaimsFollowSame, ZonesExclusiveStays
<1>3. CASE \/ \E c \in Containers : Exit(c) \/ OperatorDeletesContainer(c)
           \/ Restart \/ RestartZoneFails \/ Serve \/ UNCHANGED vars
  <2>1. NoNewZone /\ UNCHANGED <<rec, wk, pc>>
    BY Zenon, <1>3 DEF Exit, OperatorDeletesContainer, Restart,
       RestartZoneFails, Reconcile, Serve, vars, registry, store, worker,
       history, NoNewZone
  <2> QED BY Zenon, <2>1, ClaimsFollowSame, ZonesExclusiveStays
<1>4. CASE Crash
  <2>1. Ends /\ NoNewZone
    BY Zenon, <1>4 DEF Crash, Ends, Forget, history, NoNewZone
  <2> QED BY Zenon, <2>1, ClaimsFollowEnds, ZonesExclusiveStays
<1>5. CASE OperatorCreatesZone
  <2>1. /\ named' \notin minted /\ minted \subseteq minted'
        /\ UNCHANGED <<rec, wk, pc, doomed>>
    BY Zenon, <1>5 DEF OperatorCreatesZone, store, worker
  <2>2. \A u \in Tasks, z \in ZoneIds :
          (Claims(u, z)' <=> Claims(u, z)) /\ (Owns(u, z)' <=> Owns(u, z))
    BY Zenon, <2>1 DEF Claims, Owns
  <2>3. \A u \in Tasks, z \in ZoneIds : Owns(u, z) => z \in minted
    BY Zenon, NoneAssumption DEF Owns, TaskZones
  <2>4. \A z \in ZoneIds, u \in Tasks : Owns(u, z)' =>
          z # named' /\ \A v \in Tasks : Claims(v, z)' => v = u
    BY ZenonT(30), <2>1, <2>2, <2>3 DEF ZonesExclusive
  <2>5. \A z \in doomed' : z \in minted' /\ z # named' /\
                           \A u \in Tasks : ~Claims(u, z)'
    BY Zenon, <2>1, <2>2 DEF ZonesExclusive, TypeOK
  <2> QED BY Zenon, <2>1, <2>4, <2>5 DEF ZonesExclusive
<1> QED BY Zenon, <1>1, <1>2, <1>3, <1>4, <1>5 DEF Next

-----------------------------------------------------------------------------
(* EvidenceKept: who holds a zone or a container.                          *)

\* What a step leaves of a task's hold on its zone and container.
HoldFollows(u) ==
    /\ \A c \in Containers : Bound(u, c)' => Bound(u, c)
    /\ pc'[u] = "admit" => pc[u] = "admit" /\ wk'[u].zone = wk[u].zone
    /\ Open(u)' => /\ Open(u) /\ rec'[u] = rec[u]
                   /\ pc'[u] = "bind" =>
                        pc[u] = "bind" /\ wk'[u].cont = wk[u].cont

\* The zone a task is about to be admitted to, or was.
Needs(u, z) ==
    \/ pc[u] = "admit" /\ wk[u].zone = z
    \/ Open(u) /\ rec[u].zone = z

\* The step removes no zone and no container that a task needs, unless it is
\* an operator's.
EvidenceStays ==
    /\ opGone \subseteq opGone'
    /\ \A u \in Tasks, z \in Zones \ opGone' : Needs(u, z) => z \in Zones'
    /\ \A u \in Tasks, z \in Zones \ opGone', c \in Containers \ opGone' :
         Open(u) /\ rec[u].zone = z /\ Bound(u, c) /\ Intact(c, z) =>
           Intact(c, z)'

\* A task that nobody deprives keeps what it has.
LEMMA KeptStays ==
  ASSUME ShimFrame, EvidenceStays, NEW u \in Tasks, Kept(u), HoldFollows(u)
  PROVE  Kept(u)'
<1>1. ASSUME NEW c \in Containers, Bound(u, c)'
      PROVE  shim'[c] # None /\ shim'[c].task = u
  BY Zenon, <1>1 DEF Kept, HoldFollows, ShimFrame
<1>2. ASSUME pc'[u] = "admit", wk'[u].zone \notin opGone'
      PROVE  wk'[u].zone \in Zones'
  BY Zenon, <1>2 DEF Kept, HoldFollows, EvidenceStays, Needs
<1>3. ASSUME Open(u)', rec'[u].zone \notin opGone'
      PROVE  /\ rec'[u].zone \in Zones'
             /\ \A c \in Containers \ opGone' :
                  Created(u, c)' => Intact(c, rec[u].zone)'
  <2>1. /\ Open(u) /\ rec'[u] = rec[u] /\ rec[u].zone \notin opGone
        /\ rec[u].zone \in Zones
    BY Zenon, <1>3 DEF HoldFollows, EvidenceStays, Kept
  <2>2. rec'[u].zone \in Zones'
    BY Zenon, <1>3, <2>1 DEF EvidenceStays, Needs
  <2>3. ASSUME NEW c \in Containers \ opGone', Created(u, c)'
        PROVE  Intact(c, rec[u].zone)'
    <3>1. Created(u, c) /\ Bound(u, c) /\ c \notin opGone
      BY Zenon, <1>3, <2>1, <2>3
         DEF HoldFollows, Created, Bound, Open, EvidenceStays
    <3>2. Intact(c, rec[u].zone)
      BY Zenon, <2>1, <3>1 DEF Kept
    <3>3. \A z \in Zones \ opGone' : rec[u].zone = z => Intact(c, z)'
      BY Zenon, <2>1, <2>3, <3>1, <3>2 DEF EvidenceStays
    <3> QED BY Zenon, <1>3, <2>1, <3>3 DEF Intact
  <2> QED BY Zenon, <2>2, <2>3
<1> QED BY Zenon, <1>1, <1>2, <1>3 DEF Kept

\* A worker that keeps its container binds no other.
LEMMA HoldFollowsSame ==
  ASSUME NEW u \in Tasks, wk'[u].zone = wk[u].zone, wk'[u].cont = wk[u].cont,
         rec'[u] = rec[u], result'[u] = Empty => result[u] = Empty,
         pc'[u] \in {"admit", "bind"} => pc'[u] = pc[u]
  PROVE  HoldFollows(u)
  BY Zenon DEF HoldFollows, Bound, Open

\* A worker that is gone binds nothing beyond its record.
LEMMA HoldFollowsIdle ==
  ASSUME NEW u \in Tasks, wk'[u].cont = None, rec'[u] \in {rec[u], None},
         rec'[u] # None /\ result'[u] = Empty => result[u] = Empty,
         pc'[u] \notin {"admit", "bind"}
  PROVE  HoldFollows(u)
  BY Zenon, NoneAssumption DEF HoldFollows, Bound, Open

\* Only a task's own handler touches its hold.
LEMMA HoldFollowsOthers ==
  ASSUME NEW t \in Tasks, Others(t)
  PROVE  \A u \in Tasks : u # t => HoldFollows(u)
  BY Zenon, HoldFollowsSame DEF Others

\* The end of the daemon leaves no worker.
LEMMA HoldFollowsEnds ==
  ASSUME Ends
  PROVE  \A u \in Tasks : HoldFollows(u)
<1> SUFFICES ASSUME NEW u \in Tasks PROVE HoldFollows(u)
    OBVIOUS
<1>1. /\ wk'[u] = IdleWorker /\ pc'[u] = "idle"
      /\ rec' = rec /\ result' = result
  BY Zenon DEF Ends, Forget, store
<1>2. IdleWorker.cont = None
  BY Zenon DEF IdleWorker
<1> QED BY Zenon, <1>1, <1>2, HoldFollowsIdle

\* The steps that take hold of a zone or a container.
TakesHold(t) ==
    \/ AllocateZone(t) \/ ResolveZone(t) \/ Admit(t)
    \/ CreateContainer(t) \/ BindContainer(t)

\* Every other handler step only lets go.
LEMMA HoldStep ==
  ASSUME TaskInv, NEW t \in Tasks, ~TakesHold(t),
         WorkerStep(t) \/ CleanupStep(t) \/ RecoveryStep(t) \/ DeleteResult(t)
  PROVE  \A u \in Tasks : HoldFollows(u)
<1> USE DEF TaskInv
<1>0. Others(t) \/ Ends
  BY Zenon, OthersKept
<1>i. IdleWorker.cont = None
  BY Zenon DEF IdleWorker
<1>1. CASE Others(t) => HoldFollows(t)
  BY Zenon, <1>0, <1>1, HoldFollowsOthers, HoldFollowsEnds
<1>2. CASE Reserve(t)
  <2>1. wk'[t].cont = None
    <3>1. PICK k \in {"temp", "keep", "named"} :
            wk'[t] = [IdleWorker EXCEPT !.kind = k, !.owns = (k = "temp")]
      BY Zenon, <1>2 DEF Reserve, TypeOK
    <3> QED BY <3>1 DEF IdleWorker
  <2>2. rec' = rec /\ rec[t] = None /\ pc'[t] = "zone"
    BY Zenon, <1>2 DEF Reserve, reserve_result, Goto, StoreInStep, TypeOK
  <2> QED BY Zenon, <1>1, <2>1, <2>2, HoldFollowsIdle
<1>3. CASE Refuse(t) \/ RefuseLeaks(t) \/ CommitFails(t) \/ FinishRecovery(t)
           \/ CleanupFails(t) \/ CleanupZonePartly(t)
  <2>1. rec'[t] \in {rec[t], None} /\ (rec'[t] # None => result' = result)
    BY Zenon, <1>3 DEF Refuse, RefuseLeaks, CommitFails, FinishRecovery,
       finish_recovery, CleanupFails, CleanupZonePartly, At, StoreInStep,
       store, TypeOK
  <2>2. Others(t) => wk'[t] = IdleWorker /\ pc'[t] = "idle"
    BY Zenon, <1>3 DEF Refuse, RefuseLeaks, CommitFails, FinishRecovery,
       CleanupFails, CleanupZonePartly, Forget, Done, Goto, TypeOK
  <2> QED BY Zenon, <1>1, <1>i, <2>1, <2>2, HoldFollowsIdle
<1>4. CASE ReadZone(t) \/ CreateFails(t) \/ BindFails(t) \/
           StartReplyLost(t) \/ StartFails(t) \/ RecordRunningFails(t)
  <2>1. \E x : \/ wk' = [wk EXCEPT ![t].at = x]
               \/ wk' = [wk EXCEPT ![t].out = x]
    BY Zenon, <1>4 DEF ReadZone, CreateFails, BindFails, StartReplyLost,
       StartFails, RecordRunningFails, Fails
  <2>2. pc'[t] \in {"backend", "post"} /\ UNCHANGED <<rec, result>>
    BY Zenon, <1>4 DEF ReadZone, CreateFails, BindFails, StartReplyLost,
       StartFails, RecordRunningFails, Fails, Goto, store, TypeOK
  <2>3. wk'[t].zone = wk[t].zone /\ wk'[t].cont = wk[t].cont
    BY <2>1 DEF TypeOK, Workers
  <2> QED BY Zenon, <1>1, <2>2, <2>3, HoldFollowsSame
<1>5. CASE RecordExit(t) \/ RecordStopped(t) \/ TimeoutStopFails(t)
  <2>1. \E x : wk' = [wk EXCEPT ![t].out = x]
    BY Zenon, <1>5 DEF RecordExit, RecordStopped, TimeoutStopFails, Waited
  <2>2. pc'[t] = "post" /\ UNCHANGED <<rec, result>>
    BY Zenon, <1>5 DEF RecordExit, RecordStopped, TimeoutStopFails, Waited,
       Goto, store, TypeOK
  <2>3. wk'[t].zone = wk[t].zone /\ wk'[t].cont = wk[t].cont
    BY <2>1 DEF TypeOK, Workers
  <2> QED BY Zenon, <1>1, <2>2, <2>3, HoldFollowsSame
<1>6. CASE StartContainer(t) \/ RecordRunning(t) \/ PollStopped(t) \/
           Timeout(t) \/ CleanupZone(t) \/ CleanupContainer(t)
  <2>1. UNCHANGED <<rec, result, wk>> /\ pc'[t] \notin {"admit", "bind"}
    BY Zenon, <1>6 DEF StartContainer, RecordRunning, PollStopped, Timeout,
       CleanupZone, CleanupContainer, Goto, store, TypeOK
  <2> QED BY Zenon, <1>1, <2>1, HoldFollowsSame
<1>7. CASE Commit(t) \/ RecoverSave(t) \/ DeleteResult(t)
  <2>1. /\ UNCHANGED <<rec, wk>>
        /\ \/ pc'[t] = "cleanup" /\ result[t] = Empty
           \/ pc' = pc /\ result'[t] = Absent
    BY Zenon, <1>7 DEF Commit, RecoverSave, save_result, DeleteResult,
       delete_result, Goto, worker, TypeOK
  <2> QED BY Zenon, <1>1, <2>1, SealedDistinct, HoldFollowsSame
<1>8. CASE RecoverCommitted(t) \/ RecoverStop(t)
  <2>1. /\ UNCHANGED store /\ rec[t] # None /\ Adopt(t)
        /\ pc'[t] \in {"rsave", "cleanup"}
    BY Zenon, <1>8 DEF RecoverCommitted, RecoverStop, RecoverTurn, Goto, TypeOK
  <2>2. wk'[t].cont = rec[t].cont
    BY Zenon, <2>1, AdoptLocals
  <2> QED BY Zenon, <1>1, <2>1, <2>2 DEF HoldFollows, Bound, Open, store
<1>9. CASE RecoverFails(t)
  BY Zenon, <1>9, HoldFollowsEnds DEF RecoverFails, Ends
<1> QED BY Zenon, <1>2, <1>3, <1>4, <1>5, <1>6, <1>7, <1>8, <1>9
           DEF WorkerStep, CleanupStep, RecoveryStep, TakesHold

-----------------------------------------------------------------------------
(* EvidenceKept: what a step may remove.                                   *)

\* The step removes no zone, no row and no container.
Spares ==
    /\ opGone \subseteq opGone' /\ Zones \subseteq Zones'
    /\ \A c \in Containers :
         /\ row[c] # None => row'[c] # None /\ row'[c].zone = row[c].zone
         /\ shim[c] # None /\ shim'[c].st = "gone" => shim[c].st = "gone"

\* A step that removes nothing deprives no task.
LEMMA SparesStays ==
  ASSUME RowsInStep, ShimFrame, Spares
  PROVE  EvidenceStays
<1>1. ASSUME NEW c \in Containers, NEW z, Intact(c, z)
      PROVE  Intact(c, z)'
  BY Zenon, <1>1 DEF Spares, Intact, RowsInStep, ShimFrame
<1> QED BY Zenon, <1>1 DEF Spares, EvidenceStays

\* A zone that no task needs, or that an operator deletes, may go.
LEMMA DrainedStays ==
  ASSUME ShimFrame, RowsInStep, NEW y, shim' = Drained(y),
         \A c \in Containers : row'[c] # row[c] => c \in RowsOf(y),
         opGone \subseteq opGone', Zones \ {y} \subseteq Zones',
         y \in opGone' \/ \A u \in Tasks : ~Needs(u, y)
  PROVE  EvidenceStays
<1>1. ASSUME NEW c \in Containers, NEW z, z # y, Intact(c, z)
      PROVE  Intact(c, z)'
  <2>1. row'[c] = row[c]
    BY Zenon, <1>1 DEF Intact, RowsOf
  <2>2. shim'[c] = shim[c]
    BY Zenon, <1>1 DEF Intact, Drained
  <2> QED BY Zenon, <1>1, <2>1, <2>2 DEF Intact
<1>2. ASSUME NEW u \in Tasks, NEW z \in Zones \ opGone', Needs(u, z)
      PROVE  z # y
  BY Zenon, <1>2
<1>3. ASSUME NEW u \in Tasks, NEW z \in Zones \ opGone', Needs(u, z)
      PROVE  z \in Zones'
  BY Zenon, <1>2, <1>3
<1>4. ASSUME NEW u \in Tasks, NEW z \in Zones \ opGone', NEW c \in Containers,
             Open(u), rec[u].zone = z, Intact(c, z)
      PROVE  Intact(c, z)'
  BY Zenon, <1>1, <1>2, <1>4 DEF Needs
<1> QED BY Zenon, <1>3, <1>4 DEF EvidenceStays

\* A container that no open task has, or that an operator deletes, may go.
LEMMA DeletedStays ==
  ASSUME TypeOK, ShimFrame, NEW c \in Containers, NEW st,
         delete_container(c, st),
         opGone \subseteq opGone', Zones \subseteq Zones',
         c \in opGone' \/ \A u \in Tasks : Open(u) => ~Bound(u, c)
  PROVE  EvidenceStays
<1>1. ASSUME NEW d \in Containers, NEW z, d # c, Intact(d, z)
      PROVE  Intact(d, z)'
  <2>1. row'[d] = row[d] /\ shim'[d] = shim[d]
    BY Zenon, <1>1 DEF delete_container, SetInst, TypeOK
  <2> QED BY Zenon, <1>1, <2>1 DEF Intact
<1> QED BY Zenon, <1>1 DEF EvidenceStays

\* A worker that puts back its container's row leaves it where it was.
LEMMA PutStays ==
  ASSUME TaskInv, EvidenceKept, NEW t \in Tasks, pc[t] \in Holding,
         NEW st, st \in {"Running", "Stopped"},
         put_container(wk[t].cont, t, wk[t].at, st),
         UNCHANGED <<shim, temps, named, opGone>>
  PROVE  EvidenceStays
<1> DEFINE c == wk[t].cont
<1>1. /\ c \in Containers /\ wk[t].at \in ZoneIds /\ shim[c].task = t
      /\ shim[c].admitted = wk[t].zone /\ rec[t].zone = wk[t].zone
      /\ Resident(c) => wk[t].at = wk[t].zone
  BY Zenon DEF TaskInv, LocalsSet, RecordInStep, ZoneCopies, Admitted
<1>2. /\ row'[c] = [task |-> t, zone |-> wk[t].at, st |-> st]
      /\ \A d \in Containers : d # c => row'[d] = row[d]
  BY Zenon, <1>1 DEF put_container, TaskInv, TypeOK
<1>3. row'[c] # None /\ row'[c].zone = wk[t].at
  <2>1. wk[t].at \in ZoneIds /\ st \in {"Created", "Running", "Stopped"}
    BY Zenon, <1>1
  <2>2. [task |-> t, zone |-> wk[t].at, st |-> st] \in Rows
    BY Zenon, <2>1 DEF Rows
  <2> QED BY <1>2, <2>2, NoneAssumption
<1> HIDE DEF c
<1>4. ASSUME NEW u \in Tasks, Open(u), Bound(u, c), Intact(c, rec[u].zone)
      PROVE  wk[t].at = rec[u].zone
  <2>1. u = t
    BY Zenon, <1>1, <1>4 DEF EvidenceKept, Kept
  <2> QED BY Zenon, <1>1, <1>4, <2>1 DEF Intact, Resident
<1>5. ASSUME NEW u \in Tasks, NEW z, NEW d \in Containers,
             Open(u), rec[u].zone = z, Bound(u, d), Intact(d, z)
      PROVE  Intact(d, z)'
  <2>1. CASE d = c
    BY Zenon, <1>3, <1>4, <1>5, <2>1 DEF Intact
  <2>2. CASE d # c
    BY Zenon, <1>2, <1>5, <2>2 DEF Intact
  <2> QED BY Zenon, <2>1, <2>2
<1> QED BY Zenon, <1>5 DEF EvidenceStays, Zones

\* A shim that changes a container's state without deleting it spares it.
LEMMA SetInstSpares ==
  ASSUME TypeOK, NEW c \in Containers, NEW st, st # "gone",
         shim' = SetInst(c, st),
         NEW d \in Containers, shim[d] # None, shim'[d].st = "gone"
  PROVE  shim[d].st = "gone"
<1>1. CASE d # c
  BY Zenon, <1>1 DEF SetInst, TypeOK
<1>2. CASE d = c
  <2>1. shim[c] \in Insts /\ shim'[c] = [shim[c] EXCEPT !.st = st]
    BY Zenon, <1>2 DEF SetInst, TypeOK
  <2>2. shim'[c].st = st
    BY Zenon, <2>1 DEF Insts
  <2> QED BY Zenon, <1>2, <2>2
<1> QED BY Zenon, <1>1, <1>2

\* Whatever a step removes, no task needs it or an operator asked for it.
LEMMA EvidenceStaysStep ==
  TaskInv /\ EvidenceInv /\ ShimFrame /\ [Next]_vars => EvidenceStays
<1> SUFFICES ASSUME TaskInv, EvidenceInv, ShimFrame, [Next]_vars
             PROVE  EvidenceStays
    OBVIOUS
<1> USE DEF TaskInv
<1>0. CASE /\ UNCHANGED <<row, shim>>
           /\ opGone \subseteq opGone' /\ Zones \subseteq Zones'
  BY Zenon, <1>0, SparesStays DEF Spares
<1>1. ASSUME NEW t \in Tasks,
             WorkerStep(t) \/ CleanupStep(t) \/ RecoveryStep(t)
             \/ DeleteResult(t)
      PROVE  EvidenceStays
  <2>1. CASE Reserve(t) \/ AllocateZone(t) \/ ResolveZone(t) \/ Admit(t) \/
             Refuse(t) \/ RefuseLeaks(t) \/ ReadZone(t) \/ BindContainer(t)
    BY Zenon, <1>0, <2>1 DEF Reserve, AllocateZone, ResolveZone, Admit, Refuse,
       RefuseLeaks, ReadZone, BindContainer, registry, history, Zones
  <2>2. CASE BindFails(t) \/ StartFails(t) \/ RecordRunningFails(t) \/
             PollStopped(t) \/ TimeoutStopFails(t) \/ Commit(t) \/
             CommitFails(t)
    BY Zenon, <1>0, <2>2 DEF BindFails, StartFails, RecordRunningFails,
       PollStopped, TimeoutStopFails, Commit, CommitFails, registry, history,
       Zones
  <2>3. CASE FinishRecovery(t) \/ CleanupFails(t) \/ RecoverCommitted(t) \/
             RecoverSave(t) \/ RecoverFails(t) \/ DeleteResult(t)
    BY Zenon, <1>0, <2>3 DEF FinishRecovery, CleanupFails, RecoverCommitted,
       RecoverSave, RecoverFails, DeleteResult, registry, history, Zones
  <2>4. CASE CreateContainer(t) \/ CreateFails(t)
    <3>1. UNCHANGED <<temps, named, opGone>>
      BY Zenon, <2>4 DEF CreateContainer, CreateFails, registry, history
    <3>2. \/ UNCHANGED <<row, shim>>
          \/ \E c \in Containers :
               /\ shim[c] = None
               /\ \A d \in Containers :
                    d # c => row'[d] = row[d] /\ shim'[d] = shim[d]
      <4>1. CASE CreateContainer(t)
        BY Zenon, <4>1 DEF CreateContainer, put_container, TypeOK
      <4>2. CASE CreateFails(t)
        BY Zenon, <4>2 DEF CreateFails, registry, TypeOK
      <4> QED BY Zenon, <2>4, <4>1, <4>2
    <3>3. ASSUME NEW d \in Containers
          PROVE  /\ row[d] # None => row'[d] = row[d]
                 /\ shim[d] # None => shim'[d] = shim[d]
      BY Zenon, <3>2 DEF RowsInStep
    <3> QED BY Zenon, <3>1, <3>3, SparesStays DEF Spares, Zones
  <2>5. CASE StartContainer(t) \/ StartReplyLost(t) \/ Timeout(t)
    <3>1. UNCHANGED <<row, temps, named, opGone>>
      BY Zenon, <2>5 DEF StartContainer, StartReplyLost, Timeout, registry,
         history
    <3>2. /\ wk[t].cont \in Containers
          /\ \E st \in {"running", "stopped"} : shim' = SetInst(wk[t].cont, st)
      BY Zenon, <2>5 DEF StartContainer, StartReplyLost, Timeout, At,
         LocalsSet, Holding
    <3> QED BY Zenon, <3>1, <3>2, SetInstSpares, SparesStays DEF Spares, Zones
  <2>6. CASE RecordRunning(t) \/ RecordExit(t) \/ RecordStopped(t)
    <3>1. /\ UNCHANGED <<shim, temps, named, opGone>> /\ pc[t] \in Holding
          /\ \E st \in {"Running", "Stopped"} :
               put_container(wk[t].cont, t, wk[t].at, st)
      BY Zenon, <2>6 DEF RecordRunning, RecordExit, RecordStopped, At,
         history, Holding
    <3> QED BY Zenon, <3>1, PutStays DEF EvidenceInv
  <2>7. CASE CleanupZone(t) \/ CleanupZonePartly(t)
    <3>1. /\ wk[t].owns /\ wk[t].zone \in ZoneIds /\ result[t] \in Sealed
          /\ pc[t] = "cleanup"
      BY Zenon, <2>7 DEF CleanupZone, CleanupZonePartly, LocalsSet,
         StoreInStep, Settling
    <3>2. ASSUME NEW u \in Tasks
          PROVE  ~Needs(u, wk[t].zone)
      <4>1. Needs(u, wk[t].zone) => u = t
        <5>1. Needs(u, wk[t].zone) => Claims(u, wk[t].zone)
          BY Zenon DEF Needs, Open, Claims
        <5>2. Owns(t, wk[t].zone)
          BY Zenon, <3>1 DEF Owns
        <5> QED BY Zenon, <3>1, <5>1, <5>2 DEF EvidenceInv, ZonesExclusive
      <4> QED BY Zenon, <3>1, <4>1, SealedDistinct DEF Needs, Open
    <3>3. UNCHANGED opGone /\ \/ UNCHANGED <<row, shim, temps, named>>
                              \/ delete_zone(wk[t].zone)
                              \/ /\ PartlyDeleted(wk[t].zone)
                                 /\ UNCHANGED <<temps, named>>
      BY Zenon, <2>7 DEF CleanupZone, CleanupZonePartly, registry, history
    <3>4. CASE UNCHANGED <<row, shim, temps, named>>
      BY Zenon, <1>0, <3>3, <3>4 DEF Zones
    <3>5. CASE delete_zone(wk[t].zone) \/
               (PartlyDeleted(wk[t].zone) /\ UNCHANGED <<temps, named>>)
      <4>1. /\ shim' = Drained(wk[t].zone)
            /\ \A c \in Containers :
                 row'[c] # row[c] => c \in RowsOf(wk[t].zone)
            /\ Zones \ {wk[t].zone} \subseteq Zones'
        BY Zenon, <3>5 DEF delete_zone, PartlyDeleted, Zones
      <4> QED BY Zenon, <3>2, <3>3, <4>1, DrainedStays
    <3> QED BY Zenon, <3>3, <3>4, <3>5
  <2>8. CASE CleanupContainer(t)
    <3>1. UNCHANGED <<temps, named, opGone>> /\ result[t] \in Sealed
      BY Zenon, <2>8 DEF CleanupContainer, history, StoreInStep, Settling
    <3>2. CASE UNCHANGED <<row, shim>>
      BY Zenon, <1>0, <3>1, <3>2 DEF Zones
    <3>3. ASSUME NEW c \in task_containers(t, wk[t]),
                 delete_container(c, Refreshed(c))
          PROVE  EvidenceStays
      <4>1. c \in Containers /\ shim[c].task = t
        BY Zenon, <3>3, NoneAssumption
           DEF task_containers, RowsInStep, EvidenceInv, EvidenceKept, Kept,
               Bound
      <4>2. ASSUME NEW u \in Tasks, Open(u), Bound(u, c)
            PROVE  FALSE
        BY Zenon, <3>1, <4>1, <4>2, SealedDistinct
           DEF EvidenceInv, EvidenceKept, Kept, Open
      <4> QED BY Zenon, <3>1, <3>3, <4>1, <4>2, DeletedStays DEF Zones
    <3> QED BY Zenon, <2>8, <3>2, <3>3 DEF CleanupContainer
  <2>9. CASE RecoverStop(t)
    <3>1. UNCHANGED <<temps, named, opGone>>
      BY Zenon, <2>9 DEF RecoverStop, history
    <3>2. CASE UNCHANGED <<row, shim>>
      BY Zenon, <1>0, <3>1, <3>2 DEF Zones
    <3>3. ASSUME NEW c \in Containers, task_containers(t, rec[t]) = {c},
                 shim' = SetInst(c, "stopped"),
                 row' = [row EXCEPT ![c].st = "Stopped"]
          PROVE  EvidenceStays
      <4>1. row[c] # None /\ row[c] \in Rows
        BY Zenon, <3>3 DEF task_containers, TypeOK
      <4>2. row'[c].zone = row[c].zone /\ row'[c] \in Rows
        BY Zenon, <3>3, <4>1 DEF Rows, TypeOK
      <4>3. ASSUME NEW d \in Containers, row[d] # None
            PROVE  row'[d] # None /\ row'[d].zone = row[d].zone
        BY Zenon, <3>3, <4>2, <4>3, NoneAssumption DEF TypeOK
      <4> QED BY Zenon, <3>1, <3>3, <4>3, SetInstSpares, SparesStays
                 DEF Spares, Zones
    <3> QED BY Zenon, <2>9, <3>2, <3>3 DEF RecoverStop
  <2> QED BY Zenon, <1>1, <2>1, <2>2, <2>3, <2>4, <2>5, <2>6, <2>7, <2>8, <2>9
             DEF WorkerStep, CleanupStep, RecoveryStep
<1>2. ASSUME NEW z \in ZoneIds,
             \/ GuardedZoneCleanup(z) \/ GuardedZoneCleanupFails(z)
             \/ OperatorDeletesZone(z) \/ OperatorDeletesZonePartly(z)
      PROVE  EvidenceStays
  <2>1. opGone \subseteq opGone'
    BY Zenon, <1>2 DEF GuardedZoneCleanup, GuardedZoneCleanupFails,
       OperatorDeletesZone, OperatorDeletesZonePartly, history
  <2>2. CASE UNCHANGED <<row, shim, temps, named>>
    BY Zenon, <1>0, <2>1, <2>2 DEF Zones
  <2>3. CASE delete_zone(z) \/ (PartlyDeleted(z) /\ UNCHANGED <<temps, named>>)
    <3>1. /\ shim' = Drained(z)
          /\ \A c \in Containers : row'[c] # row[c] => c \in RowsOf(z)
          /\ Zones \ {z} \subseteq Zones'
      BY Zenon, <2>3 DEF delete_zone, PartlyDeleted, Zones
    <3>2. z \in opGone' \/ z \in doomed
      BY Zenon, <1>2 DEF GuardedZoneCleanup, GuardedZoneCleanupFails,
         OperatorDeletesZone, OperatorDeletesZonePartly
    <3>3. z \in doomed => \A u \in Tasks : ~Needs(u, z)
      BY Zenon DEF EvidenceInv, ZonesExclusive, Claims, Needs, Open
    <3> QED BY Zenon, <2>1, <3>1, <3>2, <3>3, DrainedStays
  <2> QED BY Zenon, <1>2, <2>2, <2>3 DEF GuardedZoneCleanup,
             GuardedZoneCleanupFails, OperatorDeletesZone,
             OperatorDeletesZonePartly, registry
<1>3. ASSUME NEW c \in Containers, Exit(c) \/ OperatorDeletesContainer(c)
      PROVE  EvidenceStays
  <2>1. CASE Exit(c)
    BY Zenon, <2>1, SetInstSpares, SparesStays
       DEF Exit, registry, history, Spares, Zones
  <2>2. CASE OperatorDeletesContainer(c)
    BY Zenon, <2>2, DeletedStays DEF OperatorDeletesContainer, Zones
  <2> QED BY Zenon, <1>3, <2>1, <2>2
<1>4. CASE OperatorCreatesZone \/ Crash \/ Restart \/ RestartZoneFails \/
           Serve \/ UNCHANGED vars
  BY Zenon, <1>0, <1>4 DEF OperatorCreatesZone, Crash, Restart,
     RestartZoneFails, Reconcile, Serve, vars, registry, history, Zones
<1> QED BY Zenon, <1>1, <1>2, <1>3, <1>4 DEF Next

\* Taking hold of a zone or a container leaves it there.
LEMMA HoldTaken ==
  ASSUME TaskInv, EvidenceInv, ShimFrame, NEW t \in Tasks, TakesHold(t)
  PROVE  Kept(t)'
<1> USE DEF TaskInv
<1>0. Kept(t)
  BY Zenon DEF EvidenceInv, EvidenceKept
<1>1. CASE AllocateZone(t) \/ ResolveZone(t)
  <2>1. PICK z \in ZoneIds : wk' = [wk EXCEPT ![t].zone = z] /\ z \in Zones'
    BY Zenon, <1>1, NoneAssumption
       DEF AllocateZone, ResolveZone, registry, Zones, TypeOK
  <2>2. wk'[t].zone = z /\ wk'[t].cont = wk[t].cont
    BY <2>1 DEF TypeOK, Workers
  <2>3. UNCHANGED rec /\ rec[t] = None
    BY Zenon, <1>1 DEF AllocateZone, ResolveZone, At, store, StoreInStep
  <2>4. \A c \in Containers : Bound(t, c)' => Bound(t, c)
    BY Zenon, <2>2, <2>3 DEF Bound
  <2> QED BY Zenon, <1>0, <2>1, <2>2, <2>3, <2>4 DEF Kept, Open, ShimFrame
<1>2. CASE Admit(t)
  <2>1. /\ rec'[t] = [zone |-> wk[t].zone, cont |-> None, owns |-> wk[t].owns]
        /\ UNCHANGED <<wk, temps, named, opGone>>
        /\ pc[t] = "admit" /\ pc'[t] = "create"
    BY Zenon, <1>2 DEF Admit, At, put_recovery, Goto, registry, history, TypeOK
  <2>2. rec'[t].zone = wk[t].zone /\ rec'[t].cont = None
    BY <2>1
  <2>3. \A c \in Containers : (Bound(t, c)' => Bound(t, c)) /\ ~Created(t, c)'
    BY Zenon, <2>1, <2>2, NoneAssumption DEF Bound, Created
  <2>4. wk[t].zone \notin opGone => rec'[t].zone \in Zones'
    BY Zenon, <1>0, <2>1, <2>2 DEF Kept, Zones
  <2> QED BY Zenon, <1>0, <2>1, <2>2, <2>3, <2>4 DEF Kept, ShimFrame
<1>3. CASE BindContainer(t)
  <2>1. /\ rec'[t] = [zone |-> wk[t].zone, cont |-> wk[t].cont,
                      owns |-> wk[t].owns]
        /\ UNCHANGED <<wk, temps, named, row, shim, opGone>>
        /\ pc[t] = "bind" /\ pc'[t] = "start"
    BY Zenon, <1>3
       DEF BindContainer, At, put_recovery, Goto, registry, history, TypeOK
  <2>2. rec'[t].zone = wk[t].zone /\ rec'[t].cont = wk[t].cont
    BY <2>1
  <2>3. Open(t) /\ rec[t].zone = wk[t].zone
    BY Zenon, <2>1 DEF Open, StoreInStep, RecordInStep, Admitted, Holding
  <2>4. ASSUME NEW c \in Containers
        PROVE  /\ Bound(t, c)' => Bound(t, c)
               /\ Created(t, c)' => Created(t, c)
    BY Zenon, <2>1, <2>2 DEF Bound, Created
  <2>5. ASSUME NEW c \in Containers, Intact(c, rec[t].zone)
        PROVE  Intact(c, rec[t].zone)'
    BY Zenon, <2>1, <2>2, <2>3, <2>5 DEF Intact
  <2>6. rec[t].zone \notin opGone =>
          /\ rec'[t].zone \in Zones'
          /\ \A c \in Containers \ opGone :
               Created(t, c)' => Intact(c, rec[t].zone)'
    BY Zenon, <1>0, <2>1, <2>2, <2>3, <2>4, <2>5 DEF Kept, Zones
  <2> QED BY Zenon, <1>0, <2>1, <2>2, <2>3, <2>4, <2>6 DEF Kept
<1>4. CASE CreateContainer(t)
  <2>1. PICK c \in Containers :
          /\ shim[c] = None
          /\ shim' = [shim EXCEPT ![c] = NewInst(t)]
          /\ put_container(c, t, wk[t].at, "Created")
          /\ wk' = [wk EXCEPT ![t].cont = c]
    BY Zenon, <1>4 DEF CreateContainer
  <2>2. /\ ZoneByName(t) \in handles /\ pc[t] = "backend" /\ pc'[t] = "bind"
        /\ UNCHANGED <<rec, result, temps, named, opGone>>
    BY Zenon, <1>4 DEF CreateContainer, At, Goto, store, history, TypeOK
  <2>3. wk'[t].cont = c /\ wk'[t].zone = wk[t].zone
    BY <2>1 DEF TypeOK, Workers
  <2>4. /\ rec[t] # None /\ result[t] = Empty /\ rec[t].zone = wk[t].zone
        /\ rec[t].cont = None /\ wk[t].at \in ZoneIds
    BY Zenon, <2>2 DEF StoreInStep, RecordInStep, LocalsSet, Admitted
  <2>5. shim'[c] = NewInst(t) /\ NewInst(t) \in Insts
    BY Zenon, <1>4, <2>1, NewInstType DEF CreateContainer, TypeOK
  <2>6. /\ shim'[c] # None /\ shim'[c].task = t /\ shim'[c].st = "created"
        /\ shim'[c].zone = ZoneByName(t)
    <3>1. /\ NewInst(t).task = t /\ NewInst(t).st = "created"
          /\ NewInst(t).zone = ZoneByName(t)
      BY DEF NewInst
    <3> QED BY Zenon, <2>5, <3>1, NoneAssumption
  <2>7. row'[c] # None /\ row'[c].zone = wk[t].at
    <3>1. [task |-> t, zone |-> wk[t].at, st |-> "Created"] \in Rows
      BY Zenon, <2>4 DEF Rows
    <3>2. row'[c] = [task |-> t, zone |-> wk[t].at, st |-> "Created"]
      BY Zenon, <2>1 DEF put_container, TypeOK
    <3> QED BY <3>1, <3>2, NoneAssumption
  <2>8. ASSUME wk[t].zone \in Zones
        PROVE  wk[t].at = wk[t].zone /\ ZoneByName(t) = wk[t].zone
    <3>1. wk[t].at = wk[t].zone
      BY Zenon, <2>2, <2>8 DEF ZoneCopies
    <3>2. ZoneByName(t) # None
      BY Zenon, <2>2, NoneAssumption DEF TypeOK
    <3>3. CASE wk[t].kind = "named"
      BY Zenon, <2>2, <2>8, <3>1, <3>3 DEF ZoneByName, TaskZones, Zones
    <3>4. CASE wk[t].kind # "named"
      BY Zenon, <3>1, <3>2, <3>4 DEF ZoneByName
    <3> QED BY Zenon, <3>1, <3>3, <3>4
  <2>9. ASSUME NEW d \in Containers, Bound(t, d)'
        PROVE  d = c
    BY Zenon, <2>2, <2>3, <2>4, <2>9, NoneAssumption DEF Bound
  <2>10. rec[t].zone \notin opGone => rec[t].zone \in Zones
    BY Zenon, <1>0, <2>4 DEF Kept, Open
  <2>11. ASSUME rec[t].zone \in Zones
         PROVE  Intact(c, rec[t].zone)'
    BY Zenon, <2>2, <2>4, <2>6, <2>7, <2>8, <2>11 DEF Intact
  <2>12. ASSUME NEW d \in Containers, Created(t, d)'
         PROVE  d = c
    BY Zenon, <2>2, <2>3, <2>4, <2>12, NoneAssumption DEF Created
  <2>13. Zones' = Zones
    BY Zenon, <2>2 DEF Zones
  <2> QED BY Zenon, <2>2, <2>6, <2>9, <2>10, <2>11, <2>12, <2>13 DEF Kept
<1> QED BY Zenon, <1>1, <1>2, <1>3, <1>4 DEF TakesHold

\* Every step keeps EvidenceKept.
LEMMA EvidenceKeptStep ==
  TaskInv /\ EvidenceInv /\ [Next]_vars => EvidenceKept'
<1> SUFFICES ASSUME TaskInv, EvidenceInv, [Next]_vars, NEW u \in Tasks
             PROVE  Kept(u)'
    BY Zenon DEF EvidenceKept
<1>0. ShimFrame /\ EvidenceStays /\ Kept(u)
  BY Zenon, TaskInvStep, EvidenceStaysStep DEF EvidenceInv, EvidenceKept
<1>1. ASSUME NEW t \in Tasks,
             WorkerStep(t) \/ CleanupStep(t) \/ RecoveryStep(t)
             \/ DeleteResult(t)
      PROVE  Kept(u)'
  <2>1. CASE TakesHold(t)
    <3>1. Others(t)
      BY Zenon, <2>1 DEF TaskInv, TakesHold, AllocateZone, ResolveZone, Admit,
         CreateContainer, BindContainer, put_recovery, Goto, store, Others,
         TypeOK
    <3> QED BY Zenon, <1>0, <2>1, <3>1, HoldTaken, HoldFollowsOthers, KeptStays
  <2>2. CASE ~TakesHold(t)
    BY Zenon, <1>0, <1>1, <2>2, HoldStep, KeptStays
  <2> QED BY Zenon, <2>1, <2>2
<1>2. CASE Crash
  BY Zenon, <1>0, <1>2, HoldFollowsEnds, KeptStays DEF Crash, Ends
<1>3. CASE UNCHANGED <<rec, result, pc, wk>>
  BY Zenon, <1>0, <1>3, HoldFollowsSame, KeptStays
<1>4. CASE \/ \E z \in ZoneIds :
                \/ GuardedZoneCleanup(z) \/ GuardedZoneCleanupFails(z)
                \/ OperatorDeletesZone(z) \/ OperatorDeletesZonePartly(z)
           \/ \E c \in Containers : Exit(c) \/ OperatorDeletesContainer(c)
           \/ OperatorCreatesZone \/ Restart \/ RestartZoneFails \/ Serve
           \/ UNCHANGED vars
  BY Zenon, <1>3, <1>4 DEF GuardedZoneCleanup, GuardedZoneCleanupFails,
     OperatorDeletesZone, OperatorDeletesZonePartly, Exit,
     OperatorDeletesContainer, OperatorCreatesZone, Restart, RestartZoneFails,
     Reconcile, Serve, vars, store, worker
<1> QED BY Zenon, <1>1, <1>2, <1>4 DEF Next

-----------------------------------------------------------------------------

\* EvidenceInv is an invariant, whatever faults happen and whatever operators
\* delete.
THEOREM Evidence == Spec => []EvidenceInv
<1>1. Init => EvidenceInv
  <2> SUFFICES ASSUME Init PROVE EvidenceInv
      OBVIOUS
  <2>1. RowsOnce
    BY Zenon DEF Init, RowsOnce, OneContainerPerTask, NoRows, Holding
  <2>2. IdleWorker.zone = None /\ IdleWorker.cont = None /\ ~IdleWorker.owns
    BY DEF IdleWorker
  <2>3. ZonesExclusive
    BY Zenon, <2>2, NoneAssumption
       DEF Init, ZonesExclusive, Owns, Claims, Admitted, Holding, Settling
  <2>4. EvidenceKept
    BY Zenon, <2>2, NoneAssumption DEF Init, EvidenceKept, Kept, Bound, Open
  <2> QED BY Zenon, <2>1, <2>3, <2>4 DEF EvidenceInv
<1>2. TaskInv /\ EvidenceInv /\ [Next]_vars => EvidenceInv'
  BY Zenon, RowsOnceStep, ZonesExclusiveStep, EvidenceKeptStep DEF EvidenceInv
<1> QED BY <1>1, <1>2, TaskInvariant, PTL DEF Spec

\* At most one container row carries a task's name at a time, over every reuse
\* of the identifier and every interrupted cleanup: what task_containers finds
\* for a record is never ambiguous.
THEOREM OneContainer == Spec => []OneContainerPerTask
<1>1. EvidenceInv => OneContainerPerTask
  BY Zenon DEF EvidenceInv, RowsOnce
<1> QED BY Evidence, <1>1, PTL

\* Until its result is committed, nothing but an operator removes a task's zone,
\* its container row or the container in the shim: neither the spawned zone
\* deletion of a refused task nor the cleanup of another one reaches them.
THEOREM EvidenceSurvives == Spec => []EvidenceKeptUntilCommit
<1>1. TaskInv /\ EvidenceInv => EvidenceKeptUntilCommit
  <2> SUFFICES ASSUME TaskInv, EvidenceInv, NEW t \in Tasks, rec[t] # None,
                      result[t] = Empty, rec[t].zone \notin opGone
               PROVE  /\ rec[t].zone \in Zones
                      /\ rec[t].cont \notin opGone \cup {None} =>
                           /\ row[rec[t].cont] # None
                           /\ shim[rec[t].cont].st # "gone"
      BY Zenon DEF EvidenceKeptUntilCommit
  <2>1. Kept(t) /\ Open(t)
    BY Zenon DEF EvidenceInv, EvidenceKept, Open
  <2>2. rec[t].cont \in Containers \cup {None}
    BY Zenon DEF TaskInv, TypeOK, Records
  <2> QED BY Zenon, <2>1, <2>2 DEF Kept, Created, Intact
<1> QED BY TaskInvariant, Evidence, <1>1, PTL

=============================================================================
