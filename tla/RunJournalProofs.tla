-------------------------- MODULE RunJournalProofs --------------------------
(***************************************************************************)
(* JournalInv is an invariant of RunJournal: first the parts that speak of *)
(* types, processes and handles, then the part about the disk, the         *)
(* theorems that follow from it, and the refinement of CommittedLog.       *)
(***************************************************************************)
EXTENDS RunJournal, SequenceTheorems, TLAPS

\* Leaves go to the SMT solver, then to Zenon, unless they name a prover.
USE SMTT(20), ZenonT(20)

\* Records stay typed under the updates the steps make.
LEMMA DirTypes ==
    /\ NoDir \in DirStates
    /\ Garbage \in JournalHead \cup {Garbage}
    /\ [head |-> Garbage, synced |-> FALSE] \in HeadFile
    /\ \A d \in DirStates :
         /\ d.head \in HeadFile \cup {None}
         /\ [d EXCEPT !.made = TRUE] \in DirStates
         /\ [d EXCEPT !.manifest = TRUE] \in DirStates
         /\ [d EXCEPT !.log = TRUE] \in DirStates
         /\ [d EXCEPT !.next = TRUE] \in DirStates
         /\ \A f \in HeadFile : [d EXCEPT !.head = f, !.next = FALSE] \in DirStates
    /\ \A f \in HeadFile :
         /\ f.head \in JournalHead \cup {Garbage}
         /\ [f EXCEPT !.synced = TRUE] \in HeadFile
         /\ \A hd \in JournalHead : [f EXCEPT !.head = hd] \in HeadFile
  BY ZenonT(20), SMTT(20) DEF DirStates, HeadFile, NoDir

\* Handles stay typed under the updates open, append and publish_head make.
LEMMA HandleTypes ==
    /\ NewHead \in JournalHead
    /\ Closed \in Handles
    /\ \A hd \in JournalHead :
         /\ [Closed EXCEPT !.head = hd] \in Handles
         /\ \A n \in Nat : [Closed EXCEPT !.head = hd, !.tail = n] \in Handles
    /\ \A x \in Handles :
         /\ x.head \in JournalHead /\ x.next \in JournalHead
         /\ \A hd \in JournalHead, e \in Events :
              [x EXCEPT !.failed = TRUE, !.ev = e, !.next = hd] \in Handles
<1>1. NewHead \in JournalHead
  BY DEF NewHead, JournalHead
<1> QED BY <1>1, ZenonT(20), SMTT(20) DEF Closed, Handles

\* A head that passes the scan is not garbage.
LEMMA ScannedHead ==
  ASSUME TypeOK, NEW hd \in JournalHead \cup {Garbage}, scan(hd)
  PROVE  hd \in JournalHead /\ Len(log) - hd.journal_bytes \in Nat
  BY DEF TypeOK, scan, Garbage, JournalHead

\* The next head, and its entry, are typed.
LEMMA NextTypes ==
  ASSUME TypeOK, NEW p \in Procs, NEW e \in Events
  PROVE  NextHead(p, e) \in JournalHead
<1>1. h[p] \in Handles
  BY Zenon DEF TypeOK
<1>2. h[p].head \in JournalHead
  BY <1>1, HandleTypes, ZenonT(20), SMTT(20)
<1> QED BY <1>2 DEF NextHead, JournalHead

\* What a power loss leaves of the log: all that is synced, and in front of a
\* damaged record nothing but what was there.
LEMMA SurvivingLog ==
  ASSUME TypeOK, durable =< Len(log), NEW l \in Surviving
  PROVE  /\ l \in Seq(Entries \cup {Torn})
         /\ Len(l) \in durable..Len(log)
         /\ \A i \in 1..Len(l) : l[i] = log[i] \/ l[i] = Torn
         /\ \A i \in 1..durable : l[i] = log[i]
<1> DEFINE cut(n) == SubSeq(log, 1, n)
<1>1. ASSUME NEW n \in durable..Len(log)
      PROVE  /\ cut(n) \in Seq(Entries \cup {Torn})
             /\ Len(cut(n)) = n
             /\ \A i \in 1..n : cut(n)[i] = log[i]
  <2>1. \A i \in 1..n : log[i] \in Entries \cup {Torn}
    BY DEF TypeOK
  <2> QED BY <2>1, SubSeqProperties DEF TypeOK
<1>2. CASE \E n \in durable..Len(log) : l = cut(n)
  BY <1>1, <1>2 DEF TypeOK
<1>3. CASE \E n \in durable..(Len(log) - 1) : l = Append(cut(n), Torn)
  <2>1. PICK n \in durable..(Len(log) - 1) : l = Append(cut(n), Torn)
    BY Zenon, <1>3
  <2>2. n \in durable..Len(log)
    BY DEF TypeOK
  <2> HIDE DEF cut
  <2> QED BY <1>1, <2>1, <2>2, AppendProperties DEF TypeOK
<1> QED BY Zenon, <1>2, <1>3 DEF Surviving

\* Every step keeps every variable of the journal in its type.
LEMMA TypeOKStep ==
  ASSUME JournalInv, Next
  PROVE  TypeOK'
<1> USE DEF JournalInv
<1>1. ASSUME NEW p \in Procs, CreateStep(p)
      PROVE  TypeOK'
  <2>1. CASE CreateDirectory(p) \/ CreateManifest(p)
    BY <2>1, DirTypes, ZenonT(20), SMTT(20) DEF CreateDirectory,
       CreateManifest, SetDir, Goto, past, TypeOK, PCs
  <2>4. CASE CreateLog(p)
    <3>1. log' \in Seq(Entries \cup {Torn}) /\ durable' = 0
      BY Zenon, <2>4, EmptySeq DEF CreateLog
    <3>2. dir' \in DirStates /\ dirs' \subseteq DirStates /\ pc' \in [Procs -> PCs]
      BY <2>4, DirTypes, ZenonT(20), SMTT(20) DEF CreateLog, SetDir, Goto,
         TypeOK, PCs
    <3>3. UNCHANGED <<manifest, staged, lock, h, past>>
      BY Zenon, <2>4 DEF CreateLog
    <3> QED BY Zenon, <3>1, <3>2, <3>3 DEF past, TypeOK
  <2>2. CASE SyncParent(p) \/ WriteManifest(p) \/ SyncManifest(p) \/ SyncDirectory(p)
    BY Zenon, <2>2 DEF SyncParent, WriteManifest, SyncManifest, SyncDirectory,
       sync_directory, Goto, past, TypeOK, PCs
  <2>3. CASE CreateLock(p)
    BY Zenon, <2>3 DEF CreateLock, Goto, disk, past, TypeOK, PCs
  <2> QED BY Zenon, <1>1, <2>1, <2>2, <2>3, <2>4 DEF CreateStep
<1>2. ASSUME NEW p \in Procs, OpenStep(p)
      PROVE  TypeOK'
  <2>1. CASE OpenLock(p)
    BY Zenon, <2>1 DEF OpenLock, Goto, disk, past, TypeOK, PCs
  <2>2. CASE OpenVerify(p)
    <3>1. dir.head.head \in JournalHead \cup {Garbage}
      BY <2>2, DirTypes, ZenonT(20), SMTT(20) DEF OpenVerify, TypeOK
    <3>2. h' \in [Procs -> Handles]
      BY <2>2, <3>1, ScannedHead, HandleTypes, ZenonT(20), SMTT(20)
         DEF OpenVerify, TypeOK
    <3> QED BY Zenon, <2>2, <3>2 DEF OpenVerify, Goto, disk, past, TypeOK, PCs
  <2>3. CASE OpenSync(p)
    <3>1. h[p].head \in JournalHead
      BY HandleTypes, ZenonT(20), SMTT(20) DEF TypeOK
    <3> QED BY Zenon, <2>3, <3>1 DEF OpenSync, sync_directory, Goto, TypeOK,
               PCs, JournalHead
  <2> QED BY Zenon, <1>2, <2>1, <2>2, <2>3 DEF OpenStep
<1>3. ASSUME NEW p \in Procs, AppendStep(p)
      PROVE  TypeOK'
  <2>1. ASSUME NEW e \in Events, AppendBegin(p, e)
        PROVE  TypeOK'
    <3>1. h' \in [Procs -> Handles]
      BY <2>1, HandleTypes, NextTypes, ZenonT(20), SMTT(20) DEF AppendBegin,
         TypeOK
    <3> QED BY Zenon, <2>1, <3>1 DEF AppendBegin, Goto, disk, TypeOK, PCs
  <2>2. CASE WriteFirstHalf(p)
    BY <2>2 DEF WriteFirstHalf, Goto, past, TypeOK, PCs
  <2>3. CASE WriteSecondHalf(p)
    <3>1. h[p] \in Handles /\ h[p].head \in JournalHead
      BY HandleTypes, ZenonT(20), SMTT(20) DEF TypeOK
    <3>2. AppendInv(p)
      BY Zenon, <2>3 DEF WriteSecondHalf, HandleInv, HandleOK, LockInv,
         Appending
    <3>3. NewEntry(p) \in Entries
      BY <3>1, <3>2 DEF AppendInv, NewEntry, NextHead, Entries, JournalHead,
         TypeOK
    <3>4. Len(log) \in 1..Len(log)
      BY <2>3, <3>2 DEF WriteSecondHalf, AppendInv, TypeOK
    <3>5. log' \in Seq(Entries \cup {Torn})
      BY Zenon, <2>3, <3>3, <3>4, ExceptSeq DEF WriteSecondHalf, TypeOK
    <3> QED BY Zenon, <2>3, <3>5 DEF WriteSecondHalf, Goto, past, TypeOK, PCs
  <2>4. CASE SyncLog(p)
    BY <2>4 DEF SyncLog, Goto, past, TypeOK, PCs
  <2> QED BY Zenon, <1>3, <2>1, <2>2, <2>3, <2>4 DEF AppendStep
<1>4. ASSUME NEW p \in Procs, PublishStep(p)
      PROVE  TypeOK'
  <2>1. h[p].next \in JournalHead
    BY HandleTypes, ZenonT(20), SMTT(20) DEF TypeOK
  <2>2. CASE HeadCreate(p) \/ HeadRename(p)
    BY <2>2, DirTypes, ZenonT(20), SMTT(20) DEF HeadCreate, HeadRename, SetDir,
       Goto, past, TypeOK, PCs
  <2>3. CASE HeadWrite(p) \/ HeadSync(p)
    BY <2>1, <2>3, DirTypes, ZenonT(20), SMTT(20) DEF HeadWrite, HeadSync,
       Goto, past, TypeOK, PCs
  <2>4. CASE HeadCommit(p)
    <3>1. h' \in [Procs -> Handles]
      BY <2>1, <2>4, HandleTypes, ZenonT(20), SMTT(20) DEF HeadCommit, TypeOK
    <3> QED BY Zenon, <2>1, <2>4, <3>1 DEF HeadCommit, sync_directory, Goto,
               TypeOK, PCs, JournalHead
  <2> QED BY Zenon, <1>4, <2>2, <2>3, <2>4 DEF PublishStep
<1>5. ASSUME NEW p \in Procs, Fail(p) \/ FailShortWrite(p) \/ Leave(p)
      PROVE  TypeOK'
  <2>1. CASE Fail(p) \/ Leave(p)
    <3>1. h' \in [Procs -> Handles] /\ lock' \in Procs \cup {None}
      BY <2>1, HandleTypes, ZenonT(20), SMTT(20) DEF Fail, Leave, Release,
         TypeOK
    <3>2. pc' \in [Procs -> PCs]
      BY Zenon, <2>1 DEF Fail, Leave, Release, Goto, TypeOK, PCs
    <3> QED BY Zenon, <2>1, <3>1, <3>2 DEF Fail, Leave, disk, past, TypeOK
  <2>2. CASE FailShortWrite(p)
    BY <2>2 DEF FailShortWrite, Goto, past, TypeOK, PCs
  <2> QED BY Zenon, <1>5, <2>1, <2>2
<1>6. CASE PowerLoss
  <2>1. log' \in Seq(Entries \cup {Torn})
    BY <1>6, SurvivingLog, EmptySeq, ZenonT(20), SMTT(20) DEF PowerLoss,
       DiskInv
  <2>2. dir' \in dirs /\ dirs' = {dir'}
    BY Zenon, <1>6 DEF PowerLoss, DiskInv, HeadOK
  <2>3. manifest' \in {"none", "written", "synced", "damaged"}
    BY Zenon, <1>6 DEF PowerLoss, TypeOK
  <2>4. pc' \in [Procs -> PCs] /\ h' \in [Procs -> Handles] /\ lock' = None
    BY <1>6, HandleTypes, ZenonT(20), SMTT(20) DEF PowerLoss, PCs
  <2>5. durable' = Len(log') /\ UNCHANGED <<staged, past>>
    BY Zenon, <1>6 DEF PowerLoss
  <2> QED BY <2>1, <2>2, <2>3, <2>4, <2>5 DEF past, TypeOK
<1> QED BY Zenon, <1>1, <1>2, <1>3, <1>4, <1>5, <1>6 DEF Next

-----------------------------------------------------------------------------
\* Only the holder of the lock is past taking it.
LEMMA LockStep ==
  ASSUME JournalInv, Next
  PROVE  LockInv'
<1> USE DEF JournalInv, LockInv, Locked, PCs, Appending, Publishing
<1>1. ASSUME NEW p \in Procs,
             CreateDirectory(p) \/ SyncParent(p) \/ CreateManifest(p)
             \/ WriteManifest(p) \/ SyncManifest(p) \/ CreateLog(p) \/ SyncDirectory(p)
      PROVE  LockInv'
  BY <1>1 DEF CreateDirectory, SyncParent, CreateManifest, WriteManifest,
     SyncManifest, CreateLog, SyncDirectory, Goto, TypeOK
<1>2. ASSUME NEW p \in Procs, CreateLock(p) \/ OpenLock(p)
      PROVE  LockInv'
  BY <1>2, JournalAssumption DEF CreateLock, OpenLock, Goto, TypeOK
<1>3. ASSUME NEW p \in Procs, OpenVerify(p) \/ HeadCommit(p)
      PROVE  LockInv'
  <2>1. CASE OpenVerify(p)
    BY Zenon, <2>1 DEF OpenVerify, Goto, TypeOK, Closed
  <2>2. CASE HeadCommit(p)
    BY Zenon, <2>2 DEF HeadCommit, Goto, TypeOK
  <2> QED BY Zenon, <1>3, <2>1, <2>2
<1>4. ASSUME NEW p \in Procs, NEW e \in Events, AppendBegin(p, e)
      PROVE  LockInv'
  BY <1>4 DEF AppendBegin, Goto, TypeOK, Handles
<1>5. ASSUME NEW p \in Procs,
             OpenSync(p) \/ WriteFirstHalf(p) \/ WriteSecondHalf(p) \/ SyncLog(p)
             \/ FailShortWrite(p)
      PROVE  LockInv'
  BY <1>5 DEF OpenSync, WriteFirstHalf, WriteSecondHalf, SyncLog,
     FailShortWrite, Goto, TypeOK
<1>6. ASSUME NEW p \in Procs,
             HeadCreate(p) \/ HeadWrite(p) \/ HeadSync(p) \/ HeadRename(p)
      PROVE  LockInv'
  BY <1>6 DEF HeadCreate, HeadWrite, HeadSync, HeadRename, Goto, TypeOK
<1>7. ASSUME NEW p \in Procs, Fail(p) \/ Leave(p)
      PROVE  LockInv'
  <2>1. CASE Release(p)
    BY Zenon, <2>1 DEF Release, Goto, TypeOK
  <2>2. CASE ~Release(p)
    <3>1. h[p].failed /\ Goto(p, "ready") /\ UNCHANGED <<lock, h>>
      BY Zenon, <1>7, <2>2 DEF Fail, Leave
    <3>2. lock = p
      BY <1>7, <2>2, <3>1 DEF Fail, Leave, Closed, TypeOK
    <3> QED BY Zenon, <3>1, <3>2 DEF Goto, TypeOK
  <2> QED BY Zenon, <2>1, <2>2
<1>8. CASE PowerLoss
  BY Zenon, <1>8 DEF PowerLoss
<1> QED BY Zenon, <1>1, <1>2, <1>3, <1>4, <1>5, <1>6, <1>7, <1>8 DEF Next,
           CreateStep, OpenStep, AppendStep, PublishStep

\* While one process is past taking the lock, no other is.
LEMMA LockExcludes ==
  ASSUME JournalInv, NEW p \in Procs, NEW q \in Procs, pc[p] \in Locked, q # p
  PROVE  pc[q] \in {"closed", "made", "parent"}
  BY Zenon DEF JournalInv, LockInv, Locked, TypeOK

\* After the rename the directory's head is the next head of its process.
LEMMA RenamedHead ==
  ASSUME JournalInv, NEW p \in Procs, pc[p] = "head_renamed"
  PROVE  dir.head # None /\ dir.head.head = h[p].next
<1>1. dir.head = [head |-> h[p].next, synced |-> TRUE]
  BY Zenon DEF JournalInv, StagedInv
<1>2. h[p].next \in JournalHead
  BY HandleTypes, ZenonT(20), SMTT(20) DEF JournalInv, TypeOK
<1>3. [head |-> h[p].next, synced |-> TRUE] \in HeadFile
  BY Zenon, <1>2 DEF HeadFile
<1>4. dir.head # None
  BY <1>1, <1>3, JournalAssumption, ZenonT(20), SMTT(20)
<1>5. dir.head.head = h[p].next
  BY <1>1
<1> QED BY Zenon, <1>4, <1>5

\* Once a handle has been handed out, no create is under way.
LEMMA NoCreator ==
  ASSUME JournalInv, given, NEW q \in Procs
  PROVE  ~Creating(q)
  BY Zenon DEF JournalInv, CreateInv, CreatorInv, DiskInv, Creating, Publishing

\* An append under way: what HandleInv says of it.
LEMMA UnderWay ==
  ASSUME JournalInv, NEW p \in Procs, pc[p] \in Appending \cup Publishing,
         ~Creating(p)
  PROVE  h[p].failed /\ AppendInv(p) /\ given
  BY Zenon DEF JournalInv, LockInv, HandleInv, HandleOK, AppendInv, Creating,
     Appending, Publishing

\* Every step but mkdir: a creator was one before.
LEMMA CreatorsRemain ==
  ASSUME JournalInv, Next, NEW q \in Procs, Creating(q)'
  PROVE  Creating(q) \/ CreateDirectory(q)
<1> USE DEF JournalInv, Creating, Publishing
<1>1. ASSUME NEW p \in Procs, CreateStep(p) \/ OpenStep(p)
      PROVE  Creating(q) \/ CreateDirectory(q)
  BY <1>1 DEF CreateStep, OpenStep, CreateDirectory, SyncParent, CreateLock,
     CreateManifest, WriteManifest, SyncManifest, CreateLog, SyncDirectory,
     OpenLock, OpenVerify, OpenSync, Goto, TypeOK
<1>2. ASSUME NEW p \in Procs, AppendStep(p)
      PROVE  Creating(q)
  <2>1. ASSUME NEW e \in Events, AppendBegin(p, e)
        PROVE  Creating(q)
    BY Zenon, <2>1 DEF AppendBegin, Goto, TypeOK
  <2>2. CASE WriteFirstHalf(p) \/ WriteSecondHalf(p) \/ SyncLog(p)
    BY <2>2 DEF WriteFirstHalf, WriteSecondHalf, SyncLog, Goto, TypeOK,
       LockInv, Appending
  <2> QED BY Zenon, <1>2, <2>1, <2>2 DEF AppendStep
<1>3. ASSUME NEW p \in Procs, PublishStep(p)
      PROVE  Creating(q)
  BY Zenon, <1>3 DEF PublishStep, HeadCreate, HeadWrite, HeadSync, HeadRename,
     HeadCommit, Goto, TypeOK
<1>4. ASSUME NEW p \in Procs, Fail(p) \/ FailShortWrite(p) \/ Leave(p)
      PROVE  Creating(q)
  BY Zenon, <1>4 DEF Fail, FailShortWrite, Leave, Release, Goto, TypeOK
<1>5. CASE PowerLoss
  BY Zenon, <1>5 DEF PowerLoss
<1> QED BY Zenon, <1>1, <1>2, <1>3, <1>4, <1>5 DEF Next

\* One creator at a time, and no head before it has renamed one.
LEMMA CreateInvStep ==
  ASSUME JournalInv, Next
  PROVE  CreateInv'
<1> USE DEF JournalInv
<1>1. \A p, q \in Procs : Creating(p)' /\ Creating(q)' => p = q
  <2>1. ASSUME NEW p \in Procs, CreateDirectory(p), NEW q \in Procs
        PROVE  ~Creating(q)
    BY Zenon, <2>1 DEF CreateDirectory, CreateInv, CreatorInv
  <2>2. ASSUME NEW p \in Procs, NEW q \in Procs, CreateDirectory(p), CreateDirectory(q)
        PROVE  p = q
    BY Zenon, <2>2 DEF CreateDirectory, Goto, TypeOK
  <2> QED BY Zenon, <2>1, <2>2, CreatorsRemain DEF CreateInv
<1>2. ASSUME NEW q \in Procs, Creating(q)'
      PROVE  CreatorInv(q)'
  <2>1. CASE CreateDirectory(q)
    <3>1. ~given /\ \A d \in dirs : d.head = None
      BY Zenon, <2>1 DEF CreateDirectory, DiskInv, HeadOK
    <3> QED BY Zenon, <2>1, <3>1 DEF CreateDirectory, SetDir, Goto, CreatorInv,
               TypeOK, DirStates, DiskInv, Publishing
  <2> SUFFICES ASSUME Creating(q)
               PROVE  CreatorInv(q)'
    BY Zenon, <1>2, <2>1, CreatorsRemain
  <2>2. CreatorInv(q) /\ ~given
    BY Zenon, NoCreator DEF CreateInv
  <2>3. ASSUME NEW p \in Procs, CreateStep(p), ~CreateDirectory(p)
        PROVE  CreatorInv(q)'
    <3>1. p = q
      BY Zenon, <2>3 DEF CreateStep, SyncParent, CreateLock, CreateManifest,
         WriteManifest, SyncManifest, CreateLog, SyncDirectory, CreateInv,
         Creating
    <3>2. CASE SyncParent(p) \/ CreateLock(p) \/ WriteManifest(p) \/ SyncManifest(p)
      BY Zenon, <2>2, <3>1, <3>2 DEF SyncParent, CreateLock, WriteManifest,
         SyncManifest, sync_directory, Goto, CreatorInv, disk, past, TypeOK,
         DiskInv, Publishing
    <3>3. CASE CreateManifest(p) \/ CreateLog(p)
      BY <2>2, <3>1, <3>3 DEF CreateManifest, CreateLog, SetDir, Goto,
         CreatorInv, past, TypeOK, DirStates, DiskInv, Publishing
    <3>4. CASE SyncDirectory(p)
      <4>1. h[p].next = NewHead
        <5>1. h[p] = Closed
          BY Zenon, <3>4 DEF SyncDirectory, LockInv, Appending, Publishing
        <5> QED BY <5>1 DEF Closed
      <4>2. log = <<>> /\ durable = 0
        BY <2>2, <3>1, <3>4 DEF SyncDirectory, CreatorInv, DiskInv, TypeOK
      <4> QED BY Zenon, <2>2, <3>1, <3>4, <4>1, <4>2 DEF SyncDirectory,
                 sync_directory, Goto, CreatorInv, past, TypeOK, DiskInv,
                 Publishing
    <3> QED BY Zenon, <2>3, <3>2, <3>3, <3>4 DEF CreateStep
  <2>4. ASSUME NEW p \in Procs, CreateDirectory(p)
        PROVE  CreatorInv(q)'
    BY Zenon, <2>2, <2>4 DEF CreateDirectory, CreatorInv
  <2>5. ASSUME NEW p \in Procs, OpenStep(p)
        PROVE  CreatorInv(q)'
    <3>1. p # q
      BY Zenon, <2>5 DEF OpenStep, OpenLock, OpenVerify, OpenSync, Creating,
         Publishing
    <3>2. CASE OpenLock(p) \/ OpenVerify(p)
      BY <2>2, <3>1, <3>2 DEF OpenLock, OpenVerify, Goto, CreatorInv, disk,
         past, TypeOK
    <3>3. CASE OpenSync(p)
      <4>1. pc[q] \in {"made", "parent"}
        BY Zenon, <3>1, <3>3, LockExcludes DEF OpenSync, Locked, PCs, Creating,
           Publishing
      <4> QED BY Zenon, <2>2, <3>1, <3>3, <4>1 DEF OpenSync, sync_directory,
                 Goto, CreatorInv, TypeOK, DiskInv, Publishing
    <3> QED BY Zenon, <2>5, <3>2, <3>3 DEF OpenStep
  <2>6. ASSUME NEW p \in Procs, AppendStep(p) \/ FailShortWrite(p)
        PROVE  CreatorInv(q)'
    <3>1. given
      BY <2>6, ZenonT(20), SMTT(20) DEF AppendStep, AppendBegin,
         WriteFirstHalf, WriteSecondHalf, SyncLog, FailShortWrite, LockInv,
         HandleInv, HandleOK, AppendInv, Appending
    <3> QED BY Zenon, <2>2, <3>1
  <2>7. ASSUME NEW p \in Procs, PublishStep(p)
        PROVE  CreatorInv(q)'
    <3>1. p = q
      <4>1. pc[p] \in Publishing
        BY Zenon, <2>7 DEF PublishStep, HeadCreate, HeadWrite, HeadSync,
           HeadRename, HeadCommit, Publishing
      <4> QED BY Zenon, <2>2, <4>1, UnderWay DEF CreateInv
    <3>2. CASE HeadCreate(p)
      BY Zenon, <2>2, <3>1, <3>2 DEF HeadCreate, SetDir, Goto, CreatorInv,
         past, TypeOK, DirStates, DiskInv, Publishing
    <3>3. CASE HeadWrite(p) \/ HeadSync(p)
      BY <2>2, <3>1, <3>3 DEF HeadWrite, HeadSync, Goto, CreatorInv, past,
         TypeOK, Publishing
    <3>4. CASE HeadRename(p)
      BY <2>2, <3>1, <3>4, ZenonT(20), SMTT(20) DEF HeadRename, SetDir, Goto,
         CreatorInv, past, TypeOK, DirStates, DiskInv, Publishing
    <3>5. CASE HeadCommit(p)
      BY Zenon, <1>2, <3>1, <3>5 DEF HeadCommit, Goto, Creating, Publishing,
         TypeOK
    <3> QED BY Zenon, <2>7, <3>2, <3>3, <3>4, <3>5 DEF PublishStep
  <2>8. ASSUME NEW p \in Procs, Fail(p) \/ Leave(p)
        PROVE  CreatorInv(q)'
    <3>1. p # q
      BY Zenon, <1>2, <2>8 DEF Fail, Leave, Release, Goto, Creating,
         Publishing, TypeOK
    <3> QED BY <2>2, <2>8, <3>1 DEF Fail, Leave, Release, Goto, CreatorInv,
               disk, past, TypeOK
  <2>9. CASE PowerLoss
    BY Zenon, <1>2, <2>9 DEF PowerLoss, Creating, Publishing
  <2> QED BY Zenon, <2>3, <2>4, <2>5, <2>6, <2>7, <2>8, <2>9 DEF Next
<1> QED BY Zenon, <1>1, <1>2 DEF CreateInv

-----------------------------------------------------------------------------
InUse == {"verified", "ready"} \cup Appending \cup Publishing

\* A process without a handle has nothing to keep.
LEMMA IdleHandle ==
  ASSUME NEW q \in Procs,
  pc'[q] \notin InUse \/ (pc'[q] \in Publishing /\ ~h'[q].failed)
  PROVE  HandleOK(q)'
  BY Zenon DEF HandleOK, InUse, Appending, Publishing

\* A handle is undisturbed by a step of another process that leaves the head,
\* the log and what was handed out alone.
LEMMA HandleFrame ==
  ASSUME NEW q \in Procs, HandleOK(q), pc'[q] = pc[q], h'[q] = h[q],
         dir'.head = dir.head,
         UNCHANGED <<log, durable, past>>
  PROVE  HandleOK(q)'
  BY Zenon DEF HandleOK, View, AppendInv, NextHead, NewEntry, past

\* Steps under the lock only concern the handle of the process that takes them.
LEMMA OtherHandles ==
  ASSUME JournalInv, NEW p \in Procs, pc[p] \in Locked,
         NEW q \in Procs, q # p, pc'[q] = pc[q]
  PROVE  HandleOK(q)'
  BY Zenon, LockExcludes, IdleHandle DEF InUse, Appending, Publishing

\* Handles agree with the directory and the log, and appends under way with
\* the log they have written.
LEMMA HandleInvStep ==
  ASSUME JournalInv, Next
  PROVE  HandleInv'
<1> SUFFICES ASSUME NEW q \in Procs
             PROVE  HandleOK(q)'
  BY Zenon DEF HandleInv
<1> USE DEF JournalInv
<1>0. HandleOK(q)
  BY Zenon DEF HandleInv
<1>1. ASSUME NEW p \in Procs, CreateStep(p)
      PROVE  HandleOK(q)'
  <2>1. CASE CreateDirectory(p) \/ SyncParent(p)
    <3>1. dir'.head = dir.head
      BY Zenon, <2>1 DEF CreateDirectory, SyncParent, SetDir, TypeOK, DirStates
    <3>2. CASE p = q
      BY Zenon, <2>1, <3>2, IdleHandle DEF CreateDirectory, SyncParent, Goto,
         TypeOK, InUse, Appending, Publishing
    <3>3. CASE p # q
      BY Zenon, <1>0, <2>1, <3>1, <3>3, HandleFrame DEF CreateDirectory,
         SyncParent, Goto, TypeOK
    <3> QED BY Zenon, <3>2, <3>3
  <2>2. CASE CreateLock(p)
    BY Zenon, <2>2, IdleHandle, JournalAssumption DEF CreateLock, Goto, TypeOK,
       LockInv, Locked, PCs, InUse, Appending, Publishing
  <2>3. CASE CreateManifest(p) \/ WriteManifest(p) \/ SyncManifest(p)
             \/ CreateLog(p) \/ SyncDirectory(p)
    <3>1. pc'[p] \notin InUse \/ (pc'[p] \in Publishing /\ ~h'[p].failed)
      BY <2>3 DEF CreateManifest, WriteManifest, SyncManifest, CreateLog,
         SyncDirectory, Goto, TypeOK, LockInv, Closed, Locked, PCs, InUse,
         Appending, Publishing
    <3>2. pc[p] \in Locked /\ (q # p => pc'[q] = pc[q])
      BY Zenon, <2>3 DEF CreateManifest, WriteManifest, SyncManifest,
         CreateLog, SyncDirectory, Goto, TypeOK, Locked, PCs
    <3> QED BY Zenon, <3>1, <3>2, IdleHandle, OtherHandles
  <2> QED BY Zenon, <1>1, <2>1, <2>2, <2>3 DEF CreateStep
<1>2. ASSUME NEW p \in Procs, OpenStep(p)
      PROVE  HandleOK(q)'
  <2>1. CASE OpenLock(p)
    BY Zenon, <2>1, IdleHandle, JournalAssumption DEF OpenLock, Goto, TypeOK,
       LockInv, Locked, PCs, InUse, Appending, Publishing
  <2>2. CASE q # p /\ ~OpenLock(p)
    BY Zenon, <1>2, <2>2, OtherHandles DEF OpenStep, OpenVerify, OpenSync,
       Goto, TypeOK, Locked, PCs
  <2>3. CASE q = p /\ OpenVerify(p)
    BY Zenon, <2>3 DEF OpenVerify, Goto, disk, TypeOK, HandleOK, Appending,
       Publishing, View, Closed
  <2>4. CASE q = p /\ OpenSync(p)
    BY Zenon, <1>0, <2>4 DEF OpenSync, Goto, TypeOK, HandleOK, Appending,
       Publishing, View
  <2> QED BY Zenon, <1>2, <2>1, <2>2, <2>3, <2>4 DEF OpenStep
<1>3. ASSUME NEW p \in Procs, AppendStep(p) \/ FailShortWrite(p) \/ PublishStep(p), q # p
      PROVE  HandleOK(q)'
  <2>1. pc[p] \in Locked /\ pc'[q] = pc[q]
    BY <1>3, ZenonT(20), SMTT(20) DEF AppendStep, FailShortWrite, PublishStep,
       AppendBegin, WriteFirstHalf, WriteSecondHalf, SyncLog, HeadCreate,
       HeadWrite, HeadSync, HeadRename, HeadCommit, Goto, Locked, PCs, TypeOK
  <2> QED BY Zenon, <1>3, <2>1, OtherHandles
<1>4. ASSUME NEW e \in Events, AppendBegin(q, e)
      PROVE  HandleOK(q)'
  <2>1. View(q) /\ given /\ exposed = h[q].head.journal_root /\ h[q].tail = 0
    BY Zenon, <1>0, <1>4 DEF AppendBegin, HandleOK
  <2>2. scan(h[q].head)
    BY Zenon, <2>1 DEF View, DiskInv, HeadOK
  <2>3. h[q].head.sequence = Len(exposed) /\ h[q].head.journal_bytes = Len(exposed)
    BY Zenon, <2>1, <2>2 DEF scan
  <2>4. Len(log) = Len(exposed)
    BY <2>1, <2>2, <2>3 DEF View, scan, TypeOK
  <2>5. \A i \in 1..Len(exposed) : exposed[i] # e
    <3> SUFFICES ASSUME NEW i \in 1..Len(exposed)
                 PROVE  exposed[i] # e
      OBVIOUS
    <3>1. i \in Nat \ {0} /\ i \in 1..Len(log)
      BY <2>4 DEF TypeOK
    <3>2. SubSeq(exposed, 1, i - 1) \in Seq(Events) /\ exposed[i] \in Events
      BY <3>1 DEF TypeOK
    <3>3. log[i] = [seq |-> i, prev |-> SubSeq(exposed, 1, i - 1), ev |-> exposed[i]]
      BY Zenon, <2>1, <2>2, <2>3, <3>1 DEF scan
    <3>4. log[i] \in Entries
      BY <3>1, <3>2, <3>3 DEF Entries
    <3>5. log[i] # Torn /\ log[i].ev = exposed[i]
      BY <3>3, <3>4, JournalAssumption
    <3> QED BY Zenon, <1>4, <3>1, <3>5 DEF AppendBegin, AskedInv
  <2>6. /\ h'[q].head = h[q].head /\ h'[q].ev = e /\ h'[q].next = NextHead(q, e)
        /\ pc'[q] = "before"
    BY Zenon, <1>4 DEF AppendBegin, Goto, TypeOK, Handles
  <2>7. AppendInv(q)'
    <3>1. /\ e \in asked' /\ given'
          /\ UNCHANGED <<exposed, log, dir, durable>>
      BY Zenon, <1>4, <2>1 DEF AppendBegin, disk
    <3>2. NextHead(q, e) = NextHead(q, e)'
      BY Zenon, <2>6 DEF NextHead
    <3>3. durable =< Len(exposed) /\ dir.head # None /\ dir.head.head = h[q].head
      BY Zenon, <2>1, <2>4 DEF DiskInv, View
    <3>4. "before" \in Appending /\ "before" \notin Publishing
      BY Zenon DEF Appending, Publishing
    <3> QED BY <2>1, <2>3, <2>4, <2>5, <2>6, <3>1, <3>2, <3>3, <3>4
            DEF AppendInv, TypeOK
  <2> QED BY Zenon, <2>6, <2>7 DEF HandleOK, Appending, Publishing
<1>5. CASE WriteFirstHalf(q) \/ FailShortWrite(q)
  <2>1. AppendInv(q) /\ h[q].failed /\ pc[q] = "before"
    BY Zenon, <1>0, <1>5 DEF WriteFirstHalf, FailShortWrite, LockInv, HandleOK,
       Appending
  <2>2. Len(log') = Len(log) + 1
    BY <1>5 DEF WriteFirstHalf, FailShortWrite, TypeOK
  <2>3. CASE WriteFirstHalf(q)
    <3>1. pc'[q] = "partial" /\ UNCHANGED <<dir, h, durable, past>>
      BY Zenon, <2>3 DEF WriteFirstHalf, Goto, TypeOK
    <3>2. Len(log') = Len(exposed) + 1
      BY <2>1, <2>2 DEF AppendInv, TypeOK
    <3>3. AppendInv(q)'
      BY <2>1, <3>1, <3>2, ZenonT(20), SMTT(20) DEF past, AppendInv, NextHead,
         Appending, Publishing
    <3> QED BY Zenon, <3>1, <3>3 DEF HandleOK, Appending, Publishing
  <2>4. CASE FailShortWrite(q)
    BY Zenon, <2>1, <2>4 DEF FailShortWrite, Goto, TypeOK, HandleOK, Appending,
       Publishing
  <2> QED BY Zenon, <1>5, <2>3, <2>4
<1>6. CASE WriteSecondHalf(q)
  <2>1. AppendInv(q) /\ h[q].failed /\ pc[q] = "partial"
    BY Zenon, <1>0, <1>6 DEF WriteSecondHalf, LockInv, HandleOK, Appending
  <2>2. Len(log) \in 1..Len(log)
    BY <2>1 DEF AppendInv, TypeOK
  <2>3. Len(log') = Len(log) /\ log'[Len(log)] = NewEntry(q)
    BY <1>6, <2>2 DEF WriteSecondHalf, TypeOK
  <2> QED BY Zenon, <1>6, <2>1, <2>3 DEF WriteSecondHalf, Goto, TypeOK, past,
             HandleOK, AppendInv, NextHead, NewEntry, Appending, Publishing
<1>7. CASE SyncLog(q)
  <2>1. AppendInv(q) /\ h[q].failed /\ pc[q] = "written"
    BY Zenon, <1>0, <1>7 DEF SyncLog, LockInv, HandleOK, Appending
  <2> QED BY Zenon, <1>7, <2>1 DEF SyncLog, Goto, TypeOK, past, HandleOK,
             AppendInv, NextHead, NewEntry, Appending, Publishing
<1>8. CASE HeadCreate(q) \/ HeadWrite(q) \/ HeadSync(q) \/ HeadRename(q)
  <2>1. /\ pc[q] \in Publishing /\ pc'[q] \in Publishing
        /\ UNCHANGED <<log, durable, h, past>>
    BY Zenon, <1>8 DEF HeadCreate, HeadWrite, HeadSync, HeadRename, Goto,
       TypeOK, Publishing
  <2>2. pc'[q] # "head_renamed" => pc[q] # "head_renamed" /\ dir'.head = dir.head
    BY Zenon, <1>8 DEF HeadCreate, HeadWrite, HeadSync, HeadRename, SetDir,
       Goto, TypeOK, DirStates
  <2> QED BY Zenon, <1>0, <2>1, <2>2 DEF HandleOK, AppendInv, NextHead,
             NewEntry, past, Appending, Publishing
<1>9. CASE HeadCommit(q)
  <2>1. dir.head # None /\ dir.head.head = h[q].next
    BY Zenon, <1>9, RenamedHead DEF HeadCommit
  <2>2. Len(log) = h[q].next.journal_bytes
    <3>1. CASE h[q].failed
      BY <1>0, <1>9, <3>1 DEF HeadCommit, HandleOK, AppendInv, NextHead,
         Publishing
    <3>2. CASE ~h[q].failed
      BY <1>9, <3>2 DEF HeadCommit, CreateInv, CreatorInv, Creating, NewHead,
         Publishing
    <3> QED BY Zenon, <3>1, <3>2
  <2>3. /\ pc'[q] = "ready" /\ h'[q].head = h[q].next /\ h'[q].tail = 0
        /\ UNCHANGED <<dir, log>>
        /\ given' /\ exposed' = h[q].next.journal_root
    BY Zenon, <1>9 DEF HeadCommit, Goto, TypeOK, Closed
  <2> QED BY <2>1, <2>2, <2>3 DEF HandleOK, View, Appending, Publishing, TypeOK
<1>10. ASSUME NEW p \in Procs, Fail(p) \/ Leave(p)
       PROVE  HandleOK(q)'
  <2>1. CASE q # p
    BY Zenon, <1>0, <1>10, <2>1, HandleFrame DEF Fail, Leave, Release, Goto,
       disk, TypeOK
  <2>2. CASE q = p
    BY Zenon, <1>10, <2>2 DEF Fail, Leave, Release, Goto, TypeOK, HandleOK,
       Appending, Publishing
  <2> QED BY Zenon, <2>1, <2>2
<1>11. CASE PowerLoss
  BY Zenon, <1>11 DEF PowerLoss, HandleOK, Appending, Publishing
<1> QED BY Zenon, <1>1, <1>2, <1>3, <1>4, <1>5, <1>6, <1>7, <1>8, <1>9, <1>10,
           <1>11 DEF Next, AppendStep, PublishStep

\* The head under publication is the one its process has staged.
LEMMA StagedInvStep ==
  ASSUME JournalInv, Next
  PROVE  StagedInv'
<1> USE DEF JournalInv, StagedInv, LockInv, Locked, PCs
<1>1. ASSUME NEW p \in Procs, CreateStep(p) \/ OpenStep(p)
      PROVE  StagedInv'
  <2>1. CASE CreateLock(p) \/ OpenLock(p)
    BY <2>1, JournalAssumption DEF CreateLock, OpenLock, Goto, disk, TypeOK
  <2>2. CASE CreateDirectory(p) \/ CreateManifest(p) \/ CreateLog(p)
    <3>1. dir'.head = dir.head
      BY Zenon, <2>2 DEF CreateDirectory, CreateManifest, CreateLog, SetDir,
         TypeOK, DirStates
    <3>2. /\ UNCHANGED <<staged, h>>
          /\ \A q \in Procs : pc'[q] = pc[q] \/ pc'[q] \in {"made", "manifest", "log"}
      BY Zenon, <2>2 DEF CreateDirectory, CreateManifest, CreateLog, Goto,
         TypeOK
    <3> QED BY Zenon, <3>1, <3>2
  <2>3. CASE SyncParent(p) \/ WriteManifest(p) \/ SyncManifest(p) \/ SyncDirectory(p)
    BY <2>3 DEF SyncParent, WriteManifest, SyncManifest, SyncDirectory, Goto,
       TypeOK
  <2>4. CASE OpenVerify(p) \/ OpenSync(p)
    BY <2>4 DEF OpenVerify, OpenSync, Goto, disk, TypeOK
  <2> QED BY <1>1, <2>1, <2>2, <2>3, <2>4, ZenonT(20), SMTT(20) DEF CreateStep,
             OpenStep
<1>2. ASSUME NEW p \in Procs, AppendStep(p) \/ FailShortWrite(p)
      PROVE  StagedInv'
  <2>1. CASE \E e \in Events : AppendBegin(p, e)
    BY <2>1 DEF AppendBegin, Goto, disk, TypeOK
  <2>2. CASE WriteFirstHalf(p) \/ FailShortWrite(p)
    BY <2>2 DEF WriteFirstHalf, FailShortWrite, Goto, TypeOK
  <2>3. CASE WriteSecondHalf(p) \/ SyncLog(p)
    BY <2>3 DEF WriteSecondHalf, SyncLog, Goto, TypeOK
  <2> QED BY <1>2, <2>1, <2>2, <2>3, ZenonT(20), SMTT(20) DEF AppendStep
<1>3. ASSUME NEW p \in Procs, HeadCreate(p) \/ HeadCommit(p)
      PROVE  StagedInv'
  <2>1. CASE HeadCreate(p)
    <3>1. \A q \in Procs : pc'[q] \in {"closed", "made", "parent", "head_created"}
      BY Zenon, <2>1, LockExcludes DEF HeadCreate, Goto, TypeOK
    <3> QED BY Zenon, <3>1
  <2>2. CASE HeadCommit(p)
    <3>1. \A q \in Procs : pc'[q] \in {"closed", "made", "parent", "ready"}
      BY Zenon, <2>2, LockExcludes DEF HeadCommit, Goto, TypeOK
    <3> QED BY Zenon, <3>1
  <2> QED BY <1>3, <2>1, <2>2, ZenonT(20), SMTT(20)
<1>4. ASSUME NEW p \in Procs, HeadWrite(p) \/ HeadSync(p)
      PROVE  StagedInv'
  BY <1>4 DEF HeadWrite, HeadSync, Goto, TypeOK, HeadFile
<1>5. ASSUME NEW p \in Procs, HeadRename(p)
      PROVE  StagedInv'
  <2>1. staged = [head |-> h[p].next, synced |-> TRUE]
    BY <1>5, ZenonT(20), SMTT(20) DEF HeadRename, TypeOK, HeadFile
  <2> QED BY <1>5, <2>1, ZenonT(20), SMTT(20) DEF HeadRename, SetDir, Goto,
             TypeOK, DirStates
<1>6. ASSUME NEW p \in Procs, Fail(p) \/ Leave(p)
      PROVE  StagedInv'
  BY <1>6 DEF Fail, Leave, Release, Goto, disk, TypeOK
<1>7. CASE PowerLoss
  BY Zenon, <1>7 DEF PowerLoss
<1> QED BY <1>1, <1>2, <1>3, <1>4, <1>5, <1>6, <1>7, ZenonT(20), SMTT(20)
           DEF Next, PublishStep

\* Only events that were asked for reach the log.
LEMMA AskedInvStep ==
  ASSUME JournalInv, Next
  PROVE  AskedInv'
<1> USE DEF JournalInv, AskedInv
<1>1. CASE UNCHANGED log /\ asked \subseteq asked'
  BY Zenon, <1>1
<1>2. ASSUME NEW p \in Procs, CreateLog(p)
      PROVE  AskedInv'
  BY <1>2 DEF CreateLog
<1>3. ASSUME NEW p \in Procs, WriteFirstHalf(p) \/ FailShortWrite(p)
      PROVE  AskedInv'
  <2>1. log' = Append(log, Torn) /\ asked' = asked
    BY Zenon, <1>3 DEF WriteFirstHalf, FailShortWrite, past
  <2>2. /\ Len(log') = Len(log) + 1
        /\ \A i \in 1..Len(log) : log'[i] = log[i]
        /\ log'[Len(log) + 1] = Torn
    BY <2>1 DEF TypeOK
  <2>3. \A i \in 1..(Len(log) + 1) : i \in 1..Len(log) \/ i = Len(log) + 1
    BY DEF TypeOK
  <2> QED BY Zenon, <2>1, <2>2, <2>3
<1>4. ASSUME NEW p \in Procs, WriteSecondHalf(p)
      PROVE  AskedInv'
  <2>1. AppendInv(p)
    BY Zenon, <1>4 DEF WriteSecondHalf, HandleInv, HandleOK, LockInv, Appending
  <2>2. h[p].ev \in asked /\ NewEntry(p).ev = h[p].ev
    BY Zenon, <2>1 DEF AppendInv, NewEntry
  <2>3. Len(log') = Len(log) /\ asked' = asked
    BY <1>4 DEF WriteSecondHalf, past, TypeOK
  <2>4. \A i \in 1..Len(log) : log'[i] = log[i] \/ log'[i] = NewEntry(p)
    BY <1>4 DEF WriteSecondHalf, TypeOK
  <2> QED BY Zenon, <2>2, <2>3, <2>4
<1>5. CASE PowerLoss
  <2>1. CASE log' = <<>>
    BY <2>1
  <2>2. CASE log' \in Surviving
    BY <1>5, <2>2, SurvivingLog DEF PowerLoss, past, DiskInv, TypeOK
  <2> QED BY Zenon, <1>5, <2>1, <2>2 DEF PowerLoss
<1> QED
  BY <1>1, <1>2, <1>3, <1>4, <1>5, ZenonT(20), SMTT(20) DEF Next, CreateStep,
     OpenStep, AppendStep, PublishStep, CreateDirectory, SyncParent,
     CreateLock, CreateManifest, WriteManifest, SyncManifest, SyncDirectory,
     OpenLock, OpenVerify, OpenSync, AppendBegin, SyncLog, HeadCreate,
     HeadWrite, HeadSync, HeadRename, HeadCommit, Fail, Leave, disk, past

-----------------------------------------------------------------------------
(* The disk.                                                               *)

\* What DiskInv says of one directory state the disk may hold.
DirOK(d) == IF d.head = None THEN log = <<>> /\ ~given
            ELSE HeadOK(d) /\ RootOK(d.head.head.journal_root)

\* What the disk may hold is judged by the directory, the manifest, the log and
\* what was handed out.
LEMMA DiskFrame ==
  ASSUME DiskInv, UNCHANGED <<dir, dirs, manifest, log, durable, given, exposed>>
  PROVE  DiskInv'
<1>1. ASSUME NEW d, HeadOK(d)
      PROVE  HeadOK(d)'
  BY Zenon, <1>1 DEF HeadOK, scan
<1>2. ASSUME NEW r, RootOK(r)
      PROVE  RootOK(r)'
  BY Zenon, <1>2 DEF RootOK
<1> QED BY Zenon, <1>1, <1>2 DEF DiskInv

\* Until there is a head, nothing is promised.
LEMMA Headless ==
  ASSUME DiskInv, durable' \in Nat, log' = <<>>, durable' =< Len(log'), ~given,
         dir' \in dirs', dir'.made, \A d \in dirs' : d.head = None,
         UNCHANGED <<given, exposed>>
  PROVE  DiskInv'
  BY Zenon DEF DiskInv

\* A log that keeps a head's committed prefix keeps its scan.
LEMMA ScanFrame ==
  ASSUME NEW hd, scan(hd), hd.journal_bytes \in 0..Len(log'),
         \A i \in 1..hd.journal_bytes : log'[i] = log[i]
  PROVE  scan(hd)'
  BY Zenon DEF scan

\* An append's writes to the log: every head stays good.
LEMMA LogWrite ==
  ASSUME JournalInv, NEW p \in Procs, AppendInv(p), pc[p] \in Appending,
         Len(log') = Len(exposed) + 1,
         \A i \in 1..Len(exposed) : log'[i] = log[i],
         UNCHANGED <<dir, dirs, manifest, durable, given, exposed>>
  PROVE  DiskInv'
<1> USE DEF JournalInv
<1>1. given /\ durable =< Len(exposed)
  BY Zenon DEF AppendInv, Appending
<1>2. ASSUME NEW d \in dirs
      PROVE  DirOK(d)'
  <2>1. d.head # None /\ HeadOK(d) /\ RootOK(d.head.head.journal_root)
    BY Zenon, <1>1 DEF DiskInv
  <2>2. /\ d.head.head.journal_bytes \in 0..Len(exposed)
        /\ Len(exposed) =< d.head.head.journal_bytes
    BY <1>1, <2>1 DEF HeadOK, RootOK, scan, JournalHead, TypeOK
  <2>3. scan(d.head.head)'
    <3>1. /\ d.head.head.journal_bytes \in 0..Len(log')
          /\ \A i \in 1..d.head.head.journal_bytes : log'[i] = log[i]
      BY <2>2 DEF TypeOK
    <3> QED BY Zenon, <2>1, <3>1, ScanFrame DEF HeadOK
  <2> QED BY <2>1, <2>2, <2>3 DEF DirOK, HeadOK, RootOK, TypeOK, JournalHead
<1> QED BY <1>1, <1>2 DEF DiskInv, DirOK, TypeOK

\* The next head of an append passes the scan of the log it was written from.
LEMMA NextScans ==
  ASSUME JournalInv, NEW p \in Procs, AppendInv(p), pc[p] \in Publishing,
         pc[p] # "head_renamed"
  PROVE  /\ scan(h[p].next)
         /\ h[p].next \in JournalHead
         /\ h[p].next.journal_bytes = Len(log)
         /\ RootOK(h[p].next.journal_root)
<1> USE DEF JournalInv
<1> DEFINE root == h[p].next.journal_root
           n == Len(exposed)
<1>1. /\ dir.head # None /\ HeadOK(dir) /\ RootOK(exposed)
      /\ dir.head.head = h[p].head /\ h[p].head.journal_root = exposed
  BY Zenon DEF AppendInv, DiskInv
<1>2. scan(h[p].head) /\ h[p].head.journal_bytes = n /\ h[p].head.sequence = n
  BY Zenon, <1>1 DEF HeadOK, AppendInv
<1>3. n \in Nat /\ exposed \in Seq(Events) /\ h[p].ev \in Events
  BY DEF TypeOK, AppendInv
<1>4. root = Append(exposed, h[p].ev) /\ h[p].next.sequence = n + 1
      /\ h[p].next.journal_bytes = n + 1 /\ Len(log) = n + 1
  <2>1. h[p].next = NextHead(p, h[p].ev)
    BY Zenon DEF AppendInv
  <2>2. Len(log) = n + 1
    BY ZenonT(20), SMTT(20) DEF AppendInv, Publishing
  <2> QED BY <1>1, <1>2, <2>1, <2>2 DEF NextHead
<1>5. /\ root \in Seq(Events) /\ Len(root) = n + 1
      /\ \A i \in 1..n : root[i] = exposed[i]
      /\ root[n + 1] = h[p].ev
  BY <1>3, <1>4, AppendProperties
<1>6. h[p].next \in JournalHead
  BY HandleTypes, ZenonT(20), SMTT(20) DEF TypeOK
<1>7. ASSUME NEW i \in 1..(n + 1)
      PROVE  SubSeq(root, 1, i - 1) = SubSeq(exposed, 1, i - 1)
  <2>1. i - 1 \in 0..n /\ \A k \in 1..(i - 1) : k \in 1..n
    BY <1>3
  <2>2. \A k \in 1..(i - 1) : root[k] \in Events /\ exposed[k] \in Events
    BY <1>3, <1>5, <2>1
  <2> DEFINE r == SubSeq(root, 1, i - 1)
             x == SubSeq(exposed, 1, i - 1)
  <2>3. /\ r \in Seq(Events) /\ Len(r) = i - 1
        /\ \A k \in 1..(i - 1) : r[k] = root[k]
    BY <2>1, <2>2, SubSeqProperties
  <2>4. /\ x \in Seq(Events) /\ Len(x) = i - 1
        /\ \A k \in 1..(i - 1) : x[k] = exposed[k]
    BY <2>1, <2>2, SubSeqProperties
  <2>5. \A k \in 1..Len(r) : r[k] = x[k]
    BY Zenon, <1>5, <2>1, <2>3, <2>4
  <2> HIDE DEF r, x
  <2> QED BY Zenon, <2>3, <2>4, <2>5, SeqEqual DEF r, x
<1>8. ASSUME NEW i \in 1..(n + 1)
      PROVE  log[i] = [seq |-> i, prev |-> SubSeq(root, 1, i - 1), ev |-> root[i]]
  <2>1. CASE i \in 1..n
    BY <1>1, <1>2, <1>5, <1>7, <2>1, ZenonT(20), SMTT(20) DEF scan
  <2>2. CASE i = n + 1
    <3>1. log[n + 1] = NewEntry(p)
      BY <1>4, ZenonT(20), SMTT(20) DEF AppendInv
    <3>2. SubSeq(exposed, 1, n) = exposed
      BY Zenon, <1>3, SubSeqFull
    <3>3. SubSeq(root, 1, n) = exposed
      BY <1>3, <1>7, <2>2, <3>2
    <3> QED BY <1>1, <1>3, <1>4, <1>5, <2>2, <3>1, <3>3 DEF NewEntry
  <2> QED BY <1>3, <2>1, <2>2
<1>9. scan(h[p].next)
  BY <1>3, <1>4, <1>5, <1>8 DEF scan
<1>10. RootOK(root)
  <2>1. \A i, j \in 1..(n + 1) : root[i] = root[j] => i = j
    <3> SUFFICES ASSUME NEW i \in 1..(n + 1), NEW j \in 1..(n + 1), root[i] = root[j]
                 PROVE  i = j
      OBVIOUS
    <3>1. CASE i \in 1..n /\ j \in 1..n
      BY <1>1, <1>5, <3>1 DEF RootOK
    <3>2. CASE i = n + 1 \/ j = n + 1
      <4>1. \A k \in 1..n : root[k] # root[n + 1]
        BY Zenon, <1>5 DEF AppendInv
      <4> QED BY <1>3, <3>2, <4>1
    <3> QED BY <1>3, <3>1, <3>2
  <2> QED BY Zenon, <1>3, <1>5, <2>1 DEF RootOK, AppendInv
<1> QED BY Zenon, <1>4, <1>6, <1>9, <1>10

\* A directory that is synced leaves one state of it.
LEMMA Synced ==
  ASSUME JournalInv, dirs' = {dir}, dir.head # None,
         given' , exposed' = dir.head.head.journal_root,
         UNCHANGED <<dir, manifest, log, durable>>
  PROVE  DiskInv'
<1>1. HeadOK(dir) /\ RootOK(dir.head.head.journal_root)
  BY Zenon DEF JournalInv, DiskInv
<1>2. HeadOK(dir)'
  BY Zenon, <1>1 DEF HeadOK, scan
<1>3. RootOK(dir.head.head.journal_root)'
  BY Zenon, <1>1 DEF RootOK
<1> QED BY Zenon, <1>2, <1>3 DEF JournalInv, DiskInv

\* The new head of a rename is good, and the old directory states stay.
LEMMA NewDir ==
  ASSUME JournalInv, NEW d \in DirStates, dir' = d, dirs' = dirs \cup {d}, d.made,
         DirOK(d), dir.made,
         UNCHANGED <<manifest, log, durable, given, exposed>>
  PROVE  DiskInv'
<1>1. \A x \in dirs' : DirOK(x)
  BY Zenon DEF JournalInv, DiskInv, DirOK
<1>2. ASSUME NEW x \in dirs'
      PROVE  DirOK(x)'
  <2>1. DirOK(x)
    BY Zenon, <1>1
  <2> QED BY Zenon, <2>1 DEF DirOK, HeadOK, RootOK, scan
<1> QED BY Zenon, <1>2 DEF JournalInv, DiskInv, DirOK

\* A head is published where the directory, the manifest and the log are.
LEMMA PublishMade ==
  ASSUME JournalInv, NEW p \in Procs, pc[p] \in Publishing
  PROVE  /\ dir.made
         /\ pc[p] # "head_renamed" =>
              dir.manifest /\ manifest = "synced" /\ dir.log
<1>1. CASE h[p].failed
  BY Zenon, <1>1 DEF JournalInv, HandleInv, HandleOK, AppendInv, DiskInv,
     HeadOK
<1>2. CASE ~h[p].failed
  BY Zenon, <1>2 DEF JournalInv, CreateInv, CreatorInv, Creating, DiskInv
<1> QED BY Zenon, <1>1, <1>2

\* Every head the disk may hold stays good, whatever step is taken.
LEMMA DiskInvStep ==
  ASSUME JournalInv, Next
  PROVE  DiskInv'
<1> USE DEF JournalInv
<1>1. CASE UNCHANGED <<dir, dirs, manifest, log, durable, given, exposed>>
  BY Zenon, <1>1, DiskFrame
<1>2. ASSUME NEW p \in Procs, CreateStep(p), ~CreateLock(p)
      PROVE  DiskInv'
  <2>1. \A d \in dirs : d.head = None
    <3>1. CASE CreateDirectory(p)
      BY Zenon, <3>1 DEF CreateDirectory, DiskInv, HeadOK
    <3>2. CASE ~CreateDirectory(p)
      BY Zenon, <1>2, <3>2 DEF CreateStep, SyncParent, CreateManifest,
         WriteManifest, SyncManifest, CreateLog, SyncDirectory, CreateInv,
         CreatorInv, Creating, Publishing
    <3> QED BY Zenon, <3>1, <3>2
  <2>2. log = <<>> /\ ~given
    BY Zenon, <2>1 DEF DiskInv
  <2>3. dir'.made /\ dir' \in dirs' /\ \A d \in dirs' : d.head = None
    <3>1. CASE CreateDirectory(p) \/ CreateManifest(p) \/ CreateLog(p)
      BY Zenon, <2>1, <3>1 DEF CreateDirectory, CreateManifest, CreateLog,
         SetDir, DiskInv, TypeOK, DirStates, CreateInv, CreatorInv, Creating
    <3>2. CASE SyncParent(p) \/ WriteManifest(p) \/ SyncManifest(p) \/ SyncDirectory(p)
      BY Zenon, <2>1, <3>2 DEF SyncParent, WriteManifest, SyncManifest,
         SyncDirectory, sync_directory, DiskInv, CreateInv, CreatorInv,
         Creating
    <3> QED BY Zenon, <1>2, <3>1, <3>2 DEF CreateStep
  <2>4. /\ log' = <<>> /\ durable' \in {0, durable}
        /\ UNCHANGED <<given, exposed>>
    BY Zenon, <1>2, <2>2 DEF CreateStep, CreateDirectory, SyncParent,
       CreateManifest, WriteManifest, SyncManifest, CreateLog, SyncDirectory,
       past
  <2>5. durable' \in Nat /\ durable' =< Len(log')
    BY <2>2, <2>4 DEF DiskInv, TypeOK
  <2> QED BY Zenon, <2>2, <2>3, <2>4, <2>5, Headless
<1>3. ASSUME NEW p \in Procs, OpenSync(p)
      PROVE  DiskInv'
  BY Zenon, <1>3, Synced DEF OpenSync, sync_directory, HandleInv, HandleOK,
     View
<1>4. ASSUME NEW p \in Procs,
             WriteFirstHalf(p) \/ FailShortWrite(p) \/ WriteSecondHalf(p)
      PROVE  DiskInv'
  <2>1. AppendInv(p) /\ pc[p] \in Appending
    BY Zenon, <1>4 DEF WriteFirstHalf, FailShortWrite, WriteSecondHalf,
       HandleInv, HandleOK, LockInv, Appending
  <2>2. /\ Len(log') = Len(exposed) + 1
        /\ \A i \in 1..Len(exposed) : log'[i] = log[i]
    <3>1. CASE log' = Append(log, Torn) /\ pc[p] = "before"
      BY <2>1, <3>1 DEF AppendInv, TypeOK
    <3>2. CASE WriteSecondHalf(p)
      BY <2>1, <3>2 DEF WriteSecondHalf, AppendInv, TypeOK
    <3> QED BY Zenon, <1>4, <3>1, <3>2 DEF WriteFirstHalf, FailShortWrite
  <2> QED BY Zenon, <1>4, <2>1, <2>2, LogWrite DEF WriteFirstHalf,
             FailShortWrite, WriteSecondHalf, past
<1>5. ASSUME NEW p \in Procs, SyncLog(p)
      PROVE  DiskInv'
  <2>1. UNCHANGED <<dir, dirs, manifest, log, given, exposed>> /\ durable' = Len(log)
    BY Zenon, <1>5 DEF SyncLog, past
  <2>2. ASSUME NEW d \in dirs
        PROVE  DirOK(d)'
    <3>1. DirOK(d)
      BY Zenon DEF DiskInv, DirOK
    <3>2. durable =< Len(log) /\ durable \in Nat /\ Len(log) \in Nat
      BY DEF DiskInv, TypeOK
    <3>3. CASE d.head = None
      BY Zenon, <2>1, <3>1, <3>3 DEF DirOK
    <3>4. CASE d.head # None
      <4>1. HeadOK(d)'
        BY <2>1, <3>1, <3>2, <3>4 DEF DirOK, HeadOK, scan, JournalHead
      <4>2. RootOK(d.head.head.journal_root)'
        BY Zenon, <2>1, <3>1, <3>4 DEF DirOK, RootOK
      <4> QED BY Zenon, <3>4, <4>1, <4>2 DEF DirOK
    <3> QED BY Zenon, <3>3, <3>4
  <2> QED BY <2>1, <2>2 DEF DiskInv, DirOK, TypeOK
<1>6. ASSUME NEW p \in Procs, HeadCreate(p)
      PROVE  DiskInv'
  <2> DEFINE d == [dir EXCEPT !.next = TRUE]
  <2>1. dir.made /\ DirOK(dir)
    BY Zenon, <1>6, PublishMade DEF HeadCreate, Publishing, DiskInv, DirOK
  <2>2. /\ d \in DirStates /\ d.made = dir.made /\ d.head = dir.head
        /\ d.manifest = dir.manifest /\ d.log = dir.log
    BY ZenonT(20), SMTT(20) DEF TypeOK, DirStates
  <2>3. DirOK(d)
    <3>1. CASE dir.head = None
      BY Zenon, <2>1, <2>2, <3>1 DEF DirOK
    <3>2. CASE dir.head # None
      <4>1. AppendInv(p)
        BY Zenon, <1>6, <3>2 DEF HeadCreate, CreateInv, CreatorInv, Creating,
           HandleInv, HandleOK, DiskInv, Publishing
      <4>2. dir.head.head.journal_bytes < durable
        BY <1>6, <4>1 DEF HeadCreate, AppendInv, Appending, TypeOK
      <4> QED BY Zenon, <2>1, <2>2, <3>2, <4>2 DEF DirOK, HeadOK
    <3> QED BY Zenon, <3>1, <3>2
  <2>4. dir' = d /\ dirs' = dirs \cup {d}
        /\ UNCHANGED <<manifest, log, durable, given, exposed>>
    BY Zenon, <1>6 DEF HeadCreate, SetDir, past
  <2> HIDE DEF d
  <2> QED BY <2>1, <2>2, <2>3, <2>4, NewDir, ZenonT(20), SMTT(20)
<1>7. ASSUME NEW p \in Procs, HeadRename(p)
      PROVE  DiskInv'
  <2> DEFINE d == [dir EXCEPT !.head = staged, !.next = FALSE]
  <2>1. dir.made /\ pc[p] = "head_synced" /\ pc[p] \in Publishing
    BY Zenon, <1>7, PublishMade DEF HeadRename, Publishing
  <2>2. /\ d \in DirStates /\ d.made = dir.made /\ d.head = staged /\ d.next = FALSE
        /\ d.manifest = dir.manifest /\ d.log = dir.log
    BY ZenonT(20), SMTT(20) DEF TypeOK, DirStates
  <2>3. staged.head = h[p].next /\ staged.synced /\ staged # None
    BY <2>1, JournalAssumption, ZenonT(20), SMTT(20) DEF StagedInv, TypeOK
  <2>4. dir.manifest /\ manifest = "synced" /\ dir.log
    BY Zenon, <2>1, PublishMade
  <2>5. /\ scan(h[p].next) /\ h[p].next \in JournalHead
        /\ h[p].next.journal_bytes = Len(log) /\ durable = Len(log)
        /\ RootOK(h[p].next.journal_root)
    <3>1. CASE h[p].failed
      <4>1. AppendInv(p)
        BY Zenon, <2>1, <3>1 DEF HandleInv, HandleOK
      <4> QED BY <2>1, <4>1, NextScans, ZenonT(20), SMTT(20) DEF AppendInv,
                 Appending
    <3>2. CASE ~h[p].failed
      <4>1. h[p].next = NewHead /\ log = <<>> /\ durable = 0 /\ ~given /\ exposed = <<>>
        BY Zenon, <2>1, <3>2 DEF CreateInv, CreatorInv, Creating, DiskInv
      <4>2. Len(log) = 0 /\ Len(exposed) = 0
        BY Zenon, <4>1, EmptySeq
      <4>3. scan(h[p].next) /\ h[p].next.journal_bytes = 0
        BY <4>1, <4>2 DEF NewHead, scan
      <4>4. RootOK(h[p].next.journal_root)
        BY <4>1, <4>2 DEF NewHead, RootOK
      <4> QED BY <4>1, <4>2, <4>3, <4>4, HandleTypes, ZenonT(20), SMTT(20)
    <3> QED BY Zenon, <3>1, <3>2
  <2>6. DirOK(d)
    BY <2>1, <2>2, <2>3, <2>4, <2>5 DEF DirOK, HeadOK, TypeOK
  <2>7. dir' = d /\ dirs' = dirs \cup {d}
        /\ UNCHANGED <<manifest, log, durable, given, exposed>>
    BY Zenon, <1>7 DEF HeadRename, SetDir, past
  <2> HIDE DEF d
  <2> QED BY <2>1, <2>2, <2>6, <2>7, NewDir, ZenonT(20), SMTT(20)
<1>8. ASSUME NEW p \in Procs, HeadCommit(p)
      PROVE  DiskInv'
  <2>1. dir.head # None /\ dir.head.head = h[p].next
    BY Zenon, <1>8, RenamedHead DEF HeadCommit
  <2> QED BY Zenon, <1>8, <2>1, Synced DEF HeadCommit, sync_directory
<1>9. CASE PowerLoss
  <2>1. PICK d \in dirs : /\ dir' = d /\ dirs' = {d}
                          /\ IF d.log THEN log' \in Surviving ELSE log' = <<>>
                          /\ durable' = Len(log')
                          /\ d.manifest => manifest' \in {manifest} \cup
                               (IF manifest = "written" THEN {"damaged"} ELSE {})
                          /\ UNCHANGED <<given, exposed>>
    BY Zenon, <1>9 DEF PowerLoss, DiskInv, HeadOK, past
  <2>2. DirOK(d)
    BY Zenon DEF DiskInv, DirOK
  <2>3. DirOK(d)'
    <3>1. CASE d.head = None
      <4>1. log = <<>> /\ ~given
        BY Zenon, <2>2, <3>1 DEF DirOK
      <4>2. log' \in Surviving => log' \in Seq(Entries \cup {Torn}) /\ Len(log') = 0
        BY <4>1, SurvivingLog DEF DiskInv, TypeOK
      <4>3. log' = <<>>
        BY Zenon, <2>1, <4>2, EmptySeq
      <4> QED BY Zenon, <2>1, <3>1, <4>1, <4>3 DEF DirOK
    <3>2. CASE d.head # None
      <4>1. HeadOK(d) /\ RootOK(d.head.head.journal_root)
        BY Zenon, <2>2, <3>2 DEF DirOK
      <4>2. /\ log' \in Seq(Entries \cup {Torn}) /\ Len(log') \in durable..Len(log)
            /\ \A i \in 1..durable : log'[i] = log[i]
        BY Zenon, <2>1, <4>1, SurvivingLog DEF DiskInv, HeadOK
      <4>3. scan(d.head.head)'
        BY <4>1, <4>2, ScanFrame DEF HeadOK, TypeOK, JournalHead
      <4>4. d.manifest /\ manifest' = "synced"
        BY Zenon, <2>1, <4>1 DEF HeadOK
      <4>5. HeadOK(d)'
        BY <2>1, <4>1, <4>2, <4>3, <4>4 DEF HeadOK, TypeOK, JournalHead
      <4>6. RootOK(d.head.head.journal_root)'
        BY Zenon, <2>1, <4>1 DEF RootOK
      <4> QED BY Zenon, <3>2, <4>5, <4>6 DEF DirOK
    <3> QED BY Zenon, <3>1, <3>2
  <2>4. durable' =< Len(log') /\ (~given' => exposed' = <<>>)
    <3>1. Len(log') \in Nat
      BY <2>1, SurvivingLog, EmptySeq DEF DiskInv, TypeOK
    <3> QED BY <2>1, <3>1 DEF DiskInv
  <2> QED BY Zenon, <2>1, <2>3, <2>4 DEF DiskInv, DirOK
<1> QED
  BY <1>1, <1>2, <1>3, <1>4, <1>5, <1>6, <1>7, <1>8, <1>9, ZenonT(20), SMTT(20)
     DEF Next, CreateStep, OpenStep, AppendStep, PublishStep, CreateLock,
     OpenLock, OpenVerify, AppendBegin, HeadWrite, HeadSync, Fail, Leave, disk,
     past

-----------------------------------------------------------------------------
\* The initial state, before anything is on disk, satisfies the invariant.
LEMMA JournalInit == Init => JournalInv
<1> SUFFICES ASSUME Init
             PROVE  JournalInv
  OBVIOUS
<1>1. TypeOK
  BY DirTypes, HandleTypes, EmptySeq, ZenonT(20), SMTT(20) DEF Init, TypeOK,
     PCs
<1>2. DiskInv /\ AskedInv
  BY EmptySeq DEF Init, DiskInv, AskedInv, NoDir
<1>3. LockInv /\ StagedInv
  BY Zenon DEF Init, LockInv, StagedInv, Locked, Appending
<1>4. CreateInv /\ HandleInv
  BY Zenon DEF Init, CreateInv, Creating, HandleInv, HandleOK, Appending,
     Publishing
<1> QED BY Zenon, <1>1, <1>2, <1>3, <1>4 DEF JournalInv

\* Every step of create, open and append, every error and every power loss
\* preserves the invariant.
LEMMA JournalStep == JournalInv /\ [Next]_vars => JournalInv'
<1> SUFFICES ASSUME JournalInv, [Next]_vars
             PROVE  JournalInv'
  OBVIOUS
<1>1. CASE Next
  BY Zenon, <1>1, TypeOKStep, LockStep, CreateInvStep, HandleInvStep,
     StagedInvStep, AskedInvStep, DiskInvStep DEF JournalInv
<1>2. CASE UNCHANGED vars
  <2>1. TypeOK' /\ AskedInv' /\ LockInv' /\ StagedInv'
    BY Zenon, <1>2 DEF vars, disk, proc, past, JournalInv, TypeOK, AskedInv,
       LockInv, StagedInv
  <2>2. DiskInv'
    BY Zenon, <1>2, DiskFrame DEF vars, disk, past, JournalInv
  <2>3. CreateInv'
    BY Zenon, <1>2 DEF vars, disk, proc, past, JournalInv, CreateInv,
       CreatorInv, Creating
  <2>4. HandleInv'
    BY Zenon, <1>2, HandleFrame DEF vars, disk, proc, JournalInv, HandleInv
  <2> QED BY Zenon, <2>1, <2>2, <2>3, <2>4 DEF JournalInv
<1> QED BY Zenon, <1>1, <1>2

\* JournalInv holds in every reachable state of create, open and append.
THEOREM JournalInvariant == Spec => []JournalInv
  BY JournalInit, JournalStep, PTL DEF Spec

\* The invariant implies what the runs check: a head on disk always verifies,
\* covers all that was handed out, appends are never blocked by a head.next
\* left behind, and at most one record is uncommitted.
LEMMA JournalInvImplies ==
  ASSUME JournalInv
  PROVE  HeadAlwaysVerifies /\ ExposedIsDurable /\ StagingIsFree /\ OneRecordTail
<1> USE DEF JournalInv
<1>1. HeadAlwaysVerifies
  BY Zenon DEF HeadAlwaysVerifies, DiskInv, HeadOK
<1>2. ExposedIsDurable
  <2> SUFFICES ASSUME NEW d \in dirs, given
               PROVE  d.head # None /\ Covers(d.head.head)
    BY Zenon DEF ExposedIsDurable
  <2>1. d.head # None /\ RootOK(d.head.head.journal_root)
    BY Zenon DEF DiskInv
  <2> QED BY <2>1 DEF RootOK, Covers, TypeOK
<1>3. StagingIsFree
  <2> SUFFICES ASSUME NEW p \in Procs, pc[p] = "ready", ~h[p].failed, h[p].tail = 0
               PROVE  ~dir.next
    BY Zenon DEF StagingIsFree
  <2>1. View(p) /\ h[p].head \in JournalHead
    BY HandleTypes, ZenonT(20), SMTT(20) DEF HandleInv, HandleOK, TypeOK
  <2>2. Len(log) = dir.head.head.journal_bytes
    BY <2>1 DEF View, TypeOK, JournalHead
  <2>3. HeadOK(dir) /\ durable =< Len(log)
    BY Zenon, <2>1 DEF View, DiskInv
  <2> QED BY <2>2, <2>3 DEF HeadOK, TypeOK
<1>4. OneRecordTail
  <2>1. CASE dir.head = None
    BY <2>1, EmptySeq DEF OneRecordTail, DiskInv
  <2>2. CASE dir.head # None
    BY <2>2 DEF OneRecordTail, DiskInv, HeadOK, TypeOK, JournalHead
  <2> QED BY Zenon, <2>1, <2>2
<1> QED BY Zenon, <1>1, <1>2, <1>3, <1>4

\* Whatever a power loss leaves of publish_head's work, a head on disk passes
\* the checks of Journal::open.
THEOREM HeadsVerify == Spec => []HeadAlwaysVerifies
  BY JournalInvariant, JournalInvImplies, PTL

\* Every head the disk may hold covers what create, open and append returned.
THEOREM ExposedSurvives == Spec => []ExposedIsDurable
  BY JournalInvariant, JournalInvImplies, PTL

\* A handle that may append is never blocked by a head.next left behind.
THEOREM AppendsUnblocked == Spec => []StagingIsFree
  BY JournalInvariant, JournalInvImplies, PTL

\* At most one record lies beyond the head, however many appends failed.
THEOREM TailIsOneRecord == Spec => []OneRecordTail
  BY JournalInvariant, JournalInvImplies, PTL

\* What a head may add to what was handed out: nothing, or one event that was
\* asked for and is not in it yet.
LEMMA RootStep ==
  ASSUME JournalInv, NEW d \in dirs, d.head # None
  PROVE  LET root == d.head.head.journal_root
         IN  \/ root = exposed
             \/ \E e \in Events : /\ e \in asked
                                  /\ \A i \in 1..Len(exposed) : exposed[i] # e
                                  /\ root = Append(exposed, e)
<1> USE DEF JournalInv
<1> DEFINE root == d.head.head.journal_root
           n == Len(exposed)
<1>1. HeadOK(d) /\ RootOK(root)
  BY Zenon DEF DiskInv
<1>2. root \in Seq(Events) /\ exposed \in Seq(Events) /\ n \in Nat
  BY <1>1 DEF HeadOK, JournalHead, TypeOK
<1>3. CASE Len(root) = n
  <2>1. root = exposed
    BY Zenon, <1>1, <1>2, <1>3, SeqEqual DEF RootOK
  <2> QED BY Zenon, <2>1
<1>4. CASE Len(root) = n + 1
  <2> DEFINE e == root[n + 1]
             t == Append(exposed, e)
  <2>1. e \in Events
    BY <1>2, <1>4
  <2>2. \A i \in 1..n : exposed[i] # e
    BY <1>1, <1>2, <1>4 DEF RootOK
  <2>3. root = t
    <3>1. /\ t \in Seq(Events) /\ Len(t) = n + 1 /\ t[n + 1] = e
          /\ \A i \in 1..n : t[i] = exposed[i]
      BY <1>2, <2>1, AppendProperties
    <3>2. \A i \in 1..(n + 1) : root[i] = t[i]
      BY <1>1, <1>2, <3>1 DEF RootOK
    <3> HIDE DEF t
    <3> QED BY Zenon, <1>2, <1>4, <3>1, <3>2, SeqEqual
  <2>4. e \in asked
    <3>1. scan(d.head.head) /\ d.head.head.journal_bytes = n + 1
      BY Zenon, <1>1, <1>4 DEF HeadOK, scan
    <3>2. n + 1 \in 1..Len(log) /\ n + 1 \in Nat \ {0}
      BY <1>2, <3>1 DEF scan, TypeOK
    <3>3. log[n + 1] = [seq |-> n + 1, prev |-> SubSeq(root, 1, (n + 1) - 1), ev |-> e]
      <4>1. n + 1 \in 1..(n + 1)
        BY <1>2
      <4>2. \A i \in 1..(n + 1) :
              log[i] = [seq |-> i, prev |-> SubSeq(root, 1, i - 1), ev |-> root[i]]
        BY Zenon, <3>1 DEF scan
      <4> QED BY Zenon, <4>1, <4>2
    <3>4. SubSeq(root, 1, (n + 1) - 1) \in Seq(Events)
      BY <1>2, <1>4, SubSeqProperties
    <3>5. log[n + 1] \in Entries /\ log[n + 1].ev = e
      BY <2>1, <3>2, <3>3, <3>4 DEF Entries
    <3> QED BY Zenon, <3>2, <3>5, JournalAssumption DEF AskedInv
  <2> QED BY Zenon, <2>1, <2>2, <2>3, <2>4
<1> QED BY Zenon, <1>1, <1>3, <1>4 DEF RootOK

\* Every step of the journal is a step of the append-only log, or none of it.
LEMMA JournalRefines ==
  ASSUME JournalInv, [Next]_vars
  PROVE  [CL!Next]_<<exposed, asked>>
<1> USE DEF JournalInv
<1>1. CASE UNCHANGED <<exposed, asked>>
  BY Zenon, <1>1
<1>2. ASSUME NEW p \in Procs, NEW e \in Events, AppendBegin(p, e)
      PROVE  CL!Next
  BY Zenon, <1>2 DEF AppendBegin, CL!Next, CL!Ask
<1>3. ASSUME NEW p \in Procs, OpenSync(p) \/ HeadCommit(p)
      PROVE  [CL!Next]_<<exposed, asked>>
  <2>1. /\ dir \in dirs /\ dir.head # None
        /\ exposed' = dir.head.head.journal_root
        /\ asked' = asked
    <3>1. CASE OpenSync(p)
      BY Zenon, <3>1 DEF OpenSync, HandleInv, HandleOK, View, DiskInv
    <3>2. CASE HeadCommit(p)
      BY Zenon, <3>2, RenamedHead DEF HeadCommit, DiskInv
    <3> QED BY Zenon, <1>3, <3>1, <3>2
  <2>2. CASE dir.head.head.journal_root = exposed
    BY Zenon, <2>1, <2>2
  <2>3. CASE dir.head.head.journal_root # exposed
    BY Zenon, <2>1, <2>3, RootStep DEF CL!Next, CL!Commit
  <2> QED BY Zenon, <2>2, <2>3
<1>4. CASE PowerLoss \/ UNCHANGED vars
  BY Zenon, <1>4 DEF PowerLoss, vars, past
<1> QED
  BY <1>1, <1>2, <1>3, <1>4 DEF Next, CreateStep, OpenStep, AppendStep,
     PublishStep, CreateDirectory, SyncParent, CreateLock, CreateManifest,
     WriteManifest, SyncManifest, CreateLog, SyncDirectory, OpenLock,
     OpenVerify, WriteFirstHalf, WriteSecondHalf, SyncLog, HeadCreate,
     HeadWrite, HeadSync, HeadRename, Fail, FailShortWrite, Leave, past

\* The journal on disk implements the append-only log: for any number of
\* processes, appends, errors, kills and power losses, what create, open and
\* append hand out only grows, by one event that was asked for at a time.
THEOREM JournalIsCommittedLog == Spec => ImplementsCommittedLog
<1>1. Init => CL!Init
  BY Zenon DEF Init, CL!Init
<1> QED BY <1>1, JournalInvariant, JournalRefines, PTL DEF Spec,
           ImplementsCommittedLog, CL!Spec

=============================================================================
