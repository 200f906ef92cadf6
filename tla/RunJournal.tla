----------------------------- MODULE RunJournal -----------------------------
(***************************************************************************)
(* The journal of a run on disk: Journal::create, open and append, with    *)
(* publish_head, under I/O errors, killed processes and power loss.        *)
(*                                                                         *)
(* `dir', `log' and `manifest' are what every process sees (the page       *)
(* cache).  `dirs' holds every state of the directory the disk may have    *)
(* since the directory was last synced, `durable' the number of log        *)
(* records known to be on disk.  A killed process leaves the page cache    *)
(* alone; a power loss picks what the disk had.                            *)
(*                                                                         *)
(* A digest is injective, so the root of a hash chain is represented by    *)
(* the sequence of events it covers, and the digest of an entry by its     *)
(* `prev' with its event appended.  Lengths are counted in records; a      *)
(* record cut short is `Torn'.                                             *)
(***************************************************************************)
EXTENDS Integers, Sequences, FiniteSets

CONSTANTS
    Procs,     \* processes that use the run directory
    Events,    \* requests to append, each made once
    None,      \* no lock holder, no file, no head
    Torn       \* a record that does not parse

VARIABLES
    dir,       \* directory entries: made, manifest, log, head, next
    dirs,      \* the states of `dir' a power loss may leave
    manifest,  \* manifest.json: none, damaged (does not parse), written, synced
    log,       \* journal.jsonl, record by record
    durable,   \* records of the log that are synced
    staged,    \* content of head.next
    lock,      \* holder of .writer.lock
    pc, h,     \* each process: where it is, and its handle
    asked,     \* history: events submitted so far
    given,     \* history: a handle has been handed to some caller
    exposed    \* history: the events under the last head handed out

disk == <<dir, dirs, manifest, log, durable, staged>>
proc == <<lock, pc, h>>
past == <<asked, given, exposed>>
vars == <<disk, proc, past>>

-----------------------------------------------------------------------------
Entries == [seq: Nat \ {0}, prev: Seq(Events), ev: Events]
JournalHead == [sequence: Nat, journal_root: Seq(Events), journal_bytes: Nat]
Garbage == [sequence |-> 0, journal_root |-> <<>>, journal_bytes |-> -1]
HeadFile == [head: JournalHead \cup {Garbage}, synced: BOOLEAN]

NewHead == [sequence |-> 0, journal_root |-> <<>>, journal_bytes |-> 0]
NoDir   == [made |-> FALSE, manifest |-> FALSE, log |-> FALSE,
            head |-> None, next |-> FALSE]
Closed  == [head |-> NewHead, tail |-> 0, failed |-> FALSE, next |-> NewHead,
            ev |-> None]

ASSUME JournalAssumption ==
    /\ None \notin Procs \cup HeadFile
    /\ Torn \notin Entries

PCs == {"closed", "made", "parent", "locked", "manifest", "manifest_written",
        "manifest_synced", "log", "opening", "verified", "ready", "before",
        "partial", "written", "publish", "head_created", "head_written",
        "head_synced", "head_renamed"}

\* The scan of a head's committed prefix: dense sequence numbers, an unbroken
\* chain from the manifest, and the root and length the head claims.
scan(hd) ==
    /\ hd.journal_bytes \in 0..Len(log)
    /\ hd.sequence = hd.journal_bytes
    /\ Len(hd.journal_root) = hd.sequence
    /\ \A i \in 1..hd.journal_bytes :
         log[i] = [seq |-> i, prev |-> SubSeq(hd.journal_root, 1, i - 1),
                   ev |-> hd.journal_root[i]]

\* A change of the directory is not on disk before the directory is synced.
SetDir(d) == dir' = d /\ dirs' = dirs \cup {d}

sync_directory == dirs' = {dir}

Goto(p, l) == pc' = [pc EXCEPT ![p] = l]

Init ==
    /\ dir = NoDir /\ dirs = {NoDir}
    /\ manifest = "none"
    /\ log = <<>> /\ durable = 0
    /\ staged = [head |-> Garbage, synced |-> FALSE]
    /\ lock = None
    /\ pc = [p \in Procs |-> "closed"]
    /\ h = [p \in Procs |-> Closed]
    /\ asked = {} /\ given = FALSE /\ exposed = <<>>

-----------------------------------------------------------------------------
(* Journal::create, up to the first head.                                  *)

CreateDirectory(p) ==
    /\ pc[p] = "closed"
    /\ ~dir.made
    /\ SetDir([dir EXCEPT !.made = TRUE])
    /\ Goto(p, "made")
    /\ UNCHANGED <<manifest, log, durable, staged, lock, h, past>>

SyncParent(p) ==
    /\ pc[p] = "made"
    /\ sync_directory
    /\ Goto(p, "parent")
    /\ UNCHANGED <<dir, manifest, log, durable, staged, lock, h, past>>

CreateLock(p) ==
    /\ pc[p] = "parent"
    /\ lock = None
    /\ lock' = p
    /\ Goto(p, "locked")
    /\ UNCHANGED <<disk, h, past>>

CreateManifest(p) ==
    /\ pc[p] = "locked"
    /\ ~dir.manifest
    /\ SetDir([dir EXCEPT !.manifest = TRUE])
    /\ manifest' = "damaged"
    /\ Goto(p, "manifest")
    /\ UNCHANGED <<log, durable, staged, lock, h, past>>

WriteManifest(p) ==
    /\ pc[p] = "manifest"
    /\ manifest' = "written"
    /\ Goto(p, "manifest_written")
    /\ UNCHANGED <<dir, dirs, log, durable, staged, lock, h, past>>

SyncManifest(p) ==
    /\ pc[p] = "manifest_written"
    /\ manifest' = "synced"
    /\ Goto(p, "manifest_synced")
    /\ UNCHANGED <<dir, dirs, log, durable, staged, lock, h, past>>

CreateLog(p) ==
    /\ pc[p] = "manifest_synced"
    /\ ~dir.log
    /\ SetDir([dir EXCEPT !.log = TRUE])
    /\ log' = <<>> /\ durable' = 0
    /\ Goto(p, "log")
    /\ UNCHANGED <<manifest, staged, lock, h, past>>

SyncDirectory(p) ==
    /\ pc[p] = "log"
    /\ sync_directory
    /\ Goto(p, "publish")
    /\ UNCHANGED <<dir, manifest, log, durable, staged, lock, h, past>>

-----------------------------------------------------------------------------
(* Journal::open.                                                          *)

OpenLock(p) ==
    /\ pc[p] = "closed"
    /\ dir.made
    /\ lock = None
    /\ lock' = p
    /\ Goto(p, "opening")
    /\ UNCHANGED <<disk, h, past>>

\* The manifest, the head and every committed entry are verified.  What lies
\* beyond the head is only counted.
OpenVerify(p) ==
    /\ pc[p] = "opening"
    /\ dir.manifest /\ manifest \in {"written", "synced"}
    /\ dir.head # None
    /\ dir.log
    /\ scan(dir.head.head)
    /\ h' = [h EXCEPT ![p] =
               [Closed EXCEPT !.head = dir.head.head,
                              !.tail = Len(log) - dir.head.head.journal_bytes]]
    /\ Goto(p, "verified")
    /\ UNCHANGED <<disk, lock, past>>

\* Mutant: the verified head is handed out before it is durable.
OpenUnsynced(p) ==
    /\ pc[p] = "verified"
    /\ exposed' = h[p].head.journal_root
    /\ given' = TRUE
    /\ Goto(p, "ready")
    /\ UNCHANGED <<disk, lock, h, asked>>

\* A killed writer may have renamed a head without syncing the directory.
OpenSync(p) ==
    /\ pc[p] = "verified"
    /\ sync_directory
    /\ exposed' = h[p].head.journal_root
    /\ given' = TRUE
    /\ Goto(p, "ready")
    /\ UNCHANGED <<dir, manifest, log, durable, staged, lock, h, asked>>

-----------------------------------------------------------------------------
(* Journal::append, up to the next head.                                   *)

NextHead(p, e) ==
    [sequence      |-> h[p].head.sequence + 1,
     journal_root  |-> Append(h[p].head.journal_root, e),
     journal_bytes |-> h[p].head.journal_bytes + 1]

\* Mutant: an uncommitted tail does not block appends.
AppendOverTail(p, e) ==
    /\ pc[p] = "ready"
    /\ e \notin asked
    /\ asked' = asked \cup {e}
    /\ ~h[p].failed
    /\ h' = [h EXCEPT ![p] = [@ EXCEPT !.failed = TRUE, !.ev = e,
                                      !.next = NextHead(p, e)]]
    /\ Goto(p, "before")
    /\ UNCHANGED <<disk, lock, given, exposed>>

\* A poisoned handle and an uncommitted tail refuse; otherwise the handle is
\* poisoned until the append has succeeded.
AppendBegin(p, e) ==
    /\ pc[p] = "ready"
    /\ e \notin asked
    /\ asked' = asked \cup {e}
    /\ ~h[p].failed
    /\ h[p].tail = 0
    /\ h' = [h EXCEPT ![p] = [@ EXCEPT !.failed = TRUE, !.ev = e,
                                      !.next = NextHead(p, e)]]
    /\ Goto(p, "before")
    /\ UNCHANGED <<disk, lock, given, exposed>>

WriteFirstHalf(p) ==
    /\ pc[p] = "before"
    /\ log' = Append(log, Torn)
    /\ Goto(p, "partial")
    /\ UNCHANGED <<dir, dirs, manifest, durable, staged, lock, h, past>>

NewEntry(p) ==
    [seq |-> h[p].next.sequence, prev |-> h[p].head.journal_root, ev |-> h[p].ev]

WriteSecondHalf(p) ==
    /\ pc[p] = "partial"
    /\ log' = [log EXCEPT ![Len(log)] = NewEntry(p)]
    /\ Goto(p, "written")
    /\ UNCHANGED <<dir, dirs, manifest, durable, staged, lock, h, past>>

\* Mutant: the entry is not synced before the head is published.
SyncLogSkipped(p) ==
    /\ pc[p] = "written"
    /\ Goto(p, "publish")
    /\ UNCHANGED <<disk, lock, h, past>>

SyncLog(p) ==
    /\ pc[p] = "written"
    /\ durable' = Len(log)
    /\ Goto(p, "publish")
    /\ UNCHANGED <<dir, dirs, manifest, log, staged, lock, h, past>>

-----------------------------------------------------------------------------
(* publish_head, for create and append alike.                              *)

\* O_EXCL: a head.next left behind is an error.
HeadCreate(p) ==
    /\ pc[p] = "publish"
    /\ ~dir.next
    /\ SetDir([dir EXCEPT !.next = TRUE])
    /\ staged' = [head |-> Garbage, synced |-> FALSE]
    /\ Goto(p, "head_created")
    /\ UNCHANGED <<manifest, log, durable, lock, h, past>>

HeadWrite(p) ==
    /\ pc[p] = "head_created"
    /\ staged' = [staged EXCEPT !.head = h[p].next]
    /\ Goto(p, "head_written")
    /\ UNCHANGED <<dir, dirs, manifest, log, durable, lock, h, past>>

HeadSync(p) ==
    /\ pc[p] = "head_written"
    /\ staged' = [staged EXCEPT !.synced = TRUE]
    /\ Goto(p, "head_synced")
    /\ UNCHANGED <<dir, dirs, manifest, log, durable, lock, h, past>>

\* Mutant: the new head is linked, and head.next stays.
HeadLink(p) ==
    /\ pc[p] = "head_synced"
    /\ SetDir([dir EXCEPT !.head = staged])
    /\ Goto(p, "head_renamed")
    /\ UNCHANGED <<manifest, log, durable, staged, lock, h, past>>

HeadRename(p) ==
    /\ pc[p] = "head_synced"
    /\ SetDir([dir EXCEPT !.head = staged, !.next = FALSE])
    /\ Goto(p, "head_renamed")
    /\ UNCHANGED <<manifest, log, durable, staged, lock, h, past>>

\* Mutant: success is reported before the directory is synced.
HeadCommitUnsynced(p) ==
    /\ pc[p] = "head_renamed"
    /\ exposed' = h[p].next.journal_root
    /\ given' = TRUE
    /\ h' = [h EXCEPT ![p] = [Closed EXCEPT !.head = h[p].next]]
    /\ Goto(p, "ready")
    /\ UNCHANGED <<disk, lock, asked>>

\* The directory is synced: create or append returns and the new head is the
\* caller's.
HeadCommit(p) ==
    /\ pc[p] = "head_renamed"
    /\ sync_directory
    /\ exposed' = h[p].next.journal_root
    /\ given' = TRUE
    /\ h' = [h EXCEPT ![p] = [Closed EXCEPT !.head = h[p].next]]
    /\ Goto(p, "ready")
    /\ UNCHANGED <<dir, manifest, log, durable, staged, lock, asked>>

-----------------------------------------------------------------------------
(* Failures.                                                               *)

Release(p) ==
    /\ lock' = IF lock = p THEN None ELSE lock
    /\ Goto(p, "closed")
    /\ h' = [h EXCEPT ![p] = Closed]

\* The lock is held, a file exists that must not, or is missing or invalid,
\* or a system call fails: create and open return an error; append returns
\* one and leaves the handle poisoned.
Fail(p) ==
    /\ pc[p] \notin {"closed", "ready"}
    /\ IF h[p].failed THEN Goto(p, "ready") /\ UNCHANGED <<lock, h>>
       ELSE Release(p)
    /\ UNCHANGED <<disk, past>>

\* The first write fails after some of its bytes.
FailShortWrite(p) ==
    /\ pc[p] = "before"
    /\ log' = Append(log, Torn)
    /\ Goto(p, "ready")
    /\ UNCHANGED <<dir, dirs, manifest, durable, staged, lock, h, past>>

\* The process drops its handle or is killed: its lock goes with it.
Leave(p) ==
    /\ pc[p] # "closed"
    /\ Release(p)
    /\ UNCHANGED <<disk, past>>

\* Unsynced log records are lost from some point on, and the last of those
\* that are left may be damaged.
Surviving ==
    {SubSeq(log, 1, n) : n \in durable..Len(log)} \cup
    {Append(SubSeq(log, 1, n), Torn) : n \in durable..(Len(log) - 1)}

\* A file that was not synced may hold anything.
PowerLoss ==
    /\ \E d \in dirs :
         /\ \/ dir' = d
            \/ /\ d.head # None
               /\ ~d.head.synced
               /\ dir' = [d EXCEPT !.head.head = Garbage]
         /\ dirs' = {dir'}
         /\ IF d.log THEN log' \in Surviving ELSE log' = <<>>
         /\ durable' = Len(log')
         /\ IF ~d.manifest THEN manifest' = "none"
            ELSE manifest' \in {manifest} \cup
                               (IF manifest = "written" THEN {"damaged"} ELSE {})
    /\ lock' = None
    /\ pc' = [p \in Procs |-> "closed"]
    /\ h' = [p \in Procs |-> Closed]
    /\ UNCHANGED <<staged, past>>

-----------------------------------------------------------------------------
CreateStep(p) ==
    \/ CreateDirectory(p) \/ SyncParent(p) \/ CreateLock(p)
    \/ CreateManifest(p) \/ WriteManifest(p) \/ SyncManifest(p)
    \/ CreateLog(p) \/ SyncDirectory(p)

OpenStep(p) == OpenLock(p) \/ OpenVerify(p) \/ OpenSync(p)

AppendStep(p) ==
    \/ \E e \in Events : AppendBegin(p, e)
    \/ WriteFirstHalf(p) \/ WriteSecondHalf(p) \/ SyncLog(p)

PublishStep(p) ==
    \/ HeadCreate(p) \/ HeadWrite(p) \/ HeadSync(p) \/ HeadRename(p)
    \/ HeadCommit(p)

Next ==
    \/ \E p \in Procs :
         \/ CreateStep(p) \/ OpenStep(p) \/ AppendStep(p) \/ PublishStep(p)
         \/ Fail(p) \/ FailShortWrite(p) \/ Leave(p)
    \/ PowerLoss

Spec == Init /\ [][Next]_vars

-----------------------------------------------------------------------------
DirStates == [made: BOOLEAN, manifest: BOOLEAN, log: BOOLEAN,
              head: HeadFile \cup {None}, next: BOOLEAN]
Handles == [head: JournalHead, tail: Nat, failed: BOOLEAN, next: JournalHead,
            ev: Events \cup {None}]

TypeOK ==
    /\ dir \in DirStates
    /\ dirs \subseteq DirStates
    /\ manifest \in {"none", "written", "synced", "damaged"}
    /\ log \in Seq(Entries \cup {Torn})
    /\ durable \in Nat
    /\ staged \in HeadFile
    /\ lock \in Procs \cup {None}
    /\ pc \in [Procs -> PCs]
    /\ h \in [Procs -> Handles]
    /\ asked \subseteq Events
    /\ given \in BOOLEAN
    /\ exposed \in Seq(Events)

-----------------------------------------------------------------------------
(* Properties.                                                             *)

\* "Corrupt or missing committed data returns an error": the writer itself
\* never produces any.  Whatever directory state a power loss leaves, a head
\* in it is intact, has its manifest and log beside it, and covers only
\* entries that are on disk and form an unbroken chain, so open succeeds.
HeadAlwaysVerifies ==
    \A d \in dirs :
        d.head # None =>
            /\ d.manifest /\ manifest = "synced" /\ d.log
            /\ d.head.synced
            /\ d.head.head.journal_bytes =< durable
            /\ scan(d.head.head)

\* The head covers every event handed out so far, in place.
Covers(hd) ==
    /\ Len(exposed) =< Len(hd.journal_root)
    /\ \A i \in 1..Len(exposed) : hd.journal_root[i] = exposed[i]

\* What a caller has been told, by append, create or open, survives any power
\* loss: every head the disk may hold covers the last one handed out.
ExposedIsDurable ==
    \A d \in dirs :
        given => /\ d.head # None
                 /\ Covers(d.head.head)

\* A handle that may append finds no head.next in its way: a leftover one
\* always comes with an uncommitted tail, so reopening after any failure
\* never yields a handle whose every append would fail.
StagingIsFree ==
    \A p \in Procs :
        pc[p] = "ready" /\ ~h[p].failed /\ h[p].tail = 0 => ~dir.next

\* Uncommitted bytes never exceed one record, over any number of failures and
\* restarts: a tail blocks appends until it is gone.
OneRecordTail ==
    Len(log) =< 1 + (IF dir.head = None THEN 0 ELSE dir.head.head.journal_bytes)

\* The journal implements an append-only log: what has been handed out only
\* grows, by one event that was asked for and is not in it yet.
CL == INSTANCE CommittedLog WITH log <- exposed

ImplementsCommittedLog == CL!Spec

-----------------------------------------------------------------------------
(* The inductive invariant behind the properties.                          *)

Locked     == PCs \ {"closed", "made", "parent"}
Appending  == {"before", "partial", "written"}
Publishing == {"publish", "head_created", "head_written", "head_synced",
               "head_renamed"}

Creating(p) ==
    \/ pc[p] \in {"made", "parent", "locked", "manifest", "manifest_written",
                  "manifest_synced", "log"}
    \/ pc[p] \in Publishing /\ ~h[p].failed

\* What holds of a head wherever the disk may have one.
HeadOK(d) ==
    /\ d.made /\ d.manifest /\ manifest = "synced" /\ d.log
    /\ d.head.synced
    /\ d.head.head \in JournalHead
    /\ d.head.head.journal_bytes =< durable
    /\ scan(d.head.head)
    /\ Len(log) =< d.head.head.journal_bytes + 1
    /\ d.next => d.head.head.journal_bytes < durable

\* It is at most one event ahead of what was handed out, with no event twice.
RootOK(root) ==
    /\ Len(root) \in {Len(exposed), Len(exposed) + 1}
    /\ \A i \in 1..Len(exposed) : root[i] = exposed[i]
    /\ \A i, j \in 1..Len(root) : root[i] = root[j] => i = j
    /\ ~given => root = <<>>

DiskInv ==
    /\ dir \in dirs
    /\ ~dir.made => dirs = {dir}
    /\ durable =< Len(log)
    /\ ~given => exposed = <<>>
    /\ \A d \in dirs : IF d.head = None THEN log = <<>> /\ ~given
                       ELSE HeadOK(d) /\ RootOK(d.head.head.journal_root)

\* Every event in the log was asked for.
AskedInv == \A i \in 1..Len(log) : log[i] # Torn => log[i].ev \in asked

LockInv ==
    \A p \in Procs :
        /\ pc[p] \in Locked => lock = p
        /\ pc[p] \notin {"verified", "ready"} \cup Appending \cup Publishing =>
             h[p] = Closed
        /\ pc[p] = "verified" => ~h[p].failed
        /\ pc[p] \in Appending => h[p].failed

\* There is no head before the creator has renamed one.
CreatorInv(p) ==
    /\ dir.made
    /\ pc[p] # "head_renamed" => \A d \in dirs : d.head = None
    /\ pc[p] \in {"manifest", "manifest_written", "manifest_synced", "log"} =>
         dir.manifest
    /\ pc[p] \in {"manifest_synced", "log"} \cup Publishing => manifest = "synced"
    /\ pc[p] = "log" => dir.log
    /\ pc[p] \in Publishing =>
         /\ h[p].next = NewHead
         /\ log = <<>> /\ durable = 0 /\ ~given
         /\ \A d \in dirs : d.manifest /\ d.log

CreateInv ==
    /\ \A p, q \in Procs : Creating(p) /\ Creating(q) => p = q
    /\ \A p \in Procs : Creating(p) => CreatorInv(p)

\* The handle's head is the one in the directory.
View(p) ==
    /\ dir.head # None
    /\ h[p].head = dir.head.head
    /\ h[p].tail = Len(log) - h[p].head.journal_bytes

\* An append under way, from a head that is still the last one handed out.
AppendInv(p) ==
    /\ given /\ exposed = h[p].head.journal_root
    /\ pc[p] # "head_renamed" => dir.head # None /\ dir.head.head = h[p].head
    /\ h[p].ev \in asked
    /\ \A i \in 1..Len(exposed) : exposed[i] # h[p].ev
    /\ h[p].head.sequence = Len(exposed)
    /\ h[p].head.journal_bytes = Len(exposed)
    /\ h[p].next = NextHead(p, h[p].ev)
    /\ Len(log) = Len(exposed) + (IF pc[p] = "before" THEN 0 ELSE 1)
    /\ pc[p] = "written" \/ pc[p] \in Publishing => log[Len(log)] = NewEntry(p)
    /\ IF pc[p] \in Appending THEN durable =< Len(exposed) ELSE durable = Len(log)

HandleOK(p) ==
    /\ pc[p] = "verified" \/ (pc[p] = "ready" /\ ~h[p].failed) => View(p)
    /\ pc[p] = "ready" /\ ~h[p].failed => given /\ exposed = h[p].head.journal_root
    /\ pc[p] \in Appending \cup Publishing /\ h[p].failed => AppendInv(p)

HandleInv == \A p \in Procs : HandleOK(p)

StagedInv ==
    \A p \in Procs :
        /\ pc[p] \in {"head_written", "head_synced"} => staged.head = h[p].next
        /\ pc[p] = "head_synced" => staged.synced
        /\ pc[p] = "head_renamed" => dir.head = [head |-> h[p].next, synced |-> TRUE]

JournalInv ==
    /\ TypeOK /\ DiskInv /\ AskedInv /\ LockInv /\ CreateInv /\ HandleInv
    /\ StagedInv

=============================================================================
