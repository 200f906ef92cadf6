------------------------------ MODULE BaseRootfs ------------------------------
(***************************************************************************)
(* ImageService::prepare_base_rootfs: the shared rootfs of an image, which *)
(* platforms without overlayfs copy per container.  Callers run on blocking *)
(* threads; a per-image entry in `extracting` is the lock, a `.complete`   *)
(* file says that images/<name>/rootfs is whole.  A directory is the set   *)
(* of <<manifest, layer number>> unpacked into it.                         *)
(***************************************************************************)
EXTENDS Naturals

CONSTANTS Callers,     \* threads that prepare a rootfs
          Images,      \* image names
          ImageOf,     \* [Callers -> Images]
          Versions,    \* manifests a tag has named
          Layers,      \* layers per manifest
          MaxCrashes

Absent == {<<"absent", 0>>}      \* no such directory

VARIABLES
    temp,        \* [Images -> .rootfs-extracting]
    rootfs,      \* [Images -> rootfs]
    marker,      \* images with a .complete file
    extracting,  \* images some caller is extracting
    linked,      \* [Images -> manifest the reference names]
    pc, version, next,   \* per caller: its locals
    crashes

vars == <<temp, rootfs, marker, extracting, linked, pc, version, next, crashes>>

Whole(v) == {<<v, i>> : i \in 1..Layers}

\* Fast path: the marker is enough.  version[c] remembers which manifest the
\* reference names when the call begins.
Begin(c) ==
    /\ pc[c] = "begin"
    /\ pc' = [pc EXCEPT ![c] = IF ImageOf[c] \in marker THEN "ok" ELSE "lock"]
    /\ version' = [version EXCEPT ![c] = linked[ImageOf[c]]]
    /\ UNCHANGED <<temp, rootfs, marker, extracting, linked, next, crashes>>

\* One turn of the spin loop that finds the image free: the marker is read
\* again under the mutex.
AcquireLock(c) ==
    /\ pc[c] = "lock"
    /\ ImageOf[c] \notin extracting
    /\ IF ImageOf[c] \in marker
       THEN pc' = [pc EXCEPT ![c] = "ok"] /\ UNCHANGED extracting
       ELSE /\ pc' = [pc EXCEPT ![c] = "clean"]
            /\ extracting' = extracting \cup {ImageOf[c]}
    /\ UNCHANGED <<temp, rootfs, marker, linked, version, next, crashes>>

\* Remove what an earlier extraction left, load the manifest, create the
\* staging directory.
Clean(c) ==
    /\ pc[c] = "clean"
    /\ temp' = [temp EXCEPT ![ImageOf[c]] = {}]
    /\ version' = [version EXCEPT ![c] = linked[ImageOf[c]]]
    /\ next' = [next EXCEPT ![c] = 1]
    /\ pc' = [pc EXCEPT ![c] = "unpack"]
    /\ UNCHANGED <<rootfs, marker, extracting, linked, crashes>>

\* prepare_rootfs unpacks the next layer; the directory is made again if it
\* is gone.
UnpackLayer(c) ==
    /\ pc[c] = "unpack" /\ next[c] <= Layers
    /\ temp' = [temp EXCEPT ![ImageOf[c]] = (@ \ Absent) \cup {<<version[c], next[c]>>}]
    /\ next' = [next EXCEPT ![c] = @ + 1]
    /\ UNCHANGED <<rootfs, marker, extracting, linked, pc, version, crashes>>

\* A layer does not open or unpack: the lock is released and the error
\* returned.
UnpackFails(c) ==
    /\ pc[c] = "unpack" /\ next[c] <= Layers
    /\ extracting' = extracting \ {ImageOf[c]}
    /\ pc' = [pc EXCEPT ![c] = "failed"]
    /\ UNCHANGED <<temp, rootfs, marker, linked, version, next, crashes>>

\* The lock is released as soon as the layers are unpacked.
ReleaseLock(c) ==
    /\ pc[c] = "unpack" /\ next[c] > Layers
    /\ extracting' = extracting \ {ImageOf[c]}
    /\ pc' = [pc EXCEPT ![c] = "replace"]
    /\ UNCHANGED <<temp, rootfs, marker, linked, version, next, crashes>>

\* A rootfs without a marker is removed ...
RemoveStale(c) ==
    /\ pc[c] = "replace"
    /\ rootfs' = [rootfs EXCEPT ![ImageOf[c]] = Absent]
    /\ pc' = [pc EXCEPT ![c] = "rename"]
    /\ UNCHANGED <<temp, marker, extracting, linked, version, next, crashes>>

\* ... the staging directory renamed into its place ...
Rename(c) ==
    /\ pc[c] = "rename"
    /\ LET i == ImageOf[c] IN
       IF temp[i] = Absent \/ rootfs[i] \notin {Absent, {}}
       THEN pc' = [pc EXCEPT ![c] = "failed"] /\ UNCHANGED <<temp, rootfs>>
       ELSE /\ rootfs' = [rootfs EXCEPT ![i] = temp[i]]
            /\ temp' = [temp EXCEPT ![i] = Absent]
            /\ pc' = [pc EXCEPT ![c] = "mark"]
    /\ UNCHANGED <<marker, extracting, linked, version, next, crashes>>

\* ... and the marker written.
Mark(c) ==
    /\ pc[c] = "mark"
    /\ marker' = marker \cup {ImageOf[c]}
    /\ pc' = [pc EXCEPT ![c] = "ok"]
    /\ UNCHANGED <<temp, rootfs, extracting, linked, version, next, crashes>>

\* A later container create asks again.
CallAgain(c) ==
    /\ pc[c] \in {"ok", "failed"}
    /\ pc' = [pc EXCEPT ![c] = "begin"]
    /\ UNCHANGED <<temp, rootfs, marker, extracting, linked, version, next, crashes>>

\* A pull moves the tag to another manifest.
Repull(i) ==
    /\ \E v \in Versions \ {linked[i]} : linked' = [linked EXCEPT ![i] = v]
    /\ UNCHANGED <<temp, rootfs, marker, extracting, pc, version, next, crashes>>

\* The daemon dies: the directories and markers stay, the lock is gone.
Crash ==
    /\ crashes < MaxCrashes
    /\ pc' = [c \in Callers |-> "begin"]
    /\ extracting' = {}
    /\ crashes' = crashes + 1
    /\ UNCHANGED <<temp, rootfs, marker, linked, version, next>>

Init ==
    /\ temp = [i \in Images |-> Absent] /\ rootfs = [i \in Images |-> Absent]
    /\ marker = {} /\ extracting = {}
    /\ linked \in [Images -> Versions]
    /\ pc = [c \in Callers |-> "begin"]
    /\ version = [c \in Callers |-> linked[ImageOf[c]]]
    /\ next = [c \in Callers |-> 1]
    /\ crashes = 0

Step(c) ==
    \/ Begin(c) \/ AcquireLock(c) \/ Clean(c) \/ UnpackLayer(c) \/ UnpackFails(c)
    \/ ReleaseLock(c) \/ RemoveStale(c) \/ Rename(c) \/ Mark(c)

Next ==
    \/ \E c \in Callers : Step(c) \/ CallAgain(c)
    \/ \E i \in Images : Repull(i)
    \/ Crash

Spec == Init /\ [][Next]_vars

-----------------------------------------------------------------------------
\* Directories, locks and locals have their types.
TypeOK ==
    /\ \A i \in Images : \A d \in {temp[i], rootfs[i]} :
          d = Absent \/ d \subseteq Versions \X (1..Layers)
    /\ marker \subseteq Images /\ extracting \subseteq Images
    /\ linked \in [Images -> Versions] /\ version \in [Callers -> Versions]
    /\ pc \in [Callers -> {"begin", "lock", "clean", "unpack", "replace", "rename",
                           "mark", "ok", "failed"}]
    /\ next \in [Callers -> 1..(Layers + 1)]
    /\ crashes \in 0..MaxCrashes

\* The lock does what it is for while layers are unpacked: no two callers
\* clean or unpack the staging directory of one image at a time.
OneExtractor ==
    \A c, d \in Callers :
        /\ pc[c] \in {"clean", "unpack"} /\ pc[d] \in {"clean", "unpack"}
        /\ ImageOf[c] = ImageOf[d]
        => c = d

\* The `.complete` marker tells a whole rootfs from a partial one, also after
\* a crash at any step.
MarkedIsWhole == \A i \in marker : \E v \in Versions : rootfs[i] = Whole(v)
=============================================================================
