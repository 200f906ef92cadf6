------------------------------ MODULE LayerDirs ------------------------------
(***************************************************************************)
(* The overlayfs snapshotter: create_container extracts each layer of the  *)
(* image into a directory of its own (prepare_layers), mounts them under   *)
(* the container's upper directory (mount_overlay), and delete_container   *)
(* unmounts.  Creates of one image name in a zone share its layer          *)
(* directories and run on blocking threads; there is no lock.  A layer     *)
(* directory is the set of the layer's parts that have been written; {}    *)
(* also stands for "no directory", which unpacking makes again.            *)
(***************************************************************************)
EXTENDS Sequences, Naturals, FiniteSets

CONSTANTS Creators,    \* concurrent create_container calls for one image name
          LayersOf,    \* [Creators -> Seq(layer)]: the image each one asks for
          Layers,
          Parts,       \* parts of a layer, unpacked one after the other: 1..Parts
          MaxCrashes,
          MaxFailures  \* bound on layers that do not unpack

VARIABLES
    dir,       \* [Layers -> parts in the layer's directory]
    marker,    \* layers with a .complete file
    pc, next, part,   \* per creator: its locals
    mounted,   \* containers whose overlay is mounted
    leaked,    \* overlays left mounted that no container owns
    crashes, failures

vars == <<dir, marker, pc, next, part, mounted, leaked, crashes, failures>>

Whole == 1..Parts
Layer(c) == LayersOf[c][next[c]]

Goto(c, l) == pc' = [pc EXCEPT ![c] = l]

\* Mutant: a directory that exists counts as extracted.
CheckDirectory(c) ==
    /\ pc[c] = "check" /\ next[c] <= Len(LayersOf[c])
    /\ IF dir[Layer(c)] # {}
       THEN next' = [next EXCEPT ![c] = @ + 1] /\ UNCHANGED pc
       ELSE Goto(c, "clean") /\ UNCHANGED next
    /\ UNCHANGED <<dir, marker, part, mounted, leaked, crashes, failures>>

\* The loop of prepare_layers: a marked layer is skipped.
CheckMarker(c) ==
    /\ pc[c] = "check" /\ next[c] <= Len(LayersOf[c])
    /\ IF Layer(c) \in marker
       THEN next' = [next EXCEPT ![c] = @ + 1] /\ UNCHANGED pc
       ELSE Goto(c, "clean") /\ UNCHANGED next
    /\ UNCHANGED <<dir, marker, part, mounted, leaked, crashes, failures>>

\* A partial extraction is removed (what the removal cannot delete stays)
\* and the directory made.
Clean(c) ==
    /\ pc[c] = "clean"
    /\ \E left \in SUBSET dir[Layer(c)] : dir' = [dir EXCEPT ![Layer(c)] = left]
    /\ part' = [part EXCEPT ![c] = 1]
    /\ Goto(c, "unpack")
    /\ UNCHANGED <<marker, next, mounted, leaked, crashes, failures>>

\* unpack_layer writes the next part into the directory.
Unpack(c) ==
    /\ pc[c] = "unpack" /\ part[c] <= Parts
    /\ dir' = [dir EXCEPT ![Layer(c)] = @ \cup {part[c]}]
    /\ part' = [part EXCEPT ![c] = @ + 1]
    /\ UNCHANGED <<marker, pc, next, mounted, leaked, crashes, failures>>

\* The blob does not open, or an entry does not unpack: no marker.
UnpackFails(c) ==
    /\ failures < MaxFailures
    /\ pc[c] = "unpack" /\ part[c] <= Parts
    /\ Goto(c, "failed")
    /\ failures' = failures + 1
    /\ UNCHANGED <<dir, marker, next, part, mounted, leaked, crashes>>

\* The completion marker of the layer is written.
Mark(c) ==
    /\ pc[c] = "unpack" /\ part[c] > Parts
    /\ marker' = marker \cup {Layer(c)}
    /\ next' = [next EXCEPT ![c] = @ + 1]
    /\ Goto(c, "check")
    /\ UNCHANGED <<dir, part, mounted, leaked, crashes, failures>>

\* Every layer is there: upper, work and merged are made and the overlay is
\* mounted; an image without layers cannot be.
Mount(c) ==
    /\ pc[c] = "check" /\ next[c] > Len(LayersOf[c])
    /\ IF LayersOf[c] = <<>>
       THEN Goto(c, "failed") /\ UNCHANGED mounted
       ELSE Goto(c, "running") /\ mounted' = mounted \cup {c}
    /\ UNCHANGED <<dir, marker, next, part, leaked, crashes, failures>>

\* mount(2) fails, or the mount cannot be made private and is taken back.
MountFails(c) ==
    /\ failures < MaxFailures
    /\ pc[c] = "check" /\ next[c] > Len(LayersOf[c])
    /\ Goto(c, "failed")
    /\ failures' = failures + 1
    /\ UNCHANGED <<dir, marker, next, part, mounted, leaked, crashes>>

\* delete_container: the overlay is unmounted, the layers stay.
unmount_overlay(c) ==
    /\ pc[c] = "running"
    /\ mounted' = mounted \ {c}
    /\ Goto(c, "gone")
    /\ UNCHANGED <<dir, marker, next, part, leaked, crashes, failures>>

\* The overlay stays mounted: delete_container logs that it cannot be
\* unmounted and goes on, and a create that fails after the mount (the OCI
\* spec, its mounts, the shim) returns without unmounting.
OverlayLeaks(c) ==
    /\ failures < MaxFailures
    /\ pc[c] = "running"
    /\ mounted' = mounted \ {c}
    /\ leaked' = leaked + 1
    /\ failures' = failures + 1
    /\ Goto(c, "gone")
    /\ UNCHANGED <<dir, marker, next, part, crashes>>

\* A new container of the same image.
CreateAgain(c) ==
    /\ pc[c] \in {"gone", "failed"}
    /\ Goto(c, "check")
    /\ next' = [next EXCEPT ![c] = 1]
    /\ UNCHANGED <<dir, marker, part, mounted, leaked, crashes, failures>>

\* The daemon dies: directories, markers and mounts stay, creates are lost.
Crash ==
    /\ crashes < MaxCrashes
    /\ pc' = [c \in Creators |-> IF pc[c] = "running" THEN "running" ELSE "failed"]
    /\ crashes' = crashes + 1
    /\ UNCHANGED <<dir, marker, next, part, mounted, leaked, failures>>

Init ==
    /\ dir = [l \in Layers |-> {}] /\ marker = {}
    /\ pc = [c \in Creators |-> "check"]
    /\ next = [c \in Creators |-> 1] /\ part = [c \in Creators |-> 1]
    /\ mounted = {} /\ leaked = 0 /\ crashes = 0 /\ failures = 0

Step(c) ==
    \/ CheckMarker(c) \/ Clean(c) \/ Unpack(c) \/ UnpackFails(c) \/ Mark(c)
    \/ Mount(c) \/ MountFails(c) \/ unmount_overlay(c) \/ OverlayLeaks(c)
    \/ CreateAgain(c)

Extracting(c) == pc[c] \in {"clean", "unpack"} \/ (pc[c] = "check" /\ next[c] > 1)

Next == Crash \/ \E c \in Creators : Step(c)

\* Creates that share a layer do not overlap: one container at a time.
NextInTurn ==
    \/ Crash
    \/ \E c \in Creators :
         /\ \A d \in Creators \ {c} : ~Extracting(d)
         /\ Step(c)

Spec == Init /\ [][Next]_vars
InTurn == Init /\ [][NextInTurn]_vars
-----------------------------------------------------------------------------
\* Directories, markers and locals have their types.
TypeOK ==
    /\ dir \in [Layers -> SUBSET Whole] /\ marker \subseteq Layers
    /\ pc \in [Creators -> {"check", "clean", "unpack", "running", "gone", "failed"}]
    /\ \A c \in Creators : next[c] \in 1..(Len(LayersOf[c]) + 1)
    /\ part \in [Creators -> 1..(Parts + 1)]
    /\ mounted \subseteq Creators /\ leaked \in 0..MaxFailures

\* A layer with a `.complete` marker is whole, also after a crash or a failed
\* extraction, and stays so.
MarkedIsWhole == \A l \in marker : dir[l] = Whole

\* The layers under a mounted overlay are whole as long as it is mounted.
MountedIsWhole ==
    \A c \in mounted : \A i \in DOMAIN LayersOf[c] : dir[LayersOf[c][i]] = Whole

\* Apart from what a failing unmount or a late create error leaks, overlays
\* are mounted exactly for containers that exist, and never on no layers.
MountsAreOwned ==
    \A c \in Creators : c \in mounted <=> pc[c] = "running" /\ LayersOf[c] # <<>>
=============================================================================
