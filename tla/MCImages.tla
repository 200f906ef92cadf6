------------------------------ MODULE MCImages ------------------------------
(***************************************************************************)
(* Images and containers: the image store, the registry client, the three  *)
(* ways to a root filesystem, and the containers made of them as the zone  *)
(* registry and the containerd shim record them, each by itself. A         *)
(* behaviour is about one of them, in the instance that its scene names;   *)
(* the others stand still.                                                 *)
(***************************************************************************)
EXTENDS ImageStore, FiniteSets, TLC

CONSTANTS p1, p2,      \* pulls
          k1, k2       \* calls

VARIABLES
    scene,   \* what this behaviour is about; it never changes
    sBlobs, sRefs, sServed, sPc, sRef, sCached, sManifest, sTodo, sItem,
    sAsked, sFaults,
    temp, rootfs, marker, extracting, linked, at, version, next, crashes,
    dir, layerMarker, layerAt, layerNext, part, mounted, leaked, layerCrashes,
    failures,
    image, layer, entry, merged, own, mergedOk, ownOk,
    token, issued, live, authAt, bearer, attempt, fetched, sent, throttles,
    failed,
    row, handle, zone, shim, rowsAt, op, id, copy, left, expired, used,
    deleted, rowsCrashes, lost,
    tasks, zoneName, signalled, client, call, podZone, cont, up, podFailed,
    tried, released

pullVars == <<sBlobs, sRefs, sServed, sPc, sRef, sCached, sManifest, sTodo,
              sItem, sAsked, sFaults>>
baseRootfsVars == <<temp, rootfs, marker, extracting, linked, at, version,
                    next, crashes>>
layerDirsVars == <<dir, layerMarker, layerAt, layerNext, part, mounted,
                   leaked, layerCrashes, failures>>
layerTreesVars == <<image, layer, entry, merged, own, mergedOk, ownOk>>
registryAuthVars == <<token, issued, live, authAt, bearer, attempt, fetched,
                      sent, throttles, failed>>
containerRowsVars == <<row, handle, zone, shim, rowsAt, op, id, copy, left,
                       expired, used, deleted, rowsCrashes, lost>>
containerdTaskVars == <<tasks, zoneName, signalled, client, call, podZone,
                        cont, up, podFailed, tried, released>>
all == <<scene, vars, pullVars, baseRootfsVars, layerDirsVars, layerTreesVars,
         registryAuthVars, containerRowsVars, containerdTaskVars>>

Symmetry == Permutations({p1, p2}) \cup Permutations({k1, k2})

(***************************************************************************)
(* Two concurrent pulls of one tag: of a sound manifest, or of an index    *)
(* entry that is no manifest.                                              *)
(***************************************************************************)
TwoPulls == {p1, p2}
TwoManifests == {"m1", "m3"}
TwoBlobs == {"c1", "l1"}
TwoConfigOf == [m \in TwoManifests |-> "c1"]
TwoLayersOf == [m \in TwoManifests |-> <<"l1">>]
TwoRegistry == [r \in {"app:1"} |-> TwoManifests]
OwnFile == [r \in {"app:1"} |-> r]

(***************************************************************************)
(* One pull after the other: two tags and a digest reference over four     *)
(* manifests that share a layer; m3 is reached through an index and is no  *)
(* manifest, m4 is no manifest and is served directly.                     *)
(***************************************************************************)
FourManifests == {"m1", "m2", "m3", "m4"}
FourRefs == {"app:1", "base:1", "app@m1"}
FourConfigOf == [m \in FourManifests |-> IF m = "m2" THEN "c2" ELSE "c1"]
FourLayersOf == [m \in FourManifests |-> IF m = "m2" THEN <<"l1", "l2">> ELSE <<"l1">>]
FourRegistry == [r \in FourRefs |-> IF r = "app:1" THEN FourManifests ELSE {"m1"}]

(***************************************************************************)
(* A sandbox, a container naming its pod, one that does not, one broken.   *)
(***************************************************************************)
PodBundles == [pod |-> "sandbox", a |-> "sandbox-id", b |-> "bare", x |-> "broken"]

(***************************************************************************)
(* Creates of one tag: before it moved (c1), after it moved to a manifest  *)
(* that keeps the upper layer (c2), and of an image without layers (c3).   *)
(***************************************************************************)
SharedLayers == [c1 |-> <<"l1", "l2">>, c2 |-> <<"l2">>, c3 |-> <<>>]

(***************************************************************************)
(* Images of up to three layers with up to two entries over a file, a      *)
(* directory and two files in it.  Whiteouts come first in a layer, as     *)
(* image builders write them.                                              *)
(***************************************************************************)
Entry(kind, path) == [op |-> kind, path |-> path]
PlainEntries ==
    {Entry("file", <<"a">>), Entry("dir", <<"d">>), Entry("file", <<"d", "a">>),
     Entry("file", <<"d", "b">>), Entry("file", <<"d">>), Entry("dir", <<"..", "a">>)}
Marks == {Entry("white", <<"a">>), Entry("white", <<"d">>), Entry("white", <<"d", "a">>),
          Entry("opaque", <<"d">>)}
SmallLayers == {<<e>> : e \in PlainEntries \cup Marks}
            \cup {<<m, e>> : m \in Marks, e \in PlainEntries}
            \cup {<<e, f>> : e, f \in PlainEntries}
ThreeLayers == SmallLayers \X SmallLayers \cup
    {<<<<e>>, <<f>>, l>> : e \in PlainEntries, f \in PlainEntries \cup Marks, l \in SmallLayers}

-----------------------------------------------------------------------------
\* One pull after the other, tags that move and are removed, no faults.
InTurn == INSTANCE ImageStore WITH
    Pulls <- {"p"}, Tags <- {"app:1", "base:1"}, DigestRefs <- {"app@m1"},
    Manifests <- FourManifests, Blobs <- {"c1", "c2", "l1", "l2"},
    ConfigOf <- FourConfigOf, LayersOf <- FourLayersOf,
    Registry <- FourRegistry, Indexed <- {"m2", "m3"},
    Unparsable <- {"m3", "m4"}, FileOf <- [r \in FourRefs |-> r],
    Removable <- {"app:1", "app@m1"}, MaxFaults <- 0, Faults <- {},
    blobs <- sBlobs, refs <- sRefs, served <- sServed, pc <- sPc, ref <- sRef,
    cached <- sCached, manifest <- sManifest, todo <- sTodo, item <- sItem,
    asked <- sAsked, faults <- sFaults
\* Each image prepared by a caller of its own, over a crash.
Rootfs == INSTANCE BaseRootfs WITH
    Callers <- {"c1", "c2"}, Images <- {"app", "base"},
    ImageOf <- [c1 |-> "app", c2 |-> "base"], Versions <- {"v1", "v2"},
    Layers <- 2, MaxCrashes <- 1, pc <- at
\* Two callers prepare one image.
Locked == INSTANCE BaseRootfs WITH
    Callers <- {"c1", "c2"}, Images <- {"app"},
    ImageOf <- [c1 |-> "app", c2 |-> "app"], Versions <- {"v1", "v2"},
    Layers <- 2, MaxCrashes <- 1, pc <- at
\* Creates that share a layer, one at a time.
Layered == INSTANCE LayerDirs WITH
    Creators <- DOMAIN SharedLayers, Layers <- {"l1", "l2"},
    LayersOf <- SharedLayers, Parts <- 2, MaxCrashes <- 2, MaxFailures <- 2,
    marker <- layerMarker, pc <- layerAt, next <- layerNext,
    crashes <- layerCrashes
Trees == INSTANCE LayerTrees WITH
    ImageSet <- ThreeLayers
\* One get that is throttled again and again.
Throttled == INSTANCE RegistryAuth WITH
    Gets <- {"g1"}, Public <- FALSE, MaxTokens <- 3, MaxThrottles <- 16,
    MaxFaults <- 1, pc <- authAt, faults <- failed
\* Two gets that share a token which expires.
Tokens == INSTANCE RegistryAuth WITH
    Gets <- {"g1", "g2"}, Public <- FALSE, MaxTokens <- 3, MaxThrottles <- 2,
    MaxFaults <- 0, pc <- authAt, faults <- failed
\* Two calls on one container at a time.
Race == INSTANCE ContainerRows WITH
    Containers <- {"c"}, Calls <- {k1, k2},
    Ops <- {"create", "start", "stop", "state", "force", "get"},
    MaxCrashes <- 0, MaxLost <- 0, ZoneMayFail <- FALSE, pc <- rowsAt,
    todo <- left, crashes <- rowsCrashes
\* Two calls, a shim answer that is lost and a daemon that is killed.
Lost == INSTANCE ContainerRows WITH
    Containers <- {"c"}, Calls <- {k1, k2},
    Ops <- {"create", "start", "stop", "state", "delete", "force", "list"},
    MaxCrashes <- 1, MaxLost <- 1, ZoneMayFail <- FALSE, pc <- rowsAt,
    todo <- left, crashes <- rowsCrashes
\* Two containers, one call at a time, over a daemon that is killed.
Turn == INSTANCE ContainerRows WITH
    Containers <- {"c", "d"}, Calls <- {k1},
    Ops <- {"create", "start", "stop", "state", "delete", "force", "get", "list"},
    MaxCrashes <- 1, MaxLost <- 1, ZoneMayFail <- TRUE, pc <- rowsAt,
    todo <- left, crashes <- rowsCrashes
\* A pod's sandbox, its containers, and a bundle that cannot be read.
Pod == INSTANCE ContainerdTask WITH
    Ids <- {"pod", "a", "b", "x"}, Bundle <- PodBundles, Calls <- {1, 2},
    Creates <- 1, MaxFaults <- 0, zone <- podZone, faults <- podFailed
\* A pod whose daemon goes away and comes back.
Outage == INSTANCE ContainerdTask WITH
    Ids <- {"pod", "a"}, Bundle <- [pod |-> "sandbox", a |-> "sandbox-id"],
    Calls <- {1, 2}, Creates <- 2, MaxFaults <- 2, zone <- podZone,
    faults <- podFailed

\* The variables of a component that the scene is not about.
NoPull ==
    /\ sBlobs = 0 /\ sRefs = 0 /\ sServed = 0 /\ sPc = 0 /\ sRef = 0
    /\ sCached = 0 /\ sManifest = 0 /\ sTodo = 0 /\ sItem = 0 /\ sAsked = 0
    /\ sFaults = 0
NoBaseRootfs ==
    /\ temp = 0 /\ rootfs = 0 /\ marker = 0 /\ extracting = 0 /\ linked = 0
    /\ at = 0 /\ version = 0 /\ next = 0 /\ crashes = 0
NoLayerDirs ==
    /\ dir = 0 /\ layerMarker = 0 /\ layerAt = 0 /\ layerNext = 0
    /\ part = 0 /\ mounted = 0 /\ leaked = 0 /\ layerCrashes = 0
    /\ failures = 0
NoLayerTrees ==
    /\ image = 0 /\ layer = 0 /\ entry = 0 /\ merged = 0 /\ own = 0
    /\ mergedOk = 0 /\ ownOk = 0
NoRegistryAuth ==
    /\ token = 0 /\ issued = 0 /\ live = 0 /\ authAt = 0 /\ bearer = 0
    /\ attempt = 0 /\ fetched = 0 /\ sent = 0 /\ throttles = 0 /\ failed = 0
NoContainerRows ==
    /\ row = 0 /\ handle = 0 /\ zone = 0 /\ shim = 0 /\ rowsAt = 0
    /\ op = 0 /\ id = 0 /\ copy = 0 /\ left = 0 /\ expired = 0 /\ used = 0
    /\ deleted = 0 /\ rowsCrashes = 0 /\ lost = 0
NoContainerdTask ==
    /\ tasks = 0 /\ zoneName = 0 /\ signalled = 0 /\ client = 0 /\ call = 0
    /\ podZone = 0 /\ cont = 0 /\ up = 0 /\ podFailed = 0 /\ tried = 0
    /\ released = 0

Scenes == {"pulls", "pull", "rootfs", "lock", "layers", "trees", "throttled",
           "tokens", "race", "lost", "turn", "pod", "outage"}

AnyInit ==
    /\ scene \in Scenes
    /\ \/ scene = "pulls" /\ Init
       \/ scene # "pulls" /\ Init /\ served = [r \in Refs |-> "m1"]
    /\ \/ scene = "pull" /\ InTurn!Init
       \/ scene # "pull" /\ NoPull
    /\ \/ scene = "rootfs" /\ Rootfs!Init
       \/ scene = "lock" /\ Locked!Init
       \/ scene \notin {"rootfs", "lock"} /\ NoBaseRootfs
    /\ \/ scene = "layers" /\ Layered!Init
       \/ scene # "layers" /\ NoLayerDirs
    /\ \/ scene = "trees" /\ Trees!Init
       \/ scene # "trees" /\ NoLayerTrees
    /\ \/ scene = "throttled" /\ Throttled!Init
       \/ scene = "tokens" /\ Tokens!Init
       \/ scene \notin {"throttled", "tokens"} /\ NoRegistryAuth
    /\ \/ scene = "race" /\ Race!Init
       \/ scene = "lost" /\ Lost!Init
       \/ scene = "turn" /\ Turn!Init
       \/ scene \notin {"race", "lost", "turn"} /\ NoContainerRows
    /\ \/ scene = "pod" /\ Pod!Init
       \/ scene = "outage" /\ Outage!Init
       \/ scene \notin {"pod", "outage"} /\ NoContainerdTask

\* The component that the scene is about takes a step of its own.
SceneNext ==
    /\ UNCHANGED scene
    /\ \/ scene = "pulls" /\ Next
       \/ scene # "pulls" /\ UNCHANGED vars
    /\ \/ scene = "pull" /\ InTurn!Next
       \/ scene # "pull" /\ UNCHANGED pullVars
    /\ \/ scene = "rootfs" /\ Rootfs!Next
       \/ scene = "lock" /\ Locked!Next
       \/ scene \notin {"rootfs", "lock"} /\ UNCHANGED baseRootfsVars
    /\ \/ scene = "layers" /\ Layered!NextInTurn
       \/ scene # "layers" /\ UNCHANGED layerDirsVars
    /\ \/ scene = "trees" /\ Trees!Next
       \/ scene # "trees" /\ UNCHANGED layerTreesVars
    /\ \/ scene = "throttled" /\ Throttled!Next
       \/ scene = "tokens" /\ Tokens!Next
       \/ scene \notin {"throttled", "tokens"} /\ UNCHANGED registryAuthVars
    /\ \/ scene = "race" /\ Race!Next
       \/ scene = "lost" /\ Lost!Next
       \/ scene = "turn" /\ Turn!Next
       \/ scene \notin {"race", "lost", "turn"} /\ UNCHANGED containerRowsVars
    /\ \/ scene = "pod" /\ Pod!Next
       \/ scene = "outage" /\ Outage!Next
       \/ scene \notin {"pod", "outage"} /\ UNCHANGED containerdTaskVars

\* The calls of an instance may all have been made.
Rests == scene \in {"trees", "pod", "outage"} /\ UNCHANGED all

AnyNext == SceneNext \/ Rests

AnySpec == AnyInit /\ [][AnyNext]_all
-----------------------------------------------------------------------------
\* A pull that returned Ok returned a manifest whose config and layers read
\* back whole, by its name too while that stands for it (PulledIsWhole), and
\* one that the registry serves or served for that reference
\* (ResolvesOwnImage). The gets under it send at most sixteen requests
\* (RequestsBounded), and however stale the cached token is, a get fails only
\* for a reason of its own (StaleTokenRecovers).
PullsWhole ==
    /\ scene = "pull" =>
         /\ InTurn!PulledIsWhole /\ InTurn!ResolvesOwnImage
    /\ scene = "throttled" =>
         /\ Throttled!TypeOK /\ Throttled!RequestsBounded
    /\ scene = "tokens" =>
         /\ Tokens!TypeOK /\ Tokens!RequestsBounded
         /\ Tokens!StaleTokenRecovers

\* A rootfs or layer with the `.complete` marker is whole, after a crash at any
\* step too (MarkedIsWhole); no two callers clean or unpack one staging
\* directory at a time (OneExtractor); the layers under a mounted overlay are
\* whole while it is mounted (MountedIsWhole), and overlays are mounted for
\* containers that exist, leaks of failing calls apart (MountsAreOwned).
\* Unpacking in order gives the tree of the image (MergedIsImage), as stacking
\* does without whiteouts (OverlayIsMergedWithoutWhiteouts), and mounting and
\* copying agree where no path is both file and directory (CopyIsOverlay).
UnpackedWhole ==
    /\ scene = "rootfs" =>
         /\ Rootfs!TypeOK /\ Rootfs!MarkedIsWhole
    /\ scene = "lock" =>
         /\ Locked!TypeOK /\ Locked!OneExtractor
    /\ scene = "layers" =>
         /\ Layered!TypeOK /\ Layered!MarkedIsWhole
         /\ Layered!MountedIsWhole /\ Layered!MountsAreOwned
    /\ scene = "trees" =>
         /\ Trees!TypeOK /\ Trees!MergedIsImage
         /\ Trees!OverlayIsMergedWithoutWhiteouts /\ Trees!CopyIsOverlay

\* Without crashes and lost answers a running container is shown as Running
\* once its start has written the row (RunningIsShown); with them it still has
\* a row (RunningIsRecorded), and one whose delete returned Ok is gone from the
\* shim (DeletedIsGone); when calls come one at a time its row does not come
\* back (DeletedStaysDeleted).
RowsFaithful ==
    /\ scene = "race" =>
         /\ Race!TypeOK /\ Race!RunningIsShown
    /\ scene = "lost" =>
         /\ Lost!TypeOK /\ Lost!RunningIsRecorded /\ Lost!DeletedIsGone
    /\ scene = "turn" =>
         /\ Turn!TypeOK /\ Turn!DeletedStaysDeleted

\* Once Delete was answered no container of the task, or for the sandbox
\* nothing of the pod, is left in the daemon, although starts, kills and
\* creates may be waiting for an answer (DeletedIsGone); with no RPC in flight
\* the shim knows every container the daemon has for the pod (NothingOrphaned);
\* and a task reported RUNNING was started, whatever outages came between
\* (RunningWasStarted).
TasksFaithful ==
    /\ scene = "pod" =>
         /\ Pod!TypeOK /\ Pod!DeletedIsGone /\ Pod!NothingOrphaned
    /\ scene = "outage" =>
         /\ Outage!TypeOK /\ Outage!RunningWasStarted
=============================================================================
