------------------------------ MODULE ImageStore ------------------------------
(***************************************************************************)
(* The image store of rauha-oci: the content store (content.rs), the pull   *)
(* of an image (ImageService::pull and DistributionClient), its removal,    *)
(* and what the readers that start a container find in the store.  Pulls   *)
(* run concurrently, one per gRPC request; the daemon may crash between    *)
(* any two file operations; a write may fail half way.                     *)
(***************************************************************************)
EXTENDS Sequences, Naturals

CONSTANTS Pulls,        \* concurrent pull requests
          Tags,         \* references by tag
          DigestRefs,   \* references by digest
          Manifests,    \* manifest bodies, named by their digest
          Blobs,        \* config and layer blobs, named by their digest
          ConfigOf,     \* [Manifests -> Blobs]
          LayersOf,     \* [Manifests -> Seq(Blobs)]
          Registry,     \* what each reference may resolve to at the registry
          Indexed,      \* manifests reached through an index (two requests)
          Unparsable,   \* bodies that are not a manifest
          FileOf,       \* the file name a reference is stored under
          Removable,    \* references an operator may remove
          MaxFaults,    \* bound on crashes and failing writes
          Faults        \* the faults that happen: "crash", "disk"

None == "none"
Corrupt == "corrupt"
Refs == Tags \cup DigestRefs
Files == {FileOf[r] : r \in Refs}
Content == Manifests \cup Blobs

ASSUME StoreAssumption ==
    /\ None \notin Manifests /\ Corrupt \notin Manifests
    /\ Manifests \cap Blobs = {}
    /\ ConfigOf \in [Manifests -> Blobs]
    /\ LayersOf \in [Manifests -> Seq(Blobs)]
    /\ Registry \in [Refs -> SUBSET Manifests] /\ Removable \subseteq Refs
    /\ Refs # {} /\ Manifests # {}
    /\ MaxFaults \in Nat

VARIABLES
    blobs,      \* [Content -> state of the file blobs/sha256/<digest>]
    refs,       \* [Files -> the manifest manifests/<file>.json names]
    served,     \* what the registry resolves a reference to now
    pc, ref, cached, manifest, todo, item, asked,   \* per pull: its locals
    faults

vars == <<blobs, refs, served, pc, ref, cached, manifest, todo, item, asked, faults>>

(***************************************************************************)
(* The content store.                                                      *)
(***************************************************************************)

manifest_ref_path(r) == FileOf[r]

has_blob(b) == blobs[b] # "absent"

\* A blob read back passes for the bytes it was stored with only when the
\* write that created it ran to its end.
get_blob(b) == blobs[b] = "whole"

Link(r) == refs[manifest_ref_path(r)]

\* The reference exists but its content is no digest, or names no blob.
get_manifest_fails(r) ==
    \/ Link(r) = Corrupt
    \/ Link(r) \in Manifests /\ ~has_blob(Link(r))

(***************************************************************************)
(* Readers: what a container create sees.                                  *)
(***************************************************************************)
LayerSet(m) == {LayersOf[m][i] : i \in DOMAIN LayersOf[m]}

\* The filter of a cached manifest: every blob it names has a file.
manifest_blobs_present(m) == \A b \in {ConfigOf[m]} \cup LayerSet(m) : has_blob(b)

Parses(m) == get_blob(m) /\ m \notin Unparsable

\* The manifest layer_digests, prepare_rootfs and inspect load.
Loadable(r) == /\ ~get_manifest_fails(r)
               /\ Link(r) \in Manifests
               /\ Parses(Link(r))

inspect(r) == Loadable(r) /\ get_blob(ConfigOf[Link(r)])

layer_digests(r) == IF Loadable(r) THEN LayerSet(Link(r)) ELSE {}

\* A container of the image can be created: config and every layer read back.
Runnable(r) == /\ inspect(r)
               /\ \A b \in layer_digests(r) : get_blob(b)

(***************************************************************************)
(* The pull.                                                               *)
(***************************************************************************)
Resting == {"idle", "ok", "failed"}

\* Mutant: the cached manifest is not checked for its blobs.
CachedUnchecked(r) == IF Loadable(r) THEN Link(r) ELSE None

\* The cached manifest of r, if it is complete.
Cached(r) == IF Loadable(r) /\ manifest_blobs_present(Link(r)) THEN Link(r) ELSE None

\* The pull of r begins: read the cache, and stop there when it is final.
StartPull(p, r) ==
    /\ pc[p] \in Resting
    /\ LET found == IF get_manifest_fails(r) THEN None ELSE Cached(r) IN
       /\ cached' = [cached EXCEPT ![p] = found]
       /\ manifest' = [manifest EXCEPT ![p] = found]
       /\ pc' = [pc EXCEPT ![p] =
                   IF get_manifest_fails(r) THEN "failed"
                   ELSE IF r \in DigestRefs /\ found # None THEN "ok"
                   ELSE "resolve"]
    /\ ref' = [ref EXCEPT ![p] = r]
    /\ asked' = [asked EXCEPT ![p] = FALSE]
    /\ UNCHANGED <<blobs, refs, served, todo, item, faults>>

\* pull_manifest returned an error: a complete cache stands in.
FallBack(p) ==
    /\ manifest' = [manifest EXCEPT ![p] = cached[p]]
    /\ pc' = [pc EXCEPT ![p] = IF cached[p] = None THEN "failed" ELSE "ok"]

\* Mutant: the reference is linked before the manifest is stored.
ResolveLinksFirst(p) ==
    /\ pc[p] = "resolve"
    /\ manifest' = [manifest EXCEPT ![p] = served[ref[p]]]
    /\ item' = [item EXCEPT ![p] = served[ref[p]]]
    /\ pc' = [pc EXCEPT ![p] = "link"]
    /\ asked' = [asked EXCEPT ![p] = TRUE]
    /\ UNCHANGED <<blobs, refs, served, ref, cached, todo, faults>>

\* pull_manifest: the registry's answer.  Only an index entry is stored
\* before it is parsed.
ResolveTag(p) ==
    /\ pc[p] = "resolve"
    /\ LET m == served[ref[p]] IN
       IF m \in Unparsable \ Indexed
       THEN FallBack(p) /\ UNCHANGED item
       ELSE /\ manifest' = [manifest EXCEPT ![p] = m]
            /\ item' = [item EXCEPT ![p] = m]
            /\ pc' = [pc EXCEPT ![p] = "put"]
    /\ asked' = [asked EXCEPT ![p] = TRUE]
    /\ UNCHANGED <<blobs, refs, served, ref, cached, todo, faults>>

\* A request of pull_manifest fails, or its body has another digest.
ResolveFails(p) ==
    /\ pc[p] = "resolve"
    /\ FallBack(p)
    /\ asked' = [asked EXCEPT ![p] = TRUE]
    /\ UNCHANGED <<blobs, refs, served, ref, cached, todo, item, faults>>

AfterPut(i) == IF i \in Manifests THEN "link" ELSE "blobs"

\* put_blob: an existing file is taken for the blob.
PutBlob(p) ==
    /\ pc[p] = "put"
    /\ pc' = [pc EXCEPT ![p] = IF has_blob(item[p]) THEN AfterPut(item[p]) ELSE "create"]
    /\ UNCHANGED <<blobs, refs, served, ref, cached, manifest, todo, item, asked, faults>>

\* fs::write creates or truncates the file ...
CreateBlob(p) ==
    /\ pc[p] = "create"
    /\ blobs' = [blobs EXCEPT ![item[p]] = "partial"]
    /\ pc' = [pc EXCEPT ![p] = "write"]
    /\ UNCHANGED <<refs, served, ref, cached, manifest, todo, item, asked, faults>>

\* ... and then fills it.
WriteBlob(p) ==
    /\ pc[p] = "write"
    /\ blobs' = [blobs EXCEPT ![item[p]] = "whole"]
    /\ pc' = [pc EXCEPT ![p] = AfterPut(item[p])]
    /\ UNCHANGED <<refs, served, ref, cached, manifest, todo, item, asked, faults>>

\* put_manifest: the reference file is truncated ...
TruncateRef(p) ==
    /\ pc[p] = "link"
    /\ refs' = [refs EXCEPT ![manifest_ref_path(ref[p])] = Corrupt]
    /\ pc' = [pc EXCEPT ![p] = "linking"]
    /\ UNCHANGED <<blobs, served, ref, cached, manifest, todo, item, asked, faults>>

\* The manifest is stored and linked; it is returned if it parses.
ManifestPulled(p) ==
    IF manifest[p] \in Unparsable
    THEN FallBack(p) /\ UNCHANGED todo
    ELSE /\ pc' = [pc EXCEPT ![p] = "blobs"]
         /\ todo' = [todo EXCEPT ![p] = <<ConfigOf[manifest[p]]>> \o LayersOf[manifest[p]]]
         /\ UNCHANGED manifest

\* ... and then written.
WriteRef(p) ==
    /\ pc[p] = "linking"
    /\ refs' = [refs EXCEPT ![manifest_ref_path(ref[p])] = manifest[p]]
    /\ ManifestPulled(p)
    /\ UNCHANGED <<blobs, served, ref, cached, item, asked, faults>>

\* The file was unlinked by remove_image while open: the write is lost.
WriteUnlinkedRef(p) ==
    /\ pc[p] = "unlinked"
    /\ ManifestPulled(p)
    /\ UNCHANGED <<blobs, refs, served, ref, cached, item, asked, faults>>

\* pull_blob, for the config and then each layer: skip what is present.
SkipBlob(p) ==
    /\ pc[p] = "blobs" /\ todo[p] # <<>>
    /\ has_blob(Head(todo[p]))
    /\ todo' = [todo EXCEPT ![p] = Tail(@)]
    /\ UNCHANGED <<blobs, refs, served, pc, ref, cached, manifest, item, asked, faults>>

\* The blob was downloaded and its digest verified.
DownloadBlob(p) ==
    /\ pc[p] = "blobs" /\ todo[p] # <<>>
    /\ ~has_blob(Head(todo[p]))
    /\ item' = [item EXCEPT ![p] = Head(todo[p])]
    /\ todo' = [todo EXCEPT ![p] = Tail(@)]
    /\ pc' = [pc EXCEPT ![p] = "put"]
    /\ UNCHANGED <<blobs, refs, served, ref, cached, manifest, asked, faults>>

\* A request, the stream or the digest check of pull_blob fails.
DownloadFails(p) ==
    /\ pc[p] = "blobs" /\ todo[p] # <<>>
    /\ ~has_blob(Head(todo[p]))
    /\ pc' = [pc EXCEPT ![p] = "failed"]
    /\ UNCHANGED <<blobs, refs, served, ref, cached, manifest, todo, item, asked, faults>>

PullComplete(p) ==
    /\ pc[p] = "blobs" /\ todo[p] = <<>>
    /\ pc' = [pc EXCEPT ![p] = "ok"]
    /\ UNCHANGED <<blobs, refs, served, ref, cached, manifest, todo, item, asked, faults>>

\* fs::write fails after it opened the file: inside pull_manifest the cache
\* stands in, inside pull_blob the pull fails.
WriteFails(p) ==
    /\ "disk" \in Faults /\ faults < MaxFaults
    /\ pc[p] \in {"write", "linking", "unlinked"}
    /\ IF pc[p] # "write" \/ item[p] \in Manifests
       THEN FallBack(p)
       ELSE pc' = [pc EXCEPT ![p] = "failed"] /\ UNCHANGED manifest
    /\ faults' = faults + 1
    /\ UNCHANGED <<blobs, refs, served, ref, cached, todo, item, asked>>

(***************************************************************************)
(* Around the pulls.                                                       *)
(***************************************************************************)
\* remove_image unlinks the reference file; blobs stay.
remove_image(r) ==
    /\ Link(r) # None
    /\ refs' = [refs EXCEPT ![manifest_ref_path(r)] = None]
    /\ pc' = [p \in Pulls |->
                IF pc[p] = "linking" /\ FileOf[ref[p]] = manifest_ref_path(r)
                THEN "unlinked" ELSE pc[p]]
    /\ UNCHANGED <<blobs, served, ref, cached, manifest, todo, item, asked, faults>>

\* A tag moves at the registry.
TagMoves(t) ==
    /\ \E m \in Registry[t] : served' = [served EXCEPT ![t] = m]
    /\ UNCHANGED <<blobs, refs, pc, ref, cached, manifest, todo, item, asked, faults>>

\* The daemon is killed and restarted: the files stay as they are.
Crash ==
    /\ "crash" \in Faults /\ faults < MaxFaults
    /\ \E p \in Pulls : pc[p] \notin Resting
    /\ pc' = [p \in Pulls |-> "idle"]
    /\ faults' = faults + 1
    /\ UNCHANGED <<blobs, refs, served, ref, cached, manifest, todo, item, asked>>

Init ==
    /\ blobs = [b \in Content |-> "absent"]
    /\ refs = [f \in Files |-> None]
    /\ served \in {s \in [Refs -> Manifests] : \A r \in Refs : s[r] \in Registry[r]}
    /\ pc = [p \in Pulls |-> "idle"]
    /\ ref = [p \in Pulls |-> CHOOSE r \in Refs : TRUE]
    /\ cached = [p \in Pulls |-> None]
    /\ manifest = [p \in Pulls |-> None]
    /\ todo = [p \in Pulls |-> <<>>]
    /\ item = [p \in Pulls |-> CHOOSE b \in Content : TRUE]
    /\ asked = [p \in Pulls |-> FALSE]
    /\ faults = 0

PullStep(p) ==
    \/ ResolveTag(p) \/ ResolveFails(p)
    \/ PutBlob(p) \/ CreateBlob(p) \/ WriteBlob(p)
    \/ TruncateRef(p) \/ WriteRef(p) \/ WriteUnlinkedRef(p)
    \/ SkipBlob(p) \/ DownloadBlob(p) \/ DownloadFails(p) \/ PullComplete(p)

Next ==
    \/ \E p \in Pulls : PullStep(p) \/ WriteFails(p)
    \/ \E p \in Pulls, r \in Refs : StartPull(p, r)
    \/ \E r \in Removable : remove_image(r)
    \/ \E t \in Tags : TagMoves(t)
    \/ Crash

Spec == Init /\ [][Next]_vars

-----------------------------------------------------------------------------
\* Every file of the store and every local of a pull has its type.
TypeOK ==
    /\ blobs \in [Content -> {"absent", "partial", "whole"}]
    /\ refs \in [Files -> Manifests \cup {None, Corrupt}]
    /\ served \in [Refs -> Manifests]
    /\ pc \in [Pulls -> Resting \cup {"resolve", "put", "create", "write", "link",
                                     "linking", "unlinked", "blobs"}]
    /\ ref \in [Pulls -> Refs]
    /\ cached \in [Pulls -> Manifests \cup {None}]
    /\ manifest \in [Pulls -> Manifests \cup {None}]
    /\ todo \in [Pulls -> Seq(Blobs)]
    /\ item \in [Pulls -> Content]
    /\ asked \in [Pulls -> BOOLEAN]
    /\ faults \in 0..MaxFaults

\* put_manifest stores the blob before it links it and blobs are never
\* deleted: whatever crashes, fails or runs beside it, a reference that names
\* a manifest names one whose blob file exists, so get_manifest can only fail
\* on a truncated reference.
LinkedIsStored == \A f \in Files : refs[f] \in Manifests => has_blob(refs[f])

\* A pull that returned Ok returned a manifest whose config and layers can be
\* read back whole; while its name still stands for that manifest, inspect and
\* the container create that follows find them by the name.
PulledIsWhole ==
    \A p \in Pulls : pc[p] = "ok" =>
        /\ manifest[p] \in Manifests
        /\ \A b \in {ConfigOf[manifest[p]]} \cup LayerSet(manifest[p]) : get_blob(b)
        /\ Link(ref[p]) = manifest[p] => Runnable(ref[p])

\* A pull that returned Ok, from the registry or from the cache, returned a
\* manifest the registry serves or served for that very reference.
ResolvesOwnImage ==
    \A p \in Pulls : pc[p] = "ok" => manifest[p] \in Registry[ref[p]]
=============================================================================
