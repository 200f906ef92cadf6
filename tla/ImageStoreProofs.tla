-------------------------- MODULE ImageStoreProofs --------------------------
(***************************************************************************)
(* For any number of pulls, references, manifests, blobs and faults: a     *)
(* reference that names a manifest names one whose blob file exists.       *)
(***************************************************************************)
EXTENDS ImageStore, TLAPS

USE SMTT(20), ZenonT(20)

\* A pull that is about to link its manifest, or is linking it, has stored it.
PullsStoreFirst ==
    \A p \in Pulls :
        /\ pc[p] \in {"put", "create", "write"} /\ item[p] \in Manifests
             => manifest[p] = item[p]
        /\ pc[p] \in {"link", "linking", "unlinked"}
             => manifest[p] \in Manifests /\ has_blob(manifest[p])

IInv == TypeOK /\ LinkedIsStored /\ PullsStoreFirst

\* The store starts empty: nothing is linked and no pull runs.
LEMMA InitIInv == Init => IInv
<1> SUFFICES ASSUME Init PROVE IInv
  OBVIOUS
<1>1. (CHOOSE r \in Refs : TRUE) \in Refs
  BY Zenon, StoreAssumption
<1>2. (CHOOSE b \in Content : TRUE) \in Content
  BY Zenon, StoreAssumption DEF Content
<1>3. TypeOK
  BY <1>1, <1>2, StoreAssumption DEF Init, TypeOK, Resting
<1>4. LinkedIsStored
  BY Zenon, StoreAssumption DEF Init, LinkedIsStored
<1>5. PullsStoreFirst
  BY Zenon DEF Init, PullsStoreFirst
<1> QED
  BY Zenon, <1>3, <1>4, <1>5 DEF IInv

\* pull falls back to a cached manifest, or fails: in both cases it rests.
LEMMA FallBackRests ==
  ASSUME TypeOK, NEW p \in Pulls, FallBack(p)
  PROVE  /\ manifest' \in [Pulls -> Manifests \cup {None}]
         /\ pc' = [pc EXCEPT ![p] = "failed"] \/ pc' = [pc EXCEPT ![p] = "ok"]
         /\ \A q \in Pulls \ {p} : manifest'[q] = manifest[q]
BY Zenon DEF TypeOK, FallBack

\* ManifestPulled leaves the pull resting, or about to pull its blobs.
LEMMA ManifestPulledMoves ==
  ASSUME TypeOK, NEW p \in Pulls, ManifestPulled(p), manifest[p] \in Manifests
  PROVE  /\ manifest' \in [Pulls -> Manifests \cup {None}]
         /\ \E n \in Resting \cup {"blobs"} : pc' = [pc EXCEPT ![p] = n]
         /\ \A q \in Pulls \ {p} : manifest'[q] = manifest[q]
         /\ todo' \in [Pulls -> Seq(Blobs)]
<1>1. CASE manifest[p] \in Unparsable
  BY Zenon, <1>1, FallBackRests DEF ManifestPulled, Resting, TypeOK
<1>2. CASE manifest[p] \notin Unparsable
  <2>1. <<ConfigOf[manifest[p]]>> \o LayersOf[manifest[p]] \in Seq(Blobs)
    BY StoreAssumption
  <2> QED
    BY Zenon, <1>2, <2>1 DEF ManifestPulled, TypeOK
<1> QED
  BY Zenon, <1>1, <1>2

\* Reading the cache changes no file.
LEMMA StartPullIInv ==
  ASSUME IInv, NEW p \in Pulls, NEW r \in Refs, StartPull(p, r)
  PROVE  IInv'
<1>1. TypeOK'
  BY Zenon, StoreAssumption DEF IInv, TypeOK, StartPull, Resting, Content, Cached, Loadable,
     get_manifest_fails, Parses
<1>2. LinkedIsStored'
  BY Zenon DEF IInv, LinkedIsStored, has_blob, StartPull
<1>3. PullsStoreFirst'
  BY StoreAssumption DEF IInv, TypeOK, PullsStoreFirst, has_blob, StartPull, Resting, Content,
     Cached, Loadable, get_manifest_fails, Parses
<1> QED
  BY Zenon, <1>1, <1>2, <1>3 DEF IInv

\* The registry's answer is not stored yet.
LEMMA ResolveTagIInv ==
  ASSUME IInv, NEW p \in Pulls, ResolveTag(p)
  PROVE  IInv'
<1>1. TypeOK'
  <2>1. CASE served[ref[p]] \in Unparsable \ Indexed
    <3>1. FallBack(p) /\ UNCHANGED <<blobs, refs, served, ref, cached, todo, item, faults>>
          /\ asked' = [asked EXCEPT ![p] = TRUE]
      BY Zenon, <2>1 DEF ResolveTag
    <3> QED
      BY Zenon, <3>1 DEF IInv, TypeOK, FallBack, Resting
  <2>2. CASE served[ref[p]] \notin Unparsable \ Indexed
    <3>1. served[ref[p]] \in Manifests
      BY Zenon DEF IInv, TypeOK
    <3>2. served[ref[p]] \in Content
      BY Zenon, <3>1 DEF Content
    <3> QED
      BY Zenon, <2>2, <3>1, <3>2 DEF IInv, TypeOK, ResolveTag
  <2> QED
    BY Zenon, <2>1, <2>2
<1>2. LinkedIsStored'
  BY Zenon DEF IInv, LinkedIsStored, has_blob, ResolveTag
<1>3. PullsStoreFirst'
  <2>1. CASE served[ref[p]] \in Unparsable \ Indexed
    <3>1. FallBack(p) /\ UNCHANGED <<blobs, item>>
      BY Zenon, <2>1 DEF ResolveTag
    <3> QED
      BY Zenon, <3>1 DEF IInv, TypeOK, PullsStoreFirst, has_blob, FallBack
  <2>2. CASE served[ref[p]] \notin Unparsable \ Indexed
    <3>1. /\ manifest' = [manifest EXCEPT ![p] = served[ref[p]]]
          /\ item' = [item EXCEPT ![p] = served[ref[p]]]
          /\ pc' = [pc EXCEPT ![p] = "put"]
          /\ blobs' = blobs
      BY Zenon, <2>2 DEF ResolveTag
    <3> QED
      BY Zenon, <3>1 DEF IInv, TypeOK, PullsStoreFirst, has_blob
  <2> QED
    BY Zenon, <2>1, <2>2
<1> QED
  BY Zenon, <1>1, <1>2, <1>3 DEF IInv

\* Without an answer nothing is stored.
LEMMA ResolveFailsIInv ==
  ASSUME IInv, NEW p \in Pulls, ResolveFails(p)
  PROVE  IInv'
<1>1. TypeOK'
  BY Zenon, StoreAssumption DEF IInv, TypeOK, ResolveFails, FallBack, Resting
<1>2. LinkedIsStored'
  BY Zenon DEF IInv, LinkedIsStored, has_blob, ResolveFails
<1>3. PullsStoreFirst'
  BY Zenon DEF IInv, TypeOK, PullsStoreFirst, has_blob, ResolveFails, FallBack
<1> QED
  BY Zenon, <1>1, <1>2, <1>3 DEF IInv

\* An existing file is not written again.
LEMMA PutBlobIInv ==
  ASSUME IInv, NEW p \in Pulls, PutBlob(p)
  PROVE  IInv'
<1>1. TypeOK'
  BY Zenon, StoreAssumption DEF IInv, TypeOK, PutBlob, Resting, Content, AfterPut
<1>2. LinkedIsStored'
  BY Zenon DEF IInv, LinkedIsStored, has_blob, PutBlob
<1>3. PullsStoreFirst'
  BY StoreAssumption DEF IInv, TypeOK, PullsStoreFirst, has_blob, PutBlob, Resting, Content,
     AfterPut
<1> QED
  BY Zenon, <1>1, <1>2, <1>3 DEF IInv

\* Creating or truncating a blob file leaves a file.
LEMMA CreateBlobIInv ==
  ASSUME IInv, NEW p \in Pulls, CreateBlob(p)
  PROVE  IInv'
<1>1. TypeOK'
  BY Zenon, StoreAssumption DEF IInv, TypeOK, CreateBlob, Resting, Content
<1>2. LinkedIsStored'
  BY Zenon, StoreAssumption DEF IInv, TypeOK, LinkedIsStored, PullsStoreFirst, has_blob,
     CreateBlob, Content
<1>3. PullsStoreFirst'
  BY Zenon, StoreAssumption DEF IInv, TypeOK, PullsStoreFirst, has_blob, CreateBlob, Resting,
     Content
<1> QED
  BY Zenon, <1>1, <1>2, <1>3 DEF IInv

\* The blob is stored before its manifest is linked.
LEMMA WriteBlobIInv ==
  ASSUME IInv, NEW p \in Pulls, WriteBlob(p)
  PROVE  IInv'
<1>1. TypeOK'
  BY Zenon, StoreAssumption DEF IInv, TypeOK, WriteBlob, Resting, Content, AfterPut
<1>2. LinkedIsStored'
  BY Zenon, StoreAssumption DEF IInv, TypeOK, LinkedIsStored, PullsStoreFirst, has_blob, WriteBlob,
     Content
<1>3. PullsStoreFirst'
  BY Zenon, StoreAssumption DEF IInv, TypeOK, PullsStoreFirst, has_blob, WriteBlob, Resting,
     Content, AfterPut
<1> QED
  BY Zenon, <1>1, <1>2, <1>3 DEF IInv

\* A truncated reference names nothing.
LEMMA TruncateRefIInv ==
  ASSUME IInv, NEW p \in Pulls, TruncateRef(p)
  PROVE  IInv'
<1>1. TypeOK'
  BY Zenon, StoreAssumption DEF IInv, TypeOK, TruncateRef, Resting, Content, Files,
     manifest_ref_path
<1>2. LinkedIsStored'
  BY StoreAssumption DEF IInv, TypeOK, LinkedIsStored, PullsStoreFirst, has_blob, TruncateRef,
     Content, manifest_ref_path
<1>3. PullsStoreFirst'
  BY StoreAssumption DEF IInv, TypeOK, PullsStoreFirst, has_blob, TruncateRef, Resting, Content
<1> QED
  BY Zenon, <1>1, <1>2, <1>3 DEF IInv

\* The reference names the manifest this pull stored.
LEMMA WriteRefIInv ==
  ASSUME IInv, NEW p \in Pulls, WriteRef(p)
  PROVE  IInv'
<1>0. /\ manifest[p] \in Manifests /\ ManifestPulled(p)
      /\ manifest' \in [Pulls -> Manifests \cup {None}]
      /\ \E n \in Resting \cup {"blobs"} : pc' = [pc EXCEPT ![p] = n]
      /\ \A q \in Pulls \ {p} : manifest'[q] = manifest[q]
      /\ todo' \in [Pulls -> Seq(Blobs)]
  BY Zenon, ManifestPulledMoves DEF IInv, PullsStoreFirst, WriteRef
<1>1. TypeOK'
  <2>1. PICK n \in Resting \cup {"blobs"} : pc' = [pc EXCEPT ![p] = n]
    BY Zenon, <1>0
  <2>2. pc' \in [Pulls -> Resting \cup {"resolve", "put", "create", "write", "link",
                                   "linking", "unlinked", "blobs"}]
    BY Zenon, <2>1 DEF IInv, TypeOK, Resting
  <2> QED BY Zenon, StoreAssumption, <1>0, <2>2 DEF IInv, TypeOK, WriteRef, Content, Files,
             manifest_ref_path
<1>2. LinkedIsStored'
  BY Zenon, StoreAssumption, <1>0 DEF IInv, TypeOK, LinkedIsStored, PullsStoreFirst, has_blob,
     WriteRef, Content, manifest_ref_path
<1>3. PullsStoreFirst'
  BY StoreAssumption, <1>0 DEF IInv, TypeOK, PullsStoreFirst, has_blob, WriteRef, Resting, Content
<1> QED
  BY Zenon, <1>1, <1>2, <1>3 DEF IInv

\* A write to an unlinked file changes no reference.
LEMMA WriteUnlinkedRefIInv ==
  ASSUME IInv, NEW p \in Pulls, WriteUnlinkedRef(p)
  PROVE  IInv'
<1>0. /\ manifest[p] \in Manifests /\ ManifestPulled(p)
      /\ manifest' \in [Pulls -> Manifests \cup {None}]
      /\ \E n \in Resting \cup {"blobs"} : pc' = [pc EXCEPT ![p] = n]
      /\ \A q \in Pulls \ {p} : manifest'[q] = manifest[q]
      /\ todo' \in [Pulls -> Seq(Blobs)]
  BY Zenon, ManifestPulledMoves DEF IInv, PullsStoreFirst, WriteUnlinkedRef
<1>1. TypeOK'
  <2>1. PICK n \in Resting \cup {"blobs"} : pc' = [pc EXCEPT ![p] = n]
    BY Zenon, <1>0
  <2>2. pc' \in [Pulls -> Resting \cup {"resolve", "put", "create", "write", "link",
                                   "linking", "unlinked", "blobs"}]
    BY Zenon, <2>1 DEF IInv, TypeOK, Resting
  <2> QED BY Zenon, <1>0, <2>2 DEF IInv, TypeOK, WriteUnlinkedRef
<1>2. LinkedIsStored'
  BY Zenon, StoreAssumption, <1>0 DEF IInv, TypeOK, LinkedIsStored, PullsStoreFirst, has_blob,
     WriteUnlinkedRef, Content
<1>3. PullsStoreFirst'
  BY StoreAssumption, <1>0 DEF IInv, TypeOK, PullsStoreFirst, has_blob, WriteUnlinkedRef, Resting,
     Content
<1> QED
  BY Zenon, <1>1, <1>2, <1>3 DEF IInv

\* A present blob is skipped.
LEMMA SkipBlobIInv ==
  ASSUME IInv, NEW p \in Pulls, SkipBlob(p)
  PROVE  IInv'
<1>1. TypeOK'
  BY StoreAssumption DEF IInv, TypeOK, SkipBlob, Resting, Content
<1>2. LinkedIsStored'
  BY Zenon DEF IInv, LinkedIsStored, has_blob, SkipBlob
<1>3. PullsStoreFirst'
  BY Zenon, StoreAssumption DEF IInv, TypeOK, PullsStoreFirst, has_blob, SkipBlob, Resting, Content
<1> QED
  BY Zenon, <1>1, <1>2, <1>3 DEF IInv

\* A downloaded blob is not stored yet.
LEMMA DownloadBlobIInv ==
  ASSUME IInv, NEW p \in Pulls, DownloadBlob(p)
  PROVE  IInv'
<1>1. TypeOK'
  BY StoreAssumption DEF IInv, TypeOK, DownloadBlob, Resting, Content
<1>2. LinkedIsStored'
  BY Zenon DEF IInv, LinkedIsStored, has_blob, DownloadBlob
<1>3. PullsStoreFirst'
  BY StoreAssumption DEF IInv, TypeOK, PullsStoreFirst, has_blob, DownloadBlob, Resting, Content
<1> QED
  BY Zenon, <1>1, <1>2, <1>3 DEF IInv

\* A failed download stores nothing.
LEMMA DownloadFailsIInv ==
  ASSUME IInv, NEW p \in Pulls, DownloadFails(p)
  PROVE  IInv'
<1>1. TypeOK'
  BY Zenon, StoreAssumption DEF IInv, TypeOK, DownloadFails, Resting, Content
<1>2. LinkedIsStored'
  BY Zenon DEF IInv, LinkedIsStored, has_blob, DownloadFails
<1>3. PullsStoreFirst'
  BY Zenon, StoreAssumption DEF IInv, TypeOK, PullsStoreFirst, has_blob, DownloadFails, Resting,
     Content
<1> QED
  BY Zenon, <1>1, <1>2, <1>3 DEF IInv

\* Returning changes no file.
LEMMA PullCompleteIInv ==
  ASSUME IInv, NEW p \in Pulls, PullComplete(p)
  PROVE  IInv'
<1>1. TypeOK'
  BY Zenon, StoreAssumption DEF IInv, TypeOK, PullComplete, Resting, Content
<1>2. LinkedIsStored'
  BY Zenon DEF IInv, LinkedIsStored, has_blob, PullComplete
<1>3. PullsStoreFirst'
  BY Zenon, StoreAssumption DEF IInv, TypeOK, PullsStoreFirst, has_blob, PullComplete, Resting,
     Content
<1> QED
  BY Zenon, <1>1, <1>2, <1>3 DEF IInv

\* A failed write leaves a file, or a truncated reference.
LEMMA WriteFailsIInv ==
  ASSUME IInv, NEW p \in Pulls, WriteFails(p)
  PROVE  IInv'
<1>1. TypeOK'
  <2>1. /\ pc' \in [Pulls -> Resting \cup {"resolve", "put", "create", "write", "link",
                                         "linking", "unlinked", "blobs"}]
        /\ manifest' \in [Pulls -> Manifests \cup {None}]
    BY Zenon DEF IInv, TypeOK, WriteFails, FallBack, Resting
  <2>2. faults' \in 0..MaxFaults
    BY StoreAssumption DEF IInv, TypeOK, WriteFails
  <2> QED
    BY Zenon, <2>1, <2>2 DEF IInv, TypeOK, WriteFails
<1>2. LinkedIsStored'
  BY Zenon DEF IInv, LinkedIsStored, has_blob, WriteFails
<1>3. PullsStoreFirst'
  BY DEF IInv, TypeOK, PullsStoreFirst, has_blob, WriteFails, FallBack
<1> QED
  BY Zenon, <1>1, <1>2, <1>3 DEF IInv

\* Removing a reference, or losing the daemon, deletes no blob file.
LEMMA RemoveIInv ==
  ASSUME IInv, NEW r \in Refs, remove_image(r)
  PROVE  IInv'
<1>1. TypeOK'
  BY Zenon DEF IInv, TypeOK, remove_image, Resting, manifest_ref_path, Files
<1>2. LinkedIsStored'
  BY Zenon, StoreAssumption DEF IInv, TypeOK, LinkedIsStored, has_blob, remove_image,
     manifest_ref_path
<1>3. PullsStoreFirst'
  BY Zenon DEF IInv, TypeOK, PullsStoreFirst, has_blob, remove_image
<1> QED
  BY Zenon, <1>1, <1>2, <1>3 DEF IInv

\* A tag that moves at the registry changes nothing here.
LEMMA TagMovesIInv ==
  ASSUME IInv, NEW t \in Tags, TagMoves(t)
  PROVE  IInv'
<1>1. TypeOK'
  BY StoreAssumption DEF IInv, TypeOK, TagMoves, Refs
<1>2. LinkedIsStored' /\ PullsStoreFirst'
  BY Zenon DEF IInv, LinkedIsStored, PullsStoreFirst, has_blob, TagMoves
<1> QED
  BY Zenon, <1>1, <1>2 DEF IInv

\* After a crash no pull runs, and the files are as they were.
LEMMA CrashIInv ==
  ASSUME IInv, Crash
  PROVE  IInv'
<1>1. TypeOK'
  BY StoreAssumption DEF IInv, TypeOK, Crash, Resting
<1>2. LinkedIsStored' /\ PullsStoreFirst'
  BY Zenon DEF IInv, LinkedIsStored, PullsStoreFirst, has_blob, Crash
<1> QED
  BY Zenon, <1>1, <1>2 DEF IInv

\* Every step of the store keeps the inductive invariant.
LEMMA NextIInv == IInv /\ [Next]_vars => IInv'
<1> SUFFICES ASSUME IInv, [Next]_vars PROVE IInv'
  OBVIOUS
<1>1. ASSUME NEW p \in Pulls, PullStep(p) PROVE IInv'
  BY Zenon, <1>1, ResolveTagIInv, ResolveFailsIInv, PutBlobIInv, CreateBlobIInv, WriteBlobIInv,
     TruncateRefIInv, WriteRefIInv, WriteUnlinkedRefIInv, SkipBlobIInv, DownloadBlobIInv,
     DownloadFailsIInv, PullCompleteIInv DEF PullStep
<1>2. ASSUME UNCHANGED vars PROVE IInv'
  BY Zenon, <1>2 DEF vars, IInv, TypeOK, LinkedIsStored, PullsStoreFirst, has_blob
<1>3. Removable \subseteq Refs
  BY Zenon, StoreAssumption
<1> QED
  BY Zenon, <1>1, <1>2, <1>3, WriteFailsIInv, StartPullIInv, RemoveIInv, TagMovesIInv, CrashIInv
     DEF Next

\* However pulls interleave, fail and crash, a reference that names a manifest
\* names one whose blob file exists: put_manifest stores before it links and
\* nothing deletes a blob.
THEOREM LinkedIsStoredHolds == Spec => []LinkedIsStored
<1>1. IInv => LinkedIsStored
  BY Zenon DEF IInv
<1> QED
  BY <1>1, InitIInv, NextIInv, PTL DEF Spec

\* Every file and local of the store keeps its type.
THEOREM StoreTypeOK == Spec => []TypeOK
<1>1. IInv => TypeOK
  BY Zenon DEF IInv
<1> QED
  BY <1>1, InitIInv, NextIInv, PTL DEF Spec
=============================================================================
