------------------------------ MODULE LayerTrees ------------------------------
(***************************************************************************)
(* What a container sees of an image.  unpack_layer applies the entries of *)
(* a layer, whiteouts included, to a directory.  prepare_rootfs unpacks    *)
(* every layer into one directory; prepare_layers unpacks each layer into  *)
(* a directory of its own, and overlayfs (or a copy, elsewhere) stacks     *)
(* them.  Both are stepped entry by entry, side by side.  A tree maps the  *)
(* paths that exist to Dir or to the number of the layer that wrote the    *)
(* file; a path is a sequence of names.                                    *)
(***************************************************************************)
EXTENDS Naturals, Sequences, SequencesExt, FiniteSets

CONSTANTS ImageSet     \* images: sequences of layers, layers of entries

VARIABLES image,
          layer, entry,    \* the entry unpacked next
          merged,          \* the directory of prepare_rootfs
          own,             \* the directories of prepare_layers, by layer
          mergedOk, ownOk  \* no entry failed so far

vars == <<image, layer, entry, merged, own, mergedOk, ownOk>>

Dir == 0
Empty == [p \in {} |-> Dir]
Under(p, q) == Len(p) < Len(q) /\ IsPrefix(p, q)
Parents(p) == {SubSeq(p, 1, n) : n \in 1..(Len(p) - 1)}
Without(t, gone) == [p \in DOMAIN t \ gone |-> t[p]]
IsFile(t, p) == p \in DOMAIN t /\ t[p] # Dir

\* A path must be made of plain names, and at least one.
clean_layer_path(p) == p # <<>> /\ \A i \in DOMAIN p : p[i] \notin {"..", "/"}

\* The directory of a whiteout: an error if some part of it is no directory;
\* nothing to do if it does not exist.
whiteout_parent_fails(t, p) == \E q \in Parents(p) : IsFile(t, q)
whiteout_parent(t, p) == \A q \in Parents(p) : q \in DOMAIN t

\* A file, or a directory with everything in it.
remove_path(t, p) == Without(t, {p} \cup {q \in DOMAIN t : Under(p, q)})

\* Everything in a directory.
clear_directory(t, p) == Without(t, {q \in DOMAIN t : Under(p, q)})

\* The tar library writes one entry: missing parents are made, a file
\* replaces a file, a directory may exist already.
UnpackFails(t, e) ==
    \/ \E q \in Parents(e.path) : IsFile(t, q)
    \/ e.op = "file" /\ e.path \in DOMAIN t /\ t[e.path] = Dir
    \/ e.op = "dir" /\ IsFile(t, e.path)
unpack_in(t, e, n) ==
    [p \in DOMAIN t \cup Parents(e.path) \cup {e.path} |->
        IF p = e.path THEN IF e.op = "file" THEN n ELSE Dir
        ELSE IF p \in DOMAIN t THEN t[p] ELSE Dir]

\* One entry of unpack_layer: it fails, or gives the next tree.
EntryFails(t, e) ==
    \/ ~clean_layer_path(e.path)
    \/ e.op \in {"white", "opaque"} /\ whiteout_parent_fails(t, e.path)
    \/ e.op = "opaque" /\ IsFile(t, e.path)
    \/ e.op \in {"file", "dir"} /\ UnpackFails(t, e)

\* A whiteout of path p stands for the file .wh.<name> in p's parent; an
\* opaque whiteout of p for the file .wh..wh..opq in p.
unpack_layer_entry(t, e, n) ==
    CASE e.op = "white"  -> IF whiteout_parent(t, e.path) THEN remove_path(t, e.path) ELSE t
      [] e.op = "opaque" -> IF e.path \in DOMAIN t THEN clear_directory(t, e.path) ELSE t
      [] OTHER           -> unpack_in(t, e, n)

Init ==
    /\ image \in ImageSet
    /\ layer = 1 /\ entry = 1
    /\ merged = Empty
    /\ own = [n \in DOMAIN image |-> Empty]
    /\ mergedOk = TRUE /\ ownOk = TRUE

Done == layer > Len(image)

\* The next entry, into both directories; a directory that failed is left.
UnpackEntry ==
    /\ ~Done /\ entry <= Len(image[layer])
    /\ LET e == image[layer][entry] IN
       /\ mergedOk' = (mergedOk /\ ~EntryFails(merged, e))
       /\ merged' = IF mergedOk' THEN unpack_layer_entry(merged, e, layer) ELSE merged
       /\ ownOk' = (ownOk /\ ~EntryFails(own[layer], e))
       /\ own' = IF ownOk'
                 THEN [own EXCEPT ![layer] = unpack_layer_entry(@, e, layer)] ELSE own
    /\ entry' = entry + 1
    /\ UNCHANGED <<image, layer>>

NextLayer ==
    /\ ~Done /\ entry > Len(image[layer])
    /\ layer' = layer + 1 /\ entry' = 1
    /\ UNCHANGED <<image, merged, own, mergedOk, ownOk>>

Next == UnpackEntry \/ NextLayer
Spec == Init /\ [][Next]_vars

(***************************************************************************)
(* The two ways to stack the layers' own directories.                      *)
(***************************************************************************)
OwnPaths == UNION {DOMAIN own[n] : n \in DOMAIN own}
Top(p) == CHOOSE n \in DOMAIN own :
            p \in DOMAIN own[n] /\ \A k \in DOMAIN own : p \in DOMAIN own[k] => k <= n

\* mount(2) with the top layer first in lowerdir: the uppermost entry of a
\* path is seen, unless a file above it hides the directory it is in.
Overlay ==
    LET seen == {p \in OwnPaths : \A q \in Parents(p) : \A n \in DOMAIN own :
                                      n > Top(p) => ~IsFile(own[n], q)}
    IN [p \in seen |-> own[Top(p)][p]]

\* copy_dir_recursive cannot put a file over a directory, nor the reverse.
copy_fails ==
    \E n, k \in DOMAIN own : \E p \in DOMAIN own[n] \cap DOMAIN own[k] :
        own[n][p] = Dir /\ own[k][p] # Dir

\* Copying the directories one after the other, lowest first.
fallback_copy ==
    FoldLeft(LAMBDA t, d : [p \in DOMAIN t \cup DOMAIN d |-> IF p \in DOMAIN d THEN d[p] ELSE t[p]],
             Empty, own)
-----------------------------------------------------------------------------
\* The image format, independently of how it is unpacked: a layer first hides
\* what its whiteouts name in the layers below it, then adds its own entries.
Hidden(t, l) ==
    {p \in DOMAIN t : \E i \in DOMAIN l :
        \/ l[i].op = "white" /\ (p = l[i].path \/ Under(l[i].path, p))
        \/ l[i].op = "opaque" /\ Under(l[i].path, p)}
Added(l) == {i \in DOMAIN l : l[i].op \in {"file", "dir"}}
Applied(t, l, n) ==
    LET kept == Without(t, Hidden(t, l))
        new == UNION {Parents(l[i].path) \cup {l[i].path} : i \in Added(l)}
    IN [p \in DOMAIN kept \cup new |->
          IF \E i \in Added(l) : l[i].path = p /\ l[i].op = "file" THEN n
          ELSE IF p \in DOMAIN kept THEN kept[p] ELSE Dir]
ImageTree ==
    FoldLeft(LAMBDA t, n : Applied(t, image[n], n), Empty, [n \in DOMAIN image |-> n])

Whiteouts == \E n \in DOMAIN image : \E i \in DOMAIN image[n] :
                 image[n][i].op \in {"white", "opaque"}

\* Trees, position and outcome have their types, and every file in a tree is
\* in directories of that tree.
TypeOK ==
    /\ layer \in 1..(Len(image) + 1) /\ entry \in Nat
    /\ mergedOk \in BOOLEAN /\ ownOk \in BOOLEAN
    /\ \A t \in {merged} \cup {own[n] : n \in DOMAIN own} :
         /\ \A p \in DOMAIN t : t[p] \in {Dir} \cup DOMAIN image
         /\ \A p \in DOMAIN t : \A q \in Parents(p) : q \in DOMAIN t /\ t[q] = Dir

\* prepare_rootfs, which unpacks the layers into one directory in order,
\* ends with exactly the tree the image stands for.
MergedIsImage == Done /\ mergedOk => merged = ImageTree

\* Without whiteouts, stacking the layers' own directories shows the same
\* tree as unpacking them into one.
OverlayIsMergedWithoutWhiteouts ==
    Done /\ mergedOk /\ ownOk /\ ~Whiteouts => Overlay = merged

\* mount_overlay gives the same tree where it mounts and where it copies,
\* as long as no path is a file in one layer and a directory in another.
CopyIsOverlay == Done /\ ownOk /\ ~copy_fails => fallback_copy = Overlay
=============================================================================
