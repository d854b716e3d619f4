----------------------------- MODULE FileTrees -----------------------------
(***************************************************************************)
(* Directory trees and image layers: how a layer is made from what a step   *)
(* of a build changed, how the image store applies it to a directory, and   *)
(* how the container runtime unpacks it for overlayfs, which then shows the *)
(* layers of an image on top of one another.  A tree gives every path an    *)
(* entry; modes other than the kind of file, owners and symbolic links are  *)
(* left out, and so are opaque markers, which no build writes.              *)
(***************************************************************************)
EXTENDS Integers, Sequences, SequencesExt

CONSTANTS
    Path,         \* sequences of names; with a path, the directories above it
    Content,      \* what a file may hold
    Stat          \* what lstat tells of it: its size and time of change

Absent   == "absent"
Dir      == "dir"
Whiteout == "whiteout"      \* overlayfs: a character device 0:0

Above(p) == {q \in Path : IsStrictPrefix(q, p)}
Below(p) == {q \in Path : IsStrictPrefix(p, q)}
Present(t) == {p \in Path : t[p] # Absent}

(* What there is, is in a directory.                                        *)
Tree  == {t \in [Path -> Content \cup {Absent, Dir}] :
             \A p \in Present(t) : \A q \in Above(p) : t[q] = Dir}
Empty == [p \in Path |-> Absent]

Name == UNION {Range(p) : p \in Path}

ASSUME PathAssumption ==
    \A p \in Path : /\ p \in Seq(Name) /\ p # <<>>
                    /\ \A k \in 1..Len(p) : SubSeq(p, 1, k) \in Path
ASSUME StatAssumption == DOMAIN Stat = Content
ASSUME ContentAssumption == {Absent, Dir, Whiteout} \cap Content = {}

-----------------------------------------------------------------------------
(* A layer: the entries it holds and the paths it deletes.                  *)
LayerFrom(t, paths, whiteouts) ==
    [members |-> [p \in paths \cap Present(t) |-> t[p]], whiteouts |-> whiteouts]

(* The contents of files are not looked at.                                 *)
Snapshot(t) == [p \in Path |-> IF t[p] \in Content THEN Stat[t[p]] ELSE t[p]]

Changed(before, after) == {p \in Present(after) : Snapshot(before)[p] # Snapshot(after)[p]}

(* Mutant of Removed: the files in a directory are left to its removal.     *)
RemovedTops(before, after) ==
    {p \in Present(before) \ Present(after) : \A q \in Above(p) : before[q] # Dir}

Removed(before, after) == Present(before) \ Present(after)

(* What a layer deletes goes with everything below it.                      *)
Hides(layer, p) == ({p} \cup Above(p)) \cap layer.whiteouts # {}

Files(layer) == {q \in DOMAIN layer.members : layer.members[q] # Dir}

(* What a layer has a say in: what it holds or deletes, and all that is     *)
(* above the one and below the other.                                       *)
Touches(layer, p) ==
    \/ ({p} \cup Below(p)) \cap DOMAIN layer.members # {}
    \/ Hides(layer, p) \/ Above(p) \cap Files(layer) # {}

(* extract_layer: first the whiteouts, then the members, each in place of   *)
(* what is there unless both are directories, and with the directories      *)
(* above it.                                                                *)
Extract(t, layer) ==
    [p \in Path |->
        IF p \in DOMAIN layer.members THEN layer.members[p]
        ELSE IF Below(p) \cap DOMAIN layer.members # {} THEN Dir
        ELSE IF Touches(layer, p) THEN Absent
        ELSE t[p]]

(* store.unpack, the layers of an image in order: the last layer that has a *)
(* say in a path decides.                                                   *)
Decides(layers, k, p) ==
    Touches(layers[k], p) /\ \A j \in k + 1..Len(layers) : ~ Touches(layers[j], p)

Flatten(layers) ==
    [p \in Path |->
        IF \E k \in DOMAIN layers : Decides(layers, k, p)
        THEN Extract(Empty, layers[CHOOSE k \in DOMAIN layers : Decides(layers, k, p)])[p]
        ELSE Absent]

-----------------------------------------------------------------------------
(* The container runtime.                                                   *)

(* unpack_layer stops with an error at a whiteout whose directory is, in    *)
(* the same layer, a file or a whiteout: it cannot be made a directory.     *)
Unpacks(layer) ==
    \A p \in layer.whiteouts : Above(p) \cap (Files(layer) \cup layer.whiteouts) = {}

(* What the directory of the layer holds then: also the directories that    *)
(* were made to put something in.                                           *)
UnpackLayer(layer) ==
    LET placed == DOMAIN layer.members \cup layer.whiteouts IN
    [p \in Path |->
        IF p \in layer.whiteouts THEN Whiteout
        ELSE IF p \in DOMAIN layer.members THEN layer.members[p]
        ELSE IF Below(p) \cap placed # {} THEN Dir
        ELSE Absent]

(* overlayfs: a directory is merged with the one below, anything else hides *)
(* what is below.                                                           *)
Covers(upper, p) ==
    upper[p] # Absent \/ \E q \in Above(p) : upper[q] \notin {Absent, Dir}

Overlay(lower, upper) ==
    [p \in Path |->
        IF Covers(upper, p) THEN IF upper[p] = Whiteout THEN Absent ELSE upper[p]
        ELSE lower[p]]

(* Mutant of LowerDirs: bottom first, as in the manifest.                   *)
LowerDirsBottomFirst(layers) == [k \in 1..Len(layers) |-> UnpackLayer(layers[k])]

(* The option lowerdir lists the layers top first.                          *)
LowerDirs(layers) == Reverse([k \in 1..Len(layers) |-> UnpackLayer(layers[k])])

(* overlayfs mounts layers that could be unpacked, none of them twice.      *)
Mounts(layers) ==
    /\ \A k \in 1..Len(layers) : Unpacks(layers[k])
    /\ \A j, k \in 1..Len(layers) : layers[j] = layers[k] => j = k

(* What a container sees of an image: of a path, what the first lowerdir    *)
(* that covers it shows.                                                    *)
Uppermost(dirs, k, p) == Covers(dirs[k], p) /\ \A j \in 1..k - 1 : ~ Covers(dirs[j], p)

Mounted(layers) ==
    LET dirs == LowerDirs(layers) IN
    [p \in Path |->
        IF \E k \in DOMAIN dirs : Uppermost(dirs, k, p)
        THEN Overlay(Empty, dirs[CHOOSE k \in DOMAIN dirs : Uppermost(dirs, k, p)])[p]
        ELSE Absent]
=============================================================================
