----------------------------- MODULE LayerCache -----------------------------
(***************************************************************************)
(* The cache of unpacked image layers, one directory per layer, which all   *)
(* containers of a workspace use as lower directories of their roots.       *)
(*                                                                          *)
(* Creators are not coordinated: each looks which layers are ready, and has *)
(* a helper process of its own unpack the others, one after the other,      *)
(* under a lock per layer.  A layer is ready when its marker file is there. *)
(* A helper may fail or be killed between any two steps; then its lock is   *)
(* free, and the creator may try again.                                     *)
(***************************************************************************)
EXTENDS Integers, Sequences, SequencesExt

CONSTANTS
    Container, None,
    Layer,
    LayersOf,     \* the layers of the image of a container, bottom first
    MaxFaults     \* bound: failures of helpers and of containers

ASSUME LayersAssumption == LayersOf \in [Container -> Seq(Layer)]
ASSUME FaultsAssumption == MaxFaults \in Nat /\ None \notin Container

VARIABLES
    disk,         \* per layer, its directory: absent, partial or complete
    marker,       \* the layers with a marker file
    holder,       \* per layer, whose helper has the lock
    creator,      \* per container, where its creation is
    todo,         \* per container, the layers its helper has left to do
    faults

cacheVars == <<disk, marker, holder, creator, todo>>

CreatorStep == {"new", "waiting", "holding", "clearing", "unpacking", "checking",
                "ready", "failed"}

CacheInit ==
    /\ disk = [l \in Layer |-> "absent"]
    /\ marker = {}
    /\ holder = [l \in Layer |-> None]
    /\ creator = [c \in Container |-> "new"]
    /\ todo = [c \in Container |-> {}]

To(c, step) == creator' = [creator EXCEPT ![c] = step]

(* ensure: what is missing is left to a helper.                             *)
Ensure(c) ==
    /\ creator[c] \in {"new", "failed"}
    /\ LET missing == ToSet(LayersOf[c]) \ marker IN
       /\ todo' = [todo EXCEPT ![c] = missing]
       /\ To(c, IF missing = {} THEN "checking" ELSE "waiting")
    /\ UNCHANGED <<disk, marker, holder, faults>>

(* The helper takes the layers from the bottom up.                          *)
IsNext(c, l) ==
    \E i \in DOMAIN LayersOf[c] :
        /\ LayersOf[c][i] = l
        /\ l \in todo[c] /\ \A j \in 1..i - 1 : LayersOf[c][j] \notin todo[c]

Lock(c, l) ==
    /\ creator[c] = "waiting"
    /\ IsNext(c, l)
    /\ holder[l] = None
    /\ holder' = [holder EXCEPT ![l] = c]
    /\ To(c, "holding")
    /\ UNCHANGED <<disk, marker, todo, faults>>

(* The helper is done with the layer and lets go of the lock.               *)
Release(c, l) ==
    /\ holder' = [holder EXCEPT ![l] = None]
    /\ todo' = [todo EXCEPT ![c] = @ \ {l}]
    /\ To(c, IF todo[c] = {l} THEN "checking" ELSE "waiting")

(* Mutant of Look: what was missing before the lock was taken is unpacked.  *)
LookNoMore(c, l) ==
    /\ creator[c] = "holding"
    /\ To(c, "clearing")
    /\ UNCHANGED <<disk, marker, holder, todo, faults>>

(* Under the lock, the helper looks again.                                  *)
Look(c, l) ==
    /\ creator[c] = "holding"
    /\ IF l \in marker THEN Release(c, l)
       ELSE To(c, "clearing") /\ UNCHANGED <<holder, todo>>
    /\ UNCHANGED <<disk, marker, faults>>

(* What is left of an attempt before is deleted first.                      *)
Clear(c, l) ==
    /\ creator[c] = "clearing"
    /\ disk' = [disk EXCEPT ![l] = "partial"]
    /\ To(c, "unpacking")
    /\ UNCHANGED <<marker, holder, todo, faults>>

Unpack(c, l) ==
    /\ creator[c] = "unpacking"
    /\ disk[l] = "partial"
    /\ disk' = [disk EXCEPT ![l] = "complete"]
    /\ UNCHANGED <<marker, holder, creator, todo, faults>>

Mark(c, l) ==
    /\ creator[c] = "unpacking"
    /\ disk[l] = "complete"
    /\ marker' = marker \cup {l}
    /\ Release(c, l)
    /\ UNCHANGED <<disk, faults>>

HelperFails(c) ==
    /\ creator[c] \in {"waiting", "holding", "clearing", "unpacking"}
    /\ faults < MaxFaults
    /\ faults' = faults + 1
    /\ holder' = [l \in Layer |-> IF holder[l] = c THEN None ELSE holder[l]]
    /\ todo' = [todo EXCEPT ![c] = {}]
    /\ To(c, "failed")
    /\ UNCHANGED <<disk, marker>>

(* The creator goes by the markers once more.                               *)
Check(c) ==
    /\ creator[c] = "checking"
    /\ To(c, IF ToSet(LayersOf[c]) \subseteq marker THEN "ready" ELSE "failed")
    /\ UNCHANGED <<disk, marker, holder, todo, faults>>

(* A step of the helper of c, with the lock of a layer or to take it.       *)
Locked(c, l) == holder[l] = c /\ (Look(c, l) \/ Clear(c, l) \/ Unpack(c, l) \/ Mark(c, l))
Helper(c) == \E l \in Layer : Lock(c, l) \/ Locked(c, l)
CacheStep(c) == Ensure(c) \/ Helper(c) \/ HelperFails(c) \/ Check(c)

CacheTypeOK ==
    /\ disk \in [Layer -> {"absent", "partial", "complete"}]
    /\ marker \subseteq Layer
    /\ holder \in [Layer -> Container \cup {None}]
    /\ creator \in [Container -> CreatorStep]
    /\ todo \in [Container -> SUBSET Layer]
    /\ faults \in 0..MaxFaults

(* A layer that has its marker is complete, and stays so: nobody deletes    *)
(* what others use (nshelper.py:43-54).                                     *)
MarkedIsComplete == \A l \in marker : disk[l] = "complete"
=============================================================================
