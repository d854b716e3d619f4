----------------------------- MODULE ImageProofs -----------------------------
(***************************************************************************)
(* Proofs about FileTrees and ImageBuild, for any Dockerfiles, effects and  *)
(* edits, any number of builds one after the other, of pushes at once and   *)
(* of failures: what an index names is there, with every layer; the layers  *)
(* of an image give the directory that was built, to the builder and to a   *)
(* container; and a step that is taken from the cache is what executing it  *)
(* would be.                                                                *)
(***************************************************************************)
EXTENDS ImageBuild, TLAPS

(* A store has blobs, manifests, and a place for every tag.                 *)
Shaped(s) == {"layers", "manifests", "index"} \subseteq DOMAIN s /\ DOMAIN s.index = Tag

(* How far the push of u has come: after the blobs all layers are there,    *)
(* after the manifest it is too, and what the index that was read names is. *)
Pushed(u) ==
    /\ {"step", "tag", "image", "index"} \subseteq DOMAIN push[u]
    /\ push[u].step \in {"blobs", "manifest", "read", "write"}
    /\ DOMAIN push[u].index = Tag
    /\ push[u].step # "blobs" => Range(push[u].image.layers) \subseteq remote.layers
    /\ push[u].step \in {"read", "write"} => push[u].image \in remote.manifests
    /\ push[u].step = "write" =>
          \A t \in Tag : push[u].index[t] # NoImage => push[u].index[t] \in remote.manifests
PushInv == DOMAIN push = Pusher /\ \A u \in Pusher : push[u].step # "none" => Pushed(u)

(* Two pushes that have the same file, or one whose .tmp another has opened *)
(* or put in place, contest it; and who writes the index is that far.       *)
ClashInv ==
    /\ DOMAIN writing = Pusher /\ DOMAIN share = Pusher
    /\ \A u \in Pusher :
         /\ share[u] # "alone" => writing[u] \in contested \ {NoFile}
         /\ writing[u] = IndexFile => push[u].step = "write"
    /\ \A u, v \in Pusher :
         u # v /\ writing[u] = writing[v] => writing[u] \in contested \cup {NoFile}

IInv == Shaped(store) /\ Shaped(remote) /\ IndexClosed /\ PushInv /\ ClashInv

-----------------------------------------------------------------------------
(* An index of which every tag names a manifest of the store, all with      *)
(* their layers, is closed (store.py:129-142).                              *)
LEMMA ClosedStore ==
    ASSUME NEW s,
           \A t \in Tag : s.index[t] # NoImage => s.index[t] \in s.manifests,
           \A i \in s.manifests : Range(i.layers) \subseteq s.layers
    PROVE  Closed(s)
BY DEF Closed, Tagged

(* A store that gains blobs stays closed (store.py:82-105).                 *)
LEMMA MoreLayers ==
    ASSUME NEW s, Shaped(s), Closed(s), NEW L
    PROVE  LET new == [s EXCEPT !.layers = @ \cup L] IN
           /\ Shaped(new) /\ Closed(new)
           /\ new.layers = s.layers \cup L /\ new.manifests = s.manifests /\ new.index = s.index
BY DEF Shaped, Closed, Tagged

(* So does one that gains a manifest whose layers it has (store.py:202).    *)
LEMMA OneMoreManifest ==
    ASSUME NEW s, Shaped(s), Closed(s), NEW i, Range(i.layers) \subseteq s.layers
    PROVE  LET new == [s EXCEPT !.manifests = @ \cup {i}] IN
           /\ Shaped(new) /\ Closed(new)
           /\ new.layers = s.layers /\ new.manifests = s.manifests \cup {i}
           /\ new.index = s.index
BY DEF Shaped, Closed, Tagged

(* A push goes on when the destination gains blobs and manifests: none is   *)
(* ever taken away (store.py:182-207).                                      *)
LEMMA PushesGoOn ==
    ASSUME PushInv, UNCHANGED push,
           remote.layers \subseteq remote'.layers, remote.manifests \subseteq remote'.manifests
    PROVE  PushInv'
BY DEF PushInv, Pushed

-----------------------------------------------------------------------------
(* Builds and edits *)

(* The builder's steps add layers to its store, or tag an image that is     *)
(* complete, and leave the pushes alone (build.py:283-327).                 *)
Building == \/ \E p \in Path, c \in Content : Edit(p, c)
            \/ \E t \in Tag : \E g \in Program[t] : StartBuild(t, g)
            \/ From \/ Configure \/ Copy \/ Run \/ TagImage \/ SaveCache \/ Abandon

(* A COPY or RUN adds at most the layer it made (build.py:550-566).         *)
LEMMA LayerSteps ==
    ASSUME Copy \/ Run
    PROVE  /\ UNCHANGED <<remote, pushes>>
           /\ \E L : store' = [store EXCEPT !.layers = @ \cup L] \/ UNCHANGED store
<1>1. CASE Copy
  <2> DEFINE layer == LayerFrom(Copied, Written, {})
  <2>1. UNCHANGED <<remote, pushes>>
    BY <1>1 DEF Copy
  <2>2. UNCHANGED store \/ store' = [store EXCEPT !.layers = @ \cup {layer}]
    BY <1>1 DEF Copy, Reuse, Record
  <2> QED BY <2>1, <2>2
<1>2. CASE Run
  <2>1. UNCHANGED <<remote, pushes>>
    BY <1>2 DEF Run
  <2>2. Reuse(Chain({})) \/ \E key, root, layer : Record(key, root, layer)
    BY <1>2 DEF Run
  <2>3. UNCHANGED store \/ \E layer : store' = [store EXCEPT !.layers = @ \cup {layer}]
    BY <2>2 DEF Reuse, Record
  <2> QED BY <2>1, <2>3
<1> QED BY <1>1, <1>2

(* Every step of a build, and every edit, keeps the invariant.              *)
LEMMA BuildingKeeps == IInv /\ Building => IInv'
<1> SUFFICES ASSUME IInv, Building PROVE IInv'
  OBVIOUS
<1>1. UNCHANGED <<remote, pushes>>
  BY LayerSteps DEF Building, Edit, StartBuild, From, Configure, TagImage, SaveCache, Abandon
<1>2. /\ Shaped(remote)' /\ Closed(remote)' /\ PushInv'
      /\ (torn \subseteq contested)' /\ ClashInv'
  BY <1>1 DEF IInv, IndexClosed, Shaped, Closed, Tagged, PushInv, Pushed, ClashInv, pushes, files
<1>3. Shaped(store)' /\ Closed(store)'
  <2>1. CASE UNCHANGED store
    BY <2>1 DEF IInv, IndexClosed, Shaped, Closed, Tagged
  <2>2. CASE Copy \/ Run
    <3>1. PICK L : store' = [store EXCEPT !.layers = @ \cup L] \/ UNCHANGED store
      BY <2>2, LayerSteps
    <3>2. CASE store' = [store EXCEPT !.layers = @ \cup L]
      <4>1. Shaped(store) /\ Closed(store)
        BY DEF IInv, IndexClosed
      <4>2. Shaped(store') /\ Closed(store')
        BY <3>2, <4>1, MoreLayers
      <4> QED BY <4>2 DEF Shaped, Closed, Tagged
    <3> QED BY <2>1, <3>1, <3>2
  <2>3. CASE TagImage
    <3> DEFINE i == build.image
    <3>1. /\ store'.layers = store.layers
          /\ store'.manifests = store.manifests \cup {i}
          /\ {"layers", "manifests", "index"} \subseteq DOMAIN store'
          /\ DOMAIN store'.index = Tag
          /\ \A t \in Tag : store'.index[t] \in {i, store.index[t]}
      BY <2>3 DEF TagImage, IInv, Shaped
    <3>2. Range(i.layers) \subseteq store.layers
      BY <2>3 DEF TagImage
    <3>3. \A t \in Tag : store'.index[t] # NoImage => store'.index[t] \in store'.manifests
      BY <3>1 DEF IInv, IndexClosed, Closed, Tagged
    <3>4. \A j \in store'.manifests : Range(j.layers) \subseteq store'.layers
      BY <3>1, <3>2 DEF IInv, IndexClosed, Closed
    <3>5. Closed(store')
      BY <3>3, <3>4, ClosedStore
    <3> QED BY <3>1, <3>5 DEF Shaped, Closed, Tagged
  <2> QED BY <2>1, <2>2, <2>3 DEF Building, Edit, StartBuild, From, Configure, SaveCache, Abandon
<1> QED BY <1>2, <1>3 DEF IInv, IndexClosed

-----------------------------------------------------------------------------
(* Pushes *)

(* The names of the files differ.                                           *)
LEMMA FileNames ==
    /\ IndexFile # NoFile
    /\ \A l : LayerBlob(l) # NoFile /\ LayerBlob(l) # IndexFile
    /\ \A i : ManifestBlob(i) # NoFile /\ ManifestBlob(i) # IndexFile
    /\ \A i, j : ManifestBlob(i) = ManifestBlob(j) => i = j
<1>1. IndexFile # NoFile
  BY DEF IndexFile, NoFile
<1>2. ASSUME NEW l PROVE LayerBlob(l) # NoFile /\ LayerBlob(l) # IndexFile
  <2>1. LayerBlob(l)[1] = "layer" /\ NoFile[1] = "none" /\ IndexFile[1] = "index"
    BY DEF LayerBlob, NoFile, IndexFile
  <2> QED BY <2>1
<1>3. ASSUME NEW i PROVE ManifestBlob(i) # NoFile /\ ManifestBlob(i) # IndexFile
  <2>1. ManifestBlob(i)[1] = "manifest" /\ NoFile[1] = "none" /\ IndexFile[1] = "index"
    BY DEF ManifestBlob, NoFile, IndexFile
  <2> QED BY <2>1
<1>4. ASSUME NEW i, NEW j, ManifestBlob(i) = ManifestBlob(j) PROVE i = j
  <2>1. ManifestBlob(i)[2] = i /\ ManifestBlob(j)[2] = j
    BY DEF ManifestBlob
  <2> QED BY <1>4, <2>1
<1> QED BY <1>1, <1>2, <1>3, <1>4

(* Opening a file contests it if another has it; only who is at the index   *)
(* opens the index (store.py:90-93, 114-116).                               *)
LEMMA OpenKeeps == \A u \in Pusher : IInv /\ OpenFile(u) => IInv'
<1> SUFFICES ASSUME NEW u \in Pusher, IInv, OpenFile(u) PROVE IInv'
  OBVIOUS
<1>1. /\ UNCHANGED <<store, remote, push, torn>>
      /\ DOMAIN writing = Pusher /\ writing[u] = NoFile /\ torn \subseteq contested
  BY DEF OpenFile, PushUnchanged, Free, IInv, ClashInv, IndexClosed
<1>2. PICK f \in Unwritten(u) :
         /\ writing' = [writing EXCEPT ![u] = f]
         /\ share' = [v \in Pusher |-> IF v \in Writers(f) \cup {u} /\ Writers(f) # {}
                                       THEN "shared" ELSE share[v]]
         /\ contested' = IF Writers(f) = {} THEN contested ELSE contested \cup {f}
  BY DEF OpenFile
<1>3. /\ DOMAIN writing' = Pusher /\ DOMAIN share' = Pusher /\ contested \subseteq contested'
      /\ writing'[u] = f /\ \A v \in Pusher \ {u} : writing'[v] = writing[v]
      /\ Writers(f) # {} => f \in contested'
  BY <1>1, <1>2
<1>4. f # NoFile /\ (f = IndexFile => push[u].step = "write")
  BY <1>2, FileNames DEF Unwritten, Pushing
<1>5. ASSUME NEW v \in Pusher PROVE share'[v] # "alone" => writing'[v] \in contested' \ {NoFile}
  <2>1. CASE v \in Writers(f) \cup {u} /\ Writers(f) # {}
    BY <1>3, <1>4, <2>1 DEF Writers
  <2>2. CASE ~ (v \in Writers(f) \cup {u} /\ Writers(f) # {})
    <3>1. share'[v] = share[v]
      BY <1>2, <2>2
    <3>2. share[v] # "alone" => writing[v] \in contested \ {NoFile}
      BY DEF IInv, ClashInv
    <3> QED BY <1>1, <1>3, <3>1, <3>2
  <2> QED BY <2>1, <2>2
<1>6. ASSUME NEW v \in Pusher, NEW w \in Pusher, v # w, writing'[v] = writing'[w]
      PROVE  writing'[v] \in contested' \cup {NoFile}
  <2>1. CASE v # u /\ w # u
    BY <1>3, <1>6, <2>1 DEF IInv, ClashInv
  <2>2. ASSUME NEW x \in Pusher, x # u, writing[x] = f PROVE f \in contested'
    <3>1. x \in Writers(f) \/ share[x] = "taken"
      BY <2>2 DEF Writers
    <3> QED BY <1>3, <2>2, <3>1 DEF IInv, ClashInv
  <2> QED BY <1>3, <1>6, <2>1, <2>2
<1>7. ClashInv'
  <2>1. ASSUME NEW v \in Pusher PROVE writing'[v] = IndexFile => push'[v].step = "write"
    BY <1>1, <1>3, <1>4 DEF IInv, ClashInv
  <2> QED BY <1>3, <1>5, <1>6, <2>1 DEF ClashInv
<1> QED BY <1>1, <1>3, <1>7 DEF IInv, IndexClosed, Shaped, Closed, Tagged, PushInv, Pushed

(* What a file is replaced by is whole unless it was contested, and the     *)
(* others that write it contest it (store.py:95, 117).                      *)
LEMMA PutKeeps ==
    ASSUME IInv, NEW u \in Pusher, PutFile(u),
           \A v \in Pusher \ {u} : push'[v] = push[v]
    PROVE  (torn \subseteq contested)' /\ ClashInv'
<1>1. /\ torn \subseteq contested /\ UNCHANGED contested /\ ClashInv
      /\ torn' \subseteq torn \cup {writing[u]}
      /\ share[u] = "alone" => torn' \subseteq torn
  BY DEF PutFile, IInv, IndexClosed
<1>2. (torn \subseteq contested)'
  BY <1>1 DEF ClashInv
<1>3. /\ DOMAIN writing' = Pusher /\ DOMAIN share' = Pusher
      /\ writing'[u] = NoFile /\ \A v \in Pusher \ {u} : writing'[v] = writing[v]
      /\ share'[u] = "alone"
      /\ \A v \in Pusher \ {u} :
           share'[v] = IF writing[v] = writing[u] THEN "taken" ELSE share[v]
  BY <1>1 DEF PutFile, ClashInv
<1>4. writing[u] # NoFile
  BY DEF PutFile, Free
<1>5. ASSUME NEW v \in Pusher
      PROVE  /\ share'[v] # "alone" => writing'[v] \in contested' \ {NoFile}
             /\ writing'[v] = IndexFile => push'[v].step = "write"
  <2>1. CASE v = u
    BY <1>3, <2>1, FileNames
  <2>2. CASE v # u
    BY <1>1, <1>3, <1>4, <2>2 DEF ClashInv
  <2> QED BY <2>1, <2>2
<1>6. ASSUME NEW v \in Pusher, NEW w \in Pusher, v # w, writing'[v] = writing'[w]
      PROVE  writing'[v] \in contested' \cup {NoFile}
  BY <1>1, <1>3, <1>6 DEF ClashInv
<1> QED BY <1>2, <1>3, <1>5, <1>6 DEF ClashInv

(* Files that are left alone stay as contested as they are, while no push   *)
(* leaves the index that it writes.                                         *)
LEMMA FilesKeep ==
    ASSUME IInv, UNCHANGED files,
           \A u \in Pusher : writing[u] = IndexFile => push'[u].step = "write"
    PROVE  (torn \subseteq contested)' /\ ClashInv'
BY DEF files, IInv, IndexClosed, ClashInv

(* The blobs are sent, or found to be all there (store.py:192-201).         *)
LEMMA SendBlobKeeps == \A u \in Pusher : IInv /\ SendBlob(u) => IInv'
<1> SUFFICES ASSUME NEW u \in Pusher, IInv, SendBlob(u) PROVE IInv'
  OBVIOUS
<1>0. UNCHANGED store /\ Shaped(store)' /\ Closed(store)'
  BY DEF IInv, IndexClosed, SendBlob, PushUnchanged, Shaped, Closed, Tagged
<1>1. CASE /\ Free(u) /\ Lacking(u) = {}
           /\ push' = [push EXCEPT ![u].step = "manifest"]
           /\ UNCHANGED <<remote, files>>
  <2>1. UNCHANGED remote /\ push' = [push EXCEPT ![u].step = "manifest"]
    BY <1>1
  <2>2. Pushed(u) /\ DOMAIN push = Pusher
    BY DEF IInv, PushInv, SendBlob, Pushing
  <2>3. /\ push'[u].step = "manifest" /\ push'[u].image = push[u].image
        /\ push'[u].index = push[u].index
        /\ {"step", "tag", "image", "index"} \subseteq DOMAIN push'[u]
        /\ DOMAIN push' = Pusher /\ \A v \in Pusher \ {u} : push'[v] = push[v]
    BY <2>1, <2>2 DEF Pushed
  <2>4. Range(push[u].image.layers) \subseteq remote.layers
    BY <1>1 DEF Lacking
  <2>5. Pushed(u)'
    BY <2>1, <2>2, <2>3, <2>4 DEF Pushed
  <2>6. PushInv'
    BY <2>1, <2>3, <2>5 DEF IInv, PushInv, Pushed
  <2>7. (torn \subseteq contested)' /\ ClashInv'
    <3>1. ASSUME NEW v \in Pusher, writing[v] = IndexFile PROVE push'[v].step = "write"
      BY <1>1, <2>3, <3>1, FileNames DEF Free, IInv, ClashInv
    <3> QED BY <1>1, <3>1, FilesKeep
  <2> QED BY <1>0, <2>1, <2>6, <2>7 DEF IInv, IndexClosed, Shaped, Closed, Tagged
<1>2. CASE /\ \E l \in Range(push[u].image.layers) :
                 writing[u] = LayerBlob(l) /\ remote' = [remote EXCEPT !.layers = @ \cup {l}]
           /\ PutFile(u) /\ UNCHANGED push
  <2>1. PICK l : remote' = [remote EXCEPT !.layers = @ \cup {l}]
    BY <1>2
  <2>2. UNCHANGED push
    BY <1>2
  <2>3. Shaped(remote) /\ Closed(remote)
    BY DEF IInv, IndexClosed
  <2>4. /\ Shaped(remote') /\ Closed(remote')
        /\ remote'.layers = remote.layers \cup {l} /\ remote'.manifests = remote.manifests
    BY <2>1, <2>3, MoreLayers
  <2>5. PushInv'
    BY <2>2, <2>4, PushesGoOn DEF IInv
  <2>6. (torn \subseteq contested)' /\ ClashInv'
    BY <1>2, PutKeeps
  <2> QED BY <1>0, <2>4, <2>5, <2>6 DEF IInv, IndexClosed, Shaped, Closed, Tagged
<1> QED BY <1>1, <1>2 DEF SendBlob

(* The manifest is written when the layers are there, or is there already   *)
(* (store.py:202-203).                                                      *)
LEMMA SendManifestKeeps == \A u \in Pusher : IInv /\ SendManifest(u) => IInv'
<1> SUFFICES ASSUME NEW u \in Pusher, IInv, SendManifest(u) PROVE IInv'
  OBVIOUS
<1> DEFINE i == push[u].image
<1>0. UNCHANGED store /\ Shaped(store)' /\ Closed(store)'
  BY DEF IInv, IndexClosed, SendManifest, PushUnchanged, Shaped, Closed, Tagged
<1>1. Pushed(u) /\ DOMAIN push = Pusher /\ Range(i.layers) \subseteq remote.layers
  BY DEF IInv, PushInv, Pushed, SendManifest, Pushing
<1>2. Shaped(remote) /\ Closed(remote)
  BY DEF IInv, IndexClosed
<1>4. /\ push'[u].step = "read" /\ push'[u].image = i /\ push'[u].index = push[u].index
      /\ {"step", "tag", "image", "index"} \subseteq DOMAIN push'[u]
      /\ DOMAIN push' = Pusher /\ \A v \in Pusher \ {u} : push'[v] = push[v]
  BY <1>1 DEF SendManifest, Pushed
<1>3. /\ Shaped(remote') /\ Closed(remote')
      /\ remote'.layers = remote.layers /\ remote'.manifests = remote.manifests \cup {i}
      /\ (torn \subseteq contested)' /\ ClashInv'
  <2>1. CASE Free(u)
    <3>1. Unwritten(u) = {} /\ UNCHANGED <<remote, files>> /\ push[u].step = "manifest"
      BY <2>1 DEF SendManifest, Pushing
    <3>2. Unwritten(u) = {ManifestBlob(i)} \ {ManifestBlob(j) : j \in remote.manifests}
      BY <3>1 DEF Unwritten, Pushing
    <3>3. i \in remote.manifests
      BY <3>1, <3>2, FileNames
    <3>4. ASSUME NEW v \in Pusher, writing[v] = IndexFile PROVE push'[v].step = "write"
      BY <1>4, <2>1, <3>4, FileNames DEF Free, IInv, ClashInv
    <3>5. (torn \subseteq contested)' /\ ClashInv'
      BY <3>1, <3>4, FilesKeep
    <3>6. remote' = remote /\ remote.manifests = remote.manifests \cup {i}
      BY <3>1, <3>3
    <3> QED BY <1>2, <3>5, <3>6
  <2>2. CASE ~ Free(u)
    <3>1. PutFile(u) /\ remote' = [remote EXCEPT !.manifests = @ \cup {i}]
      BY <2>2 DEF SendManifest
    <3>2. (torn \subseteq contested)' /\ ClashInv'
      BY <1>4, <3>1, PutKeeps
    <3> QED BY <1>1, <1>2, <3>1, <3>2, OneMoreManifest
  <2> QED BY <2>1, <2>2
<1>5. Pushed(u)'
  BY <1>1, <1>3, <1>4 DEF Pushed
<1>6. PushInv'
  BY <1>3, <1>4, <1>5 DEF IInv, PushInv, Pushed
<1> QED BY <1>0, <1>3, <1>6 DEF IInv, IndexClosed, Shaped, Closed, Tagged

(* Starting and reading the index change only the push itself               *)
(* (store.py:182-191, 204).                                                 *)
LEMMA LocalKeeps ==
    \A u \in Pusher : IInv /\ (ReadIndex(u) \/ \E t \in Tag : StartPush(u, t)) => IInv'
<1> SUFFICES ASSUME NEW u \in Pusher, IInv, ReadIndex(u) \/ \E t \in Tag : StartPush(u, t)
             PROVE  IInv'
  OBVIOUS
<1>1. UNCHANGED <<store, remote, files>>
  BY DEF ReadIndex, StartPush, PushUnchanged
<1>2. DOMAIN push = Pusher /\ DOMAIN remote.index = Tag
  BY DEF IInv, PushInv, Shaped
<1>3. DOMAIN push' = Pusher /\ \A v \in Pusher \ {u} : push'[v] = push[v]
  BY <1>2 DEF ReadIndex, StartPush
<1>4. Pushed(u)'
  <2>1. CASE ReadIndex(u)
    <3>1. Pushed(u) /\ push[u].step = "read"
      BY <2>1 DEF ReadIndex, Pushing, IInv, PushInv
    <3>2. /\ push'[u].step = "write" /\ push'[u].index = remote.index
          /\ push'[u].image = push[u].image
          /\ {"step", "tag", "image", "index"} \subseteq DOMAIN push'[u]
      BY <1>2, <2>1, <3>1 DEF ReadIndex, Pushed
    <3>3. \A t \in Tag : remote.index[t] # NoImage => remote.index[t] \in remote.manifests
      BY DEF IInv, IndexClosed, Closed, Tagged
    <3> QED BY <1>1, <1>2, <3>1, <3>2, <3>3 DEF Pushed
  <2>2. ASSUME NEW t \in Tag, StartPush(u, t) PROVE Pushed(u)'
    <3>1. push'[u] = [step |-> "blobs", tag |-> t, image |-> store.index[t], index |-> remote.index]
      BY <1>2, <2>2 DEF StartPush
    <3> QED BY <1>2, <3>1 DEF Pushed
  <2> QED BY <2>1, <2>2
<1>5. PushInv'
  BY <1>1, <1>3, <1>4 DEF IInv, PushInv, Pushed
<1>6. (torn \subseteq contested)' /\ ClashInv'
  <2>1. push[u].step # "write"
    BY DEF ReadIndex, StartPush, Pushing
  <2>2. ASSUME NEW v \in Pusher, writing[v] = IndexFile PROVE push'[v].step = "write"
    BY <1>3, <2>1, <2>2 DEF IInv, ClashInv
  <2> QED BY <1>1, <2>2, FilesKeep
<1> QED BY <1>1, <1>5, <1>6 DEF IInv, IndexClosed, Shaped, Closed, Tagged

(* An index that is written names what was there when it was read, and the  *)
(* manifest that was sent (store.py:204-206).                               *)
LEMMA NewIndexCloses ==
    ASSUME IInv, NEW v \in Pusher, push[v].step = "write", remote' = NewIndex(v)
    PROVE  /\ Shaped(remote)' /\ Closed(remote)'
           /\ remote'.layers = remote.layers /\ remote'.manifests = remote.manifests
<1> DEFINE i == push[v].image
<1>1. Pushed(v)
  BY DEF IInv, PushInv
<1>2. /\ remote'.layers = remote.layers /\ remote'.manifests = remote.manifests
      /\ {"layers", "manifests", "index"} \subseteq DOMAIN remote'
      /\ DOMAIN remote'.index = Tag
      /\ \A t \in Tag : remote'.index[t] \in {i, push[v].index[t]}
  BY <1>1 DEF NewIndex, IInv, Shaped, Pushed
<1>3. \A t \in Tag : remote'.index[t] # NoImage => remote'.index[t] \in remote'.manifests
  BY <1>1, <1>2 DEF Pushed
<1>4. \A j \in remote'.manifests : Range(j.layers) \subseteq remote'.layers
  BY <1>2 DEF IInv, IndexClosed, Closed
<1>5. Closed(remote')
  BY <1>3, <1>4, ClosedStore
<1> QED BY <1>2, <1>5 DEF Shaped, Closed, Tagged

LEMMA WriteIndexKeeps == \A u \in Pusher : IInv /\ WriteIndex(u) => IInv'
<1> SUFFICES ASSUME NEW u \in Pusher, IInv, WriteIndex(u) PROVE IInv'
  OBVIOUS
<1>0. UNCHANGED store /\ Shaped(store)' /\ Closed(store)'
  BY DEF IInv, IndexClosed, WriteIndex, PushUnchanged, Shaped, Closed, Tagged
<1>1. PICK v \in Pusher : remote' = NewIndex(v) /\ writing[v] = IndexFile
  BY DEF WriteIndex, Writers
<1>2. /\ Shaped(remote)' /\ Closed(remote)'
      /\ remote'.layers = remote.layers /\ remote'.manifests = remote.manifests
  BY <1>1, NewIndexCloses DEF IInv, ClashInv
<1>3. /\ push'[u].step = "none" /\ DOMAIN push' = Pusher
      /\ \A w \in Pusher \ {u} : push'[w] = push[w]
  BY DEF WriteIndex, NotPushing, IInv, PushInv
<1>4. PushInv'
  BY <1>2, <1>3 DEF IInv, PushInv, Pushed
<1>5. (torn \subseteq contested)' /\ ClashInv'
  BY <1>3, PutKeeps DEF WriteIndex
<1> QED BY <1>0, <1>2, <1>4, <1>5 DEF IInv, IndexClosed

(* A push that ends early leaves the index as it was, or as it wrote it, or *)
(* a contested file cut short (store.py:92-95, 115-117).                    *)
LEMMA PushEndsKeeps == \A u \in Pusher : IInv /\ PushEnds(u) => IInv'
<1> SUFFICES ASSUME NEW u \in Pusher, IInv, PushEnds(u) PROVE IInv'
  OBVIOUS
<1>0. UNCHANGED store /\ Shaped(store)' /\ Closed(store)' /\ UNCHANGED contested
  BY DEF IInv, IndexClosed, PushEnds, PushUnchanged, Shaped, Closed, Tagged
<1>1. /\ Shaped(remote)' /\ Closed(remote)'
      /\ remote'.layers = remote.layers /\ remote'.manifests = remote.manifests
  <2>1. CASE UNCHANGED remote
    BY <2>1 DEF IInv, IndexClosed, Shaped, Closed, Tagged
  <2>2. CASE push[u].step = "write" /\ remote' = NewIndex(u)
    BY <2>2, NewIndexCloses
  <2> QED BY <2>1, <2>2 DEF PushEnds, Leave, Pushing
<1>2. (torn \subseteq contested)'
  <2>1. torn \subseteq contested /\ (share[u] # "alone" => writing[u] \in contested)
    BY DEF IInv, IndexClosed, ClashInv
  <2>2. torn' \subseteq torn \/ (share[u] = "taken" /\ torn' = torn \cup {writing[u]})
    BY DEF PushEnds, Leave
  <2> QED BY <1>0, <2>1, <2>2
<1>3. /\ push'[u].step = "none" /\ DOMAIN push' = Pusher
      /\ \A w \in Pusher \ {u} : push'[w] = push[w]
  BY DEF PushEnds, NotPushing, IInv, PushInv
<1>4. PushInv'
  BY <1>1, <1>3 DEF IInv, PushInv, Pushed
<1>5. /\ DOMAIN writing' = Pusher /\ DOMAIN share' = Pusher
      /\ writing'[u] = NoFile /\ share'[u] = "alone"
      /\ \A w \in Pusher \ {u} : writing'[w] = writing[w] /\ share'[w] = share[w]
  BY DEF PushEnds, IInv, ClashInv
<1>6. ClashInv'
  BY <1>0, <1>3, <1>5, FileNames DEF IInv, ClashInv
<1> QED BY <1>0, <1>1, <1>2, <1>4, <1>6 DEF IInv, IndexClosed

-----------------------------------------------------------------------------
(* New stores are empty (store.py:52-64).                                   *)
LEMMA InitKeeps == Init => IInv
<1> SUFFICES ASSUME Init PROVE IInv
  OBVIOUS
<1>1. Shaped(store) /\ Shaped(remote) /\ Closed(store) /\ Closed(remote) /\ PushInv
  BY DEF Init, Shaped, Closed, Tagged, PushInv, NoStore, NotPushing
<1>2. torn \subseteq contested /\ ClashInv
  BY FileNames DEF Init, ClashInv
<1> QED BY <1>1, <1>2 DEF IInv, IndexClosed

(* Every step of the system keeps the invariant.                            *)
LEMMA NextKeeps == IInv /\ [Next]_vars => IInv'
<1> SUFFICES ASSUME IInv, [Next]_vars PROVE IInv'
  OBVIOUS
<1>1. CASE UNCHANGED vars
  BY <1>1 DEF vars, pushes, files, IInv, IndexClosed, Shaped, Closed, Tagged, PushInv,
              Pushed, ClashInv
<1>2. CASE Building
  BY <1>2, BuildingKeeps
<1>3. ASSUME NEW u \in Pusher,
             \/ \E t \in Tag : StartPush(u, t)
             \/ OpenFile(u) \/ SendBlob(u) \/ SendManifest(u) \/ ReadIndex(u) \/ WriteIndex(u)
             \/ PushDies(u) \/ PushFails(u)
      PROVE  IInv'
  BY <1>3, OpenKeeps, SendBlobKeeps, SendManifestKeeps, LocalKeeps, WriteIndexKeeps,
     PushEndsKeeps DEF PushDies, PushFails
<1> QED BY <1>1, <1>2, <1>3 DEF Next, Building

(* What an index names is there, with every layer, although builds and      *)
(* pushes die half-way and pushes write the same temporary files at once;   *)
(* and only a file that two of them wrote at once is ever cut short         *)
(* (store.py:92-95, 113-117, 130-136, 182-207).                             *)
THEOREM IndexesAreClosed == Spec => []IndexClosed
<1>1. IInv => IndexClosed
  BY DEF IInv
<1> QED BY <1>1, InitKeeps, NextKeeps, PTL DEF Spec

-----------------------------------------------------------------------------
(* Paths, trees and layers *)

(* A path is above another exactly when it is shorter and its names are     *)
(* those the other begins with.                                             *)
LEMMA AboveIsShorter ==
    ASSUME NEW p \in Path, NEW q \in Path
    PROVE  /\ p \in Seq(Name) /\ q \in Seq(Name)
           /\ q \in Above(p) <=> /\ Len(q) < Len(p)
                                 /\ \A k \in 1..Len(q) : q[k] = p[k]
<1>1. p \in Seq(Name) /\ q \in Seq(Name)
  BY PathAssumption
<1>2. ASSUME Len(q) <= Len(p)
      PROVE  /\ SubSeq(p, 1, Len(q)) \in Seq(Name) /\ Len(SubSeq(p, 1, Len(q))) = Len(q)
             /\ \A k \in 1..Len(q) : SubSeq(p, 1, Len(q))[k] = p[k]
  BY <1>1, <1>2
<1>3. SubSeq(q, 1, Len(q)) = q
  BY <1>1
<1>4. IsPrefix(q, p) <=> Len(q) <= Len(p) /\ \A k \in 1..Len(q) : q[k] = p[k]
  BY <1>1, <1>2, <1>3 DEF IsPrefix
<1>5. (\A k \in 1..Len(q) : q[k] = p[k]) /\ Len(q) = Len(p) => q = p
  BY <1>1
<1>6. Len(q) < Len(p) => q # p
  BY <1>1
<1> QED BY <1>1, <1>4, <1>5, <1>6 DEF Above, IsStrictPrefix

(* What is above something above a path is above the path.                  *)
LEMMA AboveAbove ==
    ASSUME NEW p \in Path, NEW q \in Above(p), NEW r \in Above(q)
    PROVE  q \in Path /\ r \in Path /\ r \in Above(p) /\ r \in Above(q) /\ r # p
<1>1. q \in Path /\ r \in Path
  BY DEF Above
<1>2. Len(q) \in Nat /\ Len(r) \in Nat /\ Len(p) \in Nat
  BY <1>1, AboveIsShorter
<1> QED BY <1>1, <1>2, AboveIsShorter

(* Of two paths above a third, one is above the other, or they are one.     *)
LEMMA BelowIsAbove ==
    ASSUME NEW p \in Path
    PROVE  /\ \A q \in Path : q \in Below(p) <=> p \in Above(q)
           /\ \A q \in Above(p) : q \in Path
           /\ p \notin Above(p)
BY DEF Above, Below, IsStrictPrefix

-----------------------------------------------------------------------------
(* A layer of a tree: nothing in it is below something that it has as a     *)
(* file or deletes (layer.py:96-150, build.py:249-252).                     *)
Sound(layer) ==
    /\ DOMAIN layer.members \cap layer.whiteouts = {}
    /\ \A p \in DOMAIN layer.members :
           Above(p) \cap (Files(layer) \cup layer.whiteouts) = {}

Layer ==
    {l \in [members : UNION {[D -> Content \cup {Dir}] : D \in SUBSET Path},
            whiteouts : SUBSET Path] : Sound(l)}

(* A layer fits a tree when what it deletes has a place there.              *)
Fits(t, layer) == \A w \in layer.whiteouts : \A q \in Above(w) : t[q] = Dir

LEMMA LayerType ==
    ASSUME NEW l \in Layer
    PROVE  /\ DOMAIN l.members \subseteq Path /\ l.whiteouts \subseteq Path /\ Sound(l)
           /\ \A p \in DOMAIN l.members : l.members[p] \in Content \cup {Dir}
           /\ Files(l) \subseteq DOMAIN l.members
BY DEF Layer, Files

LEMMA TreeType ==
    ASSUME NEW t \in Tree
    PROVE  /\ t \in [Path -> Content \cup {Absent, Dir}]
           /\ \A p \in Path : t[p] # Absent => \A q \in Above(p) : t[q] = Dir
BY DEF Tree, Present

LEMMA EmptyIsTree == Empty \in Tree
BY DEF Empty, Tree, Present

(* What is cut out of a tree, with what is not in it deleted, is a layer    *)
(* (layer.py:58-190).                                                       *)
LEMMA LayersAreSound ==
    ASSUME NEW t \in Tree, NEW P \in SUBSET Path, NEW W \in SUBSET Path,
           W \cap Present(t) = {}
    PROVE  LayerFrom(t, P, W) \in Layer
<1> DEFINE l == LayerFrom(t, P, W)
<1>1. /\ DOMAIN l.members = P \cap Present(t) /\ l.whiteouts = W
      /\ \A p \in P \cap Present(t) : l.members[p] = t[p]
      /\ l = [members |-> l.members, whiteouts |-> W]
  BY DEF LayerFrom
<1>2. l.members \in [P \cap Present(t) -> Content \cup {Dir}]
  BY TreeType DEF LayerFrom, Present
<1>3. Sound(l)
  <2>1. DOMAIN l.members \cap W = {}
    BY <1>1
  <2>2. ASSUME NEW p \in DOMAIN l.members, NEW q \in Above(p)
        PROVE  q \notin Files(l) /\ q \notin W
    <3>1. t[q] = Dir /\ q \in Path
      BY <1>1, TreeType DEF Present, Above
    <3>2. q \notin Files(l)
      BY <1>1, <3>1 DEF Files
    <3>3. q \notin W
      BY <3>1 DEF Present, Absent, Dir
    <3> QED BY <3>2, <3>3
  <2> QED BY <1>1, <2>1, <2>2 DEF Sound
<1> QED BY <1>1, <1>2, <1>3 DEF Layer

(* A layer that is applied to a tree leaves a tree (layer.py:198-241).      *)
LEMMA ExtractIsTree ==
    ASSUME NEW t \in Tree, NEW l \in Layer
    PROVE  Extract(t, l) \in Tree
<1> DEFINE M == DOMAIN l.members
           x == Extract(t, l)
<1>1. x \in [Path -> Content \cup {Absent, Dir}]
  BY LayerType, TreeType DEF Extract
<1>2. ASSUME NEW p \in Path, x[p] # Absent, NEW q \in Above(p) PROVE x[q] = Dir
  <2>0. q \in Path /\ \A r \in Above(q) : r \in Above(p)
    BY AboveAbove DEF Above
  <2>1. CASE q \in M
    <3>1. q \notin Files(l)
      <4>1. CASE p \in M
        BY <4>1, LayerType DEF Sound
      <4>2. CASE p \notin M /\ Below(p) \cap M # {}
        <5>1. PICK m \in M : m \in Below(p)
          BY <4>2
        <5>2. m \in Path /\ p \in Above(m)
          BY <5>1, LayerType, BelowIsAbove
        <5>3. q \in Above(m)
          BY <5>2, AboveAbove
        <5> QED BY <5>3, LayerType DEF Sound
      <4>3. CASE p \notin M /\ Below(p) \cap M = {}
        BY <1>2, <4>3 DEF Extract, Touches
      <4> QED BY <4>1, <4>2, <4>3
    <3> QED BY <2>0, <2>1, <3>1 DEF Extract, Files
  <2>2. CASE q \notin M /\ Below(q) \cap M # {}
    BY <2>0, <2>2 DEF Extract
  <2>3. CASE q \notin M /\ Below(q) \cap M = {}
    <3>1. p \notin M
      BY <2>0, <2>3, BelowIsAbove
    <3>2. Below(p) \cap M = {}
      <4> SUFFICES ASSUME NEW m \in M, m \in Below(p) PROVE FALSE
        OBVIOUS
      <4>1. m \in Path /\ p \in Above(m)
        BY LayerType, BelowIsAbove
      <4>2. q \in Above(m)
        BY <4>1, AboveAbove
      <4> QED BY <2>0, <2>3, <4>1, <4>2, BelowIsAbove
    <3>3. ~ Touches(l, p) /\ x[p] = t[p]
      BY <1>2, <3>1, <3>2 DEF Extract
    <3>4. ~ Hides(l, p) /\ Above(p) \cap Files(l) = {}
      BY <3>3 DEF Touches
    <3>5. ~ Hides(l, q) /\ Above(q) \cap Files(l) = {}
      BY <2>0, <3>4 DEF Hides
    <3>6. x[q] = t[q]
      BY <2>0, <2>3, <3>5 DEF Extract, Touches
    <3> QED BY <1>2, <3>3, <3>6, TreeType
  <2> QED BY <2>1, <2>2, <2>3
<1> QED BY <1>1, <1>2 DEF Tree, Present

-----------------------------------------------------------------------------
(* What a RUN changed, cut out of what it left and applied to what it       *)
(* found, gives what it left, if size and time tell contents apart          *)
(* (build.py:221-252, 386-390).                                             *)
StatDiscerns ==
    \A c \in Content : Stat[c] \notin {Absent, Dir} /\ \A d \in Content : Stat[c] = Stat[d] => c = d

LEMMA DiffRestores ==
    ASSUME NEW before \in Tree, NEW after \in Tree, StatDiscerns
    PROVE  LET l == LayerFrom(after, Changed(before, after), Removed(before, after)) IN
           l \in Layer /\ Fits(before, l) /\ Extract(before, l) = after
<1> DEFINE P == Changed(before, after)
           W == Removed(before, after)
           l == LayerFrom(after, P, W)
<1>0. \A p \in Path : /\ before[p] \in Content \cup {Absent, Dir}
                      /\ after[p] \in Content \cup {Absent, Dir}
  BY TreeType
<1>1. P \subseteq Present(after) /\ W = Present(before) \ Present(after)
  BY DEF Changed, Removed
<1>2. l \in Layer
  BY <1>1, LayersAreSound DEF Present
<1>3. Fits(before, l)
  BY <1>1, TreeType DEF Fits, LayerFrom, Present
<1>4. DOMAIN l.members = P /\ l.whiteouts = W /\ \A p \in P : l.members[p] = after[p]
  BY <1>1 DEF LayerFrom
<1>5. ASSUME NEW p \in Path PROVE Extract(before, l)[p] = after[p]
  <2>1. CASE p \in P
    BY <1>4, <2>1 DEF Extract
  <2>2. CASE p \notin P /\ Below(p) \cap P # {}
    <3>1. PICK m \in P : m \in Below(p)
      BY <2>2
    <3>2. m \in Path /\ after[m] # Absent /\ p \in Above(m)
      BY <1>1, <3>1, BelowIsAbove DEF Present
    <3>3. after[p] = Dir
      BY <3>2, TreeType
    <3> QED BY <1>4, <2>2, <3>3 DEF Extract
  <2>3. CASE p \notin P /\ Below(p) \cap P = {} /\ Touches(l, p)
    <3>1. Extract(before, l)[p] = Absent
      BY <1>4, <2>3 DEF Extract
    <3>2. Hides(l, p) \/ Above(p) \cap Files(l) # {}
      BY <1>4, <2>3 DEF Touches
    <3>3. CASE Hides(l, p)
      <4>1. PICK q \in {p} \cup Above(p) : q \in W
        BY <1>4, <3>3 DEF Hides
      <4>2. after[q] = Absent
        BY <1>1, <4>1 DEF Present
      <4> QED BY <3>1, <4>1, <4>2, TreeType DEF Absent, Dir
    <3>4. CASE Above(p) \cap Files(l) # {}
      <4>1. PICK q \in Above(p) : q \in Files(l)
        BY <3>4
      <4>2. after[q] # Dir
        BY <1>4, <4>1 DEF Files
      <4> QED BY <3>1, <4>1, <4>2, TreeType
    <3> QED BY <3>2, <3>3, <3>4
  <2>4. CASE p \notin P /\ Below(p) \cap P = {} /\ ~ Touches(l, p)
    <3>1. Extract(before, l)[p] = before[p]
      BY <1>4, <2>4 DEF Extract
    <3>2. p \notin W
      BY <1>4, <2>4 DEF Touches, Hides
    <3>3. CASE after[p] = Absent
      BY <1>1, <3>1, <3>2, <3>3 DEF Present
    <3>4. CASE after[p] # Absent
      <4>1. Snapshot(before)[p] = Snapshot(after)[p]
        BY <2>4, <3>4 DEF Changed, Present
      <4>2. (IF before[p] \in Content THEN Stat[before[p]] ELSE before[p])
            = (IF after[p] \in Content THEN Stat[after[p]] ELSE after[p])
        BY <4>1 DEF Snapshot
      <4>3. before[p] = after[p]
        BY <1>0, <4>2 DEF StatDiscerns
      <4> QED BY <3>1, <4>3
    <3> QED BY <3>3, <3>4
  <2> QED BY <2>1, <2>2, <2>3, <2>4
<1>6. Extract(before, l) = after
  BY <1>5, TreeType DEF Extract
<1> QED BY <1>2, <1>3, <1>6

(* What overlayfs shows of an unpacked layer over a tree is the tree with   *)
(* the layer applied (minicon/image.py:214-260, layer.py:198-241).          *)
LEMMA OverlayIsExtract ==
    ASSUME NEW t \in Tree, NEW l \in Layer, Fits(t, l), Unpacks(l)
    PROVE  Overlay(t, UnpackLayer(l)) = Extract(t, l)
<1> DEFINE M == DOMAIN l.members
           W == l.whiteouts
           u == UnpackLayer(l)
<1>0. /\ M \subseteq Path /\ W \subseteq Path /\ M \cap W = {}
      /\ \A p \in M : l.members[p] \in Content \cup {Dir}
      /\ \A p \in M : l.members[p] \notin {Absent, Whiteout}
  BY LayerType, ContentAssumption DEF Sound, Absent, Dir, Whiteout
<1>1. \A p \in Path : u[p] = IF p \in W THEN Whiteout ELSE IF p \in M THEN l.members[p]
                             ELSE IF Below(p) \cap (M \cup W) # {} THEN Dir ELSE Absent
  BY DEF UnpackLayer
<1>2. \A q \in Path : u[q] \notin {Absent, Dir} <=> q \in W \cup Files(l)
  BY <1>0, <1>1 DEF Files, Absent, Dir, Whiteout
<1>3. ASSUME NEW p \in Path PROVE Overlay(t, u)[p] = Extract(t, l)[p]
  <2>1. CASE p \in W
    <3>1. Overlay(t, u)[p] = Absent
      BY <1>1, <2>1 DEF Overlay, Covers, Absent, Whiteout
    <3>2. p \notin M /\ Below(p) \cap M = {}
      BY <1>0, <2>1, LayerType, BelowIsAbove DEF Sound
    <3> QED BY <2>1, <3>1, <3>2 DEF Extract, Touches, Hides
  <2>2. CASE p \in M
    BY <1>0, <1>1, <2>2 DEF Overlay, Covers, Extract
  <2>3. CASE p \notin M \cup W /\ Below(p) \cap (M \cup W) # {}
    <3>1. Overlay(t, u)[p] = Dir
      BY <1>1, <2>3 DEF Overlay, Covers, Absent, Dir, Whiteout
    <3>2. CASE Below(p) \cap M # {}
      BY <2>3, <3>1, <3>2 DEF Extract
    <3>3. CASE Below(p) \cap M = {}
      <4>1. PICK w \in W : w \in Below(p)
        BY <2>3, <3>3
      <4>0. w \in Path /\ p \in Above(w)
        BY <1>0, <4>1, BelowIsAbove
      <4>2. \A q \in Above(p) : q \in Above(w)
        BY <4>0, AboveAbove
      <4>3. Above(w) \cap (Files(l) \cup W) = {}
        BY <4>1 DEF Unpacks
      <4>4. ~ Touches(l, p)
        BY <2>3, <3>3, <4>0, <4>2, <4>3 DEF Touches, Hides
      <4>5. t[p] = Dir
        BY <4>0 DEF Fits
      <4> QED BY <2>3, <3>1, <3>3, <4>4, <4>5 DEF Extract
    <3> QED BY <3>2, <3>3
  <2>4. CASE p \notin M \cup W /\ Below(p) \cap (M \cup W) = {}
    <3>1. u[p] = Absent
      BY <1>1, <2>4
    <3>2. Covers(u, p) <=> Above(p) \cap (W \cup Files(l)) # {}
      BY <1>2, <3>1, BelowIsAbove DEF Covers
    <3>3. Touches(l, p) <=> Above(p) \cap (W \cup Files(l)) # {}
      BY <2>4 DEF Touches, Hides
    <3> QED BY <2>4, <3>1, <3>2, <3>3 DEF Overlay, Extract, Absent, Whiteout
  <2> QED BY <2>1, <2>2, <2>3, <2>4
<1> QED BY <1>3 DEF Overlay, Extract

-----------------------------------------------------------------------------
(* The layers of an image one after the other (store.py:166-179,            *)
(* mounts.py:103-111).                                                      *)
LEMMA NoLayers == Flatten(<<>>) = Empty /\ Mounted(<<>>) = Empty
BY DEF Flatten, Mounted, LowerDirs, Reverse, Empty

LEMMA OneMoreLayer ==
    ASSUME NEW layers \in Seq(Layer), NEW l \in Layer
    PROVE  Flatten(Append(layers, l)) = Extract(Flatten(layers), l)
<1> DEFINE more == Append(layers, l)
           n == Len(layers)
<1>0. /\ n \in Nat /\ Len(more) = n + 1 /\ more[n + 1] = l
      /\ DOMAIN layers = 1..n /\ DOMAIN more = 1..n + 1
      /\ \A k \in 1..n : more[k] = layers[k]
  OBVIOUS
<1>1. ASSUME NEW p \in Path PROVE Flatten(more)[p] = Extract(Flatten(layers), l)[p]
  <2>1. CASE Touches(l, p)
    <3>1. \A k \in 1..n + 1 : Decides(more, k, p) <=> k = n + 1
      <4>1. Decides(more, n + 1, p)
        BY <1>0, <2>1 DEF Decides
      <4>2. \A k \in 1..n : ~ Decides(more, k, p)
        BY <1>0, <2>1 DEF Decides
      <4> QED BY <1>0, <4>1, <4>2
    <3>2. (CHOOSE k \in DOMAIN more : Decides(more, k, p)) = n + 1
      BY <1>0, <3>1
    <3>3. Flatten(more)[p] = Extract(Empty, l)[p]
      BY <1>0, <3>1, <3>2 DEF Flatten
    <3> QED BY <2>1, <3>3 DEF Extract
  <2>2. CASE ~ Touches(l, p)
    <3>1. \A k \in 1..n : Decides(more, k, p) <=> Decides(layers, k, p)
      <4> TAKE k \in 1..n
      <4>1. \A j \in k + 1..n : Touches(more[j], p) <=> Touches(layers[j], p)
        BY <1>0
      <4>2. (\A j \in k + 1..n + 1 : ~ Touches(more[j], p)) <=> \A j \in k + 1..n : ~ Touches(more[j], p)
        BY <1>0, <2>2
      <4> QED BY <1>0, <4>1, <4>2 DEF Decides
    <3>2. ~ Decides(more, n + 1, p)
      BY <1>0, <2>2 DEF Decides
    <3>3. Extract(Flatten(layers), l)[p] = Flatten(layers)[p]
      BY <2>2 DEF Extract, Touches
    <3>4. CASE \E k \in 1..n : Decides(layers, k, p)
      <4> DEFINE k == CHOOSE i \in 1..n : Decides(layers, i, p)
                 m == CHOOSE i \in 1..n + 1 : Decides(more, i, p)
      <4>1. k \in 1..n /\ Decides(layers, k, p)
        BY <3>4
      <4>2. m \in 1..n + 1 /\ Decides(more, m, p)
        BY <1>0, <3>1, <4>1
      <4>3. m \in 1..n /\ Decides(layers, m, p)
        BY <1>0, <3>1, <3>2, <4>2
      <4>4. m = k
        <5> HIDE DEF k, m
        <5> QED BY <1>0, <4>1, <4>3 DEF Decides
      <4>5. Flatten(more)[p] = Extract(Empty, more[m])[p]
        BY <1>0, <4>2 DEF Flatten
      <4>6. Flatten(layers)[p] = Extract(Empty, layers[k])[p]
        BY <1>0, <4>1 DEF Flatten
      <4>7. more[m] = layers[k]
        BY <1>0, <4>1, <4>4
      <4> QED BY <3>3, <4>5, <4>6, <4>7
    <3>5. CASE ~ \E k \in 1..n : Decides(layers, k, p)
      <4>1. ~ \E k \in 1..n + 1 : Decides(more, k, p)
        BY <1>0, <3>1, <3>2, <3>5
      <4> QED BY <1>0, <3>3, <3>5, <4>1 DEF Flatten
    <3> QED BY <3>4, <3>5
  <2> QED BY <2>1, <2>2
<1> QED BY <1>1 DEF Flatten, Extract

(* A layer that is added to an image becomes the uppermost lowerdir.        *)
LEMMA OneMoreLowerDir ==
    ASSUME NEW layers \in Seq(Layer), NEW l \in Layer
    PROVE  Mounted(Append(layers, l)) = Overlay(Mounted(layers), UnpackLayer(l))
<1> DEFINE more == Append(layers, l)
           n == Len(layers)
           dirs == LowerDirs(layers)
           new == LowerDirs(more)
           u == UnpackLayer(l)
<1>0. /\ n \in Nat /\ Len(more) = n + 1 /\ more[n + 1] = l
      /\ \A k \in 1..n : more[k] = layers[k]
  OBVIOUS
<1>1. dirs = [i \in 1..n |-> UnpackLayer(layers[n - i + 1])]
  <2> DEFINE s == [k \in 1..n |-> UnpackLayer(layers[k])]
  <2>1. Len(s) = n
    BY <1>0
  <2>2. \A i \in 1..n : (n - i) + 1 \in 1..n
    BY <1>0
  <2>3. Reverse(s) = [i \in 1..n |-> s[(n - i) + 1]]
    BY <2>1 DEF Reverse
  <2> QED BY <2>2, <2>3 DEF LowerDirs
<1>2. new = [i \in 1..n + 1 |-> UnpackLayer(more[n + 1 - i + 1])]
  <2> DEFINE s == [k \in 1..n + 1 |-> UnpackLayer(more[k])]
  <2>1. Len(s) = n + 1
    BY <1>0
  <2>2. \A i \in 1..n + 1 : (n + 1 - i) + 1 \in 1..n + 1
    BY <1>0
  <2>3. Reverse(s) = [i \in 1..n + 1 |-> s[(n + 1 - i) + 1]]
    BY <2>1 DEF Reverse
  <2> QED BY <1>0, <2>2, <2>3 DEF LowerDirs
<1>3. DOMAIN dirs = 1..n /\ DOMAIN new = 1..n + 1
  BY <1>1, <1>2
<1>4. new[1] = u
  BY <1>0, <1>2
<1>5. \A i \in 1..n : new[i + 1] = dirs[i]
  <2> TAKE i \in 1..n
  <2>1. n + 1 - (i + 1) + 1 = n - i + 1 /\ n - i + 1 \in 1..n /\ i + 1 \in 1..n + 1
    BY <1>0
  <2> QED BY <1>0, <1>1, <1>2, <2>1
<1> HIDE DEF dirs, new
<1>6. ASSUME NEW p \in Path PROVE Mounted(more)[p] = Overlay(Mounted(layers), u)[p]
  <2>1. CASE Covers(u, p)
    <3>1. \A k \in 1..n + 1 : Uppermost(new, k, p) <=> k = 1
      <4>1. Uppermost(new, 1, p)
        BY <1>4, <2>1 DEF Uppermost
      <4>2. \A k \in 2..n + 1 : ~ Uppermost(new, k, p)
        BY <1>0, <1>4, <2>1 DEF Uppermost
      <4> QED BY <1>0, <4>1, <4>2
    <3>2. (CHOOSE k \in DOMAIN new : Uppermost(new, k, p)) = 1
      BY <1>0, <1>3, <3>1
    <3>3. Mounted(more)[p] = Overlay(Empty, u)[p]
      BY <1>0, <1>3, <1>4, <3>1, <3>2 DEF Mounted, new
    <3> QED BY <2>1, <3>3 DEF Overlay
  <2>2. CASE ~ Covers(u, p)
    <3>1. \A k \in 1..n : Uppermost(new, k + 1, p) <=> Uppermost(dirs, k, p)
      <4> TAKE k \in 1..n
      <4>1. \A j \in 1..k - 1 : Covers(new[j + 1], p) <=> Covers(dirs[j], p)
        BY <1>0, <1>5
      <4>2. (\A j \in 1..k : ~ Covers(new[j], p)) <=> \A j \in 1..k - 1 : ~ Covers(new[j + 1], p)
        <5>1. \A j \in 2..k : j - 1 \in 1..k - 1 /\ j = (j - 1) + 1
          BY <1>0
        <5>2. \A j \in 1..k - 1 : j + 1 \in 1..k
          BY <1>0
        <5>3. 1..k = {1} \cup 2..k
          BY <1>0
        <5> QED BY <1>4, <2>2, <5>1, <5>2, <5>3
      <4>3. k + 1 - 1 = k
        BY <1>0
      <4>4. (\A j \in 1..k - 1 : ~ Covers(new[j + 1], p)) <=> \A j \in 1..k - 1 : ~ Covers(dirs[j], p)
        BY <4>1
      <4>5. Uppermost(new, k + 1, p) <=> Covers(new[k + 1], p) /\ \A j \in 1..k : ~ Covers(new[j], p)
        BY <4>3 DEF Uppermost
      <4>6. Covers(new[k + 1], p) <=> Covers(dirs[k], p)
        BY <1>5
      <4> QED BY <4>2, <4>4, <4>5, <4>6 DEF Uppermost
    <3>2. ~ Uppermost(new, 1, p)
      BY <1>4, <2>2 DEF Uppermost
    <3>3. Overlay(Mounted(layers), u)[p] = Mounted(layers)[p]
      BY <2>2 DEF Overlay
    <3>4. \A m \in 1..n + 1 : Uppermost(new, m, p) => m - 1 \in 1..n /\ Uppermost(dirs, m - 1, p)
      <4> TAKE m \in 1..n + 1
      <4>1. m # 1 => m - 1 \in 1..n /\ m = (m - 1) + 1
        BY <1>0
      <4> QED BY <3>1, <3>2, <4>1
    <3>5. CASE \E k \in 1..n : Uppermost(dirs, k, p)
      <4> DEFINE k == CHOOSE i \in 1..n : Uppermost(dirs, i, p)
                 m == CHOOSE i \in 1..n + 1 : Uppermost(new, i, p)
      <4>1. k \in 1..n /\ Uppermost(dirs, k, p)
        BY <3>5
      <4>2. k + 1 \in 1..n + 1 /\ Uppermost(new, k + 1, p)
        BY <1>0, <3>1, <4>1
      <4>3. m \in 1..n + 1 /\ Uppermost(new, m, p)
        BY <4>2
      <4>4. m = k + 1
        <5> HIDE DEF k, m
        <5> QED BY <1>0, <4>2, <4>3 DEF Uppermost
      <4>5. Mounted(more)[p] = Overlay(Empty, new[m])[p]
        BY <1>3, <4>3 DEF Mounted, new
      <4>6. Mounted(layers)[p] = Overlay(Empty, dirs[k])[p]
        BY <1>3, <4>1 DEF Mounted, dirs
      <4>7. new[m] = dirs[k]
        BY <1>5, <4>1, <4>4
      <4> QED BY <3>3, <4>5, <4>6, <4>7
    <3>6. CASE ~ \E k \in 1..n : Uppermost(dirs, k, p)
      <4>1. ~ \E m \in 1..n + 1 : Uppermost(new, m, p)
        BY <3>4, <3>6
      <4>2. Mounted(more)[p] = Absent
        BY <1>3, <4>1 DEF Mounted, new
      <4>3. Mounted(layers)[p] = Absent
        BY <1>3, <3>6 DEF Mounted, dirs
      <4> QED BY <3>3, <4>2, <4>3
    <3> QED BY <3>5, <3>6
  <2> QED BY <2>1, <2>2
<1> QED BY <1>6 DEF Mounted, Overlay

(* An image: its layers give a tree, and a container sees that tree if they *)
(* can be unpacked.                                                         *)
Stack(layers) ==
    /\ layers \in Seq(Layer)
    /\ Flatten(layers) \in Tree
    /\ (\A k \in 1..Len(layers) : Unpacks(layers[k])) => Mounted(layers) = Flatten(layers)
Built(image) == "layers" \in DOMAIN image /\ Stack(image.layers)

(* An image that gains a layer which fits it is an image (build.py:550-566). *)
LEMMA OneMoreStep ==
    ASSUME NEW layers \in Seq(Layer), Stack(layers), NEW l \in Layer, Fits(Flatten(layers), l)
    PROVE  /\ Stack(Append(layers, l))
           /\ Flatten(Append(layers, l)) = Extract(Flatten(layers), l)
<1> DEFINE n == Len(layers)
           more == Append(layers, l)
<1>1. /\ more \in Seq(Layer) /\ n \in Nat /\ Len(more) = n + 1 /\ more[n + 1] = l
      /\ \A k \in 1..n : more[k] = layers[k]
  OBVIOUS
<1>2. Flatten(more) = Extract(Flatten(layers), l) /\ Flatten(layers) \in Tree
  BY OneMoreLayer DEF Stack
<1>3. Flatten(more) \in Tree
  BY <1>2, ExtractIsTree
<1>4. ASSUME \A k \in 1..Len(more) : Unpacks(more[k]) PROVE Mounted(more) = Flatten(more)
  <2>1. Unpacks(l) /\ \A k \in 1..n : Unpacks(layers[k])
    BY <1>1, <1>4
  <2>2. Mounted(layers) = Flatten(layers)
    BY <2>1 DEF Stack
  <2>3. Mounted(more) = Overlay(Flatten(layers), UnpackLayer(l))
    BY <2>2, OneMoreLowerDir
  <2> QED BY <1>2, <2>1, <2>3, OverlayIsExtract
<1> QED BY <1>1, <1>2, <1>3, <1>4 DEF Stack

-----------------------------------------------------------------------------
(* COPY *)

(* No file is copied to what is a directory: cp's rule, which puts it in    *)
(* there, is not the one by which the layer is made (build.py:525-527,      *)
(* 591-598).                                                                *)
Straight ==
    Executing("COPY") /\ Copyable =>
        \A x \in Items : CopyBase[x] # Dir => build.root[Target(x)] # Dir

(* A target is its destination and the rest of the path that is copied.     *)
Moved(src, dest, x) == dest \o SubSeq(x, Len(src) + 1, Len(x))

LEMMA TargetShape ==
    ASSUME NEW src \in Path, NEW dest \in Path, NEW x \in Below(src)
    PROVE  LET t == Moved(src, dest, x) IN
           /\ x \in Seq(Name) /\ src \in Seq(Name) /\ dest \in Seq(Name) /\ t \in Seq(Name)
           /\ Len(src) < Len(x) /\ Len(t) = Len(dest) + (Len(x) - Len(src))
           /\ \A k \in 1..Len(src) : x[k] = src[k]
           /\ \A k \in 1..Len(dest) : t[k] = dest[k]
           /\ \A k \in Len(src) + 1..Len(x) : t[Len(dest) + (k - Len(src))] = x[k]
<1> DEFINE t == Moved(src, dest, x)
<1>1. x \in Path /\ src \in Above(x)
  BY BelowIsAbove DEF Below
<1>2. /\ x \in Seq(Name) /\ src \in Seq(Name) /\ dest \in Seq(Name)
      /\ Len(src) < Len(x) /\ \A k \in 1..Len(src) : x[k] = src[k]
  BY <1>1, AboveIsShorter
<1> DEFINE rest == SubSeq(x, Len(src) + 1, Len(x))
<1>3. /\ rest \in Seq(Name) /\ Len(rest) = Len(x) - Len(src)
      /\ \A k \in 1..Len(rest) : rest[k] = x[Len(src) + k]
  BY <1>2
<1> HIDE DEF rest
<1>4. /\ t \in Seq(Name) /\ Len(t) = Len(dest) + Len(rest)
      /\ \A k \in 1..Len(dest) : t[k] = dest[k]
      /\ \A k \in 1..Len(rest) : t[Len(dest) + k] = rest[k]
  BY SMTT(30), <1>2, <1>3 DEF rest, Moved
<1>5. ASSUME NEW k \in Len(src) + 1..Len(x)
      PROVE  t[Len(dest) + (k - Len(src))] = x[k]
  <2>1. k - Len(src) \in 1..Len(rest) /\ Len(src) + (k - Len(src)) = k
    BY <1>2, <1>3
  <2>2. t[Len(dest) + (k - Len(src))] = rest[k - Len(src)]
    BY <1>4, <2>1
  <2> QED BY <1>3, <2>1, <2>2
<1> QED BY <1>2, <1>3, <1>4, <1>5

(* What is above in the target was above in the source.                     *)
LEMMA TargetsKeepOrder ==
    ASSUME NEW src \in Path, NEW dest \in Path, NEW x \in Below(src), NEW y \in Below(src),
           NEW t \in Path, t = Moved(src, dest, x),
           NEW u \in Above(t), u = Moved(src, dest, y)
    PROVE  y \in Above(x)
<1>1. x \in Path /\ y \in Path /\ u \in Path
  BY DEF Below, Above
<1>2. Len(u) < Len(t) /\ \A k \in 1..Len(u) : u[k] = t[k]
  BY <1>1, AboveIsShorter
<1>3. /\ x \in Seq(Name) /\ src \in Seq(Name) /\ dest \in Seq(Name) /\ t \in Seq(Name)
      /\ Len(src) < Len(x) /\ Len(t) = Len(dest) + (Len(x) - Len(src))
      /\ \A k \in 1..Len(src) : x[k] = src[k]
      /\ \A k \in Len(src) + 1..Len(x) : t[Len(dest) + (k - Len(src))] = x[k]
  BY ZenonT(40), TargetShape
<1>4. /\ y \in Seq(Name) /\ u \in Seq(Name)
      /\ Len(src) < Len(y) /\ Len(u) = Len(dest) + (Len(y) - Len(src))
      /\ \A k \in 1..Len(src) : y[k] = src[k]
      /\ \A k \in Len(src) + 1..Len(y) : u[Len(dest) + (k - Len(src))] = y[k]
  BY ZenonT(40), TargetShape
<1>5. Len(y) < Len(x)
  BY <1>2, <1>3, <1>4
<1>6. ASSUME NEW k \in 1..Len(y) PROVE y[k] = x[k]
  <2>1. CASE k <= Len(src)
    BY <1>3, <1>4, <2>1
  <2>2. CASE k > Len(src)
    <3>1. /\ k \in Len(src) + 1..Len(y) /\ k \in Len(src) + 1..Len(x)
          /\ Len(dest) + (k - Len(src)) \in 1..Len(u)
      BY <1>3, <1>4, <1>5, <2>2
    <3> QED BY <1>2, <1>3, <1>4, <3>1
  <2> QED BY <1>3, <2>1, <2>2
<1> QED BY <1>1, <1>5, <1>6, AboveIsShorter

(* What is copied keeps its order, and is below all the directories that    *)
(* are made for the destination (build.py:499-527).                         *)
LEMMA LandingsInOrder ==
    ASSUME Instr.src \in Path, Instr.dest \in Path, CopyBase \in Tree, Copyable,
           \A x \in Items : CopyBase[x] # Dir => build.root[Target(x)] # Dir
    PROVE  /\ Items \subseteq Path /\ Parents \subseteq Path
           /\ \A x \in Items : /\ CopyBase[x] \in Content \cup {Dir} /\ Landing(x) = Target(x)
                               /\ Target(x) \in Path /\ Parents \subseteq Above(Target(x))
           /\ \A x, y \in Items : Target(y) \in Above(Target(x)) => CopyBase[y] = Dir
           /\ \A q \in Parents : Above(q) \subseteq Parents
<1> DEFINE src == Instr.src
           dest == Instr.dest
           to == IF IntoDir THEN dest ELSE Front(dest)
<1>0. CopyBase[src] # Absent /\ \A x \in Items : Target(x) \in Path
  BY DEF Copyable
<1>1. Items \subseteq Path /\ Parents \subseteq Path
  BY DEF Items, Below, Parents
<1>2. \A x \in Items : CopyBase[x] \in Content \cup {Dir}
  BY <1>0, <1>1, TreeType DEF Items, Present
<1>3. \A x \in Items : Landing(x) = Target(x)
  BY DEF Landing
<1>4. /\ dest \in Seq(Name) /\ dest # <<>> /\ Len(dest) \in Nat \ {0} /\ to \in Seq(Name)
      /\ Len(to) = IF IntoDir THEN Len(dest) ELSE Len(dest) - 1
      /\ \A k \in 1..Len(to) : to[k] = dest[k]
  <2>1. dest \in Seq(Name) /\ dest # <<>>
    BY PathAssumption
  <2>2. Len(dest) \in Nat \ {0}
    BY <2>1
  <2>3. CASE IntoDir
    BY <2>1, <2>2, <2>3
  <2>4. CASE ~ IntoDir
    <3>1. to = SubSeq(dest, 1, Len(dest) - 1)
      BY <2>4 DEF Front
    <3>2. /\ SubSeq(dest, 1, Len(dest) - 1) \in Seq(Name)
          /\ Len(SubSeq(dest, 1, Len(dest) - 1)) = Len(dest) - 1
          /\ \A k \in 1..Len(dest) - 1 : SubSeq(dest, 1, Len(dest) - 1)[k] = dest[k]
      BY <2>1, <2>2
    <3> HIDE DEF to
    <3> QED BY <2>1, <2>2, <2>4, <3>1, <3>2
  <2> QED BY <2>3, <2>4
<1> HIDE DEF to
<1>5. \A q \in Parents : /\ q \in Seq(Name) /\ Len(q) \in Nat /\ Len(q) <= Len(to)
                         /\ \A k \in 1..Len(q) : q[k] = to[k]
  <2> TAKE q \in Parents
  <2>1. q \in Path /\ q \in Seq(Name)
    BY <1>1, PathAssumption
  <2>2. Len(q) <= Len(to) /\ SubSeq(q, 1, Len(q)) = SubSeq(to, 1, Len(q))
    BY DEF Parents, IsPrefix, to
  <2>3. /\ \A k \in 1..Len(q) : SubSeq(q, 1, Len(q))[k] = q[k]
        /\ \A k \in 1..Len(q) : SubSeq(to, 1, Len(q))[k] = to[k]
    BY <1>4, <2>1, <2>2
  <2> QED BY <2>1, <2>2, <2>3
<1>6. ASSUME NEW q \in Path, Len(q) <= Len(to), \A k \in 1..Len(q) : q[k] = to[k]
      PROVE  q \in Parents
  <2>1. q \in Seq(Name)
    BY PathAssumption
  <2>2. SubSeq(q, 1, Len(q)) = SubSeq(to, 1, Len(q))
    BY <1>4, <1>6, <2>1
  <2> QED BY <1>6, <2>2 DEF Parents, IsPrefix, to
<1>7. ASSUME NEW q \in Parents, NEW r \in Above(q) PROVE r \in Parents
  <2>1. r \in Path /\ q \in Path
    BY <1>1 DEF Above
  <2>2. r \in Seq(Name) /\ Len(r) < Len(q) /\ \A k \in 1..Len(r) : r[k] = q[k]
    BY <2>1, AboveIsShorter
  <2>3. Len(r) <= Len(to) /\ \A k \in 1..Len(r) : r[k] = to[k]
    BY <1>4, <1>5, <2>2
  <2> QED BY <1>6, <2>1, <2>3
<1>8. ASSUME NEW x \in Items
      PROVE  /\ Target(x) \in Seq(Name) /\ Len(to) < Len(Target(x))
             /\ \A k \in 1..Len(to) : Target(x)[k] = dest[k]
  <2>1. CASE CopiesDir
    <3>1. x \in Below(src) /\ Target(x) = Moved(src, dest, x) /\ IntoDir
      BY <2>1 DEF Items, Target, IntoDir, Moved
    <3> DEFINE t == Moved(src, dest, x)
    <3>2. src \in Path /\ dest \in Path
      OBVIOUS
    <3> HIDE DEF src, dest
    <3>3. /\ t \in Seq(Name) /\ x \in Seq(Name) /\ src \in Seq(Name)
          /\ Len(src) < Len(x) /\ Len(t) = Len(dest) + (Len(x) - Len(src))
          /\ \A k \in 1..Len(dest) : t[k] = dest[k]
      BY <3>1, <3>2, TargetShape
    <3> HIDE DEF t
    <3>4. Len(to) = Len(dest) /\ Len(to) < Len(t)
      BY <1>4, <3>1, <3>3
    <3>5. Target(x) = t
      BY <3>1 DEF t
    <3> QED BY <3>3, <3>4, <3>5
  <2>2. CASE ~ CopiesDir /\ IntoDir
    <3>1. Target(x) = Append(dest, Last(x))
      BY <2>2 DEF Target
    <3>2. Target(x) \in Seq(Name)
      BY <1>0, PathAssumption
    <3>3. Len(Target(x)) = Len(dest) + 1 /\ \A k \in 1..Len(dest) : Target(x)[k] = dest[k]
      BY <1>4, <3>1
    <3> QED BY <1>4, <2>2, <3>2, <3>3
  <2>3. CASE ~ CopiesDir /\ ~ IntoDir
    <3>1. Target(x) = dest
      BY <2>3 DEF Target
    <3> QED BY <1>4, <2>3, <3>1
  <2> QED BY <2>1, <2>2, <2>3
<1>9. \A x \in Items : Parents \subseteq Above(Target(x))
  <2> TAKE x \in Items
  <2> SUFFICES ASSUME NEW q \in Parents PROVE q \in Above(Target(x))
    OBVIOUS
  <2>1. q \in Path /\ Target(x) \in Path
    BY <1>0, <1>1
  <2>2. Len(q) < Len(Target(x)) /\ \A k \in 1..Len(q) : q[k] = Target(x)[k]
    BY <1>4, <1>5, <1>8
  <2> QED BY <2>1, <2>2, AboveIsShorter
<1>10. ASSUME NEW x \in Items, NEW y \in Items, Target(y) \in Above(Target(x))
       PROVE  CopyBase[y] = Dir
  <2>1. CASE CopiesDir
    <3>1. /\ x \in Below(src) /\ Target(x) = Moved(src, dest, x)
          /\ y \in Below(src) /\ Target(y) = Moved(src, dest, y)
      BY <2>1 DEF Items, Target, Moved
    <3>2. y \in Above(x)
      BY <1>0, <1>10, <3>1, TargetsKeepOrder
    <3> QED BY <1>1, <1>2, <3>2, TreeType, ContentAssumption DEF Absent, Dir
  <2>2. CASE ~ CopiesDir
    BY <1>0, <1>10, <2>2, BelowIsAbove DEF Items
  <2> QED BY <2>1, <2>2
<1> QED BY <1>0, <1>1, <1>2, <1>3, <1>7, <1>9, <1>10

(* A COPY leaves a tree, and its layer, applied to what it found, gives     *)
(* that tree (build.py:373-375, 478-534).                                   *)
LEMMA CopyRestores ==
    ASSUME Instr.src \in Path, Instr.dest \in Path, CopyBase \in Tree, build.root \in Tree,
           Copyable, \A x \in Items : CopyBase[x] # Dir => build.root[Target(x)] # Dir
    PROVE  LET l == LayerFrom(Copied, Written, {}) IN
           /\ Copied \in Tree /\ l \in Layer /\ Fits(build.root, l)
           /\ Extract(build.root, l) = Copied
<1> DEFINE root == build.root
           l == LayerFrom(Copied, Written, {})
<1>0. /\ Items \subseteq Path /\ Parents \subseteq Path
      /\ \A x \in Items : /\ CopyBase[x] \in Content \cup {Dir} /\ Landing(x) = Target(x)
                          /\ Target(x) \in Path /\ Parents \subseteq Above(Target(x))
      /\ \A x, y \in Items : Target(y) \in Above(Target(x)) => CopyBase[y] = Dir
      /\ \A q \in Parents : Above(q) \subseteq Parents
  BY LandingsInOrder
<1>1. \A q \in Made : q \in Path /\ root[q] \in {Absent, Dir}
  BY <1>0, BelowIsAbove DEF Copyable, Made
<1>2. \A x \in Items : /\ CopyBase[x] = Dir => root[Target(x)] \in {Absent, Dir}
                       /\ CopyBase[x] # Dir => root[Target(x)] # Dir
  BY <1>0 DEF Copyable
<1>3. \A q \in Path : q \in Made <=> q \in Parents \/ \E x \in Items : q \in Above(Target(x))
  BY <1>0 DEF Made
<1>4. ASSUME NEW p \in Path, NEW x \in Items, Target(x) = p
      PROVE  \E y \in Items : Target(y) = p /\ Copied[p] = CopyBase[y]
  <2> DEFINE y == CHOOSE z \in Items : Landing(z) = p
  <2>1. y \in Items /\ Landing(y) = p
    BY <1>0, <1>4
  <2>2. Copied[p] = CopyBase[y]
    BY <1>0, <1>4 DEF Copied
  <2> QED BY <1>0, <2>1, <2>2
<1>5. ASSUME NEW p \in Path, \A x \in Items : Target(x) # p
      PROVE  Copied[p] = IF p \in Made THEN Dir ELSE root[p]
  BY <1>0, <1>5 DEF Copied
<1>6. Copied \in [Path -> Content \cup {Absent, Dir}]
  <2>1. \A p \in Path : Copied[p] \in Content \cup {Absent, Dir}
    BY <1>0, <1>4, <1>5, TreeType
  <2> QED BY <2>1 DEF Copied
<1>7. ASSUME NEW p \in Path, Copied[p] # Absent, NEW q \in Above(p) PROVE Copied[q] = Dir
  <2>0. q \in Path
    BY DEF Above
  <2>1. CASE p \in Made \/ \E x \in Items : Target(x) = p
    <3>1. q \in Made
      <4>1. CASE p \in Parents
        BY <1>0, <1>3, <2>0, <4>1
      <4>2. ASSUME NEW x \in Items, p \in Above(Target(x)) \/ Target(x) = p PROVE q \in Made
        BY <1>0, <1>3, <2>0, <4>2, AboveAbove
      <4> QED BY <1>3, <2>1, <4>1, <4>2
    <3>2. ASSUME NEW y \in Items, Target(y) = q PROVE CopyBase[y] = Dir
      <4>1. CASE q \in Parents
        BY <1>0, <2>0, <3>2, <4>1, BelowIsAbove
      <4>2. ASSUME NEW x \in Items, q \in Above(Target(x)) PROVE CopyBase[y] = Dir
        BY <1>0, <3>2, <4>2
      <4> QED BY <1>3, <2>0, <3>1, <4>1, <4>2
    <3>3. CASE \E y \in Items : Target(y) = q
      BY <1>4, <2>0, <3>2, <3>3
    <3>4. CASE \A y \in Items : Target(y) # q
      BY <1>5, <2>0, <3>1, <3>4
    <3> QED BY <3>3, <3>4
  <2>2. CASE p \notin Made /\ \A x \in Items : Target(x) # p
    <3>1. root[q] = Dir
      BY <1>5, <1>7, <2>2, TreeType
    <3>2. CASE \E y \in Items : Target(y) = q
      <4>1. PICK y \in Items : Target(y) = q /\ Copied[q] = CopyBase[y]
        BY <1>4, <2>0, <3>2
      <4> QED BY <1>2, <3>1, <4>1
    <3>3. CASE \A y \in Items : Target(y) # q
      BY <1>5, <2>0, <3>1, <3>3
    <3> QED BY <3>2, <3>3
  <2> QED BY <2>1, <2>2
<1>8. Copied \in Tree
  BY <1>6, <1>7 DEF Tree, Present
<1>9. Written \subseteq Path
  BY <1>0 DEF Written
<1>10. l \in Layer
  BY <1>8, <1>9, LayersAreSound
<1>11. Fits(root, l)
  BY DEF Fits, LayerFrom
<1> DEFINE M == Written \cap Present(Copied)
<1>12. /\ DOMAIN l.members = M /\ l.whiteouts = {}
       /\ \A p \in M : p \in Path /\ Copied[p] # Absent /\ l.members[p] = Copied[p]
  BY DEF LayerFrom, Present
<1>13. ASSUME NEW p \in Path PROVE Extract(root, l)[p] = Copied[p]
  <2>1. CASE p \in M
    BY <1>12, <2>1 DEF Extract
  <2>2. CASE p \notin M /\ Below(p) \cap M # {}
    <3>1. PICK m \in M : m \in Below(p)
      BY <2>2
    <3>2. m \in Path /\ Copied[m] # Absent /\ p \in Above(m)
      BY <1>12, <3>1, BelowIsAbove
    <3> QED BY <1>7, <1>12, <2>2, <3>2 DEF Extract
  <2>3. CASE p \notin M /\ Below(p) \cap M = {} /\ Touches(l, p)
    <3>1. Extract(root, l)[p] = Absent
      BY <1>12, <2>3 DEF Extract
    <3>2. PICK q \in Above(p) : q \in Files(l)
      BY <1>12, <2>3 DEF Touches, Hides
    <3>3. Copied[q] # Dir
      BY <1>12, <3>2 DEF Files
    <3> QED BY <1>7, <3>1, <3>2, <3>3
  <2>4. CASE p \notin M /\ Below(p) \cap M = {} /\ ~ Touches(l, p)
    <3>1. Extract(root, l)[p] = root[p]
      BY <1>12, <2>4 DEF Extract
    <3>2. ASSUME NEW x \in Items PROVE Target(x) \in M
      <4>1. PICK y \in Items : Target(y) = Target(x) /\ Copied[Target(x)] = CopyBase[y]
        BY <1>0, <1>4
      <4>2. Copied[Target(x)] # Absent
        BY <1>0, <4>1, ContentAssumption DEF Absent, Dir
      <4> QED BY <1>0, <4>2 DEF Written, Present
    <3>3. \A x \in Items : Target(x) # p /\ p \notin Above(Target(x))
      BY <1>0, <2>4, <3>2, BelowIsAbove
    <3>4. Copied[p] = IF p \in Made THEN Dir ELSE root[p]
      BY <1>5, <3>3
    <3>5. CASE p \in Made
      <4>1. p \in Parents /\ Copied[p] = Dir
        BY <1>3, <3>3, <3>4, <3>5
      <4>2. root[p] # Absent
        BY <2>4, <4>1 DEF Written, Present, Absent, Dir
      <4> QED BY <1>1, <3>1, <3>5, <4>1, <4>2
    <3>6. CASE p \notin Made
      BY <3>1, <3>4, <3>6
    <3> QED BY <3>5, <3>6
  <2> QED BY <2>1, <2>2, <2>3, <2>4
<1>14. Extract(root, l) = Copied
  BY <1>13 DEF Extract, Copied
<1> QED BY <1>8, <1>10, <1>11, <1>14

(* What is above in the source is above in the target, and two files do not *)
(* end up in one place.                                                     *)
LEMMA MovedKeepsOrder ==
    ASSUME NEW src \in Path, NEW dest \in Path, NEW x \in Below(src), NEW y \in Below(src),
           Moved(src, dest, x) \in Path, Moved(src, dest, y) \in Path
    PROVE  /\ y \in Above(x) => Moved(src, dest, y) \in Above(Moved(src, dest, x))
           /\ Moved(src, dest, y) = Moved(src, dest, x) => x = y
<1> DEFINE t == Moved(src, dest, x)
           u == Moved(src, dest, y)
<1>1. x \in Path /\ y \in Path
  BY DEF Below
<1>2. /\ x \in Seq(Name) /\ src \in Seq(Name) /\ dest \in Seq(Name) /\ t \in Seq(Name)
      /\ Len(src) < Len(x) /\ Len(t) = Len(dest) + (Len(x) - Len(src))
      /\ \A k \in 1..Len(src) : x[k] = src[k]
      /\ \A k \in 1..Len(dest) : t[k] = dest[k]
      /\ \A k \in Len(src) + 1..Len(x) : t[Len(dest) + (k - Len(src))] = x[k]
  BY TargetShape
<1>3. /\ y \in Seq(Name) /\ u \in Seq(Name)
      /\ Len(src) < Len(y) /\ Len(u) = Len(dest) + (Len(y) - Len(src))
      /\ \A k \in 1..Len(src) : y[k] = src[k]
      /\ \A k \in 1..Len(dest) : u[k] = dest[k]
      /\ \A k \in Len(src) + 1..Len(y) : u[Len(dest) + (k - Len(src))] = y[k]
  BY TargetShape
<1>4. t \in Path /\ u \in Path
  OBVIOUS
<1> HIDE DEF t, u
<1>5. ASSUME y \in Above(x) PROVE u \in Above(t)
  <2>1. Len(y) < Len(x) /\ \A k \in 1..Len(y) : y[k] = x[k]
    BY <1>1, <1>5, AboveIsShorter
  <2>2. Len(u) < Len(t)
    BY <1>2, <1>3, <2>1
  <2>3. ASSUME NEW k \in 1..Len(u) PROVE u[k] = t[k]
    <3>1. CASE k <= Len(dest)
      BY <1>2, <1>3, <3>1
    <3>2. CASE k > Len(dest)
      <4> DEFINE j == k - Len(dest) + Len(src)
      <4>1. /\ j \in Len(src) + 1..Len(y) /\ j \in Len(src) + 1..Len(x) /\ j \in 1..Len(y)
            /\ Len(dest) + (j - Len(src)) = k
        BY <1>2, <1>3, <2>1, <3>2
      <4> HIDE DEF j
      <4> QED BY <1>2, <1>3, <2>1, <4>1
    <3> QED BY <1>2, <3>1, <3>2
  <2> QED BY <1>4, <2>2, <2>3, AboveIsShorter
<1>6. ASSUME u = t PROVE x = y
  <2>1. Len(x) = Len(y)
    BY <1>2, <1>3, <1>6
  <2>2. \A k \in 1..Len(x) : x[k] = y[k]
    <3> TAKE k \in 1..Len(x)
    <3>1. CASE k <= Len(src)
      BY <1>2, <1>3, <3>1
    <3>2. CASE k > Len(src)
      <4>1. k \in Len(src) + 1..Len(x) /\ k \in Len(src) + 1..Len(y)
        BY <1>2, <2>1, <3>2
      <4> QED BY <1>2, <1>3, <1>6, <4>1
    <3> QED BY <1>2, <3>1, <3>2
  <2> QED BY <1>2, <1>3, <2>1, <2>2
<1> QED BY <1>5, <1>6 DEF t, u

(* Every directory that is copied holds a file that is: the key of a COPY   *)
(* names files only (build.py:463-470).                                     *)
NoEmptyDirs ==
    Executing("COPY") /\ Copyable =>
        \A d \in Items : CopyBase[d] = Dir => \E x \in FilesOf(Items) : d \in Above(x)

(* What a COPY leaves, from its key alone: the files and contents of its    *)
(* input in their places, and the directories above them.                   *)
FromDir(instr, input) ==
    /\ instr.src \notin (IF instr.stage = 0 THEN Ignored ELSE {})
    /\ \A s \in input : s[1] # instr.src

Into(t, instr, input) == FromDir(instr, input) \/ t[instr.dest] = Dir

Place(t, instr, input, x) ==
    IF FromDir(instr, input) THEN Moved(instr.src, instr.dest, x)
    ELSE IF Into(t, instr, input) THEN Append(instr.dest, Last(x)) ELSE instr.dest

Needed(t, instr, input) ==
    {q \in Path : IsPrefix(q, IF Into(t, instr, input) THEN instr.dest ELSE Front(instr.dest))}
    \cup UNION {Above(Place(t, instr, input, s[1])) : s \in input}

Laid(t, instr, input) ==
    [p \in Path |->
        IF \E s \in input : Place(t, instr, input, s[1]) = p
        THEN (CHOOSE s \in input : Place(t, instr, input, s[1]) = p)[2]
        ELSE IF p \in Needed(t, instr, input) THEN Dir ELSE t[p]]

(* A COPY leaves what its key says, when the remembered hashes are true     *)
(* (build.py:190-206, 431-476).                                             *)
LEMMA KeySaysAll ==
    ASSUME Instr.src \in Path, Instr.dest \in Path, CopyBase \in Tree, Copyable,
           \A x \in Items : CopyBase[x] # Dir => build.root[Target(x)] # Dir,
           \A d \in Items : CopyBase[d] = Dir => \E x \in FilesOf(Items) : d \in Above(x),
           FromContext => \A x \in FilesOf(Items) : ContentHash(x) = context[x]
    PROVE  Copied = Laid(build.root, Instr, CopyInput)
<1> DEFINE root == build.root
           input == CopyInput
           F == FilesOf(Items)
           at(x) == Place(root, Instr, input, x)
<1>0. /\ Items \subseteq Path /\ Parents \subseteq Path
      /\ \A x \in Items : /\ CopyBase[x] \in Content \cup {Dir} /\ Landing(x) = Target(x)
                          /\ Target(x) \in Path /\ Parents \subseteq Above(Target(x))
  BY LandingsInOrder
<1>1. input = {<<x, CopyBase[x]>> : x \in F}
  BY DEF CopyInput, CopyBase
<1>2. F \subseteq Items /\ \A x \in Items : x \in F <=> CopyBase[x] # Dir
  BY DEF FilesOf
<1>3. \A s \in input : s[1] \in F /\ s[2] = CopyBase[s[1]] /\ s = <<s[1], s[2]>>
  BY <1>1
<1>4. \A x \in F : <<x, CopyBase[x]>> \in input /\ <<x, CopyBase[x]>>[1] = x /\ <<x, CopyBase[x]>>[2] = CopyBase[x]
  BY <1>1
<1>5. Left = IF Instr.stage = 0 THEN Ignored ELSE {}
  BY DEF Left, FromContext
<1>6. FromDir(Instr, input) <=> CopiesDir
  <2>1. CASE CopiesDir
    <3>1. Instr.src \notin F
      BY <1>2, <2>1, BelowIsAbove DEF Items
    <3> QED BY <1>3, <1>5, <2>1, <3>1 DEF CopiesDir, FromDir
  <2>2. CASE ~ CopiesDir /\ Instr.src \in Left
    BY <1>5, <2>2 DEF FromDir
  <2>3. CASE ~ CopiesDir /\ Instr.src \notin Left
    <3>1. Instr.src \in F
      BY <1>2, <2>3 DEF Items, CopiesDir
    <3> QED BY <1>4, <2>3, <3>1 DEF FromDir
  <2> QED BY <2>1, <2>2, <2>3
<1>7. Into(root, Instr, input) <=> IntoDir
  BY <1>6 DEF Into, IntoDir
<1>8. \A x \in Items : at(x) = Target(x)
  BY <1>6, <1>7 DEF Place, Target, Moved
<1>9. ASSUME NEW x \in Items, NEW y \in Items, Target(x) = Target(y) PROVE x = y
  <2>1. CASE CopiesDir
    <3>1. /\ x \in Below(Instr.src) /\ Target(x) = Moved(Instr.src, Instr.dest, x)
          /\ y \in Below(Instr.src) /\ Target(y) = Moved(Instr.src, Instr.dest, y)
      BY <2>1 DEF Items, Target, Moved
    <3> DEFINE a == Moved(Instr.src, Instr.dest, x)
               b == Moved(Instr.src, Instr.dest, y)
    <3>2. a \in Path /\ b \in Path /\ a = b
      BY <1>0, <1>9, <3>1
    <3> QED BY <3>1, <3>2, MovedKeepsOrder
  <2>2. CASE ~ CopiesDir
    BY <2>2 DEF Items
  <2> QED BY <2>1, <2>2
<1>10. ASSUME NEW d \in Items, CopyBase[d] = Dir
       PROVE  \E x \in F : Target(d) \in Above(Target(x))
  <2>1. PICK x \in F : d \in Above(x)
    BY <1>10
  <2>2. CASE CopiesDir
    <3>1. /\ x \in Below(Instr.src) /\ Target(x) = Moved(Instr.src, Instr.dest, x)
          /\ d \in Below(Instr.src) /\ Target(d) = Moved(Instr.src, Instr.dest, d)
      BY <1>2, <2>1, <2>2 DEF Items, Target, Moved
    <3> QED BY <1>0, <1>2, <2>1, <3>1, MovedKeepsOrder
  <2>3. CASE ~ CopiesDir
    BY <1>0, <1>2, <2>1, <2>3, BelowIsAbove DEF Items
  <2> QED BY <2>2, <2>3
<1>11. Needed(root, Instr, input) = Parents \cup UNION {Above(Target(x)) : x \in F}
  <2>1. UNION {Above(at(s[1])) : s \in input} = UNION {Above(Target(x)) : x \in F}
    <3>1. \A s \in input : \E x \in F : at(s[1]) = Target(x)
      BY <1>2, <1>3, <1>8
    <3>2. \A x \in F : \E s \in input : at(s[1]) = Target(x)
      BY <1>2, <1>4, <1>8
    <3> HIDE DEF at, input, F
    <3> QED BY <3>1, <3>2
  <2> QED BY <1>7, <2>1 DEF Needed, Parents
<1>12. Made = Parents \cup UNION {Above(Target(x)) : x \in Items}
  BY <1>0 DEF Made
<1>13. ASSUME NEW p \in Path PROVE Copied[p] = Laid(root, Instr, input)[p]
  <2>1. CASE \E x \in F : Target(x) = p
    <3>1. PICK x \in F : Target(x) = p
      BY <2>1
    <3>2. (CHOOSE y \in Items : Landing(y) = p) = x
      BY <1>0, <1>2, <1>9, <3>1
    <3>3. Copied[p] = CopyBase[x]
      BY <1>0, <1>2, <3>1, <3>2 DEF Copied
    <3> DEFINE s == <<x, CopyBase[x]>>
               c == CHOOSE r \in input : at(r[1]) = p
    <3>4. s \in input /\ at(s[1]) = p
      BY <1>2, <1>4, <1>8, <3>1
    <3>5. \A r \in input : at(r[1]) = p => r[1] = x
      BY <1>2, <1>3, <1>8, <1>9, <3>1
    <3>6. c \in input /\ at(c[1]) = p
      BY <3>4
    <3>7. c[2] = CopyBase[x]
      BY <1>3, <3>5, <3>6
    <3>8. Laid(root, Instr, input)[p] = c[2]
      BY <3>4 DEF Laid
    <3> QED BY <3>3, <3>7, <3>8
  <2>2. CASE ~ \E x \in F : Target(x) = p
    <3>1. Laid(root, Instr, input)[p] = IF p \in Needed(root, Instr, input) THEN Dir ELSE root[p]
      <4>1. ~ \E s \in input : at(s[1]) = p
        BY <1>2, <1>3, <1>8, <2>2
      <4> QED BY <4>1 DEF Laid
    <3>2. CASE \E d \in Items : Target(d) = p
      <4>1. PICK d \in Items : Target(d) = p
        BY <3>2
      <4>2. CopyBase[d] = Dir
        BY <1>2, <2>2, <4>1
      <4>3. (CHOOSE y \in Items : Landing(y) = p) = d
        BY <1>0, <1>9, <4>1
      <4>4. Copied[p] = Dir
        BY <1>0, <4>1, <4>2, <4>3 DEF Copied
      <4>5. p \in Needed(root, Instr, input)
        BY <1>10, <1>11, <4>1, <4>2
      <4> QED BY <3>1, <4>4, <4>5
    <3>3. CASE ~ \E d \in Items : Target(d) = p
      <4>1. Copied[p] = IF p \in Made THEN Dir ELSE root[p]
        BY <1>0, <3>3 DEF Copied
      <4>2. p \in Made <=> p \in Needed(root, Instr, input)
        <5>1. ASSUME NEW d \in Items, CopyBase[d] = Dir, p \in Above(Target(d))
              PROVE  \E x \in F : p \in Above(Target(x))
          <6>1. PICK x \in F : Target(d) \in Above(Target(x))
            BY <1>10, <5>1
          <6> QED BY <1>0, <1>2, <5>1, <6>1, AboveAbove
        <5> QED BY <1>2, <1>11, <1>12, <5>1
      <4> QED BY <3>1, <4>1, <4>2
    <3> QED BY <3>2, <3>3
  <2> QED BY <2>1, <2>2
<1>14. Copied = [p \in Path |-> Copied[p]] /\ Laid(root, Instr, input) = [p \in Path |-> Laid(root, Instr, input)[p]]
  BY DEF Copied, Laid
<1> QED BY <1>13, <1>14

-----------------------------------------------------------------------------
(* The cache *)

(* A key is a base and the steps on it, each an instruction and its input.  *)
Given == UNION {UNION {{g[k] : k \in DOMAIN g} : g \in Program[t]} : t \in Tag}
Steps == Given \X SUBSET (Path \X (Content \cup {Absent, Dir}))
IsKey(k) == k = [base |-> k.base, steps |-> k.steps] /\ k.steps \in Seq(Steps)
Then(k, s) == [k EXCEPT !.steps = Append(@, s)]

(* What a step s leaves of a directory t: an effect of a RUN, what its key  *)
(* says of a COPY.                                                          *)
Leaves(t, s, u) ==
    /\ s[1].op = "RUN" => \E e \in Effect[s[1].arg] : u = Ran(t, e)
    /\ s[1].op = "COPY" => u = Laid(t, s[1], s[2])

(* A layer that was recorded for the step s after k does to the directory   *)
(* there what the step did.                                                 *)
Caches(e, T, k, s, full) ==
    /\ e.key = Then(k, s) /\ e.key \in DOMAIN T /\ s[1].op # "ENV"
    /\ e.layer \in Layer /\ Fits(T[k], e.layer)
    /\ T[e.key] = Extract(T[k], e.layer)
    /\ full => Leaves(T[k], s, T[e.key])

(* T tells which directory a key stands for, in a cache with the entries E: *)
(* what the base gives, and what the layer of each step makes of it.        *)
Tracks(E, T, full) ==
    /\ \A k \in DOMAIN T : IsKey(k) /\ T[k] \in Tree
    /\ \A k \in DOMAIN T :
          \/ k.steps = <<>> /\ T[k] = Flatten(k.base.layers)
          \/ \E j \in DOMAIN T, s \in Steps :
                k = Then(j, s) /\ IF s[1].op = "ENV" THEN T[k] = T[j]
                                  ELSE \E e \in E : e.key = k
    /\ \A e \in E : \E k \in DOMAIN T, s \in Steps : Caches(e, T, k, s, full)

With(T, k, t) == [j \in DOMAIN T \cup {k} |-> IF j = k THEN t ELSE T[j]]

LEMMA KeysGrow ==
    ASSUME NEW k, IsKey(k), NEW s \in Steps
    PROVE  /\ IsKey(Then(k, s)) /\ Then(k, s).steps # <<>> /\ Then(k, s) # k
           /\ \A j : \A r \in Steps : IsKey(j) /\ Then(j, r) = Then(k, s) => j = k /\ r = s
<1> DEFINE m == Then(k, s)
<1>1. k.steps \in Seq(Steps) /\ Len(k.steps) \in Nat
  BY DEF IsKey
<1>2. m = [base |-> k.base, steps |-> Append(k.steps, s)]
  BY SMTT(30) DEF IsKey, Then
<1>3. /\ Append(k.steps, s) \in Seq(Steps) /\ Len(Append(k.steps, s)) = Len(k.steps) + 1
      /\ Append(k.steps, s) # <<>>
  BY <1>1
<1>4. IsKey(m) /\ m.steps # <<>> /\ m # k
  BY <1>1, <1>2, <1>3 DEF IsKey
<1>5. ASSUME NEW j, NEW r \in Steps, IsKey(j), Then(j, r) = m PROVE j = k /\ r = s
  <2>1. j.steps \in Seq(Steps) /\ j = [base |-> j.base, steps |-> j.steps]
    BY <1>5 DEF IsKey
  <2>2. Then(j, r) = [base |-> j.base, steps |-> Append(j.steps, r)]
    BY <2>1 DEF Then
  <2>3. j.base = k.base /\ Append(j.steps, r) = Append(k.steps, s)
    BY <1>2, <1>5, <2>2
  <2>4. j.steps = k.steps /\ r = s
    <3>1. Len(j.steps) = Len(k.steps)
      BY <1>1, <2>1, <2>3
    <3>2. r = s
      <4>1. Append(j.steps, r)[Len(j.steps) + 1] = r /\ Append(k.steps, s)[Len(k.steps) + 1] = s
        BY <1>1, <2>1
      <4> QED BY <2>3, <3>1, <4>1
    <3>3. \A i \in 1..Len(k.steps) : j.steps[i] = k.steps[i]
      <4> TAKE i \in 1..Len(k.steps)
      <4>1. Append(j.steps, r)[i] = j.steps[i] /\ Append(k.steps, s)[i] = k.steps[i]
        BY <1>1, <2>1, <3>1
      <4> QED BY <2>3, <4>1
    <3> QED BY <1>1, <2>1, <3>1, <3>2, <3>3
  <2> QED BY <2>1, <2>3, <2>4 DEF IsKey
<1> QED BY <1>4, <1>5

(* A key that is new stands for a directory of its own.                     *)
LEMMA NewKey ==
    ASSUME NEW E, NEW T, NEW full \in BOOLEAN, Tracks(E, T, full),
           NEW m, IsKey(m), m \notin DOMAIN T, NEW t \in Tree, NEW D, E \subseteq D,
           \A e \in D \ E : \E k \in DOMAIN T, s \in Steps : Caches(e, With(T, m, t), k, s, full),
           \/ m.steps = <<>> /\ t = Flatten(m.base.layers)
           \/ \E j \in DOMAIN T, s \in Steps :
                 m = Then(j, s) /\ IF s[1].op = "ENV" THEN t = T[j] ELSE \E e \in D : e.key = m
    PROVE  /\ Tracks(D, With(T, m, t), full)
           /\ m \in DOMAIN With(T, m, t) /\ With(T, m, t)[m] = t
<1> DEFINE U == With(T, m, t)
<1>1. /\ DOMAIN U = DOMAIN T \cup {m} /\ U[m] = t
      /\ \A k \in DOMAIN T : U[k] = T[k] /\ k # m
  BY DEF With
<1> HIDE DEF U
<1>2. \A k \in DOMAIN U : IsKey(k) /\ U[k] \in Tree
  BY <1>1 DEF Tracks
<1>3. ASSUME NEW k \in DOMAIN U
      PROVE  \/ k.steps = <<>> /\ U[k] = Flatten(k.base.layers)
             \/ \E j \in DOMAIN U, s \in Steps :
                   k = Then(j, s) /\ IF s[1].op = "ENV" THEN U[k] = U[j]
                                     ELSE \E e \in D : e.key = k
  <2>1. CASE k = m
    BY <1>1, <2>1
  <2>2. CASE k \in DOMAIN T
    BY <1>1, <2>2 DEF Tracks
  <2> QED BY <1>1, <2>1, <2>2
<1>4. ASSUME NEW e \in D PROVE \E k \in DOMAIN U, s \in Steps : Caches(e, U, k, s, full)
  <2>1. CASE e \in E
    <3>1. PICK k \in DOMAIN T, s \in Steps : Caches(e, T, k, s, full)
      BY <2>1 DEF Tracks
    <3>2. Caches(e, U, k, s, full)
      BY <1>1, <3>1 DEF Caches
    <3> QED BY <1>1, <3>2
  <2>2. CASE e \notin E
    BY <1>1, <2>2 DEF U
  <2> QED BY <2>1, <2>2
<1> QED BY <1>1, <1>2, <1>3, <1>4 DEF Tracks, U

(* A build may begin on any base, and go on with an instruction that makes  *)
(* no layer (build.py:331-342, 356-361).                                    *)
LEMMA OnBase ==
    ASSUME NEW E, NEW T, NEW full \in BOOLEAN, Tracks(E, T, full),
           NEW m, IsKey(m), m.steps = <<>>, Flatten(m.base.layers) \in Tree
    PROVE  \E U : Tracks(E, U, full) /\ m \in DOMAIN U /\ U[m] = Flatten(m.base.layers)
<1>1. CASE m \in DOMAIN T
  <2>1. ~ \E j \in DOMAIN T, s \in Steps : m = Then(j, s)
    BY KeysGrow DEF Tracks
  <2> QED BY <1>1, <2>1 DEF Tracks
<1>2. CASE m \notin DOMAIN T
  BY <1>2, NewKey
<1> QED BY <1>1, <1>2

LEMMA OnEnv ==
    ASSUME NEW E, NEW T, NEW full \in BOOLEAN, Tracks(E, T, full),
           NEW k \in DOMAIN T, NEW s \in Steps, s[1].op = "ENV"
    PROVE  \E U : Tracks(E, U, full) /\ Then(k, s) \in DOMAIN U /\ U[Then(k, s)] = T[k]
<1> DEFINE m == Then(k, s)
<1>0. IsKey(k) /\ T[k] \in Tree /\ IsKey(m) /\ m.steps # <<>>
  BY KeysGrow DEF Tracks
<1>1. CASE m \in DOMAIN T
  <2>1. PICK j \in DOMAIN T, r \in Steps :
           m = Then(j, r) /\ IF r[1].op = "ENV" THEN T[m] = T[j] ELSE \E e \in E : e.key = m
    BY <1>0, <1>1 DEF Tracks
  <2>2. IsKey(j)
    BY DEF Tracks
  <2>3. j = k /\ r = s
    BY <1>0, <2>1, <2>2, KeysGrow
  <2> QED BY <1>1, <2>1, <2>3
<1>2. CASE m \notin DOMAIN T
  <2>1. Tracks(E, With(T, m, T[k]), full) /\ m \in DOMAIN With(T, m, T[k]) /\ With(T, m, T[k])[m] = T[k]
    BY <1>0, <1>2, NewKey
  <2> QED BY <2>1
<1> QED BY <1>1, <1>2

(* A layer from the cache does what the step did (build.py:366-372).        *)
LEMMA OnHit ==
    ASSUME NEW E, NEW T, NEW full \in BOOLEAN, Tracks(E, T, full),
           NEW k \in DOMAIN T, NEW s \in Steps, NEW e \in E, e.key = Then(k, s)
    PROVE  Caches(e, T, k, s, full)
<1>1. PICK j \in DOMAIN T, r \in Steps : Caches(e, T, j, r, full)
  BY DEF Tracks
<1>2. IsKey(j) /\ IsKey(k) /\ Then(j, r) = Then(k, s)
  BY <1>1 DEF Tracks, Caches
<1>3. j = k /\ r = s
  BY <1>2, KeysGrow
<1> QED BY <1>1, <1>3

(* A layer that was made and fits is recorded (build.py:373-375, 386-390).  *)
Recorded(E, k, s, l) ==
    {e \in E : e.key # Then(k, s)} \cup {[key |-> Then(k, s), layer |-> l]}

LEMMA OnMiss ==
    ASSUME NEW E, NEW T, NEW full \in BOOLEAN, Tracks(E, T, full),
           NEW k \in DOMAIN T, NEW s \in Steps, s[1].op # "ENV", ~ \E e \in E : e.key = Then(k, s),
           NEW l \in Layer, Fits(T[k], l), full => Leaves(T[k], s, Extract(T[k], l))
    PROVE  \E U : /\ Tracks(Recorded(E, k, s, l), U, full)
                  /\ Then(k, s) \in DOMAIN U /\ U[Then(k, s)] = Extract(T[k], l)
<1> DEFINE m == Then(k, s)
           new == [key |-> m, layer |-> l]
           D == {e \in E : e.key # m} \cup {new}
           t == Extract(T[k], l)
           U == With(T, m, t)
<1>1. IsKey(k) /\ T[k] \in Tree /\ IsKey(m) /\ m.steps # <<>> /\ m # k
  BY KeysGrow DEF Tracks
<1>2. t \in Tree
  BY <1>1, ExtractIsTree
<1>3. m \notin DOMAIN T
  <2> SUFFICES ASSUME m \in DOMAIN T PROVE FALSE
    OBVIOUS
  <2>1. PICK j \in DOMAIN T, r \in Steps :
           m = Then(j, r) /\ IF r[1].op = "ENV" THEN T[m] = T[j] ELSE \E e \in E : e.key = m
    BY <1>1 DEF Tracks
  <2>2. IsKey(j)
    BY DEF Tracks
  <2>3. j = k /\ r = s
    BY <1>1, <2>1, <2>2, KeysGrow
  <2> QED BY <2>1, <2>3
<1>4. E \subseteq D /\ D \ E \subseteq {new}
  OBVIOUS
<1>5. Caches(new, U, k, s, full)
  <2>1. m \in DOMAIN U /\ U[m] = t /\ U[k] = T[k]
    BY <1>1 DEF With
  <2>2. new.key = m /\ new.layer = l /\ m = Then(k, s) /\ t = Extract(T[k], l)
    OBVIOUS
  <2> HIDE DEF new, m, t, U
  <2> QED BY <2>1, <2>2 DEF Caches
<1>6. \E e \in D : e.key = m
  <2>1. new \in D /\ new.key = m
    OBVIOUS
  <2> HIDE DEF new, D, m
  <2> QED BY <2>1
<1> HIDE DEF m, D, t, new
<1>7. Tracks(D, U, full) /\ m \in DOMAIN U /\ U[m] = t
  <2>1. \A e \in D \ E : \E j \in DOMAIN T, r \in Steps : Caches(e, U, j, r, full)
    BY <1>4, <1>5
  <2>2. \E j \in DOMAIN T, r \in Steps :
           m = Then(j, r) /\ IF r[1].op = "ENV" THEN t = T[j] ELSE \E e \in D : e.key = m
    BY <1>6 DEF m
  <2> QED BY <1>1, <1>2, <1>3, <1>4, <2>1, <2>2, NewKey
<1> QED BY <1>7 DEF m, D, t, new, Recorded

-----------------------------------------------------------------------------
(* The invariant *)

(* A hash that is remembered for a file as it is now is the hash of what is *)
(* in it (build.py:190-206).                                                *)
Remembers(m) ==
    \A p \in Path : /\ m[p].stamp \in Int /\ m[p].stamp <= stamp[p]
                    /\ m[p].content \in Content \cup {Absent, Dir}
                    /\ m[p].stamp = stamp[p] => m[p].content = context[p]
SourceInv ==
    context \in Tree /\ stamp \in [Path -> Int] /\ Remembers(memo) /\ Remembers(saved[1])

(* The staging directory is what the layers give, and what the cache knows  *)
(* for the key.                                                             *)
Knows(E, full) == \E T : Tracks(E, T, full)
At(E, full, key, root) == \E T : Tracks(E, T, full) /\ key \in DOMAIN T /\ T[key] = root
Stored(E) == \A e \in E : e.layer \in store.layers

StageInv ==
    /\ {"on", "tag", "program", "at", "root", "roots", "image", "key"} \subseteq DOMAIN build
    /\ build.tag \in Tag /\ build.program \in Program[build.tag] /\ build.at \in Nat \ {0}
    /\ build.roots \in Seq(Tree)
    /\ Built(build.image) /\ build.root = Flatten(build.image.layers)

BuildInv(full) ==
    build.on => StageInv /\ Stored(entries) /\ At(entries, full, build.key, build.root)
SavedInv(full) == Stored(saved[2]) /\ Knows(saved[2], full)

ImagesInv ==
    /\ \A i \in store.manifests \cup remote.manifests : Built(i)
    /\ \A u \in Pusher : push[u].step # "none" => Built(push[u].image)

TreeInv(full) == IInv /\ SourceInv /\ BuildInv(full) /\ SavedInv(full) /\ ImagesInv

LEMMA NoImageIsBuilt == Built(NoImage) /\ Flatten(NoImage.layers) = Empty
BY NoLayers, EmptyIsTree DEF NoImage, Built, Stack

(* The instruction that is executed is one of the Dockerfile's.             *)
LEMMA Executed ==
    ASSUME StageInv, NEW op, Executing(op)
    PROVE  /\ Instr \in Given /\ Instr.op = op /\ build.on
           /\ op = "COPY" => Instr.src \in Path /\ Instr.dest \in Path
           /\ build.root \in Tree
<1> DEFINE g == build.program
<1>1. build.at \in DOMAIN g /\ g \in Program[build.tag] /\ build.tag \in Tag
  <2>1. build.tag \in Tag /\ g \in Program[build.tag] /\ build.at \in Nat \ {0}
    BY DEF StageInv
  <2>2. DOMAIN g = 1..Len(g)
    BY <2>1, ProgramAssumption
  <2>3. build.at <= Len(g)
    BY DEF Executing
  <2> QED BY <2>1, <2>2, <2>3
<1>2. Instr = g[build.at] /\ Instr.op = op /\ build.on
  BY DEF Instr, Executing
<1>3. Instr \in Given
  BY <1>1, <1>2 DEF Given
<1>4. op = "COPY" => Instr.src \in Path /\ Instr.dest \in Path
  <2> SUFFICES ASSUME op = "COPY" PROVE Instr.src \in Path /\ Instr.dest \in Path
    OBVIOUS
  <2>1. g[build.at].op = "COPY"
    BY <1>2
  <2>2. g[build.at].src \in Path /\ g[build.at].dest \in Path
    BY <1>1, <2>1, ProgramAssumption
  <2> QED BY <1>2, <2>2
<1> QED BY <1>2, <1>3, <1>4 DEF StageInv, Built, Stack

LEMMA Chained ==
    ASSUME NEW input
    PROVE  Chain(input) = Then(build.key, <<Instr, input>>)
BY DEF Chain, Then

(* A step with a layer that fits (build.py:550-566).                        *)
LEMMA StepKeeps ==
    ASSUME StageInv, build.on, NEW key, NEW root, NEW l \in Layer, Fits(build.root, l),
           root = Extract(build.root, l), Step(key, root, l)
    PROVE  StageInv' /\ build'.on /\ build'.key = key /\ build'.root = root
<1> DEFINE i == [layers |-> Append(build.image.layers, l),
                 history |-> Append(build.image.history, Instr)]
<1>1. build' = [build EXCEPT !.at = @ + 1, !.key = key, !.root = root, !.image = i]
  BY DEF Step
<1>2. {"on", "tag", "program", "at", "root", "roots", "image", "key"} \subseteq DOMAIN build
  BY DEF StageInv
<1>3. /\ DOMAIN build' = DOMAIN build
      /\ build'.on = build.on /\ build'.tag = build.tag /\ build'.program = build.program
      /\ build'.at = build.at + 1 /\ build'.root = root /\ build'.roots = build.roots
      /\ build'.image = i /\ build'.key = key
  <2> HIDE DEF i
  <2> QED BY <1>1, <1>2
<1>4. Built(i) /\ Flatten(i.layers) = Extract(build.root, l)
  <2>1. /\ build.image.layers \in Seq(Layer) /\ Stack(build.image.layers)
        /\ build.root = Flatten(build.image.layers)
    BY DEF StageInv, Built, Stack
  <2>2. /\ Stack(Append(build.image.layers, l))
        /\ Flatten(Append(build.image.layers, l)) = Extract(build.root, l)
    BY <2>1, OneMoreStep
  <2> QED BY <2>2 DEF Built
<1> HIDE DEF i
<1> QED BY <1>2, <1>3, <1>4 DEF StageInv

-----------------------------------------------------------------------------
(* The steps of a build *)

(* A step whose layer is in the cache (build.py:366-372, 559-566).          *)
LEMMA ReuseKeeps ==
    ASSUME NEW full \in BOOLEAN, StageInv, build.on, Stored(entries),
           At(entries, full, build.key, build.root), Instr \in Given, Instr.op # "ENV",
           NEW input \in SUBSET (Path \X (Content \cup {Absent, Dir})), Reuse(Chain(input))
    PROVE  /\ StageInv' /\ build'.on /\ Stored(entries)' /\ UNCHANGED store
           /\ At(entries, full, build.key, build.root)'
           /\ full => Leaves(build.root, <<Instr, input>>, build'.root)
<1> DEFINE s == <<Instr, input>>
           m == Then(build.key, s)
<1>0. s \in Steps /\ s[1] = Instr
  BY DEF Steps
<1>1. PICK e \in Hits(Chain(input)) : Step(Chain(input), Extract(build.root, e.layer), e.layer)
  BY DEF Reuse
<1>2. UNCHANGED <<store, entries>>
  BY DEF Reuse
<1>3. Chain(input) = m /\ e \in entries /\ e.key = m
  BY <1>1, Chained DEF Hits
<1>4. PICK T : Tracks(entries, T, full) /\ build.key \in DOMAIN T /\ T[build.key] = build.root
  BY DEF At
<1> HIDE DEF m, s
<1>5. Caches(e, T, build.key, s, full)
  BY <1>0, <1>3, <1>4, OnHit DEF m
<1>6. /\ e.layer \in Layer /\ Fits(build.root, e.layer) /\ m \in DOMAIN T
      /\ T[m] = Extract(build.root, e.layer)
  BY <1>3, <1>4, <1>5 DEF Caches
<1>7. full => Leaves(build.root, s, T[m])
  BY <1>3, <1>4, <1>5 DEF Caches
<1>8. StageInv' /\ build'.on /\ build'.key = m /\ build'.root = Extract(build.root, e.layer)
  BY <1>1, <1>3, <1>6, StepKeeps
<1>9. At(entries, full, build.key, build.root)'
  BY <1>2, <1>4, <1>6, <1>8 DEF At
<1>10. Stored(entries)'
  BY <1>2 DEF Stored
<1> QED BY <1>2, <1>6, <1>7, <1>8, <1>9, <1>10 DEF s

(* A step that was executed, with the layer that was made of it             *)
(* (build.py:373-375, 386-390, 550-557).                                    *)
LEMMA RecordKeeps ==
    ASSUME NEW full \in BOOLEAN, StageInv, build.on, Stored(entries), Shaped(store),
           At(entries, full, build.key, build.root), Instr \in Given, Instr.op # "ENV",
           NEW input \in SUBSET (Path \X (Content \cup {Absent, Dir})),
           NEW root, NEW l \in Layer, Fits(build.root, l), root = Extract(build.root, l),
           full => Leaves(build.root, <<Instr, input>>, root),
           Record(Chain(input), root, l)
    PROVE  /\ StageInv' /\ build'.on /\ Stored(entries)' /\ build'.root = root
           /\ store'.layers = store.layers \cup {l} /\ store'.manifests = store.manifests
           /\ At(entries, full, build.key, build.root)'
<1> DEFINE s == <<Instr, input>>
           m == Then(build.key, s)
           D == {e \in entries : e.key # m} \cup {[key |-> m, layer |-> l]}
<1>0. s \in Steps /\ s[1] = Instr
  BY DEF Steps
<1>1. Chain(input) = m
  BY Chained
<1>2. /\ Hits(m) = {} /\ Step(m, root, l)
      /\ store' = [store EXCEPT !.layers = @ \cup {l}] /\ entries' = D
  BY <1>1 DEF Record
<1>3. store'.layers = store.layers \cup {l} /\ store'.manifests = store.manifests
  BY <1>2 DEF Shaped
<1>4. ~ \E e \in entries : e.key = m
  BY <1>2 DEF Hits, Stored
<1>5. Stored(entries)'
  <2>1. \A e \in entries' : e.layer \in store'.layers
    <3> TAKE e \in entries'
    <3>1. CASE e \in entries
      BY <1>3, <3>1 DEF Stored
    <3>2. CASE e = [key |-> m, layer |-> l]
      BY <1>3, <3>2
    <3> QED BY <1>2, <3>1, <3>2
  <2> QED BY <2>1 DEF Stored
<1>6. PICK T : Tracks(entries, T, full) /\ build.key \in DOMAIN T /\ T[build.key] = build.root
  BY DEF At
<1>7. StageInv' /\ build'.on /\ build'.key = m /\ build'.root = root
  BY <1>2, StepKeeps
<1>8. full => Leaves(T[build.key], s, Extract(T[build.key], l))
  BY <1>6
<1>9. \E U : Tracks(D, U, full) /\ m \in DOMAIN U /\ U[m] = Extract(T[build.key], l)
  <2> DEFINE k == build.key
  <2>1. /\ Tracks(entries, T, full) /\ k \in DOMAIN T /\ s \in Steps /\ s[1].op # "ENV"
        /\ ~ \E e \in entries : e.key = Then(k, s)
        /\ Fits(T[k], l)
        /\ full => Leaves(T[k], s, Extract(T[k], l))
    BY <1>0, <1>4, <1>6, <1>8
  <2> HIDE DEF s, k
  <2>2. \E U : /\ Tracks(Recorded(entries, k, s, l), U, full)
               /\ Then(k, s) \in DOMAIN U /\ U[Then(k, s)] = Extract(T[k], l)
    BY <2>1, OnMiss
  <2> QED BY <2>2 DEF k, Recorded
<1>10. At(entries, full, build.key, build.root)'
  <2> HIDE DEF D, m
  <2> QED BY <1>2, <1>6, <1>7, <1>9 DEF At
<1> QED BY <1>3, <1>5, <1>7, <1>10

(* What a COPY takes from is a tree, and its input is what its key says.    *)
LEMMA CopySource ==
    ASSUME SourceInv, StageInv, Executing("COPY"), Copyable
    PROVE  /\ CopyBase \in Tree
           /\ CopyInput \in SUBSET (Path \X (Content \cup {Absent, Dir}))
           /\ FromContext => \A x \in FilesOf(Items) : ContentHash(x) = context[x]
           /\ Remembers(Hashed)
<1>1. CopyBase \in Tree
  <2>1. CASE FromContext
    BY <2>1 DEF CopyBase, SourceInv
  <2>2. CASE ~ FromContext
    BY <2>2 DEF CopyBase, StageInv, Copyable
  <2> QED BY <2>1, <2>2
<1>2. \A p \in Path : ContentHash(p) = context[p] /\ context[p] \in Content \cup {Absent, Dir}
  BY TreeType DEF SourceInv, Remembers, ContentHash
<1>3. FilesOf(Items) \subseteq Path
  BY Executed DEF FilesOf, Items, Below
<1>4. CopyInput \in SUBSET (Path \X (Content \cup {Absent, Dir}))
  BY <1>1, <1>2, <1>3, TreeType DEF CopyInput
<1>5. Remembers(Hashed)
  <2> SUFFICES ASSUME NEW p \in Path
               PROVE  /\ Hashed[p].stamp \in Int /\ Hashed[p].stamp <= stamp[p]
                      /\ Hashed[p].content \in Content \cup {Absent, Dir}
                      /\ Hashed[p].stamp = stamp[p] => Hashed[p].content = context[p]
    BY DEF Remembers
  <2>1. CASE FromContext /\ p \in FilesOf(Items)
    <3>1. Hashed[p].stamp = stamp[p] /\ Hashed[p].content = ContentHash(p)
      BY <2>1 DEF Hashed
    <3> QED BY <1>2, <3>1 DEF SourceInv
  <2>2. CASE ~ (FromContext /\ p \in FilesOf(Items))
    <3>1. Hashed[p] = memo[p]
      BY <2>2 DEF Hashed
    <3> QED BY <3>1 DEF SourceInv, Remembers
  <2> QED BY <2>1, <2>2
<1> QED BY <1>1, <1>2, <1>3, <1>4, <1>5

(* COPY (build.py:363-375).                                                 *)
LEMMA CopyKeeps ==
    ASSUME NEW full \in BOOLEAN, TreeInv(full), Copy, Straight, full => NoEmptyDirs
    PROVE  /\ BuildInv(full)' /\ SourceInv'
           /\ store.layers \subseteq store'.layers /\ store'.manifests = store.manifests
           /\ full => build'.root = Copied
<1> DEFINE input == CopyInput
           l == LayerFrom(Copied, Written, {})
<1>0. Executing("COPY") /\ Copyable /\ build.on
  BY DEF Copy, Executing
<1>1. /\ StageInv /\ Stored(entries) /\ At(entries, full, build.key, build.root)
      /\ SourceInv /\ Shaped(store)
  BY <1>0 DEF TreeInv, BuildInv, IInv
<1>2. Instr \in Given /\ Instr.op = "COPY" /\ Instr.src \in Path /\ Instr.dest \in Path /\ build.root \in Tree
  BY <1>0, <1>1, Executed
<1>3. /\ CopyBase \in Tree /\ input \in SUBSET (Path \X (Content \cup {Absent, Dir}))
      /\ FromContext => \A x \in FilesOf(Items) : ContentHash(x) = context[x]
      /\ Remembers(Hashed)
  BY <1>0, <1>1, CopySource
<1>4. \A x \in Items : CopyBase[x] # Dir => build.root[Target(x)] # Dir
  BY <1>0 DEF Straight
<1>5. l \in Layer /\ Fits(build.root, l) /\ Extract(build.root, l) = Copied
  BY <1>0, <1>2, <1>3, <1>4, CopyRestores
<1>6. ASSUME full PROVE Copied = Laid(build.root, Instr, input)
  <2>1. NoEmptyDirs
    BY <1>6
  <2>2. \A d \in Items : CopyBase[d] = Dir => \E x \in FilesOf(Items) : d \in Above(x)
    BY <1>0, <2>1 DEF NoEmptyDirs
  <2> QED BY <1>0, <1>2, <1>3, <1>4, <2>2, KeySaysAll
<1>7. full => Leaves(build.root, <<Instr, input>>, Copied)
  BY <1>2, <1>6 DEF Leaves
<1>8. SourceInv'
  <2>1. memo' = Hashed /\ UNCHANGED <<context, stamp, saved>>
    BY DEF Copy, source
  <2> QED BY <1>1, <1>3, <2>1 DEF SourceInv, Remembers
<1>9. Reuse(Chain(input)) \/ Record(Chain(input), Copied, l)
  BY DEF Copy
<1> HIDE DEF l, input
<1>10. CASE Reuse(Chain(input))
  <2>1. /\ StageInv' /\ build'.on /\ Stored(entries)' /\ UNCHANGED store
        /\ At(entries, full, build.key, build.root)'
        /\ full => Leaves(build.root, <<Instr, input>>, build'.root)
    BY <1>0, <1>1, <1>2, <1>3, <1>10, ReuseKeeps
  <2>2. full => build'.root = Copied
    BY <1>2, <1>6, <2>1 DEF Leaves
  <2> QED BY <1>8, <2>1, <2>2 DEF BuildInv
<1>11. CASE Record(Chain(input), Copied, l)
  <2>1. /\ StageInv' /\ build'.on /\ Stored(entries)' /\ build'.root = Copied
        /\ store'.layers = store.layers \cup {l} /\ store'.manifests = store.manifests
        /\ At(entries, full, build.key, build.root)'
    BY <1>0, <1>1, <1>2, <1>3, <1>5, <1>7, <1>11, RecordKeeps
  <2> QED BY <1>8, <2>1 DEF BuildInv
<1> QED BY <1>9, <1>10, <1>11

(* RUN (build.py:377-390).                                                  *)
LEMMA RunKeeps ==
    ASSUME NEW full \in BOOLEAN, TreeInv(full), Run, StatDiscerns
    PROVE  /\ BuildInv(full)' /\ SourceInv'
           /\ store.layers \subseteq store'.layers /\ store'.manifests = store.manifests
           /\ full => \E e \in Effect[Instr.arg] : build'.root = Ran(build.root, e)
<1>0. Executing("RUN") /\ build.on
  BY DEF Run, Executing
<1>1. /\ StageInv /\ Stored(entries) /\ At(entries, full, build.key, build.root)
      /\ SourceInv /\ Shaped(store)
  BY <1>0 DEF TreeInv, BuildInv, IInv
<1>2. Instr \in Given /\ Instr.op = "RUN" /\ build.root \in Tree
  BY <1>0, <1>1, Executed
<1>3. SourceInv'
  <2>1. UNCHANGED <<context, stamp, memo, saved>>
    BY DEF Run, source
  <2> QED BY <1>1, <2>1 DEF SourceInv, Remembers
<1>4. {} \in SUBSET (Path \X (Content \cup {Absent, Dir}))
  OBVIOUS
<1>5. CASE Reuse(Chain({}))
  <2>1. /\ StageInv' /\ build'.on /\ Stored(entries)' /\ UNCHANGED store
        /\ At(entries, full, build.key, build.root)'
        /\ full => Leaves(build.root, <<Instr, {}>>, build'.root)
    BY <1>0, <1>1, <1>2, <1>4, <1>5, ReuseKeeps
  <2>2. full => \E e \in Effect[Instr.arg] : build'.root = Ran(build.root, e)
    BY <1>2, <2>1 DEF Leaves
  <2> QED BY <1>3, <2>1, <2>2 DEF BuildInv
<1>6. ASSUME NEW e \in Effect[Instr.arg], Ran(build.root, e) \in Tree,
             Record(Chain({}), Ran(build.root, e),
                    LayerFrom(Ran(build.root, e), Changed(build.root, Ran(build.root, e)),
                              Removed(build.root, Ran(build.root, e))))
      PROVE  /\ BuildInv(full)' /\ build'.root = Ran(build.root, e)
             /\ store.layers \subseteq store'.layers /\ store'.manifests = store.manifests
  <2> DEFINE after == Ran(build.root, e)
             l == LayerFrom(after, Changed(build.root, after), Removed(build.root, after))
  <2>1. l \in Layer /\ Fits(build.root, l) /\ Extract(build.root, l) = after
    BY <1>2, <1>6, DiffRestores
  <2>2. Leaves(build.root, <<Instr, {}>>, after)
    BY <1>2 DEF Leaves
  <2>3. Record(Chain({}), after, l)
    BY <1>6
  <2> HIDE DEF l, after
  <2>4. /\ StageInv' /\ build'.on /\ Stored(entries)' /\ build'.root = after
        /\ store'.layers = store.layers \cup {l} /\ store'.manifests = store.manifests
        /\ At(entries, full, build.key, build.root)'
    BY <1>0, <1>1, <1>2, <1>4, <2>1, <2>2, <2>3, RecordKeeps
  <2> QED BY <2>4 DEF BuildInv, after
<1>7. \/ Reuse(Chain({}))
      \/ \E e \in Effect[Instr.arg] :
            /\ Ran(build.root, e) \in Tree
            /\ Record(Chain({}), Ran(build.root, e),
                    LayerFrom(Ran(build.root, e), Changed(build.root, Ran(build.root, e)),
                              Removed(build.root, Ran(build.root, e))))
  BY DEF Run
<1> QED BY <1>3, <1>5, <1>6, <1>7

(* A file is edited while nothing is built.                                 *)
LEMMA EditKeeps ==
    ASSUME NEW full \in BOOLEAN, TreeInv(full), NEW p \in Path, NEW c \in Content, Edit(p, c)
    PROVE  SourceInv' /\ BuildInv(full)' /\ UNCHANGED <<saved, store, remote, pushes>>
<1>1. /\ ~ build.on /\ context[p] \in Content /\ context' = [context EXCEPT ![p] = c]
      /\ stamp' = [stamp EXCEPT ![p] = @ + 1]
      /\ UNCHANGED <<memo, entries, saved, build, store, remote, pushes>>
  BY DEF Edit, cache
<1>2. SourceInv
  BY DEF TreeInv
<1>3. context' \in [Path -> Content \cup {Absent, Dir}] /\ context[p] \notin {Absent, Dir}
  BY <1>1, <1>2, TreeType, ContentAssumption DEF SourceInv
<1>4. ASSUME NEW q \in Path, context'[q] # Absent, NEW r \in Above(q) PROVE context'[r] = Dir
  <2>1. r \in Path
    BY DEF Above
  <2>2. context[q] # Absent
    BY <1>1, <1>2, <1>3, <1>4, TreeType DEF SourceInv
  <2>3. context[r] = Dir
    BY <1>2, <2>2, TreeType DEF SourceInv
  <2>4. r # p
    BY <1>3, <2>3
  <2> QED BY <1>1, <1>2, <2>1, <2>3, <2>4, TreeType DEF SourceInv
<1>5. context' \in Tree
  BY <1>3, <1>4 DEF Tree, Present
<1>6. stamp' \in [Path -> Int]
  BY <1>1, <1>2 DEF SourceInv
<1>7. ASSUME NEW m, Remembers(m)
      PROVE  \A q \in Path : /\ m[q].stamp \in Int /\ m[q].stamp <= stamp'[q]
                             /\ m[q].content \in Content \cup {Absent, Dir}
                             /\ m[q].stamp = stamp'[q] => m[q].content = context'[q]
  <2> TAKE q \in Path
  <2>1. /\ m[q].stamp \in Int /\ m[q].stamp <= stamp[q] /\ stamp[q] \in Int
        /\ m[q].content \in Content \cup {Absent, Dir}
        /\ m[q].stamp = stamp[q] => m[q].content = context[q]
    BY <1>2, <1>7 DEF Remembers, SourceInv
  <2>2. CASE q = p
    <3>1. stamp'[q] = stamp[q] + 1
      BY <1>1, <1>2, <2>2 DEF SourceInv
    <3> QED BY <2>1, <3>1
  <2>3. CASE q # p
    <3>1. stamp'[q] = stamp[q] /\ context'[q] = context[q]
      BY <1>1, <1>2, <2>3, TreeType DEF SourceInv
    <3> QED BY <2>1, <3>1
  <2> QED BY <2>2, <2>3
<1>8. Remembers(memo)' /\ Remembers(saved[1])'
  <2>1. Remembers(memo) /\ Remembers(saved[1])
    BY <1>2 DEF SourceInv
  <2> QED BY <1>1, <1>7, <2>1 DEF Remembers
<1>9. SourceInv'
  BY <1>5, <1>6, <1>8 DEF SourceInv
<1> QED BY <1>1, <1>9 DEF BuildInv

(* A build starts with what was saved (cli.py:20-39, build.py:161-182).     *)
LEMMA StartKeeps ==
    ASSUME NEW full \in BOOLEAN, TreeInv(full), NEW t \in Tag, NEW g \in Program[t], StartBuild(t, g)
    PROVE  SourceInv' /\ BuildInv(full)' /\ UNCHANGED <<saved, store, remote, pushes>>
<1> DEFINE m == [base |-> NoImage, steps |-> <<>>]
<1>1. /\ memo' = saved[1] /\ entries' = saved[2] /\ UNCHANGED <<context, stamp, saved, store, remote, pushes>>
      /\ build' = [on |-> TRUE, tag |-> t, program |-> g, at |-> 1, root |-> Empty,
                   roots |-> <<>>, image |-> NoImage, key |-> m]
  BY DEF StartBuild, source
<1>2. SourceInv'
  BY <1>1 DEF TreeInv, SourceInv, Remembers
<1>3. IsKey(m) /\ m.steps = <<>> /\ m.base = NoImage
  BY DEF IsKey
<1>4. Built(NoImage) /\ Flatten(NoImage.layers) = Empty /\ Empty \in Tree
  BY NoImageIsBuilt, EmptyIsTree
<1> HIDE DEF m
<1>5. /\ build'.on /\ build'.tag = t /\ build'.program = g /\ build'.at = 1 /\ build'.root = Empty
      /\ build'.roots = <<>> /\ build'.image = NoImage /\ build'.key = m
      /\ {"on", "tag", "program", "at", "root", "roots", "image", "key"} \subseteq DOMAIN build'
  BY <1>1
<1>6. StageInv'
  BY <1>4, <1>5 DEF StageInv
<1>7. Stored(entries)'
  BY <1>1 DEF TreeInv, SavedInv, Stored
<1>8. PICK T : Tracks(saved[2], T, full)
  BY DEF TreeInv, SavedInv, Knows
<1>9. \E U : Tracks(saved[2], U, full) /\ m \in DOMAIN U /\ U[m] = Empty
  <2>1. Flatten(m.base.layers) = Empty
    BY <1>3, <1>4
  <2> QED BY <1>3, <1>4, <1>8, <2>1, OnBase
<1>10. At(entries, full, build.key, build.root)'
  BY <1>1, <1>5, <1>9 DEF At
<1> QED BY <1>1, <1>2, <1>6, <1>7, <1>10 DEF BuildInv

(* FROM (build.py:290-299, 331-342).                                        *)
LEMMA FromKeeps ==
    ASSUME NEW full \in BOOLEAN, TreeInv(full), From
    PROVE  SourceInv' /\ BuildInv(full)' /\ UNCHANGED <<saved, store, remote, pushes>>
<1> DEFINE base == IF Instr.arg = Scratch THEN NoImage ELSE store.index[Instr.arg]
           m == [base |-> base, steps |-> <<>>]
           roots == IF build.at = 1 THEN build.roots ELSE Append(build.roots, build.root)
<1>0. Executing("FROM") /\ build.on
  BY DEF From, Executing
<1>1. /\ StageInv /\ Stored(entries) /\ At(entries, full, build.key, build.root)
      /\ build.root \in Tree
  BY <1>0, Executed DEF TreeInv, BuildInv
<1>2. /\ build' = [build EXCEPT !.at = @ + 1, !.roots = roots, !.root = Flatten(base.layers),
                       !.image = base, !.key = m]
      /\ UNCHANGED <<context, stamp, memo, entries, saved, store, remote, pushes>>
  BY DEF From, source, cache
<1>3. Built(base)
  <2>1. CASE Instr.arg = Scratch
    BY <2>1, NoImageIsBuilt
  <2>2. CASE Instr.arg # Scratch
    <3>1. Instr.arg \in Tagged(store)
      BY <2>2 DEF From
    <3>2. store.index[Instr.arg] \in store.manifests
      BY <3>1 DEF TreeInv, IInv, IndexClosed, Closed
    <3> QED BY <2>2, <3>2 DEF TreeInv, ImagesInv
  <2> QED BY <2>1, <2>2
<1>4. IsKey(m) /\ m.steps = <<>> /\ m.base = base /\ Flatten(base.layers) \in Tree
  BY <1>3 DEF IsKey, Built, Stack
<1>5. roots \in Seq(Tree)
  BY <1>1 DEF StageInv
<1> HIDE DEF m, base, roots
<1>6. /\ build'.on = build.on /\ build'.tag = build.tag /\ build'.program = build.program
      /\ build'.at = build.at + 1 /\ build'.root = Flatten(base.layers)
      /\ build'.roots = roots /\ build'.image = base /\ build'.key = m
      /\ DOMAIN build' = DOMAIN build
  BY <1>1, <1>2 DEF StageInv
<1>7. StageInv'
  BY <1>1, <1>3, <1>5, <1>6 DEF StageInv
<1>8. PICK T : Tracks(entries, T, full)
  BY <1>1 DEF At
<1>9. \E U : Tracks(entries, U, full) /\ m \in DOMAIN U /\ U[m] = Flatten(base.layers)
  BY <1>4, <1>8, OnBase
<1>10. At(entries, full, build.key, build.root)'
  BY <1>2, <1>6, <1>9 DEF At
<1>11. SourceInv' /\ Stored(entries)'
  BY <1>1, <1>2 DEF TreeInv, SourceInv, Remembers, Stored
<1> QED BY <1>2, <1>7, <1>10, <1>11 DEF BuildInv

(* ENV and the like (build.py:356-361).                                     *)
LEMMA ConfigureKeeps ==
    ASSUME NEW full \in BOOLEAN, TreeInv(full), Configure
    PROVE  SourceInv' /\ BuildInv(full)' /\ UNCHANGED <<saved, store, remote, pushes>>
<1> DEFINE s == <<Instr, {}>>
           k == build.key
           i == [build.image EXCEPT !.history = Append(@, Instr)]
<1>0. Executing("ENV") /\ build.on
  BY DEF Configure, Executing
<1>1. /\ StageInv /\ Stored(entries) /\ At(entries, full, k, build.root)
      /\ Instr \in Given /\ Instr.op = "ENV"
  BY <1>0, Executed DEF TreeInv, BuildInv
<1>2. UNCHANGED <<context, stamp, memo, entries, saved, store, remote, pushes>>
  BY DEF Configure, source, cache
<1>3. build' = [build EXCEPT !.at = @ + 1, !.key = Then(k, s), !.image.history = Append(@, Instr)]
  BY Chained DEF Configure
<1>4. {"on", "tag", "program", "at", "root", "roots", "image", "key"} \subseteq DOMAIN build
  BY <1>1 DEF StageInv
<1>5. s \in Steps /\ s[1].op = "ENV"
  BY <1>1 DEF Steps
<1> HIDE DEF s, k
<1>6. /\ build'.on = build.on /\ build'.tag = build.tag /\ build'.program = build.program
      /\ build'.at = build.at + 1 /\ build'.root = build.root /\ build'.roots = build.roots
      /\ build'.image = i /\ build'.key = Then(k, s) /\ DOMAIN build' = DOMAIN build
  BY <1>3, <1>4
<1>7. Built(i) /\ i.layers = build.image.layers
  BY <1>1 DEF StageInv, Built
<1> HIDE DEF i
<1>8. StageInv'
  BY <1>1, <1>6, <1>7 DEF StageInv
<1>9. PICK T : Tracks(entries, T, full) /\ k \in DOMAIN T /\ T[k] = build.root
  BY <1>1 DEF At
<1>10. \E U : Tracks(entries, U, full) /\ Then(k, s) \in DOMAIN U /\ U[Then(k, s)] = T[k]
  BY <1>5, <1>9, OnEnv
<1>11. At(entries, full, build.key, build.root)'
  BY <1>2, <1>6, <1>9, <1>10 DEF At
<1>12. SourceInv' /\ Stored(entries)'
  BY <1>1, <1>2 DEF TreeInv, SourceInv, Remembers, Stored
<1> QED BY <1>2, <1>8, <1>11, <1>12 DEF BuildInv

(* The image is tagged, and the cache saved, or the build fails             *)
(* (store.py:129-142, build.py:208-213).                                    *)
LEMMA EndKeeps ==
    ASSUME NEW full \in BOOLEAN, TreeInv(full), TagImage \/ SaveCache \/ Abandon
    PROVE  /\ SourceInv' /\ BuildInv(full)' /\ SavedInv(full)' /\ UNCHANGED <<remote, pushes>>
           /\ \A i \in store'.manifests : Built(i)
<1>0. SourceInv /\ SavedInv(full) /\ Shaped(store) /\ \A i \in store.manifests : Built(i)
  BY DEF TreeInv, IInv, ImagesInv
<1>1. CASE TagImage
  <2>1. /\ build.on /\ build' = [build EXCEPT !.at = @ + 1]
        /\ UNCHANGED <<context, stamp, memo, entries, saved, remote, pushes>>
        /\ store' = [store EXCEPT !.manifests = @ \cup {build.image},
                                  !.index[build.tag] = build.image]
    BY <1>1 DEF TagImage, source, cache
  <2>2. store'.layers = store.layers /\ store'.manifests = store.manifests \cup {build.image}
    BY <1>0, <2>1 DEF Shaped
  <2>3. StageInv /\ Stored(entries) /\ At(entries, full, build.key, build.root)
    BY <2>1 DEF TreeInv, BuildInv
  <2>4. {"on", "tag", "program", "at", "root", "roots", "image", "key"} \subseteq DOMAIN build
    BY <2>3 DEF StageInv
  <2>5. /\ build'.on = build.on /\ build'.tag = build.tag /\ build'.program = build.program
        /\ build'.at = build.at + 1 /\ build'.root = build.root /\ build'.roots = build.roots
        /\ build'.image = build.image /\ build'.key = build.key /\ DOMAIN build' = DOMAIN build
    BY <2>1, <2>4
  <2>6. StageInv' /\ Built(build.image)
    BY <2>3, <2>5 DEF StageInv
  <2>7. At(entries, full, build.key, build.root)' /\ Stored(entries)' /\ SavedInv(full)'
    BY <1>0, <2>1, <2>2, <2>3, <2>5 DEF At, Stored, SavedInv, Knows
  <2>8. SourceInv'
    BY <1>0, <2>1 DEF SourceInv, Remembers
  <2>9. \A i \in store'.manifests : Built(i)
    BY <1>0, <2>2, <2>6
  <2> QED BY <2>1, <2>6, <2>7, <2>8, <2>9 DEF BuildInv
<1>2. CASE SaveCache
  <2>1. /\ build.on /\ ~ build'.on /\ saved' = <<memo, entries>>
        /\ UNCHANGED <<context, stamp, memo, entries, store, remote, pushes>>
    BY <1>2 DEF SaveCache, source, cache, NoBuild
  <2>2. Stored(entries) /\ At(entries, full, build.key, build.root)
    BY <2>1 DEF TreeInv, BuildInv
  <2>3. SavedInv(full)'
    BY <2>1, <2>2 DEF SavedInv, Stored, Knows, At
  <2>4. SourceInv'
    BY <1>0, <2>1 DEF SourceInv, Remembers
  <2> QED BY <1>0, <2>1, <2>3, <2>4 DEF BuildInv
<1>3. CASE Abandon
  <2>1. /\ ~ build'.on
        /\ UNCHANGED <<context, stamp, memo, entries, saved, store, remote, pushes>>
    BY <1>3 DEF Abandon, source, cache, NoBuild
  <2> QED BY <1>0, <2>1 DEF BuildInv, SourceInv, Remembers, SavedInv, Stored, Knows
<1> QED BY <1>1, <1>2, <1>3

-----------------------------------------------------------------------------
(* A push copies images that were built (store.py:182-207).                 *)
Sends(u) ==
    \/ \E t \in Tag : StartPush(u, t)
    \/ OpenFile(u) \/ SendBlob(u) \/ SendManifest(u) \/ ReadIndex(u) \/ WriteIndex(u)
    \/ PushDies(u) \/ PushFails(u)

LEMMA PushKeeps ==
    ASSUME NEW full \in BOOLEAN, TreeInv(full), NEW u \in Pusher, Sends(u)
    PROVE  SourceInv' /\ BuildInv(full)' /\ SavedInv(full)' /\ ImagesInv'
<1>1. UNCHANGED <<context, stamp, memo, entries, saved, build, store>>
  BY DEF Sends, StartPush, OpenFile, SendBlob, SendManifest, ReadIndex, WriteIndex, PushDies,
         PushFails, PushEnds, PushUnchanged, source, cache
<1>2. SourceInv' /\ BuildInv(full)' /\ SavedInv(full)'
  <2>1. SourceInv /\ BuildInv(full) /\ SavedInv(full)
    BY DEF TreeInv
  <2>2. SourceInv'
    BY <1>1, <2>1 DEF SourceInv, Remembers
  <2>3. SavedInv(full)'
    BY <1>1, <2>1 DEF SavedInv, Stored, Knows
  <2>4. BuildInv(full)'
    BY <1>1, <2>1 DEF BuildInv, StageInv, Stored, At
  <2> QED BY <2>2, <2>3, <2>4
<1>3. /\ DOMAIN push = Pusher /\ Shaped(remote)
      /\ \A v \in Pusher : push[v].step # "none" => Pushed(v) /\ Built(push[v].image)
      /\ \A i \in store.manifests \cup remote.manifests : Built(i)
  BY DEF TreeInv, IInv, PushInv, ImagesInv
<1>4. /\ \A v \in Pusher \ {u} : push'[v] = push[v]
      /\ \/ push'[u].step = "none"
         \/ push'[u] = push[u]
         \/ push'[u].image = push[u].image /\ push[u].step # "none"
         \/ \E t \in Tagged(store) : push'[u].image = store.index[t]
  <2>1. CASE \E t \in Tag : StartPush(u, t)
    BY <1>3, <2>1 DEF StartPush
  <2>2. CASE OpenFile(u) \/ PushDies(u) \/ PushFails(u) \/ WriteIndex(u)
    BY <1>3, <2>2 DEF OpenFile, PushDies, PushFails, PushEnds, WriteIndex, NotPushing
  <2>3. CASE SendBlob(u) \/ SendManifest(u) \/ ReadIndex(u)
    <3>1. push[u].step # "none" /\ {"step", "tag", "image", "index"} \subseteq DOMAIN push[u]
      BY <1>3, <2>3 DEF SendBlob, SendManifest, ReadIndex, Pushing, Pushed
    <3> QED BY <1>3, <2>3, <3>1 DEF SendBlob, SendManifest, ReadIndex
  <2> QED BY <2>1, <2>2, <2>3 DEF Sends
<1>5. \A t \in Tagged(store) : Built(store.index[t])
  BY <1>3 DEF TreeInv, IInv, IndexClosed, Closed
<1>6. \A v \in Pusher : push'[v].step # "none" => Built(push'[v].image)
  BY <1>3, <1>4, <1>5
<1>7. \A i \in remote'.manifests : Built(i)
  <2>1. CASE SendManifest(u)
    <3>1. remote'.manifests \subseteq remote.manifests \cup {push[u].image} /\ push[u].step # "none"
      BY <1>3, <2>1 DEF SendManifest, Pushing, Shaped
    <3> QED BY <1>3, <3>1
  <2>2. CASE ~ SendManifest(u)
    <3>1. remote'.manifests = remote.manifests
      <4>1. CASE UNCHANGED remote \/ \E v \in Pusher : remote' = NewIndex(v)
        BY <1>3, <4>1 DEF NewIndex, Shaped
      <4>2. CASE \E l : remote' = [remote EXCEPT !.layers = @ \cup {l}]
        BY <1>3, <4>2 DEF Shaped
      <4> QED BY <2>2, <4>1, <4>2
              DEF Sends, StartPush, OpenFile, SendBlob, ReadIndex, WriteIndex, Writers, PushDies,
                  PushFails, PushEnds, Leave
    <3> QED BY <1>3, <3>1
  <2> QED BY <2>1, <2>2
<1>8. ImagesInv'
  BY <1>1, <1>3, <1>6, <1>7 DEF ImagesInv
<1> QED BY <1>2, <1>8

(* New stores and an empty cache (cli.py:20-39, build.py:161-182).          *)
LEMMA InitTracks == ASSUME Init, NEW full \in BOOLEAN PROVE TreeInv(full)
<1>1. /\ context = Sources /\ stamp = [p \in Path |-> 0]
      /\ memo = [p \in Path |-> NoHash] /\ entries = {} /\ saved = <<memo, entries>>
      /\ build = NoBuild /\ store = NoStore /\ remote = NoStore
      /\ push = [u \in Pusher |-> NotPushing]
  BY DEF Init
<1>2. SourceInv
  <2>1. stamp \in [Path -> Int]
    BY <1>1
  <2>2. Remembers(memo)
    BY <1>1 DEF Remembers, NoHash
  <2> QED BY <1>1, <2>1, <2>2, SourcesAssumption DEF SourceInv
<1>3. BuildInv(full)
  BY <1>1 DEF BuildInv, NoBuild
<1>4. SavedInv(full)
  <2> DEFINE T == [k \in {} |-> Empty]
  <2>1. DOMAIN T = {}
    OBVIOUS
  <2> HIDE DEF T
  <2>2. Tracks({}, T, full)
    BY <2>1 DEF Tracks
  <2> QED BY <1>1, <2>2 DEF SavedInv, Stored, Knows
<1>5. ImagesInv
  BY <1>1 DEF ImagesInv, NoStore, NotPushing
<1> QED BY <1>2, <1>3, <1>4, <1>5, InitKeeps DEF TreeInv

(* Every step of the system keeps the invariant.                            *)
LEMMA NextTracks ==
    ASSUME NEW full \in BOOLEAN, TreeInv(full), [Next]_vars,
           StatDiscerns, Straight, full => NoEmptyDirs
    PROVE  TreeInv(full)'
<1>0. IInv'
  BY NextKeeps DEF TreeInv
<1>1. SourceInv /\ BuildInv(full) /\ SavedInv(full) /\ ImagesInv
  BY DEF TreeInv
<1>2. CASE UNCHANGED vars
  <2>1. UNCHANGED <<context, stamp, memo, entries, saved, build, store, remote, push>>
    BY <1>2 DEF vars, source, cache, pushes
  <2>2. SourceInv' /\ SavedInv(full)'
    BY <1>1, <2>1 DEF SourceInv, Remembers, SavedInv, Stored, Knows
  <2>3. BuildInv(full)'
    BY <1>1, <2>1 DEF BuildInv, StageInv, Stored, At
  <2>4. ImagesInv'
    BY <1>1, <2>1 DEF ImagesInv
  <2> QED BY <1>0, <2>2, <2>3, <2>4 DEF TreeInv
<1>3. CASE Copy \/ Run
  <2>1. /\ BuildInv(full)' /\ SourceInv'
        /\ store.layers \subseteq store'.layers /\ store'.manifests = store.manifests
    BY <1>3, CopyKeeps, RunKeeps
  <2>2. UNCHANGED <<remote, push>>
    BY <1>3, LayerSteps DEF pushes
  <2>3. UNCHANGED saved
    BY <1>3 DEF Copy, Run
  <2>4. SavedInv(full)'
    BY <1>1, <2>1, <2>3 DEF SavedInv, Stored, Knows
  <2>5. ImagesInv'
    BY <1>1, <2>1, <2>2 DEF ImagesInv
  <2> QED BY <1>0, <2>1, <2>4, <2>5 DEF TreeInv
<1>4. CASE \/ \E p \in Path, c \in Content : Edit(p, c)
           \/ \E t \in Tag : \E g \in Program[t] : StartBuild(t, g)
           \/ From \/ Configure
  <2>1. SourceInv' /\ BuildInv(full)' /\ UNCHANGED <<saved, store, remote, pushes>>
    BY <1>4, EditKeeps, StartKeeps, FromKeeps, ConfigureKeeps
  <2>2. SavedInv(full)'
    BY <1>1, <2>1 DEF SavedInv, Stored, Knows
  <2>3. ImagesInv'
    BY <1>1, <2>1 DEF ImagesInv, pushes
  <2> QED BY <1>0, <2>1, <2>2, <2>3 DEF TreeInv
<1>5. CASE TagImage \/ SaveCache \/ Abandon
  <2>1. /\ SourceInv' /\ BuildInv(full)' /\ SavedInv(full)' /\ UNCHANGED <<remote, pushes>>
        /\ \A i \in store'.manifests : Built(i)
    BY <1>5, EndKeeps
  <2>2. ImagesInv'
    BY <1>1, <2>1 DEF ImagesInv, pushes
  <2> QED BY <1>0, <2>1, <2>2 DEF TreeInv
<1>6. ASSUME NEW u \in Pusher, Sends(u) PROVE TreeInv(full)'
  BY <1>0, <1>6, PushKeeps DEF TreeInv
<1> QED BY <1>2, <1>3, <1>4, <1>5, <1>6 DEF Next, Sends

-----------------------------------------------------------------------------
(* The staging directory is what the layers recorded give, and a container  *)
(* sees what was built, when size and time tell contents apart and no file  *)
(* is copied to what is a directory (build.py:17-20, 550-566; minicon       *)
(* image.py:304-336).                                                       *)
LEMMA TreeKept == StatDiscerns => (Spec /\ []Straight => []TreeInv(FALSE))
<1> SUFFICES ASSUME StatDiscerns PROVE Spec /\ []Straight => []TreeInv(FALSE)
  OBVIOUS
<1>1. Init => TreeInv(FALSE)
  BY InitTracks
<1>2. TreeInv(FALSE) /\ Straight /\ [Next]_vars => TreeInv(FALSE)'
  BY NextTracks
<1> QED BY <1>1, <1>2, PTL DEF Spec

THEOREM StagingIsLayers == StatDiscerns => (Spec /\ []Straight => []RootfsIsLayers)
<1> SUFFICES ASSUME StatDiscerns PROVE Spec /\ []Straight => []RootfsIsLayers
  OBVIOUS
<1>1. TreeInv(FALSE) => RootfsIsLayers
  BY DEF TreeInv, BuildInv, StageInv, RootfsIsLayers
<1>2. Spec /\ []Straight => []TreeInv(FALSE)
  BY TreeKept
<1> QED BY <1>1, <1>2, PTL

THEOREM ContainersSeeTheBuild == StatDiscerns => (Spec /\ []Straight => []MountedAsBuilt)
<1> SUFFICES ASSUME StatDiscerns PROVE Spec /\ []Straight => []MountedAsBuilt
  OBVIOUS
<1>1. TreeInv(FALSE) => MountedAsBuilt
  <2> SUFFICES ASSUME TreeInv(FALSE), NEW t \in Tagged(remote) PROVE Stack(remote.index[t].layers)
    BY DEF MountedAsBuilt, Mounts, Stack
  <2> QED BY DEF TreeInv, IInv, IndexClosed, Closed, ImagesInv, Built
<1>2. Spec /\ []Straight => []TreeInv(FALSE)
  BY TreeKept
<1> QED BY <1>1, <1>2, PTL

(* A step of a build that goes on with a COPY or a RUN is that step         *)
(* (build.py:331-390).                                                      *)
LEMMA OneInstruction ==
    ASSUME TreeInv(TRUE), [Next]_vars, NEW op \in {"COPY", "RUN"}, Executing(op),
           build'.on, build'.at > build.at
    PROVE  IF op = "COPY" THEN Copy ELSE Run
<1>1. build.on /\ build.at <= Len(build.program) /\ Instr.op = op
  BY DEF Executing
<1>2. build.at \in Nat \ {0} /\ Len(build.program) \in Nat
  <2>1. StageInv
    BY <1>1 DEF TreeInv, BuildInv
  <2>2. build.at \in Nat \ {0} /\ DOMAIN build.program = 1..Len(build.program)
    BY <2>1, ProgramAssumption DEF StageInv
  <2> QED BY <2>2
<1>3. ~ (build.at > build.at)
  BY <1>2
<1>4. CASE UNCHANGED build
  BY <1>3, <1>4
<1>5. CASE \/ \E p \in Path, c \in Content : Edit(p, c)
           \/ \E t \in Tag : \E g \in Program[t] : StartBuild(t, g)
  BY <1>1, <1>5 DEF Edit, StartBuild
<1>6. CASE From \/ Configure
  BY <1>1, <1>6 DEF From, Configure, Executing
<1>7. CASE TagImage
  BY <1>1, <1>2, <1>7 DEF TagImage
<1>8. CASE SaveCache \/ Abandon
  BY <1>8 DEF SaveCache, Abandon, NoBuild
<1>9. CASE \E u \in Pusher : Sends(u)
  <2>1. UNCHANGED build
    BY <1>9 DEF Sends, StartPush, OpenFile, SendBlob, SendManifest, ReadIndex, WriteIndex,
                PushDies, PushFails, PushEnds, PushUnchanged
  <2> QED BY <1>4, <2>1
<1>10. CASE Copy \/ Run
  BY <1>1, <1>10 DEF Copy, Run, Executing
<1>11. UNCHANGED vars => UNCHANGED build
  BY DEF vars
<1> QED BY <1>4, <1>5, <1>6, <1>7, <1>8, <1>9, <1>10, <1>11 DEF Next, Sends

(* A cached step leaves what executing it would, if besides every directory *)
(* that is copied holds a file: the key of a COPY names files only          *)
(* (build.py:5-8, 363-390, 463-470).                                        *)
THEOREM CachedStepsAreReal ==
    StatDiscerns => (Spec /\ []Straight /\ []NoEmptyDirs => StepsAreReal)
<1> SUFFICES ASSUME StatDiscerns PROVE Spec /\ []Straight /\ []NoEmptyDirs => StepsAreReal
  OBVIOUS
<1> DEFINE Real ==
      LET goesOn == build'.on /\ build'.at > build.at IN
      /\ Executing("COPY") /\ goesOn => build'.root = Copied
      /\ Executing("RUN") /\ goesOn =>
            \E e \in Effect[Instr.arg] : build'.root = Ran(build.root, e)
<1>1. Init => TreeInv(TRUE)
  BY InitTracks
<1>2. TreeInv(TRUE) /\ Straight /\ NoEmptyDirs /\ [Next]_vars => TreeInv(TRUE)'
  BY NextTracks
<1>3. TreeInv(TRUE) /\ Straight /\ NoEmptyDirs /\ [Next]_vars => [Real]_vars
  <2> SUFFICES ASSUME TreeInv(TRUE), Straight, NoEmptyDirs, [Next]_vars PROVE Real
    OBVIOUS
  <2> USE DEF Real
  <2>1. ASSUME Executing("COPY"), build'.on, build'.at > build.at PROVE build'.root = Copied
    <3>1. Copy
      BY <2>1, OneInstruction
    <3> QED BY <3>1, CopyKeeps
  <2>2. ASSUME Executing("RUN"), build'.on, build'.at > build.at
        PROVE  \E e \in Effect[Instr.arg] : build'.root = Ran(build.root, e)
    <3>1. Run
      BY <2>2, OneInstruction
    <3> QED BY <3>1, RunKeeps
  <2> QED BY <2>1, <2>2
<1>4. StepsAreReal <=> [][Real]_vars
  BY DEF StepsAreReal
<1> HIDE DEF Real
<1> QED BY <1>1, <1>2, <1>3, <1>4, PTL DEF Spec
=============================================================================
