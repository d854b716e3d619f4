----------------------------- MODULE ImageBuild -----------------------------
(***************************************************************************)
(* The image builder with its build cache, the image store it builds into,  *)
(* and copy_image, which pushes images to another store.                    *)
(*                                                                          *)
(* A build is a process of its own: it loads the cache from disk, executes  *)
(* the instructions of a Dockerfile one after the other in a staging        *)
(* directory, and at the end tags the image and saves the cache.  It may    *)
(* fail or die between any two steps; so may a push.  Between builds the    *)
(* files of the build context are edited.  What a RUN does depends on the   *)
(* outside world: it has one of several effects.  A digest is the content   *)
(* it is the digest of.                                                     *)
(***************************************************************************)
EXTENDS FileTrees, FiniteSets

CONSTANTS
    Tag, Program,     \* references, and the Dockerfiles built as each
    Command, Effect,  \* what a RUN command may do
    Sources,          \* the build context at the beginning
    Ignored,          \* the paths .dockerignore matches
    Pusher,
    MaxEdits, MaxBuilds, MaxFails

ASSUME SourcesAssumption == Sources \in Tree /\ Ignored \subseteq Path
ASSUME EffectAssumption == DOMAIN Effect = Command /\ DOMAIN Program = Tag
ASSUME ProgramAssumption ==
    \A t \in Tag : \A g \in Program[t] :
        /\ DOMAIN g = 1..Len(g)
        /\ \A k \in DOMAIN g :
              /\ g[k].op = "COPY" => {g[k].src, g[k].dest} \subseteq Path
              /\ g[k].op = "RUN" => g[k].arg \in Command
ASSUME BoundAssumption == {MaxEdits, MaxBuilds, MaxFails} \subseteq Nat

VARIABLES
    context, stamp,   \* the build context, and when each file changed
    memo, entries,    \* BuildCache: hashes of files, and layers by key
    saved,            \* the cache file
    build,            \* the build in progress
    store, remote,    \* the stores built into and pushed to
    push,             \* per pusher, its copy_image
    writing, share,   \* per pusher, the file it writes, and who has its .tmp:
                      \* it alone, others too, or it is in its place already
    torn, contested,  \* files of remote that are cut short; files that two
                      \* pushes have written at once
    edits, builds, fails

source == <<context, stamp, edits>>
cache  == <<memo, entries>>
files  == <<writing, share, torn, contested>>
pushes == <<push, files>>
vars == <<source, cache, saved, build, store, remote, pushes, builds, fails>>

Scratch == "scratch"
NoImage == [layers |-> <<>>, history |-> <<>>]
NoHash  == [stamp |-> -1, content |-> Absent]

(* A store: layers, manifests (each with its config) and tags.              *)
NoStore == [layers |-> {}, manifests |-> {}, index |-> [t \in Tag |-> NoImage]]
Tagged(s) == {t \in Tag : s.index[t] # NoImage}

NoBuild == [on |-> FALSE]
NotPushing == [step |-> "none"]

(* A file of a store: a layer, a manifest or the index.                     *)
NoFile == <<"none">>
LayerBlob(l) == <<"layer", l>>
ManifestBlob(i) == <<"manifest", i>>
IndexFile == <<"index">>

Init ==
    /\ context = Sources /\ stamp = [p \in Path |-> 0]
    /\ memo = [p \in Path |-> NoHash] /\ entries = {}
    /\ saved = <<memo, entries>>
    /\ build = NoBuild
    /\ store = NoStore /\ remote = NoStore
    /\ push = [u \in Pusher |-> NotPushing]
    /\ writing = [u \in Pusher |-> NoFile]
    /\ share = [u \in Pusher |-> "alone"] /\ torn = {} /\ contested = {}
    /\ edits = 0 /\ builds = 0 /\ fails = 0

Edit(p, c) ==
    /\ edits < MaxEdits
    /\ ~ build.on
    /\ context[p] \in Content \ {c}
    /\ context' = [context EXCEPT ![p] = c]
    /\ stamp' = [stamp EXCEPT ![p] = @ + 1]
    /\ edits' = edits + 1
    /\ UNCHANGED <<cache, saved, build, store, remote, pushes, builds, fails>>

-----------------------------------------------------------------------------
(* The build                                                                *)

Instr == build.program[build.at]

StartBuild(tag, program) ==
    /\ ~ build.on
    /\ program \in Program[tag]
    /\ builds < MaxBuilds
    /\ builds' = builds + 1
    /\ memo' = saved[1] /\ entries' = saved[2]
    /\ build' = [on |-> TRUE, tag |-> tag, program |-> program, at |-> 1,
                 root |-> Empty, roots |-> <<>>, image |-> NoImage,
                 key |-> [base |-> NoImage, steps |-> <<>>]]
    /\ UNCHANGED <<source, saved, store, remote, pushes, fails>>

Executing(op) == build.on /\ build.at <= Len(build.program) /\ Instr.op = op

(* FROM: the stage before is kept for COPY --from, and the key starts anew  *)
(* with the manifest of the base.                                           *)
From ==
    /\ Executing("FROM")
    /\ Instr.arg = Scratch \/ Instr.arg \in Tagged(store)
    /\ LET base == IF Instr.arg = Scratch THEN NoImage ELSE store.index[Instr.arg] IN
       build' = [build EXCEPT !.at = @ + 1,
                   !.roots = IF build.at = 1 THEN @ ELSE Append(@, build.root),
                   !.root = Flatten(base.layers),
                   !.image = base,
                   !.key = [base |-> base, steps |-> <<>>]]
    /\ UNCHANGED <<source, cache, saved, store, remote, pushes, builds, fails>>

(* Mutant of Chain: the key is the instruction and its input.               *)
ChainAlone(input) == [build.key EXCEPT !.steps = <<<<Instr, input>>>>]

(* The key of a step: its parent's, its text and its input.                 *)
Chain(input) == [build.key EXCEPT !.steps = Append(@, <<Instr, input>>)]

Hits(key) == {e \in entries : e.key = key /\ e.layer \in store.layers}

(* A step that ends with the given staging directory and layer.             *)
Step(key, root, layer) ==
    build' = [build EXCEPT !.at = @ + 1, !.key = key, !.root = root,
                !.image = [layers  |-> Append(@.layers, layer),
                           history |-> Append(@.history, Instr)]]

(* The layer is in the cache: it is extracted and recorded again.           *)
Reuse(key) ==
    /\ \E e \in Hits(key) : Step(key, Extract(build.root, e.layer), e.layer)
    /\ UNCHANGED <<store, entries>>

(* It is not: the step was executed, its layer is stored and cached.        *)
Record(key, root, layer) ==
    /\ Hits(key) = {}
    /\ Step(key, root, layer)
    /\ store' = [store EXCEPT !.layers = @ \cup {layer}]
    /\ entries' = {e \in entries : e.key # key} \cup {[key |-> key, layer |-> layer]}

(* ENV and the like change the config, and the key.                         *)
Configure ==
    /\ Executing("ENV")
    /\ build' = [build EXCEPT !.at = @ + 1, !.key = Chain({}),
                   !.image.history = Append(@, Instr)]
    /\ UNCHANGED <<source, cache, saved, store, remote, pushes, builds, fails>>

-----------------------------------------------------------------------------
(* COPY                                                                     *)

FromContext == Instr.stage = 0
CopyBase == IF FromContext THEN context ELSE build.roots[Instr.stage]

(* What is copied: a file, or all there is in a directory.                  *)
Left == IF FromContext THEN Ignored ELSE {}
CopiesDir == CopyBase[Instr.src] = Dir /\ Instr.src \notin Left

Items ==
    (IF CopiesDir THEN Below(Instr.src) \cap Present(CopyBase) ELSE {Instr.src}) \ Left

FilesOf(items) == {x \in items : CopyBase[x] # Dir}

(* content_hash: remembered for a file until its size or time changes.      *)
ContentHash(x) == IF memo[x].stamp = stamp[x] THEN memo[x].content ELSE context[x]

Hashed ==
    [p \in Path |-> IF FromContext /\ p \in FilesOf(Items)
                    THEN [stamp |-> stamp[p], content |-> ContentHash(p)] ELSE memo[p]]

(* The input of a COPY: the names and contents of its files, not the        *)
(* directories in between.                                                  *)
CopyInput ==
    {<<x, IF FromContext THEN ContentHash(x) ELSE CopyBase[x]>> : x \in FilesOf(Items)}

IntoDir == CopiesDir \/ build.root[Instr.dest] = Dir

Target(x) ==
    IF CopiesDir
    THEN Instr.dest \o SubSeq(x, Len(Instr.src) + 1, Len(x))
    ELSE IF IntoDir THEN Append(Instr.dest, Last(x)) ELSE Instr.dest

(* A file that is copied to what is a directory ends up in it.              *)
Landing(x) ==
    IF CopyBase[x] # Dir /\ build.root[Target(x)] = Dir
    THEN Append(Target(x), Last(x)) ELSE Target(x)

Parents ==
    {q \in Path : IsPrefix(q, IF IntoDir THEN Instr.dest ELSE Front(Instr.dest))}

(* The directories that are made if they are not there.                     *)
Made == Parents \cup UNION {Above(Landing(x)) : x \in Items}

(* There is a source, and everything has a place: a directory is not made   *)
(* where a file is, nor a file where a directory is.                        *)
Copyable ==
    /\ FromContext \/ Instr.stage \in DOMAIN build.roots
    /\ CopyBase[Instr.src] # Absent
    /\ \A x \in Items :
         /\ Target(x) \in Path /\ Landing(x) \in Path
         /\ IF CopyBase[x] = Dir THEN build.root[Landing(x)] \in {Absent, Dir}
            ELSE build.root[Landing(x)] # Dir
    /\ \A q \in Made : build.root[q] \in {Absent, Dir}

Copied ==
    [p \in Path |->
        IF \E x \in Items : Landing(x) = p
        THEN CopyBase[CHOOSE x \in Items : Landing(x) = p]
        ELSE IF p \in Made THEN Dir ELSE build.root[p]]

(* _do_copy returns the directories it made and the paths it wrote.         *)
Written ==
    {q \in Parents : build.root[q] = Absent} \cup {Target(x) : x \in Items}
    \cup (IF CopiesDir THEN {Instr.dest} ELSE {})

Copy ==
    /\ Executing("COPY")
    /\ Copyable
    /\ LET key == Chain(CopyInput) IN
       Reuse(key) \/ Record(key, Copied, LayerFrom(Copied, Written, {}))
    /\ memo' = Hashed
    /\ UNCHANGED <<source, saved, remote, pushes, builds, fails>>

-----------------------------------------------------------------------------
(* RUN                                                                      *)

Ran(t, e) ==
    [p \in Path |->
        IF p \in DOMAIN e.write THEN e.write[p]
        ELSE IF ({p} \cup Above(p)) \cap e.delete # {} THEN Absent ELSE t[p]]

Run ==
    /\ Executing("RUN")
    /\ LET key == Chain({}) IN
       \/ Reuse(key)
       \/ \E e \in Effect[Instr.arg] :
             LET after == Ran(build.root, e) IN
             /\ after \in Tree
             /\ Record(key, after, LayerFrom(after, Changed(build.root, after),
                                             Removed(build.root, after)))
    /\ UNCHANGED <<source, memo, saved, remote, pushes, builds, fails>>

-----------------------------------------------------------------------------
(* put_image; then the cache is saved.                                      *)
TagImage ==
    /\ build.on /\ build.at = Len(build.program) + 1
    /\ Range(build.image.layers) \subseteq store.layers
    /\ store' = [store EXCEPT !.manifests = @ \cup {build.image},
                              !.index[build.tag] = build.image]
    /\ build' = [build EXCEPT !.at = @ + 1]
    /\ UNCHANGED <<source, cache, saved, remote, pushes, builds, fails>>

SaveCache ==
    /\ build.on /\ build.at = Len(build.program) + 2
    /\ saved' = cache
    /\ build' = NoBuild
    /\ UNCHANGED <<source, cache, store, remote, pushes, builds, fails>>

(* The build fails, or its process dies.                                    *)
Abandon ==
    /\ build.on
    /\ fails < MaxFails
    /\ fails' = fails + 1
    /\ build' = NoBuild
    /\ UNCHANGED <<source, cache, saved, store, remote, pushes, builds>>

-----------------------------------------------------------------------------
(* copy_image                                                               *)

Pushing(u, step) == push[u].step = step
PushUnchanged == UNCHANGED <<source, cache, saved, build, store, builds>>

StartPush(u, t) ==
    /\ Pushing(u, "none")
    /\ t \in Tagged(store)
    /\ remote.index[t] # store.index[t]
    /\ push' = [push EXCEPT ![u] = [step |-> "blobs", tag |-> t, image |-> store.index[t],
                                    index |-> remote.index]]
    /\ PushUnchanged /\ UNCHANGED <<remote, files, fails>>

(* Mutant of Lacking: an image whose last layer is there is there.          *)
LackingTop(u) ==
    IF push[u].image.layers # <<>> /\ Last(push[u].image.layers) \in remote.layers
    THEN {} ELSE Range(push[u].image.layers) \ remote.layers

(* The blobs the destination lacks, one after the other.                    *)
Lacking(u) == Range(push[u].image.layers) \ remote.layers

Unwritten(u) ==
    CASE Pushing(u, "blobs")    -> {LayerBlob(l) : l \in Lacking(u)}
      [] Pushing(u, "manifest") -> {ManifestBlob(push[u].image)} \ {ManifestBlob(i) : i \in remote.manifests}
      [] Pushing(u, "write")    -> {IndexFile}
      [] OTHER                  -> {}

Free(u) == writing[u] = NoFile

(* Those who have a file's .tmp.                                            *)
Writers(f) == {v \in Pusher : writing[v] = f /\ share[v] # "taken"}

(* Whoever writes a file writes the one file of its name with .tmp: opening *)
(* it takes away what another has written to it.                            *)
OpenFile(u) ==
    /\ Free(u)
    /\ \E f \in Unwritten(u) :
          LET others == Writers(f) IN
          /\ writing' = [writing EXCEPT ![u] = f]
          /\ share' = [v \in Pusher |-> IF v \in others \cup {u} /\ others # {} THEN "shared" ELSE share[v]]
          /\ contested' = IF others = {} THEN contested ELSE contested \cup {f}
    /\ PushUnchanged /\ UNCHANGED <<remote, push, torn, fails>>

(* os.replace puts the .tmp in its place, whosever it is, as it is then:    *)
(* whole, or, unless it was written by one alone, perhaps cut short.  The   *)
(* others write on in the file that is in place now.                        *)
PutFile(u) ==
    /\ ~ Free(u) /\ Writers(writing[u]) # {}
    /\ writing' = [writing EXCEPT ![u] = NoFile]
    /\ share' = [v \in Pusher |-> IF v = u THEN "alone"
                                  ELSE IF writing[v] = writing[u] THEN "taken" ELSE share[v]]
    /\ \/ torn' = torn \ {writing[u]}
       \/ share[u] # "alone" /\ torn' = torn \cup {writing[u]}
    /\ UNCHANGED contested

(* The layer, and when none is lacking the next step.                       *)
SendBlob(u) ==
    /\ Pushing(u, "blobs")
    /\ \/ /\ \E l \in Range(push[u].image.layers) :
                 /\ writing[u] = LayerBlob(l)
                 /\ remote' = [remote EXCEPT !.layers = @ \cup {l}]
          /\ PutFile(u)
          /\ UNCHANGED push
       \/ /\ Free(u) /\ Lacking(u) = {}
          /\ push' = [push EXCEPT ![u].step = "manifest"]
          /\ UNCHANGED <<remote, files>>
    /\ PushUnchanged /\ UNCHANGED fails

SendManifest(u) ==
    /\ Pushing(u, "manifest")
    /\ IF Free(u)
       THEN Unwritten(u) = {} /\ UNCHANGED <<remote, files>>
       ELSE PutFile(u) /\ remote' = [remote EXCEPT !.manifests = @ \cup {push[u].image}]
    /\ push' = [push EXCEPT ![u].step = "read"]
    /\ PushUnchanged /\ UNCHANGED fails

(* The index is read, changed and written back whole.                       *)
ReadIndex(u) ==
    /\ Pushing(u, "read")
    /\ IndexFile \notin torn
    /\ push' = [push EXCEPT ![u].index = remote.index, ![u].step = "write"]
    /\ PushUnchanged /\ UNCHANGED <<remote, files, fails>>

NewIndex(u) == [remote EXCEPT !.index = [push[u].index EXCEPT ![push[u].tag] = push[u].image]]

WriteIndex(u) ==
    /\ Pushing(u, "write")
    /\ PutFile(u)
    /\ \E v \in Writers(IndexFile) : remote' = NewIndex(v)
    /\ push' = [push EXCEPT ![u] = NotPushing]
    /\ PushUnchanged /\ UNCHANGED fails

(* What a push that ends has written to a file that another has put in its  *)
(* place: nothing, all, or, over another index, a part.                     *)
Leave(u) ==
    \/ UNCHANGED <<remote, torn>>
    \/ /\ share[u] = "taken"
       /\ torn' = torn \ {writing[u]}
       /\ remote' = IF Pushing(u, "write") THEN NewIndex(u) ELSE remote
    \/ /\ share[u] = "taken" /\ Pushing(u, "write")
       /\ torn' = torn \cup {writing[u]}
       /\ UNCHANGED remote

PushEnds(u) ==
    /\ ~ Pushing(u, "none")
    /\ Leave(u)
    /\ push' = [push EXCEPT ![u] = NotPushing]
    /\ writing' = [writing EXCEPT ![u] = NoFile]
    /\ share' = [share EXCEPT ![u] = "alone"]
    /\ PushUnchanged /\ UNCHANGED contested

PushDies(u) ==
    /\ fails < MaxFails
    /\ fails' = fails + 1
    /\ PushEnds(u)

(* It finds no .tmp to put in its place, or an index that is cut short.     *)
PushFails(u) ==
    /\ \/ ~ Free(u) /\ Writers(writing[u]) = {}
       \/ Pushing(u, "read") /\ IndexFile \in torn
    /\ PushEnds(u)
    /\ UNCHANGED fails

-----------------------------------------------------------------------------
Next ==
    \/ \E p \in Path, c \in Content : Edit(p, c)
    \/ \E t \in Tag : \E g \in Program[t] : StartBuild(t, g)
    \/ From \/ Configure \/ Copy \/ Run \/ TagImage \/ SaveCache \/ Abandon
    \/ \E u \in Pusher :
         \/ \E t \in Tag : StartPush(u, t)
         \/ OpenFile(u) \/ SendBlob(u) \/ SendManifest(u) \/ ReadIndex(u) \/ WriteIndex(u)
         \/ PushDies(u) \/ PushFails(u)

Spec == Init /\ [][Next]_vars

-----------------------------------------------------------------------------
(* Properties *)

(* The layers recorded so far, applied in order, give the staging           *)
(* directory, whether they were made now or taken from the cache            *)
(* (build.py:17-20, "Layers come from filesystem diffs").                   *)
RootfsIsLayers == build.on => Flatten(build.image.layers) = build.root

(* A cached step leaves what executing it would: a COPY exactly what is in  *)
(* its source now, a RUN what one of its effects does to this very          *)
(* directory and not to the one of another base (build.py:5-8, "Without     *)
(* that, an image would silently inherit a layer built against a base that  *)
(* no longer exists").                                                      *)
StepsAreReal ==
    [][LET goesOn == build'.on /\ build'.at > build.at IN
       /\ Executing("COPY") /\ goesOn => build'.root = Copied
       /\ Executing("RUN") /\ goesOn =>
             \E e \in Effect[Instr.arg] : build'.root = Ran(build.root, e)]_vars

(* What an index names is there, with every layer, although builds and      *)
(* pushes die half-way (store.py:130-136); and no file is cut short but     *)
(* those that two pushes wrote at once (store.py:85, "same content, same    *)
(* path, same bytes").                                                      *)
Closed(s) ==
    /\ \A t \in Tagged(s) : s.index[t] \in s.manifests
    /\ \A i \in s.manifests : Range(i.layers) \subseteq s.layers
IndexClosed == Closed(store) /\ Closed(remote) /\ torn \subseteq contested

(* A container sees the tree that was built, if the layers of the image can *)
(* be mounted at all (minicon image.py:225-236, mounts.py:103-107).         *)
MountedAsBuilt ==
    \A t \in Tagged(remote) :
        LET layers == remote.index[t].layers IN
        Mounts(layers) => Mounted(layers) = Flatten(layers)

(* The runtime can unpack every image that was built: it "consumes exactly  *)
(* what `image-toolkit` produces" (minicon/image.py:3).                     *)
EveryImageUnpacks == \A i \in store.manifests : \A l \in Range(i.layers) : Unpacks(l)
=============================================================================
