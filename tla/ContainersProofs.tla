-------------------------- MODULE ContainersProofs --------------------------
(***************************************************************************)
(* Proofs about Containers, for any containers, images and number of        *)
(* faults: the layers a container stands on are complete, and a deleted     *)
(* container that had a cgroup has left no process behind.                  *)
(***************************************************************************)
EXTENDS Containers, TLAPS

(* A helper past the lock has the lock of exactly one layer.                *)
LockInv ==
    /\ \A l \in Layer : holder[l] # None =>
          creator[holder[l]] \in {"holding", "clearing", "unpacking"}
    /\ \A l, m \in Layer : holder[l] = holder[m] /\ holder[l] # None => l = m

(* What a helper clears and unpacks has no marker: it looked, under the     *)
(* lock, and only the owner of the lock puts a marker.                      *)
UnmarkedInv ==
    \A l \in Layer : holder[l] # None =>
        (creator[holder[l]] \in {"clearing", "unpacking"} => l \notin marker)

(* A creation that succeeded saw all the markers.                           *)
ReadyInv ==
    /\ \A c \in Container : creator[c] = "ready" => ToSet(LayersOf[c]) \subseteq marker
    /\ \A c \in Container : runtime[c] # "creating" => creator[c] = "ready"

CacheInv == CacheTypeOK /\ LockInv /\ UnmarkedInv /\ MarkedIsComplete /\ ReadyInv

(* The child has not forked, and has not passed the handshake.              *)
Early == {"none", "joining", "unsharing"}
Told  == {"mapping", "awaitStarted", "running", "killing", "stopped", "raised"}

LifeTypeOK ==
    /\ runtime \in [Container -> RuntimeStep]
    /\ child \in [Container -> ChildState]
    /\ init \in [Container -> InitState]
    /\ limited \subseteq Container /\ joined \subseteq limited
    /\ ready \in [Container -> {"none", "R", "E"}]

(* The handshake: the runtime's step tells how far the child has come.      *)
HandshakeInv ==
    \A c \in Container :
        /\ runtime[c] \in {"creating", "created", "opened"} => child[c] = "none"
        /\ child[c] \in Early \cup {"awaitGo"} => init[c] = "none"
        /\ runtime[c] \in Told => child[c] \notin Early
        /\ ready[c] = "R" => child[c] \notin Early

(* A container with a cgroup has its processes in it before it has a G.     *)
CgroupInv ==
    \A c \in limited :
        /\ child[c] \in {"unsharing", "awaitGo", "unguarded", "supervising"} => c \in joined
        /\ init[c] # "none" => c \in joined

LifeInv == LifeTypeOK /\ HandshakeInv /\ CgroupInv /\ DeleteIsFinal

-----------------------------------------------------------------------------
(* The layer cache                                                          *)

(* The cache starts in order: no layer is marked and no lock is held        *)
(* (image.py:158-174).                                                      *)
LEMMA CacheInitially == Init => CacheInv
<1> SUFFICES ASSUME Init PROVE CacheInv
  OBVIOUS
<1> USE DEF Init, CacheInit
<1>1. CacheTypeOK
  <2>1. faults \in 0..MaxFaults
    BY FaultsAssumption
  <2> QED BY <2>1 DEF CacheTypeOK, CreatorStep
<1>2. LockInv /\ UnmarkedInv
  BY DEF LockInv, UnmarkedInv
<1>3. MarkedIsComplete /\ ReadyInv
  BY DEF MarkedIsComplete, ReadyInv
<1> QED BY <1>1, <1>2, <1>3 DEF CacheInv

(* A helper that lets go of a lock leaves the rest as it is.                *)
LEMMA ReleaseKeeps ==
    ASSUME CacheTypeOK, LockInv, UnmarkedInv, NEW c \in Container, NEW l \in Layer,
           holder[l] = c, Release(c, l), UNCHANGED <<disk, faults>>,
           marker' = marker \/ marker' = marker \cup {l}
    PROVE  CacheTypeOK' /\ LockInv' /\ UnmarkedInv'
<1> USE FaultsAssumption DEF CacheTypeOK, CreatorStep, Release, To
<1>1. CacheTypeOK'
  OBVIOUS
<1>2. \A m \in Layer \ {l} : holder[m] # None => holder[m] # c
  BY DEF LockInv
<1>3. \A m \in Layer : holder'[m] # None => m # l /\ holder'[m] = holder[m]
                                            /\ creator'[holder[m]] = creator[holder[m]]
  BY <1>2
<1>4. LockInv'
  BY <1>3 DEF LockInv
<1>5. UnmarkedInv'
  BY <1>3 DEF UnmarkedInv
<1> QED BY <1>1, <1>4, <1>5

(* What a helper does under a layer's lock keeps the cache in order         *)
(* (nshelper.py:64-72).                                                     *)
LEMMA LockedKeeps ==
    ASSUME CacheInv, NEW c \in Container, NEW l \in Layer, Locked(c, l), UNCHANGED runtime
    PROVE  CacheInv'
<1> USE FaultsAssumption DEF CacheInv, CacheTypeOK, CreatorStep, To
<1>0. holder[l] = c /\ creator[c] \in {"holding", "clearing", "unpacking"} /\ c # None
  BY DEF Locked, Look, Clear, Unpack, Mark
<1>1. CASE Look(c, l) /\ l \in marker
  <2>1. CacheTypeOK' /\ LockInv' /\ UnmarkedInv'
    BY <1>0, <1>1, ReleaseKeeps DEF Look
  <2>2. MarkedIsComplete' /\ ReadyInv'
    BY <1>0, <1>1 DEF Look, Release, MarkedIsComplete, ReadyInv
  <2> QED BY <2>1, <2>2
<1>2. CASE Look(c, l) /\ l \notin marker
  <2>1. CacheTypeOK' /\ MarkedIsComplete' /\ ReadyInv'
    BY <1>0, <1>2 DEF Look, MarkedIsComplete, ReadyInv
  <2>2. LockInv'
    BY <1>0, <1>2 DEF Look, LockInv
  <2>3. UnmarkedInv'
    BY <1>0, <1>2 DEF Look, UnmarkedInv, LockInv
  <2> QED BY <2>1, <2>2, <2>3
<1>3. CASE Clear(c, l)
  <2>0. l \notin marker
    BY <1>0, <1>3 DEF Clear, UnmarkedInv
  <2>1. CacheTypeOK' /\ MarkedIsComplete' /\ ReadyInv'
    BY <1>0, <1>3, <2>0 DEF Clear, MarkedIsComplete, ReadyInv
  <2>2. LockInv'
    BY <1>0, <1>3 DEF Clear, LockInv
  <2>3. UnmarkedInv'
    BY <1>0, <1>3 DEF Clear, UnmarkedInv
  <2> QED BY <2>1, <2>2, <2>3
<1>4. CASE Unpack(c, l)
  BY <1>0, <1>4 DEF Unpack, MarkedIsComplete, ReadyInv, LockInv, UnmarkedInv
<1>5. CASE Mark(c, l)
  <2>1. CacheTypeOK' /\ LockInv' /\ UnmarkedInv'
    BY <1>0, <1>5, ReleaseKeeps DEF Mark
  <2>2. MarkedIsComplete' /\ ReadyInv'
    BY <1>0, <1>5 DEF Mark, Release, MarkedIsComplete, ReadyInv
  <2> QED BY <2>1, <2>2
<1> QED BY <1>1, <1>2, <1>3, <1>4, <1>5 DEF Locked

(* So does every other step of the cache, a helper's failure among them     *)
(* (image.py:188-201).                                                      *)
LEMMA CacheStepKeeps ==
    ASSUME CacheInv, NEW c \in Container, CacheStep(c), UNCHANGED runtime
    PROVE  CacheInv'
<1> USE FaultsAssumption, LayersAssumption DEF CacheInv, CacheTypeOK, CreatorStep, To
<1>1. CASE Ensure(c)
  <2>1. CacheTypeOK'
    <3>1. todo'[c] \subseteq Layer
      BY <1>1 DEF Ensure, ToSet
    <3> QED BY <1>1, <3>1 DEF Ensure
  <2>2. MarkedIsComplete' /\ ReadyInv'
    BY <1>1 DEF Ensure, MarkedIsComplete, ReadyInv
  <2>3. LockInv' /\ UnmarkedInv'
    BY <1>1 DEF Ensure, LockInv, UnmarkedInv
  <2> QED BY <2>1, <2>2, <2>3
<1>2. CASE HelperFails(c)
  <2>1. CacheTypeOK' /\ MarkedIsComplete' /\ ReadyInv'
    BY <1>2 DEF HelperFails, MarkedIsComplete, ReadyInv
  <2>2. LockInv'
    BY <1>2 DEF HelperFails, LockInv
  <2>3. UnmarkedInv'
    BY <1>2 DEF HelperFails, UnmarkedInv
  <2> QED BY <2>1, <2>2, <2>3
<1>3. CASE Check(c)
  <2>1. CacheTypeOK' /\ MarkedIsComplete' /\ ReadyInv'
    BY <1>3 DEF Check, MarkedIsComplete, ReadyInv
  <2>2. LockInv' /\ UnmarkedInv'
    BY <1>3 DEF Check, LockInv, UnmarkedInv
  <2> QED BY <2>1, <2>2
<1>4. ASSUME NEW l \in Layer, Lock(c, l) PROVE CacheInv'
  <2>1. CacheTypeOK' /\ MarkedIsComplete' /\ ReadyInv'
    BY <1>4 DEF Lock, MarkedIsComplete, ReadyInv
  <2>2. LockInv'
    BY <1>4 DEF Lock, LockInv
  <2>3. UnmarkedInv'
    BY <1>4 DEF Lock, UnmarkedInv
  <2> QED BY <2>1, <2>2, <2>3
<1>5. ASSUME NEW l \in Layer, Locked(c, l) PROVE CacheInv'
  BY <1>5, LockedKeeps
<1> QED BY <1>1, <1>2, <1>3, <1>4, <1>5 DEF CacheStep, Helper

(* The steps of processes leave the cache alone; only Create makes a        *)
(* container of one whose creation is done.                                 *)
LEMMA ProcessesKeepCache ==
    ASSUME CacheInv, UNCHANGED cacheVars, faults' \in 0..MaxFaults,
           \A d \in Container : runtime'[d] # "creating" =>
                                    runtime[d] # "creating" \/ creator[d] = "ready"
    PROVE  CacheInv'
BY DEF cacheVars, CacheInv, CacheTypeOK, LockInv, UnmarkedInv, MarkedIsComplete, ReadyInv

-----------------------------------------------------------------------------
(* The lives of containers                                                  *)

LifeVars == <<runtime, child, init, limited, joined, ready>>

(* The lives of the containers start in order (container.py:164-180).       *)
LEMMA LifeInitially == Init => LifeInv
<1> SUFFICES ASSUME Init PROVE LifeInv
  OBVIOUS
<1> USE DEF Init
<1>1. LifeTypeOK
  BY DEF LifeTypeOK, RuntimeStep, ChildState, InitState
<1>2. HandshakeInv /\ CgroupInv /\ DeleteIsFinal
  BY <1>1 DEF LifeTypeOK, HandshakeInv, Told, Early, CgroupInv, DeleteIsFinal
<1> QED BY <1>1, <1>2 DEF LifeInv

(* The invariant of the containers' lives is about no other variable.       *)
LEMMA LifeStutters == ASSUME LifeInv, UNCHANGED LifeVars PROVE LifeInv'
BY DEF LifeVars, LifeInv, LifeTypeOK, HandshakeInv, CgroupInv, DeleteIsFinal, ChildAlive, InitAlive

(* The steps of the runtime up to the start.                                 *)
LEMMA StartKeepsLife ==
    ASSUME LifeInv, NEW c \in Container, Create(c) \/ OpenPipes(c) \/ Fork(c) \/ CloseEnds(c) \/ ReadReady(c) \/ StartFails(c) \/ WriteMaps(c) \/ ReadStarted(c)
    PROVE  LifeInv'
<1> USE DEF LifeInv, LifeTypeOK, RuntimeStep, ChildState, InitState, Early, Told,
            ChildAlive, InitAlive, Set, SetChild, SetInit, Written
<1>1. CASE Create(c)
  <2>1. LifeTypeOK'
    BY <1>1 DEF Create
  <2>2. HandshakeInv' /\ CgroupInv' /\ DeleteIsFinal'
    BY <1>1 DEF Create, HandshakeInv, CgroupInv, DeleteIsFinal
  <2> QED BY <2>1, <2>2
<1>2. CASE OpenPipes(c)
  <2>1. LifeTypeOK'
    BY <1>2 DEF OpenPipes
  <2>2. HandshakeInv' /\ CgroupInv' /\ DeleteIsFinal'
    BY <1>2 DEF OpenPipes, HandshakeInv, CgroupInv, DeleteIsFinal
  <2> QED BY <2>1, <2>2
<1>3. CASE Fork(c)
  <2>1. LifeTypeOK'
    BY <1>3 DEF Fork
  <2>2. HandshakeInv' /\ CgroupInv' /\ DeleteIsFinal'
    BY <1>3 DEF Fork, HandshakeInv, CgroupInv, DeleteIsFinal
  <2> QED BY <2>1, <2>2
<1>4. CASE CloseEnds(c)
  <2>1. LifeTypeOK'
    BY <1>4 DEF CloseEnds
  <2>2. HandshakeInv' /\ CgroupInv' /\ DeleteIsFinal'
    BY <1>4 DEF CloseEnds, HandshakeInv, CgroupInv, DeleteIsFinal
  <2> QED BY <2>1, <2>2
<1>5. CASE ReadReady(c)
  <2>1. LifeTypeOK'
    BY <1>5 DEF ReadReady
  <2>2. HandshakeInv' /\ CgroupInv' /\ DeleteIsFinal'
    BY <1>5 DEF ReadReady, HandshakeInv, CgroupInv, DeleteIsFinal
  <2> QED BY <2>1, <2>2
<1>6. CASE StartFails(c)
  <2>1. LifeTypeOK'
    BY <1>6 DEF StartFails
  <2>2. HandshakeInv' /\ CgroupInv' /\ DeleteIsFinal'
    BY <1>6 DEF StartFails, HandshakeInv, CgroupInv, DeleteIsFinal
  <2> QED BY <2>1, <2>2
<1>7. CASE WriteMaps(c)
  <2>1. LifeTypeOK'
    BY <1>7 DEF WriteMaps
  <2>2. HandshakeInv'
    BY <1>7 DEF WriteMaps, HandshakeInv
  <2>3. CgroupInv'
    BY <1>7 DEF WriteMaps, HandshakeInv, CgroupInv
  <2>4. DeleteIsFinal'
    BY <1>7 DEF WriteMaps, HandshakeInv, CgroupInv, DeleteIsFinal
  <2> QED BY <2>1, <2>2, <2>3, <2>4
<1>8. CASE ReadStarted(c)
  <2>1. LifeTypeOK'
    BY <1>8 DEF ReadStarted
  <2>2. HandshakeInv' /\ CgroupInv' /\ DeleteIsFinal'
    BY <1>8 DEF ReadStarted, HandshakeInv, CgroupInv, DeleteIsFinal
  <2> QED BY <2>1, <2>2
<1> QED BY <1>1, <1>2, <1>3, <1>4, <1>5, <1>6, <1>7, <1>8

(* The steps of C and G.                                                     *)
LEMMA ProcessesKeepLife ==
    ASSUME LifeInv, NEW c \in Container, Join(c) \/ Unshare(c) \/ ForkInit(c) \/ Guard(c) \/ SetUp(c) \/ Exit(c) \/ ReapInit(c)
    PROVE  LifeInv'
<1> USE DEF LifeInv, LifeTypeOK, RuntimeStep, ChildState, InitState, Early, Told,
            ChildAlive, InitAlive, Set, SetChild, SetInit, Written
<1>1. CASE Join(c)
  <2>1. LifeTypeOK'
    BY <1>1 DEF Join, ChildExits
  <2>2. HandshakeInv'
    BY <1>1 DEF Join, ChildExits, HandshakeInv
  <2>3. CgroupInv'
    BY <1>1 DEF Join, ChildExits, HandshakeInv, CgroupInv
  <2>4. DeleteIsFinal'
    BY <1>1 DEF Join, ChildExits, HandshakeInv, CgroupInv, DeleteIsFinal
  <2> QED BY <2>1, <2>2, <2>3, <2>4
<1>2. CASE Unshare(c)
  <2>1. LifeTypeOK'
    BY <1>2 DEF Unshare, ChildExits
  <2>2. HandshakeInv'
    BY <1>2 DEF Unshare, ChildExits, HandshakeInv
  <2>3. CgroupInv'
    BY <1>2 DEF Unshare, ChildExits, HandshakeInv, CgroupInv
  <2>4. DeleteIsFinal'
    BY <1>2 DEF Unshare, ChildExits, HandshakeInv, CgroupInv, DeleteIsFinal
  <2> QED BY <2>1, <2>2, <2>3, <2>4
<1>3. CASE ForkInit(c)
  <2>1. LifeTypeOK'
    BY <1>3 DEF ForkInit, ChildExits
  <2>2. HandshakeInv'
    BY <1>3 DEF ForkInit, ChildExits, HandshakeInv
  <2>3. CgroupInv'
    BY <1>3 DEF ForkInit, ChildExits, HandshakeInv, CgroupInv
  <2>4. DeleteIsFinal'
    BY <1>3 DEF ForkInit, ChildExits, HandshakeInv, CgroupInv, DeleteIsFinal
  <2> QED BY <2>1, <2>2, <2>3, <2>4
<1>4. CASE Guard(c)
  <2>1. LifeTypeOK'
    BY <1>4 DEF Guard
  <2>2. HandshakeInv' /\ CgroupInv' /\ DeleteIsFinal'
    BY <1>4 DEF Guard, HandshakeInv, CgroupInv, DeleteIsFinal
  <2> QED BY <2>1, <2>2
<1>5. CASE SetUp(c)
  <2>1. LifeTypeOK'
    BY <1>5 DEF SetUp
  <2>2. HandshakeInv' /\ CgroupInv' /\ DeleteIsFinal'
    BY <1>5 DEF SetUp, HandshakeInv, CgroupInv, DeleteIsFinal
  <2> QED BY <2>1, <2>2
<1>6. CASE Exit(c)
  <2>1. LifeTypeOK'
    BY <1>6 DEF Exit
  <2>2. HandshakeInv' /\ CgroupInv' /\ DeleteIsFinal'
    BY <1>6 DEF Exit, HandshakeInv, CgroupInv, DeleteIsFinal
  <2> QED BY <2>1, <2>2
<1>7. CASE ReapInit(c)
  <2>1. LifeTypeOK'
    BY <1>7 DEF ReapInit, ChildExits
  <2>2. HandshakeInv' /\ CgroupInv' /\ DeleteIsFinal'
    BY <1>7 DEF ReapInit, ChildExits, HandshakeInv, CgroupInv, DeleteIsFinal
  <2> QED BY <2>1, <2>2
<1> QED BY <1>1, <1>2, <1>3, <1>4, <1>5, <1>6, <1>7

(* The steps of the runtime that end a container.                            *)
LEMMA EndKeepsLife ==
    ASSUME LifeInv, NEW c \in Container, ReapChild(c) \/ Kill(c) \/ KillHard(c) \/ Delete(c)
    PROVE  LifeInv'
<1> USE DEF LifeInv, LifeTypeOK, RuntimeStep, ChildState, InitState, Early, Told,
            ChildAlive, InitAlive, Set, SetChild, SetInit, Written
<1>1. CASE ReapChild(c)
  <2>1. LifeTypeOK'
    BY <1>1 DEF ReapChild
  <2>2. HandshakeInv' /\ CgroupInv' /\ DeleteIsFinal'
    BY <1>1 DEF ReapChild, HandshakeInv, CgroupInv, DeleteIsFinal
  <2> QED BY <2>1, <2>2
<1>2. CASE Kill(c)
  <2>1. LifeTypeOK'
    BY <1>2 DEF Kill, ChildExits
  <2>2. HandshakeInv' /\ CgroupInv' /\ DeleteIsFinal'
    BY <1>2 DEF Kill, ChildExits, HandshakeInv, CgroupInv, DeleteIsFinal
  <2> QED BY <2>1, <2>2
<1>3. CASE KillHard(c)
  <2>1. LifeTypeOK'
    BY <1>3 DEF KillHard, CgroupKill
  <2>2. HandshakeInv'
    BY <1>3 DEF KillHard, CgroupKill, HandshakeInv
  <2>3. CgroupInv'
    BY <1>3 DEF KillHard, CgroupKill, HandshakeInv, CgroupInv
  <2>4. DeleteIsFinal'
    BY <1>3 DEF KillHard, CgroupKill, HandshakeInv, CgroupInv, DeleteIsFinal
  <2> QED BY <2>1, <2>2, <2>3, <2>4
<1>4. CASE Delete(c)
  <2>1. LifeTypeOK'
    BY <1>4 DEF Delete, CgroupKill
  <2>2. HandshakeInv'
    BY <1>4 DEF Delete, CgroupKill, HandshakeInv
  <2>3. CgroupInv'
    BY <1>4 DEF Delete, CgroupKill, HandshakeInv, CgroupInv
  <2>4. c \in limited => ~ ChildAlive(c)' /\ ~ InitAlive(c)'
    <3>1. CASE c \in limited /\ child[c] # "none" /\ c \in joined
      BY <1>4, <3>1 DEF Delete, CgroupKill, HandshakeInv
    <3>2. CASE c \in limited /\ child[c] # "none" /\ c \notin joined
      BY <1>4, <3>2 DEF Delete, CgroupKill, HandshakeInv, CgroupInv
    <3>3. CASE c \in limited /\ child[c] = "none"
      BY <1>4, <3>3 DEF Delete, HandshakeInv
    <3> QED BY <3>1, <3>2, <3>3
  <2>5. \A d \in Container \ {c} : child'[d] = child[d] /\ init'[d] = init[d]
                                    /\ runtime'[d] = runtime[d]
    BY <1>4 DEF Delete, CgroupKill
  <2>6. DeleteIsFinal'
    BY <1>4, <2>4, <2>5 DEF Delete, DeleteIsFinal
  <2> QED BY <2>1, <2>2, <2>3, <2>6
<1> QED BY <1>1, <1>2, <1>3, <1>4

(* The ends of the pipes are held by processes.                             *)
EndsTypeOK ==
    /\ readyEnds \in [Container -> SUBSET Process]
    /\ startedEnds \in [Container -> SUBSET Process]
    /\ started \subseteq Container /\ go \subseteq Container

(* Closing what processes had open keeps the types of the pipes' ends.      *)
LEMMA EndsKeepType ==
    ASSUME EndsTypeOK, NEW c \in Container,
           \/ Create(c) \/ StartStep(c) \/ ChildStep(c) \/ SetUp(c) \/ Exit(c)
           \/ ReapChild(c) \/ Kill(c) \/ KillHard(c) \/ Delete(c)
    PROVE  EndsTypeOK'
<1>1. Parent \in Process /\ C(c) \in Process /\ G(c) \in Process
  BY DEF Process
<1>2. \A p, q : q \in Process =>
          /\ Inherit(readyEnds, p, q) \in [Container -> SUBSET Process]
          /\ Inherit(startedEnds, p, q) \in [Container -> SUBSET Process]
  BY DEF EndsTypeOK, Inherit
<1>3. \A gone : Closes(gone) => /\ readyEnds' \in [Container -> SUBSET Process]
                                /\ startedEnds' \in [Container -> SUBSET Process]
  BY DEF EndsTypeOK, Closes
<1>4. CASE Create(c) \/ StartStep(c)
  BY <1>1, <1>2, <1>3, <1>4
  DEF EndsTypeOK, EndsUnchanged, Written, Create, StartStep, OpenPipes, Fork, CloseEnds,
      ReadReady, StartFails, WriteMaps, ReadStarted
<1>5. CASE ChildStep(c) \/ SetUp(c) \/ Exit(c)
  BY <1>1, <1>2, <1>3, <1>5
  DEF EndsTypeOK, EndsUnchanged, Written, ChildStep, Join, Unshare, ForkInit, Guard,
      ReapInit, ChildExits, SetUp, Exit
<1>6. CASE ReapChild(c) \/ Kill(c) \/ KillHard(c) \/ Delete(c)
  BY <1>1, <1>3, <1>6
  DEF EndsTypeOK, EndsUnchanged, Written, ReapChild, Kill, ChildExits, KillHard, Delete,
      CgroupKill
<1> QED BY <1>4, <1>5, <1>6

-----------------------------------------------------------------------------
(* The composition                                                          *)

(* What the processes do, seen from the cache.                              *)
LEMMA ProcessFrame ==
    ASSUME CacheInv, LifeTypeOK, NEW c \in Container,
           \/ Create(c) \/ StartStep(c) \/ ChildStep(c) \/ SetUp(c) \/ Exit(c)
           \/ ReapChild(c) \/ Kill(c) \/ KillHard(c) \/ Delete(c)
    PROVE  /\ UNCHANGED cacheVars
           /\ faults' \in 0..MaxFaults
           /\ \A d \in Container : runtime'[d] # "creating" =>
                                       runtime[d] # "creating" \/ creator[d] = "ready"
<1> USE FaultsAssumption DEF CacheInv, CacheTypeOK, LifeTypeOK, Set, Fault, NoFault
<1>1. CASE Create(c) \/ StartStep(c)
  <2>1. UNCHANGED cacheVars
    BY <1>1 DEF Create, StartStep, OpenPipes, Fork, CloseEnds, ReadReady, StartFails, WriteMaps,
               ReadStarted
  <2>2. faults' \in 0..MaxFaults
    BY <1>1 DEF Create, StartStep, OpenPipes, Fork, CloseEnds, ReadReady, StartFails, WriteMaps,
               ReadStarted
  <2>3. \A d \in Container : runtime'[d] # "creating" =>
                             runtime[d] # "creating" \/ creator[d] = "ready"
    BY <1>1 DEF Create, StartStep, OpenPipes, Fork, CloseEnds, ReadReady, StartFails, WriteMaps,
               ReadStarted
  <2> QED BY <2>1, <2>2, <2>3
<1>2. CASE ChildStep(c) \/ SetUp(c) \/ Exit(c)
  <2>1. UNCHANGED cacheVars
    BY <1>2 DEF ChildStep, Join, Unshare, ForkInit, Guard, ReapInit, SetUp, Exit
  <2>2. faults' \in 0..MaxFaults
    BY <1>2 DEF ChildStep, Join, Unshare, ForkInit, Guard, ReapInit, SetUp, Exit
  <2>3. \A d \in Container : runtime'[d] # "creating" =>
                             runtime[d] # "creating" \/ creator[d] = "ready"
    BY <1>2 DEF ChildStep, Join, Unshare, ForkInit, Guard, ReapInit, SetUp, Exit
  <2> QED BY <2>1, <2>2, <2>3
<1>3. CASE ReapChild(c) \/ Kill(c) \/ KillHard(c) \/ Delete(c)
  <2>1. UNCHANGED cacheVars
    BY <1>3 DEF ReapChild, Kill, KillHard, Delete
  <2>2. faults' \in 0..MaxFaults
    BY <1>3 DEF ReapChild, Kill, KillHard, Delete
  <2>3. \A d \in Container : runtime'[d] # "creating" =>
                             runtime[d] # "creating" \/ creator[d] = "ready"
    BY <1>3 DEF ReapChild, Kill, KillHard, Delete
  <2> QED BY <2>1, <2>2, <2>3
<1> QED BY <1>1, <1>2, <1>3

IInv == CacheInv /\ LifeInv /\ EndsTypeOK

(* Every step of the system keeps the invariant.                            *)
LEMMA NextKeeps == IInv /\ [Next]_vars => IInv'
<1> SUFFICES ASSUME IInv, [Next]_vars PROVE IInv'
  OBVIOUS
<1> USE DEF IInv
<1>1. CASE UNCHANGED vars
  <2>1. CacheInv'
    BY <1>1, ProcessesKeepCache DEF vars, procVars, CacheInv, CacheTypeOK
  <2>2. LifeInv'
    BY <1>1, LifeStutters DEF vars, procVars, LifeVars
  <2>3. EndsTypeOK'
    BY <1>1 DEF vars, procVars, EndsTypeOK
  <2> QED BY <2>1, <2>2, <2>3
<1>2. ASSUME NEW c \in Container, CacheStep(c), UNCHANGED procVars PROVE IInv'
  <2>1. CacheInv'
    BY <1>2, CacheStepKeeps DEF procVars
  <2>2. LifeInv'
    BY <1>2, LifeStutters DEF procVars, LifeVars
  <2>3. EndsTypeOK'
    BY <1>2 DEF procVars, EndsTypeOK
  <2> QED BY <2>1, <2>2, <2>3
<1>3. ASSUME NEW c \in Container,
             \/ Create(c) \/ StartStep(c) \/ ChildStep(c) \/ SetUp(c) \/ Exit(c)
             \/ ReapChild(c) \/ Kill(c) \/ KillHard(c) \/ Delete(c)
      PROVE  IInv'
  <2>1. CacheInv'
    BY <1>3, ProcessFrame, ProcessesKeepCache DEF LifeInv
  <2>2. LifeInv'
    BY <1>3, StartKeepsLife, ProcessesKeepLife, EndKeepsLife DEF StartStep, ChildStep
  <2>3. EndsTypeOK'
    BY <1>3, EndsKeepType
  <2> QED BY <2>1, <2>2, <2>3
<1> QED BY <1>1, <1>2, <1>3 DEF Next

(* The invariant of the layer cache and of the containers' lives holds      *)
(* always (container.py:164-516).                                           *)
THEOREM Invariance == Spec => []IInv
<1>1. Init => IInv
  BY CacheInitially, LifeInitially DEF IInv, EndsTypeOK, Init
<1> QED BY <1>1, NextKeeps, PTL DEF Spec

(* Every variable keeps its type.                                           *)
THEOREM TypeCorrect == Spec => []TypeOK
<1>1. IInv => TypeOK
  BY DEF IInv, CacheInv, LifeInv, LifeTypeOK, EndsTypeOK, TypeOK
<1> QED BY <1>1, Invariance, PTL

(* A layer that has its marker is complete, and so are the layers of every  *)
(* container that was created, whoever unpacked them and however often      *)
(* helpers failed on the way (nshelper.py:43-54).                           *)
THEOREM LayersAreWhole == Spec => []RunsOnWholeLayers
<1>1. IInv => RunsOnWholeLayers
  BY DEF IInv, CacheInv, ReadyInv, MarkedIsComplete, RunsOnWholeLayers
<1> QED BY <1>1, Invariance, PTL

(* A deleted container that had a cgroup has left no process behind         *)
(* (container.py:463-466).                                                  *)
THEOREM DeletionIsFinal == Spec => []DeleteIsFinal
<1>1. IInv => DeleteIsFinal
  BY DEF IInv, LifeInv
<1> QED BY <1>1, Invariance, PTL
=============================================================================
