----------------------------- MODULE Containers -----------------------------
(***************************************************************************)
(* The life of containers: create, start, wait, kill, delete.               *)
(*                                                                          *)
(* A container is made by three processes: the runtime P, its child C, and  *)
(* C's child G, which becomes PID 1 of the container.  They shake hands     *)
(* over pipes: C tells P that its namespaces exist, P tells C that the ID   *)
(* maps are installed, G tells P that it is about to exec.  A read ends     *)
(* when something was written, or when no process has the pipe open for     *)
(* writing any more.  As the orchestrator runs them, all containers are     *)
(* started by threads of one process, so a child inherits whatever pipes    *)
(* its siblings have open at the moment of the fork, and keeps them: C and  *)
(* a G that supervises (use_init) never exec.                               *)
(*                                                                          *)
(* A container may have a cgroup or not.  What a workload does (exit, or    *)
(* ignore a signal) is open.                                                *)
(***************************************************************************)
EXTENDS LayerCache

VARIABLES
    runtime,      \* per container, where the thread of P is
    child,        \* per container, the state of C
    init,         \* per container, that of G
    limited,      \* the containers with a cgroup
    joined,       \* those whose processes are in theirs
    readyEnds, startedEnds,   \* per container, who has the pipe to P open
    ready, started,           \* per container, what was written to them
    go            \* the containers whose C was told to go on

procVars == <<runtime, child, init, limited, joined, readyEnds, startedEnds, ready, started, go>>
vars == <<cacheVars, faults, procVars>>

Parent   == <<"P", None>>
C(c)     == <<"C", c>>
G(c)     == <<"G", c>>
Process  == {Parent} \cup {C(c) : c \in Container} \cup {G(c) : c \in Container}

RuntimeStep == {"creating", "created", "opened", "forked", "awaitReady", "draining",
                "mapping", "awaitStarted", "running", "killing", "stopped", "raised", "deleted"}
ChildState == {"none", "joining", "unsharing", "awaitGo", "unguarded", "supervising",
               "zombie", "reaped"}
InitState  == {"none", "setup", "up", "dead"}

ChildAlive(c) == child[c] \in {"joining", "unsharing", "awaitGo", "unguarded", "supervising"}
InitAlive(c)  == init[c] \in {"setup", "up"}

Init ==
    /\ CacheInit
    /\ faults = 0
    /\ runtime = [c \in Container |-> "creating"]
    /\ child = [c \in Container |-> "none"]
    /\ init = [c \in Container |-> "none"]
    /\ limited \in SUBSET Container
    /\ joined = {}
    /\ readyEnds = [c \in Container |-> {}] /\ startedEnds = [c \in Container |-> {}]
    /\ ready = [c \in Container |-> "none"] /\ started = {} /\ go = {}

Set(c, step) == runtime' = [runtime EXCEPT ![c] = step]
SetChild(c, state) == child' = [child EXCEPT ![c] = state]
SetInit(c, state) == init' = [init EXCEPT ![c] = state]

Fault == faults < MaxFaults /\ faults' = faults + 1
NoFault == UNCHANGED faults

(* When processes end, all they had open is closed.                         *)
Closes(gone) ==
    /\ readyEnds' = [d \in Container |-> readyEnds[d] \ gone]
    /\ startedEnds' = [d \in Container |-> startedEnds[d] \ gone]
EndsUnchanged == UNCHANGED <<readyEnds, startedEnds>>
Written == UNCHANGED <<ready, started, go>>

-----------------------------------------------------------------------------
(* P: create and start                                                      *)

Create(c) ==
    /\ runtime[c] = "creating" /\ creator[c] = "ready"
    /\ Set(c, "created")
    /\ UNCHANGED <<cacheVars, faults, child, init, limited, joined>> /\ EndsUnchanged /\ Written

OpenPipes(c) ==
    /\ runtime[c] = "created"
    /\ Set(c, "opened")
    /\ readyEnds' = [readyEnds EXCEPT ![c] = {Parent}]
    /\ startedEnds' = [startedEnds EXCEPT ![c] = {Parent}]
    /\ UNCHANGED <<cacheVars, faults, child, init, limited, joined>> /\ Written

(* C has every pipe open that P has.                                        *)
Inherit(ends, p, q) == [d \in Container |-> IF p \in ends[d] THEN ends[d] \cup {q} ELSE ends[d]]

Fork(c) ==
    /\ runtime[c] = "opened"
    /\ Set(c, "forked")
    /\ SetChild(c, "joining")
    /\ readyEnds' = Inherit(readyEnds, Parent, C(c))
    /\ startedEnds' = Inherit(startedEnds, Parent, C(c))
    /\ UNCHANGED <<cacheVars, faults, init, limited, joined>> /\ Written

(* Mutant of CloseEnds: one end is left open.                               *)
CloseReadyEnd(c) ==
    /\ runtime[c] = "forked"
    /\ Set(c, "awaitReady")
    /\ readyEnds' = [readyEnds EXCEPT ![c] = @ \ {Parent}]
    /\ UNCHANGED <<cacheVars, faults, startedEnds, child, init, limited, joined>> /\ Written

CloseEnds(c) ==
    /\ runtime[c] = "forked"
    /\ Set(c, "awaitReady")
    /\ readyEnds' = [readyEnds EXCEPT ![c] = @ \ {Parent}]
    /\ startedEnds' = [startedEnds EXCEPT ![c] = @ \ {Parent}]
    /\ UNCHANGED <<cacheVars, faults, child, init, limited, joined>> /\ Written

(* "R", the first byte of an error, or the end of the pipe.                 *)
ReadReady(c) ==
    /\ runtime[c] = "awaitReady"
    /\ \/ ready[c] = "R" /\ Set(c, "mapping")
       \/ ready[c] = "E" /\ Set(c, "draining")
       \/ ready[c] = "none" /\ readyEnds[c] = {} /\ Set(c, "draining")
    /\ UNCHANGED <<cacheVars, faults, child, init, limited, joined>> /\ EndsUnchanged /\ Written

(* The rest of the error is read to the end of the pipe, C reaped.          *)
StartFails(c) ==
    /\ runtime[c] = "draining"
    /\ readyEnds[c] = {}
    /\ child[c] = "zombie"
    /\ SetChild(c, "reaped")
    /\ Set(c, "raised")
    /\ UNCHANGED <<cacheVars, faults, init, limited, joined>> /\ EndsUnchanged /\ Written

(* The maps are written and C told so; or that fails, and C is killed.      *)
WriteMaps(c) ==
    /\ runtime[c] = "mapping"
    /\ \/ /\ Set(c, "awaitStarted")
          /\ go' = go \cup {c}
          /\ NoFault /\ EndsUnchanged /\ UNCHANGED child
       \/ /\ Fault
          /\ Set(c, "raised")
          /\ SetChild(c, "reaped")
          /\ Closes({C(c)})
          /\ UNCHANGED go
    /\ UNCHANGED <<cacheVars, init, limited, joined, ready, started>>

(* G's report, or the end of the pipe without one.                          *)
ReadStarted(c) ==
    /\ runtime[c] = "awaitStarted"
    /\ \/ c \in started /\ Set(c, "running")
       \/ c \notin started /\ startedEnds[c] = {} /\ Set(c, "raised")
    /\ UNCHANGED <<cacheVars, faults, child, init, limited, joined>> /\ EndsUnchanged /\ Written

-----------------------------------------------------------------------------
(* C and G                                                                  *)

ChildExits(c) == SetChild(c, "zombie") /\ Closes({C(c)})

Join(c) ==
    /\ child[c] = "joining"
    /\ \/ /\ SetChild(c, "unsharing")
          /\ joined' = joined \cup ({c} \cap limited)
          /\ NoFault /\ EndsUnchanged
       \/ c \in limited /\ Fault /\ ChildExits(c) /\ UNCHANGED joined
    /\ UNCHANGED <<cacheVars, runtime, init, limited>> /\ Written

Unshare(c) ==
    /\ child[c] = "unsharing"
    /\ \/ /\ ready' = [ready EXCEPT ![c] = "R"]
          /\ readyEnds' = [readyEnds EXCEPT ![c] = @ \ {C(c)}]
          /\ SetChild(c, "awaitGo")
          /\ NoFault /\ UNCHANGED startedEnds
       \/ /\ ready' = [ready EXCEPT ![c] = "E"]
          /\ Fault /\ ChildExits(c)
    /\ UNCHANGED <<cacheVars, runtime, init, limited, joined, started, go>>

(* C forks G, and drops its end of the pipe G reports on; or it cannot.     *)
ForkInit(c) ==
    /\ child[c] = "awaitGo"
    /\ c \in go
    /\ \/ /\ SetChild(c, "unguarded")
          /\ SetInit(c, "setup")
          /\ readyEnds' = Inherit(readyEnds, C(c), G(c))
          /\ startedEnds' = [Inherit(startedEnds, C(c), G(c)) EXCEPT ![c] = @ \ {C(c)}]
          /\ NoFault
       \/ Fault /\ ChildExits(c) /\ UNCHANGED init
    /\ UNCHANGED <<cacheVars, runtime, limited, joined>> /\ Written

(* C installs its handlers, which relay signals to G.                       *)
Guard(c) ==
    /\ child[c] = "unguarded"
    /\ SetChild(c, "supervising")
    /\ UNCHANGED <<cacheVars, faults, runtime, init, limited, joined>> /\ EndsUnchanged /\ Written

(* G mounts the overlay and so on, reports and execs; or it fails.          *)
SetUp(c) ==
    /\ init[c] = "setup"
    /\ \/ /\ started' = started \cup {c}
          /\ startedEnds' = [startedEnds EXCEPT ![c] = @ \ {G(c)}]
          /\ SetInit(c, "up")
          /\ NoFault /\ UNCHANGED readyEnds
       \/ Fault /\ SetInit(c, "dead") /\ Closes({G(c)}) /\ UNCHANGED started
    /\ UNCHANGED <<cacheVars, runtime, child, limited, joined, ready, go>>

Exit(c) ==
    /\ init[c] = "up"
    /\ SetInit(c, "dead") /\ Closes({G(c)})
    /\ UNCHANGED <<cacheVars, faults, runtime, child, limited, joined>> /\ Written

ReapInit(c) ==
    /\ child[c] = "supervising" /\ init[c] = "dead"
    /\ ChildExits(c)
    /\ UNCHANGED <<cacheVars, faults, runtime, init, limited, joined>> /\ Written

-----------------------------------------------------------------------------
(* P: wait, kill, delete                                                    *)

(* wait returns, or kill finds C gone while it polls.                       *)
ReapChild(c) ==
    /\ runtime[c] \in {"running", "killing"}
    /\ child[c] = "zombie"
    /\ SetChild(c, "reaped")
    /\ Set(c, "stopped")
    /\ UNCHANGED <<cacheVars, faults, init, limited, joined>> /\ EndsUnchanged /\ Written

(* The signal goes to C: it is relayed, or ends C that has no handler yet.  *)
Kill(c) ==
    /\ runtime[c] = "running"
    /\ Set(c, "killing")
    /\ IF child[c] = "unguarded" THEN ChildExits(c) ELSE UNCHANGED child /\ EndsUnchanged
    /\ UNCHANGED <<cacheVars, faults, init, limited, joined>> /\ Written

(* Mutant of CgroupKill: the one process the runtime knows.                 *)
CgroupKillChild(c, state) ==
    SetChild(c, state) /\ UNCHANGED init /\ Closes({C(c)})

(* Every process of the cgroup ends; C, which has ended, is reaped or not.  *)
CgroupKill(c, state) ==
    IF c \in joined
    THEN /\ SetChild(c, state)
         /\ SetInit(c, IF init[c] = "none" THEN "none" ELSE "dead")
         /\ Closes({C(c), G(c)})
    ELSE SetChild(c, state) /\ UNCHANGED init /\ Closes({C(c)})

(* The grace period is over: the cgroup, then C are killed for good.        *)
KillHard(c) ==
    /\ runtime[c] = "killing"
    /\ ChildAlive(c)
    /\ CgroupKill(c, "reaped")
    /\ Set(c, "stopped")
    /\ UNCHANGED <<cacheVars, faults, limited, joined>> /\ Written

(* delete, of a container that has stopped, failed to start or was never    *)
(* started.                                                                 *)
Delete(c) ==
    /\ runtime[c] \in {"created", "stopped", "raised"}
    /\ IF c \in limited /\ child[c] # "none"
       THEN CgroupKill(c, IF ChildAlive(c) /\ c \in joined THEN "zombie" ELSE child[c])
       ELSE UNCHANGED <<child, init>> /\ EndsUnchanged
    /\ Set(c, "deleted")
    /\ UNCHANGED <<cacheVars, faults, limited, joined>> /\ Written

-----------------------------------------------------------------------------
Starting(c) == runtime[c] \in {"opened", "forked", "awaitReady", "draining", "mapping",
                               "awaitStarted"}

StartStep(c) == \/ OpenPipes(c) \/ Fork(c) \/ CloseEnds(c) \/ ReadReady(c) \/ StartFails(c)
                \/ WriteMaps(c) \/ ReadStarted(c)
ChildStep(c) == Join(c) \/ Unshare(c) \/ ForkInit(c) \/ Guard(c) \/ ReapInit(c)

Next ==
    \E c \in Container :
        \/ CacheStep(c) /\ UNCHANGED procVars
        \/ Create(c) \/ StartStep(c) \/ ChildStep(c) \/ SetUp(c) \/ Exit(c)
        \/ ReapChild(c) \/ Kill(c) \/ KillHard(c) \/ Delete(c)

Spec == Init /\ [][Next]_vars

(* Every process and helper runs, and a creation that failed is tried       *)
(* again; a lock is handed on fairly.  No workload need ever exit, nobody   *)
(* need kill or delete.                                                     *)
FairSpec ==
    /\ Spec
    /\ \A c \in Container :
         /\ WF_vars((Ensure(c) \/ Check(c)) /\ UNCHANGED procVars)
         /\ SF_vars(Helper(c) /\ UNCHANGED procVars)
         /\ WF_vars(Create(c)) /\ WF_vars(StartStep(c)) /\ WF_vars(ChildStep(c))
         /\ WF_vars(SetUp(c)) /\ WF_vars(KillHard(c) \/ (runtime[c] = "killing" /\ ReapChild(c)))

-----------------------------------------------------------------------------
(* Properties *)

(* Every variable has its type.                                             *)
TypeOK ==
    /\ CacheTypeOK
    /\ runtime \in [Container -> RuntimeStep]
    /\ child \in [Container -> ChildState]
    /\ init \in [Container -> InitState]
    /\ limited \subseteq Container /\ joined \subseteq limited
    /\ readyEnds \in [Container -> SUBSET Process]
    /\ startedEnds \in [Container -> SUBSET Process]
    /\ ready \in [Container -> {"none", "R", "E"}]
    /\ started \subseteq Container /\ go \subseteq Container

(* A layer with a marker is complete, and so is every layer a container     *)
(* that was created stands on, as long as it is there: no other creator     *)
(* deletes "what the others are using" (nshelper.py:46-51).                 *)
RunsOnWholeLayers ==
    /\ MarkedIsComplete
    /\ \A c \in Container : runtime[c] # "creating" =>
          \A l \in ToSet(LayersOf[c]) : disk[l] = "complete"

(* A container that has a cgroup leaves no process behind when it is        *)
(* deleted, wherever its start failed and whatever its processes did with   *)
(* the signal (container.py:463-466).                                       *)
DeleteIsFinal ==
    \A c \in limited : runtime[c] = "deleted" => ~ ChildAlive(c) /\ ~ InitAlive(c)

(* Creating and starting a container come to an end, unless another         *)
(* container that was forked meanwhile holds one of its pipes open: then an *)
(* end of file that start waits for does not come (container.py:244-247,    *)
(* 521).                                                                    *)
HeldByAnother(c) ==
    \E p \in readyEnds[c] \cup startedEnds[c] : p \notin {Parent, C(c), G(c)}
StartEnds ==
    \A c \in Container : <>[](runtime[c] = "creating" \/ Starting(c)) => <>[]HeldByAnother(c)
=============================================================================
