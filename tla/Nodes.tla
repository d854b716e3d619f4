------------------------------- MODULE Nodes -------------------------------
(***************************************************************************)
(* Pods on nodes: the Scheduler binds them, a NodeAgent per node runs them  *)
(* and reports what it sees, and the NodeMonitor deletes the pods of nodes  *)
(* whose heartbeat has stopped.  A ReplicaSet replaces pods that are gone   *)
(* (Rollout is about it).                                                   *)
(*                                                                          *)
(* Each controller has one worker thread, which reads the store, acts, and  *)
(* writes the store in separate steps; update_with_retry makes a write      *)
(* atomic.  Every key comes up again and again (events, polling, resync and *)
(* the probe loop), so a reconcile may start at any time.  The clock is     *)
(* left out: a heartbeat is fresh or has timed out, a backoff or a          *)
(* readiness delay is over or not.  Scores only choose among feasible nodes *)
(* and are left out as well.                                                *)
(***************************************************************************)
EXTENDS Integers, FiniteSets, FiniteSetsExt

CONSTANTS
    Pod,          \* pod names: a new pod may take the name of one that is gone
    Node, None,
    Demand,       \* what a pod asks for
    Capacity,     \* what a node has
    Replicas,     \* the pods the ReplicaSet keeps
    MaxFaults     \* bound: lost nodes, late heartbeats, exits, deletions,
                  \* starts that fail; stops fail at will

ASSUME DemandAssumption == Demand \in [Pod -> Nat] /\ Capacity \in [Node -> Nat]
ASSUME PodAssumption == IsFiniteSet(Pod) /\ None \notin Node \cup Pod
ASSUME BoundAssumption == Replicas \in 0..Cardinality(Pod) /\ MaxFaults \in Nat

VARIABLES
    pod,              \* the Pods in the store: nodeName and phase
    node,             \* the Nodes in the store: registered, ready, timed out
    up,               \* the nodes whose agent runs
    handles,          \* per agent: the pods it has a handle for
    process,          \* per node: the state of the processes of pods
    lost,             \* the processes that nobody will ever stop
    spc, bind,        \* the scheduler's worker: the pod and the node chosen
    apc, doing,       \* per agent, its worker: a pod, and what it does for it
    mpc, mdo, victims,\* the monitor's worker: its node, what next, and the pods
    faults

scheduler == <<spc, bind>>
agent     == <<handles, process, lost, apc, doing>>
monitor   == <<mpc, mdo, victims>>
vars == <<pod, node, up, agent, scheduler, monitor, faults>>

Gone    == [node |-> None, phase |-> "Gone"]
Phase   == {"Pending", "Scheduled", "Running", "Ready", "CrashLoopBackOff", "Gone"}
Exists  == {p \in Pod : pod[p].phase # "Gone"}
BoundTo(n) == {p \in Exists : pod[p].node = n}
Registered == {n \in Node : node[n].registered}

(* What runs on a node: nothing, a process, one that is ready, or one that  *)
(* has exited and that nobody has stopped.                                  *)
ProcessState == {"none", "started", "ready", "exited"}

Init ==
    /\ pod = [p \in Pod |-> Gone]
    /\ node = [n \in Node |-> [registered |-> TRUE, ready |-> TRUE, late |-> FALSE]]
    /\ up = Node
    /\ handles = [n \in Node |-> {}]
    /\ process = [n \in Node |-> [p \in Pod |-> "none"]]
    /\ lost = {}
    /\ spc = None /\ bind = None
    /\ apc = [n \in Node |-> None] /\ doing = [n \in Node |-> "idle"]
    /\ mpc = None /\ mdo = "list" /\ victims = {}
    /\ faults = 0

-----------------------------------------------------------------------------
(* The ReplicaSet creates a pod.  Its name ends in the microsecond of the   *)
(* second: one that no other pod has now, but an earlier pod may have had.  *)
(* A create that fails changes nothing, and the ReplicaSet comes back.      *)
CreatePod ==
    /\ Cardinality(Exists) < Replicas
    /\ \E p \in Pod \ Exists : pod' = [pod EXCEPT ![p] = [node |-> None, phase |-> "Pending"]]
    /\ UNCHANGED <<node, up, agent, scheduler, monitor, faults>>

-----------------------------------------------------------------------------
(* Scheduler                                                                *)

(* Mutant of Allocated: only what runs already.                             *)
AllocatedRunning(n) ==
    SumFunctionOnSet(Demand, {p \in BoundTo(n) : pod[p].phase \in {"Running", "Ready"}})

(* What is committed on a node: by every pod assigned to it.                *)
Allocated(n) == SumFunctionOnSet(Demand, BoundTo(n))

Feasible(p, n) ==
    /\ node[n].registered
    /\ node[n].ready
    /\ Allocated(n) + Demand[p] <= Capacity[n]

(* evaluate.  A pod that fits nowhere is marked and looked at again.        *)
Evaluate(p) ==
    /\ spc = None
    /\ p \in BoundTo(None)
    /\ \E n \in Node : Feasible(p, n) /\ bind' = n
    /\ spc' = p
    /\ UNCHANGED <<pod, node, up, agent, monitor, faults>>

(* bind                                                                     *)
Bind ==
    /\ spc # None
    /\ pod' = IF spc \in BoundTo(None)
              THEN [pod EXCEPT ![spc] = [node |-> bind, phase |-> "Scheduled"]] ELSE pod
    /\ spc' = None /\ bind' = None
    /\ UNCHANGED <<node, up, agent, monitor, faults>>

-----------------------------------------------------------------------------
(* NodeAgent                                                                *)

Runtime(n, p, state) == process' = [process EXCEPT ![n][p] = state]
Drop(n, p) == handles' = [handles EXCEPT ![n] = @ \ {p}]

(* What the worker of an agent does next for a pod.                         *)
Task(n, p, what) ==
    /\ apc' = [apc EXCEPT ![n] = p]
    /\ doing' = [doing EXCEPT ![n] = what]

(* The reconcile ends, or fails and comes again.                            *)
Done(n) == Task(n, None, "idle")

Fault ==
    /\ faults < MaxFaults
    /\ faults' = faults + 1

Others == UNCHANGED <<pod, node, up, scheduler, monitor>>

Idle(n) == n \in up /\ apc[n] = None

(* Mutant of Reap: the handle goes, and nobody stops the process.           *)
ReapHandle(n, p) ==
    /\ Idle(n)
    /\ p \in handles[n] \ BoundTo(n)
    /\ Drop(n, p)
    /\ UNCHANGED <<process, lost, apc, doing, faults>> /\ Others

(* The pod is gone from the store, or is not for this node.  Its handle is  *)
(* taken away first, its process is stopped next.                           *)
Reap(n, p) ==
    /\ Idle(n)
    /\ p \in handles[n] \ BoundTo(n)
    /\ Drop(n, p)
    /\ Task(n, p, "stop")
    /\ UNCHANGED <<process, lost, faults>> /\ Others

Stopping == {"stop", "stopCrashed"}
Written  == {"Running", "Ready", "CrashLoopBackOff"}
Activity == {"idle", "start"} \cup Stopping \cup Written

(* runtime.stop, with the handle in no table any more.  When it raises, the *)
(* reconcile fails; the next one finds no handle, and the process is lost.  *)
StopPod(n) ==
    /\ doing[n] \in Stopping
    /\ Runtime(n, apc[n], "none")
    /\ \/ /\ IF doing[n] = "stopCrashed" THEN Task(n, apc[n], "CrashLoopBackOff") ELSE Done(n)
          /\ UNCHANGED lost
       \/ lost' = lost \cup {<<n, apc[n]>>} /\ Done(n)
    /\ UNCHANGED <<handles, faults>> /\ Others

(* The pod is for this node and is not run here: it is to be started, once  *)
(* its backoff is over.                                                     *)
FindMissing(n, p) ==
    /\ Idle(n)
    /\ p \in BoundTo(n) \ handles[n]
    /\ Task(n, p, "start")
    /\ UNCHANGED <<handles, process, lost, faults>> /\ Others

(* runtime.start, whatever has become of the pod.  It may report a failure, *)
(* which is recorded, or raise, which is not; and the agent may have been   *)
(* stopped meanwhile: then the handle is in a table nobody looks at.        *)
StartPod(n) ==
    /\ doing[n] = "start"
    /\ \/ /\ n \in up
          /\ handles' = [handles EXCEPT ![n] = @ \cup {apc[n]}]
          /\ Runtime(n, apc[n], "started")
          /\ Task(n, apc[n], "Running")
          /\ UNCHANGED <<lost, faults>>
       \/ /\ n \notin up
          /\ lost' = lost \cup {<<n, apc[n]>>}
          /\ Task(n, apc[n], "Running")
          /\ UNCHANGED <<handles, process, faults>>
       \/ /\ Fault
          /\ Task(n, apc[n], "CrashLoopBackOff") \/ Done(n)
          /\ UNCHANGED <<handles, process, lost>>
    /\ Others

(* The process has exited: it is stopped, and the crash recorded.           *)
NoticeExit(n, p) ==
    /\ Idle(n)
    /\ p \in BoundTo(n) \cap handles[n]
    /\ process[n][p] = "exited"
    /\ Drop(n, p)
    /\ Task(n, p, "stopCrashed")
    /\ UNCHANGED <<process, lost, faults>> /\ Others

NoticeReady(n, p) ==
    /\ Idle(n)
    /\ p \in BoundTo(n) \cap handles[n]
    /\ process[n][p] = "ready"
    /\ pod[p].phase # "Ready"
    /\ Task(n, p, "Ready")
    /\ UNCHANGED <<handles, process, lost, faults>> /\ Others

(* Mutant of WritePhase: a pod that is gone is written again.               *)
WritePhaseAnyway(n) ==
    /\ doing[n] \in Written
    /\ pod' = [pod EXCEPT ![apc[n]] = [node |-> n, phase |-> doing[n]]]
    /\ Done(n)
    /\ UNCHANGED <<node, up, handles, process, lost, scheduler, monitor, faults>>

(* _write_phase and _crashed: nothing when the pod is gone meanwhile.       *)
WritePhase(n) ==
    /\ doing[n] \in Written
    /\ pod' = IF apc[n] \in Exists THEN [pod EXCEPT ![apc[n]].phase = doing[n]] ELSE pod
    /\ Done(n)
    /\ UNCHANGED <<node, up, handles, process, lost, scheduler, monitor, faults>>

Heartbeat(n) ==
    /\ n \in up
    /\ node[n].registered
    /\ node' = [node EXCEPT ![n].ready = TRUE, ![n].late = FALSE]
    /\ UNCHANGED <<pod, up, agent, scheduler, monitor, faults>>

-----------------------------------------------------------------------------
(* NodeMonitor                                                              *)

(* Mutant of FindSilent: a node that is marked already is left alone.       *)
FindSilentOnce(n) ==
    /\ mpc = None
    /\ node[n].registered /\ node[n].late /\ node[n].ready
    /\ mpc' = n
    /\ mdo' = "mark"
    /\ UNCHANGED <<pod, node, up, agent, scheduler, victims, faults>>

(* Reads the node: its heartbeat is too old.                                *)
FindSilent(n) ==
    /\ mpc = None
    /\ node[n].registered /\ node[n].late
    /\ mpc' = n
    /\ mdo' = IF node[n].ready THEN "mark" ELSE "list"
    /\ UNCHANGED <<pod, node, up, agent, scheduler, victims, faults>>

(* Marks it, even if it has sent a heartbeat since; when it has gone there  *)
(* is nothing to mark, and its pods are listed all the same.                *)
MarkDown ==
    /\ mpc # None /\ mdo = "mark"
    /\ mdo' = "list"
    /\ node' = IF node[mpc].registered THEN [node EXCEPT ![mpc].ready = FALSE] ELSE node
    /\ UNCHANGED <<pod, up, agent, scheduler, mpc, victims, faults>>

ListVictims ==
    /\ mpc # None /\ mdo = "list"
    /\ victims' = BoundTo(mpc)
    /\ mdo' = "evict"
    /\ UNCHANGED <<pod, node, up, agent, scheduler, mpc, faults>>

(* Deletes the pods it listed, whatever has become of the node.             *)
Evict ==
    /\ mpc # None /\ mdo = "evict"
    /\ IF victims = {}
       THEN mpc' = None /\ mdo' = "list" /\ UNCHANGED <<pod, victims>>
       ELSE \E p \in victims :
                /\ pod' = [pod EXCEPT ![p] = Gone]
                /\ victims' = victims \ {p}
                /\ UNCHANGED <<mpc, mdo>>
    /\ UNCHANGED <<node, up, agent, scheduler, faults>>

-----------------------------------------------------------------------------
(* The world                                                                *)

(* remove_node: the agent stops, and with it the processes it has handles   *)
(* for, but those whose stop raises; the worker is waited for only so long  *)
(* and may still finish what it does.  The store is told nothing, or, when  *)
(* graceful, that the node is gone.                                         *)
StopAgent(n) ==
    /\ n \in up
    /\ up' = up \ {n}
    /\ \E failing \in SUBSET handles[n] : lost' = lost \cup ({n} \X failing)
    /\ handles' = [handles EXCEPT ![n] = {}]
    /\ process' = [process EXCEPT ![n] = [p \in Pod |-> IF p \in handles[n] THEN "none" ELSE @[p]]]
    /\ Fault
    /\ UNCHANGED <<pod, apc, doing, scheduler, monitor>>

LoseNode(n)   == StopAgent(n) /\ UNCHANGED node
RemoveNode(n) == StopAgent(n) /\ node' = [node EXCEPT ![n].registered = FALSE]

(* add_node, with a new agent; it is refused as long as the old Node object *)
(* is there.  Bound: not before the worker of the old agent has finished.   *)
AddNode(n) ==
    /\ ~ node[n].registered
    /\ apc[n] = None
    /\ node' = [node EXCEPT ![n] = [registered |-> TRUE, ready |-> TRUE, late |-> FALSE]]
    /\ up' = up \cup {n}
    /\ UNCHANGED <<pod, agent, scheduler, monitor, faults>>

(* The heartbeat of a node times out: always if its agent is down.          *)
TimeOut(n) ==
    /\ node[n].registered /\ ~ node[n].late
    /\ node' = [node EXCEPT ![n].late = TRUE]
    /\ IF n \in up THEN Fault ELSE UNCHANGED faults
    /\ UNCHANGED <<pod, up, agent, scheduler, monitor>>

BecomeReady(n, p) ==
    /\ process[n][p] = "started"
    /\ Runtime(n, p, "ready")
    /\ UNCHANGED <<pod, node, up, handles, lost, apc, doing, scheduler, monitor, faults>>

Exit(n, p) ==
    /\ process[n][p] \in {"started", "ready"}
    /\ Runtime(n, p, "exited")
    /\ Fault
    /\ UNCHANGED <<pod, node, up, handles, lost, apc, doing, scheduler, monitor>>

(* A user or a ReplicaSet that has too many deletes a pod.                  *)
DeletePod(p) ==
    /\ p \in Exists
    /\ pod' = [pod EXCEPT ![p] = Gone]
    /\ Fault
    /\ UNCHANGED <<node, up, agent, scheduler, monitor>>

-----------------------------------------------------------------------------
SchedulerWorker == (\E p \in Pod : Evaluate(p)) \/ Bind

AgentWorker(n) ==
    \/ \E p \in Pod : Reap(n, p) \/ FindMissing(n, p) \/ NoticeExit(n, p) \/ NoticeReady(n, p)
    \/ StartPod(n)
    \/ StopPod(n)
    \/ WritePhase(n)

MonitorWorker == (\E n \in Node : FindSilent(n)) \/ MarkDown \/ ListVictims \/ Evict

Next ==
    \/ CreatePod
    \/ SchedulerWorker
    \/ MonitorWorker
    \/ \E p \in Pod : DeletePod(p)
    \/ \E n \in Node : \/ AgentWorker(n) \/ Heartbeat(n) \/ TimeOut(n)
                       \/ LoseNode(n) \/ RemoveNode(n) \/ AddNode(n)
                       \/ \E p \in Pod : BecomeReady(n, p) \/ Exit(n, p)

Spec == Init /\ [][Next]_vars

(* The workers go on, and the monitor's takes every node in turn;           *)
(* heartbeats are sent, the clock runs and processes come up; faults happen *)
(* or not.                                                                  *)
FairSpec ==
    /\ Spec
    /\ WF_vars(CreatePod) /\ WF_vars(SchedulerWorker) /\ WF_vars(MonitorWorker)
    /\ \A n \in Node :
         /\ WF_vars(AgentWorker(n)) /\ SF_vars(FindSilent(n))
         /\ WF_vars(Heartbeat(n)) /\ WF_vars(n \notin up /\ TimeOut(n))
         /\ WF_vars(\E p \in Pod : BecomeReady(n, p))

-----------------------------------------------------------------------------
(* Properties *)

(* Every variable has its type.                                             *)
TypeOK ==
    /\ pod \in [Pod -> [node: Node \cup {None}, phase: Phase]]
    /\ node \in [Node -> [registered: BOOLEAN, ready: BOOLEAN, late: BOOLEAN]]
    /\ up \subseteq Node
    /\ handles \in [Node -> SUBSET Pod]
    /\ process \in [Node -> [Pod -> ProcessState]]
    /\ lost \subseteq Node \X Pod
    /\ spc \in Pod \cup {None} /\ bind \in Node \cup {None}
    /\ apc \in [Node -> Pod \cup {None}] /\ doing \in [Node -> Activity]
    /\ mpc \in Node \cup {None} /\ mdo \in {"mark", "list", "evict"} /\ victims \subseteq Pod
    /\ faults \in Nat

(* The pods assigned to a node never ask for more than it has, although the *)
(* scheduler binds a pod some time after it has looked (scheduler.py:42-48, *)
(* the second pod placed "into the same space during the startup window").  *)
NotOvercommitted == \A n \in Node : Allocated(n) <= Capacity[n]

(* A process is in the hands of an agent that runs, or of a worker that is  *)
(* just stopping it (node_agent.py:76-77, "the only place a running process *)
(* is reaped"): whatever is deleted, evicted or bound anew, and whichever   *)
(* agent is stopped or added, a process is lost only where runtime.stop     *)
(* raises or a start outlives its agent, which StopPod, StopAgent and       *)
(* StartPod say.                                                            *)
NoLostProcess ==
    \A n \in Node, p \in Pod :
        process[n][p] # "none" =>
            \/ n \in up /\ p \in handles[n]
            \/ apc[n] = p /\ doing[n] \in Stopping

(* A deleted pod stays deleted: no late status write or bind brings it      *)
(* back.  Its name is taken again by a new pod alone, which waits to be     *)
(* placed.                                                                  *)
NotRevived ==
    [][\A p \in Pod : p \notin Exists =>
          pod'[p] \in {Gone, [node |-> None, phase |-> "Pending"]}]_vars

(* When the faults are over, a node with room for all the replicas is left  *)
(* and no pod is bound to a node that was taken out of the store, then in   *)
(* the end all replicas are ready and really run, and the processes of pods *)
(* that were deleted or evicted are stopped, but those that are lost: "no   *)
(* special recovery path exists or is needed" (node_agent.py:199-205).      *)
Serving(p) == pod[p].phase = "Ready" /\ pod[p].node # None /\ process[pod[p].node][p] = "ready"
Recoverable ==
    /\ \E n \in up : Capacity[n] >= SumFunctionOnSet(Demand, Exists)
    /\ \A p \in Exists : pod[p].node \in Registered \cup {None}
Settled ==
    /\ Cardinality({p \in Exists : Serving(p)}) = Replicas
    /\ \A n \in Node, p \in Pod : process[n][p] # "none" => p \in BoundTo(n)
Recovers == <>[]Recoverable => <>[]Settled
=============================================================================
