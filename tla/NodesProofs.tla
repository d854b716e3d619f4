----------------------------- MODULE NodesProofs -----------------------------
(***************************************************************************)
(* Proofs about Nodes, for any pods, nodes, demands and number of faults:   *)
(* its type invariant, that processes are lost only where a stop fails or a *)
(* start outlives its agent, that a deleted pod stays deleted, and that no  *)
(* node is overcommitted.                                                   *)
(***************************************************************************)
EXTENDS Nodes, FiniteSetTheorems, WellFoundedInduction, TLAPS

(* A pod is deleted as a whole.                                             *)
NameInv == \A p \in Pod : p \notin Exists => pod[p] = Gone

(* A worker that is busy is busy with a pod.                                *)
AgentInv == \A n \in Node : doing[n] # "idle" => apc[n] \in Pod

(* The agent of n answers for the process of p: it has a handle for it and  *)
(* runs, or its worker is stopping it.                                      *)
Held(n, p) == \/ n \in up /\ p \in handles[n]
              \/ apc[n] = p /\ doing[n] \in Stopping

HandleInv == \A n \in Node, p \in Pod : process[n][p] # "none" => Held(n, p)

IInv == TypeOK /\ NameInv /\ AgentInv /\ HandleInv

(* The steps by which Next is split here.                                   *)
PodWriter == CreatePod \/ SchedulerWorker \/ MonitorWorker \/ \E p \in Pod : DeletePod(p)
NodeWriter(n) == \/ Heartbeat(n) \/ TimeOut(n) \/ LoseNode(n) \/ RemoveNode(n) \/ AddNode(n)
                 \/ \E p \in Pod : BecomeReady(n, p) \/ Exit(n, p)

-----------------------------------------------------------------------------
(* Types *)

(* The pods in the store have names of pods.                                *)
LEMMA ExistsArePods == Exists \subseteq Pod
BY DEF Exists

(* What the runtime does to one pod's process keeps the type of process.    *)
LEMMA RuntimeType ==
    ASSUME process \in [Node -> [Pod -> ProcessState]],
           NEW n \in Node, NEW p \in Pod, NEW s \in ProcessState, Runtime(n, p, s)
    PROVE  /\ process' \in [Node -> [Pod -> ProcessState]]
           /\ \A m \in Node, q \in Pod :
                 process'[m][q] = IF m = n /\ q = p THEN s ELSE process[m][q]
<1>1. process' = [process EXCEPT ![n] = [process[n] EXCEPT ![p] = s]]
  BY DEF Runtime
<1>2. [process[n] EXCEPT ![p] = s] \in [Pod -> ProcessState]
  OBVIOUS
<1> QED BY <1>1, <1>2

(* The controllers that write Pods keep the types.                          *)
LEMMA PodWriterTypes == ASSUME TypeOK, PodWriter PROVE TypeOK'
<1> USE PodAssumption DEF TypeOK, Phase, Gone, scheduler, agent, monitor
<1>1. CASE CreatePod
  BY <1>1 DEF CreatePod
<1>2. ASSUME NEW p \in Pod, Evaluate(p) PROVE TypeOK'
  BY <1>2 DEF Evaluate
<1>3. CASE Bind
  BY <1>3 DEF Bind
<1>4. ASSUME NEW n \in Node, FindSilent(n) PROVE TypeOK'
  BY <1>4 DEF FindSilent
<1>5. CASE MarkDown
  <2>1. mpc \in Node
    BY <1>5 DEF MarkDown
  <2>2. node' \in [Node -> [registered: BOOLEAN, ready: BOOLEAN, late: BOOLEAN]]
    <3>1. node' = node \/ node' = [node EXCEPT ![mpc].ready = FALSE]
      BY <1>5 DEF MarkDown
    <3>2. CASE node' = node
      BY <3>2
    <3>3. CASE node' = [node EXCEPT ![mpc].ready = FALSE]
      BY ZenonT(40), <2>1, <3>3
    <3> QED BY <3>1, <3>2, <3>3
  <2> QED BY <1>5, <2>1, <2>2 DEF MarkDown
<1>6. CASE ListVictims
  BY <1>6, ExistsArePods DEF ListVictims, BoundTo
<1>7. CASE Evict
  <2>1. pod' \in [Pod -> [node: Node \cup {None}, phase: Phase]]
    <3>1. pod' = pod \/ \E p \in victims : pod' = [pod EXCEPT ![p] = Gone]
      BY <1>7 DEF Evict
    <3> QED BY <3>1
  <2>2. mpc' \in Node \cup {None} /\ mdo' \in {"mark", "list", "evict"} /\ victims' \subseteq Pod
    BY <1>7 DEF Evict
  <2> QED BY <1>7, <2>1, <2>2 DEF Evict
<1>8. ASSUME NEW p \in Pod, DeletePod(p) PROVE TypeOK'
  BY <1>8 DEF DeletePod, Fault
<1> QED BY <1>1, <1>2, <1>3, <1>4, <1>5, <1>6, <1>7, <1>8
        DEF PodWriter, SchedulerWorker, MonitorWorker

(* The worker of an agent keeps the types (node_agent.py:72-119).           *)
LEMMA AgentTypes == ASSUME IInv, NEW n \in Node, AgentWorker(n) PROVE TypeOK'
<1> USE DEF IInv, TypeOK, Phase, Activity, Stopping, Written, ProcessState, scheduler, agent,
        monitor, Others, Task, Done, Drop
<1>1. ASSUME NEW p \in Pod, Reap(n, p) PROVE TypeOK'
  BY <1>1 DEF Reap
<1>2. ASSUME NEW p \in Pod, FindMissing(n, p) PROVE TypeOK'
  BY <1>2 DEF FindMissing
<1>3. ASSUME NEW p \in Pod, NoticeExit(n, p) PROVE TypeOK'
  BY <1>3 DEF NoticeExit
<1>4. ASSUME NEW p \in Pod, NoticeReady(n, p) PROVE TypeOK'
  BY <1>4 DEF NoticeReady
<1>5. CASE StartPod(n)
  <2>1. apc[n] \in Pod
    BY <1>5 DEF StartPod, AgentInv
  <2>2. faults' \in Nat /\ lost' \subseteq Node \X Pod
    BY <1>5, <2>1 DEF StartPod, Fault
  <2>3. handles' \in [Node -> SUBSET Pod] /\ process' \in [Node -> [Pod -> ProcessState]]
    <3>1. CASE handles' = [handles EXCEPT ![n] = @ \cup {apc[n]}] /\ Runtime(n, apc[n], "started")
      BY <2>1, <3>1, RuntimeType
    <3>2. CASE UNCHANGED <<handles, process>>
      BY <3>2
    <3> QED BY <1>5, <3>1, <3>2 DEF StartPod
  <2>4. apc' \in [Node -> Pod \cup {None}] /\ doing' \in [Node -> Activity]
    BY <1>5, <2>1 DEF StartPod
  <2> QED BY <1>5, <2>2, <2>3, <2>4 DEF StartPod
<1>6. CASE WritePhase(n)
  BY ZenonT(40), <1>6 DEF WritePhase
<1>7. CASE StopPod(n)
  <2>1. apc[n] \in Pod
    BY <1>7 DEF StopPod, AgentInv
  <2>2. process' \in [Node -> [Pod -> ProcessState]]
    BY <1>7, <2>1, RuntimeType DEF StopPod
  <2>3. lost' \subseteq Node \X Pod
    BY <1>7, <2>1 DEF StopPod
  <2>4. apc' \in [Node -> Pod \cup {None}] /\ doing' \in [Node -> Activity]
    BY <1>7, <2>1 DEF StopPod
  <2> QED BY <1>7, <2>2, <2>3, <2>4 DEF StopPod
<1> QED BY <1>1, <1>2, <1>3, <1>4, <1>5, <1>6, <1>7 DEF AgentWorker

(* The steps that write Nodes keep the types.                               *)
LEMMA NodeWriterTypes == ASSUME TypeOK, NEW n \in Node, NodeWriter(n) PROVE TypeOK'
<1> USE DEF TypeOK, ProcessState, scheduler, agent, monitor, Fault, StopAgent
<1>1. CASE Heartbeat(n)
  BY <1>1 DEF Heartbeat
<1>2. CASE TimeOut(n)
  <2>1. node' \in [Node -> [registered: BOOLEAN, ready: BOOLEAN, late: BOOLEAN]]
    BY <1>2 DEF TimeOut
  <2>2. faults' \in Nat
    BY <1>2 DEF TimeOut
  <2> QED BY <1>2, <2>1, <2>2 DEF TimeOut
<1>3. StopAgent(n) => /\ handles' \in [Node -> SUBSET Pod]
                      /\ process' \in [Node -> [Pod -> ProcessState]]
                      /\ lost' \subseteq Node \X Pod /\ up' \subseteq Node /\ faults' \in Nat
  <2> SUFFICES ASSUME StopAgent(n)
               PROVE  /\ handles' \in [Node -> SUBSET Pod]
                      /\ process' \in [Node -> [Pod -> ProcessState]]
                      /\ lost' \subseteq Node \X Pod /\ up' \subseteq Node /\ faults' \in Nat
    OBVIOUS
  <2>1. process' \in [Node -> [Pod -> ProcessState]]
    <3>1. \A p \in Pod : process[n][p] \in ProcessState
      OBVIOUS
    <3>2. [p \in Pod |-> IF p \in handles[n] THEN "none" ELSE process[n][p]] \in [Pod -> ProcessState]
      BY <3>1
    <3> QED BY <3>2
  <2> QED BY <2>1
<1>4. CASE LoseNode(n) \/ RemoveNode(n)
  <2>1. node' \in [Node -> [registered: BOOLEAN, ready: BOOLEAN, late: BOOLEAN]]
    <3>1. node' = node \/ node' = [node EXCEPT ![n].registered = FALSE]
      BY <1>4 DEF LoseNode, RemoveNode
    <3>2. CASE node' = node
      BY <3>2
    <3>3. CASE node' = [node EXCEPT ![n].registered = FALSE]
      BY <3>3
    <3> QED BY <3>1, <3>2, <3>3
  <2> QED BY <1>3, <1>4, <2>1 DEF LoseNode, RemoveNode
<1>5. CASE AddNode(n)
  BY <1>5 DEF AddNode
<1>6. ASSUME NEW p \in Pod, BecomeReady(n, p) \/ Exit(n, p) PROVE TypeOK'
  <2>1. process' \in [Node -> [Pod -> ProcessState]]
    BY <1>6, RuntimeType DEF BecomeReady, Exit
  <2>2. faults' \in Nat
    BY <1>6 DEF BecomeReady, Exit
  <2> QED BY <1>6, <2>1, <2>2 DEF BecomeReady, Exit
<1> QED BY <1>1, <1>2, <1>4, <1>5, <1>6 DEF NodeWriter

-----------------------------------------------------------------------------
(* Names                                                                    *)

(* What the writers of the store may do to a pod: create it under a name    *)
(* that nobody has, bind it, write its phase, or delete it.                 *)
LEMMA PodChanges ==
    ASSUME IInv, [Next]_vars, NEW p \in Pod
    PROVE  /\ p \notin Exists' => pod'[p] = Gone
           /\ p \notin Exists => pod'[p] \in {Gone, [node |-> None, phase |-> "Pending"]}
<1> USE PodAssumption DEF IInv, TypeOK, NameInv, Exists, Phase, Gone, scheduler, agent, monitor
<1>1. CASE PodWriter
  <2>1. CASE CreatePod
    BY <1>1, <2>1 DEF CreatePod
  <2>2. CASE SchedulerWorker
    <3>1. UNCHANGED pod \/ /\ pod[spc].phase # "Gone"
                           /\ pod' = [pod EXCEPT ![spc] = [node |-> bind, phase |-> "Scheduled"]]
      <4>1. CASE Bind
        BY <4>1 DEF Bind, BoundTo
      <4>2. CASE UNCHANGED pod
        BY <4>2
      <4> QED BY <2>2, <4>1, <4>2 DEF SchedulerWorker, Evaluate
    <3>2. CASE pod'[p] = pod[p]
      BY <3>2
    <3>3. CASE pod[p].phase # "Gone" /\ pod'[p].phase = "Scheduled"
      BY <3>3
    <3> QED BY <3>1, <3>2, <3>3
  <2>3. CASE MonitorWorker
    BY <2>3 DEF MonitorWorker, FindSilent, MarkDown, ListVictims, Evict
  <2>4. CASE \E q \in Pod : DeletePod(q)
    BY <2>4 DEF DeletePod
  <2> QED BY <1>1, <2>1, <2>2, <2>3, <2>4 DEF PodWriter
<1>2. ASSUME NEW n \in Node, AgentWorker(n) \/ NodeWriter(n)
      PROVE  UNCHANGED pod \/ WritePhase(n)
  BY <1>2 DEF AgentWorker, Reap, FindMissing, NoticeExit, NoticeReady, StartPod, StopPod,
         NodeWriter, Heartbeat, TimeOut, LoseNode, RemoveNode, StopAgent, AddNode, BecomeReady,
         Exit, Others
<1>3. CASE UNCHANGED pod
  BY <1>3
<1>4. ASSUME NEW n \in Node, WritePhase(n), ~ UNCHANGED pod
      PROVE  /\ p \notin Exists' => pod'[p] = Gone
             /\ p \notin Exists => pod'[p] \in {Gone, [node |-> None, phase |-> "Pending"]}
  <2>1. PICK q \in Exists, s \in Written : pod' = [pod EXCEPT ![q].phase = s]
    BY <1>4 DEF WritePhase
  <2> QED BY <2>1 DEF Written
<1>5. UNCHANGED vars => UNCHANGED pod
  BY DEF vars
<1> QED BY <1>1, <1>2, <1>3, <1>4, <1>5 DEF Next, PodWriter, NodeWriter

(* A pod that is gone is gone as a whole.                                   *)
LEMMA NamesKept == ASSUME IInv, [Next]_vars PROVE NameInv'
BY PodChanges DEF NameInv, Exists

-----------------------------------------------------------------------------
(* The agents                                                               *)

(* What a step may do to the agent of node n: whatever it starts to do, it  *)
(* does for a pod, and each process it leaves is held.                      *)
AgentStep(n) ==
    /\ doing'[n] # "idle" => apc'[n] \in Pod
    /\ \A p \in Pod : process'[n][p] # "none" => Held(n, p)'

(* A step that leaves an agent alone is a step of that kind.                *)
LEMMA NothingDone ==
    ASSUME IInv, NEW n \in Node, handles'[n] = handles[n], process'[n] = process[n],
           n \in up => n \in up', apc'[n] = apc[n], doing'[n] = doing[n]
    PROVE  AgentStep(n)
BY DEF IInv, AgentInv, HandleInv, Held, AgentStep

(* A worker that takes up a task was not stopping anything, and keeps the   *)
(* handles.                                                                 *)
LEMMA TaskTaken ==
    ASSUME IInv, NEW n \in Node, handles'[n] = handles[n], process'[n] = process[n],
           n \in up => n \in up', doing[n] \notin Stopping \/ apc[n] = None,
           apc'[n] \in Pod \/ doing'[n] = "idle"
    PROVE  AgentStep(n)
BY PodAssumption DEF IInv, HandleInv, Held, AgentStep

(* What the worker of an agent does to its handles and processes            *)
(* (node_agent.py:72-119).                                                  *)
LEMMA WorkerDoes ==
    ASSUME IInv, NEW m \in Node, NEW n \in Node, AgentWorker(m)
    PROVE  AgentStep(n)
<1>1. /\ handles \in [Node -> SUBSET Pod] /\ process \in [Node -> [Pod -> ProcessState]]
      /\ DOMAIN apc = Node /\ DOMAIN doing = Node
  BY DEF IInv, TypeOK
<1>2. UNCHANGED up
  BY DEF AgentWorker, Reap, FindMissing, NoticeExit, NoticeReady, StartPod, StopPod, WritePhase,
         Others
<1>3. CASE n # m
  <2>1. handles'[n] = handles[n] /\ process'[n] = process[n] /\ apc'[n] = apc[n] /\ doing'[n] = doing[n]
    BY <1>1, <1>3 DEF AgentWorker, Reap, FindMissing, NoticeExit, NoticeReady, StartPod, StopPod,
                      WritePhase, Task, Done, Drop, Runtime
  <2> QED BY <1>2, <2>1, NothingDone
<1>4. ASSUME n = m, NEW p \in Pod, Reap(m, p) \/ NoticeExit(m, p) PROVE AgentStep(n)
  <2>1. /\ handles'[n] = handles[n] \ {p} /\ process'[n] = process[n]
        /\ apc'[n] = p /\ doing'[n] \in Stopping /\ apc[n] = None
    BY <1>1, <1>4 DEF Reap, NoticeExit, Drop, Task, Idle, Stopping
  <2>2. ASSUME NEW q \in Pod, process'[n][q] # "none" PROVE Held(n, q)'
    <3>1. n \in up /\ q \in handles[n]
      BY <2>1, <2>2, PodAssumption DEF IInv, HandleInv, Held
    <3> QED BY <1>2, <2>1, <3>1 DEF Held
  <2> QED BY <2>1, <2>2 DEF AgentStep
<1>5. ASSUME n = m, NEW p \in Pod, FindMissing(m, p) \/ NoticeReady(m, p) PROVE AgentStep(n)
  <2>1. handles'[n] = handles[n] /\ process'[n] = process[n] /\ apc'[n] = p /\ apc[n] = None
    BY <1>1, <1>5 DEF FindMissing, NoticeReady, Task, Idle
  <2> QED BY <1>2, <2>1, TaskTaken
<1>6. ASSUME n = m, StartPod(m) PROVE AgentStep(n)
  <2>1. apc[n] \in Pod /\ doing[n] = "start"
    BY <1>6 DEF StartPod, IInv, AgentInv
  <2>2. apc'[n] = apc[n] \/ doing'[n] = "idle"
    BY <1>1, <1>6 DEF StartPod, Task, Done
  <2>3. CASE UNCHANGED <<handles, process>>
    BY <1>2, <2>1, <2>2, <2>3, TaskTaken DEF Stopping
  <2>4. CASE /\ n \in up /\ Runtime(m, apc[m], "started")
             /\ handles' = [handles EXCEPT ![m] = @ \cup {apc[m]}]
    <3>1. \A q \in Pod : process'[n][q] # "none" => q = apc[n] \/ process[n][q] # "none"
      BY <1>6, <2>1, <2>4, RuntimeType DEF IInv, TypeOK, ProcessState
    <3>2. handles'[n] = handles[n] \cup {apc[n]}
      BY <1>1, <1>6, <2>4
    <3>3. \A q \in Pod : process[n][q] # "none" => q \in handles[n]
      BY <2>1 DEF IInv, HandleInv, Held, Stopping
    <3> QED BY <1>2, <2>1, <2>2, <2>4, <3>1, <3>2, <3>3 DEF AgentStep, Held
  <2> QED BY <1>6, <2>3, <2>4 DEF StartPod
<1>7. ASSUME n = m, WritePhase(m) PROVE AgentStep(n)
  <2>1. /\ handles'[n] = handles[n] /\ process'[n] = process[n] /\ doing'[n] = "idle"
        /\ doing[n] \notin Stopping
    BY <1>1, <1>7 DEF WritePhase, Task, Done, Written, Stopping
  <2> QED BY <1>2, <2>1, TaskTaken
<1>8. ASSUME n = m, StopPod(m) PROVE AgentStep(n)
  <2>1. apc[n] \in Pod /\ doing[n] \in Stopping
    BY <1>8 DEF StopPod, IInv, AgentInv, Stopping
  <2>2. \A q \in Pod : process'[n][q] # "none" => q # apc[n] /\ process[n][q] # "none"
    BY <1>8, <2>1, RuntimeType DEF StopPod, IInv, TypeOK, ProcessState
  <2>3. handles'[n] = handles[n]
    BY <1>8 DEF StopPod
  <2>4. apc'[n] = apc[n] \/ doing'[n] = "idle"
    BY <1>1, <1>8 DEF StopPod, Task, Done
  <2> QED BY <1>2, <2>1, <2>2, <2>3, <2>4 DEF AgentStep, Held, IInv, HandleInv
<1> QED BY <1>3, <1>4, <1>5, <1>6, <1>7, <1>8 DEF AgentWorker

(* What the rest of the system does to the handles and processes of a node. *)
LEMMA OthersDo ==
    ASSUME IInv, NEW m \in Node, NEW n \in Node, NodeWriter(m)
    PROVE  AgentStep(n)
<1>1. /\ handles \in [Node -> SUBSET Pod] /\ process \in [Node -> [Pod -> ProcessState]]
  BY DEF IInv, TypeOK
<1>2. CASE Heartbeat(m) \/ TimeOut(m) \/ AddNode(m)
  BY <1>2, NothingDone DEF Heartbeat, TimeOut, AddNode, agent
<1>3. CASE LoseNode(m) \/ RemoveNode(m)
  <2>1. apc'[n] = apc[n] /\ doing'[n] = doing[n]
    BY <1>3 DEF LoseNode, RemoveNode, StopAgent
  <2>2. CASE n # m
    <3>1. handles'[n] = handles[n] /\ process'[n] = process[n] /\ (n \in up => n \in up')
      BY <1>1, <1>3, <2>2 DEF LoseNode, RemoveNode, StopAgent
    <3> QED BY <2>1, <3>1, NothingDone
  <2>3. CASE n = m
    <3>1. process'[n] = [p \in Pod |-> IF p \in handles[n] THEN "none" ELSE process[n][p]]
      BY <1>1, <1>3, <2>3 DEF LoseNode, RemoveNode, StopAgent
    <3> QED BY <2>1, <3>1 DEF AgentStep, Held, IInv, AgentInv, HandleInv
  <2> QED BY <2>2, <2>3
<1>4. ASSUME NEW p \in Pod, BecomeReady(m, p) \/ Exit(m, p) PROVE AgentStep(n)
  <2>1. \A q \in Pod : process'[n][q] # "none" => process[n][q] # "none"
    BY <1>1, <1>4, RuntimeType DEF BecomeReady, Exit, ProcessState
  <2>2. UNCHANGED <<up, handles, apc, doing>>
    BY <1>4 DEF BecomeReady, Exit
  <2> QED BY <2>1, <2>2 DEF AgentStep, Held, IInv, AgentInv, HandleInv
<1> QED BY <1>2, <1>3, <1>4 DEF NodeWriter

(* Every step leaves each process in the hands of its agent, and each       *)
(* worker with the pod it works for.                                        *)
LEMMA AgentKept == ASSUME IInv, [Next]_vars PROVE AgentInv' /\ HandleInv'
<1>1. ASSUME NEW n \in Node PROVE AgentStep(n)
  <2>1. CASE UNCHANGED vars
    BY <2>1, NothingDone DEF vars, agent
  <2>2. CASE PodWriter
    BY <2>2, NothingDone DEF PodWriter, CreatePod, SchedulerWorker, Evaluate, Bind, MonitorWorker,
           FindSilent, MarkDown, ListVictims, Evict, DeletePod, agent
  <2> QED BY <2>1, <2>2, WorkerDoes, OthersDo DEF Next, PodWriter, NodeWriter
<1> QED BY <1>1 DEF AgentInv, HandleInv, AgentStep

-----------------------------------------------------------------------------
(* Sums *)

(* Every unit of every value: a sum of naturals counts them.                *)
Units(f, S) == UNION {{x} \X (1..f[x]) : x \in S}

(* A set of naturals has a least element, unless it is empty.               *)
LEMMA LeastExists ==
  ASSUME NEW D \in SUBSET Nat, D # {}
  PROVE  \E x \in D : \A y \in D : x <= y
<1> DEFINE R == {ss \in Nat \X Nat : ss[1] < ss[2]}
<1>1. IsWellFoundedOn(R, Nat)
  BY NatLessThanWellFounded DEF OpToRel
<1>2. \A x, y \in Nat : y < x => <<y, x>> \in R
  OBVIOUS
<1> HIDE DEF R
<1>3. PICK x \in D : \A y \in D : <<y, x>> \notin R
  BY <1>1, WFMin
<1>4. \A y \in D : ~(y < x)
  BY <1>2, <1>3
<1> QED BY <1>4

(* One value has as many units as it is large.                              *)
LEMMA UnitsOfOne ==
  ASSUME NEW x, NEW k \in Nat
  PROVE  IsFiniteSet({x} \X (1..k)) /\ Cardinality({x} \X (1..k)) = k
<1>1. IsFiniteSet({x}) /\ Cardinality({x}) = 1
  BY FS_Singleton
<1>2. IsFiniteSet(1..k) /\ Cardinality(1..k) = k
  BY FS_Interval
<1>3. Cardinality({x} \X (1..k)) = 1 * k /\ IsFiniteSet({x} \X (1..k))
  <2> DEFINE A == {x}
             B == 1..k
  <2>1. IsFiniteSet(A) /\ Cardinality(A) = 1 /\ IsFiniteSet(B) /\ Cardinality(B) = k
    BY <1>1, <1>2
  <2> HIDE DEF A, B
  <2>2. Cardinality(A \X B) = 1 * k /\ IsFiniteSet(A \X B)
    BY <2>1, FS_Product
  <2> QED BY <2>2 DEF A, B
<1> QED BY <1>3

(* The units of finitely many values are finitely many.                     *)
LEMMA UnitsFinite ==
  ASSUME NEW D, NEW f \in [D -> Nat], NEW S \in SUBSET D, IsFiniteSet(S)
  PROVE  IsFiniteSet(Units(f, S)) /\ Cardinality(Units(f, S)) \in Nat
<1> DEFINE g == [x \in S |-> {x} \X (1..f[x])]
           T == {{x} \X (1..f[x]) : x \in S}
<1>1. g \in Surjection(S, T)
  BY DEF Surjection
<1>2. IsFiniteSet(T)
  BY <1>1, FS_Surjection
<1>3. \A x \in S : IsFiniteSet({x} \X (1..f[x]))
  BY UnitsOfOne
<1>4. IsFiniteSet(UNION T)
  <2> \A t \in T : IsFiniteSet(t)
    BY <1>3
  <2> HIDE DEF T
  <2> QED BY <1>2, FS_UNION
<1> QED BY <1>4, FS_CardinalityType DEF Units

(* The units of one value apart.                                            *)
LEMMA UnitsAdd ==
  ASSUME NEW D, NEW f \in [D -> Nat], NEW S \in SUBSET D, IsFiniteSet(S), NEW x \in S
  PROVE  Cardinality(Units(f, S)) = f[x] + Cardinality(Units(f, S \ {x}))
<1>1. Units(f, S) = ({x} \X (1..f[x])) \cup Units(f, S \ {x})
  BY DEF Units
<1>2. ({x} \X (1..f[x])) \cap Units(f, S \ {x}) = {}
  BY DEF Units
<1>3. IsFiniteSet(S \ {x}) /\ S \ {x} \in SUBSET D
  BY FS_RemoveElement
<1>4. IsFiniteSet(Units(f, S \ {x})) /\ Cardinality(Units(f, S \ {x})) \in Nat
  BY <1>3, UnitsFinite
<1>5. f[x] \in Nat
  OBVIOUS
<1>6. IsFiniteSet({x} \X (1..f[x])) /\ Cardinality({x} \X (1..f[x])) = f[x]
  BY <1>5, UnitsOfOne
<1> DEFINE A == {x} \X (1..f[x])
           B == Units(f, S \ {x})
<1>7. Units(f, S) = A \cup B /\ Cardinality(A \cap B) = 0
  BY <1>1, <1>2, FS_EmptySet
<1>8. Cardinality(A \cup B) = Cardinality(A) + Cardinality(B) - Cardinality(A \cap B)
  <2> HIDE DEF A, B
  <2>1. IsFiniteSet(A) /\ IsFiniteSet(B)
    BY <1>4, <1>6 DEF A, B
  <2> QED BY <2>1, FS_Union
<1> QED BY <1>4, <1>5, <1>6, <1>7, <1>8

(* A sum of naturals is the number of their units. (The sum takes the       *)
(* values one by one in an order of its own: by induction on how many there *)
(* are.)                                                                    *)
LEMMA SumIsUnits ==
  ASSUME NEW D, NEW f \in [D -> Nat], NEW S \in SUBSET D, IsFiniteSet(S)
  PROVE  SumFunctionOnSet(f, S) = Cardinality(Units(f, S))
<1> DEFINE pick(s) == CHOOSE x \in s : TRUE
           Rec(g) == [s \in SUBSET S |-> IF s = {} THEN 0 ELSE f[pick(s)] + g[s \ {pick(s)}]]
           h == [s \in SUBSET S |-> Cardinality(Units(f, s))]
<1>1. \A s \in SUBSET S : s # {} => pick(s) \in s /\ s \ {pick(s)} \in SUBSET S
  OBVIOUS
<1>2. \A s \in SUBSET S : IsFiniteSet(s) /\ Cardinality(s) \in Nat /\ s \in SUBSET D
  BY FS_Subset, FS_CardinalityType
<1> HIDE DEF pick
<1>3. \A s \in SUBSET S : s # {} => h[s] = f[pick(s)] + h[s \ {pick(s)}]
  BY <1>1, <1>2, UnitsAdd
<1>4. h[{}] = 0
  BY FS_EmptySet DEF Units
<1>5. h = Rec(h)
  BY <1>3, <1>4
<1>6. ASSUME NEW g, g = Rec(g) PROVE g[S] = h[S]
  <2> DEFINE Bad == {s \in SUBSET S : g[s] # h[s]}
             N   == {Cardinality(s) : s \in Bad}
  <2>1. SUFFICES ASSUME N # {} PROVE FALSE
    OBVIOUS
  <2>2. N \in SUBSET Nat
    BY <1>2
  <2>3. PICK s \in Bad : \A r \in Bad : Cardinality(s) <= Cardinality(r)
    <3> HIDE DEF Bad
    <3>1. PICK n \in N : \A m \in N : n <= m
      BY <2>1, <2>2, LeastExists
    <3> QED BY <3>1
  <2>4. s # {}
    BY <1>4, <1>6, <2>3
  <2>5. g[s] = f[pick(s)] + g[s \ {pick(s)}]
    BY <1>6, <2>4
  <2>6. s \ {pick(s)} \in Bad
    BY <1>1, <1>3, <2>4, <2>5
  <2>7. Cardinality(s \ {pick(s)}) = Cardinality(s) - 1
    BY <1>1, <1>2, <2>4, FS_RemoveElement
  <2>8. Cardinality(s) \in Nat
    BY <1>2
  <2>9. Cardinality(s) <= Cardinality(s \ {pick(s)})
    <3> HIDE DEF Bad
    <3> QED BY <2>3, <2>6
  <2> QED BY <2>7, <2>8, <2>9
<1>7. \A g : g = Rec(g) => g[S] = h[S]
  BY <1>6
<1>8. SumFunctionOnSet(f, S) = (CHOOSE g : g = Rec(g))[S]
  BY DEF SumFunctionOnSet, FoldFunctionOnSet, MapThenFoldSet, pick
<1>9. (CHOOSE g : g = Rec(g)) = Rec(CHOOSE g : g = Rec(g))
  <2> HIDE DEF Rec, h
  <2> QED BY <1>5
<1> QED
  <2>1. (CHOOSE g : g = Rec(g))[S] = h[S]
    <3> HIDE DEF Rec, h
    <3> QED BY <1>7, <1>9
  <2> QED BY <1>8, <2>1

(* A sum of naturals is a natural.                                          *)
LEMMA SumType ==
  ASSUME NEW D, NEW f \in [D -> Nat], NEW S \in SUBSET D, IsFiniteSet(S)
  PROVE  SumFunctionOnSet(f, S) \in Nat
BY SumIsUnits, UnitsFinite

(* The sum over no value is zero.                                           *)
LEMMA SumEmpty == ASSUME NEW D, NEW f \in [D -> Nat] PROVE SumFunctionOnSet(f, {}) = 0
<1>1. IsFiniteSet({}) /\ {} \in SUBSET D
  BY FS_EmptySet
<1>2. Units(f, {}) = {}
  BY DEF Units
<1> QED BY <1>1, <1>2, SumIsUnits, FS_EmptySet

(* One summand apart.                                                       *)
LEMMA SumRemove ==
  ASSUME NEW D, NEW f \in [D -> Nat], NEW S \in SUBSET D, IsFiniteSet(S), NEW x \in S
  PROVE  SumFunctionOnSet(f, S) = f[x] + SumFunctionOnSet(f, S \ {x})
<1>1. IsFiniteSet(S \ {x}) /\ S \ {x} \in SUBSET D
  BY FS_RemoveElement
<1> QED BY <1>1, SumIsUnits, UnitsAdd

(* No summand is negative: a part of a sum is no more than the whole, and a *)
(* sum of lesser summands is no more.                                       *)
LEMMA SumMonotone ==
  ASSUME NEW D, NEW f \in [D -> Nat], NEW S \in SUBSET D, IsFiniteSet(S),
         NEW E, NEW g \in [E -> Nat], NEW T \in SUBSET E, T \subseteq S,
         \A x \in T : g[x] <= f[x]
  PROVE  SumFunctionOnSet(g, T) <= SumFunctionOnSet(f, S)
<1>1. IsFiniteSet(T)
  BY FS_Subset
<1>2. Units(g, T) \subseteq Units(f, S)
  <2>1. \A x \in T : g[x] \in Nat /\ f[x] \in Nat
    OBVIOUS
  <2>2. \A x \in T : 1..g[x] \subseteq 1..f[x]
    BY <2>1
  <2> QED BY <2>2 DEF Units
<1>3. Cardinality(Units(g, T)) <= Cardinality(Units(f, S))
  BY <1>2, UnitsFinite, FS_Subset
<1> QED BY <1>1, <1>3, SumIsUnits

-----------------------------------------------------------------------------
(* Capacity                                                                 *)

(* What the scheduler has chosen a node for still fits there: nobody else   *)
(* binds a pod between its look at the node and its own bind.               *)
FitInv == spc # None => bind \in Node /\ Allocated(bind) + Demand[spc] <= Capacity[bind]

(* What is committed on a node is a natural, and no more when fewer pods    *)
(* are bound there.                                                         *)
LEMMA AllocatedType ==
    ASSUME NEW n
    PROVE  BoundTo(n) \in SUBSET Pod /\ IsFiniteSet(BoundTo(n)) /\ Allocated(n) \in Nat
<1>1. BoundTo(n) \in SUBSET Pod
  BY DEF BoundTo, Exists
<1>2. IsFiniteSet(BoundTo(n))
  BY <1>1, PodAssumption, FS_Subset
<1> QED BY <1>1, <1>2, DemandAssumption, SumType DEF Allocated

(* A node whose pods only become fewer has no more of its cpu asked for     *)
(* (scheduler.py:42-59).                                                    *)
LEMMA AllocatedShrinks ==
    ASSUME NEW n, BoundTo(n)' \subseteq BoundTo(n)
    PROVE  Allocated(n)' \in Nat /\ Allocated(n)' <= Allocated(n)
<1>1. BoundTo(n) \in SUBSET Pod /\ IsFiniteSet(BoundTo(n)) /\ Allocated(n) \in Nat
  BY AllocatedType
<1>2. BoundTo(n)' \in SUBSET Pod /\ IsFiniteSet(BoundTo(n)')
  BY <1>1, FS_Subset
<1> DEFINE S == BoundTo(n)
           T == BoundTo(n)'
<1>3. SumFunctionOnSet(Demand, T) <= SumFunctionOnSet(Demand, S) /\ SumFunctionOnSet(Demand, T) \in Nat
  <2>1. S \in SUBSET Pod /\ IsFiniteSet(S) /\ T \in SUBSET Pod /\ IsFiniteSet(T) /\ T \subseteq S
    BY <1>1, <1>2
  <2> HIDE DEF S, T
  <2>2. \A p \in T : Demand[p] <= Demand[p]
    BY <2>1, DemandAssumption
  <2> QED BY <2>1, <2>2, DemandAssumption, SumMonotone, SumType
<1> QED BY <1>3 DEF Allocated

(* A pod comes to a node by a bind alone (scheduler.py:116-139).            *)
LEMMA OnlyBindAdds ==
    ASSUME IInv, [Next]_vars, ~ Bind, NEW n \in Node
    PROVE  BoundTo(n)' \subseteq BoundTo(n)
<1> USE PodAssumption DEF IInv, TypeOK, NameInv, BoundTo, Exists, Phase, Gone
<1>1. CASE UNCHANGED pod
  BY <1>1
<1>2. CASE CreatePod
  BY <1>2 DEF CreatePod
<1>3. ASSUME NEW p \in Pod, pod' = [pod EXCEPT ![p] = Gone] PROVE BoundTo(n)' \subseteq BoundTo(n)
  <2>1. pod'[p].phase = "Gone" /\ \A q \in Pod \ {p} : pod'[q] = pod[q]
    BY <1>3
  <2> QED BY <2>1
<1>4. Evict \/ (\E p \in Pod : DeletePod(p)) =>
         UNCHANGED pod \/ \E p \in Pod : pod' = [pod EXCEPT ![p] = Gone]
  BY DEF Evict, DeletePod
<1>5. CASE \E m \in Node : WritePhase(m)
  BY <1>5 DEF WritePhase, Written
<1>6. Next => \/ UNCHANGED pod \/ CreatePod \/ Evict \/ \E p \in Pod : DeletePod(p)
              \/ \E m \in Node : WritePhase(m)
  BY DEF Next, SchedulerWorker, MonitorWorker, AgentWorker, Evaluate, FindSilent, MarkDown, ListVictims, Reap,
         FindMissing, NoticeExit, NoticeReady, StartPod, StopPod, Heartbeat, TimeOut, LoseNode, RemoveNode,
         StopAgent, AddNode, BecomeReady, Exit, Others
<1>7. UNCHANGED vars => UNCHANGED pod
  BY DEF vars
<1> QED BY <1>1, <1>2, <1>3, <1>4, <1>5, <1>6, <1>7

(* A bind adds the pod the scheduler has chosen to the node it has chosen,  *)
(* unless the pod has gone meanwhile.                                       *)
LEMMA BindAdds ==
    ASSUME IInv, Bind, bind \in Node, NEW n \in Node
    PROVE  \/ BoundTo(n)' \subseteq BoundTo(n)
           \/ n = bind /\ spc \in Pod /\ spc \notin BoundTo(n) /\ BoundTo(n)' = BoundTo(n) \cup {spc}
<1> USE PodAssumption DEF IInv, TypeOK, NameInv, BoundTo, Exists, Phase, Gone
<1>1. CASE spc \notin BoundTo(None)
  BY <1>1 DEF Bind
<1>2. CASE spc \in BoundTo(None)
  <2>1. /\ spc \in Pod /\ pod[spc].node = None /\ spc \notin BoundTo(n)
        /\ pod' = [pod EXCEPT ![spc] = [node |-> bind, phase |-> "Scheduled"]]
    BY <1>2 DEF Bind
  <2>2. pod'[spc].node = bind /\ pod'[spc].phase = "Scheduled" /\ \A p \in Pod \ {spc} : pod'[p] = pod[p]
    BY <2>1
  <2>3. CASE n = bind
    <3>1. BoundTo(n)' = BoundTo(n) \cup {spc}
      BY <2>1, <2>2, <2>3
    <3> QED BY <2>1, <2>3, <3>1
  <2>4. CASE n # bind
    BY <2>1, <2>2, <2>4
  <2> QED BY <2>3, <2>4
<1> QED BY <1>1, <1>2

(* Every step keeps what the scheduler has chosen within the capacity, and  *)
(* what is bound too.                                                       *)
LEMMA FitKept ==
    ASSUME IInv, FitInv, NotOvercommitted, [Next]_vars
    PROVE  FitInv' /\ NotOvercommitted'
<1>1. Demand \in [Pod -> Nat] /\ Capacity \in [Node -> Nat]
  BY DemandAssumption
<1>2. \A n \in Node : Allocated(n) \in Nat /\ Allocated(n) <= Capacity[n]
  BY AllocatedType DEF NotOvercommitted
<1>3. CASE Bind
  <2>1. spc # None /\ spc' = None /\ bind \in Node /\ Allocated(bind) + Demand[spc] <= Capacity[bind]
    BY <1>3 DEF Bind, FitInv
  <2>2. ASSUME NEW n \in Node PROVE Allocated(n)' <= Capacity[n]
    <3>1. CASE BoundTo(n)' \subseteq BoundTo(n)
      BY <1>1, <1>2, <3>1, AllocatedShrinks
    <3>2. CASE n = bind /\ spc \in Pod /\ spc \notin BoundTo(n) /\ BoundTo(n)' = BoundTo(n) \cup {spc}
      <4> DEFINE T == BoundTo(n)'
      <4>1. T \in SUBSET Pod /\ IsFiniteSet(T) /\ spc \in T /\ T \ {spc} = BoundTo(n)
        BY <3>2, AllocatedType, FS_AddElement
      <4>2. SumFunctionOnSet(Demand, T) = Demand[spc] + SumFunctionOnSet(Demand, T \ {spc})
        <5> HIDE DEF T
        <5> QED BY <1>1, <4>1, SumRemove
      <4>3. Allocated(n)' = Demand[spc] + Allocated(n)
        BY <4>1, <4>2 DEF Allocated
      <4> QED BY <1>1, <1>2, <2>1, <3>2, <4>3
    <3> QED BY <1>3, <2>1, <3>1, <3>2, BindAdds
  <2> QED BY <2>1, <2>2 DEF FitInv, NotOvercommitted
<1>4. CASE ~ Bind
  <2>1. \A n \in Node : Allocated(n)' \in Nat /\ Allocated(n)' <= Allocated(n)
    BY <1>4, OnlyBindAdds, AllocatedShrinks
  <2>2. NotOvercommitted'
    BY <1>1, <1>2, <2>1 DEF NotOvercommitted
  <2>3. CASE \E p \in Pod : Evaluate(p)
    <3>1. PICK p \in Pod, n \in Node : Feasible(p, n) /\ bind' = n /\ spc' = p
      BY <2>3 DEF Evaluate
    <3>2. Allocated(n)' + Demand[p] <= Capacity[n]
      BY <1>1, <1>2, <2>1, <3>1 DEF Feasible
    <3>3. Allocated(bind)' = Allocated(n)'
      BY <3>1 DEF Allocated, BoundTo, Exists
    <3> QED BY <2>2, <3>1, <3>2, <3>3 DEF FitInv
  <2>4. CASE UNCHANGED <<spc, bind>>
    <3>1. CASE spc = None
      BY <2>2, <2>4, <3>1 DEF FitInv
    <3>2. CASE spc # None
      <4>1. bind \in Node /\ Allocated(bind) + Demand[spc] <= Capacity[bind] /\ spc \in Pod
        BY <3>2 DEF FitInv, IInv, TypeOK
      <4>2. PICK n \in Node : n = bind
        BY <4>1
      <4>3. Allocated(n)' + Demand[spc] <= Capacity[n]
        BY <1>1, <1>2, <2>1, <4>1, <4>2
      <4>4. Allocated(bind)' = Allocated(n)'
        BY <2>4, <4>2 DEF Allocated, BoundTo, Exists
      <4> QED BY <2>2, <2>4, <4>1, <4>2, <4>3, <4>4 DEF FitInv
    <3> QED BY <3>1, <3>2
  <2>5. Next => (\E p \in Pod : Evaluate(p)) \/ UNCHANGED <<spc, bind>>
    BY <1>4 DEF Next, CreatePod, SchedulerWorker, MonitorWorker, AgentWorker, FindSilent, MarkDown, ListVictims,
           Evict, Reap, FindMissing, NoticeExit, NoticeReady, StartPod, StopPod, WritePhase, Heartbeat, TimeOut, LoseNode,
           RemoveNode, StopAgent, AddNode, BecomeReady, Exit, DeletePod, Others, scheduler
  <2>6. UNCHANGED vars => UNCHANGED <<spc, bind>>
    BY DEF vars, scheduler
  <2> QED BY <2>3, <2>4, <2>5, <2>6
<1> QED BY <1>3, <1>4

(* No pod is bound at first.                                                *)
LEMMA FitInitially == Init => FitInv /\ NotOvercommitted
<1> SUFFICES ASSUME Init PROVE FitInv /\ NotOvercommitted
  OBVIOUS
<1>1. spc = None /\ \A n \in Node : BoundTo(n) = {}
  BY DEF Init, BoundTo, Exists, Gone
<1>2. SumFunctionOnSet(Demand, {}) = 0
  BY DemandAssumption, SumEmpty
<1> QED BY <1>1, <1>2, DemandAssumption DEF FitInv, NotOvercommitted, Allocated

-----------------------------------------------------------------------------
(* The theorems                                                             *)

(* The invariant holds at the start (cluster.py:46-61).                     *)
LEMMA Initially == Init => IInv
BY PodAssumption, BoundAssumption
DEF Init, IInv, TypeOK, NameInv, AgentInv, HandleInv, Exists, Gone, Phase, ProcessState, Activity

(* Every step of the system keeps the invariant.                            *)
LEMMA NextKeeps == IInv /\ [Next]_vars => IInv'
<1> SUFFICES ASSUME IInv, [Next]_vars PROVE IInv'
  OBVIOUS
<1>1. TypeOK'
  <2>1. CASE UNCHANGED vars
    BY <2>1 DEF IInv, TypeOK, vars, agent, scheduler, monitor
  <2>2. CASE PodWriter
    BY <2>2, PodWriterTypes DEF IInv
  <2>3. CASE \E n \in Node : AgentWorker(n)
    BY <2>3, AgentTypes
  <2>4. CASE \E n \in Node : NodeWriter(n)
    BY <2>4, NodeWriterTypes DEF IInv
  <2> QED BY <2>1, <2>2, <2>3, <2>4 DEF Next, PodWriter, NodeWriter
<1> QED BY <1>1, NamesKept, AgentKept DEF IInv

(* The inductive invariant of pods, handles and processes holds always      *)
(* (cluster.py:80-103).                                                     *)
THEOREM Invariance == Spec => []IInv
BY Initially, NextKeeps, PTL DEF Spec

(* Every variable keeps its type.                                           *)
THEOREM TypeCorrect == Spec => []TypeOK
BY Invariance, PTL DEF IInv

(* Every process is in the hands of an agent that runs or of the worker     *)
(* that is stopping it, although the handle is taken away before the        *)
(* process is stopped and agents stop under their workers: a process can be *)
(* lost only where runtime.stop raises or a start outlives its agent        *)
(* (node_agent.py:58-119).                                                  *)
THEOREM ProcessesAreKept == Spec => []NoLostProcess
<1>1. IInv => NoLostProcess
  BY DEF IInv, HandleInv, Held, NoLostProcess
<1> QED BY <1>1, Invariance, PTL

(* A deleted pod stays deleted, whatever the scheduler and the agents read  *)
(* of it before; its name comes back with a new pod alone.                  *)
THEOREM DeletedForGood == Spec => NotRevived
<1>1. IInv /\ [Next]_vars =>
         [\A p \in Pod : p \notin Exists =>
             pod'[p] \in {Gone, [node |-> None, phase |-> "Pending"]}]_vars
  BY PodChanges
<1> QED BY <1>1, Invariance, PTL DEF Spec, NotRevived

(* The pods bound to a node never ask for more than it has, although a pod  *)
(* is bound some time after the scheduler has looked at the node, for any   *)
(* demands and capacities (scheduler.py:42-48).                             *)
THEOREM CapacityIsKept == Spec => []NotOvercommitted
<1>1. Init => IInv /\ FitInv /\ NotOvercommitted
  BY Initially, FitInitially
<1>2. IInv /\ FitInv /\ NotOvercommitted /\ [Next]_vars => (IInv /\ FitInv /\ NotOvercommitted)'
  BY NextKeeps, FitKept
<1> QED BY <1>1, <1>2, PTL DEF Spec
==============================================================================
