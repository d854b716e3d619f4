------------------------------ MODULE Rollout ------------------------------
(***************************************************************************)
(* Rolling a deployment over: the DeploymentController, which moves the     *)
(* replica counts of one ReplicaSet per template, the ReplicaSetController, *)
(* which creates and deletes pods to match, and the users who edit the      *)
(* deployment or roll it back.  Each controller has one worker thread; the  *)
(* pods become ready, crash and are evicted at any moment.                  *)
(*                                                                          *)
(* Reads and writes of the store are atomic, and the threads interleave     *)
(* between them.  Only the deployment's worker writes ReplicaSets and only  *)
(* the status write meets a competing writer, so a resourceVersion conflict *)
(* is a status computed for another generation.  Both controllers poll, so  *)
(* a reconcile may start at any time (WorkQueue is about what wakes it).    *)
(* A pod counts as available as soon as it is ready: minReadySeconds is 0,  *)
(* its default.  ReplicaSet statuses, which nobody reads, are left out.     *)
(***************************************************************************)
EXTENDS Integers, SequencesExt

CONSTANTS
    Template,        \* pod templates: each keys one ReplicaSet
    None,
    Size,            \* the values of spec.replicas
    Start,           \* the template and the size that are rolled out at first
    MaxSurge, MaxUnavailable,
    MaxPods,         \* bound: pods that exist at once
    MaxEdits,        \* bound: edits of the deployment
    MaxFaults        \* bound: crashes and evictions of pods

ASSUME TemplateAssumption == IsFiniteSet(Template) /\ None \notin Template
ASSUME SizeAssumption == Size \subseteq Nat /\ IsFiniteSet(Size)
ASSUME StartAssumption == Start \in [template: Template, desired: Size] /\ Start.desired <= MaxPods
ASSUME BoundAssumption == {MaxSurge, MaxUnavailable, MaxPods, MaxEdits, MaxFaults} \subseteq Nat

VARIABLES
    spec, generation, status,   \* the Deployment
    replicas, revision,         \* per template: its ReplicaSet's spec.replicas
                                \* and revision annotation, 0 when there is none
    pod,                        \* the pods: owner and readiness
    dpc, dep,                   \* the deployment worker and its locals
    rpc, rs,                    \* the ReplicaSet worker and its locals
    edits, faults,
    healthy                     \* the templates whose pods become ready: fixed

deployment == <<spec, generation, status>>
sets       == <<replicas, revision>>
deployer   == <<dpc, dep>>
replicator == <<rpc, rs>>
vars == <<deployment, sets, pod, deployer, replicator, edits, faults, healthy>>

Pod   == 1..MaxPods
NoPod == [owner |-> None, ready |-> FALSE]

(* The pods of a template's ReplicaSet: no pod reaches a terminal phase.    *)
Alive(t) == {p \in Pod : pod[p].owner = t}
Ready(t) == {p \in Alive(t) : pod[p].ready}

Known == {t \in Template : revision[t] > 0}
Older(t) == Known \ {t}

(* The locals of the workers between two reconciles.                        *)
NoPass == [spec |-> Start, generation |-> 0, enough |-> FALSE, scale |-> <<>>,
           complete |-> FALSE]
NoWork == [of |-> Start.template, want |-> 0, create |-> 0, doomed |-> {}]

Init ==
    /\ spec = Start
    /\ generation = 1
    /\ status = [observed |-> 1, complete |-> TRUE, template |-> Start.template]
    /\ replicas = [t \in Template |-> IF t = Start.template THEN Start.desired ELSE 0]
    /\ revision = [t \in Template |-> IF t = Start.template THEN 1 ELSE 0]
    /\ pod = [p \in Pod |-> IF p <= Start.desired
                            THEN [owner |-> Start.template, ready |-> TRUE] ELSE NoPod]
    /\ dpc = "idle" /\ dep = NoPass
    /\ rpc = "idle" /\ rs = NoWork
    /\ edits = 0 /\ faults = 0
    /\ healthy \in {H \in SUBSET Template : Start.template \in H}

-----------------------------------------------------------------------------
(* ReplicaSetController.reconcile                                           *)

GetReplicaSet(t) ==
    /\ rpc = "idle"
    /\ t \in Known
    /\ rpc' = "list"
    /\ rs' = [NoWork EXCEPT !.of = t, !.want = replicas[t]]
    /\ UNCHANGED <<deployment, sets, pod, deployer, edits, faults, healthy>>

(* The n least useful pods: one that is ready only if none is left that is  *)
(* not.  (Among equals the code goes by age, which is left open here.)      *)
Surplus(alive, ready, n) ==
    {S \in SUBSET alive : Cardinality(S) = n /\ (S \cap ready # {} => alive \ ready \subseteq S)}

ListPods ==
    /\ rpc = "list"
    /\ LET alive == Alive(rs.of)
           n     == Cardinality(alive)
       IN  \/ /\ n < rs.want
              /\ rs' = [rs EXCEPT !.create = rs.want - n]
              /\ rpc' = "create"
           \/ /\ n > rs.want
              /\ \E S \in Surplus(alive, Ready(rs.of), n - rs.want) :
                   rs' = [rs EXCEPT !.doomed = S]
              /\ rpc' = "delete"
           \/ /\ n = rs.want
              /\ rs' = NoWork
              /\ rpc' = "idle"
    /\ UNCHANGED <<deployment, sets, pod, deployer, edits, faults, healthy>>

(* A name that is taken, or any other error of the store, is swallowed: the *)
(* next pass counts again.                                                  *)
CreatePod ==
    /\ rpc = "create"
    /\ \/ /\ Alive(None) # {}
          /\ pod' = [pod EXCEPT ![Min(Alive(None))] = [owner |-> rs.of, ready |-> FALSE]]
          /\ UNCHANGED faults
       \/ /\ faults < MaxFaults
          /\ faults' = faults + 1
          /\ UNCHANGED pod
    /\ IF rs.create = 1 THEN rpc' = "idle" /\ rs' = NoWork
       ELSE rs' = [rs EXCEPT !.create = @ - 1] /\ UNCHANGED rpc
    /\ UNCHANGED <<deployment, sets, deployer, edits, healthy>>

DeletePod(p) ==
    /\ rpc = "delete"
    /\ p \in rs.doomed
    /\ pod' = [pod EXCEPT ![p] = NoPod]
    /\ IF rs.doomed = {p} THEN rpc' = "idle" /\ rs' = NoWork
       ELSE rs' = [rs EXCEPT !.doomed = @ \ {p}] /\ UNCHANGED rpc
    /\ UNCHANGED <<deployment, sets, deployer, edits, faults, healthy>>

-----------------------------------------------------------------------------
(* DeploymentController.reconcile                                           *)

Target == dep.spec.template

(* Reads the Deployment, then finds or creates the ReplicaSet of its        *)
(* template (_ensure_target).                                               *)
StartPass ==
    /\ dpc = "idle"
    /\ dpc' = "count"
    /\ dep' = [NoPass EXCEPT !.spec = spec, !.generation = generation]
    /\ revision' = IF spec.template \in Known THEN revision
                   ELSE [revision EXCEPT ![spec.template] =
                            Max({revision[t] : t \in Template}) + 1]
    /\ UNCHANGED <<deployment, replicas, pod, replicator, edits, faults, healthy>>

(* The first listing of the pods: is the target available already?          *)
CountPods ==
    /\ dpc = "count"
    /\ dpc' = "up"
    /\ dep' = [dep EXCEPT !.enough = Cardinality(Ready(Target)) >= dep.spec.desired]
    /\ UNCHANGED <<deployment, sets, pod, replicator, edits, faults, healthy>>

(* Mutant of Room: surge is accounted against the pods observed.            *)
RoomObserved ==
    dep.spec.desired + MaxSurge - SumFunctionOnSet([t \in Template |-> Cardinality(Alive(t))], Known)

(* Mutant of Room: no surge.                                                *)
RoomForNone == dep.spec.desired - SumFunctionOnSet(replicas, Known)

(* What maxSurge leaves, accounted against the replicas requested.          *)
Room == dep.spec.desired + MaxSurge - SumFunctionOnSet(replicas, Known)

(* Step 1: scale the target up.  Step 4 is decided here as well, by the     *)
(* count the target had before.                                             *)
ScaleUp ==
    /\ dpc = "up"
    /\ dpc' = "plan"
    /\ replicas' = IF Room > 0 /\ replicas[Target] < dep.spec.desired
                   THEN [replicas EXCEPT ![Target] =
                            @ + Min({Room, dep.spec.desired - @})]
                   ELSE replicas
    /\ dep' = [dep EXCEPT !.scale =
                 IF replicas[Target] > dep.spec.desired
                 THEN <<[of |-> Target, to |-> dep.spec.desired]>> ELSE <<>>]
    /\ UNCHANGED <<deployment, revision, pod, replicator, edits, faults, healthy>>

(* Mutant of Available: every ready pod counts.                             *)
AvailableUnclamped == [t \in Template |-> Cardinality(Ready(t))]

(* Ready pods, but no more than the ReplicaSet asks for.                    *)
Available == [t \in Template |-> Min({Cardinality(Ready(t)), replicas[t]})]

Floor(s) == Max({s.desired - MaxUnavailable, 0})

(* What is above the floor once the ReplicaSets newer than t have given.    *)
Spare(t) ==
    SumFunctionOnSet(Available, Known) - Floor(dep.spec)
    - SumFunctionOnSet(replicas, {u \in Older(Target) : revision[u] > revision[t]})

(* Mutant of Lowered: more is taken than there is.                          *)
LoweredBelow(t) == replicas[t] - Spare(t)

(* What step 2 leaves an old ReplicaSet.                                    *)
Lowered(t) == replicas[t] - Min({replicas[t], Spare(t)})

(* ReplicaSets by revision; no two have the same, so there is one order.    *)
NewestFirst(S) ==
    {s \in [1..Cardinality(S) -> S] : \A i, j \in DOMAIN s : i < j => revision[s[i]] > revision[s[j]]}
OldestFirst(S) ==
    {s \in [1..Cardinality(S) -> S] : \A i, j \in DOMAIN s : i < j => revision[s[i]] < revision[s[j]]}

(* The second listing decides steps 2 to 4 and whether the rollout is       *)
(* complete: step 2 takes what is spare from the old ReplicaSets, newest    *)
(* first, and step 3 retires them when the first listing said enough.       *)
PlanScaleDown ==
    LET used   == {t \in Older(Target) : replicas[t] > 0}
        giving == {t \in used : Spare(t) > 0}
    IN  /\ dpc = "plan"
        /\ dpc' = "scale"
        /\ \E give \in NewestFirst(giving), retire \in OldestFirst(IF dep.enough THEN used ELSE {}) :
             dep' = [dep EXCEPT
                !.scale =
                   [i \in DOMAIN give |-> [of |-> give[i], to |-> Lowered(give[i])]]
                   \o [i \in DOMAIN retire |-> [of |-> retire[i], to |-> 0]]
                   \o @,
                !.complete = dep.enough /\ used = {} /\ \A t \in Older(Target) : Alive(t) = {}]
        /\ UNCHANGED <<deployment, sets, pod, replicator, edits, faults, healthy>>

Scale ==
    /\ dpc = "scale"
    /\ dep.scale # <<>>
    /\ replicas' = [replicas EXCEPT ![Head(dep.scale).of] = Head(dep.scale).to]
    /\ dep' = [dep EXCEPT !.scale = Tail(@)]
    /\ UNCHANGED <<deployment, revision, pod, dpc, replicator, edits, faults, healthy>>

(* Mutant of WriteStatus: the verdict is published for whatever generation  *)
(* the Deployment has by now.                                               *)
WriteStatusLate ==
    /\ dpc = "scale"
    /\ dep.scale = <<>>
    /\ dpc' = "idle" /\ dep' = NoPass
    /\ status' = [observed |-> generation, complete |-> dep.complete, template |-> Target]
    /\ UNCHANGED <<spec, generation, sets, pod, replicator, edits, faults, healthy>>

(* _write_status: dropped when the spec has moved on.                       *)
WriteStatus ==
    /\ dpc = "scale"
    /\ dep.scale = <<>>
    /\ dpc' = "idle" /\ dep' = NoPass
    /\ status' = IF generation = dep.generation
                 THEN [observed |-> generation, complete |-> dep.complete, template |-> Target]
                 ELSE status
    /\ UNCHANGED <<spec, generation, sets, pod, replicator, edits, faults, healthy>>

-----------------------------------------------------------------------------
(* The users: ControlPlane.apply_deployment and rollback.                   *)

Edit(s) ==
    /\ edits < MaxEdits
    /\ s # spec
    /\ edits' = edits + 1
    /\ spec' = s
    /\ generation' = generation + 1
    /\ UNCHANGED <<status, sets, pod, deployer, replicator, faults, healthy>>

(* Back to the newest revision that has another template.                   *)
Rollback ==
    /\ Older(spec.template) # {}
    /\ \E t \in Older(spec.template) :
         /\ \A u \in Older(spec.template) : revision[u] <= revision[t]
         /\ Edit([spec EXCEPT !.template = t])

-----------------------------------------------------------------------------
(* The pods, run by the node agents.                                        *)

BecomeReady(p) ==
    /\ pod[p].owner \in healthy
    /\ ~ pod[p].ready
    /\ pod' = [pod EXCEPT ![p].ready = TRUE]
    /\ UNCHANGED <<deployment, sets, deployer, replicator, edits, faults, healthy>>

(* A crash (CrashLoopBackOff) or a failed node (its pods are deleted).      *)
Fault(p) ==
    /\ faults < MaxFaults
    /\ p \notin Alive(None)
    /\ faults' = faults + 1
    /\ \/ pod[p].ready /\ pod' = [pod EXCEPT ![p].ready = FALSE]
       \/ pod' = [pod EXCEPT ![p] = NoPod]
    /\ UNCHANGED <<deployment, sets, deployer, replicator, edits, healthy>>

-----------------------------------------------------------------------------
DeploymentStep == StartPass \/ CountPods \/ ScaleUp \/ PlanScaleDown \/ Scale \/ WriteStatus
PodStep == CreatePod \/ \E p \in Pod : DeletePod(p)

Next ==
    \/ DeploymentStep
    \/ \E t \in Template : GetReplicaSet(t)
    \/ ListPods
    \/ PodStep
    \/ \E s \in [template: Template, desired: Size] : Edit(s)
    \/ Rollback
    \/ \E p \in Pod : BecomeReady(p) \/ Fault(p)

Spec == Init /\ [][Next]_vars

(* Both workers go on, every ReplicaSet has its turn (a queue, and a resync *)
(* every half second), and a pod of a template that works becomes ready.    *)
FairSpec ==
    /\ Spec
    /\ WF_vars(DeploymentStep)
    /\ WF_vars(ListPods \/ PodStep)
    /\ \A t \in Template : SF_vars(GetReplicaSet(t))
    /\ \A p \in Pod : WF_vars(BecomeReady(p))

(* What a caller that waits for the rollout takes for its end.              *)
Believed == status.complete /\ status.observed = generation

-----------------------------------------------------------------------------
(* Properties *)

(* Every variable has its type.                                             *)
TypeOK ==
    /\ spec \in [template: Template, desired: Size]
    /\ generation \in Nat
    /\ status \in [observed: Nat, complete: BOOLEAN, template: Template]
    /\ replicas \in [Template -> Nat]
    /\ revision \in [Template -> Nat]
    /\ pod \in [Pod -> [owner: Template \cup {None}, ready: BOOLEAN]]
    /\ dpc \in {"idle", "count", "up", "plan", "scale"}
    /\ dep \in [spec: [template: Template, desired: Size], generation: Nat, enough: BOOLEAN,
                scale: Seq([of: Template, to: Nat]), complete: BOOLEAN]
    /\ rpc \in {"idle", "list", "create", "delete"}
    /\ rs \in [of: Template, want: Nat, create: Nat, doomed: SUBSET Pod]
    /\ edits \in Nat /\ faults \in Nat /\ healthy \subseteq Template

(* The replicas requested never exceed the largest size by more than        *)
(* maxSurge, however often the pass runs before the pods it asked for exist *)
(* (workloads.py:191-197, "grant the same headroom twice").                 *)
SurgeBounded ==
    SumFunction(replicas) <= Max(Size) + MaxSurge

(* The pods of one rollout stay above the floor: with no fault and no       *)
(* second edit, at least desired - maxUnavailable are ready all along, by   *)
(* the smaller of the two sizes (workloads.py:214-231).                     *)
FloorHeld ==
    edits <= 1 /\ faults = 0
    => Cardinality(UNION {Ready(t) : t \in Template}) >= Min({Floor(spec), Floor(Start)})

(* A completion that wait_complete believes is about the template the       *)
(* Deployment asks for, not about the one of an earlier generation          *)
(* (workloads.py:276-281, cluster.py:155).                                  *)
CompleteIsCurrent == Believed => status.template = spec.template

(* Once the users have settled on a template that works and pods stop       *)
(* failing, the rollout ends, also when it turns back from a broken one: it *)
(* is reported complete, the pods asked for are ready and the old ones are  *)
(* gone (docs/orchestrator.md:115, "a broken rollout simply stalls").       *)
RolledOut ==
    /\ Believed
    /\ \A t \in Template : IF t = spec.template THEN Cardinality(Ready(t)) = spec.desired
                                                ELSE Alive(t) = {}
RolloutEnds == <>[](spec.template \in healthy) => <>[]RolledOut
=============================================================================
