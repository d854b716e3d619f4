# Container-Platform in TLA+

TLA+ models of the parts of Container-Platform whose correctness depends on
ordering, failure or sharing: consensus and the key-value service of
`modules/raft-kv`; the object store, the reconciliation loop, the rollout, and
the scheduling and running of pods of `modules/orchestrator`; the broker and
workers of `modules/taskqueue`; image building and distribution of
`modules/image-toolkit`; the layer cache and the life of containers of
`modules/container-runtime`. Each model is translated from the Python source and
model-checked with TLC on small instances; the main safety properties are also
proved with TLAPS for every value of the constants.

`tlc -workers 2 -config <run>.cfg <MC module>` runs a check, `tlapm <module>`
checks a proof. PROJECT.json maps each definition to the lines it models.

## 1. The system

The repository is five Python modules and `ctl`, which starts them. They share
interfaces: the orchestrator can keep its objects in raft-kv (`RaftStore`), and
its node agents run pods through container-runtime on images that image-toolkit
builds. taskqueue stands alone.

### raft-kv

| part | state | operations |
|---|---|---|
| consensus core, `raft/node.py`, `log.py`, `state.py` | term, vote and log (on disk); role, commit index, `next_index`, `match_index`; the ticker thread's local variables | election, replication round, the two RPC handlers, `propose`, `wait_for_commit`, restart |
| apply pass and store, `node.py:_apply_committed`, `store/kv.py` | `last_applied`, the dictionary | applying a committed entry |
| service, `rpc/server.py` | none | Set, Del (propose and wait), Get, Leader |
| transport, `rpc/client.py` | a stub per peer | a synchronous call with a 100 ms deadline |

One thread per node (`RaftNode._loop`) runs elections, replication and the apply
pass in turn and calls its peers synchronously, with the node lock released; the
handlers of the peers' calls and of the clients run on gRPC's threads and take
the lock. What is hard: everything a thread read before it released the lock and
uses after it took it again; an RPC that times out at the caller and is handled
by the peer later; a crash between two writes of the persistent state. What
makes it correct is the list of docs/raft-kv.md: election safety, leader
append-only, log matching, the commit rule, state machine safety, and that what
a client was told is committed stays so.

### orchestrator

| part | state | operations |
|---|---|---|
| work queue and controller loop, `controller.py` | five collections per queue; a worker and a resync thread | add, get, done, fail; start, stop; reconcile |
| object store, `store.py` | objects with a resourceVersion, bounded event history, watchers | create, update with compare-and-swap, delete, watch, `events_since`; `RaftStore` does the same over raft-kv |
| workloads, `workloads.py` | ReplicaSets and Deployments in the store | reconcile: scale, roll out, roll back |
| scheduler, `scheduler.py` | none of its own | filter, score, bind a pod to a node |
| node agent and monitor, `node_agent.py` | the pods a node runs, restart counters, heartbeats | start, stop, restart with backoff; mark a node lost, evict |

Writers call the watchers, which call `WorkQueue.add`, on their own threads; a
worker takes a key, reads the object, acts, and calls `done` or `fail`. What is
hard: a change that arrives while its object is being reconciled or while a
reconcile fails; an event that is lost; two controllers that read, compute and
write the same object; an availability floor that two controllers and a crashing
pod keep together. What makes it correct: no change is forgotten, each is
reconciled in the end, no object is reconciled twice at once; no write is based
on a stale read; a rollout keeps its surge and availability limits.

### taskqueue

The broker (`broker/server.py`, `queue.py`) keeps a priority queue backed by
SQLite, the tasks handed out and not acknowledged, and which workers are busy; a
dispatch thread, a reaper thread and one thread per connection share them. The
worker (`worker/worker.py`) acknowledges, runs and retries tasks. What is hard:
a delivery is written to the socket before it is recorded, so answers race the
record; acknowledgement timeouts race answers; a crash of either side. What
makes it correct: no accepted task is lost, none is run again after it
succeeded, a failed one is retried while retries remain, a worker that is free
gets work.

### image-toolkit

| part | state | operations |
|---|---|---|
| builder and cache, `build.py`, `layer.py` | staging directory per stage, chain key; cache entries and memoised file hashes, one JSON file | FROM, COPY, RUN, metadata; make and extract a layer |
| store, `store.py`, `manifest.py` | blobs by digest, `index.json` with tags | put and get an image, unpack, `copy_image` |

Builds and pushes are processes of their own on shared files, without locks, and
may die anywhere. What is hard: a cached layer stands for a step that is not
executed, so its key must contain everything the step depends on; a layer is a
difference between two directory walks and must give the same tree to three
readers (`extract_layer` here, `unpack_layer` and overlayfs in the runtime). What
makes it correct: a cached step leaves what executing it would; the layers of an
image give the tree that was built; an index names complete images.

### container-runtime

| part | state | operations |
|---|---|---|
| layer cache, `image.py`, `nshelper.py` | a directory, a marker and a lock file per layer | `ensure`: unpack what is not ready, in a helper process |
| container, `container.py` | three processes P, C, G per container, three pipes, a cgroup, `child_pid` | create, start, wait, kill, delete |
| kernel interface, `mounts.py`, `cgroups.py`, `linux.py`, `netlink.py` | the kernel's | mounts, limits, kill of a cgroup |

What is hard: creators with a layer in common; the handshake of three processes
over pipes that other containers' children inherit; a failure in any of them;
signals at a time when nobody handles them. What makes it correct: a container
never stands on a partial layer; start comes to an end; delete leaves no process.

### ctl

Starts the modules in one process and keeps no state.

## 2. Modules

| module | models | run by |
|---|---|---|
| RaftNode | raft-kv's consensus core and the RPCs between nodes | MCRaftNode |
| RaftKV | the above composed with apply pass, store and client calls | MCRaftKV |
| ObjectStates | what a write does to the orchestrator's objects, revision and history | |
| ObjectStore | the contract of `ClusterStore`, as `MemoryStore` keeps it: the abstract specification | |
| RaftStore | the store over a replicated log: state machines, proposals, retries, restarts | MCRaftStore |
| WorkQueue | the orchestrator's controller loop | MCWorkQueue |
| Rollout | Deployment and ReplicaSet controllers, edits and rollback | MCRollout |
| Nodes | scheduler, node agents, node monitor | MCNodes |
| TaskBroker | taskqueue's broker, workers and the connections between them | MCTaskBroker |
| FileTrees | directory trees, layers, whiteouts, overlay: operators | |
| ImageBuild | builder, cache, image store, push (over FileTrees) | MCImages |
| LayerCache | the cache of unpacked layers and its helpers | |
| Containers | the life of containers (over LayerCache) | MCContainers |
| RaftNodeProofs, RaftStoreProofs, WorkQueueProofs, RolloutProofs, NodesProofs, TaskBrokerProofs, ImageProofs, ContainersProofs | theorems | tlapm |

### RaftNode

The persistent state is `currentTerm`, `votedFor`, `log`. A handler holds the
node lock from beginning to end and is one action part (`HandleRequestVote`,
`HandleAppendEntries`), persisted writes included. The ticker thread has a
program counter `pc`, its locals in `local`, the peers still to call in `todo`
and the votes it counted in `votes`; each action is one locked block or one
unlocked read:

| code | action |
|---|---|
| `_tick` finds the timeout expired; first block of `_start_election` | StartElection |
| `send_rv(peer)` handled by the peer / raising | DeliverVote / VoteCallFails |
| the locked check after `send_rv`, the count | RequestVoteReturns |
| `_become_leader` | BecomeLeader |
| `_replicate` (from `_tick`, or right after the election) | StartReplicate |
| `term_at(prev)` and `entries_from(ni)`, both unlocked | ReadPrevTerm, SendAppendEntries |
| `send_ae(peer)` handled / raising before that | DeliverAppend / AppendCallFails |
| the locked block after `send_ae` | AppendEntriesReturns |
| either call raising after the peer handled it | AnswerLost |
| a request handled after its caller gave up | DeliverLate |
| `propose` | Propose |
| the process is killed and started on its data_dir | Restart, CrashBetweenSaves |

Sending a RequestVote is no step of its own: its contents are local variables.
The loops over peers follow the order of the node's dict of peers, which is
configuration: PeerOrder gives what is known of it, `{}` leaves it open. Time is abstracted: a timeout may expire whenever the
thread looks. `cast` and `elected` are history, and so is `torn`: an AppendEntries
was sent with a `prev_term` that is not that of the log its entries are from.
Reaches bounds which calls the network lets through.

CrashBetweenSaves kills a handler, of either RPC, or an election between the two
writes of term and vote and before what follows. The rest of an AppendEntries is
one step in the model and two in the code: `truncate_from` and `append_all`
(`node.py:208-209`) hold the log's lock each for itself, so that the two unlocked
readers can see the log cut off (`node.py:326-327`, `:371`), and a kill between
the writes of single entries (`log.py:133-149`) leaves a beginning of the new log
on disk. The cut log is a beginning of both logs, nobody has been told of what
it lacks, `term_at` past its end gives 0, which no follower accepts, and the apply
pass reads below the commit index only; what these states would add is not
checked, though.

Not in it: `leader_id` (a hint no decision reads), `log.snapshot` (nothing calls
it), the durability of the log file (`_rewrite` truncates and writes again
without fsync; the model reads the whole log back). A cluster of one never
elects a leader, because the count is tested inside the loop over peers; the
model assumes two nodes or more.

### RaftKV

EXTENDS RaftNode and adds per node `lastApplied`, the store `data`, the pass
under way (`pass`: its loop variable and the commit index it read) and `due`
(the loop calls `_apply_committed` after every tick, so the next tick starts
after the pass). StartApply and EndApply are the two locked blocks, ApplyNext an
iteration between them. `waiting` holds the calls inside `wait_for_commit`,
`acked` (history) those answered ok, `executed` (history) the entries applied in
this life of the node, `missed` (history) the indices that the end of a pass
counted as applied although it had not come to them. KVNext splits RaftNode's actions into the start of a
tick, which waits for the pass, and Elsewhere, which does not.

### ObjectStates, ObjectStore, RaftStore

A store is a record of objects, revision and retained events. Verdict and Effect
are what create, update and delete decide and do, in the order of the code's
tests; `MemoryStore` and `ObjectStateMachine` contain the same code twice, and
the definition is mapped to both. An object is its resourceVersion, generation
and spec. EventsSince is that of RaftStore, which refuses no revision
(`store.py:384-385`); MemoryStore's, which does (`:170-177`), is not modelled.

ObjectStore is the contract: a call that was issued takes effect at most once, in
one step, judged against the objects as they are then; or it comes to nothing.

RaftStore has the committed `log`, the proposals `inflight`, and per node what it
`applied`, its state machine `sm` and its `results` by request id. A client is a
controller on one node: UpdateWithRetry reads the node's own state machine
(possibly behind), Propose submits, then either Answer (the node has applied the
index and finds the request's result) or TimeOut, after which the command may
still be committed. Conflict sends it back to Read, up to Attempts times. Restart
empties a node's state machine, results and calls, and it applies the log anew.
A request id is what the code makes it: the `identity` of the RaftStore, an
address, and a `counter` that starts at 0 in every life (`store.py:328,334`). After
a restart the address may be one that a RaftStore has had before (MayHave says
which are possible), and then the replayed log fills `results` with verdicts under
ids that are given out again. `shared` (history) are the identities this happened
to, `by` (history) tells whose request an entry is, whatever its id.
The log is external here and is what raft-kv's users are promised: a proposal is
committed at some time or lost, and every node applies the log in order and
completely. (RaftKV examines raft-kv itself, and section 5 says where it falls
short of that.) The composition is by this interface.

Refinement: RaftStore implements ObjectStore with

    store <- latest      \* the last state any node has reached
    open  <- unapplied   \* proposals no node has applied

The first node to apply an entry is the step in which the call takes effect;
proposing is Issue; everything else, restarts included, stutters.

### WorkQueue

`pending`, `queued`, `processing`, `dirty`, `failures`, `delayed` are the fields
of the class; `due` are the delays whose deadline has passed. Add, Take (the end
of `get`), Requeue (`done`) and Backoff (`fail`) are its methods, atomic under
the condition. `stage` and `toAdd` follow `Controller.start` (watch, list, add
each, start the threads) and `stop`; `pc` and `at` the worker; `resyncing` the
resync thread. Read is the point at which reconcile reads its object: a change
before it is seen, one after it is not. `unseen` (history) are the changes no
completed reconcile has read, `missed` those whose event was dropped because a
watcher raised. What a reconcile writes is open: Write may happen at any time.

Not in it: `Interesting` maps a key to itself (a controller that maps a pod to
its owner has more writers, not another loop); `EdgeTriggeredController`, which
exists for a benchmark.

### Rollout

`spec`, `generation`, `status` are the Deployment; `replicas`, `revision` the
ReplicaSets, one per template; `pod` the pods with owner and readiness. `dpc` and
`dep` are the Deployment controller's place and locals, `rpc` and `rs` those of
the ReplicaSet controller; each has one worker thread, and each call of the store
between two local computations is a step.

| code | action |
|---|---|
| `DeploymentController.reconcile` reads the Deployment; `_ensure_target` | StartPass |
| lists pods and ReplicaSets, sums up | CountPods |
| room under maxSurge, `_scale` of the new ReplicaSet | ScaleUp |
| floor, clamped availability, the list of ReplicaSets to lower | PlanScaleDown |
| each `_scale` | Scale |
| `_write_status` | WriteStatus |
| ReplicaSet pass: get / list / each create / each delete | GetReplicaSet / ListPods / CreatePod / DeletePod |
| a create that raises and is swallowed (`workloads.py:138-141`) | CreatePod, charged to the faults |
| `apply_deployment`, `rollback` | Edit, Rollback |
| a pod becomes ready; fails its probe or crashes or is evicted | BecomeReady, Fault |

`healthy` is chosen once: a template outside it has pods that never become
ready. Not in it: minReadySeconds, the progress deadline (`stalled` only
reports), ReplicaSet statuses (nobody reads them).

### Nodes

`pod` and `node` are the objects in the store, `up` the agents that run, `handles`
each agent's dictionary, `process` what really runs. The scheduler's worker is
`spc`, `bind`; an agent's `apc`, `doing`; the monitor's `mpc`, `mdo`, `victims`.

| code | action |
|---|---|
| `Scheduler.reconcile`: get, list, filter, score / the update | Evaluate / Bind |
| `NodeAgent.reconcile`: pod gone or elsewhere, the handle is popped / `runtime.stop` | Reap / StopPod |
| no handle / `runtime.start` and the handle | FindMissing / StartPod |
| the process has exited, the handle is popped / `runtime.stop`; readiness noticed | NoticeExit / StopPod; NoticeReady |
| `_write_phase`, `_crashed` | WritePhase |
| `_heartbeat` | Heartbeat |
| `NodeMonitor.reconcile`: stale heartbeat / mark / list / each delete | FindSilent / MarkDown / ListVictims / Evict |
| `stop`, `remove_node`, `add_node` | StopAgent, LoseNode, RemoveNode, AddNode |
| process exits or becomes ready; time passes | Exit, BecomeReady, TimeOut |
| a ReplicaSet creates or deletes a pod | CreatePod, DeletePod |

A pod's name ends in the microsecond of the second (`workloads.py:134`): a new pod
has a name that no other pod has now, and may have that of one that is gone, whose
process, handle, phase write or eviction may still be under way. One resource
stands for CPU and memory; the scores, which only order feasible nodes, are left
open. A backoff may end at any moment.

`runtime.stop` may raise (`runtime.py:124-129`), after the handle was popped in
`reconcile` and before the handles are cleared in `stop`; and `stop` waits for the
worker for two seconds only (`controller.py:215`), so that a `runtime.start` may
come back to an agent that is gone. In each case nobody has a handle of the
process any more: StopPod, StopAgent and StartPod put it into `lost`. `process`
holds those that are not lost. A start may also report that it failed, which
is recorded, or raise, which is not.

### TaskBroker

`heap` and `row` are the queue in memory and its table (a row is the retries it
holds, or Nil), `retries` the field of the task. `pending`, `registry`, `busy`
are `_pending`, `_workers` and the flag of a connection. The dispatcher has a
place `dpc`, the workers still to look at `todo`, and its locals `wc`, `hand`; the
reaper the list `reaping` and the row it is to write; the handler of a connection
`hpc`, `held`. A worker is the set of jobs its pool runs and the sequence of its
connections; `link` says what became of each.

| code | action |
|---|---|
| `_handle_publish`: the push / the INSERT of `enqueue` | Publish / SavePublished |
| the dispatcher reads `_workers`; passes over a worker | Scan; Skip |
| `dequeue`: the pop / the DELETE | Dequeue / DeleteRow |
| `write_message(DELIVER)` / the locked block after it | Deliver / Record |
| the `except OSError` (the link is gone, or the write timed out): push, INSERT, `_workers.pop` | DeliverFails, SaveUndelivered, DropWorker |
| reaper: locked scan / each `requeue` and its INSERT | Reap / RetryReaped, SaveReaped |
| SUBSCRIBE, ACK; RESULT and the lock after it | Subscribe, Ack; Result, FreeWorker |
| NACK: the locked pop / count and push / INSERT | Nack / RetryNacked / SaveNacked |
| the handler's `finally` | Close |
| worker: `_connect_and_run`, `_handle_deliver`, `_on_done` | Connect, Receive, Finish |
| a connection breaks, the worker perhaps with it | Cut |
| the broker is killed and started on its database | Restart |

One queue to which every worker subscribes. Priorities and due times are
abstracted: `dequeue` returns the top of the heap or, when its time has not come,
nothing, and here any queued task may be it. The timeout of an
acknowledgement may pass at any moment, so a slow answer and a lost one look the
same to the reaper. Not in it: REVOKE (it sets a state that nothing reads), STATS,
PING, results on their way to clients (nothing ever fills `_result_listeners`),
`stop`.

### FileTrees, ImageBuild

FileTrees is operators: LayerFrom, Changed and Removed (what `make_layer` and
`diff_snapshots` do), Extract (image-toolkit's reader), UnpackLayer with Unpacks
(the runtime's reader and when it raises), LowerDirs and Overlay (how overlayfs
shows the unpacked layers), Flatten and Mounted. A Tree is what a directory can
be: what is there is in a directory; Extract therefore also makes the directories
above an entry, as `tar.extract` does. `unpack` and overlayfs treat the layers of
an image one after the other; Flatten and Mounted say it in closed form: the last
layer that has a say in a path decides it, and a path is seen in the first
lowerdir that covers it. Mounts says of which images: every layer can be unpacked and
none is there twice, since the kernel refuses a lower directory listed twice and
`mounts.py:107` lists what the image lists. The lemmas OneMoreLayer and OneMoreLowerDir show that
this is what applying one layer after the other gives. A snapshot looks at size
and time only, which is what Stat says of contents. Overlay is external and
follows overlayfs's rules.

ImageBuild has the build context with time stamps, the cache in memory and on
disk, one build (instruction pointer, staging directory, chain key, image), the
stores `store` and `remote`, and the pushes. From, Configure, Copy and Run are the
instructions, each with hit (Reuse) or miss (Record); TagImage is `put_image`,
SaveCache the end of the build, Abandon its failure. A RUN has one of several
Effects, since it may depend on the outside world; an Edit changes a
file between builds. A push is StartPush, SendBlob one by one, SendManifest,
ReadIndex, WriteIndex; PushDies may come between any two.

Pushes write each blob, and the index, through one temporary name
(`store.py:92-95`, `:113-117`), and so does the model: OpenFile opens (and empties)
the `.tmp` of a file, SendBlob, SendManifest and WriteIndex end with PutFile, which
renames whatever is at that name. `writing` says which file a pusher has open,
`share` whether it alone has the `.tmp`, others too, or another one has put it in
its place already. In the last two cases the renamed file may be short (`torn`),
the next rename finds nothing and that push fails (PushFails), and what is
still written goes to the file in place (Leave: what it did to it is counted
when that push ends). `contested` (history) are the files that two pushes had open
at once. A push that finds the index cut short fails. A `.tmp` that a dead push
left behind is emptied by the next one that opens it and plays no part. One build
is on at a time; its writes to `store` are single steps.

A COPY makes the directories above its destination and above each place where a
file lands (Made), skips an ignored source directory whole and each ignored file
in one that is not (Left, CopiesDir), and fails where a file is in the way of a
directory (Copyable). `_copy_file` puts a file that is copied onto a directory into
it (Landing), while the layer is cut out at the path the file was meant for
(Target). Copyable is asked of a hit too, where the code only extracts the
layer (`build.py:366-372`): the same key over the same parent found a place for
everything when it was a miss. Files of an earlier stage are hashed by content,
where the code asks the memo by path, size and time for them too
(`build.py:471,475`); a stage is a fresh temporary directory in every build, so
that its paths are in no earlier memo.

The run's Dockerfiles do not meet three limits of the builder, and the theorems
name each as a hypothesis: a file rewritten with the same size and time
(StatDiscerns; `build.py:224`, "Content is deliberately not hashed"), a file copied
onto a directory (Straight; `build.py:525,597`) and a copied directory that holds
no file, which the key does not contain (NoEmptyDirs; `build.py:463`). Left out of
the model: a file edited between its hash and its copy.

### LayerCache, Containers

LayerCache: a creator looks which layers lack a marker (Ensure), its helper takes
the lock of each in turn (Lock), looks again under it (Look), deletes (Clear),
unpacks (Unpack) and marks (Mark); HelperFails at any step frees the lock; Check
is `ensure`'s second look. A directory is absent, partial or complete.

Containers EXTENDS it. `runtime` is where P's thread is, `child` and `init` the
processes C and G, `readyEnds` and `startedEnds` who holds the writing end of
each pipe, by fork inherited from all containers that are starting in the same
process.

| code | action |
|---|---|
| `create` | Ensure ... Check, Create |
| `start`: pipes / fork / close ends | OpenPipes / Fork / CloseEnds |
| read ready / write maps and go / read started | ReadReady / WriteMaps / ReadStarted |
| the error paths of `start` | StartFails |
| C: join cgroup, unshare, fork G, install the relays | Join, Unshare, ForkInit, Guard |
| G: set up and exec; exit | SetUp; Exit |
| C reaps G and exits; P reaps C | ReapInit, ChildExits; ReapChild |
| `kill`, its grace over; `delete` | Kill, KillHard; CgroupKill, Delete |

A step of C or G may fail, the forks included (bounded by MaxFaults with the
helper's failures): the error path writes E or exits, as in the code. A workload
may ignore a signal. CgroupKill is one step, as `cgroup.kill` is; before Linux 5.14
the code signals one process after the other (`cgroups.py:213-221`) and may miss
one that is forked meanwhile. That loop is not modelled, since its outcome is the
same: when kill or delete comes to it, C has forked G or is dead (start has read
G's report, or the end of file of a pipe C holds until it has forked, or waited for
C), and when G, the first process of its PID namespace, is killed, the kernel ends
all others of that namespace.

## 3. Runs

| run | constants | properties | shows |
|---|---|---|---|
| raft_election | 3 nodes, two may stand in terms 1 and 2, 1 late request, 2 crashes | TypeOK, ElectionSafety, VoteIsFinal | one leader per term, votes never change |
| raft_replication | 3 nodes, n1 leads term 1, n2 term 2, three proposals | LogsMatchUntilTorn, LeaderAppendOnly, CommitsOwnTerm | logs agree through a conflicting change of leadership, as long as no request is of two logs |
| raft_stale_match | n1 leads, n2 leads, n1 leads again | StateMachineSafety, violated | finding 1 |
| kv_apply | 3 nodes, one leader, two commands, a late request, two crashes | AppliedInOrder, AppliedIsDurable, AckedIsDurable | nothing is applied twice or out of order, and only what was committed during a pass is left out; what was applied or acknowledged stays |
| object_store | 2 controllers on 2 nodes, 1 object, 2 calls each, 2 attempts, 1 restart, 3 addresses, 2 events retained | TypeOK, ReplicasAgree, AnswersAreTrue, ReadsItsWrite, NoLostUpdate, ReplayIsNewest, KeepsContract | the replicated store implements the atomic one; compare-and-swap loses nothing |
| workqueue_fair | 2 objects, one with unreliable events, 2 writes, 1 failure | TypeOK, QueueConsistent, NoChangeLost, ChangesAreSeen | no change is lost; each is reconciled |
| rollout | 2 templates, sizes 1 and 2, maxSurge 1, maxUnavailable 0, 2 edits, 1 fault | TypeOK, SurgeBounded, FloorHeld, CompleteIsCurrent, RolloutEnds | a rollout keeps its limits, is not reported too early, and ends |
| nodes | nodes with room for 1 and 2, 2 replicas, 2 pod names used again, 1 fault, any stop may fail | NotOvercommitted, NoLostProcess, NotRevived, Recovers | placement, running and eviction agree with the store, and recover |
| broker | 1 task with 2 retries, 1 worker with 2 connections, 1 crash of the broker | TypeOK, OneOwner, TaskIsKept, AttemptsBounded | a task is in one place, is not forgotten, not delivered too often |
| images | 5 paths, 2 contents, a base and two Dockerfiles on it, 3 builds, 1 edit, 2 pushers, 1 failure | RootfsIsLayers, IndexClosed, MountedAsBuilt, StepsAreReal | layers, cache and store tell the truth about what was built, and only what two pushes wrote at once can be cut short |
| image_purge | the same with a RUN that removes a directory | EveryImageUnpacks, violated | finding 2 |
| containers | 2 containers that share a base layer, 2 faults | RunsOnWholeLayers, DeleteIsFinal, StartEnds | no half layer, no process left, start ends |

Why the bounds are enough. **raft**: three nodes are the smallest odd cluster in
which a majority is not everybody; MayStand names the elections that may be
started and MayPropose the log positions at which a client may write, so that a
run contains exactly one change of leadership, or two rivals with two terms each,
with every interleaving of the ticker's blocks, handlers, lost answers, late
requests and crashes inside it. A conflict needs two leaders with an entry each at
one index; truncating and appending more than one entry need a second proposal,
which raft_replication has. Followers that do the same are interchangeable
(SYMMETRY); no liveness is checked under symmetry. One late request with two
crashes lets a vote of an old term arrive at a node that has crashed since it
voted. In kv_apply two commands are the fewest of which one can be committed while
the pass for the other runs (it is then left out, and in `missed`) and the fewest
that could be applied in the wrong order; Budget leaves out the states in which a
second command meets a late request, a second crash, or a crash while a call
waits. AckedIsDurable and AppliedIsDurable hold only as long as one node leads
all the terms (kv_apply); with a change of leadership they fail for the reason of
finding 1 or of item (c) in section 5. PeerOrder is left open except in the runs
with a change of leadership, where every node lists the node that never stands
last; that leaves a third of the states.

**object_store**: lost updates, stale answers and objects that were deleted and
created anew need two writers and three or four commands on one object; two nodes
let the reader be behind the one that answered, and a restart puts a node behind
everybody; the RaftStore of the node that restarts has the address of the one
before or another, so that ids are given out again or not (interchangeable
addresses: SYMMETRY). HistoryLimit 2 is exceeded by the third write. **workqueue_fair**: two
objects are enough for one to be waiting, queued or dirty while another is in
flight; two writes let a change hit a key in each of its states, the second while
the first is being handled. **rollout**: an edit, and a second one that may turn
back while pods of both templates exist, one of which may never become ready;
sizes 1 and 2 let an edit change template, size or both, and let a pass lower one
ReplicaSet while raising another. MaxPods 6 is more than the controllers ever
have with this surge. **nodes**: a pod fits one node only while the other is full;
with two names every replacement takes the name of a pod that is gone, the worst
case (a third name is too much for the liveness check; the theorems hold for any
number); the one fault is any of loss, stop, removal, late heartbeat, exit, failing
start or deletion, while evictions and failing stops cost nothing and may follow
one another. **broker**: tasks meet only in the dispatcher's
and the reaper's loops, which take them one by one; two retries let a task be
refused, time out and fail to be written in one life, and the second connection
lets answers of the first arrive after the worker has subscribed again and a stale
Close remove the new registration. **images**: the paths have a directory, files
in it, one that is ignored, and one outside; the Dockerfiles use COPY of a
directory and of a file, COPY --from, a RUN that writes and deletes, an ENV, and a
base image that may be rebuilt between two builds. Two pushes of one image meet at
every file, two of different images at the index. Budget lets builds and pushes
take turns, since they share only what a push reads when it starts, and allows two
pushes at once, or a contested file, with one build, or with two of unedited files
without failures where what both write is the index. **containers**: two creators
meet at the shared layer in every order; two starts overlap, so that each one's
child can inherit the other's pipes; two faults let a start fail while another
fails or a helper dies.

CHECK_DEADLOCK is FALSE because the bounds (no edit, write, fault or call left)
let every model stop.

Fairness. **WorkQueue**: weak fairness of the worker thread, of the starting
thread, of the resync thread's listing and of each of its adds, and of time for
each delay: all are threads in loops that nothing blocks for ever, and deadlines
that pass. Writers and `stop` get none. The worker's choice between success and
failure is not fair: that a key does not fail for ever is the bound MaxFail, an
assumption on the reconcilers. ChangesAreSeen excludes an object that was deleted
while its event was lost: resync lists existing objects.
**Rollout**: the two worker threads, which nothing blocks; strong fairness of
GetReplicaSet for each template, since the work queue serves its keys in turn and
does not drop any (WorkQueue's property) although the worker is busy with others
in between; pods of a healthy template become ready. Edits, rollbacks and faults
get none. RolloutEnds supposes that the users settle on a template that works.
**Nodes**: the worker threads of scheduler, monitor and agents, the agents'
heartbeats, time (a heartbeat of an agent that is gone gets old), processes that
become ready, and strong fairness of FindSilent, because the resync lists every
node again and again. Recovers supposes an end of faults, a node with room, and no
pod bound to a node that was removed from the store: the monitor looks only at
registered nodes (`node_agent.py:222`), so pods of a node that was removed
gracefully stay bound to it for ever.
**Containers**: the threads and processes of each container; strong fairness of a
helper, which waits for a lock others take. Kill and delete get none until `kill`
has begun.

## 4. Proofs

For any set of nodes, keys, commands, tasks, workers, pods, images, containers and
any bounds:

| theorem | assumption beyond the module's | statement |
|---|---|---|
| RaftNodeProofs: TypeCorrect | | Spec => []TypeOK |
| RaftNodeProofs: VotesAreFinal | | Spec => VoteIsFinal |
| RaftNodeProofs: ElectionSafe | odd number of nodes | Spec => []ElectionSafety |
| RaftNodeProofs: LeaderNeverTruncates | odd number of nodes | Spec => LeaderAppendOnly |
| RaftNodeProofs: LeaderCommitsOwnTerm | odd number of nodes | Spec => CommitsOwnTerm |
| RaftNodeProofs: OneEntryPerTerm | odd number of nodes | Spec => [] one entry for an index and a term, in all logs and requests |
| RaftNodeProofs: LogsMatch | odd number of nodes | Spec => []LogsMatchUntilTorn |
| RaftNodeProofs: KVImplementsRaft | | KVSpec => Spec |
| RaftNodeProofs: AppliedOnce | l a node | KVSpec => [](Led(l) => AppliedInOrder) |
| RaftNodeProofs: AppliedStaysDurable | l a node | KVSpec => [](Led(l) => AppliedIsDurable) |
| RaftNodeProofs: AckedStaysDurable | l a node | KVSpec => [](Led(l) => AckedIsDurable) |
| RaftStoreProofs: TypeCorrect | | Spec => []TypeOK |
| RaftStoreProofs: ReplicasAreEqual | | Spec => []ReplicasAgree |
| RaftStoreProofs: AnswersAreRight | | Spec => []AnswersAreTrue |
| RaftStoreProofs: WritesAreRead | | Spec => []ReadsItsWrite |
| RaftStoreProofs: UpdatesAreKept | | Spec => []NoLostUpdate |
| RaftStoreProofs: ReplaysAreNewest | | Spec => []ReplayIsNewest |
| RaftStoreProofs: Implements | | Spec => KeepsContract |
| WorkQueueProofs: TypeCorrect | | Spec => []TypeOK |
| WorkQueueProofs: NeverQueuedTwice | | Spec => []QueueConsistent |
| WorkQueueProofs: ChangesAreKept | MaxFail < Overflow | Spec => []NoChangeLost |
| RolloutProofs: TypeCorrect | | Spec => []TypeOK |
| RolloutProofs: SurgeIsBounded | | Spec => []SurgeBounded |
| RolloutProofs: FloorIsHeld | | Spec => []FloorHeld |
| RolloutProofs: CompletionIsCurrent | | Spec => []CompleteIsCurrent |
| NodesProofs: TypeCorrect | | Spec => []TypeOK |
| NodesProofs: CapacityIsKept | | Spec => []NotOvercommitted |
| NodesProofs: ProcessesAreKept | | Spec => []NoLostProcess |
| NodesProofs: DeletedForGood | | Spec => NotRevived |
| TaskBrokerProofs: TypeCorrect | | Spec => []TypeOK |
| TaskBrokerProofs: OwnersAreUnique | | Spec => []OneOwner |
| TaskBrokerProofs: TasksAreKept | | Spec => []TaskIsKept |
| TaskBrokerProofs: AttemptsAreBounded | | Spec => []AttemptsBounded |
| ImageProofs: IndexesAreClosed | | Spec => []IndexClosed |
| ImageProofs: StagingIsLayers | StatDiscerns | Spec /\ []Straight => []RootfsIsLayers |
| ImageProofs: ContainersSeeTheBuild | StatDiscerns | Spec /\ []Straight => []MountedAsBuilt |
| ImageProofs: CachedStepsAreReal | StatDiscerns | Spec /\ []Straight /\ []NoEmptyDirs => StepsAreReal |
| ContainersProofs: TypeCorrect | | Spec => []TypeOK |
| ContainersProofs: LayersAreWhole | | Spec => []RunsOnWholeLayers |
| ContainersProofs: DeletionIsFinal | | Spec => []DeleteIsFinal |

The assumptions are needed: with an even cluster ElectionSafety is false, with
Overflow failures in a row the key is lost (section 5, (a) and (e)); and TLC finds
RootfsIsLayers violated without StatDiscerns and without Straight, and StepsAreReal
without NoEmptyDirs, each by a Dockerfile of at most five instructions (section 5,
(o)). The Dockerfiles and effects of MCImages satisfy all three in every reachable
state of the run.

**RaftNode.** ElectionSafety is not inductive: it says nothing of the votes being
counted. The invariant IInv is the conjunction of
- TypeOK and TickerInv: which peers, requests and answers exist at which `pc`,
  and that nobody calls itself;
- CastInv: every recorded vote is the one on its node's disk, or of an earlier
  term (OnDisk), and no node gave two votes in one term (NoRival). OnDisk is what
  a crash between the saves of term and vote must keep: it leaves the new term
  without a vote, and none was recorded for it;
- CountOK: each vote a ticker has counted, and a granted answer on its way back,
  was cast for the term the ticker stands in;
- ElectedInv: whoever was made leader has the votes of a quorum. Two quorums of
  an odd cluster share a node, and NoRival makes the two leaders one;
- LeadOK: a node that leads, or replicates, was elected for that term, and a
  leader's pass acts for the term the node is in; the AppendEntries it has sent
  is of a term it was elected in;
- LateInv: so is an AppendEntries that outlived its caller.

Most actions touch `persistent` and `cast` in one of few ways; the lemma
DiskStep says so once, and each conjunct that speaks of the disk is preserved
from that summary. LeaderAppendOnly then follows in one step: an AppendEntries of
the leader's own term comes from a node elected in that term, so from itself, and
TickerInv says nobody calls itself. CommitsOwnTerm is the third part of LeadOK: the
term `_replicate` read before it released the lock is still the node's when the
node still leads.

What the logs say of each other is about links: `Links` are the entries with their
index and the term before them, in every log, in every request on its way and in
those that come late. EntriesInv says that two links with one index and one term
are one entry, with one term before it unless `torn` (LinksAgree); that an entry's
term had a leader, and in the log of a node that leads now nothing of its term is
missing (TermsElected, LeaderAhead); that nobody stands in a term again after it
led it (ElectedOnce); and what an unlocked `prev_term` is worth when the entries
are read (PrevInv). OneEntryPerTerm is its first half and needs no condition:
even a request of two logs carries only entries their leaders made. LogsMatch
needs the second half: where two logs have entries of one term at an index, the
terms before them agree, so there is no last index at which they differ; a request
of two logs breaks just that link (section 5, (n)).

**RaftKV.** KVImplementsRaft makes every step of RaftKV a step of RaftNode, so all
of the above holds in it. The properties of RaftKV itself are false as soon as the
leadership changes (section 5, 1 and (c)), and the theorems say how far they hold:
while no second node has been elected, `Led(l)`, in any cluster, for any number of
terms of l, calls, crashes, lost and late requests. LeaderInv: every log is a
beginning of l's (LogsFollow), every request a slice of it (RequestsFollow), also
when its parts were read at two times (ReadsFollow); `match_index` counts no more
than the follower has (MatchesHold), because no log gets shorter, so that a late
or repeated answer is still true; and every commit index is on a quorum
(CommitsHold). KVInv: what was applied is in the log below the commit index
(AppliedOK), a pass starts above what was applied (PassOK), what was left out is in
`missed` (Covers), and a call waits at l
for its own entry (CallsOK). AppliedOnce rests on the commit index never going
back while a node lives (CommitGrows), which `last_applied` alone does not give.

**RaftStore.** IInv is TypeOK, ReplicasAgree and
- StatesInv: `states` is the run of Effect over the log, as far as some node has
  applied it; every node's state machine is one of them;
- CallerInv: no two requests are the same call of one client (`by`);
- NameInv: an identity that is not `shared` is that of one client, and the requests
  under it are those of its present RaftStore, none later than the last it
  numbered; with a shared one two requests may have one id;
- ResultInv and ToldInv: a recorded result is the verdict of an entry with that id,
  and a returned one, if its identity is not shared, that of the call itself;
- VersionInv: versions are revisions, so an object that is not the one of an
  earlier state has a version that state had not reached. This is what makes
  compare-and-swap safe against an object that was deleted and created anew, and
  is false if versions are counted per object (the mutant of NoLostUpdate);
- AuthorInv: an UPDATE was made of an object some reached state held, at the
  version it carries.
NoLostUpdate follows: an accepted UPDATE has the version of the object it
replaces, by VersionInv that object is the one its author read, by AuthorInv its
spec is one more. Implements is a step simulation: Apply of a new entry is
TakeEffect (of an entry of `unapplied`, by CallerInv), Propose is Issue, all else
stutters. ReplaysAreNewest adds HistoryInv: the events a state retains have
consecutive revisions, end with its own and are as many as the limit allows
(Contiguous), so that nothing but what lies before them is left out.
AnswersAreRight and WritesAreRead say nothing of a RaftStore whose id() is that of
an earlier or another one; TLC finds both violated there (section 5, (q)).

**WorkQueue.** IInv is TypeOK, QueueConsistent, WorkerInv (the worker has a key
exactly while it reconciles, and does nothing before `start` has ended), StartInv
(a change made before the listing is taken is of an object that will be listed,
or its event has queued it) and FailInv (no key has failed more than MaxFail times
in a row, so that `fail` does not raise when MaxFail < Overflow). NoChangeLost is
preserved from it step by step (LostStep): `done` and `fail` must put a key whose
change arrived during the pass back somewhere as it leaves `processing`, and the
listing must hold what no event has queued.

**Rollout.** The sums over ReplicaSets are folds in the library; the lemmas reason
about them as the number of elements of a finite set (Units), which needs no
induction over data. Base is Typed, KnownInv (only ReplicaSets that a pass has
found are asked for replicas) and ScaleInv (what a pass is still to write lowers
replicas, each write further than the one before). SurgeBounded follows with the
room of a pass being what is left under the limit: only the deployment's worker
writes replicas, so what it summed up is still so, or less, when it writes.

FloorHeld is about one edit without faults. Floored has three parts: until a pass
sees the edit nothing moves (UnseenInv); the ReplicaSet of the new template only
grows (RiseInv with Grows: no pod of it is ever chosen to be deleted); and that of
the first template only shrinks, to what with the new pods that are ready makes up
the floor (FallInv with Drains: neither what it asks for now nor any write still
to come is below Kept, and what the ReplicaSet pass has chosen to delete leaves
that many). Drains must speak of `rs.doomed` and `rs.want` since that pass acts on
counts it read before. The edit may change size and template in any way.

CompleteIsCurrent rests on PassInv (a pass works on the Deployment of the
generation it read, which is the current one until somebody edits it) and
StatusInv (a status that was observed at the current generation is about the
current template). It is kept because spec and generation are read together and a
status is written only for the generation its pass read; an edit makes what was
read or observed an earlier generation.

**Nodes.** IInv is TypeOK, NameInv (a pod is deleted as a whole), AgentInv (a busy
worker is busy with a pod) and HandleInv (a process that is not lost has a handle
in an agent that runs, or a worker that is just stopping it). HandleInv is
NoLostProcess; that processes leave `process` for `lost` in StopPod, StopAgent and
StartPod alone, each where the code's stop raises or its agent is gone, is plain
from these actions. Since names are used again it cannot speak of the
pod the process was started for. NotRevived is a step property: a bind or a phase is
written only where a pod exists, and only CreatePod makes one. NotOvercommitted adds FitInv: the node the scheduler is about to bind
to has room for the pod as the pods are now. It chose the node from what it read
before, but it is the only one that binds, and everybody else only frees room.

**TaskBroker.** IInv adds to TypeOK, OneOwner and TaskIsKept: HandInv (a thread in
the middle of something has a task); RowInv (a queued task has a row, or a thread
is about to write it), without which a restart could lose a queued task;
PublishedInv (a task that was not published is nowhere, so publishing it makes no
second owner); and AttemptInv, of which AttemptsBounded is a part: a task has been
delivered at most once more than its retries count, and no more than they count
while it is queued. The count is raised without a lock, so this rests on OneOwner:
the thread that raises it is the only one to have the task. Steps that move no
task are dealt with once (Quiet), each other step in a lemma of its own.

**ImageBuild.** The invariant adds to IndexClosed what a push has done so far
(PushInv): from the manifest step on the layers are at the destination, from the
index step on the manifest is, and the index that was read names manifests that
are there. It holds for any number of pushes at once, also where one renames what
another has written, since blobs and manifests are never removed and whoever
writes the index has come that far (ClashInv). ClashInv also says that two pushes
with one file open contest it, so that only contested files are `torn`. What can
be lost is a tag, and what a contested file holds may be cut short (section 5, (j)).

For the trees the invariant is TreeInv. A cached layer is right because of what
its key stands for, and a key is a chain, so the invariant must say of every key
of the cache, not only of the build's, which directory it stands for: there is a
function T from keys to trees (Tracks) that gives a base its flattened layers, an
ENV the tree of its parent, and to a key with an entry what the entry's layer,
extracted over the parent's tree, gives. Keys say all (KeysGrow: a key has one
parent and one last step), so T is never in conflict with itself, and the cache
file (SavedInv), the cache in memory and the build (BuildInv: the staging
directory is T of its key, and what its layers give) agree on it for as long as
they live, across builds that die. Three facts about the operators carry the steps.
DiffRestores: the layer of a RUN, cut out by the difference of two snapshots and
extracted over the first, gives the second. CopyRestores: the same for a COPY,
whose layer comes from the paths it wrote. OverlayIsExtract: for a layer that can
be unpacked, the runtime's directory laid over a tree gives what extracting the
layer does. So an image that gains a layer stays one that a container sees as it
was built (OneMoreStep), wherever a push takes it (PushKeeps). With `full`, Tracks
also says that the tree of a key is what its step leaves (Leaves); for a COPY this
is Laid, a function of the key's input alone (KeySaysAll), and that is where
NoEmptyDirs is needed.

**Containers.** CacheInv is LockInv (a helper past the lock holds the lock of one
layer), UnmarkedInv (what is being cleared or unpacked has no marker, which is
what the second look under the lock gives), MarkedIsComplete and ReadyInv (a
creation that succeeded saw all markers). LifeInv is HandshakeInv (P's step tells
how far C has come), CgroupInv (a container with a cgroup has its processes in it
before it has a G) and DeleteIsFinal. Cache and processes are preserved
separately, since no step of one touches the other's variables.

Only model-checked: the liveness properties ChangesAreSeen, RolloutEnds, Recovers
and StartEnds, which are out of the prover's reach. The
RaftKV properties are proved as far as they are true in general, and
model-checked in the same setting. StateMachineSafety, LogMatching without
`torn`, EveryImageUnpacks and linearisable reads are false of the code.

## 5. Findings

Two runs state what the repository says of itself and TLC refutes.

1. `node.py:215,343` (raft_stale_match): a follower answers every successful
   AppendEntries, heartbeats included, with its own last index, and the leader
   takes it for `match_index`. Entries of an older leader at the end of the
   follower's log count as copies of the new leader's: an entry is committed that
   only the leader holds, and can be overwritten.
2. `image.py:234`, `build.py:251` (image_purge): a RUN that removes a directory with
   something in it gives a layer with a whiteout for the directory and one for
   each entry below. `unpack_layer` makes the first a device and then calls
   `makedirs` on it: FileExistsError, the image cannot be run.

Other disagreements were met while modelling and are described here without a run:

- (a) `node.py:253`: `(len(peers) + 2) // 2` is n/2 in an even cluster: two leaders
  in one term. docs/raft-kv.md:62 says ⌈(n+1)/2⌉.
- (b) `node.py:378-379`: after a pass `last_applied` becomes the commit index as it
  is then; what was committed during the pass is never applied on that node, where
  docs/raft-kv.md:91-92 has "all committed but not-yet-applied entries", "in strict
  index order". AppliedInOrder says what is left: never twice, never backwards, and
  nothing is left out but what was committed during a pass (`missed`).
- (c) `node.py:131`: `wait_for_commit` waits for an index; a deposed leader answers
  ok for another leader's entry.
- (d) `server.py:70`: Get reads the applied store and Set answers at the commit
  index, so a read after an acknowledged write can miss it (docs/raft-kv.md:93
  calls reads linearisable). RaftStore avoids (c) and (d): it waits until its node
  has applied the index and looks for its own request id.
- (e) `controller.py:131`: `base_delay * 2 ** (count - 1)` raises OverflowError at
  the 1025th failure in a row, outside the worker's `try`: the key is dropped and
  the controller's only worker thread ends. `node_agent.py:163` has the same.
- (f) `server.py:223`, `worker.py:203`: a worker acknowledges a task before it runs
  it, and the NACK of a task that fails finds nothing to requeue: it is not
  retried, although docs/taskqueue.md:84,146 describe retries by NACK.
- (g) `server.py:291`: an answer read before the dispatcher has recorded the
  delivery leaves it pending until the reaper has a finished task run again;
  `queue.py:77,97`: the INSERT of `enqueue` may come after the dispatcher's DELETE,
  so that a restart runs again what was finished. AttemptsBounded counts from the
  start of the broker for that reason.
- (h) `workloads.py:104-110`, `:229-249`: when a rollout is turned back, the
  ReplicaSet pass may delete pods by a `desired` it read before, and a ready pod
  too many goes; modules/orchestrator/README.md:159 says "never drop a replica" of
  these settings. FloorHeld is about one edit for that reason.
- (i) `workloads.py:209`: with maxSurge and maxUnavailable both 0 there is neither
  room to add nor surplus to remove, and a rollout never starts.
- (j) `image-toolkit store.py:139,204`: two pushes or builds that read the index
  together lose one tag. `store.py:92-95,113-117`: they also share one temporary
  name per blob and for the index; one renames what the other has just emptied, so
  that a blob or the index is in place cut short, until the other has written on
  or for good if it dies, and the other's rename raises FileNotFoundError. "same
  content, same path, same bytes" (`store.py:85`) is then false for a while.
  IndexClosed says what is left: names are there, and only such files are cut short.
- (k) `container.py:238`: a child forked while another container starts inherits the
  ends of its pipes; a start whose child dies then waits until the other container
  ends. StartEnds names exactly this exception.
- (l) `container.py:341-354`: between the fork of G and the installation of its
  relays, C dies of a SIGTERM; G then runs unsupervised, which the comment there
  (343-345) means to exclude. Delete still ends it by the cgroup; without one
  nothing does.
- (m) `node_agent.py:222`, `cluster.py:56`: pods of a node that was removed
  gracefully are never evicted, and a node that was lost cannot be added again,
  since its object still exists.
- (n) `node.py:326-327`: `_replicate` reads `prev_term` and then the entries without
  the lock, and in between a handler may have replaced part of the log: a leader
  that was deposed meanwhile sends its successor's entries under its own term
  after the term of an entry that is gone. docs/raft-kv.md:171, "Log Matching | If
  two logs agree at index N, they agree on all entries ≤ N", is then false:
  RaftMixedLog.cfg (not among the runs; 95 s) finds it with five nodes in 36
  states. n3 leads term 1 and gives x to n1; n1 leads term 2 and reads x's term for
  its call to n3; n2, elected in term 3, overwrites n1's log with y, z; n1 goes on
  and sends z as what follows x, which n3 has: the logs x, z and y, z hold one last
  entry. n3 then counts as up to date in an election. OneEntryPerTerm is what
  remains true, and LogsMatch until then.
- (o) `build.py:525,597`: where a directory is copied and the destination has a
  directory at the name of one of its files, `copy2` puts the file into that
  directory, while the layer records the directory: the file is missing from the
  image, and a hit of the same step loses it in the build too (Straight).
  `build.py:463`: the hash of a COPY names no directories, so a step whose source
  gained or lost only an empty one is a hit with the old layer (NoEmptyDirs).
- (p) `store.py:384-385`: RaftStore.events_since refuses no revision: who asks from
  before the retained events gets the newest ones and is not told of the gap, the
  "silent gap" that `store.py:17-20` and `:162-168` exclude, as does
  modules/orchestrator/README.md:182, "refuses to serve a gap it cannot fill". Only
  MemoryStore refuses. ReplayIsNewest says what is left: nothing else is missing.
- (q) `store.py:328,334`: request ids are the `id()` of the RaftStore and a counter
  from 0, and `_results` (`:348`) is filled again from the replayed log. A RaftStore
  that has the address of an earlier one, of this node or of another, waits for
  "its" result and may be given that of an old request with the same id, before its
  own command is applied or although it was lost. Without the condition on `shared`
  TLC finds AnswersAreTrue and ReadsItsWrite violated.
- (r) `node_agent.py:78-80,84-86,111-112`: the handle is popped before
  `runtime.stop`, which may raise (`runtime.py:124-129`); the next reconcile finds no
  handle, and if the pod is still meant for the node it starts a second process.
  `stop` (`:63-68`) swallows the exception and clears the handles. `controller.py:215`
  waits two seconds for the worker: a start that takes longer puts its handle
  into a table nobody looks at. The process runs on, though `node_agent.py:76-77`
  calls this "the only place a running process is reaped".
- (s) `mounts.py:107`: an image with the same layer twice (a step undone and done
  again gives the same bytes) lists one lower directory twice, which overlayfs
  refuses: it cannot be run. MountedAsBuilt is about images that mount.

## 6. Plan

Done: all modules of section 2 with their runs and proofs.

Left, in this order: properties of the broker over restarts, and its liveness, once
(f) and (g) are settled in the code; the abstract task lifecycle for it to
implement; several builders on one store.

## 7. Not modelled

- Command lines, `ctl`, dashboards, measurement (`coldstart.py`), gRPC and its
  generated stubs, the client of raft-kv with its redirects: I/O without state of
  its own.
- Parsing and serialisation: Dockerfile, manifests, tar bytes, protocol frames
  (`protocol.py:69` loses the bytes of a partial frame on a timeout; a message
  arrives whole or not at all here).
- taskqueue's result backend: single SQL statements on a table the broker does not
  use; and results on their way to clients (nothing ever fills
  `_result_listeners`).
- The kernel: what mounts, namespaces, ID maps and netlink do. Their failure is a
  fault of the step that calls them.
- What a file holds after a power failure (`log.py:144` rewrites without fsync).
- Scores of the scheduler, backoff delays, readiness delays, priorities and due
  times: they choose among steps the models leave open.
- Watch handlers of the stores beyond the event that reaches a work queue;
  selectors; `snapshot` and `restore`, which nothing calls.
