----------------------------- MODULE WorkQueue -----------------------------
(***************************************************************************)
(* The reconciliation loop of the orchestrator: a Controller with its       *)
(* WorkQueue, worker thread and resync thread, and the store's writers,     *)
(* whose watch events call WorkQueue.add from their own threads.            *)
(*                                                                          *)
(* Every WorkQueue method is atomic: it holds the queue's condition.  A     *)
(* write and the delivery of its event are one step as well, because the    *)
(* store delivers events under the lock that readers need.  What a          *)
(* reconcile does is left open: it reads the object first, and then returns *)
(* None, returns a delay, or raises.  Interesting() is the identity here:   *)
(* the key an event maps to is the key of the object it is about.           *)
(*                                                                          *)
(* Time is abstracted: a delay expires whenever the clock is looked at.     *)
(***************************************************************************)
EXTENDS Naturals, Sequences, FiniteSets

CONSTANTS
    Key,        \* the keys of the objects in the store
    Nil,        \* Python's None
    Lossy,      \* the keys whose watch events may get lost
    Overflow,   \* the failure count whose backoff no longer fits a float
    MaxWrite,   \* bound: writes to the store
    MaxFail     \* bound: failed reconciles of a key in a row

ASSUME KeyAssumption == IsFiniteSet(Key) /\ Nil \notin Key /\ Lossy \subseteq Key
ASSUME LimitAssumption == Overflow \in Nat /\ MaxWrite \in Nat /\ MaxFail \in Nat

VARIABLES
    pending, queued, processing, dirty, failures,   \* WorkQueue's fields
    delayed, due,      \* WorkQueue._delayed, and those whose time has come
    stage,             \* how far start and stop have come
    toAdd,             \* start(): the listed keys still to be added
    resyncing,         \* _resync(): the same
    pc, at,            \* the worker thread and its key
    objects,           \* the keys that exist in the store
    unseen,            \* history: changed since a completed reconcile read them
    missed,            \* history: those of them whose event got lost
    writes

queue == <<pending, queued, processing, dirty, failures, delayed, due>>
world == <<objects, writes>>
vars  == <<queue, stage, toAdd, resyncing, pc, at, world, unseen, missed>>

Stage == {"new", "watching", "listing", "working", "stopped"}
Place == {"check", "get", "read", "act", "done", "exited", "dead"}

TypeOK ==
    /\ pending \in Seq(Key)
    /\ queued \subseteq Key
    /\ processing \subseteq Key
    /\ dirty \subseteq Key
    /\ failures \in [Key -> Nat]
    /\ due \subseteq delayed
    /\ delayed \subseteq Key
    /\ stage \in Stage
    /\ toAdd \subseteq Key
    /\ resyncing \subseteq Key
    /\ pc \in Place
    /\ at \in Key \cup {Nil}
    /\ objects \subseteq Key
    /\ missed \subseteq unseen
    /\ unseen \subseteq Key
    /\ writes \in Nat

-----------------------------------------------------------------------------
(* WorkQueue *)

Enqueue(k) ==
    /\ queued' = queued \cup {k}
    /\ pending' = Append(pending, k)

(* Mutant of AddQueued: a key that is queued is queued again.               *)
AddAnyway(k) ==
    /\ k \notin processing
    /\ Enqueue(k)
    /\ UNCHANGED dirty

AddQueued(k) ==
    /\ k \notin processing
    /\ IF k \in queued THEN UNCHANGED <<pending, queued>> ELSE Enqueue(k)
    /\ UNCHANGED dirty

(* add: a key that is being reconciled is only marked.                      *)
Add(k) ==
    /\ \/ /\ k \in processing
          /\ dirty' = dirty \cup {k}
          /\ UNCHANGED <<pending, queued>>
       \/ AddQueued(k)
    /\ missed' = missed \ {k}
    /\ UNCHANGED <<processing, failures, delayed, due>>

(* The orders in which a set of keys can be appended.                       *)
Orders(S) ==
    {s \in [1..Cardinality(S) -> S] :
        /\ \A k \in S : \E i \in DOMAIN s : s[i] = k
        /\ \A i, j \in DOMAIN s : s[i] = s[j] => i = j}

(* get: every key that is due moves to the queue, unless it is there or in  *)
(* flight already; then the head of the queue is taken.                     *)
Woken == due \ (queued \cup processing)

(* Mutant of Take: a deadline that was acted on is not cleared.             *)
TakeAgain(line) ==
    /\ pending' = Tail(line)
    /\ queued' = (queued \cup Woken) \ {Head(line)}
    /\ processing' = processing \cup {Head(line)}
    /\ delayed' = delayed \ due
    /\ UNCHANGED <<dirty, failures, due>>

Take(line) ==
    /\ pending' = Tail(line)
    /\ queued' = (queued \cup Woken) \ {Head(line)}
    /\ processing' = processing \cup {Head(line)}
    /\ delayed' = delayed \ due
    /\ due' = {}
    /\ UNCHANGED <<dirty, failures>>

(* Mutant of Requeue: what was marked during the pass is forgotten.         *)
Forget(k, again) ==
    /\ dirty' = dirty \ {k}
    /\ delayed' = IF again THEN delayed \cup {k} ELSE delayed
    /\ UNCHANGED <<pending, queued>>

(* The end of done: a key marked dirty goes back to the queue, another one  *)
(* waits if reconcile asked for it; an earlier deadline is kept.            *)
Requeue(k, again) ==
    \/ /\ k \in dirty
       /\ dirty' = dirty \ {k}
       /\ IF k \in queued THEN UNCHANGED <<pending, queued>> ELSE Enqueue(k)
       /\ UNCHANGED delayed
    \/ /\ k \notin dirty
       /\ delayed' = IF again THEN delayed \cup {k} ELSE delayed
       /\ UNCHANGED <<pending, queued, dirty>>

(* fail: the count grows, and the key waits for its backoff, a new deadline *)
(* replacing an earlier one.  When 0.05 * 2 ** (count - 1) does not fit a   *)
(* float the method raises before it sets the deadline.                     *)
Backoff(k) ==
    /\ processing' = processing \ {k}
    /\ failures' = [failures EXCEPT ![k] = @ + 1]
    /\ IF failures[k] + 1 >= Overflow THEN UNCHANGED <<delayed, due>>
       ELSE delayed' = delayed \cup {k} /\ due' = due \ {k}
    /\ UNCHANGED <<pending, queued, dirty>>

(* A deadline in _delayed passes.                                           *)
Expire(k) ==
    /\ k \in delayed \ due
    /\ due' = due \cup {k}
    /\ UNCHANGED <<pending, queued, processing, dirty, failures, delayed,
                   stage, toAdd, resyncing, pc, at, world, unseen, missed>>

-----------------------------------------------------------------------------
(* Controller.start and stop *)

Watch ==
    /\ stage = "new"
    /\ stage' = "watching"
    /\ UNCHANGED <<queue, toAdd, resyncing, pc, at, world, unseen, missed>>

List ==
    /\ stage = "watching"
    /\ stage' = "listing"
    /\ toAdd' = objects
    /\ UNCHANGED <<queue, resyncing, pc, at, world, unseen, missed>>

AddListed(k) ==
    /\ stage = "listing"
    /\ k \in toAdd
    /\ toAdd' = toAdd \ {k}
    /\ Add(k)
    /\ UNCHANGED <<stage, resyncing, pc, at, world, unseen>>

StartThreads ==
    /\ stage = "listing"
    /\ toAdd = {}
    /\ stage' = "working"
    /\ UNCHANGED <<queue, toAdd, resyncing, pc, at, world, unseen, missed>>

(* stop: _running is cleared, the watch cancelled, the queue closed.        *)
Stop ==
    /\ stage = "working"
    /\ stage' = "stopped"
    /\ UNCHANGED <<queue, toAdd, resyncing, pc, at, world, unseen, missed>>

-----------------------------------------------------------------------------
(* The worker thread *)

Check ==
    /\ stage \in {"working", "stopped"}
    /\ pc = "check"
    /\ pc' = IF stage = "working" THEN "get" ELSE "exited"
    /\ UNCHANGED <<queue, stage, toAdd, resyncing, at, world, unseen, missed>>

Get ==
    /\ pc = "get"
    /\ \E s \in Orders(Woken) :
          /\ pending \o s # << >>
          /\ Take(pending \o s)
          /\ at' = Head(pending \o s)
    /\ pc' = "read"
    /\ UNCHANGED <<stage, toAdd, resyncing, world, unseen, missed>>

(* get returns None: nothing is queued or due until its deadline.           *)
GetNothing ==
    /\ pc = "get"
    /\ pending = << >>
    /\ due = {}
    /\ pc' = "check"
    /\ UNCHANGED <<queue, stage, toAdd, resyncing, at, world, unseen, missed>>

(* reconcile reads the object: from here on a change is news to it.         *)
Read ==
    /\ pc = "read"
    /\ pc' = "act"
    /\ unseen' = unseen \ {at}
    /\ missed' = missed \ {at}
    /\ UNCHANGED <<queue, stage, toAdd, resyncing, at, world>>

Succeed ==
    /\ pc = "act"
    /\ pc' = "done"
    /\ failures' = [failures EXCEPT ![at] = 0]
    /\ UNCHANGED <<pending, queued, processing, dirty, delayed, due, stage,
                   toAdd, resyncing, at, world, unseen, missed>>

Done ==
    /\ pc = "done"
    /\ pc' = "check"
    /\ at' = Nil
    /\ processing' = processing \ {at}
    /\ \E again \in BOOLEAN : Requeue(at, again)
    /\ UNCHANGED <<failures, due, stage, toAdd, resyncing, world, unseen,
                   missed>>

(* reconcile raised: the change it read has had no effect yet.  An          *)
(* exception inside fail ends the thread.                                   *)
Fail ==
    /\ pc = "act"
    /\ failures[at] < MaxFail
    /\ Backoff(at)
    /\ pc' = IF failures[at] + 1 >= Overflow THEN "dead" ELSE "check"
    /\ at' = Nil
    /\ unseen' = unseen \cup {at}
    /\ UNCHANGED <<stage, toAdd, resyncing, world, missed>>

-----------------------------------------------------------------------------
(* The resync thread *)

(* Mutant of Resynced: a resync finds nothing.                              *)
NothingListed == {}

Resynced == objects

ListAgain ==
    /\ stage = "working"
    /\ resyncing = {}
    /\ resyncing' = Resynced
    /\ UNCHANGED <<queue, stage, toAdd, pc, at, world, unseen, missed>>

AddAgain(k) ==
    /\ k \in resyncing
    /\ resyncing' = resyncing \ {k}
    /\ Add(k)
    /\ UNCHANGED <<stage, toAdd, pc, at, world, unseen>>

-----------------------------------------------------------------------------
(* Writers of the store: an object is created, changed or deleted *)

Heard == stage \in {"watching", "listing", "working"}

Write(k) ==
    /\ writes < MaxWrite
    /\ writes' = writes + 1
    /\ \E there \in BOOLEAN :
          /\ k \in objects \/ there
          /\ objects' = IF there THEN objects \cup {k} ELSE objects \ {k}
    /\ \/ /\ Heard
          /\ Add(k)
          /\ unseen' = unseen \cup {k}
       \/ /\ Heard
          /\ k \in Lossy      \* the handler raised
          /\ missed' = missed \cup {k}
          /\ unseen' = unseen \cup {k}
          /\ UNCHANGED queue
       \/ /\ stage = "new"
          /\ unseen' = objects'
          /\ UNCHANGED <<queue, missed>>
       \/ /\ stage = "stopped"
          /\ unseen' = unseen \cup {k}
          /\ UNCHANGED <<queue, missed>>
    /\ UNCHANGED <<stage, toAdd, resyncing, pc, at>>

-----------------------------------------------------------------------------
Init ==
    /\ pending = << >>
    /\ queued = {} /\ processing = {} /\ dirty = {}
    /\ delayed = {} /\ due = {}
    /\ failures = [k \in Key |-> 0]
    /\ stage = "new"
    /\ toAdd = {} /\ resyncing = {}
    /\ pc = "check"
    /\ at = Nil
    /\ objects \in SUBSET Key
    /\ unseen = objects
    /\ missed = {}
    /\ writes = 0

Worker == Check \/ Get \/ GetNothing \/ Read \/ Succeed \/ Done \/ Fail
Start  == Watch \/ List \/ StartThreads \/ \E k \in Key : AddListed(k)
Resync == ListAgain \/ \E k \in Key : AddAgain(k)

Next ==
    \/ Worker \/ Start \/ Resync \/ Stop
    \/ \E k \in Key : Expire(k) \/ Write(k)

Spec == Init /\ [][Next]_vars

(* The threads run; time passes.  Nothing obliges anyone to write or stop.  *)
FairSpec ==
    /\ Spec
    /\ WF_vars(Worker) /\ WF_vars(Start)
    /\ WF_vars(ListAgain)
    /\ \A k \in Key : WF_vars(AddAgain(k)) /\ WF_vars(Expire(k))

-----------------------------------------------------------------------------
(* Properties *)

(* The list and the sets agree: no key is queued twice, and none is queued   *)
(* and in flight at once (the WorkQueue docstring's three states).           *)
QueueConsistent ==
    /\ \A k \in Key : k \in queued <=> \E i \in DOMAIN pending : pending[i] = k
    /\ \A i, j \in DOMAIN pending : pending[i] = pending[j] => i = j
    /\ queued \cap processing = {}
    /\ processing = {k \in Key : pc \in {"read", "act", "done"} /\ k = at}

(* A change whose event arrived, or that the initial listing found, is never *)
(* forgotten, even when it arrives during a reconcile that read the object   *)
(* before it or during one that fails (the WorkQueue docstring: collapsing   *)
(* the sets "lets a change that arrives mid-reconcile be lost").             *)
NoChangeLost ==
    stage \in {"listing", "working"} =>
        \A k \in unseen \ missed :
            \/ k \in queued \cup delayed \cup toAdd
            \/ k \in dirty \cap processing
            \/ k = at /\ pc = "read"

(* Every change is reconciled in the end unless the controller is stopped:   *)
(* the retries, the delays and, for an object that exists, the resync that   *)
(* makes up for a lost event (docs/orchestrator.md, "latency until next      *)
(* resync").                                                                 *)
ChangesAreSeen ==
    \A k \in Key :
        k \in unseen ~> \/ k \notin unseen
                        \/ stage = "stopped"
                        \/ k \in missed /\ k \notin objects
=============================================================================
