----------------------------- MODULE RaftStore -----------------------------
(***************************************************************************)
(* The replicated object store of the orchestrator.  Every node of a Raft   *)
(* cluster applies the committed commands to its ObjectStateMachine; the    *)
(* clients are the controllers of the nodes, each with the RaftStore of its *)
(* own node: they read that node's state machine and propose through it.    *)
(*                                                                          *)
(* The Raft log is external here and is what its users are promised: a      *)
(* proposal that was accepted is committed, at some time, or lost, and      *)
(* every node applies the committed log in order and completely.  (RaftKV   *)
(* examines raft-kv itself.)                                                *)
(***************************************************************************)
EXTENDS ObjectStates

CONSTANTS
    Client,      \* the controllers that write
    Node,        \* the nodes of the Raft cluster
    Home,        \* the node of each client
    Fresh,       \* the spec a client creates objects with
    Identity,    \* what id() says of a RaftStore: its address
    MayHave,     \* the identities that the RaftStores of a client may have
    Attempts,    \* update_with_retry gives up after so many conflicts
    MaxCalls,    \* bound: the requests of each client
    Restarting,  \* the nodes that may restart
    MaxRestarts  \* bound: restarts of nodes

ASSUME HomeAssumption == Home \in [Client -> Node] /\ Restarting \subseteq Node
ASSUME FreshAssumption == Fresh \in [Client -> Nat]
ASSUME IdentityAssumption == MayHave \in [Client -> SUBSET Identity]
ASSUME BoundAssumption == MaxCalls \in [Client -> Nat] /\ {Attempts, MaxRestarts} \subseteq Nat

VARIABLES
    log,        \* the committed commands, each with the id of its request
    inflight,   \* accepted proposals that are not committed yet
    applied,    \* per node: how much of the log its state machine has seen
    sm,         \* per node: ObjectStateMachine's objects, revision, history
    results,    \* per node: ObjectStateMachine._results
    pc, call,   \* per client: where it is, and the call it is making
    counter,    \* per client: RaftStore._counter
    identity,   \* per client: the id() of its RaftStore
    restarts,
    calls,      \* history: how many requests each client made, in all
    taken,      \* history: the identities that RaftStores had
    shared,     \* history: those that more than one of them had
    states,     \* history: the store after every prefix of the log, as the
                \* first node to apply it has it
    told        \* history: what the last call of a client returned, if it did

naming     == <<counter, identity, calls, taken, shared>>
clientVars == <<pc, call, naming>>
machine    == <<applied, sm, results>>
vars == <<log, inflight, machine, clientVars, restarts, states, told>>

(* A request carries the id that its RaftStore gave it; by is history and    *)
(* says whose request it is, whatever the ids are.                          *)
Outcome == {"ok", "AlreadyExistsError", "NotFoundError", "ConflictError"}
Request == Identity \X Nat
Caller  == Client \X Nat
Entry   == [id: Request, by: Caller, command: Command]
Result  == [id: Request, outcome: Outcome]
Place   == {"idle", "propose", "wait"}
NoCall == [command |-> [verb |-> "DELETE", key |-> CHOOSE k \in Key : TRUE,
                        version |-> 0, spec |-> 0], tries |-> 1]   \* between calls

(* The store its users see: the furthest any node has ever applied.         *)
latest == states[Len(states)]

(* The calls under way: proposals, committed or not, that no node applied.  *)
unapplied == inflight \cup {log[i] : i \in Len(states)..Len(log)}

Contract == INSTANCE ObjectStore WITH store <- latest, open <- unapplied

Init ==
    /\ log = <<>>
    /\ inflight = {}
    /\ applied = [n \in Node |-> 0]
    /\ sm = [n \in Node |-> EmptyStore]
    /\ results = [n \in Node |-> {}]
    /\ pc = [c \in Client |-> "idle"]
    /\ call = [c \in Client |-> NoCall]
    /\ counter = [c \in Client |-> 0]
    /\ identity \in [Client -> Identity]
    /\ \A c \in Client : identity[c] \in MayHave[c]
    /\ calls = [c \in Client |-> 0]
    /\ taken = {identity[c] : c \in Client}
    /\ shared = {identity[c] : c \in {c \in Client : \E d \in Client \ {c} :
                                                         identity[d] = identity[c]}}
    /\ restarts = 0
    /\ states = <<EmptyStore>>
    /\ told = [c \in Client |-> {}]

-----------------------------------------------------------------------------
(* The Raft member.  A proposal that is lost, because its leader was        *)
(* deposed, is one that is never committed.                                 *)

Commit(e) ==
    /\ e \in inflight
    /\ inflight' = inflight \ {e}
    /\ log' = Append(log, e)
    /\ UNCHANGED <<machine, clientVars, restarts, states, told>>

(* ObjectStateMachine.apply: the verdict is reached here, on every node, and *)
(* replaces the one that _results may hold under the same id.               *)
Apply(n) ==
    /\ applied[n] < Len(log)
    /\ LET e == log[applied[n] + 1]
       IN  /\ applied' = [applied EXCEPT ![n] = @ + 1]
           /\ sm' = [sm EXCEPT ![n] = Effect(sm[n], e.command)]
           /\ results' = [results EXCEPT ![n] =
                   {r \in @ : r.id # e.id}
                       \cup {[id |-> e.id, outcome |-> Verdict(sm[n], e.command)]}]
           /\ states' = IF applied[n] + 1 = Len(states)
                        THEN Append(states, Effect(sm[n], e.command)) ELSE states
    /\ UNCHANGED <<log, inflight, clientVars, restarts, told>>

(* The controllers of a node start over: their RaftStores count from zero   *)
(* again, and each has the address where it happens to be, which may be     *)
(* that of an earlier RaftStore, of this node or of another.                *)
StartOver(cs) ==
    /\ pc' = [c \in Client |-> IF c \in cs THEN "idle" ELSE pc[c]]
    /\ call' = [c \in Client |-> IF c \in cs THEN NoCall ELSE call[c]]
    /\ counter' = [c \in Client |-> IF c \in cs THEN 0 ELSE counter[c]]
    /\ identity' \in [Client -> Identity]
    /\ \A c \in Client :
         IF c \in cs THEN identity'[c] \in MayHave[c] ELSE identity'[c] = identity[c]
    /\ taken' = taken \cup {identity'[c] : c \in cs}
    /\ shared' = shared \cup
           {identity'[c] : c \in {c \in cs : \/ identity'[c] \in taken
                                            \/ \E d \in cs \ {c} : identity'[d] = identity'[c]}}
    /\ UNCHANGED calls

Homed(n) == {c \in Client : Home[c] = n}

(* Mutant of Restart: the log is replayed onto what is still there.         *)
RestartDirty(n) ==
    /\ restarts < MaxRestarts
    /\ restarts' = restarts + 1
    /\ applied' = [applied EXCEPT ![n] = 0]
    /\ results' = [results EXCEPT ![n] = {}]
    /\ StartOver(Homed(n))
    /\ UNCHANGED <<log, inflight, sm, states, told>>

(* The node restarts: its state machine is empty and the log is replayed.   *)
Restart(n) ==
    /\ restarts < MaxRestarts
    /\ restarts' = restarts + 1
    /\ applied' = [applied EXCEPT ![n] = 0]
    /\ sm' = [sm EXCEPT ![n] = EmptyStore]
    /\ results' = [results EXCEPT ![n] = {}]
    /\ StartOver(Homed(n))
    /\ UNCHANGED <<log, inflight, states, told>>

-----------------------------------------------------------------------------
(* RaftStore: the calls of a client.                                        *)

Here(c) == sm[Home[c]]

Goto(c, place) == pc' = [pc EXCEPT ![c] = place]

Return(c) == Goto(c, "idle") /\ call' = [call EXCEPT ![c] = NoCall]

(* update_with_retry reads this node's state machine and mutates the copy:  *)
(* here it counts the spec up.                                              *)
Read(c, k, tries) ==
    LET current == Here(c).objects[k]
    IN  IF current = Absent THEN Return(c)
        ELSE /\ Goto(c, "propose")
             /\ call' = [call EXCEPT ![c] =
                    [command |-> [verb |-> "UPDATE", key |-> k, version |-> current.version,
                                  spec |-> current.spec + 1],
                     tries   |-> tries]]

UpdateWithRetry(c, k) ==
    /\ pc[c] = "idle"
    /\ calls[c] < MaxCalls[c]
    /\ Read(c, k, 1)
    /\ UNCHANGED <<log, inflight, machine, naming, restarts, states, told>>

(* A ConflictError: only update_with_retry reads and tries again.           *)
Retry(c) ==
    IF call[c].command.verb = "UPDATE" /\ call[c].tries < Attempts
    THEN Read(c, call[c].command.key, call[c].tries + 1)
    ELSE Return(c)

(* _propose numbers the request; a node that believes it is the leader      *)
(* takes the command, another one raises ConflictError.                     *)
Submit(c, command, tries) ==
    /\ calls[c] < MaxCalls[c]
    /\ calls' = [calls EXCEPT ![c] = @ + 1]
    /\ counter' = [counter EXCEPT ![c] = @ + 1]
    /\ \/ /\ inflight' = inflight \cup {[id |-> <<identity[c], counter[c] + 1>>,
                                          by |-> <<c, calls[c] + 1>>, command |-> command]}
          /\ Goto(c, "wait")
          /\ call' = [call EXCEPT ![c] = [command |-> command, tries |-> tries]]
       \/ /\ Retry(c)
          /\ UNCHANGED inflight
    /\ told' = [told EXCEPT ![c] = {}]
    /\ UNCHANGED <<log, machine, identity, taken, shared, restarts, states>>

Propose(c) == pc[c] = "propose" /\ Submit(c, call[c].command, call[c].tries)

Create(c, k) ==
    /\ pc[c] = "idle"
    /\ Submit(c, [verb |-> "CREATE", key |-> k, version |-> 0, spec |-> Fresh[c]], 1)

Delete(c, k) ==
    /\ pc[c] = "idle"
    /\ Submit(c, [verb |-> "DELETE", key |-> k, version |-> 0, spec |-> 0], 1)

RequestId(c) == <<identity[c], counter[c]>>

(* Mutant of Found: the verdict of any node that has applied the entry.     *)
FoundAnywhere(c) == {r \in UNION {results[n] : n \in Node} : r.id = RequestId(c)}

(* Mutant of Found: the latest verdict, whoever asked.                      *)
FoundLatest(c) ==
    IF applied[Home[c]] = 0 THEN {}
    ELSE {r \in results[Home[c]] : r.id = log[applied[Home[c]]].id}

(* Where _propose looks for its verdict: in this node's state machine,      *)
(* which knows it once the entry is applied here.  That it waits for the    *)
(* commit index before says nothing more: the proposal may be lost and the  *)
(* index another one's.                                                     *)
Found(c) == {r \in results[Home[c]] : r.id = RequestId(c)}

Answer(c) ==
    /\ pc[c] = "wait"
    /\ \E r \in Found(c) :
         /\ told' = [told EXCEPT ![c] = {[id |-> r.id, by |-> <<c, calls[c]>>,
                                          outcome |-> r.outcome, at |-> applied[Home[c]]]}]
         /\ IF r.outcome = "ConflictError" THEN Retry(c) ELSE Return(c)
    /\ UNCHANGED <<log, inflight, machine, naming, restarts, states>>

(* TimeoutError: the entry did not commit, or was not applied, in time.  It *)
(* may still be; update_with_retry does not catch this.                     *)
TimeOut(c) ==
    /\ pc[c] = "wait"
    /\ Return(c)
    /\ UNCHANGED <<log, inflight, machine, naming, restarts, states, told>>

Next ==
    \/ \E e \in inflight : Commit(e)
    \/ \E n \in Node : Apply(n)
    \/ \E n \in Restarting : Restart(n)
    \/ \E c \in Client :
         \/ \E k \in Key : Create(c, k) \/ Delete(c, k) \/ UpdateWithRetry(c, k)
         \/ Propose(c) \/ Answer(c) \/ TimeOut(c)

Spec == Init /\ [][Next]_vars

-----------------------------------------------------------------------------
(* Properties *)

(* Every variable has its type.                                             *)
TypeOK ==
    /\ log \in Seq(Entry)
    /\ inflight \subseteq Entry
    /\ applied \in [Node -> Nat]
    /\ sm \in [Node -> Store]
    /\ results \in [Node -> SUBSET Result]
    /\ pc \in [Client -> Place]
    /\ call \in [Client -> [command: Command, tries: Nat]]
    /\ counter \in [Client -> Nat]
    /\ identity \in [Client -> Identity]
    /\ calls \in [Client -> Nat]
    /\ taken \subseteq Identity /\ shared \subseteq Identity
    /\ restarts \in Nat
    /\ told \in [Client -> SUBSET [id: Request, by: Caller, outcome: Outcome, at: Nat]]

(* Nodes never disagree: whatever a node has applied, before or after a     *)
(* restart, it holds the store every other node held at that index          *)
(* (store.py:211-217, the comparison "inside apply").                       *)
ReplicasAgree ==
    \A n \in Node : applied[n] < Len(states) /\ sm[n] = states[applied[n] + 1]

(* What a call returned is the verdict its own command met in the log, also *)
(* when calls timed out, leaders changed and nodes restarted meanwhile and  *)
(* the log is replayed (store.py:340-343) -- for a RaftStore whose id() no  *)
(* other RaftStore has had, of this process or of another.  With one that   *)
(* is taken over, the requests are numbered as some in the log are          *)
(* (store.py:328,334), and a call may return what those met.                *)
AnswersAreTrue ==
    \A c \in Client : \A t \in told[c] :
        t.id[1] \notin shared =>
            \E i \in 1..Len(states) - 1 :
                log[i].by = t.by /\ t.outcome = Verdict(states[i], log[i].command)

(* Once a call has returned, reads through the same RaftStore see its       *)
(* effect: the node had applied the call's own entry when it answered       *)
(* (store.py:343), if its identity is its own.                              *)
ReadsItsWrite ==
    \A c \in Client : \A t \in told[c] :
        t.id[1] \notin shared => \E i \in 1..t.at : i <= Len(log) /\ log[i].by = t.by

(* No update is lost: an accepted UPDATE counts up the value the object had *)
(* when it was accepted, also when the object was deleted and created anew  *)
(* since it was read (store.py:6, "a silent lost update").                  *)
NoLostUpdate ==
    \A i \in 1..Len(states) - 1 :
        LET c == log[i].command
        IN  c.verb = "UPDATE" /\ Verdict(states[i], c) = "ok"
            => c.spec = states[i].objects[c.key].spec + 1

(* RaftStore.events_since answers with the newest events after r, each      *)
(* once and without a hole between them, on every node and also while the   *)
(* log is replayed: what a follower of the history can miss is only what    *)
(* lies before the HistoryLimit newest revisions (store.py:284-292).        *)
ReplayIsNewest ==
    \A n \in Node : \A r \in 0..sm[n].revision :
        {e.revision : e \in EventsSince(sm[n], r)} =
            {v \in (r + 1)..sm[n].revision : v > sm[n].revision - HistoryLimit}

(* The replicated store keeps the contract of the store: its writes take    *)
(* effect one at a time, each against the object as it is.                  *)
KeepsContract == Contract!Spec
=============================================================================
