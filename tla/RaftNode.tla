------------------------------ MODULE RaftNode ------------------------------
(***************************************************************************)
(* The consensus core of raft-kv: every RaftNode of a cluster, the thread   *)
(* that drives each of them, the two RPC handlers and the RPCs in between.  *)
(*                                                                          *)
(* Each node has ONE ticker thread (RaftNode._loop).  It runs elections,    *)
(* replication rounds and the apply pass one after the other, and calls its *)
(* peers synchronously, so a node has at most one RPC under way.  The node  *)
(* lock is released across every call; the handlers run on the server's     *)
(* threads meanwhile and each is atomic under the lock.  The variables pc   *)
(* and local are the ticker's program counter and its local variables: what *)
(* it read under the lock and uses after releasing it.                      *)
(*                                                                          *)
(* The apply pass of the same thread writes only last_applied and the state *)
(* machine, which nothing here reads: module RaftKV models it, and here it  *)
(* is part of the time a ticker spends between two passes.                  *)
(*                                                                          *)
(* Time is abstracted: an election timeout, a heartbeat interval and an RPC *)
(* deadline may expire whenever the thread could observe them.              *)
(***************************************************************************)
EXTENDS Integers, Sequences, FiniteSets

CONSTANTS
    Node,        \* the cluster's members
    Command,     \* commands that clients propose
    Nil,         \* Python's None
    PeerOrder,   \* <<p, q>>: every node's dict of peers lists p before q
    MayStand,    \* bound: the <<node, term>> elections that may be started
    MayPropose,  \* bound: the <<node, index>> proposals that may be made
    Reaches,     \* bound: <<p, q>>: the network lets calls of p through to q
    MaxLate,     \* bound: requests outliving their caller's deadline at once
    MaxRestart   \* bound: crashes in one behaviour

ASSUME NodeAssumption ==
    /\ IsFiniteSet(Node)
    /\ Cardinality(Node) > 1    \* a node without peers never calls _become_leader
    /\ Nil \notin Node
ASSUME OrderAssumption == PeerOrder \subseteq Node \X Node
ASSUME BoundAssumption ==
    /\ Reaches \subseteq Node \X Node
    /\ MayStand \subseteq Node \X Nat
    /\ MayPropose \subseteq Node \X Nat
    /\ MaxLate \in Nat
    /\ MaxRestart \in Nat

VARIABLES
    currentTerm, votedFor,   \* PersistentState: on disk before any answer
    log,                     \* RaftLog
    role, commitIndex, nextIndex, matchIndex,
    pc, local, todo, votes,  \* the ticker thread and its local variables
    request, answer,         \* the AppendEntries on its way, the answer to an RPC
    late,                    \* requests whose caller has given up
    restarts,
    cast, elected,           \* history: votes granted, leaders made,
    torn                     \* an AppendEntries was put together of two logs

persistent == <<currentTerm, votedFor, log>>
leaderVars == <<nextIndex, matchIndex>>
ticker     == <<pc, local, todo, votes>>
rpc        == <<request, answer>>
vars == <<persistent, role, commitIndex, leaderVars, ticker, rpc,
          late, restarts, cast, elected, torn>>

Role  == {"FOLLOWER", "CANDIDATE", "LEADER"}
Place == {"tick", "election", "elected", "assert", "replicate", "entries"}

LogEntry == [term : Nat, command : Command]

(* What a ticker pass keeps in local variables: the term it acts for, the  *)
(* log position an election advertises, next_index and commit_index as a    *)
(* replication round found them, the peer being called and the prev_term of *)
(* the AppendEntries being put together.                                    *)
Locals == [term : Nat, lastIndex : Nat, lastTerm : Nat,
           next : [Node -> Nat \ {0}], commit : Nat,
           peer : Node \cup {Nil}, prevTerm : Nat]

NoLocals == [term |-> 0, lastIndex |-> 0, lastTerm |-> 0,
             next |-> [p \in Node |-> 1], commit |-> 0,
             peer |-> Nil, prevTerm |-> 0]

VoteRequest == [type : {"RequestVote"}, from : Node, to : Node, term : Nat,
                lastIndex : Nat, lastTerm : Nat]
AppendRequest == [type : {"AppendEntries"}, from : Node, to : Node, term : Nat,
                  prevIndex : Nat, prevTerm : Nat, entries : Seq(LogEntry),
                  commit : Nat]
Request == VoteRequest \cup AppendRequest

(* (term, vote_granted) and (term, success, match_index) in one shape.     *)
Answer == [term : Nat, ok : BOOLEAN, match : Nat]

TypeOK ==
    /\ currentTerm \in [Node -> Nat]
    /\ votedFor \in [Node -> Node \cup {Nil}]
    /\ log \in [Node -> Seq(LogEntry)]
    /\ role \in [Node -> Role]
    /\ commitIndex \in [Node -> Nat]
    /\ nextIndex \in [Node -> [Node -> Nat \ {0}]]
    /\ matchIndex \in [Node -> [Node -> Nat]]
    /\ pc \in [Node -> Place]
    /\ local \in [Node -> Locals]
    /\ todo \in [Node -> SUBSET Node]
    /\ votes \in [Node -> SUBSET Node]
    /\ request \in [Node -> Request \cup {Nil}]
    /\ answer \in [Node -> Answer \cup {Nil}]
    /\ late \subseteq Request
    /\ restarts \in Nat
    /\ cast \subseteq Node \X Nat \X Node
    /\ elected \subseteq Nat \X Node
    /\ torn \in BOOLEAN

-----------------------------------------------------------------------------
(* RaftLog *)

LastIndex(lg) == Len(lg)
TermAt(lg, i) == IF i \in 1..Len(lg) THEN lg[i].term ELSE 0
LastTerm(lg)  == TermAt(lg, Len(lg))
EntriesFrom(lg, i)  == SubSeq(lg, i, Len(lg))
TruncateFrom(lg, i) == SubSeq(lg, 1, i - 1)

(* The positions of es that the log lg lacks or holds with another term,   *)
(* es being the entries that follow index prev.                             *)
Differing(lg, prev, es) ==
    {i \in 1..Len(es) :
        prev + i > LastIndex(lg) \/ lg[prev + i].term # es[i].term}

(* The loop of handle_append_entries: at the first entry that is missing or *)
(* conflicts, drop the rest of the log and append the rest of the entries;  *)
(* a log that already holds them all keeps whatever follows them.           *)
Merge(lg, prev, es) ==
    IF Differing(lg, prev, es) = {} THEN lg
    ELSE LET i == CHOOSE j \in Differing(lg, prev, es) :
                     \A k \in Differing(lg, prev, es) : j <= k
         IN  TruncateFrom(lg, prev + i) \o EntriesFrom(es, i)

-----------------------------------------------------------------------------
(* (len(peers) + 2) // 2, where peers excludes the node itself *)
QuorumSize == (Cardinality(Node) + 1) \div 2

(* handle_request_vote's log_ok *)
UpToDate(m, lg) ==
    \/ m.lastTerm > LastTerm(lg)
    \/ m.lastTerm = LastTerm(lg) /\ m.lastIndex >= LastIndex(lg)

(* Mutant of Newer: _check_term steps down on an equal term too.            *)
NewerOrEqual(m) == m.term >= currentTerm[m.to]

(* _check_term's test                                                       *)
Newer(m) == m.term > currentTerm[m.to]

(* _step_down(t): a newer term, with no vote in it yet. *)
StepDown(n, t) ==
    /\ currentTerm' = [currentTerm EXCEPT ![n] = t]
    /\ votedFor' = [votedFor EXCEPT ![n] = Nil]
    /\ role' = [role EXCEPT ![n] = "FOLLOWER"]

(* Mutant of Granted: voted_for is not consulted.                           *)
GrantedTwice(m) ==
    /\ m.term >= currentTerm[m.to]
    /\ UpToDate(m, log[m.to])

(* The early returns of handle_request_vote, in order; _check_term has      *)
(* cleared voted_for when the request is newer.                             *)
Granted(m) ==
    /\ m.term >= currentTerm[m.to]
    /\ Newer(m) \/ votedFor[m.to] \in {Nil, m.from}
    /\ UpToDate(m, log[m.to])

HandleRequestVote(m) ==
    LET p == m.to IN
    /\ m.type = "RequestVote"
    /\ currentTerm' = [currentTerm EXCEPT ![p] = IF Newer(m) THEN m.term ELSE @]
    /\ votedFor' = [votedFor EXCEPT ![p] = IF Granted(m) THEN m.from
                                           ELSE IF Newer(m) THEN Nil ELSE @]
    /\ role' = [role EXCEPT ![p] = IF Newer(m) THEN "FOLLOWER" ELSE @]
    /\ cast' = IF Granted(m) THEN cast \cup {<<p, m.term, m.from>>} ELSE cast
    /\ UNCHANGED <<log, commitIndex>>

RequestVoteAnswer(m) ==
    [term  |-> IF Newer(m) THEN m.term ELSE currentTerm[m.to],
     ok    |-> Granted(m),
     match |-> 0]

(* The consistency check of handle_append_entries: the two early returns.   *)
TooShort(m)  == m.prevIndex > 0 /\ LastIndex(log[m.to]) < m.prevIndex

(* Mutant of Conflicts: the term of the previous entry is not compared.     *)
NeverConflicts(m) == FALSE

Conflicts(m) == /\ m.prevIndex > 0
                /\ LastIndex(log[m.to]) >= m.prevIndex
                /\ TermAt(log[m.to], m.prevIndex) # m.prevTerm

Current(m)    == m.term >= currentTerm[m.to]
Consistent(m) == Current(m) /\ ~TooShort(m) /\ ~Conflicts(m)

MergedLog(m) ==
    CASE Consistent(m) -> Merge(log[m.to], m.prevIndex, m.entries)
      [] Current(m) /\ Conflicts(m) -> TruncateFrom(log[m.to], m.prevIndex)
      [] OTHER -> log[m.to]

Minimum(a, b) == IF a <= b THEN a ELSE b

(* Mutant of RoleAfterAppend: only a candidate yields to a leader.          *)
OnlyCandidateYields(m) ==
    IF Current(m) /\ role[m.to] = "CANDIDATE" THEN "FOLLOWER" ELSE role[m.to]

(* The role _check_term and the candidate test leave the receiver in.       *)
RoleAfterAppend(m) ==
    IF Newer(m) \/ (Current(m) /\ role[m.to] = "CANDIDATE")
    THEN "FOLLOWER" ELSE role[m.to]

HandleAppendEntries(m) ==
    LET p == m.to IN
    /\ m.type = "AppendEntries"
    /\ currentTerm' = [currentTerm EXCEPT ![p] = IF Newer(m) THEN m.term ELSE @]
    /\ votedFor' = [votedFor EXCEPT ![p] = IF Newer(m) THEN Nil ELSE @]
    /\ role' = [role EXCEPT ![p] = RoleAfterAppend(m)]
    /\ log' = [log EXCEPT ![p] = MergedLog(m)]
    /\ commitIndex' = [commitIndex EXCEPT ![p] =
                          IF Consistent(m) /\ m.commit > @
                          THEN Minimum(m.commit, LastIndex(MergedLog(m))) ELSE @]
    /\ UNCHANGED cast

(* match_index is the follower's own last index, on success and on failure  *)
(* alike (its index before the conflict when it truncated, 0 when stale).   *)
AppendEntriesAnswer(m) ==
    [term  |-> IF Newer(m) THEN m.term ELSE currentTerm[m.to],
     ok    |-> Consistent(m),
     match |-> IF Current(m) THEN LastIndex(MergedLog(m)) ELSE 0]

Handle(m) ==
    /\ HandleRequestVote(m) \/ HandleAppendEntries(m)
    /\ UNCHANGED <<leaderVars, restarts, elected, torn>>

-----------------------------------------------------------------------------
(* A request whose caller has timed out is still handled; nobody reads the  *)
(* answer.                                                                  *)
DeliverLate(m) ==
    /\ Handle(m)
    /\ late' = late \ {m}
    /\ UNCHANGED <<ticker, rpc>>

(* The caller of m gives up before m is handled: m is lost or comes late.   *)
GivesUp(m) ==
    \/ late' = late
    \/ /\ Cardinality(late) < MaxLate
       /\ <<m.from, m.to>> \in Reaches
       /\ late' = late \cup {m}

-----------------------------------------------------------------------------
(* The ticker thread *)

(* The loop over peers goes on to the next peer, or the pass ends: rest are *)
(* the peers left, granted the votes counted so far.                        *)
GoOn(n, loop, rest, granted) ==
    /\ pc' = [pc EXCEPT ![n] = IF rest = {} THEN "tick" ELSE loop]
    /\ local' = [local EXCEPT ![n] = IF rest = {} THEN NoLocals
                                     ELSE [@ EXCEPT !.peer = Nil]]
    /\ votes' = [votes EXCEPT ![n] = IF rest = {} THEN {} ELSE granted]

(* return: the pass ends at once, whatever peers are left.                  *)
EndPass(n) ==
    /\ pc' = [pc EXCEPT ![n] = "tick"]
    /\ local' = [local EXCEPT ![n] = NoLocals]
    /\ todo' = [todo EXCEPT ![n] = {}]
    /\ votes' = [votes EXCEPT ![n] = {}]

Returned(n) ==
    /\ request' = [request EXCEPT ![n] = Nil]
    /\ answer' = [answer EXCEPT ![n] = Nil]

(* _tick saw no leader for too long: the first locked block of              *)
(* _start_election.  A heartbeat handled after _tick read the clock does    *)
(* not stop it.                                                             *)
StartElection(n) ==
    /\ pc[n] = "tick"
    /\ role[n] # "LEADER"
    /\ <<n, currentTerm[n] + 1>> \in MayStand
    /\ role' = [role EXCEPT ![n] = "CANDIDATE"]
    /\ currentTerm' = [currentTerm EXCEPT ![n] = @ + 1]
    /\ votedFor' = [votedFor EXCEPT ![n] = n]
    /\ cast' = cast \cup {<<n, currentTerm[n] + 1, n>>}
    /\ todo' = [todo EXCEPT ![n] = Node \ {n}]
    /\ votes' = [votes EXCEPT ![n] = {n}]
    /\ local' = [local EXCEPT ![n].term = currentTerm[n] + 1,
                              ![n].lastIndex = LastIndex(log[n]),
                              ![n].lastTerm = LastTerm(log[n])]
    /\ pc' = [pc EXCEPT ![n] = "election"]
    /\ UNCHANGED <<log, commitIndex, leaderVars, rpc, late, restarts,
                   elected, torn>>

VoteRequestTo(n, p) ==
    [type |-> "RequestVote", from |-> n, to |-> p, term |-> local[n].term,
     lastIndex |-> local[n].lastIndex, lastTerm |-> local[n].lastTerm]

(* The loop over peers comes to p next: no peer left is listed before it.   *)
Turn(n, p) == p \in todo[n] /\ \A q \in todo[n] : <<q, p>> \notin PeerOrder

(* The loop of _start_election calls send_rv for its next peer, which       *)
(* handles the request while the caller waits.  The request holds only local *)
(* variables, so that sending it is not a step of its own.                  *)
DeliverVote(n, p) ==
    /\ pc[n] = "election"
    /\ answer[n] = Nil
    /\ Turn(n, p)
    /\ <<n, p>> \in Reaches
    /\ Handle(VoteRequestTo(n, p))
    /\ answer' = [answer EXCEPT ![n] = RequestVoteAnswer(VoteRequestTo(n, p))]
    /\ todo' = [todo EXCEPT ![n] = @ \ {p}]
    /\ local' = [local EXCEPT ![n].peer = p]
    /\ UNCHANGED <<pc, votes, request, late>>

(* send_rv raised before the peer handled the request.                      *)
VoteCallFails(n, p) ==
    /\ pc[n] = "election"
    /\ answer[n] = Nil
    /\ Turn(n, p)
    /\ GivesUp(VoteRequestTo(n, p))
    /\ todo' = [todo EXCEPT ![n] = @ \ {p}]
    /\ GoOn(n, "election", todo[n] \ {p}, votes[n])
    /\ UNCHANGED <<persistent, role, commitIndex, leaderVars, rpc, restarts,
                   cast, elected, torn>>

(* What both locked checks of an election test: nothing has overtaken it.   *)
StillCandidate(n) ==
    /\ currentTerm[n] = local[n].term
    /\ role[n] = "CANDIDATE"

(* send_rv returned: the locked check, then the count of the vote.          *)
RequestVoteReturns(n) ==
    LET a == answer[n]
        counted == votes[n] \cup (IF a.ok THEN {local[n].peer} ELSE {})
    IN
    /\ pc[n] = "election"
    /\ a # Nil
    /\ Returned(n)
    /\ \/ /\ ~StillCandidate(n)
          /\ EndPass(n)
          /\ UNCHANGED <<currentTerm, votedFor, role>>
       \/ /\ StillCandidate(n)
          /\ a.term > local[n].term
          /\ StepDown(n, a.term)
          /\ EndPass(n)
       \/ /\ StillCandidate(n)
          /\ a.term <= local[n].term
          /\ a.ok /\ Cardinality(counted) >= QuorumSize
          /\ votes' = [votes EXCEPT ![n] = counted]
          /\ pc' = [pc EXCEPT ![n] = "elected"]
          /\ local' = [local EXCEPT ![n].peer = Nil]
          /\ UNCHANGED <<currentTerm, votedFor, role, todo>>
       \/ /\ StillCandidate(n)
          /\ a.term <= local[n].term
          /\ ~(a.ok /\ Cardinality(counted) >= QuorumSize)
          /\ GoOn(n, "election", todo[n], counted)
          /\ UNCHANGED <<currentTerm, votedFor, role, todo>>
    /\ UNCHANGED <<log, commitIndex, leaderVars, late, restarts,
                   cast, elected, torn>>

(* _become_leader takes the lock again and checks again.                    *)
BecomeLeader(n) ==
    /\ pc[n] = "elected"
    /\ \/ /\ ~StillCandidate(n)
          /\ EndPass(n)
          /\ UNCHANGED <<role, leaderVars, elected>>
       \/ /\ StillCandidate(n)
          /\ role' = [role EXCEPT ![n] = "LEADER"]
          /\ nextIndex' = [nextIndex EXCEPT ![n] =
                              [p \in Node |-> IF p = n THEN @[p]
                                              ELSE LastIndex(log[n]) + 1]]
          /\ matchIndex' = [matchIndex EXCEPT ![n] =
                              [p \in Node |-> IF p = n THEN LastIndex(log[n])
                                              ELSE 0]]
          /\ elected' = elected \cup {<<local[n].term, n>>}
          /\ pc' = [pc EXCEPT ![n] = "assert"]
          /\ local' = [local EXCEPT ![n] = NoLocals]
          /\ todo' = [todo EXCEPT ![n] = {}]
          /\ votes' = [votes EXCEPT ![n] = {}]
    /\ UNCHANGED <<persistent, commitIndex, rpc, late, restarts, cast, torn>>

(* The locked block at the start of _replicate: from a heartbeat tick of a  *)
(* leader, or straight after _become_leader.                                *)
StartReplicate(n) ==
    /\ \/ /\ pc[n] \in {"tick", "assert"}
          /\ role[n] = "LEADER"
          /\ pc' = [pc EXCEPT ![n] = "replicate"]
          /\ todo' = [todo EXCEPT ![n] = Node \ {n}]
          /\ local' = [local EXCEPT ![n].term = currentTerm[n],
                                    ![n].next = nextIndex[n],
                                    ![n].commit = commitIndex[n]]
          /\ UNCHANGED votes
       \/ /\ pc[n] = "assert"
          /\ role[n] # "LEADER"
          /\ EndPass(n)
    /\ UNCHANGED <<persistent, role, commitIndex, leaderVars, rpc,
                   late, restarts, cast, elected, torn>>

(* log.term_at(prev_idx), read without the node lock.                       *)
ReadPrevTerm(n, p) ==
    /\ pc[n] = "replicate"
    /\ request[n] = Nil
    /\ Turn(n, p)
    /\ todo' = [todo EXCEPT ![n] = @ \ {p}]
    /\ local' = [local EXCEPT ![n].peer = p,
                              ![n].prevTerm = TermAt(log[n], local[n].next[p] - 1)]
    /\ pc' = [pc EXCEPT ![n] = "entries"]
    /\ UNCHANGED <<persistent, role, commitIndex, leaderVars, votes,
                   rpc, late, restarts, cast, elected, torn>>

(* log.entries_from(ni), read without the node lock, and send_ae.           *)
SendAppendEntries(n) ==
    LET p == local[n].peer
        ni == local[n].next[p]
    IN
    /\ pc[n] = "entries"
    /\ request' = [request EXCEPT ![n] =
          [type |-> "AppendEntries", from |-> n, to |-> p, term |-> local[n].term,
           prevIndex |-> ni - 1, prevTerm |-> local[n].prevTerm,
           entries |-> EntriesFrom(log[n], ni), commit |-> local[n].commit]]
    /\ pc' = [pc EXCEPT ![n] = "replicate"]
    /\ local' = [local EXCEPT ![n].peer = Nil, ![n].prevTerm = 0]
    /\ torn' = (torn \/ local[n].prevTerm # TermAt(log[n], ni - 1))
    /\ UNCHANGED <<persistent, role, commitIndex, leaderVars, todo,
                   votes, answer, late, restarts, cast, elected>>

(* The peer handles the AppendEntries while the caller waits.               *)
DeliverAppend(n) ==
    /\ request[n] # Nil
    /\ answer[n] = Nil
    /\ <<n, request[n].to>> \in Reaches
    /\ Handle(request[n])
    /\ answer' = [answer EXCEPT ![n] = AppendEntriesAnswer(request[n])]
    /\ UNCHANGED <<ticker, request, late>>

(* send_ae raised before the peer handled the request.                      *)
AppendCallFails(n) ==
    /\ request[n] # Nil
    /\ answer[n] = Nil
    /\ GivesUp(request[n])
    /\ Returned(n)
    /\ GoOn(n, "replicate", todo[n], votes[n])
    /\ UNCHANGED <<persistent, role, commitIndex, leaderVars, todo, restarts,
                   cast, elected, torn>>

(* Mutant of Committable: entries of earlier terms count as well.           *)
CommittableAnyTerm(n, t, match) ==
    {i \in (commitIndex[n] + 1)..LastIndex(log[n]) :
        Cardinality({p \in Node : match[p] >= i}) >= QuorumSize}

(* Mutant of Committable: one copy short of a quorum.                       *)
CommittableTooSoon(n, t, match) ==
    {i \in (commitIndex[n] + 1)..LastIndex(log[n]) :
        /\ TermAt(log[n], i) = t
        /\ Cardinality({p \in Node : match[p] >= i}) >= QuorumSize - 1}

(* _advance_commit(t): the highest index above commit_index whose entry has *)
(* term t and that a quorum of match_index reaches.                         *)
Committable(n, t, match) ==
    {i \in (commitIndex[n] + 1)..LastIndex(log[n]) :
        /\ TermAt(log[n], i) = t
        /\ Cardinality({p \in Node : match[p] >= i}) >= QuorumSize}

AdvancedCommit(n, t, match) ==
    IF Committable(n, t, match) = {} THEN commitIndex[n]
    ELSE CHOOSE i \in Committable(n, t, match) :
            \A j \in Committable(n, t, match) : j <= i

(* Mutant of NextAfter: off by one.                                         *)
NextAt(match) == match

(* next_index after an answer, on success and on failure.                   *)
NextAfter(match) == match + 1

(* send_ae returned: the locked block that ends an iteration of _replicate. *)
AppendEntriesReturns(n) ==
    LET a == answer[n]
        p == request[n].to
        match == [matchIndex[n] EXCEPT ![p] = a.match, ![n] = LastIndex(log[n])]
    IN
    /\ pc[n] = "replicate"
    /\ a # Nil
    /\ Returned(n)
    /\ \/ /\ a.term > currentTerm[n]
          /\ StepDown(n, a.term)
          /\ EndPass(n)
          /\ UNCHANGED <<commitIndex, leaderVars>>
       \/ /\ a.term <= currentTerm[n]
          /\ role[n] # "LEADER"
          /\ EndPass(n)
          /\ UNCHANGED <<currentTerm, votedFor, role, commitIndex, leaderVars>>
       \/ /\ a.term <= currentTerm[n]
          /\ role[n] = "LEADER"
          /\ nextIndex' = [nextIndex EXCEPT ![n][p] = NextAfter(a.match)]
          /\ matchIndex' = [matchIndex EXCEPT ![n] = IF a.ok THEN match ELSE @]
          /\ commitIndex' = [commitIndex EXCEPT ![n] =
                IF a.ok THEN AdvancedCommit(n, local[n].term, match) ELSE @]
          /\ GoOn(n, "replicate", todo[n], votes[n])
          /\ UNCHANGED <<currentTerm, votedFor, role, todo>>
    /\ UNCHANGED <<log, late, restarts, cast, elected, torn>>

(* Either call raised after the peer handled it: the answer came too late.  *)
AnswerLost(n) ==
    /\ answer[n] # Nil
    /\ Returned(n)
    /\ GoOn(n, pc[n], todo[n], votes[n])
    /\ UNCHANGED <<persistent, role, commitIndex, leaderVars, todo, late,
                   restarts, cast, elected, torn>>

-----------------------------------------------------------------------------
(* Clients and crashes *)

Propose(n, c) ==
    /\ role[n] = "LEADER"
    /\ <<n, LastIndex(log[n]) + 1>> \in MayPropose
    /\ log' = [log EXCEPT ![n] = Append(@, [term |-> currentTerm[n], command |-> c])]
    /\ matchIndex' = [matchIndex EXCEPT ![n][n] = LastIndex(log[n]) + 1]
    /\ UNCHANGED <<currentTerm, votedFor, role, commitIndex, nextIndex,
                   ticker, rpc, late, restarts, cast, elected, torn>>

(* The request a ticker is blocked in and that is not handled yet.          *)
OnItsWay(n) ==
    IF answer[n] # Nil THEN {}
    ELSE {m \in {request[n]} : m # Nil} \cup
         {VoteRequestTo(n, p) :
             p \in {q \in todo[n] : pc[n] = "election" /\ Turn(n, q)}}

(* What a process that is killed and started again begins with.             *)
Reset(n) ==
    /\ restarts < MaxRestart
    /\ restarts' = restarts + 1
    /\ role' = [role EXCEPT ![n] = "FOLLOWER"]
    /\ commitIndex' = [commitIndex EXCEPT ![n] = 0]
    /\ nextIndex' = [nextIndex EXCEPT ![n] = [p \in Node |-> 1]]
    /\ matchIndex' = [matchIndex EXCEPT ![n] = [p \in Node |-> 0]]
    /\ pc' = [pc EXCEPT ![n] = "tick"]
    /\ local' = [local EXCEPT ![n] = NoLocals]
    /\ todo' = [todo EXCEPT ![n] = {}]
    /\ votes' = [votes EXCEPT ![n] = {}]
    /\ Returned(n)
    /\ late' = late
       \/ \E m \in OnItsWay(n) : GivesUp(m)
    /\ UNCHANGED <<log, cast, elected, torn>>

(* A crash with a data_dir: term, vote and log are read back.               *)
Restart(n) ==
    /\ Reset(n)
    /\ UNCHANGED <<currentTerm, votedFor>>

(* A crash between two saves: the new term of _start_election, of a vote or  *)
(* of handle_append_entries is on disk, and the vote or the entries are not. *)
NewTerms(n) ==
    {t \in {currentTerm[n] + 1} : <<n, t>> \in MayStand} \cup
    {m.term : m \in {x \in late \cup UNION {OnItsWay(p) : p \in Node} :
                        x.to = n /\ <<x.from, x.to>> \in Reaches}}

CrashBetweenSaves(n) ==
    /\ Reset(n)
    /\ \E t \in NewTerms(n) :
          /\ t > currentTerm[n]
          /\ currentTerm' = [currentTerm EXCEPT ![n] = t]
    /\ votedFor' = [votedFor EXCEPT ![n] = Nil]

-----------------------------------------------------------------------------
Init ==
    /\ currentTerm = [n \in Node |-> 0]
    /\ votedFor = [n \in Node |-> Nil]
    /\ log = [n \in Node |-> << >>]
    /\ role = [n \in Node |-> "FOLLOWER"]
    /\ commitIndex = [n \in Node |-> 0]
    /\ nextIndex = [n \in Node |-> [p \in Node |-> 1]]
    /\ matchIndex = [n \in Node |-> [p \in Node |-> 0]]
    /\ pc = [n \in Node |-> "tick"]
    /\ local = [n \in Node |-> NoLocals]
    /\ todo = [n \in Node |-> {}]
    /\ votes = [n \in Node |-> {}]
    /\ request = [n \in Node |-> Nil]
    /\ answer = [n \in Node |-> Nil]
    /\ late = {}
    /\ restarts = 0
    /\ cast = {}
    /\ elected = {}
    /\ torn = FALSE

Next ==
    \/ \E n \in Node :
          \/ StartElection(n) \/ RequestVoteReturns(n) \/ BecomeLeader(n)
          \/ StartReplicate(n) \/ SendAppendEntries(n) \/ DeliverAppend(n)
          \/ AppendEntriesReturns(n) \/ AppendCallFails(n) \/ AnswerLost(n)
          \/ Restart(n) \/ CrashBetweenSaves(n)
          \/ \E p \in Node : \/ DeliverVote(n, p) \/ VoteCallFails(n, p)
                            \/ ReadPrevTerm(n, p)
          \/ \E c \in Command : Propose(n, c)
    \/ \E m \in late : DeliverLate(m)

Spec == Init /\ [][Next]_vars

-----------------------------------------------------------------------------
(* Properties *)

(* At most one node is ever made leader in a term (docs/raft-kv.md, "Election *)
(* Safety"): _become_leader, the votes of handle_request_vote and the terms   *)
(* and votes a restarted node reads back.                                     *)
ElectionSafety ==
    \A x, y \in elected : x[1] = y[1] => x[2] = y[2]

(* A node's log as far as it considers it committed.                        *)
CommittedLog(n) == SubSeq(log[n], 1, Minimum(commitIndex[n], Len(log[n])))

(* A leader never drops or changes an entry of its own log, although its      *)
(* AppendEntries handler has no test for that and its ticker reads the log    *)
(* without the lock (docs/raft-kv.md, "Leader Append-Only").                  *)
LeaderAppendOnly ==
    [][\A n \in Node :
          role[n] = "LEADER" /\ role'[n] = "LEADER" =>
             /\ Len(log'[n]) >= Len(log[n])
             /\ SubSeq(log'[n], 1, Len(log[n])) = log[n]]_vars

(* Across handlers, elections and crashes a node's term never goes back, and  *)
(* a vote, once on disk, stays until the term grows.                          *)
VoteIsFinal ==
    [][\A n \in Node :
          /\ currentTerm'[n] >= currentTerm[n]
          /\ currentTerm'[n] = currentTerm[n] /\ votedFor[n] # Nil
                => votedFor'[n] = votedFor[n]]_vars

(* A leader moves its commit index only onto an entry of its CURRENT term,    *)
(* although _advance_commit is given the term _replicate read before it       *)
(* released the lock (docs/raft-kv.md, "Commit rule").                        *)
CommitsOwnTerm ==
    [][\A n \in Node :
          role[n] = "LEADER" /\ role'[n] = "LEADER"
                             /\ commitIndex'[n] > commitIndex[n] =>
             TermAt(log[n], commitIndex'[n]) = currentTerm[n]]_vars

(* Two logs that hold an entry of the same term at an index agree up to it    *)
(* (docs/raft-kv.md, "Log Matching").                                         *)
LogMatching ==
    \A a, b \in Node : \A i \in 1..Minimum(Len(log[a]), Len(log[b])) :
        log[a][i].term = log[b][i].term =>
            SubSeq(log[a], 1, i) = SubSeq(log[b], 1, i)

(* Logs match until _replicate, which reads prev_term and the entries without *)
(* the lock, has a handler change its log in between and sends what belongs   *)
(* to two logs.  (Then they need not: RaftMixedLog.)                          *)
LogsMatchUntilTorn == torn \/ LogMatching

(* Any two nodes agree on what both consider committed (docs/raft-kv.md,      *)
(* "State Machine Safety").                                                   *)
StateMachineSafety ==
    \A a, b \in Node :
        \A i \in 1..Minimum(Len(CommittedLog(a)), Len(CommittedLog(b))) :
            log[a][i] = log[b][i]
=============================================================================
