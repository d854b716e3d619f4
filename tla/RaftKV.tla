------------------------------- MODULE RaftKV -------------------------------
(***************************************************************************)
(* raft-kv as its clients see it: RaftNode composed with the apply pass of  *)
(* each ticker thread, the KVStore it feeds and the KVService calls that    *)
(* propose, wait for the commit index and answer.                           *)
(*                                                                          *)
(* RaftNode._loop calls _tick and _apply_committed in turn: a pass over the *)
(* committed entries starts only between two ticks, and while it runs the   *)
(* handlers go on moving the commit index and the log under it.  pass holds *)
(* the pass's loop variable and the commit index it read under the lock;    *)
(* due says that the ticker has still to make a pass before its next tick.  *)
(*                                                                          *)
(* A command is the sequence of words that splitting its text at spaces     *)
(* yields: "SET k v" is <<"SET", "k", "v">>.                                *)
(***************************************************************************)
EXTENDS RaftNode

CONSTANT Key    \* the words that may be keys

ASSUME PassAssumption == Nil \notin [next : Nat, to : Nat]    \* no pass is None

VARIABLES
    lastApplied,   \* RaftNode._last_applied
    data,          \* KVStore._data, Nil where the key is absent
    pass, due,     \* the apply pass of the ticker thread
    waiting,       \* Set and Del calls inside wait_for_commit
    executed,      \* history: the <<index, entry>> applied since the start
    missed,        \* history: the indices counted as applied that were not
    acked          \* history: the calls answered ok

applyVars == <<lastApplied, data, pass, executed, missed>>
kvVars    == <<applyVars, due, waiting, acked>>
allVars   == <<vars, kvVars>>

-----------------------------------------------------------------------------
(* KVStore.apply: split(" ", 2) leaves an operation, a key and the rest.    *)
Apply(store, c) ==
    CASE c[1] = "SET" /\ Len(c) >= 3 ->
            [store EXCEPT ![c[2]] = SubSeq(c, 3, Len(c))]
      [] c[1] = "DEL" /\ Len(c) >= 2 -> [store EXCEPT ![c[2]] = Nil]
      [] OTHER -> store

Empty == [k \in Key |-> Nil]

(* The locked block at the start of _apply_committed.                       *)
StartApply(n) ==
    /\ pc[n] = "tick"
    /\ pass[n] = Nil
    /\ due[n] \/ commitIndex[n] > lastApplied[n]
    /\ pass' = [pass EXCEPT ![n] = [next |-> lastApplied[n] + 1,
                                    to   |-> commitIndex[n]]]
    /\ due' = [due EXCEPT ![n] = FALSE]
    /\ UNCHANGED <<vars, lastApplied, data, executed, missed, waiting, acked>>

(* One iteration: the entry is read from the log as it is now, without the  *)
(* node lock; a missing one is passed over.                                 *)
ApplyNext(n) ==
    LET i == pass[n].next IN
    /\ pass[n] # Nil
    /\ i <= pass[n].to
    /\ pass' = [pass EXCEPT ![n].next = i + 1]
    /\ \/ /\ i <= LastIndex(log[n])
          /\ data' = [data EXCEPT ![n] = Apply(@, log[n][i].command)]
          /\ executed' = [executed EXCEPT ![n] = Append(@, <<i, log[n][i]>>)]
       \/ /\ i > LastIndex(log[n])
          /\ UNCHANGED <<data, executed>>
    /\ UNCHANGED <<vars, lastApplied, missed, due, waiting, acked>>

(* Mutant of AppliedUpTo: last_applied stays where it was.                  *)
AppliedNothing(n) == lastApplied[n]

(* The locked block at the end: last_applied is set to the commit index as  *)
(* it is NOW.  What was committed since the pass began is counted as        *)
(* applied, and no later pass comes to it.                                  *)
AppliedUpTo(n) == IF commitIndex[n] > lastApplied[n] THEN commitIndex[n]
                  ELSE lastApplied[n]

EndApply(n) ==
    /\ pass[n] # Nil
    /\ pass[n].next > pass[n].to
    /\ lastApplied' = [lastApplied EXCEPT ![n] = AppliedUpTo(n)]
    /\ missed' = [missed EXCEPT ![n] = @ \cup (pass[n].to + 1)..AppliedUpTo(n)]
    /\ pass' = [pass EXCEPT ![n] = Nil]
    /\ UNCHANGED <<vars, data, executed, due, waiting, acked>>

-----------------------------------------------------------------------------
(* KVService.Set and Del: the leader appends the command and the call waits *)
(* in wait_for_commit.  A call to a node that does not lead is refused and   *)
(* changes nothing.                                                         *)
CallSet(n, c) ==
    /\ Propose(n, c)
    /\ waiting' = waiting \cup {[node |-> n, index |-> LastIndex(log[n]) + 1,
                                 term |-> currentTerm[n], command |-> c]}
    /\ UNCHANGED <<applyVars, due, acked>>

(* Mutant of Reached: one short.                                            *)
AlmostReached(w) == commitIndex[w.node] + 1 >= w.index

(* wait_for_commit's test: the index is reached, whatever entry is there.   *)
Reached(w) == commitIndex[w.node] >= w.index

Acknowledge(w) ==
    /\ Reached(w)
    /\ waiting' = waiting \ {w}
    /\ acked' = acked \cup {w}
    /\ UNCHANGED <<vars, applyVars, due>>

(* The deadline passed: the caller is told "commit timeout"; the entry      *)
(* stays in the log.                                                        *)
CommitTimeout(w) ==
    /\ waiting' = waiting \ {w}
    /\ UNCHANGED <<vars, applyVars, due, acked>>

-----------------------------------------------------------------------------
(* A tick starts only when no apply pass runs or is due.                    *)
InTick(n) == pass[n] = Nil /\ ~due[n]

Tick(n) ==
    /\ InTick(n)
    /\ pc[n] = "tick"
    /\ StartElection(n) \/ StartReplicate(n)
    /\ due' = [due EXCEPT ![n] = TRUE]
    /\ UNCHANGED <<applyVars, waiting, acked>>

(* Everything of RaftNode that is not the start of a tick, a proposal or a  *)
(* crash.                                                                   *)
Elsewhere(n) ==
    /\ \/ /\ pc[n] = "assert"
          /\ StartReplicate(n)
       \/ RequestVoteReturns(n) \/ BecomeLeader(n)
       \/ SendAppendEntries(n) \/ DeliverAppend(n) \/ AppendEntriesReturns(n)
       \/ AppendCallFails(n) \/ AnswerLost(n)
       \/ \E p \in Node : \/ DeliverVote(n, p) \/ VoteCallFails(n, p)
                         \/ ReadPrevTerm(n, p)
    /\ UNCHANGED kvVars

Late(m) ==
    /\ DeliverLate(m)
    /\ UNCHANGED kvVars

(* A restarted process has an empty store and applies the log again as it   *)
(* learns what is committed; its callers get an error.                      *)
Crash(n) ==
    /\ Restart(n) \/ CrashBetweenSaves(n)
    /\ lastApplied' = [lastApplied EXCEPT ![n] = 0]
    /\ data' = [data EXCEPT ![n] = Empty]
    /\ pass' = [pass EXCEPT ![n] = Nil]
    /\ due' = [due EXCEPT ![n] = FALSE]
    /\ executed' = [executed EXCEPT ![n] = << >>]
    /\ missed' = [missed EXCEPT ![n] = {}]
    /\ waiting' = {w \in waiting : w.node # n}
    /\ UNCHANGED acked

KVInit ==
    /\ Init
    /\ lastApplied = [n \in Node |-> 0]
    /\ data = [n \in Node |-> Empty]
    /\ pass = [n \in Node |-> Nil]
    /\ due = [n \in Node |-> FALSE]
    /\ executed = [n \in Node |-> << >>]
    /\ missed = [n \in Node |-> {}]
    /\ waiting = {}
    /\ acked = {}

KVNext ==
    \/ \E n \in Node :
          \/ StartApply(n) \/ ApplyNext(n) \/ EndApply(n)
          \/ Tick(n) \/ Elsewhere(n) \/ Crash(n)
          \/ \E c \in Command : CallSet(n, c)
    \/ \E w \in waiting : Acknowledge(w) \/ CommitTimeout(w)
    \/ \E m \in late : Late(m)

KVSpec == KVInit /\ [][KVNext]_allVars

-----------------------------------------------------------------------------
(* Properties *)

Executed(n) == {executed[n][i][1] : i \in 1..Len(executed[n])}

(* Within one life of a node the log's entries are applied in the order of   *)
(* their indices, none twice, and up to where the node has come none is left *)
(* out but those that were committed while a pass ran, although handlers     *)
(* move the commit index and the log between any two iterations.  (That any  *)
(* are left out, for good, is what docs/raft-kv.md:92 does not say:          *)
(* node.py:378 counts them as applied.)                                      *)
AppliedInOrder ==
    \A n \in Node :
        /\ \A i, j \in 1..Len(executed[n]) : i < j => executed[n][i][1] < executed[n][j][1]
        /\ 1..lastApplied[n] \subseteq Executed(n) \cup missed[n]
        /\ pass[n] # Nil => (lastApplied[n] + 1)..(pass[n].next - 1) \subseteq Executed(n)
        /\ missed[n] \cap Executed(n) = {}

Holders(i, e) ==
    {p \in Node : LastIndex(log[p]) >= i /\ log[p][i] = e}

(* What a state machine has applied is in the logs of a quorum: its commit    *)
(* index counted a majority of match_index, and neither a crash nor a late    *)
(* request takes an entry from those that hold it (docs/raft-kv.md, "Commit   *)
(* rule").  It relies on one node leading all the terms: with a change of     *)
(* leadership the match_index of a stale follower breaks it (RaftStaleMatch). *)
AppliedIsDurable ==
    \A n \in Node : \A i \in 1..Len(executed[n]) :
        Cardinality(Holders(executed[n][i][1], executed[n][i][2])) >= QuorumSize

(* A Set or Del that was answered ok is in the logs of a quorum at the index  *)
(* it was proposed for (modules/raft-kv/README.md: "replicates every write    *)
(* through the Raft log").                                                   *)
AckedIsDurable ==
    \A w \in acked :
        Cardinality(Holders(w.index, [term |-> w.term, command |-> w.command]))
            >= QuorumSize
=============================================================================
