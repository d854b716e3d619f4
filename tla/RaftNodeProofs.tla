--------------------------- MODULE RaftNodeProofs ---------------------------
(***************************************************************************)
(* Proofs about RaftNode and RaftKV, for every cluster and every value of   *)
(* the bounds.                                                              *)
(***************************************************************************)
EXTENDS RaftKV, FiniteSetTheorems, SequenceTheorems, WellFoundedInduction,
        TLAPS

-----------------------------------------------------------------------------
(* Lemmas about numbers *)

(* A non-empty set of naturals has a least element.                         *)
LEMMA LeastExists ==
  ASSUME NEW D \in SUBSET Nat, D # {}
  PROVE  \E x \in D : \A y \in D : x <= y
<1> DEFINE R == {ss \in Nat \X Nat : ss[1] < ss[2]}
<1>1. IsWellFoundedOn(R, Nat)
  BY NatLessThanWellFounded DEF OpToRel
<1>2. \A x, y \in Nat : y < x => <<y, x>> \in R
  OBVIOUS
<1> HIDE DEF R
<1>3. PICK x \in D : \A y \in D : <<y, x>> \notin R
  BY <1>1, WFMin
<1>4. \A y \in D : ~(y < x)
  BY <1>2, <1>3
<1>5. QED
  BY <1>4

(* A non-empty bounded set of naturals has a greatest element.              *)
LEMMA GreatestExists ==
  ASSUME NEW b \in Nat, NEW D \in SUBSET (0..b), D # {}
  PROVE  \E x \in D : \A y \in D : y <= x
<1> DEFINE E == {b - i : i \in D}
<1>1. E \in SUBSET Nat /\ E # {}
  <2>1. \A i \in D : b - i \in Nat
    OBVIOUS
  <2>2. QED
    BY <2>1
<1>2. PICK e \in E : \A f \in E : e <= f
  BY <1>1, LeastExists
<1>3. PICK x \in D : e = b - x
  BY <1>2
<1>4. \A y \in D : b - x <= b - y
  BY <1>2, <1>3
<1>5. QED
  BY <1>3, <1>4

-----------------------------------------------------------------------------
(* Lemmas about the log operators *)

(* TermAt returns a term, 0 included, wherever it looks.                    *)
LEMMA TermAtType ==
  ASSUME NEW lg \in Seq(LogEntry), NEW i \in Int
  PROVE  TermAt(lg, i) \in Nat
<1>1. i \in 1..Len(lg) => lg[i] \in LogEntry
  BY ElementOfSeq
<1>2. QED
  BY <1>1 DEF TermAt, LogEntry

(* entries_from returns a suffix of the log.                                *)
LEMMA EntriesFromType ==
  ASSUME NEW lg \in Seq(LogEntry), NEW i \in Nat \ {0}
  PROVE  EntriesFrom(lg, i) \in Seq(LogEntry)
<1>1. \A j \in i..Len(lg) : lg[j] \in LogEntry
  BY ElementOfSeq
<1>2. QED
  BY <1>1, SubSeqProperties, LenProperties DEF EntriesFrom

(* truncate_from keeps a prefix of the log.                                 *)
LEMMA TruncateFromType ==
  ASSUME NEW lg \in Seq(LogEntry), NEW i \in 1..(Len(lg) + 1)
  PROVE  /\ TruncateFrom(lg, i) \in Seq(LogEntry)
         /\ Len(TruncateFrom(lg, i)) = i - 1
<1>1. \A j \in 1..(i - 1) : lg[j] \in LogEntry
  BY ElementOfSeq, LenProperties
<1>2. Len(lg) \in Nat
  BY LenProperties
<1>3. QED
  BY <1>1, <1>2, SubSeqProperties DEF TruncateFrom

(* The merge loop of handle_append_entries yields a log when the previous   *)
(* index is within the old one.                                             *)
LEMMA MergeType ==
  ASSUME NEW lg \in Seq(LogEntry), NEW prev \in 0..Len(lg),
         NEW es \in Seq(LogEntry)
  PROVE  Merge(lg, prev, es) \in Seq(LogEntry)
<1> DEFINE D == Differing(lg, prev, es)
<1>1. CASE D = {}
  BY <1>1 DEF Merge
<1>2. CASE D # {}
  <2>1. D \subseteq 1..Len(es) /\ D \subseteq Nat
    BY DEF Differing
  <2>2. \E j \in D : \A k \in D : j <= k
    BY <1>2, <2>1, LeastExists
  <2> DEFINE i == CHOOSE j \in D : \A k \in D : j <= k
  <2>3. i \in D /\ \A k \in D : i <= k
    BY <2>2
  <2>4. Len(lg) \in Nat /\ i \in 1..Len(es)
    BY <2>1, <2>3, LenProperties
  <2>5. Merge(lg, prev, es) = TruncateFrom(lg, prev + i) \o EntriesFrom(es, i)
    BY <1>2 DEF Merge
  <2> HIDE DEF i
  <2>6. prev + i \in 1..(Len(lg) + 1)
    <3>1. CASE i = 1
      BY <2>4, <3>1
    <3>2. CASE i # 1
      <4>1. i - 1 \in 1..Len(es) /\ i - 1 \notin D
        BY <2>3, <2>4, <3>2, <2>1
      <4>2. prev + (i - 1) <= Len(lg)
        BY <4>1, <2>4 DEF Differing, LastIndex
      <4>3. QED
        BY <4>2, <2>4
    <3>3. QED
      BY <3>1, <3>2
  <2>7. TruncateFrom(lg, prev + i) \in Seq(LogEntry)
    BY <2>6, TruncateFromType
  <2>8. EntriesFrom(es, i) \in Seq(LogEntry)
    BY <2>4, EntriesFromType
  <2>9. QED
    BY <2>5, <2>7, <2>8, ConcatProperties
<1>3. QED
  BY <1>1, <1>2

-----------------------------------------------------------------------------
(* The inductive invariant *)

(* What a ticker is doing agrees with what it remembers: it waits for an    *)
(* answer only inside a loop over its peers, the peer of that call is known *)
(* and is another node, and an AppendEntries is on its way only from a node *)
(* that replicates.                                                         *)
TickerOK(n) ==
    /\ todo[n] \subseteq Node \ {n}
    /\ answer[n] # Nil => pc[n] \in {"election", "replicate"}
    /\ answer[n] # Nil /\ pc[n] = "election" => local[n].peer \in Node
    /\ answer[n] # Nil /\ pc[n] = "replicate" => request[n] # Nil
    /\ pc[n] = "entries" => local[n].peer \in Node \ {n}
    /\ request[n] # Nil => /\ pc[n] = "replicate"
                           /\ request[n] \in AppendRequest
                           /\ request[n].from = n
                           /\ request[n].to # n

TickerInv ==
    /\ \A n \in Node : TickerOK(n)
    /\ \A m \in late : m.from # m.to

(* Every vote ever given is the one on disk, or of an earlier term.          *)
OnDisk(x) == /\ x[2] <= currentTerm[x[1]]
             /\ x[2] = currentTerm[x[1]] => votedFor[x[1]] = x[3]

(* No node has given two votes in one term.                                  *)
NoRival(x, y) == x[1] = y[1] /\ x[2] = y[2] => x[3] = y[3]

CastInv == /\ \A x \in cast : OnDisk(x)
           /\ \A x, y \in cast : NoRival(x, y)

(* The votes a candidate has counted, or is about to count, were given to it *)
(* in the term it stands for.                                                *)
CountOK(n) ==
    /\ pc[n] \in {"election", "elected"} =>
          \A v \in votes[n] : <<v, local[n].term, n>> \in cast
    /\ answer[n] # Nil /\ pc[n] = "election" /\ answer[n].ok =>
          <<local[n].peer, local[n].term, n>> \in cast
    /\ pc[n] = "elected" => Cardinality(votes[n]) >= QuorumSize

(* Who was elected has the votes of a quorum.                                *)
ElectedInv ==
    \A x \in elected :
       \E Q \in SUBSET Node :
          /\ Cardinality(Q) >= QuorumSize
          /\ \A v \in Q : <<v, x[1], x[2]>> \in cast

(* Who leads, or replicates, was elected for that term, and a leader's pass  *)
(* acts for the term the node is in.                                         *)
LeadOK(n) ==
    /\ role[n] = "LEADER" => <<currentTerm[n], n>> \in elected
    /\ pc[n] \in {"replicate", "entries"} => <<local[n].term, n>> \in elected
    /\ pc[n] \in {"replicate", "entries"} /\ role[n] = "LEADER" =>
          local[n].term = currentTerm[n]
    /\ request[n] # Nil => <<request[n].term, request[n].from>> \in elected

(* An AppendEntries that outlived its caller comes from an elected leader.   *)
LateInv ==
    \A m \in late : m.type = "AppendEntries" => <<m.term, m.from>> \in elected

IInv == /\ TypeOK
        /\ TickerInv
        /\ CastInv
        /\ \A n \in Node : CountOK(n)
        /\ ElectedInv
        /\ \A n \in Node : LeadOK(n)
        /\ LateInv

-----------------------------------------------------------------------------
(* Types *)

(* The log a handler leaves behind is a log.                                *)
LEMMA MergedLogType ==
  ASSUME TypeOK, NEW m \in AppendRequest
  PROVE  MergedLog(m) \in Seq(LogEntry)
<1>1. /\ m.to \in Node /\ m.prevIndex \in Nat /\ m.entries \in Seq(LogEntry)
      /\ log[m.to] \in Seq(LogEntry)
  BY DEF TypeOK, AppendRequest
<1>2. Len(log[m.to]) \in Nat
  BY <1>1, LenProperties
<1>3. CASE Consistent(m)
  <2>1. m.prevIndex \in 0..Len(log[m.to])
    BY <1>1, <1>2, <1>3 DEF Consistent, TooShort, LastIndex
  <2>2. MergedLog(m) = Merge(log[m.to], m.prevIndex, m.entries)
    BY <1>3 DEF MergedLog, Consistent
  <2>3. QED
    BY <1>1, <2>1, <2>2, MergeType
<1>4. CASE ~Consistent(m) /\ Current(m) /\ Conflicts(m)
  <2>1. m.prevIndex \in 1..(Len(log[m.to]) + 1)
    BY <1>1, <1>2, <1>4 DEF Conflicts, LastIndex
  <2>2. MergedLog(m) = TruncateFrom(log[m.to], m.prevIndex)
    BY <1>4 DEF MergedLog
  <2>3. QED
    BY <1>1, <2>1, <2>2, TruncateFromType
<1>5. CASE ~Consistent(m) /\ ~(Current(m) /\ Conflicts(m))
  BY <1>1, <1>5 DEF MergedLog
<1>6. QED
  BY <1>3, <1>4, <1>5

(* Both handlers keep the types of what they write.                         *)
LEMMA HandleType ==
  ASSUME TypeOK, NEW m \in Request, Handle(m)
  PROVE  /\ currentTerm' \in [Node -> Nat]
         /\ votedFor' \in [Node -> Node \cup {Nil}]
         /\ log' \in [Node -> Seq(LogEntry)]
         /\ role' \in [Node -> Role]
         /\ commitIndex' \in [Node -> Nat]
         /\ cast' \subseteq Node \X Nat \X Node
<1>1. CASE HandleRequestVote(m)
  <2>1. m.type = "RequestVote" /\ m \in VoteRequest
    BY <1>1 DEF HandleRequestVote, Request, AppendRequest
  <2>2. m.to \in Node /\ m.from \in Node /\ m.term \in Nat
    BY <2>1 DEF VoteRequest
  <2>3. <<m.to, m.term, m.from>> \in Node \X Nat \X Node
    BY <2>2
  <2>4. cast' \subseteq Node \X Nat \X Node
    BY <1>1, <2>3 DEF HandleRequestVote, TypeOK
  <2>5. QED
    BY <1>1, <2>2, <2>4 DEF HandleRequestVote, TypeOK, Role
<1>2. CASE HandleAppendEntries(m)
  <2>1. m.type = "AppendEntries" /\ m \in AppendRequest
    BY <1>2 DEF HandleAppendEntries, Request, VoteRequest
  <2>2. m.to \in Node /\ m.term \in Nat /\ m.commit \in Nat
    BY <2>1 DEF AppendRequest
  <2>3. MergedLog(m) \in Seq(LogEntry) /\ LastIndex(MergedLog(m)) \in Nat
    BY <2>1, MergedLogType, LenProperties DEF LastIndex
  <2>4. RoleAfterAppend(m) \in Role
    BY <2>2 DEF RoleAfterAppend, TypeOK, Role
  <2>5. QED
    BY <1>2, <2>2, <2>3, <2>4 DEF HandleAppendEntries, TypeOK, Minimum
<1>3. QED
  BY <1>1, <1>2 DEF Handle

(* The answers have their type.                                             *)
LEMMA AnswerType ==
  ASSUME TypeOK
  PROVE  /\ \A m \in VoteRequest : RequestVoteAnswer(m) \in Answer
         /\ \A m \in AppendRequest : AppendEntriesAnswer(m) \in Answer
<1>1. ASSUME NEW m \in VoteRequest
      PROVE  RequestVoteAnswer(m) \in Answer
  <2>1. m.to \in Node /\ m.term \in Nat /\ currentTerm[m.to] \in Nat
    BY DEF VoteRequest, TypeOK
  <2>2. Granted(m) \in BOOLEAN
    BY DEF Granted
  <2>3. QED
    BY <2>1, <2>2 DEF RequestVoteAnswer, Answer
<1>2. ASSUME NEW m \in AppendRequest
      PROVE  AppendEntriesAnswer(m) \in Answer
  <2>1. m.to \in Node /\ m.term \in Nat /\ currentTerm[m.to] \in Nat
    BY DEF AppendRequest, TypeOK
  <2>2. LastIndex(MergedLog(m)) \in Nat
    BY MergedLogType, LenProperties DEF LastIndex
  <2>3. Consistent(m) \in BOOLEAN
    BY DEF Consistent
  <2>4. QED
    BY <2>1, <2>2, <2>3 DEF AppendEntriesAnswer, Answer
<1>3. QED
  BY <1>1, <1>2

(* _advance_commit leaves an index: the old one or one that is committable.  *)
LEMMA AdvancedCommitType ==
  ASSUME TypeOK, NEW n \in Node, NEW t \in Nat, NEW match
  PROVE  /\ AdvancedCommit(n, t, match) \in Nat
         /\ \/ AdvancedCommit(n, t, match) = commitIndex[n]
            \/ AdvancedCommit(n, t, match) \in Committable(n, t, match)
<1> DEFINE C == Committable(n, t, match)
<1>1. log[n] \in Seq(LogEntry) /\ commitIndex[n] \in Nat
  BY DEF TypeOK
<1>2. Len(log[n]) \in Nat
  BY <1>1, LenProperties
<1>3. C \subseteq 0..Len(log[n])
  BY <1>1, <1>2 DEF Committable, LastIndex
<1>4. CASE C = {}
  BY <1>1, <1>4 DEF AdvancedCommit
<1>5. CASE C # {}
  <2>1. \E i \in C : \A j \in C : j <= i
    <3> HIDE DEF C
    <3>1. QED
      BY <1>2, <1>3, <1>5, GreatestExists
  <2>2. AdvancedCommit(n, t, match) \in C
    BY <1>5, <2>1 DEF AdvancedCommit
  <2>3. QED
    BY <1>2, <1>3, <2>2
<1>6. QED
  BY <1>4, <1>5

(* Locals keep their type when the fields a pass writes do.                 *)
LEMMA LocalsType ==
  /\ NoLocals \in Locals
  /\ \A r \in Locals, p \in Node \cup {Nil} : [r EXCEPT !.peer = p] \in Locals
  /\ \A r \in Locals, p \in Node \cup {Nil}, t \in Nat :
        [r EXCEPT !.peer = p, !.prevTerm = t] \in Locals
  /\ \A r \in Locals, t, i, u \in Nat :
        [r EXCEPT !.term = t, !.lastIndex = i, !.lastTerm = u] \in Locals
  /\ \A r \in Locals, t, c \in Nat, nx \in [Node -> Nat \ {0}] :
        [r EXCEPT !.term = t, !.next = nx, !.commit = c] \in Locals
<1>1. NoLocals \in Locals
  BY DEF NoLocals, Locals
<1>2. \A r \in Locals, p \in Node \cup {Nil} : [r EXCEPT !.peer = p] \in Locals
  BY DEF Locals
<1>3. \A r \in Locals, p \in Node \cup {Nil}, t \in Nat :
        [r EXCEPT !.peer = p, !.prevTerm = t] \in Locals
  BY DEF Locals
<1>4. \A r \in Locals, t, i, u \in Nat :
        [r EXCEPT !.term = t, !.lastIndex = i, !.lastTerm = u] \in Locals
  BY DEF Locals
<1>5. \A r \in Locals, t, c \in Nat, nx \in [Node -> Nat \ {0}] :
        [r EXCEPT !.term = t, !.next = nx, !.commit = c] \in Locals
  BY DEF Locals
<1>6. QED
  BY <1>1, <1>2, <1>3, <1>4, <1>5

(* The ways a pass goes on keep the types of the ticker's variables.        *)
LEMMA PassType ==
  ASSUME TypeOK, NEW n \in Node
  PROVE  /\ EndPass(n) => /\ pc' \in [Node -> Place]
                          /\ local' \in [Node -> Locals]
                          /\ todo' \in [Node -> SUBSET Node]
                          /\ votes' \in [Node -> SUBSET Node]
         /\ \A loop \in Place, rest, granted \in SUBSET Node :
               GoOn(n, loop, rest, granted) =>
                  /\ pc' \in [Node -> Place]
                  /\ local' \in [Node -> Locals]
                  /\ votes' \in [Node -> SUBSET Node]
         /\ Returned(n) => /\ request' \in [Node -> Request \cup {Nil}]
                           /\ answer' \in [Node -> Answer \cup {Nil}]
<1>1. EndPass(n) => /\ pc' \in [Node -> Place]
                    /\ local' \in [Node -> Locals]
                    /\ todo' \in [Node -> SUBSET Node]
                    /\ votes' \in [Node -> SUBSET Node]
  <2>1. NoLocals \in Locals
    BY LocalsType
  <2>2. EndPass(n) => local' \in [Node -> Locals]
    BY <2>1 DEF EndPass, TypeOK
  <2>3. QED
    BY <2>2 DEF EndPass, TypeOK, Place
<1>2. ASSUME NEW loop \in Place, NEW rest \in SUBSET Node,
             NEW granted \in SUBSET Node, GoOn(n, loop, rest, granted)
      PROVE  /\ pc' \in [Node -> Place]
             /\ local' \in [Node -> Locals]
             /\ votes' \in [Node -> SUBSET Node]
  <2>1. local[n] \in Locals
    BY DEF TypeOK
  <2>2. [local[n] EXCEPT !.peer = Nil] \in Locals
    BY <2>1, LocalsType
  <2>3. local' \in [Node -> Locals]
    BY <1>2, <2>2, LocalsType DEF GoOn, TypeOK
  <2>4. QED
    BY <1>2, <2>3 DEF GoOn, TypeOK, Place
<1>3. Returned(n) => /\ request' \in [Node -> Request \cup {Nil}]
                     /\ answer' \in [Node -> Answer \cup {Nil}]
  BY DEF Returned, TypeOK
<1>4. QED
  BY <1>1, <1>2, <1>3

(* A step of node n leaves the other tickers in order.                      *)
LEMMA TickerFrame ==
  ASSUME TickerInv, NEW n \in Node, TickerOK(n)',
         \A k \in Node \ {n} :
            /\ pc'[k] = pc[k] /\ local'[k] = local[k] /\ todo'[k] = todo[k]
            /\ request'[k] = request[k] /\ answer'[k] = answer[k],
         \A m \in late' : m \in late \/ m.from # m.to
  PROVE  TickerInv'
<1>1. ASSUME NEW k \in Node PROVE TickerOK(k)'
  <2>1. CASE k = n
    BY <2>1
  <2>2. CASE k # n
    BY <2>2 DEF TickerInv, TickerOK
  <2>3. QED
    BY <2>1, <2>2
<1>2. QED
  BY <1>1 DEF TickerInv

(* The request a crashing ticker leaves behind is one of its own, to a peer. *)
LEMMA OnItsWayType ==
  ASSUME TypeOK, TickerInv, NEW n \in Node, NEW m \in OnItsWay(n)
  PROVE  /\ m \in Request /\ m.from # m.to
         /\ m.type = "AppendEntries" => m = request[n] /\ request[n] # Nil
<1>1. CASE m = request[n] /\ m # Nil
  BY <1>1 DEF TypeOK, TickerInv, TickerOK
<1>2. ASSUME NEW p \in todo[n], m = VoteRequestTo(n, p)
      PROVE  m \in Request /\ m.from # m.to /\ m.type = "RequestVote"
  <2>1. p \in Node \ {n} /\ local[n] \in Locals
    BY DEF TypeOK, TickerInv, TickerOK
  <2>2. VoteRequestTo(n, p) \in VoteRequest
    BY <2>1 DEF VoteRequestTo, VoteRequest, Locals
  <2>3. QED
    BY <1>2, <2>1, <2>2 DEF VoteRequestTo, Request
<1>3. QED
  BY <1>1, <1>2 DEF OnItsWay

(* A crash leaves a fresh ticker and types as they were.                    *)
LEMMA ResetType ==
  ASSUME TypeOK, TickerInv, NEW n \in Node, Reset(n),
         currentTerm' \in [Node -> Nat], votedFor' \in [Node -> Node \cup {Nil}]
  PROVE  TypeOK' /\ TickerInv'
<1>1. \A x \in late' : x \in late \/ x \in OnItsWay(n)
  BY DEF Reset, GivesUp
<1>2. \A x \in OnItsWay(n) : x \in Request /\ x.from # x.to
  BY OnItsWayType
<1>3. late' \subseteq Request
  BY <1>1, <1>2 DEF TypeOK
<1>4. local' \in [Node -> Locals]
  <2>1. NoLocals \in Locals /\ local' = [local EXCEPT ![n] = NoLocals]
    BY LocalsType DEF Reset
  <2>2. QED
    BY <2>1 DEF TypeOK
<1>5. /\ nextIndex' \in [Node -> [Node -> Nat \ {0}]]
      /\ matchIndex' \in [Node -> [Node -> Nat]]
  <2>1. [p \in Node |-> 1] \in [Node -> Nat \ {0}] /\ [p \in Node |-> 0] \in [Node -> Nat]
    OBVIOUS
  <2>2. QED
    BY <2>1 DEF Reset, TypeOK
<1>6. /\ role' \in [Node -> Role] /\ commitIndex' \in [Node -> Nat]
      /\ pc' \in [Node -> Place] /\ restarts' \in Nat
      /\ todo' \in [Node -> SUBSET Node] /\ votes' \in [Node -> SUBSET Node]
  BY DEF Reset, TypeOK, Role, Place
<1>7. /\ request' \in [Node -> Request \cup {Nil}]
      /\ answer' \in [Node -> Answer \cup {Nil}]
  BY PassType DEF Reset
<1>8. UNCHANGED <<log, cast, elected, torn>>
  BY DEF Reset
<1>9. TypeOK'
  BY <1>3, <1>4, <1>5, <1>6, <1>7, <1>8 DEF TypeOK
<1>10. /\ request'[n] = Nil /\ answer'[n] = Nil
       /\ todo'[n] = {} /\ pc'[n] = "tick"
  BY DEF Reset, Returned, TypeOK
<1>11. TickerOK(n)'
  BY <1>10 DEF TickerOK
<1>12. \A k \in Node \ {n} :
         /\ pc'[k] = pc[k] /\ local'[k] = local[k] /\ todo'[k] = todo[k]
         /\ request'[k] = request[k] /\ answer'[k] = answer[k]
  BY DEF Reset, Returned, TypeOK
<1>13. TickerInv'
  BY <1>1, <1>2, <1>11, <1>12, TickerFrame
<1>14. QED
  BY <1>9, <1>13

(* A crash between the two saves leaves a term.                             *)
LEMMA NewTermsType ==
  ASSUME TypeOK, TickerInv, NEW n \in Node
  PROVE  NewTerms(n) \subseteq Nat
<1>1. currentTerm[n] + 1 \in Nat
  BY DEF TypeOK
<1>2. \A p \in Node : \A x \in OnItsWay(p) : x \in Request
  BY OnItsWayType
<1>3. late \cup UNION {OnItsWay(p) : p \in Node} \subseteq Request
  <2>1. late \subseteq Request
    BY DEF TypeOK
  <2>2. QED
    BY <1>2, <2>1
<1>4. \A x \in Request : x.term \in Nat
  BY DEF Request, VoteRequest, AppendRequest
<1>5. QED
  BY <1>1, <1>3, <1>4 DEF NewTerms

(* Types and ticker state are preserved together, action by action.         *)
LEMMA TypeStep ==
  TypeOK /\ TickerInv /\ [Next]_vars => TypeOK' /\ TickerInv'
<1> SUFFICES ASSUME TypeOK, TickerInv, [Next]_vars
             PROVE  TypeOK' /\ TickerInv'
  OBVIOUS
<1> USE NodeAssumption, BoundAssumption
<1>1. ASSUME NEW n \in Node, StartElection(n)
      PROVE  TypeOK' /\ TickerInv'
  <2>1. LastIndex(log[n]) \in Nat /\ LastTerm(log[n]) \in Nat
    BY TermAtType, LenProperties DEF TypeOK, LastIndex, LastTerm
  <2>2. local' \in [Node -> Locals]
    <3> DEFINE r == [local[n] EXCEPT !.term = currentTerm[n] + 1,
                                     !.lastIndex = LastIndex(log[n]),
                                     !.lastTerm = LastTerm(log[n])]
    <3>1. local[n] \in Locals /\ currentTerm[n] + 1 \in Nat
      BY DEF TypeOK
    <3>2. r \in Locals
      BY <2>1, <3>1, LocalsType
    <3>3. local' = [local EXCEPT ![n] = r]
      BY <1>1 DEF StartElection
    <3>4. QED
      BY <3>2, <3>3 DEF TypeOK
  <2>3. cast' \subseteq Node \X Nat \X Node
    BY <1>1 DEF StartElection, TypeOK
  <2>4. TypeOK'
    BY <1>1, <2>2, <2>3 DEF StartElection, TypeOK, Role, Place, leaderVars, rpc
  <2>5. TickerOK(n)'
    BY <1>1 DEF StartElection, TypeOK, TickerInv, TickerOK, rpc
  <2>6. TickerInv'
    BY <1>1, <2>5, TickerFrame DEF StartElection, TypeOK, rpc
  <2>7. QED
    BY <2>4, <2>6
<1>2. ASSUME NEW n \in Node, NEW p \in Node, DeliverVote(n, p)
      PROVE  TypeOK' /\ TickerInv'
  <2> DEFINE m == VoteRequestTo(n, p)
  <2>1. m \in VoteRequest /\ m \in Request
    BY DEF VoteRequestTo, VoteRequest, Request, TypeOK, Locals
  <2>2. RequestVoteAnswer(m) \in Answer
    BY <2>1, AnswerType
  <2>3. local' \in [Node -> Locals]
    <3>1. [local[n] EXCEPT !.peer = p] \in Locals
      BY LocalsType DEF TypeOK
    <3>2. QED
      BY <1>2, <3>1 DEF DeliverVote, TypeOK
  <2>4. TypeOK'
    <3> HIDE DEF m
    <3>1. Handle(m)
      BY <1>2 DEF DeliverVote, m
    <3>2. answer' \in [Node -> Answer \cup {Nil}]
      BY <1>2, <2>2 DEF DeliverVote, TypeOK, m
    <3>3. todo' \in [Node -> SUBSET Node]
      BY <1>2 DEF DeliverVote, TypeOK
    <3>4. UNCHANGED <<nextIndex, matchIndex, restarts, elected, torn, pc, votes,
                      request, late>>
      BY <1>2, <3>1 DEF DeliverVote, Handle, leaderVars
    <3>5. QED
      BY <2>1, <2>3, <3>1, <3>2, <3>3, <3>4, HandleType DEF TypeOK
  <2>5. TickerOK(n)'
    <3>1. /\ pc[n] = "election" /\ pc'[n] = "election" /\ request'[n] = request[n]
          /\ todo'[n] \subseteq todo[n] /\ local'[n] = [local[n] EXCEPT !.peer = p]
      BY <1>2 DEF DeliverVote, TypeOK
    <3>2. local'[n].peer = p
      BY <3>1 DEF TypeOK, Locals
    <3>3. TickerOK(n)
      BY DEF TickerInv
    <3>4. QED
      BY <3>1, <3>2, <3>3 DEF TickerOK
  <2>6. TickerInv'
    BY <1>2, <2>5, TickerFrame DEF DeliverVote, TypeOK
  <2>7. QED
    BY <2>4, <2>6
<1>3. ASSUME NEW n \in Node, NEW p \in Node, VoteCallFails(n, p)
      PROVE  TypeOK' /\ TickerInv'
  <2> DEFINE m == VoteRequestTo(n, p)
  <2>1. m \in Request /\ m.from # m.to
    BY <1>3 DEF VoteCallFails, Turn, TickerInv, TickerOK,
                VoteRequestTo, VoteRequest, Request, TypeOK, Locals
  <2>2. \A x \in late' : x \in late \/ x = m
    BY <1>3 DEF VoteCallFails, GivesUp
  <2>3. TypeOK'
    <3>1. GoOn(n, "election", todo[n] \ {p}, votes[n])
      BY <1>3 DEF VoteCallFails
    <3>2. /\ pc' \in [Node -> Place]
          /\ local' \in [Node -> Locals]
          /\ votes' \in [Node -> SUBSET Node]
      BY <3>1, PassType DEF TypeOK, Place
    <3>3. late' \subseteq Request
      BY <2>1, <2>2 DEF TypeOK
    <3>4. todo' \in [Node -> SUBSET Node]
      BY <1>3 DEF VoteCallFails, TypeOK
    <3>5. QED
      BY <1>3, <3>2, <3>3, <3>4
      DEF VoteCallFails, TypeOK, persistent, leaderVars, rpc
  <2>4. TickerOK(n)'
    BY <1>3 DEF VoteCallFails, GoOn, TypeOK, TickerInv, TickerOK, rpc
  <2>5. TickerInv'
    <3>1. \A k \in Node \ {n} :
            /\ pc'[k] = pc[k] /\ local'[k] = local[k] /\ todo'[k] = todo[k]
            /\ request'[k] = request[k] /\ answer'[k] = answer[k]
      BY <1>3 DEF VoteCallFails, GoOn, TypeOK, rpc
    <3>2. QED
      BY <2>1, <2>2, <2>4, <3>1, TickerFrame
  <2>6. QED
    BY <2>3, <2>5
<1>4. ASSUME NEW n \in Node, RequestVoteReturns(n)
      PROVE  TypeOK' /\ TickerInv'
  <2> DEFINE a == answer[n]
             counted == votes[n] \cup (IF a.ok THEN {local[n].peer} ELSE {})
  <2>1. a \in Answer /\ local[n].peer \in Node /\ local[n] \in Locals
    BY <1>4 DEF RequestVoteReturns, TypeOK, TickerInv, TickerOK
  <2>2. counted \in SUBSET Node /\ a.term \in Nat
    BY <2>1 DEF TypeOK, Answer
  <2>3. /\ request' \in [Node -> Request \cup {Nil}]
        /\ answer' \in [Node -> Answer \cup {Nil}]
    BY <1>4, PassType DEF RequestVoteReturns
  <2>4. \/ /\ EndPass(n)
           /\ UNCHANGED <<currentTerm, votedFor, role>>
        \/ /\ StepDown(n, a.term)
           /\ EndPass(n)
        \/ /\ votes' = [votes EXCEPT ![n] = counted]
           /\ pc' = [pc EXCEPT ![n] = "elected"]
           /\ local' = [local EXCEPT ![n].peer = Nil]
           /\ UNCHANGED <<currentTerm, votedFor, role, todo>>
        \/ /\ GoOn(n, "election", todo[n], counted)
           /\ UNCHANGED <<currentTerm, votedFor, role, todo>>
    BY <1>4 DEF RequestVoteReturns
  <2>5. UNCHANGED <<log, commitIndex, nextIndex, matchIndex, late, restarts,
                    cast, elected, torn>>
    BY <1>4 DEF RequestVoteReturns, leaderVars
  <2> HIDE DEF a, counted
  <2>6. /\ pc' \in [Node -> Place]
        /\ local' \in [Node -> Locals]
        /\ todo' \in [Node -> SUBSET Node]
        /\ votes' \in [Node -> SUBSET Node]
    <3>1. CASE EndPass(n)
      BY <3>1, PassType
    <3>2. CASE GoOn(n, "election", todo[n], counted) /\ todo' = todo
      BY <2>2, <3>2, PassType DEF TypeOK, Place
    <3>3. CASE /\ votes' = [votes EXCEPT ![n] = counted]
               /\ pc' = [pc EXCEPT ![n] = "elected"]
               /\ local' = [local EXCEPT ![n].peer = Nil]
               /\ todo' = todo
      <4>1. [local[n] EXCEPT !.peer = Nil] \in Locals
        BY <2>1, LocalsType
      <4>2. local' \in [Node -> Locals]
        BY <3>3, <4>1 DEF TypeOK
      <4>3. QED
        BY <2>2, <3>3, <4>2 DEF TypeOK, Place
    <3>4. QED
      BY <2>4, <3>1, <3>2, <3>3
  <2>7. /\ currentTerm' \in [Node -> Nat]
        /\ votedFor' \in [Node -> Node \cup {Nil}]
        /\ role' \in [Node -> Role]
    <3>1. CASE UNCHANGED <<currentTerm, votedFor, role>>
      BY <3>1 DEF TypeOK
    <3>2. CASE StepDown(n, a.term)
      BY <2>2, <3>2 DEF StepDown, TypeOK, Role
    <3>3. QED
      BY <2>4, <3>1, <3>2
  <2>8. TypeOK'
    BY <2>3, <2>5, <2>6, <2>7 DEF TypeOK
  <2>9. request'[n] = Nil /\ answer'[n] = Nil
    BY <1>4 DEF RequestVoteReturns, Returned, TypeOK
  <2>10. todo'[n] \subseteq Node \ {n} /\ pc'[n] # "entries"
    BY <2>4 DEF EndPass, GoOn, TypeOK, TickerInv, TickerOK
  <2>11. TickerOK(n)'
    BY <2>9, <2>10 DEF TickerOK
  <2>12. \A k \in Node \ {n} :
           /\ pc'[k] = pc[k] /\ local'[k] = local[k] /\ todo'[k] = todo[k]
    BY <2>4 DEF EndPass, GoOn, TypeOK
  <2>13. \A k \in Node \ {n} :
           request'[k] = request[k] /\ answer'[k] = answer[k]
    BY <1>4 DEF RequestVoteReturns, Returned, TypeOK
  <2>14. TickerInv'
    BY <2>5, <2>11, <2>12, <2>13, TickerFrame
  <2>15. QED
    BY <2>8, <2>14
<1>5. ASSUME NEW n \in Node, BecomeLeader(n)
      PROVE  TypeOK' /\ TickerInv'
  <2> DEFINE next  == [p \in Node |-> IF p = n THEN nextIndex[n][p]
                                      ELSE LastIndex(log[n]) + 1]
             match == [p \in Node |-> IF p = n THEN LastIndex(log[n]) ELSE 0]
  <2>1. next \in [Node -> Nat \ {0}] /\ match \in [Node -> Nat]
    <3>1. LastIndex(log[n]) \in Nat
      BY LenProperties DEF TypeOK, LastIndex
    <3>2. QED
      BY <3>1 DEF TypeOK
  <2>2. \/ EndPass(n) /\ UNCHANGED <<role, nextIndex, matchIndex, elected>>
        \/ /\ role' = [role EXCEPT ![n] = "LEADER"]
           /\ nextIndex' = [nextIndex EXCEPT ![n] = next]
           /\ matchIndex' = [matchIndex EXCEPT ![n] = match]
           /\ elected' = elected \cup {<<local[n].term, n>>}
           /\ pc' = [pc EXCEPT ![n] = "assert"]
           /\ local' = [local EXCEPT ![n] = NoLocals]
           /\ todo' = [todo EXCEPT ![n] = {}]
           /\ votes' = [votes EXCEPT ![n] = {}]
    BY <1>5 DEF BecomeLeader, leaderVars
  <2>3. UNCHANGED <<currentTerm, votedFor, log, commitIndex, request, answer,
                    late, restarts, cast, torn>>
    BY <1>5 DEF BecomeLeader, persistent, rpc
  <2> HIDE DEF next, match
  <2>4. TypeOK'
    <3>1. CASE EndPass(n) /\ UNCHANGED <<role, nextIndex, matchIndex, elected>>
      BY <2>3, <3>1, PassType DEF TypeOK
    <3>2. CASE ~(EndPass(n) /\ UNCHANGED <<role, nextIndex, matchIndex, elected>>)
      <4>1. NoLocals \in Locals /\ local \in [Node -> Locals]
        BY LocalsType DEF TypeOK
      <4>2. local' \in [Node -> Locals]
        <5>1. local' = [local EXCEPT ![n] = NoLocals]
          BY <2>2, <3>2
        <5>2. QED
          BY <4>1, <5>1
      <4>3. nextIndex' \in [Node -> [Node -> Nat \ {0}]]
        <5>1. nextIndex' = [nextIndex EXCEPT ![n] = next]
          BY <2>2, <3>2
        <5>2. QED
          BY <2>1, <5>1 DEF TypeOK
      <4>4. matchIndex' \in [Node -> [Node -> Nat]]
        <5>1. matchIndex' = [matchIndex EXCEPT ![n] = match]
          BY <2>2, <3>2
        <5>2. QED
          BY <2>1, <5>1 DEF TypeOK
      <4>5. elected' \subseteq Nat \X Node
        BY <2>2, <3>2 DEF TypeOK, Locals
      <4>6. /\ role' = [role EXCEPT ![n] = "LEADER"]
            /\ pc' = [pc EXCEPT ![n] = "assert"]
            /\ todo' = [todo EXCEPT ![n] = {}]
            /\ votes' = [votes EXCEPT ![n] = {}]
        BY <2>2, <3>2
      <4>7. /\ role' \in [Node -> Role]
            /\ pc' \in [Node -> Place]
            /\ todo' \in [Node -> SUBSET Node]
            /\ votes' \in [Node -> SUBSET Node]
        BY <4>6 DEF TypeOK, Place, Role
      <4>8. QED
        BY <2>3, <4>2, <4>3, <4>4, <4>5, <4>7 DEF TypeOK
    <3>3. QED
      BY <3>1, <3>2
  <2>5. answer[n] = Nil /\ request[n] = Nil
    BY <1>5 DEF BecomeLeader, TickerInv, TickerOK
  <2>6. TickerOK(n)'
    BY <2>2, <2>3, <2>5 DEF EndPass, TypeOK, TickerOK
  <2>7. TickerInv'
    BY <2>2, <2>3, <2>6, TickerFrame DEF EndPass, TypeOK
  <2>8. QED
    BY <2>4, <2>7
<1>6. ASSUME NEW n \in Node, StartReplicate(n)
      PROVE  TypeOK' /\ TickerInv'
  <2> DEFINE r == [local[n] EXCEPT !.term = currentTerm[n],
                                   !.next = nextIndex[n],
                                   !.commit = commitIndex[n]]
  <2>1. r \in Locals
    BY LocalsType DEF TypeOK
  <2>2. \/ EndPass(n)
        \/ /\ pc' = [pc EXCEPT ![n] = "replicate"]
           /\ todo' = [todo EXCEPT ![n] = Node \ {n}]
           /\ local' = [local EXCEPT ![n] = r]
           /\ votes' = votes
    BY <1>6 DEF StartReplicate
  <2> HIDE DEF r
  <2>3. /\ pc' \in [Node -> Place]
        /\ local' \in [Node -> Locals]
        /\ todo' \in [Node -> SUBSET Node]
        /\ votes' \in [Node -> SUBSET Node]
    <3>1. CASE EndPass(n)
      BY <3>1, PassType
    <3>2. CASE ~EndPass(n)
      <4>1. local' = [local EXCEPT ![n] = r]
        BY <2>2, <3>2
      <4>2. local' \in [Node -> Locals]
        BY <2>1, <4>1 DEF TypeOK
      <4>3. /\ pc' = [pc EXCEPT ![n] = "replicate"]
            /\ todo' = [todo EXCEPT ![n] = Node \ {n}]
            /\ votes' = votes
        BY <2>2, <3>2
      <4>4. QED
        BY <4>2, <4>3 DEF TypeOK, Place
    <3>3. QED
      BY <3>1, <3>2
  <2>4. UNCHANGED <<currentTerm, votedFor, log, role, commitIndex, nextIndex,
                    matchIndex, request, answer, late, restarts, cast, elected, torn>>
    BY <1>6 DEF StartReplicate, persistent, leaderVars, rpc
  <2>5. TypeOK'
    BY <2>3, <2>4 DEF TypeOK
  <2>6. answer[n] = Nil /\ request[n] = Nil
    BY <1>6 DEF StartReplicate, TickerInv, TickerOK
  <2>7. TickerOK(n)'
    BY <2>2, <2>4, <2>6 DEF EndPass, TypeOK, TickerOK
  <2>8. TickerInv'
    BY <2>2, <2>4, <2>7, TickerFrame DEF EndPass, TypeOK
  <2>9. QED
    BY <2>5, <2>8
<1>7. ASSUME NEW n \in Node, NEW p \in Node, ReadPrevTerm(n, p)
      PROVE  TypeOK' /\ TickerInv'
  <2> DEFINE t == TermAt(log[n], local[n].next[p] - 1)
             r == [local[n] EXCEPT !.peer = p, !.prevTerm = t]
  <2>1. local[n] \in Locals /\ local[n].next[p] \in Nat /\ log[n] \in Seq(LogEntry)
    BY DEF TypeOK, Locals
  <2>2. t \in Nat
    <3>1. local[n].next[p] - 1 \in Int
      BY <2>1
    <3>2. QED
      BY <2>1, <3>1, TermAtType
  <2>3. r \in Locals
    <3> HIDE DEF t
    <3>1. QED
      BY <2>1, <2>2, LocalsType
  <2>4. local' = [local EXCEPT ![n] = r]
    BY <1>7 DEF ReadPrevTerm
  <2>5. local' \in [Node -> Locals]
    <3> HIDE DEF r
    <3>1. QED
      BY <2>3, <2>4 DEF TypeOK
  <2>6. TypeOK'
    BY <1>7, <2>5 DEF ReadPrevTerm, TypeOK, Place, persistent, leaderVars, rpc
  <2>7. local'[n].peer = p
    BY <2>1, <2>4 DEF TypeOK, Locals
  <2>8. TickerOK(n)'
    BY <1>7, <2>7 DEF ReadPrevTerm, Turn, TypeOK, TickerInv, TickerOK, rpc
  <2>9. TickerInv'
    BY <1>7, <2>8, TickerFrame DEF ReadPrevTerm, TypeOK, rpc
  <2>10. QED
    BY <2>6, <2>9
<1>8. ASSUME NEW n \in Node, SendAppendEntries(n)
      PROVE  TypeOK' /\ TickerInv'
  <2> DEFINE p  == local[n].peer
             ni == local[n].next[p]
             es == EntriesFrom(log[n], ni)
             m  == [type |-> "AppendEntries", from |-> n, to |-> p,
                    term |-> local[n].term, prevIndex |-> ni - 1,
                    prevTerm |-> local[n].prevTerm, entries |-> es,
                    commit |-> local[n].commit]
             r  == [local[n] EXCEPT !.peer = Nil, !.prevTerm = 0]
  <2>1. p \in Node \ {n}
    BY <1>8 DEF SendAppendEntries, TickerInv, TickerOK
  <2>2. /\ ni \in Nat \ {0} /\ local[n].term \in Nat /\ local[n].prevTerm \in Nat
        /\ local[n].commit \in Nat /\ log[n] \in Seq(LogEntry) /\ local[n] \in Locals
    <3>1. local[n] \in Locals /\ log[n] \in Seq(LogEntry)
      BY DEF TypeOK
    <3>2. local[n].next \in [Node -> Nat \ {0}]
      BY <3>1 DEF Locals
    <3> HIDE DEF p
    <3>3. QED
      BY <2>1, <3>1, <3>2 DEF Locals
  <2>3. es \in Seq(LogEntry) /\ ni - 1 \in Nat
    <3> HIDE DEF ni
    <3>1. QED
      BY <2>2, EntriesFromType
  <2>4. m \in AppendRequest /\ m.from = n /\ m.to # n
    <3> HIDE DEF p, ni, es
    <3>1. QED
      BY <2>1, <2>2, <2>3 DEF AppendRequest
  <2>5. r \in Locals
    BY <2>2, LocalsType
  <2>6. /\ pc[n] = "entries"
        /\ request' = [request EXCEPT ![n] = m]
        /\ pc' = [pc EXCEPT ![n] = "replicate"]
        /\ local' = [local EXCEPT ![n] = r]
        /\ UNCHANGED <<currentTerm, votedFor, log, role, commitIndex, nextIndex,
                       matchIndex, todo, votes, answer, late, restarts, cast,
                       elected>>
        /\ torn' \in BOOLEAN
    BY <1>8 DEF SendAppendEntries, persistent, leaderVars, TypeOK
  <2> HIDE DEF p, ni, es, m, r
  <2>7. local' \in [Node -> Locals]
    BY <2>5, <2>6 DEF TypeOK
  <2>8. request' \in [Node -> Request \cup {Nil}]
    BY <2>4, <2>6 DEF TypeOK, Request
  <2>9. TypeOK'
    BY <2>6, <2>7, <2>8 DEF TypeOK, Place
  <2>10. request'[n] = m
    BY <2>6 DEF TypeOK
  <2>11. TickerOK(n)'
    BY <2>4, <2>6, <2>10 DEF TypeOK, TickerInv, TickerOK
  <2>12. TickerInv'
    BY <2>6, <2>11, TickerFrame DEF TypeOK
  <2>13. QED
    BY <2>9, <2>12
<1>9. ASSUME NEW n \in Node, DeliverAppend(n)
      PROVE  TypeOK' /\ TickerInv'
  <2> DEFINE m == request[n]
  <2>1. m # Nil /\ m \in AppendRequest /\ pc[n] = "replicate"
    BY <1>9 DEF DeliverAppend, TickerInv, TickerOK
  <2>2. /\ Handle(m)
        /\ answer' = [answer EXCEPT ![n] = AppendEntriesAnswer(m)]
        /\ UNCHANGED <<nextIndex, matchIndex, restarts, elected, torn, pc, local, todo,
                       votes, request, late>>
    BY <1>9 DEF DeliverAppend, Handle, ticker, leaderVars
  <2>3. AppendEntriesAnswer(m) \in Answer
    BY <2>1, AnswerType
  <2>4. TypeOK'
    BY <2>1, <2>2, <2>3, HandleType DEF TypeOK, Request
  <2>5. TickerOK(n)'
    BY <2>1, <2>2 DEF TypeOK, TickerInv, TickerOK
  <2>6. TickerInv'
    BY <2>2, <2>5, TickerFrame DEF TypeOK
  <2>7. QED
    BY <2>4, <2>6
<1>10. ASSUME NEW n \in Node, AppendCallFails(n)
       PROVE  TypeOK' /\ TickerInv'
  <2>1. /\ request[n] \in AppendRequest /\ pc[n] = "replicate"
        /\ request[n].from = n /\ request[n].to # n
    BY <1>10 DEF AppendCallFails, TickerInv, TickerOK
  <2>2. \A x \in late' : x \in late \/ x = request[n]
    BY <1>10 DEF AppendCallFails, GivesUp
  <2>3. /\ Returned(n)
        /\ GoOn(n, "replicate", todo[n], votes[n])
        /\ UNCHANGED <<currentTerm, votedFor, log, role, commitIndex, nextIndex,
                       matchIndex, todo, restarts, cast, elected, torn>>
    BY <1>10 DEF AppendCallFails, persistent, leaderVars
  <2>4. TypeOK'
    <3>1. late' \subseteq Request
      BY <2>1, <2>2 DEF TypeOK, Request
    <3>2. /\ pc' \in [Node -> Place]
          /\ local' \in [Node -> Locals]
          /\ votes' \in [Node -> SUBSET Node]
      BY <2>3, PassType DEF TypeOK, Place
    <3>3. QED
      BY <2>3, <3>1, <3>2, PassType DEF TypeOK
  <2>5. TickerOK(n)'
    BY <2>3 DEF GoOn, Returned, TypeOK, TickerInv, TickerOK
  <2>6. TickerInv'
    <3>1. \A k \in Node \ {n} :
            /\ pc'[k] = pc[k] /\ local'[k] = local[k] /\ todo'[k] = todo[k]
            /\ request'[k] = request[k] /\ answer'[k] = answer[k]
      BY <2>3 DEF GoOn, Returned, TypeOK
    <3>2. QED
      BY <2>1, <2>2, <2>5, <3>1, TickerFrame
  <2>7. QED
    BY <2>4, <2>6
<1>11. ASSUME NEW n \in Node, AppendEntriesReturns(n)
       PROVE  TypeOK' /\ TickerInv'
  <2> DEFINE a == answer[n]
             p == request[n].to
             match == [matchIndex[n] EXCEPT ![p] = a.match, ![n] = LastIndex(log[n])]
             ci == IF a.ok THEN AdvancedCommit(n, local[n].term, match)
                   ELSE commitIndex[n]
             mi == IF a.ok THEN match ELSE matchIndex[n]
             ni == [nextIndex[n] EXCEPT ![p] = NextAfter(a.match)]
  <2>1. a \in Answer /\ p \in Node
    <3>1. a \in Answer /\ request[n] \in AppendRequest
      BY <1>11 DEF AppendEntriesReturns, TypeOK, TickerInv, TickerOK
    <3>2. QED
      BY <3>1 DEF AppendRequest
  <2>2. a.term \in Nat /\ a.match \in Nat /\ LastIndex(log[n]) \in Nat
    BY <2>1, LenProperties DEF Answer, TypeOK, LastIndex
  <2>3. match \in [Node -> Nat]
    <3> HIDE DEF a, p
    <3>1. QED
      BY <2>1, <2>2 DEF TypeOK
  <2>4. ci \in Nat
    <3>1. local[n].term \in Nat
      BY DEF TypeOK, Locals
    <3> HIDE DEF match
    <3>2. QED
      BY <3>1, AdvancedCommitType DEF TypeOK
  <2>5. mi \in [Node -> Nat] /\ ni \in [Node -> Nat \ {0}]
    <3>1. a.match + 1 \in Nat \ {0}
      BY <2>2
    <3> HIDE DEF a, p, match
    <3>2. QED
      BY <2>1, <2>3, <3>1 DEF TypeOK, NextAfter
  <2>6. \/ /\ StepDown(n, a.term)
           /\ EndPass(n)
           /\ UNCHANGED <<commitIndex, nextIndex, matchIndex>>
        \/ /\ EndPass(n)
           /\ UNCHANGED <<currentTerm, votedFor, role, commitIndex, nextIndex,
                          matchIndex>>
        \/ /\ nextIndex' = [nextIndex EXCEPT ![n] = ni]
           /\ matchIndex' = [matchIndex EXCEPT ![n] = mi]
           /\ commitIndex' = [commitIndex EXCEPT ![n] = ci]
           /\ GoOn(n, "replicate", todo[n], votes[n])
           /\ UNCHANGED <<currentTerm, votedFor, role, todo>>
    BY <1>11 DEF AppendEntriesReturns, leaderVars
  <2>7. Returned(n) /\ UNCHANGED <<log, late, restarts, cast, elected, torn>>
    BY <1>11 DEF AppendEntriesReturns
  <2> HIDE DEF a, p, match, ci, mi, ni
  <2>8. TypeOK'
    <3>1. /\ request' \in [Node -> Request \cup {Nil}]
          /\ answer' \in [Node -> Answer \cup {Nil}]
      BY <2>7, PassType
    <3>2. CASE /\ StepDown(n, a.term)
               /\ EndPass(n)
               /\ UNCHANGED <<commitIndex, nextIndex, matchIndex>>
      <4>1. /\ currentTerm' \in [Node -> Nat]
            /\ votedFor' \in [Node -> Node \cup {Nil}]
            /\ role' \in [Node -> Role]
        BY <2>2, <3>2 DEF StepDown, TypeOK, Role
      <4>2. QED
        BY <2>7, <3>1, <3>2, <4>1, PassType DEF TypeOK
    <3>3. CASE /\ EndPass(n)
               /\ UNCHANGED <<currentTerm, votedFor, role, commitIndex, nextIndex,
                              matchIndex>>
      BY <2>7, <3>1, <3>3, PassType DEF TypeOK
    <3>4. CASE /\ nextIndex' = [nextIndex EXCEPT ![n] = ni]
               /\ matchIndex' = [matchIndex EXCEPT ![n] = mi]
               /\ commitIndex' = [commitIndex EXCEPT ![n] = ci]
               /\ GoOn(n, "replicate", todo[n], votes[n])
               /\ UNCHANGED <<currentTerm, votedFor, role, todo>>
      <4>1. nextIndex' \in [Node -> [Node -> Nat \ {0}]]
        BY <2>5, <3>4 DEF TypeOK
      <4>2. matchIndex' \in [Node -> [Node -> Nat]]
        BY <2>5, <3>4 DEF TypeOK
      <4>3. commitIndex' \in [Node -> Nat]
        BY <2>4, <3>4 DEF TypeOK
      <4>0. "replicate" \in Place /\ todo[n] \in SUBSET Node /\ votes[n] \in SUBSET Node
        BY DEF TypeOK, Place
      <4>4. /\ pc' \in [Node -> Place]
            /\ local' \in [Node -> Locals]
            /\ votes' \in [Node -> SUBSET Node]
        BY <3>4, <4>0, PassType
      <4>5. QED
        BY <2>7, <3>1, <3>4, <4>1, <4>2, <4>3, <4>4 DEF TypeOK
    <3>5. QED
      BY <2>6, <3>2, <3>3, <3>4
  <2>9. request'[n] = Nil /\ answer'[n] = Nil
    BY <2>7 DEF Returned, TypeOK
  <2>10. todo'[n] \subseteq Node \ {n} /\ pc'[n] # "entries"
    <3>1. TickerOK(n)
      BY DEF TickerInv
    <3>2. CASE EndPass(n)
      BY <3>2 DEF EndPass, TypeOK
    <3>3. CASE GoOn(n, "replicate", todo[n], votes[n]) /\ UNCHANGED todo
      BY <3>1, <3>3 DEF GoOn, TypeOK, TickerOK
    <3>4. QED
      BY <2>6, <3>2, <3>3
  <2>11. TickerOK(n)'
    BY <2>9, <2>10 DEF TickerOK
  <2>12. \A k \in Node \ {n} :
           /\ pc'[k] = pc[k] /\ local'[k] = local[k] /\ todo'[k] = todo[k]
    BY <2>6 DEF EndPass, GoOn, TypeOK
  <2>13. \A k \in Node \ {n} :
           request'[k] = request[k] /\ answer'[k] = answer[k]
    BY <2>7 DEF Returned, TypeOK
  <2>14. TickerInv'
    BY <2>7, <2>11, <2>12, <2>13, TickerFrame
  <2>15. QED
    BY <2>8, <2>14
<1>12. ASSUME NEW n \in Node, AnswerLost(n)
       PROVE  TypeOK' /\ TickerInv'
  <2>1. /\ Returned(n)
        /\ GoOn(n, pc[n], todo[n], votes[n])
        /\ UNCHANGED <<currentTerm, votedFor, log, role, commitIndex, nextIndex,
                       matchIndex, todo, late, restarts, cast, elected, torn>>
    BY <1>12 DEF AnswerLost, persistent, leaderVars
  <2>2. /\ pc' \in [Node -> Place]
        /\ local' \in [Node -> Locals]
        /\ votes' \in [Node -> SUBSET Node]
    BY <2>1, PassType DEF TypeOK
  <2>3. TypeOK'
    BY <2>1, <2>2, PassType DEF TypeOK
  <2>4. TickerOK(n)'
    <3>1. request'[n] = Nil /\ answer'[n] = Nil
      BY <2>1 DEF Returned, TypeOK
    <3>2. pc[n] # "entries" /\ todo[n] \subseteq Node \ {n}
      BY <1>12 DEF AnswerLost, TickerInv, TickerOK
    <3>3. todo'[n] \subseteq Node \ {n} /\ pc'[n] # "entries"
      BY <2>1, <3>2 DEF GoOn, TypeOK
    <3>4. QED
      BY <3>1, <3>3 DEF TickerOK
  <2>5. TickerInv'
    <3>1. \A k \in Node \ {n} :
            /\ pc'[k] = pc[k] /\ local'[k] = local[k] /\ todo'[k] = todo[k]
            /\ request'[k] = request[k] /\ answer'[k] = answer[k]
      BY <2>1 DEF GoOn, Returned, TypeOK
    <3>2. QED
      BY <2>1, <2>4, <3>1, TickerFrame
  <2>6. QED
    BY <2>3, <2>5
<1>13. ASSUME NEW n \in Node, Restart(n)
       PROVE  TypeOK' /\ TickerInv'
  BY <1>13, ResetType DEF Restart, TypeOK
<1>14. ASSUME NEW n \in Node, CrashBetweenSaves(n)
       PROVE  TypeOK' /\ TickerInv'
  <2>1. PICK t \in NewTerms(n) : currentTerm' = [currentTerm EXCEPT ![n] = t]
    BY <1>14 DEF CrashBetweenSaves
  <2>2. /\ currentTerm' \in [Node -> Nat]
        /\ votedFor' \in [Node -> Node \cup {Nil}]
    BY <1>14, <2>1, NewTermsType DEF CrashBetweenSaves, TypeOK
  <2>3. QED
    BY <1>14, <2>2, ResetType DEF CrashBetweenSaves
<1>15. ASSUME NEW n \in Node, NEW c \in Command, Propose(n, c)
       PROVE  TypeOK' /\ TickerInv'
  <2> DEFINE e == [term |-> currentTerm[n], command |-> c]
             match == [matchIndex[n] EXCEPT ![n] = LastIndex(log[n]) + 1]
  <2>1. e \in LogEntry /\ log[n] \in Seq(LogEntry)
    BY DEF TypeOK, LogEntry
  <2>2. Append(log[n], e) \in Seq(LogEntry) /\ LastIndex(log[n]) + 1 \in Nat
    BY <2>1, AppendProperties, LenProperties DEF LastIndex
  <2>3. match \in [Node -> Nat]
    BY <2>2 DEF TypeOK
  <2>4. /\ log' = [log EXCEPT ![n] = Append(log[n], e)]
        /\ matchIndex' = [matchIndex EXCEPT ![n] = match]
        /\ UNCHANGED <<currentTerm, votedFor, role, commitIndex, nextIndex, pc,
                       local, todo, votes, request, answer, late, restarts,
                       cast, elected, torn>>
    BY <1>15 DEF Propose, ticker, rpc
  <2> HIDE DEF e, match
  <2>5. log' \in [Node -> Seq(LogEntry)] /\ matchIndex' \in [Node -> [Node -> Nat]]
    BY <2>2, <2>3, <2>4 DEF TypeOK
  <2>6. TypeOK'
    BY <2>4, <2>5 DEF TypeOK
  <2>7. TickerInv'
    BY <2>4 DEF TickerInv, TickerOK
  <2>8. QED
    BY <2>6, <2>7
<1>16. ASSUME NEW m \in late, DeliverLate(m)
       PROVE  TypeOK' /\ TickerInv'
  <2>1. /\ m \in Request /\ Handle(m)
        /\ late' \subseteq late
        /\ UNCHANGED <<nextIndex, matchIndex, restarts, elected, torn, pc, local, todo,
                       votes, request, answer>>
    BY <1>16 DEF DeliverLate, Handle, TypeOK, ticker, rpc, leaderVars
  <2>2. TypeOK'
    BY <2>1, HandleType DEF TypeOK
  <2>3. TickerInv'
    BY <2>1 DEF TickerInv, TickerOK
  <2>4. QED
    BY <2>2, <2>3
<1>17. CASE UNCHANGED vars
  BY <1>17 DEF vars, persistent, leaderVars, ticker, rpc, TypeOK, TickerInv, TickerOK
<1>18. QED
  BY <1>1, <1>2, <1>3, <1>4, <1>5, <1>6, <1>7, <1>8, <1>9, <1>10, <1>11,
     <1>12, <1>13, <1>14, <1>15, <1>16, <1>17
  DEF Next

(* The first state has them.                                                 *)
LEMMA TypeInit == Init => TypeOK /\ TickerInv
<1> SUFFICES ASSUME Init PROVE TypeOK /\ TickerInv
  OBVIOUS
<1>1. NoLocals \in Locals
  BY LocalsType
<1>2. << >> \in Seq(LogEntry)
  BY EmptySeq
<1>3. TypeOK
  <2> HIDE DEF NoLocals
  <2>1. QED
    <3>1. torn \in BOOLEAN
      BY DEF Init
    <3>2. late \subseteq Request /\ cast \subseteq Node \X Nat \X Node /\ elected \subseteq Nat \X Node
      BY DEF Init
    <3>3. QED
      BY <1>1, <1>2, <3>1, <3>2 DEF Init, TypeOK, Role, Place
<1>4. TickerInv
  BY DEF Init, TickerInv, TickerOK
<1>5. QED
  BY <1>3, <1>4

(* Every variable keeps its type in every run, whatever the size of the      *)
(* cluster, the interleaving of tickers and handlers, and the crashes: in    *)
(* particular next_index stays above 0 and a vote names a node.              *)
THEOREM TypeCorrect == Spec => []TypeOK
<1>1. TypeOK /\ TickerInv /\ [Next]_vars => (TypeOK /\ TickerInv)'
  BY TypeStep
<1>2. QED
  BY <1>1, TypeInit, PTL DEF Spec

-----------------------------------------------------------------------------
(* Votes and leaders *)

(* What every step does to the persistent state, to the history of votes and *)
(* to leadership: terms grow, votes are final, a vote is given once, and     *)
(* only an elected ticker makes its node leader.                             *)
DiskStep ==
    /\ \A k \in Node :
          /\ currentTerm'[k] >= currentTerm[k]
          /\ currentTerm'[k] = currentTerm[k] /\ votedFor[k] # Nil
                => votedFor'[k] = votedFor[k]
          /\ role'[k] = "LEADER" =>
                /\ currentTerm'[k] = currentTerm[k]
                /\ role[k] = "LEADER" \/ (pc[k] = "elected" /\ pc'[k] = "assert")
    /\ \/ cast' = cast
       \/ \E v, c \in Node :
             /\ cast' = cast \cup {<<v, currentTerm'[v], c>>}
             /\ votedFor'[v] = c
             /\ currentTerm'[v] > currentTerm[v] \/ votedFor[v] \in {Nil, c}
    /\ elected \subseteq elected'

(* Handlers obey DiskStep.                                                   *)
LEMMA HandleDisk ==
  ASSUME TypeOK, NEW m \in Request, Handle(m)
  PROVE  DiskStep
<1> USE NodeAssumption
<1> DEFINE p == m.to
<1>1. m.to \in Node /\ m.from \in Node /\ m.term \in Nat
  BY DEF Request, VoteRequest, AppendRequest
<1>2. /\ elected' = elected
      /\ \A k \in Node : currentTerm[k] \in Nat
  BY DEF Handle, TypeOK
<1>3. \A k \in Node \ {m.to} : /\ currentTerm'[k] = currentTerm[k]
                              /\ votedFor'[k] = votedFor[k]
                              /\ role'[k] = role[k]
  BY DEF Handle, HandleRequestVote, HandleAppendEntries, TypeOK
<1>4. CASE HandleRequestVote(m)
  <2>1. /\ currentTerm'[p] = IF Newer(m) THEN m.term ELSE currentTerm[p]
        /\ votedFor'[p] = IF Granted(m) THEN m.from
                          ELSE IF Newer(m) THEN Nil ELSE votedFor[p]
        /\ role'[p] = IF Newer(m) THEN "FOLLOWER" ELSE role[p]
        /\ cast' = IF Granted(m) THEN cast \cup {<<p, m.term, m.from>>} ELSE cast
    BY <1>1, <1>4 DEF HandleRequestVote, TypeOK
  <2>2. /\ currentTerm'[p] >= currentTerm[p]
        /\ currentTerm'[p] = currentTerm[p] /\ votedFor[p] # Nil
              => votedFor'[p] = votedFor[p]
        /\ role'[p] = "LEADER" => currentTerm'[p] = currentTerm[p] /\ role[p] = "LEADER"
    BY <1>1, <1>2, <2>1 DEF Newer, Granted
  <2>3. CASE Granted(m)
    <3>1. /\ currentTerm'[p] = m.term /\ votedFor'[p] = m.from
          /\ currentTerm'[p] > currentTerm[p] \/ votedFor[p] \in {Nil, m.from}
      BY <1>1, <1>2, <2>1, <2>3 DEF Newer, Granted
    <3>2. QED
      BY <1>1, <1>2, <1>3, <2>1, <2>2, <2>3, <3>1 DEF DiskStep
  <2>4. CASE ~Granted(m)
    BY <1>1, <1>2, <1>3, <2>1, <2>2, <2>4 DEF DiskStep
  <2>5. QED
    BY <2>3, <2>4
<1>5. CASE HandleAppendEntries(m)
  <2>1. /\ currentTerm'[p] = IF Newer(m) THEN m.term ELSE currentTerm[p]
        /\ votedFor'[p] = IF Newer(m) THEN Nil ELSE votedFor[p]
        /\ role'[p] = RoleAfterAppend(m)
        /\ cast' = cast
    BY <1>1, <1>5 DEF HandleAppendEntries, TypeOK
  <2>2. /\ currentTerm'[p] >= currentTerm[p]
        /\ currentTerm'[p] = currentTerm[p] => votedFor'[p] = votedFor[p]
        /\ role'[p] = "LEADER" => currentTerm'[p] = currentTerm[p] /\ role[p] = "LEADER"
    BY <1>1, <1>2, <2>1 DEF Newer, RoleAfterAppend
  <2>3. QED
    BY <1>1, <1>2, <1>3, <2>1, <2>2 DEF DiskStep
<1>6. QED
  BY <1>4, <1>5 DEF Handle

(* Every step does.                                                          *)
LEMMA DiskStepHolds ==
  TypeOK /\ TickerInv /\ [Next]_vars => DiskStep
<1> SUFFICES ASSUME TypeOK, TickerInv, [Next]_vars
             PROVE  DiskStep
  OBVIOUS
<1> USE NodeAssumption, BoundAssumption
<1>0. \A k \in Node : currentTerm[k] \in Nat
  BY DEF TypeOK
<1>1. ASSUME NEW n \in Node, StartElection(n)
      PROVE  DiskStep
  <2>1. /\ currentTerm'[n] = currentTerm[n] + 1 /\ votedFor'[n] = n
        /\ role'[n] = "CANDIDATE"
        /\ cast' = cast \cup {<<n, currentTerm[n] + 1, n>>}
        /\ elected' = elected
        /\ \A k \in Node \ {n} : /\ currentTerm'[k] = currentTerm[k]
                                 /\ votedFor'[k] = votedFor[k]
                                 /\ role'[k] = role[k]
    BY <1>1 DEF StartElection, TypeOK
  <2>2. currentTerm'[n] > currentTerm[n]
    BY <1>0, <2>1
  <2>3. \A k \in Node : /\ currentTerm'[k] >= currentTerm[k]
                        /\ currentTerm'[k] = currentTerm[k] => k # n
    BY <1>0, <2>1
  <2>4. QED
    BY <2>1, <2>2, <2>3 DEF DiskStep
<1>2. ASSUME NEW n \in Node, NEW p \in Node, DeliverVote(n, p)
      PROVE  DiskStep
  <2>1. VoteRequestTo(n, p) \in Request
    BY DEF VoteRequestTo, VoteRequest, Request, TypeOK, Locals
  <2>2. QED
    BY <1>2, <2>1, HandleDisk DEF DeliverVote
<1>3. ASSUME NEW n \in Node, DeliverAppend(n)
      PROVE  DiskStep
  BY <1>3, HandleDisk DEF DeliverAppend, TypeOK
<1>4. ASSUME NEW m \in late, DeliverLate(m)
      PROVE  DiskStep
  BY <1>4, HandleDisk DEF DeliverLate, TypeOK
<1>5. ASSUME NEW n \in Node, NEW t \in Nat, t > currentTerm[n],
             currentTerm' = [currentTerm EXCEPT ![n] = t],
             votedFor' = [votedFor EXCEPT ![n] = Nil],
             role' = [role EXCEPT ![n] = "FOLLOWER"],
             UNCHANGED <<cast, elected>>
      PROVE  DiskStep
  <2>1. /\ currentTerm'[n] = t /\ role'[n] = "FOLLOWER"
        /\ \A k \in Node \ {n} : /\ currentTerm'[k] = currentTerm[k]
                                 /\ votedFor'[k] = votedFor[k]
                                 /\ role'[k] = role[k]
    BY <1>5 DEF TypeOK
  <2>2. \A k \in Node : /\ currentTerm'[k] >= currentTerm[k]
                        /\ currentTerm'[k] = currentTerm[k] => k # n
    BY <1>0, <1>5, <2>1
  <2>3. QED
    BY <1>5, <2>1, <2>2 DEF DiskStep
<1>6. ASSUME UNCHANGED <<currentTerm, votedFor, cast>>, elected \subseteq elected',
             \A k \in Node : role'[k] = "LEADER" =>
                \/ role[k] = "LEADER"
                \/ pc[k] = "elected" /\ pc'[k] = "assert"
      PROVE  DiskStep
  BY <1>0, <1>6 DEF DiskStep
<1>7. ASSUME NEW n \in Node, RequestVoteReturns(n)
      PROVE  DiskStep
  <2>1. answer[n].term \in Nat /\ UNCHANGED <<cast, elected>>
    BY <1>7 DEF RequestVoteReturns, TypeOK, Answer
  <2>2. CASE StepDown(n, answer[n].term) /\ answer[n].term > currentTerm[n]
    BY <1>5, <2>1, <2>2 DEF StepDown
  <2>3. CASE UNCHANGED <<currentTerm, votedFor, role>>
    BY <1>6, <2>1, <2>3
  <2>4. QED
    BY <1>7, <2>2, <2>3 DEF RequestVoteReturns, StillCandidate
<1>8. ASSUME NEW n \in Node, AppendEntriesReturns(n)
      PROVE  DiskStep
  <2>1. answer[n].term \in Nat /\ UNCHANGED <<cast, elected>>
    BY <1>8 DEF AppendEntriesReturns, TypeOK, Answer
  <2>2. CASE StepDown(n, answer[n].term) /\ answer[n].term > currentTerm[n]
    BY <1>5, <2>1, <2>2 DEF StepDown
  <2>3. CASE UNCHANGED <<currentTerm, votedFor, role>>
    BY <1>6, <2>1, <2>3
  <2>4. QED
    BY <1>8, <2>2, <2>3 DEF AppendEntriesReturns
<1>9. ASSUME NEW n \in Node, BecomeLeader(n)
      PROVE  DiskStep
  <2>1. pc[n] = "elected" /\ elected \subseteq elected'
    BY <1>9 DEF BecomeLeader
  <2>2. \A k \in Node \ {n} : role'[k] = role[k]
    BY <1>9 DEF BecomeLeader, TypeOK
  <2>3. role'[n] = role[n] \/ pc'[n] = "assert"
    BY <1>9 DEF BecomeLeader, TypeOK
  <2>4. UNCHANGED <<currentTerm, votedFor, cast>>
    BY <1>9 DEF BecomeLeader, persistent
  <2>5. QED
    BY <1>6, <2>1, <2>2, <2>3, <2>4
<1>10. ASSUME NEW n \in Node, Restart(n)
       PROVE  DiskStep
  BY <1>6, <1>10 DEF Restart, Reset, TypeOK
<1>11. ASSUME NEW n \in Node, CrashBetweenSaves(n)
       PROVE  DiskStep
  <2>1. PICK t \in NewTerms(n) : t > currentTerm[n] /\ currentTerm' = [currentTerm EXCEPT ![n] = t]
    BY <1>11 DEF CrashBetweenSaves
  <2>2. t \in Nat
    BY NewTermsType
  <2>3. /\ votedFor' = [votedFor EXCEPT ![n] = Nil]
        /\ role' = [role EXCEPT ![n] = "FOLLOWER"]
        /\ UNCHANGED <<cast, elected>>
    BY <1>11 DEF CrashBetweenSaves, Reset
  <2>4. QED
    BY <1>5, <2>1, <2>2, <2>3
<1>12. CASE UNCHANGED <<persistent, role, cast, elected>>
  BY <1>6, <1>12 DEF persistent
<1>13. CASE UNCHANGED <<currentTerm, votedFor, role, cast, elected>>
  BY <1>6, <1>13
<1>14. CASE UNCHANGED vars
  BY <1>13, <1>14 DEF vars, persistent
<1>15. QED
  BY <1>1, <1>2, <1>3, <1>4, <1>7, <1>8, <1>9, <1>10, <1>11, <1>12, <1>13, <1>14
  DEF Next, VoteCallFails, StartReplicate, ReadPrevTerm, SendAppendEntries,
      AppendCallFails, AnswerLost, Propose

(* The history of votes agrees with the disks after every step.              *)
LEMMA CastStep ==
  ASSUME TypeOK, TypeOK', CastInv, DiskStep
  PROVE  CastInv' /\ cast \subseteq cast'
<1> USE NodeAssumption
<1>1. \A k \in Node : /\ currentTerm[k] \in Nat /\ currentTerm'[k] \in Nat
                      /\ currentTerm'[k] >= currentTerm[k]
                      /\ currentTerm'[k] = currentTerm[k] /\ votedFor[k] # Nil
                            => votedFor'[k] = votedFor[k]
  BY DEF TypeOK, DiskStep
<1>2. cast \subseteq cast'
  BY DEF DiskStep
<1>3. ASSUME NEW x \in cast
      PROVE  OnDisk(x)'
  <2>1. x[1] \in Node /\ x[2] \in Nat /\ x[3] \in Node
    BY DEF TypeOK
  <2>2. OnDisk(x)
    BY DEF CastInv
  <2>3. x[2] = currentTerm'[x[1]] =>
           x[2] = currentTerm[x[1]] /\ currentTerm'[x[1]] = currentTerm[x[1]]
    BY <1>1, <2>1, <2>2 DEF OnDisk
  <2>4. QED
    BY <1>1, <2>1, <2>2, <2>3 DEF OnDisk
<1>4. CASE cast' = cast
  <2>1. ASSUME NEW x \in cast, NEW y \in cast PROVE NoRival(x, y)'
    BY DEF CastInv, NoRival
  <2>2. QED
    BY <1>2, <1>3, <1>4, <2>1 DEF CastInv
<1>5. ASSUME NEW z \in Node \X Nat \X Node, cast' = cast \cup {z},
             z[2] = currentTerm'[z[1]], votedFor'[z[1]] = z[3]
      PROVE  CastInv'
  <2>1. z[1] \in Node /\ z[2] \in Nat /\ z[3] \in Node
    OBVIOUS
  <2>2. \A x \in cast' : x \in cast \/ x = z
    BY <1>5
  <2>3. OnDisk(z)'
    BY <1>1, <1>5, <2>1 DEF OnDisk
  <2>4. ASSUME NEW x \in cast'
        PROVE  OnDisk(x)'
    BY <1>3, <2>2, <2>3
  <2>5. ASSUME NEW x \in cast
        PROVE  NoRival(x, z)' /\ NoRival(z, x)'
    BY <1>3, <1>5, <2>1 DEF OnDisk, NoRival
  <2>6. ASSUME NEW x \in cast', NEW y \in cast'
        PROVE  NoRival(x, y)'
    <3>1. CASE x \in cast /\ y \in cast
      BY <3>1 DEF CastInv, NoRival
    <3>2. CASE x = z /\ y = z
      BY <3>2 DEF NoRival
    <3>3. QED
      BY <2>2, <2>5, <3>1, <3>2
  <2>7. QED
    BY <1>2, <2>4, <2>6 DEF CastInv
<1>6. CASE cast' # cast
  <2>1. PICK v, c \in Node : cast' = cast \cup {<<v, currentTerm'[v], c>>} /\ votedFor'[v] = c
    BY <1>6 DEF DiskStep
  <2>2. <<v, currentTerm'[v], c>> \in Node \X Nat \X Node
    BY <1>1
  <2>3. QED
    BY <1>5, <2>1, <2>2
<1>7. QED
  BY <1>2, <1>4, <1>6

(* A node whose ticker stands still keeps its count and its leadership.      *)
LEMMA NodeFrame ==
  ASSUME NEW k \in Node, CountOK(k), LeadOK(k), DiskStep, cast \subseteq cast',
         pc'[k] = pc[k], local'[k] = local[k], votes'[k] = votes[k],
         request'[k] = request[k], answer'[k] = answer[k]
  PROVE  CountOK(k)' /\ LeadOK(k)'
<1>1. CountOK(k)'
  BY DEF CountOK
<1>2. role'[k] = "LEADER" => role[k] = "LEADER" /\ currentTerm'[k] = currentTerm[k]
  BY DEF DiskStep
<1>3. elected \subseteq elected'
  BY DEF DiskStep
<1>4. LeadOK(k)'
  BY <1>2, <1>3 DEF LeadOK
<1>5. QED
  BY <1>1, <1>4

(* A ticker that is neither in an election nor replicating counts nothing    *)
(* and quotes nothing.                                                       *)
LEMMA IdleTicker ==
  ASSUME NEW n \in Node, LeadOK(n), DiskStep,
         pc'[n] \in {"tick", "assert"}, request'[n] = Nil,
         pc'[n] = "assert" /\ pc[n] = "elected" /\ role'[n] = "LEADER" =>
            <<currentTerm'[n], n>> \in elected'
  PROVE  CountOK(n)' /\ LeadOK(n)'
<1>1. CountOK(n)'
  BY DEF CountOK
<1>2. role'[n] = "LEADER" => <<currentTerm'[n], n>> \in elected'
  BY DEF DiskStep, LeadOK
<1>3. LeadOK(n)'
  BY <1>2 DEF LeadOK
<1>4. QED
  BY <1>1, <1>3

(* Going on to the next peer keeps the term a pass acts for.                 *)
LEMMA GoOnEffect ==
  ASSUME TypeOK, NEW n \in Node, NEW loop, NEW rest, NEW granted,
         GoOn(n, loop, rest, granted)
  PROVE  /\ rest = {} => pc'[n] = "tick"
         /\ rest # {} => /\ pc'[n] = loop /\ votes'[n] = granted
                         /\ local'[n].term = local[n].term
<1>1. local[n] \in Locals
  BY DEF TypeOK
<1>2. CASE rest = {}
  BY <1>2 DEF GoOn, TypeOK
<1>3. CASE rest # {}
  <2>1. pc'[n] = loop /\ votes'[n] = granted
    BY <1>3 DEF GoOn, TypeOK
  <2>2. local'[n] = [local[n] EXCEPT !.peer = Nil]
    BY <1>3 DEF GoOn, TypeOK
  <2>3. QED
    BY <1>1, <1>3, <2>1, <2>2 DEF Locals
<1>4. QED
  BY <1>2, <1>3

(* Each action keeps the count and the leadership of the node that takes it. *)
LEMMA ActorStep ==
  ASSUME IInv, TypeOK', DiskStep, cast \subseteq cast', NEW n \in Node
  PROVE  /\ StartElection(n) => CountOK(n)' /\ LeadOK(n)'
         /\ \A p \in Node : DeliverVote(n, p) => CountOK(n)' /\ LeadOK(n)'
         /\ \A p \in Node : VoteCallFails(n, p) => CountOK(n)' /\ LeadOK(n)'
         /\ RequestVoteReturns(n) => CountOK(n)' /\ LeadOK(n)'
         /\ BecomeLeader(n) => CountOK(n)' /\ LeadOK(n)'
         /\ StartReplicate(n) => CountOK(n)' /\ LeadOK(n)'
         /\ \A p \in Node : ReadPrevTerm(n, p) => CountOK(n)' /\ LeadOK(n)'
         /\ SendAppendEntries(n) => CountOK(n)' /\ LeadOK(n)'
         /\ DeliverAppend(n) => CountOK(n)' /\ LeadOK(n)'
         /\ AppendCallFails(n) => CountOK(n)' /\ LeadOK(n)'
         /\ AppendEntriesReturns(n) => CountOK(n)' /\ LeadOK(n)'
         /\ AnswerLost(n) => CountOK(n)' /\ LeadOK(n)'
         /\ Reset(n) => CountOK(n)' /\ LeadOK(n)'
<1> USE NodeAssumption
<1>0. /\ TypeOK /\ TickerOK(n) /\ CountOK(n) /\ LeadOK(n)
      /\ elected \subseteq elected'
      /\ pc'[n] # "assert" =>
            (role'[n] = "LEADER" =>
               role[n] = "LEADER" /\ currentTerm'[n] = currentTerm[n])
  BY DEF IInv, TickerInv, DiskStep
<1>1. ASSUME StartElection(n)
      PROVE  CountOK(n)' /\ LeadOK(n)'
  <2>1. /\ pc'[n] = "election" /\ votes'[n] = {n}
        /\ local'[n].term = currentTerm[n] + 1
        /\ <<n, currentTerm[n] + 1, n>> \in cast'
        /\ answer'[n] = Nil /\ request'[n] = Nil
        /\ role'[n] = "CANDIDATE"
    BY <1>0, <1>1 DEF StartElection, TypeOK, TickerOK, rpc, Locals
  <2>2. CountOK(n)'
    BY <2>1 DEF CountOK
  <2>3. LeadOK(n)'
    BY <2>1 DEF LeadOK
  <2>4. QED
    BY <2>2, <2>3
<1>2. ASSUME NEW p \in Node, DeliverVote(n, p)
      PROVE  CountOK(n)' /\ LeadOK(n)'
  <2> DEFINE m == VoteRequestTo(n, p)
  <2>1. /\ pc[n] = "election" /\ pc'[n] = "election" /\ votes'[n] = votes[n]
        /\ request'[n] = request[n] /\ local'[n].peer = p
        /\ local'[n].term = local[n].term
        /\ answer'[n] = RequestVoteAnswer(m)
    BY <1>0, <1>2 DEF DeliverVote, TypeOK, Locals
  <2>2. request[n] = Nil
    BY <1>0, <2>1 DEF TickerOK
  <2>3. Granted(m) => <<p, local[n].term, n>> \in cast'
    BY <1>2 DEF DeliverVote, Handle, HandleRequestVote, HandleAppendEntries, VoteRequestTo
  <2>4. answer'[n].ok => Granted(m)
    BY <2>1 DEF RequestVoteAnswer
  <2>5. CountOK(n)'
    BY <1>0, <2>1, <2>3, <2>4 DEF CountOK
  <2>6. LeadOK(n)'
    BY <1>0, <2>1, <2>2 DEF LeadOK
  <2>7. QED
    BY <2>5, <2>6
<1>3. ASSUME NEW p \in Node, VoteCallFails(n, p)
      PROVE  CountOK(n)' /\ LeadOK(n)'
  <2>1. /\ pc[n] = "election" /\ answer[n] = Nil
        /\ GoOn(n, "election", todo[n] \ {p}, votes[n])
        /\ answer' = answer /\ request' = request
    BY <1>3 DEF VoteCallFails, rpc
  <2>2. request'[n] = Nil /\ answer'[n] = Nil
    BY <1>0, <2>1 DEF TickerOK
  <2>3. CASE todo[n] \ {p} = {}
    <3>1. pc'[n] = "tick"
      BY <1>0, <2>1, <2>3 DEF GoOn, TypeOK
    <3>2. QED
      BY <1>0, <2>2, <3>1, IdleTicker
  <2>4. CASE todo[n] \ {p} # {}
    <3>1. /\ pc'[n] = "election" /\ votes'[n] = votes[n]
          /\ local'[n].term = local[n].term
      BY <1>0, <2>1, <2>4, GoOnEffect
    <3>2. CountOK(n)'
      BY <1>0, <2>1, <2>2, <3>1 DEF CountOK
    <3>3. LeadOK(n)'
      BY <1>0, <2>2, <3>1 DEF LeadOK
    <3>4. QED
      BY <3>2, <3>3
  <2>5. QED
    BY <2>3, <2>4
<1>4. ASSUME RequestVoteReturns(n)
      PROVE  CountOK(n)' /\ LeadOK(n)'
  <2> DEFINE a == answer[n]
             counted == votes[n] \cup (IF a.ok THEN {local[n].peer} ELSE {})
  <2>1. /\ pc[n] = "election" /\ a # Nil
        /\ \/ EndPass(n)
           \/ /\ Cardinality(counted) >= QuorumSize
              /\ votes' = [votes EXCEPT ![n] = counted]
              /\ pc' = [pc EXCEPT ![n] = "elected"]
              /\ local' = [local EXCEPT ![n].peer = Nil]
           \/ GoOn(n, "election", todo[n], counted)
    BY <1>4 DEF RequestVoteReturns
  <2>2. \A v \in counted : <<v, local[n].term, n>> \in cast'
    BY <1>0, <2>1 DEF CountOK
  <2>3. request'[n] = Nil /\ answer'[n] = Nil
    BY <1>0, <1>4 DEF RequestVoteReturns, Returned, TypeOK
  <2> HIDE DEF a, counted
  <2>4. CASE pc'[n] = "tick"
    BY <1>0, <2>3, <2>4, IdleTicker
  <2>5. CASE pc'[n] # "tick"
    <3>1. /\ votes'[n] = counted /\ local'[n].term = local[n].term
          /\ \/ pc'[n] = "election"
             \/ pc'[n] = "elected" /\ Cardinality(counted) >= QuorumSize
      <4>1. CASE EndPass(n)
        BY <1>0, <2>5, <4>1 DEF EndPass, TypeOK
      <4>2. CASE GoOn(n, "election", todo[n], counted)
        BY <1>0, <2>5, <4>2, GoOnEffect
      <4>3. CASE /\ Cardinality(counted) >= QuorumSize
                 /\ votes' = [votes EXCEPT ![n] = counted]
                 /\ pc' = [pc EXCEPT ![n] = "elected"]
                 /\ local' = [local EXCEPT ![n].peer = Nil]
        <5>1. local[n] \in Locals /\ local'[n] = [local[n] EXCEPT !.peer = Nil]
          BY <1>0, <4>3 DEF TypeOK
        <5>2. local'[n].term = local[n].term
          BY <5>1 DEF Locals
        <5>3. votes'[n] = counted /\ pc'[n] = "elected"
          BY <1>0, <4>3 DEF TypeOK
        <5>4. QED
          BY <4>3, <5>2, <5>3
      <4>4. QED
        BY <2>1, <4>1, <4>2, <4>3
    <3>2. CountOK(n)'
      BY <2>2, <2>3, <3>1 DEF CountOK, QuorumSize
    <3>3. LeadOK(n)'
      BY <1>0, <2>3, <3>1 DEF LeadOK
    <3>4. QED
      BY <3>2, <3>3
  <2>6. QED
    BY <2>4, <2>5
<1>5. ASSUME BecomeLeader(n)
      PROVE  CountOK(n)' /\ LeadOK(n)'
  <2>1. request[n] = Nil /\ request' = request /\ currentTerm' = currentTerm
    BY <1>0, <1>5 DEF BecomeLeader, TickerOK, rpc, persistent
  <2>2. pc'[n] \in {"tick", "assert"}
    BY <1>0, <1>5 DEF BecomeLeader, EndPass, TypeOK
  <2>3. pc'[n] = "assert" => <<currentTerm'[n], n>> \in elected'
    BY <1>0, <1>5, <2>1 DEF BecomeLeader, EndPass, StillCandidate, TypeOK
  <2>4. QED
    BY <1>0, <2>1, <2>2, <2>3, IdleTicker
<1>6. ASSUME StartReplicate(n)
      PROVE  CountOK(n)' /\ LeadOK(n)'
  <2>1. request[n] = Nil /\ request' = request
    BY <1>0, <1>6 DEF StartReplicate, TickerOK, rpc
  <2>2. UNCHANGED <<currentTerm, role, elected>>
    BY <1>6 DEF StartReplicate, persistent
  <2>3. CASE EndPass(n)
    <3>1. pc'[n] = "tick"
      BY <1>0, <2>3 DEF EndPass, TypeOK
    <3>2. QED
      BY <1>0, <2>1, <3>1, IdleTicker
  <2>4. CASE ~EndPass(n)
    <3>1. /\ role[n] = "LEADER" /\ pc' = [pc EXCEPT ![n] = "replicate"]
          /\ local' = [local EXCEPT ![n].term = currentTerm[n],
                                    ![n].next = nextIndex[n],
                                    ![n].commit = commitIndex[n]]
      BY <1>6, <2>4 DEF StartReplicate
    <3>2. pc'[n] = "replicate" /\ local'[n].term = currentTerm[n]
      BY <1>0, <3>1 DEF TypeOK, Locals
    <3>3. CountOK(n)'
      BY <3>2 DEF CountOK
    <3>4. LeadOK(n)'
      BY <1>0, <2>1, <2>2, <3>1, <3>2 DEF LeadOK
    <3>5. QED
      BY <3>3, <3>4
  <2>5. QED
    BY <2>3, <2>4
<1>7. ASSUME NEW p \in Node, ReadPrevTerm(n, p)
      PROVE  CountOK(n)' /\ LeadOK(n)'
  <2>1. /\ pc[n] = "replicate" /\ pc'[n] = "entries"
        /\ UNCHANGED <<currentTerm, role, elected, request>>
    BY <1>0, <1>7 DEF ReadPrevTerm, TypeOK, persistent, rpc
  <2>2. local'[n].term = local[n].term
    BY <1>0, <1>7 DEF ReadPrevTerm, TypeOK, Locals
  <2>3. CountOK(n)'
    BY <2>1 DEF CountOK
  <2>4. LeadOK(n)'
    BY <1>0, <2>1, <2>2 DEF LeadOK
  <2>5. QED
    BY <2>3, <2>4
<1>8. ASSUME SendAppendEntries(n)
      PROVE  CountOK(n)' /\ LeadOK(n)'
  <2>1. /\ pc[n] = "entries" /\ pc'[n] = "replicate"
        /\ UNCHANGED <<currentTerm, role, elected>>
    BY <1>0, <1>8 DEF SendAppendEntries, TypeOK, persistent
  <2>2. local'[n].term = local[n].term
    BY <1>0, <1>8 DEF SendAppendEntries, TypeOK, Locals
  <2>3. request'[n].term = local[n].term /\ request'[n].from = n
    BY <1>0, <1>8 DEF SendAppendEntries, TypeOK
  <2>4. CountOK(n)'
    BY <1>0, <1>8, <2>1 DEF SendAppendEntries, CountOK
  <2>5. LeadOK(n)'
    BY <1>0, <2>1, <2>2, <2>3 DEF LeadOK
  <2>6. QED
    BY <2>4, <2>5
<1>9. ASSUME DeliverAppend(n)
      PROVE  CountOK(n)' /\ LeadOK(n)'
  <2>1. /\ pc[n] = "replicate"
        /\ UNCHANGED <<pc, local, votes, request, elected>>
    BY <1>0, <1>9 DEF DeliverAppend, Handle, TickerOK, ticker
  <2>2. CountOK(n)'
    BY <2>1 DEF CountOK
  <2>3. LeadOK(n)'
    BY <1>0, <2>1 DEF LeadOK
  <2>4. QED
    BY <2>2, <2>3
<1>10. ASSUME NEW loop \in {"election", "replicate"}, pc[n] = loop,
              GoOn(n, loop, todo[n], votes[n]), Returned(n)
       PROVE  CountOK(n)' /\ LeadOK(n)'
  <2>1. request'[n] = Nil /\ answer'[n] = Nil
    BY <1>0, <1>10 DEF Returned, TypeOK
  <2>2. CASE todo[n] = {}
    <3>1. pc'[n] = "tick"
      BY <1>0, <1>10, <2>2, GoOnEffect
    <3>2. QED
      BY <1>0, <2>1, <3>1, IdleTicker
  <2>3. CASE todo[n] # {}
    <3>1. /\ pc'[n] = pc[n] /\ pc[n] = loop /\ votes'[n] = votes[n]
          /\ local'[n].term = local[n].term
      BY <1>0, <1>10, <2>3, GoOnEffect
    <3>2. CountOK(n)'
      BY <1>0, <1>10, <2>1, <3>1 DEF CountOK
    <3>3. LeadOK(n)'
      BY <1>0, <1>10, <2>1, <3>1 DEF LeadOK
    <3>4. QED
      BY <3>2, <3>3
  <2>4. QED
    BY <2>2, <2>3
<1>11. ASSUME AppendCallFails(n)
       PROVE  CountOK(n)' /\ LeadOK(n)'
  <2>1. /\ pc[n] = "replicate" /\ GoOn(n, "replicate", todo[n], votes[n])
        /\ Returned(n)
    BY <1>0, <1>11 DEF AppendCallFails, TickerOK
  <2>2. QED
    BY <1>10, <2>1
<1>12. ASSUME AppendEntriesReturns(n)
       PROVE  CountOK(n)' /\ LeadOK(n)'
  <2>1. /\ pc[n] = "replicate" /\ Returned(n)
        /\ EndPass(n) \/ GoOn(n, "replicate", todo[n], votes[n])
    BY <1>12 DEF AppendEntriesReturns
  <2>2. CASE EndPass(n)
    <3>1. pc'[n] = "tick" /\ request'[n] = Nil
      BY <1>0, <2>1, <2>2 DEF EndPass, Returned, TypeOK
    <3>2. QED
      BY <1>0, <3>1, IdleTicker
  <2>3. QED
    BY <1>10, <2>1, <2>2
<1>13. ASSUME AnswerLost(n)
       PROVE  CountOK(n)' /\ LeadOK(n)'
  <2>1. /\ pc[n] \in {"election", "replicate"} /\ Returned(n)
        /\ GoOn(n, pc[n], todo[n], votes[n])
    BY <1>0, <1>13 DEF AnswerLost, TickerOK
  <2>2. QED
    BY <1>10, <2>1
<1>14. ASSUME Reset(n)
       PROVE  CountOK(n)' /\ LeadOK(n)'
  <2>1. pc'[n] = "tick" /\ request'[n] = Nil
    BY <1>0, <1>14 DEF Reset, Returned, TypeOK
  <2>2. QED
    BY <1>0, <2>1, IdleTicker
<1>15. QED
  BY <1>1, <1>2, <1>3, <1>4, <1>5, <1>6, <1>7, <1>8, <1>9, <1>11, <1>12,
     <1>13, <1>14

(* A step of one node leaves the tickers of the others as they were.         *)
LEMMA OthersStand ==
  ASSUME TypeOK, NEW n \in Node, NEW k \in Node \ {n},
         \/ StartElection(n) \/ RequestVoteReturns(n) \/ BecomeLeader(n)
         \/ StartReplicate(n) \/ SendAppendEntries(n) \/ DeliverAppend(n)
         \/ AppendEntriesReturns(n) \/ AppendCallFails(n) \/ AnswerLost(n)
         \/ Reset(n)
         \/ \E p \in Node : \/ DeliverVote(n, p) \/ VoteCallFails(n, p)
                           \/ ReadPrevTerm(n, p)
  PROVE  /\ pc'[k] = pc[k] /\ local'[k] = local[k] /\ votes'[k] = votes[k]
         /\ request'[k] = request[k] /\ answer'[k] = answer[k]
<1>1. CASE StartElection(n) \/ BecomeLeader(n)
  BY <1>1 DEF StartElection, BecomeLeader, EndPass, TypeOK, rpc
<1>2. CASE RequestVoteReturns(n)
  BY <1>2 DEF RequestVoteReturns, EndPass, GoOn, Returned, TypeOK
<1>3. CASE StartReplicate(n) \/ SendAppendEntries(n) \/ DeliverAppend(n)
  BY <1>3 DEF StartReplicate, SendAppendEntries, DeliverAppend, EndPass,
              TypeOK, rpc, ticker
<1>4. CASE AppendEntriesReturns(n)
  BY <1>4 DEF AppendEntriesReturns, EndPass, GoOn, Returned, TypeOK
<1>5. CASE AppendCallFails(n) \/ AnswerLost(n) \/ Reset(n)
  BY <1>5 DEF AppendCallFails, AnswerLost, Reset, GoOn, Returned, TypeOK
<1>6. ASSUME NEW p \in Node, DeliverVote(n, p) \/ ReadPrevTerm(n, p)
      PROVE  /\ pc'[k] = pc[k] /\ local'[k] = local[k] /\ votes'[k] = votes[k]
             /\ request'[k] = request[k] /\ answer'[k] = answer[k]
  BY <1>6 DEF DeliverVote, ReadPrevTerm, TypeOK, rpc
<1>7. ASSUME NEW p \in Node, VoteCallFails(n, p)
      PROVE  /\ pc'[k] = pc[k] /\ local'[k] = local[k] /\ votes'[k] = votes[k]
             /\ request'[k] = request[k] /\ answer'[k] = answer[k]
  BY <1>7 DEF VoteCallFails, GoOn, TypeOK, rpc
<1>8. QED
  BY <1>1, <1>2, <1>3, <1>4, <1>5, <1>6, <1>7

(* Count and leadership of every node survive every step.                    *)
LEMMA NodesStep ==
  ASSUME IInv, TypeOK', DiskStep, cast \subseteq cast', [Next]_vars
  PROVE  \A k \in Node : CountOK(k)' /\ LeadOK(k)'
<1>1. ASSUME NEW n \in Node, CountOK(n)' /\ LeadOK(n)',
             \A k \in Node \ {n} :
               /\ pc'[k] = pc[k] /\ local'[k] = local[k] /\ votes'[k] = votes[k]
               /\ request'[k] = request[k] /\ answer'[k] = answer[k]
      PROVE  \A k \in Node : CountOK(k)' /\ LeadOK(k)'
  <2>1. \A k \in Node \ {n} : CountOK(k)' /\ LeadOK(k)'
    BY <1>1, NodeFrame DEF IInv
  <2>2. QED
    BY <1>1, <2>1
<1>2. CASE UNCHANGED <<ticker, rpc>>
  <2>1. \A k \in Node :
          /\ pc'[k] = pc[k] /\ local'[k] = local[k] /\ votes'[k] = votes[k]
          /\ request'[k] = request[k] /\ answer'[k] = answer[k]
    BY <1>2 DEF ticker, rpc
  <2>2. QED
    BY <2>1, NodeFrame DEF IInv
<1>3. ASSUME NEW n \in Node,
         \/ StartElection(n) \/ RequestVoteReturns(n) \/ BecomeLeader(n)
         \/ StartReplicate(n) \/ SendAppendEntries(n) \/ DeliverAppend(n)
         \/ AppendEntriesReturns(n) \/ AppendCallFails(n) \/ AnswerLost(n)
         \/ Reset(n)
         \/ \E p \in Node : \/ DeliverVote(n, p) \/ VoteCallFails(n, p)
                           \/ ReadPrevTerm(n, p)
      PROVE  \A k \in Node : CountOK(k)' /\ LeadOK(k)'
  <2>1. CountOK(n)' /\ LeadOK(n)'
    BY <1>3, ActorStep
  <2>2. TypeOK
    BY DEF IInv
  <2>3. \A k \in Node \ {n} :
          /\ pc'[k] = pc[k] /\ local'[k] = local[k] /\ votes'[k] = votes[k]
          /\ request'[k] = request[k] /\ answer'[k] = answer[k]
    BY <1>3, <2>2, OthersStand
  <2>4. QED
    BY <1>1, <2>1, <2>3
<1>4. CASE Next
  <2>1. CASE \E n \in Node : Restart(n) \/ CrashBetweenSaves(n)
    BY <1>3, <2>1 DEF Restart, CrashBetweenSaves
  <2>2. CASE \/ \E n \in Node, c \in Command : Propose(n, c)
             \/ \E m \in late : DeliverLate(m)
    BY <1>2, <2>2 DEF Propose, DeliverLate
  <2>3. QED
    BY <1>3, <1>4, <2>1, <2>2 DEF Next
<1>5. CASE UNCHANGED vars
  BY <1>2, <1>5 DEF vars
<1>6. QED
  BY <1>4, <1>5

(* Whoever is made leader has just counted the votes of a quorum.            *)
LEMMA ElectedStep ==
  ASSUME IInv, cast \subseteq cast', [Next]_vars
  PROVE  ElectedInv'
<1>1. ASSUME NEW x \in elected
      PROVE  \E Q \in SUBSET Node : /\ Cardinality(Q) >= QuorumSize
                                   /\ \A v \in Q : <<v, x[1], x[2]>> \in cast'
  BY DEF IInv, ElectedInv
<1>2. CASE elected' = elected
  BY <1>1, <1>2 DEF ElectedInv, QuorumSize
<1>3. ASSUME NEW n \in Node, BecomeLeader(n)
      PROVE  ElectedInv'
  <2> DEFINE z == <<local[n].term, n>>
  <2>1. /\ votes[n] \in SUBSET Node /\ Cardinality(votes[n]) >= QuorumSize
        /\ \A v \in votes[n] : <<v, local[n].term, n>> \in cast'
    BY <1>3 DEF BecomeLeader, IInv, CountOK, TypeOK
  <2>2. \A x \in elected' : x \in elected \/ x = z
    BY <1>3 DEF BecomeLeader
  <2>3. z[1] = local[n].term /\ z[2] = n
    OBVIOUS
  <2> HIDE DEF z
  <2>4. ASSUME NEW x \in elected'
        PROVE  \E Q \in SUBSET Node : /\ Cardinality(Q) >= QuorumSize
                                     /\ \A v \in Q : <<v, x[1], x[2]>> \in cast'
    BY <1>1, <2>1, <2>2, <2>3
  <2>5. QED
    BY <2>4 DEF ElectedInv, QuorumSize
<1>4. CASE UNCHANGED vars
  BY <1>2, <1>4 DEF vars
<1>5. ASSUME NEW n \in Node,
             \/ StartElection(n) \/ RequestVoteReturns(n) \/ StartReplicate(n)
             \/ SendAppendEntries(n) \/ DeliverAppend(n)
             \/ AppendEntriesReturns(n) \/ AppendCallFails(n) \/ AnswerLost(n)
             \/ Restart(n) \/ CrashBetweenSaves(n)
      PROVE  elected' = elected
  BY <1>5 DEF StartElection, RequestVoteReturns, StartReplicate,
      SendAppendEntries, DeliverAppend, AppendEntriesReturns, AppendCallFails,
      AnswerLost, Restart, CrashBetweenSaves, Reset, Handle
<1>6. ASSUME NEW n \in Node, NEW p \in Node,
             DeliverVote(n, p) \/ VoteCallFails(n, p) \/ ReadPrevTerm(n, p)
      PROVE  elected' = elected
  BY <1>6 DEF DeliverVote, VoteCallFails, ReadPrevTerm, Handle
<1>7. CASE \/ \E n \in Node, c \in Command : Propose(n, c)
           \/ \E m \in late : DeliverLate(m)
  BY <1>2, <1>7 DEF Propose, DeliverLate, Handle
<1>8. QED
  BY <1>2, <1>3, <1>4, <1>5, <1>6, <1>7 DEF Next

(* An AppendEntries left behind was on its way from an elected leader.       *)
LEMMA LateStep ==
  ASSUME IInv, elected \subseteq elected', [Next]_vars
  PROVE  LateInv'
<1>1. ASSUME \A m \in late' : m \in late \/ \E n \in Node : m \in OnItsWay(n)
      PROVE  LateInv'
  <2>1. ASSUME NEW n \in Node, NEW m \in OnItsWay(n), m.type = "AppendEntries"
        PROVE  <<m.term, m.from>> \in elected
    <3>1. m = request[n] /\ request[n] # Nil
      BY <2>1, OnItsWayType DEF IInv
    <3>2. QED
      BY <3>1 DEF IInv, LeadOK
  <2>2. \A m \in late : m.type = "AppendEntries" => <<m.term, m.from>> \in elected
    BY DEF IInv, LateInv
  <2>3. QED
    BY <1>1, <2>1, <2>2 DEF LateInv
<1>2. CASE late' \subseteq late
  BY <1>1, <1>2
<1>3. ASSUME NEW n \in Node, NEW p \in Node, VoteCallFails(n, p)
      PROVE  LateInv'
  <2>1. VoteRequestTo(n, p) \in OnItsWay(n)
    BY <1>3 DEF VoteCallFails, Turn, OnItsWay
  <2>2. QED
    BY <1>1, <1>3, <2>1 DEF VoteCallFails, GivesUp
<1>4. ASSUME NEW n \in Node, AppendCallFails(n)
      PROVE  LateInv'
  <2>1. request[n] \in OnItsWay(n)
    BY <1>4 DEF AppendCallFails, OnItsWay
  <2>2. QED
    BY <1>1, <1>4, <2>1 DEF AppendCallFails, GivesUp
<1>5. ASSUME NEW n \in Node, Reset(n)
      PROVE  LateInv'
  BY <1>1, <1>5 DEF Reset, GivesUp
<1>6. CASE UNCHANGED vars
  BY <1>2, <1>6 DEF vars
<1>7. CASE \E n \in Node : Restart(n) \/ CrashBetweenSaves(n)
  BY <1>5, <1>7 DEF Restart, CrashBetweenSaves
<1>8. ASSUME NEW n \in Node,
             \/ StartElection(n) \/ RequestVoteReturns(n) \/ BecomeLeader(n)
             \/ StartReplicate(n) \/ SendAppendEntries(n) \/ DeliverAppend(n)
             \/ AppendEntriesReturns(n) \/ AnswerLost(n)
      PROVE  late' = late
  BY <1>8 DEF StartElection, RequestVoteReturns, BecomeLeader, StartReplicate,
      SendAppendEntries, DeliverAppend, AppendEntriesReturns, AnswerLost
<1>9. ASSUME NEW n \in Node, NEW p \in Node, DeliverVote(n, p) \/ ReadPrevTerm(n, p)
      PROVE  late' = late
  BY <1>9 DEF DeliverVote, ReadPrevTerm
<1>10. CASE \/ \E n \in Node, c \in Command : Propose(n, c)
            \/ \E m \in late : DeliverLate(m)
  BY <1>2, <1>10 DEF Propose, DeliverLate
<1>11. QED
  BY <1>2, <1>3, <1>4, <1>6, <1>7, <1>8, <1>9, <1>10 DEF Next

(* The invariant is inductive.                                               *)
LEMMA IInvInductive ==
  /\ Init => IInv
  /\ IInv /\ [Next]_vars => IInv'
<1>1. Init => IInv
  <2> SUFFICES ASSUME Init PROVE IInv
    OBVIOUS
  <2>1. TypeOK /\ TickerInv
    BY TypeInit
  <2>2. CastInv /\ ElectedInv /\ LateInv
    BY DEF Init, CastInv, ElectedInv, LateInv
  <2>3. \A n \in Node : CountOK(n) /\ LeadOK(n)
    BY DEF Init, CountOK, LeadOK
  <2>4. QED
    BY <2>1, <2>2, <2>3 DEF IInv
<1>2. IInv /\ [Next]_vars => IInv'
  <2> SUFFICES ASSUME IInv, [Next]_vars PROVE IInv'
    OBVIOUS
  <2>1. TypeOK' /\ TickerInv'
    BY TypeStep DEF IInv
  <2>2. DiskStep
    BY DiskStepHolds DEF IInv
  <2>3. CastInv' /\ cast \subseteq cast'
    BY <2>1, <2>2, CastStep DEF IInv
  <2>4. \A n \in Node : CountOK(n)' /\ LeadOK(n)'
    BY <2>1, <2>2, <2>3, NodesStep
  <2>5. ElectedInv'
    BY <2>3, ElectedStep
  <2>6. LateInv'
    BY <2>2, LateStep DEF DiskStep
  <2>7. QED
    BY <2>1, <2>3, <2>4, <2>5, <2>6 DEF IInv
<1>3. QED
  BY <1>1, <1>2

-----------------------------------------------------------------------------
(* What follows from it *)

(* Two quorums of a cluster of odd size share a node.  (In one of even size  *)
(* they need not: README, section 5.)                                        *)
LEMMA QuorumsMeet ==
  ASSUME Cardinality(Node) % 2 = 1,
         NEW P \in SUBSET Node, Cardinality(P) >= QuorumSize,
         NEW Q \in SUBSET Node, Cardinality(Q) >= QuorumSize
  PROVE  P \cap Q # {}
<1> USE NodeAssumption
<1>1. /\ Cardinality(Node) \in Nat
      /\ Cardinality(P) \in Nat /\ Cardinality(Q) \in Nat
  BY FS_CardinalityType, FS_Subset
<1>2. QuorumSize + QuorumSize > Cardinality(Node) /\ QuorumSize \in Nat
  BY <1>1 DEF QuorumSize
<1>3. Cardinality(P) + Cardinality(Q) > Cardinality(Node)
  BY <1>1, <1>2
<1>4. QED
  BY <1>3, FS_MajoritiesIntersect

(* In a cluster of odd size no two nodes are ever made leader in one term.   *)
LEMMA OneLeader ==
  ASSUME Cardinality(Node) % 2 = 1, IInv
  PROVE  ElectionSafety
<1> SUFFICES ASSUME NEW x \in elected, NEW y \in elected, x[1] = y[1]
             PROVE  x[2] = y[2]
  BY DEF ElectionSafety
<1>1. PICK P \in SUBSET Node : /\ Cardinality(P) >= QuorumSize
                             /\ \A v \in P : <<v, x[1], x[2]>> \in cast
  BY DEF IInv, ElectedInv
<1>2. PICK Q \in SUBSET Node : /\ Cardinality(Q) >= QuorumSize
                             /\ \A v \in Q : <<v, y[1], y[2]>> \in cast
  BY DEF IInv, ElectedInv
<1>3. PICK v \in P \cap Q : TRUE
  BY <1>1, <1>2, QuorumsMeet
<1>4. <<v, x[1], x[2]>> \in cast /\ <<v, x[1], y[2]>> \in cast
  BY <1>1, <1>2, <1>3
<1>5. NoRival(<<v, x[1], x[2]>>, <<v, x[1], y[2]>>)
  BY <1>4 DEF IInv, CastInv
<1>6. QED
  BY <1>5 DEF NoRival

(* Election Safety: in a cluster of odd size, at most one node is ever made  *)
(* leader in a term, however elections, late votes, crashes between the two  *)
(* saves of a vote and restarts interleave.                                  *)
THEOREM ElectionSafe ==
  ASSUME Cardinality(Node) % 2 = 1
  PROVE  Spec => []ElectionSafety
<1>1. IInv => ElectionSafety
  BY OneLeader
<1>2. QED
  BY <1>1, IInvInductive, PTL DEF Spec

(* A node's term never goes back and a vote on disk stays until the term     *)
(* grows, in every cluster: across both handlers, elections and crashes.     *)
THEOREM VotesAreFinal == Spec => VoteIsFinal
<1>1. ASSUME TypeOK, TickerInv, [Next]_vars
      PROVE  [\A n \in Node :
                /\ currentTerm'[n] >= currentTerm[n]
                /\ currentTerm'[n] = currentTerm[n] /\ votedFor[n] # Nil
                      => votedFor'[n] = votedFor[n]]_vars
  <2>1. DiskStep
    BY <1>1, DiskStepHolds
  <2>2. QED
    BY <2>1 DEF DiskStep
<1>2. TypeOK /\ TickerInv /\ [Next]_vars => (TypeOK /\ TickerInv)'
  BY TypeStep
<1>3. QED
  BY <1>1, <1>2, TypeInit, PTL DEF Spec, VoteIsFinal

(* A log is a prefix of itself with one more entry.                          *)
LEMMA PrefixOfLonger ==
  ASSUME NEW lg \in Seq(LogEntry), NEW e \in LogEntry
  PROVE  /\ SubSeq(Append(lg, e), 1, Len(lg)) = lg
         /\ Len(Append(lg, e)) >= Len(lg)
<1>1. Len(lg) \in Nat
  BY LenProperties
<1>2. /\ Append(lg, e) \in Seq(LogEntry) /\ Len(Append(lg, e)) = Len(lg) + 1
      /\ \A i \in 1..Len(lg) : Append(lg, e)[i] = lg[i]
  BY <1>1, AppendProperties
<1>3. \A i \in 1..Len(lg) : Append(lg, e)[i] \in LogEntry
  BY <1>2, ElementOfSeq
<1>4. /\ SubSeq(Append(lg, e), 1, Len(lg)) \in Seq(LogEntry)
      /\ Len(SubSeq(Append(lg, e), 1, Len(lg))) = Len(lg)
      /\ \A i \in 1..Len(lg) :
            SubSeq(Append(lg, e), 1, Len(lg))[i] = Append(lg, e)[i]
  BY <1>1, <1>2, <1>3, SubSeqProperties
<1>5. QED
  BY <1>1, <1>2, <1>4, SeqEqual

(* An AppendEntries that finds a leader and leaves it one was stale: nobody  *)
(* else is elected in the leader's own term.                                 *)
LEMMA LeaderIgnores ==
  ASSUME Cardinality(Node) % 2 = 1, IInv, NEW m \in AppendRequest,
         m.from # m.to, <<m.term, m.from>> \in elected, HandleAppendEntries(m),
         role[m.to] = "LEADER", role'[m.to] = "LEADER"
  PROVE  log' = log /\ commitIndex' = commitIndex
<1>1. /\ m.to \in Node /\ m.from \in Node /\ m.term \in Nat
      /\ currentTerm[m.to] \in Nat /\ TypeOK
  BY DEF AppendRequest, IInv, TypeOK
<1>2. ~Newer(m)
  BY <1>1 DEF HandleAppendEntries, RoleAfterAppend, TypeOK
<1>3. m.term # currentTerm[m.to]
  <2>1. <<currentTerm[m.to], m.to>> \in elected
    BY <1>1 DEF IInv, LeadOK
  <2>2. ElectionSafety
    BY OneLeader
  <2>3. QED
    BY <2>1, <2>2 DEF ElectionSafety
<1>4. ~Current(m)
  BY <1>1, <1>2, <1>3 DEF Newer, Current
<1>5. ~Consistent(m) /\ MergedLog(m) = log[m.to]
  BY <1>4 DEF Consistent, MergedLog
<1>6. log' = [log EXCEPT ![m.to] = log[m.to]]
  BY <1>5 DEF HandleAppendEntries
<1>7. commitIndex' = [commitIndex EXCEPT ![m.to] = commitIndex[m.to]]
  BY <1>5 DEF HandleAppendEntries
<1>8. QED
  BY <1>1, <1>6, <1>7 DEF TypeOK

(* While a node stays leader, its log only grows at the end, and its commit  *)
(* index moves only in the locked block that ends a replication iteration.   *)
LEMMA LeaderStep ==
  ASSUME Cardinality(Node) % 2 = 1, IInv, [Next]_vars,
         NEW k \in Node, role[k] = "LEADER", role'[k] = "LEADER"
  PROVE  /\ \/ log'[k] = log[k]
            \/ \E e \in LogEntry : log'[k] = Append(log[k], e)
         /\ \/ commitIndex'[k] = commitIndex[k]
            \/ AppendEntriesReturns(k)
<1> DEFINE Goal == /\ \/ log'[k] = log[k]
                      \/ \E e \in LogEntry : log'[k] = Append(log[k], e)
                   /\ \/ commitIndex'[k] = commitIndex[k]
                      \/ AppendEntriesReturns(k)
<1> SUFFICES Goal
  OBVIOUS
<1>0. TypeOK /\ TickerInv
  BY DEF IInv
<1>1. ASSUME NEW m \in Request, m.from # m.to, Handle(m),
             m.type = "AppendEntries" => <<m.term, m.from>> \in elected
      PROVE  Goal
  <2>1. CASE HandleRequestVote(m)
    BY <2>1 DEF HandleRequestVote
  <2>2. CASE HandleAppendEntries(m)
    <3>1. m \in AppendRequest /\ m.type = "AppendEntries"
      BY <2>2 DEF HandleAppendEntries, Request, VoteRequest
    <3>2. CASE m.to = k
      BY <1>1, <2>2, <3>1, <3>2, LeaderIgnores
    <3>3. CASE m.to # k
      BY <1>0, <2>2, <3>3 DEF HandleAppendEntries, TypeOK
    <3>4. QED
      BY <3>2, <3>3
  <2>3. QED
    BY <1>1, <2>1, <2>2 DEF Handle
<1>2. CASE UNCHANGED <<log, commitIndex>>
  BY <1>2
<1>3. ASSUME NEW n \in Node, NEW p \in Node, DeliverVote(n, p)
      PROVE  Goal
  <2>1. /\ VoteRequestTo(n, p) \in Request
        /\ VoteRequestTo(n, p).type = "RequestVote"
        /\ VoteRequestTo(n, p).from # VoteRequestTo(n, p).to
    BY <1>0, <1>3 DEF DeliverVote, Turn, VoteRequestTo, VoteRequest, Request, TypeOK,
                      Locals, TickerInv, TickerOK
  <2>2. QED
    BY <1>1, <1>3, <2>1 DEF DeliverVote
<1>4. ASSUME NEW n \in Node, DeliverAppend(n)
      PROVE  Goal
  <2>1. /\ request[n] \in Request /\ request[n].from # request[n].to
        /\ <<request[n].term, request[n].from>> \in elected /\ Handle(request[n])
    BY <1>0, <1>4 DEF DeliverAppend, IInv, TypeOK, TickerInv, TickerOK, LeadOK, Request
  <2>2. QED
    BY <1>1, <2>1
<1>5. ASSUME NEW m \in late, DeliverLate(m)
      PROVE  Goal
  <2>1. /\ m \in Request /\ m.from # m.to /\ Handle(m)
        /\ m.type = "AppendEntries" => <<m.term, m.from>> \in elected
    BY <1>0, <1>5 DEF DeliverLate, IInv, TypeOK, TickerInv, LateInv
  <2>2. QED
    BY <1>1, <2>1
<1>6. ASSUME NEW n \in Node, AppendEntriesReturns(n)
      PROVE  Goal
  <2>1. log' = log
    BY <1>6 DEF AppendEntriesReturns
  <2>2. n # k => commitIndex'[k] = commitIndex[k]
    BY <1>0, <1>6 DEF AppendEntriesReturns, TypeOK
  <2>3. QED
    BY <1>6, <2>1, <2>2
<1>7. ASSUME NEW n \in Node, NEW c \in Command, Propose(n, c)
      PROVE  Goal
  <2>1. [term |-> currentTerm[n], command |-> c] \in LogEntry
    BY <1>0 DEF TypeOK, LogEntry
  <2>2. commitIndex' = commitIndex /\ (n # k => log'[k] = log[k])
    BY <1>0, <1>7 DEF Propose, TypeOK
  <2>3. n = k => log'[k] = Append(log[k], [term |-> currentTerm[n], command |-> c])
    BY <1>0, <1>7 DEF Propose, TypeOK
  <2>4. QED
    BY <2>1, <2>2, <2>3
<1>8. ASSUME NEW n \in Node, Reset(n)
      PROVE  Goal
  <2>1. n # k
    BY <1>0, <1>8 DEF Reset, TypeOK
  <2>2. QED
    BY <1>0, <1>8, <2>1 DEF Reset, TypeOK
<1>9. CASE \E n \in Node : Restart(n) \/ CrashBetweenSaves(n)
  BY <1>8, <1>9 DEF Restart, CrashBetweenSaves
<1>10. ASSUME NEW n \in Node,
              \/ StartElection(n) \/ RequestVoteReturns(n) \/ BecomeLeader(n)
              \/ StartReplicate(n) \/ SendAppendEntries(n)
              \/ AppendCallFails(n) \/ AnswerLost(n)
       PROVE  UNCHANGED <<log, commitIndex>>
  BY <1>10 DEF StartElection, RequestVoteReturns, BecomeLeader, StartReplicate,
      SendAppendEntries, AppendCallFails, AnswerLost, persistent
<1>11. ASSUME NEW n \in Node, NEW p \in Node, VoteCallFails(n, p) \/ ReadPrevTerm(n, p)
       PROVE  UNCHANGED <<log, commitIndex>>
  BY <1>11 DEF VoteCallFails, ReadPrevTerm, persistent
<1>12. CASE UNCHANGED vars
  BY <1>2, <1>12 DEF vars, persistent
<1>13. QED
  <2> HIDE DEF Goal
  <2>1. QED
    BY <1>2, <1>3, <1>4, <1>5, <1>6, <1>7, <1>9, <1>10, <1>11, <1>12 DEF Next

(* Leader Append-Only: in a cluster of odd size a leader never drops or      *)
(* changes an entry of its own log.                                          *)
THEOREM LeaderNeverTruncates ==
  ASSUME Cardinality(Node) % 2 = 1
  PROVE  Spec => LeaderAppendOnly
<1>1. ASSUME IInv, [Next]_vars
      PROVE  [\A n \in Node :
                role[n] = "LEADER" /\ role'[n] = "LEADER" =>
                   /\ Len(log'[n]) >= Len(log[n])
                   /\ SubSeq(log'[n], 1, Len(log[n])) = log[n]]_vars
  <2>1. ASSUME NEW n \in Node, role[n] = "LEADER", role'[n] = "LEADER"
        PROVE  /\ Len(log'[n]) >= Len(log[n])
               /\ SubSeq(log'[n], 1, Len(log[n])) = log[n]
    <3>1. log[n] \in Seq(LogEntry)
      BY <1>1 DEF IInv, TypeOK
    <3>2. CASE log'[n] = log[n]
      <4>1. Len(log[n]) \in Nat /\ SubSeq(log[n], 1, Len(log[n])) = log[n]
        BY <3>1, LenProperties, SubSeqFull
      <4>2. QED
        BY <3>2, <4>1
    <3>3. CASE \E e \in LogEntry : log'[n] = Append(log[n], e)
      BY <3>1, <3>3, PrefixOfLonger
    <3>4. QED
      BY <1>1, <2>1, <3>2, <3>3, LeaderStep
  <2>2. QED
    BY <2>1
<1>2. QED
  BY <1>1, IInvInductive, PTL DEF Spec, LeaderAppendOnly

(* The commit rule: in a cluster of odd size a leader moves its commit index *)
(* only onto an entry of the term it leads.                                  *)
THEOREM LeaderCommitsOwnTerm ==
  ASSUME Cardinality(Node) % 2 = 1
  PROVE  Spec => CommitsOwnTerm
<1>1. ASSUME IInv, [Next]_vars
      PROVE  [\A n \in Node :
                role[n] = "LEADER" /\ role'[n] = "LEADER"
                                   /\ commitIndex'[n] > commitIndex[n] =>
                   TermAt(log[n], commitIndex'[n]) = currentTerm[n]]_vars
  <2>1. ASSUME NEW n \in Node, role[n] = "LEADER", role'[n] = "LEADER",
               commitIndex'[n] > commitIndex[n]
        PROVE  TermAt(log[n], commitIndex'[n]) = currentTerm[n]
    <3>1. TypeOK /\ commitIndex[n] \in Nat /\ local[n].term \in Nat
      BY <1>1 DEF IInv, TypeOK, Locals
    <3>2. AppendEntriesReturns(n)
      <4>1. commitIndex'[n] # commitIndex[n]
        BY <2>1, <3>1
      <4>2. QED
        BY <1>1, <2>1, <4>1, LeaderStep
    <3>3. local[n].term = currentTerm[n]
      BY <1>1, <2>1, <3>2 DEF AppendEntriesReturns, IInv, LeadOK
    <3>4. PICK match : commitIndex'[n] = AdvancedCommit(n, local[n].term, match)
      BY <2>1, <3>1, <3>2 DEF AppendEntriesReturns, TypeOK
    <3>5. commitIndex'[n] \in Committable(n, local[n].term, match)
      BY <2>1, <3>1, <3>4, AdvancedCommitType
    <3>6. QED
      BY <3>3, <3>5 DEF Committable
  <2>2. QED
    BY <2>1
<1>2. QED
  BY <1>1, IInvInductive, PTL DEF Spec, CommitsOwnTerm
-----------------------------------------------------------------------------
(* Entries: where they are and what precedes them *)

(* An entry of a log, with its index and the term of the entry before it.   *)
LogLinks(n) ==
    {<<i, log[n][i], TermAt(log[n], i - 1)>> : i \in 1..Len(log[n])}

(* An entry of an AppendEntries: the receiver puts it at this index, after  *)
(* an entry of this term.                                                   *)
RequestLinks(m) ==
    {<<m.prevIndex + i, m.entries[i],
       IF i = 1 THEN m.prevTerm ELSE m.entries[i - 1].term>> : i \in 1..Len(m.entries)}

(* The AppendEntries on their way, those that outlived their caller too.    *)
Sent == {request[n] : n \in {k \in Node : request[k] # Nil}}
        \cup {m \in late : m.type = "AppendEntries"}

Links == (UNION {LogLinks(n) : n \in Node}) \cup (UNION {RequestLinks(m) : m \in Sent})

(* One entry for an index and a term, wherever it is, and one term before   *)
(* it as long as no request is of two logs.                                 *)
Agree(x, y) ==
    x[1] = y[1] /\ x[2].term = y[2].term =>
        x[2] = y[2] /\ (torn \/ x[3] = y[3])

LinksAgree == \A x, y \in Links : Agree(x, y)

(* Whoever made an entry was elected for its term.                          *)
TermsElected == \A x \in Links : \E l \in Node : <<x[2].term, l>> \in elected

(* No entry of a leader's term is where its log has none.                   *)
LeaderAhead ==
    \A n \in Node : role[n] = "LEADER" =>
        \A x \in Links : x[2].term = currentTerm[n] => x[1] <= Len(log[n])

(* A node is elected once in a term: not for a later term than it is in,    *)
(* and not while it stands.                                                 *)
ElectedOnce ==
    /\ \A x \in elected : x[1] <= currentTerm[x[2]]
    /\ \A n \in Node : role[n] = "CANDIDATE" => <<currentTerm[n], n>> \notin elected

(* Before the first entry there is none.                                    *)
PrevInv ==
    /\ \A m \in Sent : m.prevIndex = 0 => m.prevTerm = 0
    /\ \A n \in Node : pc[n] = "entries" /\ local[n].next[local[n].peer] = 1 =>
                          local[n].prevTerm = 0

EntriesInv == LinksAgree /\ TermsElected /\ LeaderAhead /\ ElectedOnce /\ PrevInv

(* The merge loop changes nothing, or keeps the log up to some entry of the *)
(* request and has the entries of the request from there (node.py:200-210). *)
LEMMA MergeShape ==
  ASSUME NEW lg \in Seq(LogEntry), NEW prev \in 0..Len(lg), NEW es \in Seq(LogEntry)
  PROVE  \/ Merge(lg, prev, es) = lg
         \/ \E i \in 1..Len(es) :
               /\ prev + i - 1 <= Len(lg)
               /\ prev + i > Len(lg) \/ lg[prev + i].term # es[i].term
               /\ i > 1 => lg[prev + i - 1].term = es[i - 1].term
               /\ Len(Merge(lg, prev, es)) = prev + Len(es)
               /\ \A k \in 1..(prev + i - 1) : Merge(lg, prev, es)[k] = lg[k]
               /\ \A k \in i..Len(es) : Merge(lg, prev, es)[prev + k] = es[k]
<1> DEFINE D == Differing(lg, prev, es)
           r == Merge(lg, prev, es)
<1>1. CASE D = {}
  BY <1>1 DEF Merge
<1>2. CASE D # {}
  <2>1. D \subseteq 1..Len(es) /\ D \subseteq Nat
    BY DEF Differing
  <2>2. \E j \in D : \A k \in D : j <= k
    BY <1>2, <2>1, LeastExists
  <2> DEFINE i == CHOOSE j \in D : \A k \in D : j <= k
  <2>3. i \in D /\ \A k \in D : i <= k
    BY <2>2
  <2>4. Len(lg) \in Nat /\ Len(es) \in Nat /\ i \in 1..Len(es) /\ prev \in Nat /\ prev <= Len(lg)
    BY <2>1, <2>3, LenProperties
  <2>5. r = TruncateFrom(lg, prev + i) \o EntriesFrom(es, i)
    BY <1>2 DEF Merge
  <2> HIDE DEF i
  <2>6. i > 1 => prev + i - 1 <= Len(lg) /\ lg[prev + i - 1].term = es[i - 1].term
    <3>1. SUFFICES ASSUME i > 1
                   PROVE  prev + i - 1 <= Len(lg) /\ lg[prev + i - 1].term = es[i - 1].term
      OBVIOUS
    <3>2. i - 1 \in 1..Len(es) /\ i - 1 \notin D
      BY <2>1, <2>3, <2>4, <3>1
    <3>3. prev + (i - 1) = prev + i - 1
      BY <2>4
    <3>4. QED
      BY <2>4, <3>2, <3>3 DEF Differing, LastIndex
  <2>7. prev + i - 1 <= Len(lg) /\ prev + i \in 1..(Len(lg) + 1)
    BY <2>4, <2>6
  <2> DEFINE a == TruncateFrom(lg, prev + i)
             b == EntriesFrom(es, i)
  <2>8. /\ a \in Seq(LogEntry) /\ Len(a) = prev + i - 1
        /\ \A k \in 1..(prev + i - 1) : a[k] = lg[k]
    <3>1. \A k \in 1..(prev + i - 1) : lg[k] \in LogEntry
      BY <2>4, <2>7, ElementOfSeq
    <3>2. prev + i - 1 \in Int /\ prev + i - 1 >= 0
      BY <2>4
    <3> DEFINE q == prev + i - 1
    <3>3. a = SubSeq(lg, 1, q)
      BY <2>4 DEF TruncateFrom
    <3> HIDE DEF q, a
    <3>4. /\ a \in Seq(LogEntry) /\ Len(a) = q
          /\ \A k \in 1..q : a[k] = lg[k]
      BY <3>1, <3>2, <3>3, SubSeqProperties DEF q
    <3>5. QED
      BY <3>4 DEF q
  <2>9. /\ b \in Seq(LogEntry) /\ Len(b) = Len(es) - i + 1
        /\ \A k \in 1..(Len(es) - i + 1) : b[k] = es[i + k - 1]
    <3>1. \A k \in i..Len(es) : es[k] \in LogEntry
      BY <2>4, ElementOfSeq
    <3>2. QED
      BY <2>4, <3>1, SubSeqProperties DEF EntriesFrom
  <2> HIDE DEF a, b
  <2>a. /\ Len(r) = Len(a) + Len(b)
        /\ \A k \in 1..Len(a) : r[k] = a[k]
        /\ \A k \in (Len(a) + 1)..(Len(a) + Len(b)) : r[k] = b[k - Len(a)]
    <3>1. r = a \o b
      BY <2>5 DEF a, b
    <3> HIDE DEF r
    <3>2. /\ Len(r) = Len(a) + Len(b)
          /\ \A k \in 1..(Len(a) + Len(b)) :
                r[k] = IF k <= Len(a) THEN a[k] ELSE b[k - Len(a)]
      BY <2>8, <2>9, <3>1, ConcatProperties
    <3>3. Len(a) \in Nat /\ Len(b) \in Nat
      BY <2>4, <2>7, <2>8, <2>9
    <3> HIDE DEF a, b
    <3>4. QED
      BY <3>2, <3>3
  <2> HIDE DEF r
  <2>10. /\ Len(r) = prev + Len(es)
         /\ \A k \in 1..(prev + i - 1) : r[k] = lg[k]
    BY <2>4, <2>8, <2>9, <2>a
  <2>11. ASSUME NEW k \in i..Len(es)
         PROVE  r[prev + k] = es[k]
    <3>1. prev + k \in (Len(a) + 1)..(Len(a) + Len(b)) /\ prev + k - Len(a) = k - i + 1
      BY <2>4, <2>8, <2>9
    <3>2. r[prev + k] = b[k - i + 1]
      BY <2>a, <3>1
    <3>3. k - i + 1 \in 1..(Len(es) - i + 1) /\ i + (k - i + 1) - 1 = k
      BY <2>4
    <3>4. QED
      BY <2>9, <3>2, <3>3
  <2>12. prev + i > Len(lg) \/ lg[prev + i].term # es[i].term
    BY <2>3 DEF Differing, LastIndex
  <2>13. QED
    BY <2>4, <2>6, <2>7, <2>10, <2>11, <2>12 DEF r
<1>3. QED
  BY <1>1, <1>2

(* What the handler leaves in the log was there, or was in the request, with *)
(* the same entry before it: the merge loop joins the two where they agree,  *)
(* or where the consistency check has passed.                                *)
LEMMA MergedLinks ==
  ASSUME TypeOK, NEW m \in AppendRequest, m.prevIndex = 0 => m.prevTerm = 0,
         NEW i \in 1..Len(MergedLog(m))
  PROVE  <<i, MergedLog(m)[i], TermAt(MergedLog(m), i - 1)>>
            \in LogLinks(m.to) \cup RequestLinks(m)
<1> DEFINE lg == log[m.to]
           prev == m.prevIndex
           es == m.entries
           r == MergedLog(m)
           x == <<i, r[i], TermAt(r, i - 1)>>
<1>1. /\ m.to \in Node /\ prev \in Nat /\ es \in Seq(LogEntry) /\ lg \in Seq(LogEntry)
      /\ Len(lg) \in Nat /\ Len(es) \in Nat
  BY LenProperties DEF TypeOK, AppendRequest
<1>2. r \in Seq(LogEntry) /\ Len(r) \in Nat /\ i \in Nat /\ 1 <= i /\ i <= Len(r)
  BY MergedLogType, LenProperties
<1> SUFFICES x \in LogLinks(m.to) \cup RequestLinks(m)
  OBVIOUS
<1> HIDE DEF r
<1>3. ASSUME NEW q \in Nat, q <= Len(lg), q <= Len(r), \A k \in 1..q : r[k] = lg[k], i <= q
      PROVE  x \in LogLinks(m.to)
  <2>1. i \in 1..Len(lg) /\ r[i] = lg[i]
    BY <1>1, <1>2, <1>3
  <2>2. TermAt(r, i - 1) = TermAt(lg, i - 1)
    <3>1. CASE i = 1
      BY <3>1 DEF TermAt
    <3>2. CASE i # 1
      <4>1. i - 1 \in 1..Len(lg) /\ i - 1 \in 1..Len(r) /\ i - 1 \in 1..q
        BY <1>1, <1>2, <1>3, <3>2
      <4>2. r[i - 1] = lg[i - 1]
        BY <1>3, <4>1
      <4>3. QED
        BY <4>1, <4>2 DEF TermAt
    <3>3. QED
      BY <3>1, <3>2
  <2>3. x = <<i, lg[i], TermAt(lg, i - 1)>>
    BY <2>1, <2>2
  <2>4. QED
    BY <2>1, <2>3 DEF LogLinks
<1>4. CASE r = lg
  <2> HIDE DEF lg, x
  <2>1. \A k \in 1..Len(lg) : r[k] = lg[k]
    BY <1>4
  <2>2. Len(lg) <= Len(lg) /\ Len(lg) <= Len(r) /\ i <= Len(lg)
    BY <1>1, <1>2, <1>4
  <2>3. QED
    BY <1>1, <1>3, <2>1, <2>2
<1>5. CASE ~Consistent(m) /\ Current(m) /\ Conflicts(m)
  <2>1. prev \in 1..Len(lg) /\ r = TruncateFrom(lg, prev)
    BY <1>1, <1>5 DEF MergedLog, Conflicts, LastIndex, r
  <2>2. prev - 1 \in Int /\ prev - 1 >= 0 /\ prev - 1 <= Len(lg) /\ prev - 1 \in Nat
    BY <1>1, <2>1
  <2>3. \A k \in 1..(prev - 1) : lg[k] \in LogEntry
    BY <1>1, <2>1, ElementOfSeq
  <2> HIDE DEF prev, lg
  <2>4. Len(r) = prev - 1 /\ \A k \in 1..(prev - 1) : r[k] = lg[k]
    BY <2>1, <2>2, <2>3, SubSeqProperties DEF TruncateFrom
  <2>5. QED
    BY <1>2, <1>3, <2>2, <2>4
<1>6. CASE Consistent(m) /\ r # lg
  <2>1. prev \in 0..Len(lg) /\ r = Merge(lg, prev, es)
    BY <1>1, <1>6 DEF MergedLog, Consistent, TooShort, LastIndex, r
  <2>2. PICK j \in 1..Len(es) :
               /\ prev + j - 1 <= Len(lg)
               /\ prev + j > Len(lg) \/ lg[prev + j].term # es[j].term
               /\ j > 1 => lg[prev + j - 1].term = es[j - 1].term
               /\ Len(r) = prev + Len(es)
               /\ \A k \in 1..(prev + j - 1) : r[k] = lg[k]
               /\ \A k \in j..Len(es) : r[prev + k] = es[k]
    <3> HIDE DEF lg, prev, es
    <3>1. \/ Merge(lg, prev, es) = lg
          \/ \E j \in 1..Len(es) :
               /\ prev + j - 1 <= Len(lg)
               /\ prev + j > Len(lg) \/ lg[prev + j].term # es[j].term
               /\ j > 1 => lg[prev + j - 1].term = es[j - 1].term
               /\ Len(Merge(lg, prev, es)) = prev + Len(es)
               /\ \A k \in 1..(prev + j - 1) : Merge(lg, prev, es)[k] = lg[k]
               /\ \A k \in j..Len(es) : Merge(lg, prev, es)[prev + k] = es[k]
      BY <1>1, <2>1, MergeShape
    <3>2. QED
      BY <1>6, <2>1, <3>1
  <2>3. j \in Nat /\ 1 <= j /\ j <= Len(es)
    BY <1>1, <2>2
  <2>4. CASE i <= prev + j - 1
    <3>1. prev + j - 1 \in Nat /\ prev + j - 1 <= Len(r)
      BY <1>1, <2>2, <2>3
    <3>2. QED
      BY <1>3, <2>2, <2>4, <3>1
  <2>5. CASE i > prev + j - 1
    <3> DEFINE k == i - prev
    <3>1. k \in j..Len(es) /\ k \in 1..Len(es) /\ prev + k = i
      BY <1>1, <1>2, <2>2, <2>3, <2>5
    <3>2. r[i] = es[k]
      BY <2>2, <3>1
    <3>3. TermAt(r, i - 1) = IF k = 1 THEN m.prevTerm ELSE es[k - 1].term
      <4>1. CASE k > j
        <5>1. k - 1 \in j..Len(es) /\ prev + (k - 1) = i - 1 /\ i - 1 \in 1..Len(r) /\ k # 1
          BY <1>1, <1>2, <2>3, <3>1, <4>1
        <5>2. r[i - 1] = es[k - 1]
          BY <2>2, <5>1
        <5>3. QED
          BY <5>1, <5>2 DEF TermAt
      <4>2. CASE k = j /\ j > 1
        <5>0. i = prev + j /\ k # 1
          BY <1>1, <1>2, <2>3, <3>1, <4>2
        <5>1. prev + j - 1 = i - 1 /\ i - 1 \in 1..(prev + j - 1) /\ i - 1 \in 1..Len(r)
          <6> HIDE DEF prev, k
          <6>1. QED
            BY <1>1, <1>2, <2>3, <4>2, <5>0
        <5>2. r[i - 1].term = es[k - 1].term
          BY <2>2, <4>2, <5>1
        <5>3. QED
          BY <5>0, <5>1, <5>2 DEF TermAt
      <4>3. CASE k = j /\ j = 1
        <5>1. i - 1 = prev /\ k = 1
          BY <1>1, <1>2, <3>1, <4>3
        <5>2. CASE prev = 0
          BY <5>1, <5>2 DEF TermAt
        <5>3. CASE prev # 0
          <6>1. prev \in 1..Len(lg) /\ prev \in 1..Len(r) /\ prev \in 1..(prev + j - 1)
            BY <1>1, <1>2, <2>1, <4>3, <5>1, <5>3
          <6>2. TermAt(lg, prev) = m.prevTerm
            BY <1>1, <1>6, <6>1 DEF Consistent, Conflicts, LastIndex
          <6>3. r[prev] = lg[prev]
            BY <2>2, <6>1
          <6>4. QED
            BY <5>1, <6>1, <6>2, <6>3 DEF TermAt
        <5>4. QED
          BY <5>2, <5>3
      <4>4. QED
        BY <2>3, <3>1, <4>1, <4>2, <4>3
    <3> HIDE DEF k
    <3>4. x = <<prev + k, es[k], IF k = 1 THEN m.prevTerm ELSE es[k - 1].term>>
      BY <3>1, <3>2, <3>3
    <3>5. x \in RequestLinks(m)
      BY <3>1, <3>4 DEF RequestLinks
    <3>6. QED
      BY <3>5
  <2>6. QED
    BY <1>1, <1>2, <2>3, <2>4, <2>5
<1>7. CASE ~Consistent(m) /\ ~(Current(m) /\ Conflicts(m))
  BY <1>4, <1>7 DEF MergedLog, r
<1>8. QED
  BY <1>4, <1>5, <1>6, <1>7


(* The AppendEntries on their way are requests to another node.              *)
LEMMA SentType ==
  ASSUME TypeOK, TickerInv, NEW m \in Sent
  PROVE  m \in AppendRequest
<1>1. CASE \E n \in Node : request[n] # Nil /\ m = request[n]
  BY <1>1 DEF TickerInv, TickerOK
<1>2. CASE m \in late /\ m.type = "AppendEntries"
  BY <1>2 DEF TypeOK, Request, VoteRequest
<1>3. QED
  BY <1>1, <1>2 DEF Sent

(* A step sends at most one AppendEntries, from SendAppendEntries; a call    *)
(* that fails, and a crash, may leave behind one that was on its way.        *)
LEMMA SentStep ==
  ASSUME TypeOK, TickerInv, [Next]_vars, NEW m \in Sent', m \notin Sent
  PROVE  \E n \in Node : SendAppendEntries(n) /\ m = request'[n]
<1> USE NodeAssumption
<1> DEFINE Kept == /\ \A k \in Node : request'[k] \in {request[k], Nil}
                   /\ \A x \in late' : x.type = "AppendEntries" =>
                         x \in late \/ \E k \in Node : request[k] # Nil /\ x = request[k]
<1>1. ~Kept
  <2>1. CASE \E k \in Node : request'[k] # Nil /\ m = request'[k]
    BY <2>1 DEF Sent
  <2>2. CASE m \in late' /\ m.type = "AppendEntries"
    BY <2>2 DEF Sent
  <2>3. QED
    BY <2>1, <2>2 DEF Sent
<1>2. ASSUME NEW n \in Node, SendAppendEntries(n)
      PROVE  m = request'[n]
  <2>1. late' = late /\ \A k \in Node : k # n => request'[k] = request[k]
    BY <1>2 DEF SendAppendEntries, TypeOK
  <2>2. QED
    BY <2>1 DEF Sent
<1>3. ASSUME NEW n \in Node, \A x \in late' : x \in late \/ x \in OnItsWay(n)
      PROVE  \A x \in late' : x.type = "AppendEntries" =>
                x \in late \/ \E k \in Node : request[k] # Nil /\ x = request[k]
  BY <1>3, OnItsWayType
<1>4. ASSUME NEW n \in Node, Returned(n)
      PROVE  \A k \in Node : request'[k] \in {request[k], Nil}
  BY <1>4 DEF Returned, TypeOK
<1>5. ASSUME NEW n \in Node, NEW p \in Node, VoteCallFails(n, p)
      PROVE  Kept
  <2>1. VoteRequestTo(n, p) \in OnItsWay(n)
    BY <1>5 DEF VoteCallFails, Turn, OnItsWay
  <2>2. \A x \in late' : x \in late \/ x \in OnItsWay(n)
    BY <1>5, <2>1 DEF VoteCallFails, GivesUp
  <2>3. request' = request
    BY <1>5 DEF VoteCallFails, rpc
  <2>4. QED
    BY <1>3, <2>2, <2>3
<1>6. ASSUME NEW n \in Node, AppendCallFails(n)
      PROVE  Kept
  <2>1. request[n] \in OnItsWay(n)
    BY <1>6 DEF AppendCallFails, OnItsWay
  <2>2. \A x \in late' : x \in late \/ x \in OnItsWay(n)
    BY <1>6, <2>1 DEF AppendCallFails, GivesUp
  <2>3. Returned(n)
    BY <1>6 DEF AppendCallFails
  <2>4. QED
    BY <1>3, <1>4, <2>2, <2>3
<1>7. ASSUME NEW n \in Node, Reset(n)
      PROVE  Kept
  <2>1. \A x \in late' : x \in late \/ x \in OnItsWay(n)
    BY <1>7 DEF Reset, GivesUp
  <2>2. Returned(n)
    BY <1>7 DEF Reset
  <2>3. QED
    BY <1>3, <1>4, <2>1, <2>2
<1>8. ASSUME late' \subseteq late, request' = request
      PROVE  Kept
  BY <1>8
<1>9. ASSUME NEW n \in Node,
             RequestVoteReturns(n) \/ AppendEntriesReturns(n) \/ AnswerLost(n)
      PROVE  Kept
  <2>1. Returned(n) /\ late' = late
    BY <1>9 DEF RequestVoteReturns, AppendEntriesReturns, AnswerLost
  <2>2. QED
    BY <1>4, <2>1
<1>10. ASSUME NEW n \in Node,
              \/ StartElection(n) \/ BecomeLeader(n) \/ StartReplicate(n)
              \/ DeliverAppend(n)
              \/ \E p \in Node : DeliverVote(n, p) \/ ReadPrevTerm(n, p)
              \/ \E c \in Command : Propose(n, c)
       PROVE  late' = late /\ request' = request
  BY <1>10 DEF StartElection, BecomeLeader, StartReplicate, DeliverAppend, DeliverVote,
      ReadPrevTerm, Propose, rpc
<1>11. ASSUME NEW x \in late, DeliverLate(x)
       PROVE  late' \subseteq late /\ request' = request
  BY <1>11 DEF DeliverLate, rpc
<1>12. CASE UNCHANGED vars
  BY <1>1, <1>8, <1>12 DEF vars, rpc
<1>13. QED
  <2> HIDE DEF Kept
  <2>1. QED
    BY <1>1, <1>2, <1>5, <1>6, <1>7, <1>8, <1>9, <1>10, <1>11, <1>12
       DEF Next, Restart, CrashBetweenSaves

(* Only a leader that proposes, and a handler, write a log.                  *)
LEMMA LogWriters ==
  ASSUME TypeOK, TickerInv, [Next]_vars
  PROVE  \/ log' = log
         \/ \E n \in Node, c \in Command : Propose(n, c)
         \/ \E m \in Sent : HandleAppendEntries(m)
<1>1. ASSUME NEW m \in Request, Handle(m), m.type = "AppendEntries" => m \in Sent
      PROVE  log' = log \/ \E x \in Sent : HandleAppendEntries(x)
  BY <1>1 DEF Handle, HandleRequestVote, HandleAppendEntries
<1>2. ASSUME NEW n \in Node, NEW p \in Node, DeliverVote(n, p)
      PROVE  log' = log
  <2>1. HandleRequestVote(VoteRequestTo(n, p))
    BY <1>2 DEF DeliverVote, Handle, VoteRequestTo, HandleAppendEntries
  <2>2. QED
    BY <2>1 DEF HandleRequestVote
<1>3. ASSUME NEW n \in Node, DeliverAppend(n)
      PROVE  log' = log \/ \E x \in Sent : HandleAppendEntries(x)
  <2>1. request[n] \in Request /\ request[n] \in Sent /\ Handle(request[n])
    BY <1>3 DEF DeliverAppend, TypeOK, Sent
  <2>2. QED
    BY <1>1, <2>1
<1>4. ASSUME NEW m \in late, DeliverLate(m)
      PROVE  log' = log \/ \E x \in Sent : HandleAppendEntries(x)
  <2>1. m \in Request /\ Handle(m) /\ (m.type = "AppendEntries" => m \in Sent)
    BY <1>4 DEF DeliverLate, TypeOK, Sent
  <2>2. QED
    BY <1>1, <2>1
<1>5. ASSUME NEW n \in Node,
             \/ StartElection(n) \/ RequestVoteReturns(n) \/ BecomeLeader(n)
             \/ StartReplicate(n) \/ SendAppendEntries(n) \/ AppendEntriesReturns(n)
             \/ AppendCallFails(n) \/ AnswerLost(n) \/ Restart(n)
             \/ CrashBetweenSaves(n)
             \/ \E p \in Node : VoteCallFails(n, p) \/ ReadPrevTerm(n, p)
      PROVE  log' = log
  BY <1>5 DEF StartElection, RequestVoteReturns, BecomeLeader, StartReplicate,
      SendAppendEntries, AppendEntriesReturns, AppendCallFails, AnswerLost,
      VoteCallFails, ReadPrevTerm, Restart, CrashBetweenSaves, Reset, persistent
<1>6. CASE UNCHANGED vars
  BY <1>6 DEF vars, persistent
<1>7. QED
  BY <1>2, <1>3, <1>4, <1>5, <1>6 DEF Next

(* Only the reading of prev_term brings a ticker to the reading of entries.  *)
LEMMA ReadingBegins ==
  ASSUME TypeOK, TickerInv, [Next]_vars, NEW n \in Node, pc'[n] = "entries"
  PROVE  \/ pc'[n] = pc[n] /\ local'[n] = local[n]
         \/ \E p \in Node : ReadPrevTerm(n, p)
<1> DEFINE Goal == \/ pc'[n] = pc[n] /\ local'[n] = local[n]
                   \/ \E p \in Node : ReadPrevTerm(n, p)
<1> SUFFICES Goal
  OBVIOUS
<1>1. ~EndPass(n)
  BY DEF EndPass, TypeOK
<1>2. ASSUME NEW loop, NEW rest, NEW granted, loop # "entries"
      PROVE  ~GoOn(n, loop, rest, granted)
  BY <1>2, GoOnEffect
<1>3. ASSUME NEW k \in Node \ {n},
             \/ StartElection(k) \/ RequestVoteReturns(k) \/ BecomeLeader(k)
             \/ StartReplicate(k) \/ SendAppendEntries(k) \/ DeliverAppend(k)
             \/ AppendEntriesReturns(k) \/ AppendCallFails(k) \/ AnswerLost(k)
             \/ Restart(k) \/ CrashBetweenSaves(k)
             \/ \E p \in Node : \/ DeliverVote(k, p) \/ VoteCallFails(k, p)
                               \/ ReadPrevTerm(k, p)
      PROVE  Goal
  <2>1. pc'[n] = pc[n] /\ local'[n] = local[n]
    BY <1>3, OthersStand DEF Restart, CrashBetweenSaves
  <2>2. QED
    BY <2>1
<1>4. ~StartElection(n) /\ ~SendAppendEntries(n)
  BY DEF StartElection, SendAppendEntries, TypeOK
<1>5. ~RequestVoteReturns(n) /\ ~AppendEntriesReturns(n)
  <2>1. RequestVoteReturns(n) => pc'[n] = "elected"
    BY <1>1, <1>2 DEF RequestVoteReturns, TypeOK
  <2>2. ~AppendEntriesReturns(n)
    BY <1>1, <1>2 DEF AppendEntriesReturns
  <2>3. QED
    BY <2>1, <2>2
<1>6. ~BecomeLeader(n) /\ ~StartReplicate(n)
  <2>1. BecomeLeader(n) => pc'[n] = "assert"
    BY <1>1 DEF BecomeLeader, TypeOK
  <2>2. StartReplicate(n) => pc'[n] = "replicate"
    BY <1>1 DEF StartReplicate, TypeOK
  <2>3. QED
    BY <2>1, <2>2
<1>7. ~AppendCallFails(n) /\ ~AnswerLost(n)
  <2>1. AnswerLost(n) => pc[n] \in {"election", "replicate"}
    BY DEF AnswerLost, TickerInv, TickerOK
  <2>2. QED
    BY <1>2, <2>1 DEF AppendCallFails, AnswerLost
<1>8. ~Restart(n) /\ ~CrashBetweenSaves(n)
  BY DEF Restart, CrashBetweenSaves, Reset, TypeOK
<1>9. ASSUME NEW p \in Node, DeliverVote(n, p)
      PROVE  Goal
  BY <1>9 DEF DeliverVote
<1>10. ASSUME NEW p \in Node, VoteCallFails(n, p)
       PROVE  Goal
  BY <1>2, <1>10 DEF VoteCallFails
<1>11. CASE \/ DeliverAppend(n)
            \/ \E k \in Node, c \in Command : Propose(k, c)
            \/ \E m \in late : DeliverLate(m)
            \/ UNCHANGED vars
  BY <1>11 DEF DeliverAppend, Propose, DeliverLate, ticker, vars
<1>12. CASE \E p \in Node : ReadPrevTerm(n, p)
  BY <1>12
<1>13. QED
  <2> HIDE DEF Goal
  <2>1. QED
    BY <1>3, <1>4, <1>5, <1>6, <1>7, <1>8, <1>9, <1>10, <1>11, <1>12 DEF Next

(* A pass that reads prev_term for the first entry reads that there is none, *)
(* and carries it until it sends.                                            *)
LEMMA PrevStep ==
  ASSUME TypeOK, TypeOK', TickerInv, PrevInv, [Next]_vars
  PROVE  PrevInv'
<1> USE NodeAssumption
<1> DEFINE Reading(n) == pc[n] = "entries" /\ local[n].next[local[n].peer] = 1
<1>1. ASSUME NEW m \in Sent', m.prevIndex = 0
      PROVE  m.prevTerm = 0
  <2>1. CASE m \in Sent
    BY <1>1, <2>1 DEF PrevInv
  <2>2. ASSUME NEW n \in Node, SendAppendEntries(n), m = request'[n]
        PROVE  m.prevTerm = 0
    <3>1. /\ pc[n] = "entries" /\ m.prevTerm = local[n].prevTerm
          /\ m.prevIndex = local[n].next[local[n].peer] - 1
      BY <2>2 DEF SendAppendEntries, TypeOK
    <3>2. local[n].next[local[n].peer] \in Nat
      BY <3>1 DEF TypeOK, TickerInv, TickerOK, Locals
    <3>3. QED
      BY <1>1, <3>1, <3>2 DEF PrevInv
  <2>3. QED
    BY <2>1, <2>2, SentStep
<1>2. ASSUME NEW n \in Node, Reading(n)'
      PROVE  local'[n].prevTerm = 0
  <2>1. CASE pc'[n] = pc[n] /\ local'[n] = local[n]
    BY <1>2, <2>1 DEF PrevInv
  <2>2. ASSUME NEW p \in Node, ReadPrevTerm(n, p)
        PROVE  local'[n].prevTerm = 0
    <3>1. /\ local[n] \in Locals /\ log[n] \in Seq(LogEntry)
          /\ local'[n] = [local[n] EXCEPT !.peer = p,
                             !.prevTerm = TermAt(log[n], local[n].next[p] - 1)]
      BY <2>2 DEF ReadPrevTerm, TypeOK
    <3>2. local[n].next[p] = 1
      BY <1>2, <3>1 DEF Locals
    <3>3. local'[n].prevTerm = TermAt(log[n], 0)
      BY <3>1, <3>2 DEF Locals
    <3>4. QED
      BY <3>3 DEF TermAt
  <2>3. QED
    BY <1>2, <2>1, <2>2, ReadingBegins
<1>3. QED
  BY <1>1, <1>2 DEF PrevInv

(* The entries a pass sends come from its log, and after the entry prev_term *)
(* was read from unless the log has changed meanwhile.                       *)
LEMMA SentLinks ==
  ASSUME TypeOK, TickerInv, NEW n \in Node, SendAppendEntries(n),
         NEW x \in RequestLinks(request'[n])
  PROVE  \E y \in LogLinks(n) : x[1] = y[1] /\ x[2] = y[2] /\ (torn' \/ x[3] = y[3])
<1> DEFINE m == request'[n]
           ni == local[n].next[local[n].peer]
           lg == log[n]
<1>1. /\ pc[n] = "entries" /\ m.entries = EntriesFrom(lg, ni) /\ m.prevIndex = ni - 1
      /\ m.prevTerm = local[n].prevTerm
      /\ torn' = (torn \/ local[n].prevTerm # TermAt(lg, ni - 1))
  BY DEF SendAppendEntries, TypeOK
<1>2. ni \in Nat /\ ni >= 1 /\ lg \in Seq(LogEntry) /\ Len(lg) \in Nat
  <2>1. local[n] \in Locals /\ local[n].peer \in Node
    BY <1>1 DEF TypeOK, TickerInv, TickerOK
  <2>2. ni \in Nat \ {0}
    BY <2>1 DEF Locals
  <2>3. lg \in Seq(LogEntry)
    BY DEF TypeOK
  <2>4. QED
    BY <2>2, <2>3, LenProperties
<1>3. PICK i \in 1..Len(m.entries) :
        x = <<m.prevIndex + i, m.entries[i],
              IF i = 1 THEN m.prevTerm ELSE m.entries[i - 1].term>>
  BY DEF RequestLinks
<1> HIDE DEF m, ni, lg
<1>4. /\ Len(m.entries) = IF ni <= Len(lg) THEN Len(lg) - ni + 1 ELSE 0
      /\ \A k \in 1..(Len(lg) - ni + 1) : m.entries[k] = lg[ni + k - 1]
  <2>1. \A k \in ni..Len(lg) : lg[k] \in LogEntry
    BY <1>2, ElementOfSeq
  <2>2. QED
    BY <1>1, <1>2, <2>1, SubSeqProperties DEF EntriesFrom
<1>5. i \in Nat /\ 1 <= i /\ i <= Len(lg) - ni + 1
  BY <1>2, <1>3, <1>4
<1> DEFINE j == ni + i - 1
<1>6. j \in 1..Len(lg) /\ m.entries[i] = lg[j] /\ m.prevIndex + i = j
  BY <1>1, <1>2, <1>4, <1>5
<1>7. torn' \/ (IF i = 1 THEN m.prevTerm ELSE m.entries[i - 1].term) = TermAt(lg, j - 1)
  <2>1. CASE i = 1
    <3>1. j - 1 = ni - 1
      BY <1>2, <2>1
    <3>2. QED
      BY <1>1, <2>1, <3>1
  <2>2. CASE i # 1
    <3>1. i - 1 \in 1..(Len(lg) - ni + 1) /\ j - 1 \in 1..Len(lg) /\ ni + (i - 1) - 1 = j - 1
      BY <1>2, <1>5, <2>2
    <3>2. m.entries[i - 1] = lg[j - 1]
      BY <1>4, <3>1
    <3>3. QED
      BY <2>2, <3>1, <3>2 DEF TermAt
  <2>3. QED
    BY <2>1, <2>2
<1> HIDE DEF j
<1>8. <<j, lg[j], TermAt(lg, j - 1)>> \in LogLinks(n)
  BY <1>6 DEF LogLinks, lg
<1>9. QED
  BY <1>3, <1>6, <1>7, <1>8

(* A log with one more entry has one more link.                              *)
LEMMA AppendedLinks ==
  ASSUME NEW lg \in Seq(LogEntry), NEW e \in LogEntry,
         NEW i \in 1..Len(Append(lg, e))
  PROVE  \/ /\ i \in 1..Len(lg) /\ Append(lg, e)[i] = lg[i]
            /\ TermAt(Append(lg, e), i - 1) = TermAt(lg, i - 1)
         \/ i = Len(lg) + 1 /\ Append(lg, e)[i] = e
<1> DEFINE r == Append(lg, e)
<1>1. Len(lg) \in Nat
  BY LenProperties
<1>2. /\ Len(r) = Len(lg) + 1 /\ r[Len(lg) + 1] = e
      /\ \A k \in 1..Len(lg) : r[k] = lg[k]
  BY <1>1, AppendProperties
<1> SUFFICES \/ i \in 1..Len(lg) /\ r[i] = lg[i] /\ TermAt(r, i - 1) = TermAt(lg, i - 1)
             \/ i = Len(lg) + 1 /\ r[i] = e
  OBVIOUS
<1>3. i \in Nat /\ i >= 1 /\ i <= Len(lg) + 1
  BY <1>1, <1>2
<1> HIDE DEF r
<1>4. CASE i = Len(lg) + 1
  BY <1>2, <1>4
<1>5. CASE i # Len(lg) + 1
  <2>1. i \in 1..Len(lg) /\ r[i] = lg[i]
    BY <1>1, <1>2, <1>3, <1>5
  <2>2. CASE i = 1
    BY <2>1, <2>2 DEF TermAt
  <2>3. CASE i # 1
    <3>1. i - 1 \in 1..Len(lg) /\ i - 1 \in 1..Len(r)
      BY <1>1, <1>2, <1>3, <1>5, <2>3
    <3>2. r[i - 1] = lg[i - 1]
      BY <1>2, <3>1
    <3>3. QED
      BY <2>1, <3>1, <3>2 DEF TermAt
  <2>4. QED
    BY <2>2, <2>3
<1>6. QED
  BY <1>4, <1>5

(* Every step keeps the links it finds, up to the entry before in a torn      *)
(* request; a new one is the entry a leader appends to its own log.           *)
LEMMA LinksStep ==
  ASSUME TypeOK, TickerInv, PrevInv, [Next]_vars, NEW x \in Links'
  PROVE  \/ \E y \in Links : x[1] = y[1] /\ x[2] = y[2] /\ (torn' \/ x[3] = y[3])
         \/ \E n \in Node, c \in Command :
               /\ Propose(n, c)
               /\ x[1] = Len(log[n]) + 1
               /\ x[2] = [term |-> currentTerm[n], command |-> c]
               /\ x[3] = TermAt(log[n], Len(log[n]))
<1> DEFINE Old == \E y \in Links : x[1] = y[1] /\ x[2] = y[2] /\ (torn' \/ x[3] = y[3])
           New == \E n \in Node, c \in Command :
               /\ Propose(n, c)
               /\ x[1] = Len(log[n]) + 1
               /\ x[2] = [term |-> currentTerm[n], command |-> c]
               /\ x[3] = TermAt(log[n], Len(log[n]))
<1> SUFFICES Old \/ New
  OBVIOUS
<1>1. CASE x \in Links
  BY <1>1
<1>2. ASSUME NEW n \in Node,
             NEW i \in 1..Len(log'[n]),
             x = <<i, log'[n][i], TermAt(log'[n], i - 1)>>
      PROVE  Old \/ New
  <2>1. CASE log'[n] = log[n]
    <3>1. x \in LogLinks(n)
      BY <1>2, <2>1 DEF LogLinks
    <3>2. QED
      BY <1>1, <3>1 DEF Links
  <2>2. ASSUME NEW c \in Command, Propose(n, c)
        PROVE  Old \/ New
    <3> DEFINE e == [term |-> currentTerm[n], command |-> c]
    <3>1. e \in LogEntry /\ log[n] \in Seq(LogEntry) /\ log'[n] = Append(log[n], e)
      BY <2>2 DEF Propose, TypeOK, LogEntry
    <3> HIDE DEF e
    <3>2. \/ /\ i \in 1..Len(log[n]) /\ log'[n][i] = log[n][i]
             /\ TermAt(log'[n], i - 1) = TermAt(log[n], i - 1)
          \/ i = Len(log[n]) + 1 /\ log'[n][i] = e
      BY <1>2, <3>1, AppendedLinks
    <3>3. CASE /\ i \in 1..Len(log[n]) /\ log'[n][i] = log[n][i]
               /\ TermAt(log'[n], i - 1) = TermAt(log[n], i - 1)
      <4>1. x \in LogLinks(n)
        BY <1>2, <3>3 DEF LogLinks
      <4>2. QED
        BY <1>1, <4>1 DEF Links
    <3>4. CASE i = Len(log[n]) + 1 /\ log'[n][i] = e
      <4>1. Len(log[n]) \in Nat
        BY <3>1, LenProperties
      <4>2. i - 1 = Len(log[n])
        BY <3>4, <4>1
      <4>3. TermAt(log'[n], i - 1) = TermAt(log[n], Len(log[n]))
        <5>1. CASE Len(log[n]) = 0
          BY <4>2, <5>1 DEF TermAt
        <5>2. CASE Len(log[n]) # 0
          <6>1. Len(log[n]) \in 1..Len(log[n]) /\ Len(log'[n]) = Len(log[n]) + 1
            BY <3>1, <4>1, <5>2, AppendProperties
          <6>2. log'[n][Len(log[n])] = log[n][Len(log[n])]
            BY <3>1, <6>1, AppendProperties
          <6>3. Len(log[n]) \in 1..Len(log'[n])
            BY <4>1, <6>1
          <6>4. QED
            BY <4>2, <6>1, <6>2, <6>3 DEF TermAt
        <5>3. QED
          BY <5>1, <5>2
      <4>4. New
        BY <1>2, <2>2, <3>4, <4>3 DEF e
      <4>5. QED
        BY <4>4
    <3>5. QED
      BY <3>2, <3>3, <3>4
  <2>3. ASSUME NEW k \in Node, NEW c \in Command, Propose(k, c), k # n
        PROVE  log'[n] = log[n]
    BY <2>3 DEF Propose, TypeOK
  <2>4. ASSUME NEW m \in Sent, HandleAppendEntries(m)
        PROVE  Old \/ New
    <3>1. m \in AppendRequest /\ (m.prevIndex = 0 => m.prevTerm = 0)
      BY SentType DEF PrevInv
    <3>2. CASE m.to # n
      <4>1. log'[n] = log[n]
        BY <2>4, <3>2 DEF HandleAppendEntries, TypeOK
      <4>2. QED
        BY <2>1, <4>1
    <3>3. CASE m.to = n
      <4>1. log'[n] = MergedLog(m)
        BY <2>4, <3>3 DEF HandleAppendEntries, TypeOK
      <4>2. x \in LogLinks(m.to) \cup RequestLinks(m)
        BY <1>2, <3>1, <4>1, MergedLinks
      <4>3. x \in Links
        BY <3>3, <4>2 DEF Links
      <4>4. QED
        BY <1>1, <4>3
    <3>4. QED
      BY <3>2, <3>3
  <2> HIDE DEF Old, New
  <2>5. QED
    BY <2>1, <2>2, <2>3, <2>4, LogWriters
<1>3. ASSUME NEW m \in Sent', x \in RequestLinks(m)
      PROVE  Old \/ New
  <2>1. CASE m \in Sent
    BY <1>1, <1>3, <2>1 DEF Links
  <2>2. CASE m \notin Sent
    <3>1. PICK n \in Node : SendAppendEntries(n) /\ m = request'[n]
      BY <2>2, SentStep
    <3>2. \E y \in LogLinks(n) : x[1] = y[1] /\ x[2] = y[2] /\ (torn' \/ x[3] = y[3])
      BY <1>3, <3>1, SentLinks
    <3>3. LogLinks(n) \subseteq Links
      BY DEF Links
    <3>4. QED
      BY <3>2, <3>3
  <2>3. QED
    BY <2>1, <2>2
<1>4. \/ \E n \in Node : \E i \in 1..Len(log'[n]) :
            x = <<i, log'[n][i], TermAt(log'[n], i - 1)>>
      \/ \E m \in Sent' : x \in RequestLinks(m)
  BY DEF Links, LogLinks
<1> HIDE DEF Old, New
<1>5. QED
  BY <1>2, <1>3, <1>4

(* A step makes one leader, a node that stood in the term it is in, or none; *)
(* and a node comes to stand only in a term it was not in.                   *)
LEMMA RoleStep ==
  ASSUME TypeOK, TickerInv, [Next]_vars
  PROVE  \/ /\ elected' = elected
            /\ \A k \in Node : role'[k] = "CANDIDATE" =>
                  \/ role[k] = "CANDIDATE" /\ currentTerm'[k] = currentTerm[k]
                  \/ currentTerm'[k] > currentTerm[k]
            /\ \A k \in Node : role'[k] = "LEADER" => role[k] = "LEADER"
         \/ \E n \in Node :
               /\ role[n] = "CANDIDATE"
               /\ elected' = elected \cup {<<currentTerm[n], n>>}
               /\ role' = [role EXCEPT ![n] = "LEADER"]
               /\ UNCHANGED <<currentTerm, log, request, late, torn>>
<1> DEFINE Quiet == /\ elected' = elected
                    /\ \A k \in Node : role'[k] = "CANDIDATE" =>
                          \/ role[k] = "CANDIDATE" /\ currentTerm'[k] = currentTerm[k]
                          \/ currentTerm'[k] > currentTerm[k]
                    /\ \A k \in Node : role'[k] = "LEADER" => role[k] = "LEADER"
           Made == \E n \in Node :
                      /\ role[n] = "CANDIDATE"
                      /\ elected' = elected \cup {<<currentTerm[n], n>>}
                      /\ role' = [role EXCEPT ![n] = "LEADER"]
                      /\ UNCHANGED <<currentTerm, log, request, late, torn>>
<1> SUFFICES Quiet \/ Made
  OBVIOUS
<1>0. \A k \in Node : currentTerm[k] \in Nat
  BY DEF TypeOK
<1>1. ASSUME UNCHANGED <<elected, role, currentTerm>>
      PROVE  Quiet
  BY <1>1
<1>2. ASSUME NEW m \in Request, Handle(m)
      PROVE  Quiet
  <2>0. m.to \in Node /\ m.term \in Nat
    BY DEF Request, VoteRequest, AppendRequest
  <2>1. elected' = elected
    BY <1>2 DEF Handle
  <2>2. \A k \in Node \ {m.to} : role'[k] = role[k] /\ currentTerm'[k] = currentTerm[k]
    BY <1>2 DEF Handle, HandleRequestVote, HandleAppendEntries, TypeOK
  <2>3. /\ currentTerm'[m.to] = IF Newer(m) THEN m.term ELSE currentTerm[m.to]
        /\ Newer(m) => role'[m.to] = "FOLLOWER"
        /\ role'[m.to] \in {role[m.to], "FOLLOWER"}
    BY <1>2, <2>0 DEF Handle, HandleRequestVote, HandleAppendEntries, RoleAfterAppend, TypeOK
  <2>4. QED
    BY <2>1, <2>2, <2>3
<1>3. ASSUME NEW n \in Node, StartElection(n)
      PROVE  Quiet
  <2>1. /\ elected' = elected
        /\ role'[n] = "CANDIDATE" /\ currentTerm'[n] = currentTerm[n] + 1
        /\ \A k \in Node \ {n} : role'[k] = role[k] /\ currentTerm'[k] = currentTerm[k]
    BY <1>3 DEF StartElection, TypeOK
  <2>2. QED
    BY <1>0, <2>1
<1>4. ASSUME NEW n \in Node, NEW t, StepDown(n, t), elected' = elected
      PROVE  Quiet
  <2>1. /\ role'[n] = "FOLLOWER"
        /\ \A k \in Node \ {n} : role'[k] = role[k] /\ currentTerm'[k] = currentTerm[k]
    BY <1>4 DEF StepDown, TypeOK
  <2>2. QED
    BY <1>4, <2>1
<1>5. ASSUME NEW n \in Node, RequestVoteReturns(n) \/ AppendEntriesReturns(n)
      PROVE  Quiet
  <2>1. elected' = elected
    BY <1>5 DEF RequestVoteReturns, AppendEntriesReturns
  <2>2. StepDown(n, answer[n].term) \/ UNCHANGED <<role, currentTerm>>
    BY <1>5 DEF RequestVoteReturns, AppendEntriesReturns
  <2>3. QED
    BY <1>1, <1>4, <2>1, <2>2
<1>6. ASSUME NEW n \in Node, BecomeLeader(n)
      PROVE  Quiet \/ Made
  <2>1. UNCHANGED <<currentTerm, log, request, late, torn>>
    BY <1>6 DEF BecomeLeader, persistent, rpc
  <2>2. CASE ~StillCandidate(n)
    <3>1. UNCHANGED <<elected, role>>
      BY <1>6, <2>2 DEF BecomeLeader
    <3>2. QED
      BY <1>1, <2>1, <3>1
  <2>3. CASE StillCandidate(n)
    <3>1. /\ role[n] = "CANDIDATE"
          /\ elected' = elected \cup {<<currentTerm[n], n>>}
          /\ role' = [role EXCEPT ![n] = "LEADER"]
      BY <1>6, <2>3 DEF BecomeLeader, StillCandidate
    <3>2. Made
      BY <2>1, <3>1
    <3>3. QED
      BY <3>2
  <2>4. QED
    BY <2>2, <2>3
<1>7. ASSUME NEW n \in Node, Restart(n) \/ CrashBetweenSaves(n)
      PROVE  Quiet
  <2>1. /\ elected' = elected /\ role'[n] = "FOLLOWER"
        /\ \A k \in Node \ {n} : role'[k] = role[k]
    BY <1>7 DEF Restart, CrashBetweenSaves, Reset, TypeOK
  <2>2. \A k \in Node \ {n} : currentTerm'[k] = currentTerm[k]
    BY <1>7 DEF Restart, CrashBetweenSaves, TypeOK
  <2>3. QED
    BY <2>1, <2>2
<1>8. ASSUME NEW n \in Node,
             \/ StartReplicate(n) \/ SendAppendEntries(n)
             \/ AppendCallFails(n) \/ AnswerLost(n)
             \/ \E p \in Node : VoteCallFails(n, p) \/ ReadPrevTerm(n, p)
             \/ \E c \in Command : Propose(n, c)
      PROVE  UNCHANGED <<elected, role, currentTerm>>
  BY <1>8 DEF StartReplicate, SendAppendEntries, AppendCallFails, AnswerLost,
      VoteCallFails, ReadPrevTerm, Propose, persistent
<1>9. ASSUME NEW n \in Node, NEW p \in Node, DeliverVote(n, p)
      PROVE  \E m \in Request : Handle(m)
  <2>1. VoteRequestTo(n, p) \in Request
    BY DEF VoteRequestTo, VoteRequest, Request, TypeOK, Locals
  <2>2. QED
    BY <1>9, <2>1 DEF DeliverVote
<1>10. ASSUME \/ \E n \in Node : DeliverAppend(n)
              \/ \E m \in late : DeliverLate(m)
       PROVE  \E m \in Request : Handle(m)
  BY <1>10 DEF DeliverAppend, DeliverLate, TypeOK
<1>11. CASE UNCHANGED vars
  BY <1>1, <1>11 DEF vars, persistent
<1>12. QED
  <2> HIDE DEF Quiet, Made
  <2>1. QED
    BY <1>1, <1>2, <1>3, <1>5, <1>6, <1>7, <1>8, <1>9, <1>10, <1>11
       DEF Next

(* A leader's step leaves its log at least as long.                          *)
LEMMA LeaderLogGrows ==
  ASSUME Cardinality(Node) % 2 = 1, IInv, [Next]_vars,
         NEW k \in Node, role[k] = "LEADER", role'[k] = "LEADER"
  PROVE  Len(log[k]) \in Nat /\ Len(log'[k]) \in Nat /\ Len(log'[k]) >= Len(log[k])
<1>1. log[k] \in Seq(LogEntry) /\ Len(log[k]) \in Nat
  BY LenProperties DEF IInv, TypeOK
<1>2. log'[k] = log[k] \/ \E e \in LogEntry : log'[k] = Append(log[k], e)
  BY LeaderStep
<1>3. QED
  BY <1>1, <1>2, AppendProperties

(* The index of an entry is a number.                                        *)
LEMMA LinkIndex ==
  ASSUME TypeOK, TickerInv, NEW x \in Links
  PROVE  x[1] \in Nat
<1>1. ASSUME NEW n \in Node, x \in LogLinks(n)
      PROVE  x[1] \in Nat
  BY <1>1, LenProperties DEF LogLinks
<1>2. ASSUME NEW m \in Sent, x \in RequestLinks(m)
      PROVE  x[1] \in Nat
  <2>1. m.prevIndex \in Nat
    BY SentType DEF AppendRequest
  <2>2. PICK i \in 1..Len(m.entries) : x[1] = m.prevIndex + i
    BY <1>2 DEF RequestLinks
  <2>3. QED
    BY <2>1, <2>2
<1>3. QED
  BY <1>1, <1>2 DEF Links

(* Once a request is of two logs the history says so for ever.               *)
LEMMA TornStays ==
  ASSUME [Next]_vars, torn
  PROVE  torn'
<1>1. ASSUME NEW n \in Node,
             \/ StartElection(n) \/ RequestVoteReturns(n) \/ BecomeLeader(n)
             \/ StartReplicate(n) \/ AppendEntriesReturns(n)
             \/ AppendCallFails(n) \/ AnswerLost(n)
             \/ \E p \in Node : VoteCallFails(n, p) \/ ReadPrevTerm(n, p)
             \/ \E c \in Command : Propose(n, c)
      PROVE  torn' = torn
  <2>1. CASE StartElection(n) \/ BecomeLeader(n) \/ StartReplicate(n)
    BY <2>1 DEF StartElection, BecomeLeader, StartReplicate
  <2>2. CASE RequestVoteReturns(n) \/ AppendEntriesReturns(n)
    BY <2>2 DEF RequestVoteReturns, AppendEntriesReturns
  <2>3. CASE AppendCallFails(n) \/ AnswerLost(n) \/ \E c \in Command : Propose(n, c)
    BY <2>3 DEF AppendCallFails, AnswerLost, Propose
  <2>4. CASE \E p \in Node : VoteCallFails(n, p) \/ ReadPrevTerm(n, p)
    BY <2>4 DEF VoteCallFails, ReadPrevTerm
  <2>5. QED
    BY <1>1, <2>1, <2>2, <2>3, <2>4
<1>2. ASSUME NEW n \in Node, SendAppendEntries(n)
      PROVE  torn'
  BY <1>2 DEF SendAppendEntries
<1>3. ASSUME \/ \E n \in Node : DeliverAppend(n) \/ \E p \in Node : DeliverVote(n, p)
             \/ \E m \in late : DeliverLate(m)
      PROVE  torn' = torn
  BY <1>3 DEF DeliverAppend, DeliverVote, DeliverLate, Handle
<1>4. ASSUME NEW n \in Node, Restart(n) \/ CrashBetweenSaves(n)
      PROVE  torn' = torn
  BY <1>4 DEF Restart, CrashBetweenSaves, Reset
<1>5. CASE UNCHANGED vars
  BY <1>5 DEF vars
<1>6. QED
  BY <1>1, <1>2, <1>3, <1>4, <1>5 DEF Next

(* Entries keep agreeing: the one entry a step makes is a leader's, at an    *)
(* index its term has not reached, and no other node has had that term.      *)
LEMMA EntriesStep ==
  ASSUME Cardinality(Node) % 2 = 1, IInv, IInv', ElectionSafety, ElectionSafety',
         EntriesInv, [Next]_vars
  PROVE  EntriesInv'
<1> DEFINE Old(x) == \E y \in Links : x[1] = y[1] /\ x[2] = y[2] /\ (torn' \/ x[3] = y[3])
           New(x, n, c) == /\ Propose(n, c)
                           /\ x[1] = Len(log[n]) + 1
                           /\ x[2] = [term |-> currentTerm[n], command |-> c]
                           /\ x[3] = TermAt(log[n], Len(log[n]))
<1>1. /\ TypeOK /\ TypeOK' /\ TickerInv /\ PrevInv
      /\ LinksAgree /\ TermsElected /\ LeaderAhead /\ ElectedOnce
  BY DEF EntriesInv, IInv
<1>2. DiskStep
  BY <1>1, DiskStepHolds
<1>3. ASSUME NEW x \in Links'
      PROVE  Old(x) \/ \E n \in Node, c \in Command : New(x, n, c)
  BY <1>1, <1>3, LinksStep
<1>4. ASSUME NEW n \in Node, NEW c \in Command, Propose(n, c)
      PROVE  /\ role[n] = "LEADER" /\ <<currentTerm[n], n>> \in elected
             /\ Len(log[n]) \in Nat /\ Len(log'[n]) = Len(log[n]) + 1
             /\ UNCHANGED <<currentTerm, elected, role>>
  <2>1. /\ role[n] = "LEADER" /\ UNCHANGED <<currentTerm, elected, role>>
        /\ log[n] \in Seq(LogEntry)
        /\ log'[n] = Append(log[n], [term |-> currentTerm[n], command |-> c])
        /\ [term |-> currentTerm[n], command |-> c] \in LogEntry
    BY <1>1, <1>4 DEF Propose, TypeOK, LogEntry
  <2>2. <<currentTerm[n], n>> \in elected
    BY <2>1 DEF IInv, LeadOK
  <2>3. QED
    BY <2>1, <2>2, LenProperties, AppendProperties
<1>5. LinksAgree'
  <2>1. SUFFICES ASSUME NEW x \in Links', NEW y \in Links'
                 PROVE  Agree(x, y)'
    BY DEF LinksAgree
  <2>2. torn => torn'
    BY TornStays
  <2>3. CASE Old(x) /\ Old(y)
    <3>1. PICK u \in Links : x[1] = u[1] /\ x[2] = u[2] /\ (torn' \/ x[3] = u[3])
      BY <2>3
    <3>2. PICK v \in Links : y[1] = v[1] /\ y[2] = v[2] /\ (torn' \/ y[3] = v[3])
      BY <2>3
    <3>3. Agree(u, v)
      BY <1>1 DEF LinksAgree
    <3>4. QED
      BY <2>2, <3>1, <3>2, <3>3 DEF Agree
  <2>4. ASSUME NEW z \in Links', NEW w \in Links', Old(z),
               NEW n \in Node, NEW c \in Command, New(w, n, c)
        PROVE  z[1] # w[1] \/ z[2].term # w[2].term
    <3>1. SUFFICES ASSUME z[2].term = w[2].term
                   PROVE  z[1] # w[1]
      OBVIOUS
    <3>2. PICK u \in Links : z[1] = u[1] /\ z[2] = u[2]
      BY <2>4
    <3>3. u[2].term = currentTerm[n]
      BY <2>4, <3>1, <3>2
    <3>4. role[n] = "LEADER" /\ Len(log[n]) \in Nat
      BY <1>4, <2>4
    <3>5. u[1] <= Len(log[n])
      BY <1>1, <3>3, <3>4 DEF LeaderAhead
    <3>6. QED
      BY <2>4, <3>2, <3>4, <3>5
  <2>5. ASSUME NEW n \in Node, NEW c \in Command, New(x, n, c),
               NEW k \in Node, NEW d \in Command, New(y, k, d)
        PROVE  Agree(x, y)'
    <3>1. n = k /\ log'[n] = Append(log[n], [term |-> currentTerm[n], command |-> c])
      <4>1. n = k
        <5>1. Len(log'[k]) # Len(log[k])
          <6>1. Len(log[k]) \in Nat /\ Len(log'[k]) = Len(log[k]) + 1
            BY <1>4, <2>5
          <6>2. QED
            BY <6>1
        <5>2. n # k => log'[k] = log[k]
          BY <1>1, <2>5 DEF Propose, TypeOK
        <5>3. QED
          BY <5>1, <5>2
      <4>2. QED
        BY <1>1, <2>5, <4>1 DEF Propose, TypeOK
    <3>2. log'[n] = Append(log[n], [term |-> currentTerm[n], command |-> d])
      BY <1>1, <2>5, <3>1 DEF Propose, TypeOK
    <3>3. c = d
      <4> DEFINE e == [term |-> currentTerm[n], command |-> c]
                 f == [term |-> currentTerm[n], command |-> d]
      <4>1. e \in LogEntry /\ f \in LogEntry /\ log[n] \in Seq(LogEntry)
        BY <1>1 DEF TypeOK, LogEntry
      <4>2. Append(log[n], e) = Append(log[n], f)
        BY <3>1, <3>2
      <4> HIDE DEF e, f
      <4>3. e = f
        BY <4>1, <4>2, LenProperties, AppendProperties
      <4>4. e.command = f.command
        BY <4>3
      <4>5. QED
        BY <4>4 DEF e, f
    <3>4. QED
      BY <2>5, <3>1, <3>3 DEF Agree
  <2> HIDE DEF Old, New
  <2>6. CASE Old(x) /\ ~Old(y)
    <3>1. PICK n \in Node, c \in Command : New(y, n, c)
      BY <1>3, <2>6
    <3>2. QED
      BY <2>4, <2>6, <3>1 DEF Agree
  <2>7. CASE ~Old(x) /\ Old(y)
    <3>1. PICK n \in Node, c \in Command : New(x, n, c)
      BY <1>3, <2>7
    <3>2. QED
      BY <2>4, <2>7, <3>1 DEF Agree
  <2>8. CASE ~Old(x) /\ ~Old(y)
    <3>1. PICK n \in Node, c \in Command : New(x, n, c)
      BY <1>3, <2>8
    <3>2. PICK k \in Node, d \in Command : New(y, k, d)
      BY <1>3, <2>8
    <3>3. QED
      BY <2>5, <3>1, <3>2
  <2>9. QED
    BY <2>3, <2>6, <2>7, <2>8
<1>6. TermsElected'
  <2>1. SUFFICES ASSUME NEW x \in Links'
                 PROVE  \E l \in Node : <<x[2].term, l>> \in elected'
    BY DEF TermsElected
  <2>2. elected \subseteq elected'
    BY <1>2 DEF DiskStep
  <2>3. CASE Old(x)
    <3>1. PICK y \in Links : x[2] = y[2]
      BY <2>3
    <3>2. QED
      BY <1>1, <2>2, <3>1 DEF TermsElected
  <2>4. ASSUME NEW n \in Node, NEW c \in Command, New(x, n, c)
        PROVE  <<x[2].term, n>> \in elected'
    <3>1. x[2].term = currentTerm[n] /\ <<currentTerm[n], n>> \in elected
      BY <1>4, <2>4
    <3>2. QED
      BY <2>2, <3>1
  <2> HIDE DEF Old, New
  <2>5. QED
    BY <1>3, <2>3, <2>4
<1>7. LeaderAhead'
  <2>1. SUFFICES ASSUME NEW n \in Node, role'[n] = "LEADER",
                        NEW x \in Links', x[2].term = currentTerm'[n]
                 PROVE  x[1] <= Len(log'[n])
    BY DEF LeaderAhead
  <2>2. currentTerm'[n] = currentTerm[n]
    BY <1>2, <2>1 DEF DiskStep
  <2>3. CASE Old(x) /\ role[n] = "LEADER"
    <3>1. PICK y \in Links : x[1] = y[1] /\ x[2] = y[2]
      BY <2>3
    <3>2. y[1] <= Len(log[n])
      BY <1>1, <2>1, <2>2, <2>3, <3>1 DEF LeaderAhead
    <3>3. y[1] \in Int
      BY <1>1, LinkIndex
    <3>4. Len(log[n]) \in Nat /\ Len(log'[n]) \in Nat /\ Len(log'[n]) >= Len(log[n])
      BY <2>1, <2>3, LeaderLogGrows
    <3>5. QED
      BY <3>1, <3>2, <3>3, <3>4
  <2>4. CASE Old(x) /\ role[n] # "LEADER"
    <3>1. /\ role[n] = "CANDIDATE"
          /\ elected' = elected \cup {<<currentTerm[n], n>>}
      <4>1. PICK k \in Node : /\ role[k] = "CANDIDATE"
                              /\ elected' = elected \cup {<<currentTerm[k], k>>}
                              /\ role' = [role EXCEPT ![k] = "LEADER"]
        BY <1>1, <2>1, <2>4, RoleStep
      <4>2. k = n
        BY <1>1, <2>1, <2>4, <4>1 DEF TypeOK
      <4>3. QED
        BY <4>1, <4>2
    <3>2. PICK y \in Links : x[2] = y[2]
      BY <2>4
    <3>3. PICK l \in Node : <<y[2].term, l>> \in elected
      BY <1>1 DEF TermsElected
    <3>4. <<currentTerm[n], l>> \in elected' /\ <<currentTerm[n], n>> \in elected'
      BY <2>1, <2>2, <3>1, <3>2, <3>3
    <3>5. l = n
      BY <3>4 DEF ElectionSafety
    <3>6. <<currentTerm[n], n>> \in elected
      BY <2>1, <2>2, <3>2, <3>3, <3>5
    <3>7. QED
      BY <1>1, <3>1, <3>6 DEF ElectedOnce
  <2>5. ASSUME NEW k \in Node, NEW c \in Command, New(x, k, c)
        PROVE  x[1] <= Len(log'[n])
    <3>1. /\ <<currentTerm[k], k>> \in elected /\ role' = role
          /\ Len(log[k]) \in Nat /\ Len(log'[k]) = Len(log[k]) + 1
      BY <1>4, <2>5
    <3>2. x[2].term = currentTerm[k]
      BY <2>5
    <3>3. <<currentTerm[n], n>> \in elected
      BY <2>1, <3>1 DEF IInv, LeadOK
    <3>4. k = n
      BY <2>1, <2>2, <3>1, <3>2, <3>3 DEF ElectionSafety
    <3>5. QED
      BY <2>5, <3>1, <3>4
  <2> HIDE DEF Old, New
  <2>6. QED
    BY <1>3, <2>3, <2>4, <2>5
<1>8. ElectedOnce'
  <2>1. \A k \in Node : /\ currentTerm[k] \in Nat /\ currentTerm'[k] \in Nat
                        /\ currentTerm'[k] >= currentTerm[k]
    BY <1>1, <1>2 DEF TypeOK, DiskStep
  <2>2. \A x \in elected : x[1] \in Nat /\ x[2] \in Node /\ x = <<x[1], x[2]>>
    BY <1>1 DEF TypeOK
  <2>3. CASE /\ elected' = elected
             /\ \A k \in Node : role'[k] = "CANDIDATE" =>
                   \/ role[k] = "CANDIDATE" /\ currentTerm'[k] = currentTerm[k]
                   \/ currentTerm'[k] > currentTerm[k]
    <3>1. \A x \in elected' : x[1] <= currentTerm'[x[2]]
      BY <1>1, <2>1, <2>2, <2>3 DEF ElectedOnce
    <3>2. ASSUME NEW k \in Node, role'[k] = "CANDIDATE",
                 <<currentTerm'[k], k>> \in elected'
          PROVE  FALSE
      <4>1. currentTerm'[k] <= currentTerm[k]
        BY <1>1, <2>3, <3>2 DEF ElectedOnce
      <4>2. role[k] = "CANDIDATE" /\ currentTerm'[k] = currentTerm[k]
        BY <2>1, <2>3, <3>2, <4>1
      <4>3. QED
        BY <1>1, <2>3, <3>2, <4>2 DEF ElectedOnce
    <3>3. QED
      BY <3>1, <3>2 DEF ElectedOnce
  <2>4. ASSUME NEW n \in Node, role[n] = "CANDIDATE",
               elected' = elected \cup {<<currentTerm[n], n>>},
               role' = [role EXCEPT ![n] = "LEADER"],
               currentTerm' = currentTerm
        PROVE  ElectedOnce'
    <3>1. \A x \in elected' : x[1] <= currentTerm'[x[2]]
      BY <1>1, <2>1, <2>4 DEF ElectedOnce
    <3>2. \A k \in Node : role'[k] = "CANDIDATE" => k # n /\ role[k] = "CANDIDATE"
      BY <1>1, <2>4 DEF TypeOK
    <3>3. \A k \in Node : role'[k] = "CANDIDATE" => <<currentTerm'[k], k>> \notin elected'
      BY <1>1, <2>4, <3>2 DEF ElectedOnce
    <3>4. QED
      BY <3>1, <3>3 DEF ElectedOnce
  <2>5. QED
    BY <1>1, <2>3, <2>4, RoleStep
<1>9. PrevInv'
  BY <1>1, PrevStep
<1>10. QED
  BY <1>5, <1>6, <1>7, <1>8, <1>9 DEF EntriesInv

(* At the start there are no entries and no leaders.                         *)
LEMMA EntriesInit ==
  Init => EntriesInv
<1> SUFFICES ASSUME Init PROVE EntriesInv
  OBVIOUS
<1>1. Sent = {}
  BY DEF Init, Sent
<1>2. \A n \in Node : log[n] = << >> /\ Len(log[n]) = 0
  BY DEF Init
<1>3. \A n \in Node : LogLinks(n) = {}
  BY <1>2 DEF LogLinks
<1>4. Links = {}
  BY <1>1, <1>3 DEF Links
<1>5. /\ elected = {}
      /\ \A n \in Node : role[n] = "FOLLOWER" /\ pc[n] = "tick"
  BY DEF Init
<1>6. LinksAgree /\ TermsElected /\ LeaderAhead
  BY <1>4 DEF LinksAgree, TermsElected, LeaderAhead
<1>7. ElectedOnce /\ PrevInv
  BY <1>1, <1>5 DEF ElectedOnce, PrevInv
<1>8. QED
  BY <1>6, <1>7 DEF EntriesInv

(* Where two logs have entries of one term, and one term before them, they   *)
(* have no last index at which they differ.                                  *)
LEMMA LinkedLogsMatch ==
  ASSUME TypeOK, LinksAgree
  PROVE  LogsMatchUntilTorn
<1> SUFFICES ASSUME ~torn,
                    NEW a \in Node, NEW b \in Node,
                    NEW i \in 1..Minimum(Len(log[a]), Len(log[b])),
                    log[a][i].term = log[b][i].term
             PROVE  SubSeq(log[a], 1, i) = SubSeq(log[b], 1, i)
  BY DEF LogsMatchUntilTorn, LogMatching
<1>1. /\ log[a] \in Seq(LogEntry) /\ log[b] \in Seq(LogEntry)
      /\ Len(log[a]) \in Nat /\ Len(log[b]) \in Nat
  BY LenProperties DEF TypeOK
<1>2. i \in Nat /\ 1 <= i /\ i <= Len(log[a]) /\ i <= Len(log[b])
  BY <1>1 DEF Minimum
<1>3. ASSUME NEW j \in 1..i, log[a][j].term = log[b][j].term
      PROVE  log[a][j] = log[b][j] /\ TermAt(log[a], j - 1) = TermAt(log[b], j - 1)
  <2> DEFINE x == <<j, log[a][j], TermAt(log[a], j - 1)>>
             y == <<j, log[b][j], TermAt(log[b], j - 1)>>
  <2>1. j \in 1..Len(log[a]) /\ j \in 1..Len(log[b])
    BY <1>1, <1>2
  <2>2. x \in Links /\ y \in Links
    BY <2>1 DEF Links, LogLinks
  <2>3. Agree(x, y)
    BY <2>2 DEF LinksAgree
  <2>4. QED
    BY <1>3, <2>3 DEF Agree
<1> DEFINE D == {j \in 0..i : j >= 1 /\ log[a][j].term # log[b][j].term}
<1>4. D = {}
  <2>1. SUFFICES ASSUME D # {}
                 PROVE  FALSE
    OBVIOUS
  <2>2. PICK d \in D : \A j \in D : j <= d
    <3>1. D \in SUBSET (0..i)
      OBVIOUS
    <3> HIDE DEF D
    <3>2. QED
      BY <1>2, <2>1, <3>1, GreatestExists
  <2>3. d \in Nat /\ d >= 1 /\ d <= i /\ log[a][d].term # log[b][d].term
    BY <1>2
  <2>4. d # i
    BY <2>3
  <2>5. d + 1 \in 1..i /\ d + 1 \notin D
    BY <1>2, <2>2, <2>3, <2>4
  <2>6. log[a][d + 1].term = log[b][d + 1].term
    BY <1>2, <2>5
  <2>7. TermAt(log[a], (d + 1) - 1) = TermAt(log[b], (d + 1) - 1)
    BY <1>3, <2>5, <2>6
  <2>8. (d + 1) - 1 = d /\ d \in 1..Len(log[a]) /\ d \in 1..Len(log[b])
    BY <1>1, <1>2, <2>3
  <2>9. QED
    BY <2>3, <2>7, <2>8 DEF TermAt
<1>5. ASSUME NEW j \in 1..i
      PROVE  log[a][j] = log[b][j]
  <2>1. j \in 0..i /\ j >= 1
    BY <1>2
  <2>2. log[a][j].term = log[b][j].term
    BY <1>4, <2>1
  <2>3. QED
    BY <1>3, <2>2
<1>6. \A j \in 1..i : log[a][j] \in LogEntry /\ log[b][j] \in LogEntry
  <2>1. \A j \in 1..i : j \in 1..Len(log[a]) /\ j \in 1..Len(log[b])
    BY <1>1, <1>2
  <2>2. QED
    BY <1>1, <2>1, ElementOfSeq
<1>7. /\ SubSeq(log[a], 1, i) \in Seq(LogEntry) /\ Len(SubSeq(log[a], 1, i)) = i
      /\ \A j \in 1..i : SubSeq(log[a], 1, i)[j] = log[a][j]
      /\ SubSeq(log[b], 1, i) \in Seq(LogEntry) /\ Len(SubSeq(log[b], 1, i)) = i
      /\ \A j \in 1..i : SubSeq(log[b], 1, i)[j] = log[b][j]
  BY <1>1, <1>2, <1>6, SubSeqProperties
<1>8. QED
  BY <1>5, <1>7, SeqEqual

(* The invariants of elections and of entries hold together.                 *)
LEMMA EntriesHold ==
  ASSUME Cardinality(Node) % 2 = 1
  PROVE  Spec => [](IInv /\ EntriesInv)
<1>1. IInv => ElectionSafety
  BY OneLeader
<1>2. ASSUME IInv, IInv', ElectionSafety, ElectionSafety', EntriesInv, [Next]_vars
      PROVE  EntriesInv'
  BY <1>2, EntriesStep
<1>3. QED
  BY <1>1, <1>2, EntriesInit, IInvInductive, PTL DEF Spec

(* In a cluster of odd size there is one entry for an index and a term, in   *)
(* the logs, in the requests on their way and in those that outlive their    *)
(* caller, even when an AppendEntries was put together of two logs.          *)
THEOREM OneEntryPerTerm ==
  ASSUME Cardinality(Node) % 2 = 1
  PROVE  Spec => [](\A x, y \in Links :
                       x[1] = y[1] /\ x[2].term = y[2].term => x[2] = y[2])
<1>1. EntriesInv => (\A x, y \in Links :
                        x[1] = y[1] /\ x[2].term = y[2].term => x[2] = y[2])
  BY DEF EntriesInv, LinksAgree, Agree
<1>2. QED
  BY <1>1, EntriesHold, PTL

(* Log Matching: in a cluster of odd size logs that hold an entry of the     *)
(* same term at an index agree up to it, as long as every AppendEntries took *)
(* its prev_term and its entries from one log; both reads are made without   *)
(* the node lock (node.py:326-327).                                          *)
THEOREM LogsMatch ==
  ASSUME Cardinality(Node) % 2 = 1
  PROVE  Spec => []LogsMatchUntilTorn
<1>1. IInv /\ EntriesInv => LogsMatchUntilTorn
  BY LinkedLogsMatch DEF IInv, EntriesInv
<1>2. QED
  BY <1>1, EntriesHold, PTL

-----------------------------------------------------------------------------
(* One leader: as long as no second node is elected *)

(* Every leader so far was l.                                                *)
Led(l) == \A x \in elected : x[2] = l

Follows(a, b) == Len(a) <= Len(b) /\ \A i \in 1..Len(a) : a[i] = b[i]

(* The request holds a slice of lg and the term before it.                   *)
SliceOf(m, lg) ==
    /\ m.prevIndex + Len(m.entries) <= Len(lg)
    /\ m.prevTerm = TermAt(lg, m.prevIndex)
    /\ \A i \in 1..Len(m.entries) : m.entries[i] = lg[m.prevIndex + i]

(* A quorum of the logs reaches c.                                           *)
Reaching(c) == {p \in Node : Len(log[p]) >= c}
OnQuorum(c) == Cardinality(Reaching(c)) >= QuorumSize

LogsFollow(l) == \A p \in Node : Follows(log[p], log[l])

RequestsFollow(l) == \A m \in Sent : SliceOf(m, log[l]) /\ OnQuorum(m.commit)

(* What a replication round has read is still so when it sends.              *)
ReadsFollow(l) ==
    /\ \A p \in Node : nextIndex[l][p] <= Len(log[l]) + 1
    /\ pc[l] \in {"replicate", "entries"} =>
          /\ OnQuorum(local[l].commit)
          /\ \A p \in Node : local[l].next[p] <= Len(log[l]) + 1
    /\ pc[l] = "entries" =>
          local[l].prevTerm = TermAt(log[l], local[l].next[local[l].peer] - 1)

(* No follower has less than it is counted for.                              *)
MatchesHold(l) ==
    /\ \A p \in Node : matchIndex[l][p] <= Len(log[p])
    /\ answer[l] # Nil /\ pc[l] = "replicate" =>
          answer[l].match <= Len(log[request[l].to])

CommitsHold == \A p \in Node : commitIndex[p] <= Len(log[p]) /\ OnQuorum(commitIndex[p])

LeaderInv(l) == /\ LogsFollow(l)
                /\ RequestsFollow(l)
                /\ ReadsFollow(l)
                /\ MatchesHold(l)
                /\ CommitsHold

(* What a handler leaves follows the leader's log and goes no less far, when *)
(* the old log and the request do: nothing conflicts.                        *)
LEMMA MergedFollows ==
  ASSUME TypeOK, NEW m \in AppendRequest, NEW lg \in Seq(LogEntry),
         Follows(log[m.to], lg), SliceOf(m, lg)
  PROVE  Follows(log[m.to], MergedLog(m)) /\ Follows(MergedLog(m), lg)
<1> DEFINE old == log[m.to]
           prev == m.prevIndex
           es == m.entries
           r == MergedLog(m)
<1>1. /\ prev \in Nat /\ es \in Seq(LogEntry) /\ old \in Seq(LogEntry)
      /\ Len(old) \in Nat /\ Len(es) \in Nat /\ Len(lg) \in Nat
  BY LenProperties DEF TypeOK, AppendRequest
<1>2. /\ Len(old) <= Len(lg) /\ \A i \in 1..Len(old) : old[i] = lg[i]
      /\ prev + Len(es) <= Len(lg) /\ \A i \in 1..Len(es) : es[i] = lg[prev + i]
      /\ m.prevTerm = TermAt(lg, prev)
  BY DEF Follows, SliceOf
<1> SUFFICES Follows(old, r) /\ Follows(r, lg)
  OBVIOUS
<1>3. ~Conflicts(m)
  <2>1. SUFFICES ASSUME Conflicts(m) PROVE FALSE
    OBVIOUS
  <2>2. prev \in 1..Len(old) /\ prev \in 1..Len(lg)
    BY <1>1, <1>2, <2>1 DEF Conflicts, LastIndex
  <2>3. TermAt(old, prev) # m.prevTerm
    BY <2>1 DEF Conflicts
  <2>4. TermAt(old, prev) = TermAt(lg, prev)
    BY <1>2, <2>2 DEF TermAt
  <2>5. QED
    BY <1>2, <2>3, <2>4
<1>4. CASE r = old
  BY <1>1, <1>2, <1>4 DEF Follows
<1>5. CASE r # old
  <2>1. Consistent(m) /\ r = Merge(old, prev, es) /\ prev <= Len(old)
    <3>1. Consistent(m)
      BY <1>3, <1>5 DEF MergedLog
    <3>2. QED
      BY <1>1, <3>1 DEF MergedLog, Consistent, TooShort, LastIndex
  <2> HIDE DEF old, prev, es, r
  <2>2. PICK i \in 1..Len(es) :
               /\ prev + i - 1 <= Len(old)
               /\ prev + i > Len(old) \/ old[prev + i].term # es[i].term
               /\ Len(r) = prev + Len(es)
               /\ \A k \in 1..(prev + i - 1) : r[k] = old[k]
               /\ \A k \in i..Len(es) : r[prev + k] = es[k]
    <3>1. prev \in 0..Len(old)
      BY <1>1, <2>1
    <3>2. \/ Merge(old, prev, es) = old
          \/ \E i \in 1..Len(es) :
               /\ prev + i - 1 <= Len(old)
               /\ prev + i > Len(old) \/ old[prev + i].term # es[i].term
               /\ Len(Merge(old, prev, es)) = prev + Len(es)
               /\ \A k \in 1..(prev + i - 1) : Merge(old, prev, es)[k] = old[k]
               /\ \A k \in i..Len(es) : Merge(old, prev, es)[prev + k] = es[k]
      BY <1>1, <3>1, MergeShape
    <3>3. QED
      BY <1>5, <2>1, <3>2
  <2>3. i \in Nat /\ 1 <= i /\ i <= Len(es)
    BY <1>1, <2>2
  <2>4. prev + i - 1 = Len(old)
    <3>1. prev + i > Len(old)
      <4>1. SUFFICES ASSUME prev + i <= Len(old)
                     PROVE  old[prev + i].term = es[i].term
        BY <1>1, <2>2, <2>3
      <4>2. prev + i \in 1..Len(old)
        BY <1>1, <2>3, <4>1
      <4>3. QED
        BY <1>2, <2>2, <4>2
    <3>2. QED
      BY <1>1, <2>2, <2>3, <3>1
  <2>5. Follows(old, r)
    BY <1>1, <2>2, <2>3, <2>4 DEF Follows
  <2>6. ASSUME NEW k \in 1..Len(r)
        PROVE  r[k] = lg[k]
    <3>1. k \in Nat /\ 1 <= k /\ k <= prev + Len(es)
      BY <1>1, <2>2
    <3>2. CASE k <= Len(old)
      BY <1>1, <1>2, <2>2, <2>4, <3>1, <3>2
    <3>3. CASE k > Len(old)
      <4>1. k - prev \in i..Len(es) /\ k - prev \in 1..Len(es) /\ prev + (k - prev) = k
        BY <1>1, <2>3, <2>4, <3>1, <3>3
      <4>2. r[k] = es[k - prev] /\ es[k - prev] = lg[k]
        BY <1>2, <2>2, <4>1
      <4>3. QED
        BY <4>2
    <3>4. QED
      BY <1>1, <3>1, <3>2, <3>3
  <2>7. QED
    BY <1>1, <1>2, <2>2, <2>5, <2>6 DEF Follows
<1>6. QED
  BY <1>4, <1>5

(* Nobody but the one leader leads, replicates or is heard of.               *)
LEMMA OnlyLeader ==
  ASSUME IInv, NEW l \in Node, Led(l)
  PROVE  /\ \A n \in Node : role[n] = "LEADER" => n = l
         /\ \A n \in Node : pc[n] \in {"replicate", "entries"} => n = l
         /\ \A n \in Node : request[n] # Nil => n = l
         /\ \A m \in Sent : m.from = l /\ m.to # l
<1>1. \A n \in Node : LeadOK(n) /\ TickerOK(n)
  BY DEF IInv, TickerInv
<1>2. \A n \in Node : role[n] = "LEADER" => n = l
  BY <1>1 DEF LeadOK, Led
<1>3. \A n \in Node : pc[n] \in {"replicate", "entries"} => n = l
  BY <1>1 DEF LeadOK, Led
<1>4. \A n \in Node : request[n] # Nil => request[n].from = n /\ request[n].to # n /\ n = l
  BY <1>1 DEF LeadOK, Led, TickerOK
<1>5. \A m \in late : m.type = "AppendEntries" => m.from = l /\ m.from # m.to
  BY DEF IInv, LateInv, TickerInv, Led
<1>6. \A m \in Sent : m.from = l /\ m.to # l
  BY <1>4, <1>5 DEF Sent
<1>7. QED
  BY <1>2, <1>3, <1>4, <1>6

(* No log loses or changes an entry, and they all follow the leader's still. *)
LEMMA LogsGrow ==
  ASSUME IInv, NEW l \in Node, Led(l), LogsFollow(l), RequestsFollow(l), [Next]_vars
  PROVE  /\ \A p \in Node : Follows(log[p], log'[p])
         /\ LogsFollow(l)'
<1>0. TypeOK /\ TickerInv
  BY DEF IInv
<1>1. \A p \in Node : log[p] \in Seq(LogEntry) /\ Len(log[p]) \in Nat
  BY <1>0, LenProperties DEF TypeOK
<1>2. CASE log' = log
  BY <1>1, <1>2 DEF LogsFollow, Follows
<1>3. ASSUME NEW n \in Node, NEW c \in Command, Propose(n, c)
      PROVE  (\A p \in Node : Follows(log[p], log'[p])) /\ LogsFollow(l)'
  <2>1. n = l
    BY <1>3, OnlyLeader DEF Propose
  <2>2. /\ [term |-> currentTerm[l], command |-> c] \in LogEntry
        /\ log'[l] = Append(log[l], [term |-> currentTerm[l], command |-> c])
        /\ \A p \in Node : p # l => log'[p] = log[p]
    BY <1>0, <1>3, <2>1 DEF Propose, TypeOK, LogEntry
  <2>3. Len(log'[l]) = Len(log[l]) + 1 /\ \A i \in 1..Len(log[l]) : log'[l][i] = log[l][i]
    BY <1>1, <2>2, AppendProperties
  <2>4. Follows(log[l], log'[l])
    BY <1>1, <2>3 DEF Follows
  <2>5. \A p \in Node : Follows(log[p], log'[p])
    BY <1>1, <2>2, <2>4 DEF Follows
  <2>6. ASSUME NEW p \in Node
        PROVE  Follows(log'[p], log'[l])
    <3>1. CASE p = l
      BY <1>1, <2>3, <3>1 DEF Follows
    <3>2. CASE p # l
      <4>1. Follows(log[p], log[l]) /\ log'[p] = log[p]
        BY <2>2, <3>2 DEF LogsFollow
      <4>2. QED
        BY <1>1, <2>4, <4>1 DEF Follows
    <3>3. QED
      BY <3>1, <3>2
  <2>7. QED
    BY <2>5, <2>6 DEF LogsFollow
<1>4. ASSUME NEW m \in Sent, HandleAppendEntries(m)
      PROVE  (\A p \in Node : Follows(log[p], log'[p])) /\ LogsFollow(l)'
  <2>1. m \in AppendRequest /\ m.to # l /\ m.to \in Node
    BY <1>0, SentType, OnlyLeader DEF AppendRequest
  <2>2. Follows(log[m.to], log[l]) /\ SliceOf(m, log[l])
    BY <2>1 DEF LogsFollow, RequestsFollow
  <2>3. Follows(log[m.to], MergedLog(m)) /\ Follows(MergedLog(m), log[l])
    BY <1>0, <1>1, <2>1, <2>2, MergedFollows
  <2>4. /\ log'[m.to] = MergedLog(m)
        /\ \A p \in Node : p # m.to => log'[p] = log[p]
    BY <1>0, <1>4, <2>1 DEF HandleAppendEntries, TypeOK
  <2>5. \A p \in Node : Follows(log[p], log'[p])
    BY <1>1, <2>3, <2>4 DEF Follows
  <2>6. \A p \in Node : Follows(log'[p], log'[l])
    BY <2>1, <2>3, <2>4 DEF LogsFollow
  <2>7. QED
    BY <2>5, <2>6 DEF LogsFollow
<1>5. QED
  BY <1>0, <1>2, <1>3, <1>4, LogWriters

(* What a quorum of logs reaches, a quorum of longer logs reaches.           *)
LEMMA QuorumStays ==
  ASSUME TypeOK, TypeOK', \A p \in Node : Follows(log[p], log'[p]), NEW c \in Nat, OnQuorum(c)
  PROVE  OnQuorum(c)'
<1> USE NodeAssumption
<1>1. \A p \in Node : Len(log[p]) \in Nat /\ Len(log'[p]) \in Nat
  BY LenProperties DEF TypeOK
<1>2. Reaching(c) \subseteq Reaching(c)'
  BY <1>1 DEF Reaching, Follows
<1>3. Reaching(c)' \subseteq Node
  BY DEF Reaching
<1>4. /\ IsFiniteSet(Reaching(c)')
      /\ Cardinality(Reaching(c)) \in Nat /\ Cardinality(Reaching(c)') \in Nat
      /\ Cardinality(Reaching(c)) <= Cardinality(Reaching(c)')
  BY <1>2, <1>3, FS_Subset, FS_CardinalityType
<1>5. QuorumSize \in Nat
  BY FS_CardinalityType DEF QuorumSize
<1>6. QED
  BY <1>4, <1>5 DEF OnQuorum

(* A quorum that reaches c reaches what is below c; every node reaches 0.    *)
LEMMA QuorumBelow ==
  ASSUME TypeOK, NEW c \in Nat, OnQuorum(c), NEW d \in Nat, d <= c
  PROVE  OnQuorum(d)
<1> USE NodeAssumption
<1>1. \A p \in Node : Len(log[p]) \in Nat
  BY LenProperties DEF TypeOK
<1>2. Reaching(c) \subseteq Reaching(d) /\ Reaching(d) \subseteq Node
  BY <1>1 DEF Reaching
<1>3. /\ Cardinality(Reaching(c)) \in Nat /\ Cardinality(Reaching(d)) \in Nat
      /\ Cardinality(Reaching(c)) <= Cardinality(Reaching(d))
  BY <1>2, FS_Subset, FS_CardinalityType
<1>4. QuorumSize \in Nat
  BY FS_CardinalityType DEF QuorumSize
<1>5. QED
  BY <1>3, <1>4 DEF OnQuorum

LEMMA QuorumOfNone ==
  ASSUME TypeOK
  PROVE  OnQuorum(0)
<1> USE NodeAssumption
<1>1. \A p \in Node : Len(log[p]) \in Nat
  BY LenProperties DEF TypeOK
<1>2. Reaching(0) = Node
  BY <1>1 DEF Reaching
<1>3. Cardinality(Node) \in Nat
  BY FS_CardinalityType
<1>4. QED
  BY <1>2, <1>3 DEF OnQuorum, QuorumSize

(* What the actions write, by variable.                                      *)
LEMMA CommitWriters ==
  ASSUME TypeOK, TickerInv, [Next]_vars
  PROVE  \/ commitIndex' = commitIndex
         \/ \E m \in Sent : HandleAppendEntries(m)
         \/ \E n \in Node : AppendEntriesReturns(n) \/ Reset(n)
<1>1. ASSUME NEW m \in Request, Handle(m), m.type = "AppendEntries" => m \in Sent
      PROVE  commitIndex' = commitIndex \/ \E x \in Sent : HandleAppendEntries(x)
  BY <1>1 DEF Handle, HandleRequestVote, HandleAppendEntries
<1>2. ASSUME NEW n \in Node, NEW p \in Node, DeliverVote(n, p)
      PROVE  commitIndex' = commitIndex
  <2>1. HandleRequestVote(VoteRequestTo(n, p))
    BY <1>2 DEF DeliverVote, Handle, VoteRequestTo, HandleAppendEntries
  <2>2. QED
    BY <2>1 DEF HandleRequestVote
<1>3. ASSUME NEW n \in Node, DeliverAppend(n)
      PROVE  commitIndex' = commitIndex \/ \E x \in Sent : HandleAppendEntries(x)
  <2>1. request[n] \in Request /\ request[n] \in Sent /\ Handle(request[n])
    BY <1>3 DEF DeliverAppend, TypeOK, Sent
  <2>2. QED
    BY <1>1, <2>1
<1>4. ASSUME NEW m \in late, DeliverLate(m)
      PROVE  commitIndex' = commitIndex \/ \E x \in Sent : HandleAppendEntries(x)
  <2>1. m \in Request /\ Handle(m) /\ (m.type = "AppendEntries" => m \in Sent)
    BY <1>4 DEF DeliverLate, TypeOK, Sent
  <2>2. QED
    BY <1>1, <2>1
<1>5. ASSUME NEW n \in Node,
             \/ StartElection(n) \/ RequestVoteReturns(n) \/ BecomeLeader(n)
             \/ StartReplicate(n) \/ SendAppendEntries(n)
             \/ AppendCallFails(n) \/ AnswerLost(n)
             \/ \E p \in Node : VoteCallFails(n, p) \/ ReadPrevTerm(n, p)
             \/ \E c \in Command : Propose(n, c)
      PROVE  commitIndex' = commitIndex
  BY <1>5 DEF StartElection, RequestVoteReturns, BecomeLeader, StartReplicate,
      SendAppendEntries, AppendCallFails, AnswerLost, VoteCallFails, ReadPrevTerm,
      Propose
<1>6. CASE UNCHANGED vars
  BY <1>6 DEF vars
<1>7. QED
  BY <1>2, <1>3, <1>4, <1>5, <1>6 DEF Next, Restart, CrashBetweenSaves

LEMMA LeaderVarsWriters ==
  ASSUME [Next]_vars
  PROVE  \/ UNCHANGED leaderVars
         \/ \E n \in Node : \/ AppendEntriesReturns(n) \/ BecomeLeader(n) \/ Reset(n)
                            \/ \E c \in Command : Propose(n, c)
<1>1. ASSUME NEW n \in Node,
             \/ StartElection(n) \/ RequestVoteReturns(n)
             \/ StartReplicate(n) \/ SendAppendEntries(n)
             \/ AppendCallFails(n) \/ AnswerLost(n)
             \/ \E p \in Node : VoteCallFails(n, p) \/ ReadPrevTerm(n, p)
      PROVE  UNCHANGED leaderVars
  BY <1>1 DEF StartElection, RequestVoteReturns, StartReplicate, SendAppendEntries,
      AppendCallFails, AnswerLost, VoteCallFails, ReadPrevTerm
<1>2. ASSUME \/ \E n \in Node : DeliverAppend(n) \/ \E p \in Node : DeliverVote(n, p)
             \/ \E m \in late : DeliverLate(m)
      PROVE  UNCHANGED leaderVars
  BY <1>2 DEF DeliverAppend, DeliverVote, DeliverLate, Handle
<1>3. CASE UNCHANGED vars
  BY <1>3 DEF vars
<1>4. QED
  BY <1>1, <1>2, <1>3 DEF Next, Restart, CrashBetweenSaves

(* A replication round keeps the next_index and the commit index it began    *)
(* with, those its node had under the lock.                                  *)
LEMMA ReplicatingBegins ==
  ASSUME TypeOK, TickerInv, [Next]_vars, NEW n \in Node,
         pc'[n] \in {"replicate", "entries"}
  PROVE  \/ /\ pc[n] \in {"replicate", "entries"}
            /\ local'[n].next = local[n].next /\ local'[n].commit = local[n].commit
         \/ /\ log' = log
            /\ local'[n].next = nextIndex[n] /\ local'[n].commit = commitIndex[n]
<1> DEFINE Goal ==
         \/ /\ pc[n] \in {"replicate", "entries"}
            /\ local'[n].next = local[n].next /\ local'[n].commit = local[n].commit
         \/ /\ log' = log
            /\ local'[n].next = nextIndex[n] /\ local'[n].commit = commitIndex[n]
<1> SUFFICES Goal
  OBVIOUS
<1>0. local[n] \in Locals /\ TickerOK(n)
  BY DEF TypeOK, TickerInv
<1>1. ~EndPass(n)
  BY DEF EndPass, TypeOK
<1>2. ASSUME NEW loop, NEW rest, NEW granted, GoOn(n, loop, rest, granted)
      PROVE  /\ loop \in {"replicate", "entries"}
             /\ local'[n].next = local[n].next /\ local'[n].commit = local[n].commit
  <2>1. rest # {} /\ pc'[n] = loop
    BY <1>2, GoOnEffect
  <2>2. local'[n] = [local[n] EXCEPT !.peer = Nil]
    BY <1>2, <2>1 DEF GoOn, TypeOK
  <2>3. QED
    BY <1>0, <2>1, <2>2 DEF Locals
<1>3. ASSUME NEW k \in Node \ {n},
             \/ StartElection(k) \/ RequestVoteReturns(k) \/ BecomeLeader(k)
             \/ StartReplicate(k) \/ SendAppendEntries(k) \/ DeliverAppend(k)
             \/ AppendEntriesReturns(k) \/ AppendCallFails(k) \/ AnswerLost(k)
             \/ Restart(k) \/ CrashBetweenSaves(k)
             \/ \E p \in Node : \/ DeliverVote(k, p) \/ VoteCallFails(k, p)
                               \/ ReadPrevTerm(k, p)
      PROVE  Goal
  <2>1. pc'[n] = pc[n] /\ local'[n] = local[n]
    BY <1>3, OthersStand DEF Restart, CrashBetweenSaves
  <2>2. QED
    BY <2>1
<1>4. ~StartElection(n)
  BY DEF StartElection, TypeOK
<1>5. ~RequestVoteReturns(n)
  <2>1. RequestVoteReturns(n) => pc'[n] = "elected"
    BY <1>1, <1>2 DEF RequestVoteReturns, TypeOK
  <2>2. QED
    BY <2>1
<1>6. ~BecomeLeader(n) /\ ~Restart(n) /\ ~CrashBetweenSaves(n)
  <2>1. BecomeLeader(n) => pc'[n] = "assert"
    BY <1>1 DEF BecomeLeader, TypeOK
  <2>2. QED
    BY <2>1 DEF Restart, CrashBetweenSaves, Reset, TypeOK
<1>7. ASSUME NEW p \in Node, VoteCallFails(n, p)
      PROVE  Goal
  BY <1>2, <1>7 DEF VoteCallFails
<1>8. ASSUME StartReplicate(n)
      PROVE  Goal
  <2>1. /\ log' = log
        /\ local' = [local EXCEPT ![n].term = currentTerm[n], ![n].next = nextIndex[n],
                                  ![n].commit = commitIndex[n]]
    BY <1>1, <1>8 DEF StartReplicate, persistent
  <2>2. local'[n].next = nextIndex[n] /\ local'[n].commit = commitIndex[n]
    BY <1>0, <2>1 DEF TypeOK, Locals
  <2>3. QED
    BY <2>1, <2>2
<1>9. ASSUME NEW p \in Node, ReadPrevTerm(n, p)
      PROVE  Goal
  <2>1. /\ pc[n] = "replicate"
        /\ local' = [local EXCEPT ![n].peer = p,
                              ![n].prevTerm = TermAt(log[n], local[n].next[p] - 1)]
    BY <1>9 DEF ReadPrevTerm
  <2>2. local'[n].next = local[n].next /\ local'[n].commit = local[n].commit
    BY <1>0, <2>1 DEF TypeOK, Locals
  <2>3. QED
    BY <2>1, <2>2
<1>10. ASSUME SendAppendEntries(n)
       PROVE  Goal
  <2>1. /\ pc[n] = "entries"
        /\ local' = [local EXCEPT ![n].peer = Nil, ![n].prevTerm = 0]
    BY <1>10 DEF SendAppendEntries
  <2>2. local'[n].next = local[n].next /\ local'[n].commit = local[n].commit
    BY <1>0, <2>1 DEF TypeOK, Locals
  <2>3. QED
    BY <2>1, <2>2
<1>11. ASSUME AppendEntriesReturns(n) \/ AppendCallFails(n) \/ AnswerLost(n)
       PROVE  Goal
  <2>1. CASE AppendEntriesReturns(n)
    BY <1>1, <1>2, <2>1 DEF AppendEntriesReturns
  <2>2. CASE AppendCallFails(n)
    BY <1>0, <1>2, <2>2 DEF AppendCallFails, TickerOK
  <2>3. CASE AnswerLost(n)
    BY <1>2, <2>3 DEF AnswerLost
  <2>4. QED
    BY <1>11, <2>1, <2>2, <2>3
<1>12. ASSUME NEW p \in Node, DeliverVote(n, p)
       PROVE  Goal
  BY <1>12 DEF DeliverVote
<1>13. CASE \/ DeliverAppend(n)
            \/ \E k \in Node, c \in Command : Propose(k, c)
            \/ \E m \in late : DeliverLate(m)
            \/ UNCHANGED vars
  BY <1>13 DEF DeliverAppend, Propose, DeliverLate, ticker, vars
<1>14. QED
  <2> HIDE DEF Goal
  <2>1. QED
    BY <1>3, <1>4, <1>5, <1>6, <1>7, <1>8, <1>9, <1>10, <1>11, <1>12, <1>13 DEF Next

(* The answer a replication round waits with is the one to its request.      *)
LEMMA AnswerBegins ==
  ASSUME TypeOK, TickerInv, [Next]_vars, NEW n \in Node,
         pc'[n] = "replicate", answer'[n] # Nil
  PROVE  \/ DeliverAppend(n)
         \/ pc[n] = "replicate" /\ answer'[n] = answer[n] /\ request'[n] = request[n]
<1> DEFINE Goal ==
         \/ DeliverAppend(n)
         \/ pc[n] = "replicate" /\ answer'[n] = answer[n] /\ request'[n] = request[n]
<1> SUFFICES Goal
  OBVIOUS
<1>0. TickerOK(n)
  BY DEF TickerInv
<1>1. ~Returned(n)
  BY DEF Returned, TypeOK
<1>2. ASSUME NEW k \in Node \ {n},
             \/ StartElection(k) \/ RequestVoteReturns(k) \/ BecomeLeader(k)
             \/ StartReplicate(k) \/ SendAppendEntries(k) \/ DeliverAppend(k)
             \/ AppendEntriesReturns(k) \/ AppendCallFails(k) \/ AnswerLost(k)
             \/ Restart(k) \/ CrashBetweenSaves(k)
             \/ \E p \in Node : \/ DeliverVote(k, p) \/ VoteCallFails(k, p)
                               \/ ReadPrevTerm(k, p)
      PROVE  Goal
  <2>1. pc'[n] = pc[n] /\ answer'[n] = answer[n] /\ request'[n] = request[n]
    BY <1>2, OthersStand DEF Restart, CrashBetweenSaves
  <2>2. QED
    BY <2>1
<1>3. ~RequestVoteReturns(n) /\ ~AppendEntriesReturns(n) /\ ~AppendCallFails(n)
      /\ ~AnswerLost(n) /\ ~Restart(n) /\ ~CrashBetweenSaves(n)
  BY <1>1 DEF RequestVoteReturns, AppendEntriesReturns, AppendCallFails, AnswerLost,
     Restart, CrashBetweenSaves, Reset
<1>4. ASSUME \/ StartElection(n) \/ BecomeLeader(n) \/ StartReplicate(n)
             \/ SendAppendEntries(n)
             \/ \E p \in Node : ReadPrevTerm(n, p)
      PROVE  \/ answer'[n] = answer[n] /\ pc[n] \notin {"election", "replicate"}
             \/ \E p \in Node : ReadPrevTerm(n, p)
  BY <1>4 DEF StartElection, BecomeLeader, StartReplicate, SendAppendEntries, rpc
<1>5. ASSUME NEW p \in Node, ReadPrevTerm(n, p) \/ DeliverVote(n, p) \/ VoteCallFails(n, p)
      PROVE  FALSE
  <2>1. ReadPrevTerm(n, p) => pc'[n] = "entries"
    BY DEF ReadPrevTerm, TypeOK
  <2>2. DeliverVote(n, p) => pc'[n] = "election"
    BY DEF DeliverVote
  <2>3. VoteCallFails(n, p) => answer'[n] = Nil
    BY DEF VoteCallFails, rpc
  <2>4. QED
    BY <1>5, <2>1, <2>2, <2>3
<1>6. CASE \/ \E k \in Node, c \in Command : Propose(k, c)
           \/ \E m \in late : DeliverLate(m)
           \/ UNCHANGED vars
  BY <1>6 DEF Propose, DeliverLate, ticker, rpc, vars
<1>7. ~StartElection(n) /\ ~BecomeLeader(n) /\ ~StartReplicate(n) /\ ~SendAppendEntries(n)
  BY <1>0, <1>4, <1>5 DEF TickerOK
<1>8. QED
  <2> HIDE DEF Goal
  <2>1. CASE DeliverAppend(n)
    BY <2>1 DEF Goal
  <2>2. QED
    BY <1>2, <1>3, <1>5, <1>6, <1>7, <2>1 DEF Next

(* A slice of a log is a slice of what the log grows to.                     *)
LEMMA SliceStays ==
  ASSUME NEW m \in AppendRequest, NEW a \in Seq(LogEntry), NEW b \in Seq(LogEntry),
         Follows(a, b), SliceOf(m, a)
  PROVE  SliceOf(m, b)
<1>1. /\ m.prevIndex \in Nat /\ Len(m.entries) \in Nat
      /\ Len(a) \in Nat /\ Len(b) \in Nat
  BY LenProperties DEF AppendRequest
<1>2. TermAt(b, m.prevIndex) = TermAt(a, m.prevIndex)
  <2>1. Len(a) <= Len(b) /\ \A i \in 1..Len(a) : a[i] = b[i]
    BY DEF Follows
  <2>2. m.prevIndex <= Len(a)
    BY <1>1 DEF SliceOf
  <2>3. CASE m.prevIndex = 0
    BY <2>3 DEF TermAt
  <2>4. CASE m.prevIndex # 0
    <3>1. m.prevIndex \in 1..Len(a) /\ m.prevIndex \in 1..Len(b)
      BY <1>1, <2>1, <2>2, <2>4
    <3>2. QED
      BY <2>1, <3>1 DEF TermAt
  <2>5. QED
    BY <2>3, <2>4
<1>3. ASSUME NEW i \in 1..Len(m.entries)
      PROVE  m.entries[i] = b[m.prevIndex + i]
  <2>1. m.prevIndex + i \in 1..Len(a) /\ m.entries[i] = a[m.prevIndex + i]
    BY <1>1 DEF SliceOf
  <2>2. QED
    BY <2>1 DEF Follows
<1>4. QED
  BY <1>1, <1>2, <1>3 DEF Follows, SliceOf

(* The requests stay slices of the leader's log.                             *)
LEMMA RequestsStep ==
  ASSUME IInv, IInv', NEW l \in Node, Led(l), LeaderInv(l), [Next]_vars
  PROVE  RequestsFollow(l)'
<1>0. /\ TypeOK /\ TickerInv /\ TypeOK' /\ TickerInv'
      /\ LogsFollow(l) /\ RequestsFollow(l) /\ ReadsFollow(l)
  BY DEF IInv, LeaderInv
<1>1. /\ log[l] \in Seq(LogEntry) /\ log'[l] \in Seq(LogEntry)
      /\ \A p \in Node : Follows(log[p], log'[p])
  BY <1>0, LogsGrow DEF TypeOK
<1>2. SUFFICES ASSUME NEW m \in Sent'
               PROVE  SliceOf(m, log'[l]) /\ OnQuorum(m.commit)'
  BY DEF RequestsFollow
<1>3. ASSUME m \in AppendRequest, SliceOf(m, log[l]), OnQuorum(m.commit)
      PROVE  SliceOf(m, log'[l]) /\ OnQuorum(m.commit)'
  <2>1. m.commit \in Nat
    BY <1>3 DEF AppendRequest
  <2>2. SliceOf(m, log'[l])
    BY <1>1, <1>3, SliceStays
  <2>3. OnQuorum(m.commit)'
    BY <1>0, <1>1, <1>3, <2>1, QuorumStays
  <2>4. QED
    BY <2>2, <2>3
<1>4. CASE m \in Sent
  <2>1. m \in AppendRequest
    BY <1>0, <1>4, SentType
  <2>2. QED
    BY <1>0, <1>3, <1>4, <2>1 DEF RequestsFollow
<1>5. ASSUME NEW n \in Node, SendAppendEntries(n), m = request'[n]
      PROVE  SliceOf(m, log'[l]) /\ OnQuorum(m.commit)'
  <2> DEFINE p == local[n].peer
             ni == local[n].next[p]
  <2>1. pc[n] = "entries" /\ n = l
    BY <1>5, OnlyLeader DEF SendAppendEntries
  <2>2. m = [type |-> "AppendEntries", from |-> n, to |-> p, term |-> local[n].term,
             prevIndex |-> ni - 1, prevTerm |-> local[n].prevTerm,
             entries |-> EntriesFrom(log[n], ni), commit |-> local[n].commit]
    BY <1>0, <1>5 DEF SendAppendEntries, TypeOK
  <2>3. p \in Node /\ local[n] \in Locals
    BY <1>0, <2>1 DEF TypeOK, TickerInv, TickerOK
  <2>4. ni \in Nat \ {0} /\ ni <= Len(log[l]) + 1 /\ OnQuorum(local[l].commit)
    BY <1>0, <2>1, <2>3 DEF Locals, ReadsFollow
  <2>5. m \in AppendRequest
    <3>1. /\ local[n].term \in Nat /\ local[n].prevTerm \in Nat /\ local[n].commit \in Nat
          /\ ni - 1 \in Nat
      BY <2>3, <2>4 DEF Locals
    <3>2. EntriesFrom(log[n], ni) \in Seq(LogEntry)
      BY <1>1, <2>1, <2>4, EntriesFromType
    <3>3. QED
      BY <2>2, <2>3, <3>1, <3>2 DEF AppendRequest
  <2>6. m.commit = local[l].commit /\ m.prevIndex = ni - 1
        /\ m.prevTerm = TermAt(log[l], ni - 1) /\ m.entries = EntriesFrom(log[l], ni)
    BY <1>0, <2>1, <2>2 DEF ReadsFollow
  <2> HIDE DEF p, ni
  <2>7. Len(log[l]) \in Nat
    BY <1>1, LenProperties
  <2>8. /\ Len(m.entries) = IF ni <= Len(log[l]) THEN Len(log[l]) - ni + 1 ELSE 0
        /\ \A k \in 1..(Len(log[l]) - ni + 1) : m.entries[k] = log[l][ni + k - 1]
    <3>1. \A k \in ni..Len(log[l]) : log[l][k] \in LogEntry
      BY <1>1, <2>4, <2>7, ElementOfSeq
    <3>2. QED
      BY <2>4, <2>6, <2>7, <3>1, SubSeqProperties DEF EntriesFrom
  <2>9. m.prevIndex + Len(m.entries) <= Len(log[l])
    BY <2>4, <2>6, <2>7, <2>8
  <2>10. ASSUME NEW i \in 1..Len(m.entries)
         PROVE  m.entries[i] = log[l][m.prevIndex + i]
    <3>1. i \in 1..(Len(log[l]) - ni + 1) /\ m.prevIndex + i = ni + i - 1
      BY <2>4, <2>6, <2>7, <2>8
    <3>2. QED
      BY <2>8, <3>1
  <2>11. SliceOf(m, log[l])
    BY <2>6, <2>9, <2>10 DEF SliceOf
  <2>12. QED
    BY <1>3, <2>4, <2>5, <2>6, <2>11
<1>6. QED
  BY <1>0, <1>4, <1>5, SentStep

(* A round goes on with what is still so.                                    *)
LEMMA ReadsStep ==
  ASSUME IInv, IInv', NEW l \in Node, Led(l), LeaderInv(l), [Next]_vars
  PROVE  ReadsFollow(l)'
<1>0. /\ TypeOK /\ TickerInv /\ TypeOK' /\ TickerInv' /\ TickerOK(l) /\ TickerOK(l)'
      /\ LogsFollow(l) /\ RequestsFollow(l) /\ ReadsFollow(l) /\ MatchesHold(l)
      /\ CommitsHold
  BY DEF IInv, LeaderInv, TickerInv
<1>1. /\ \A p \in Node : log[p] \in Seq(LogEntry) /\ Len(log[p]) \in Nat
      /\ \A p \in Node : Len(log'[p]) \in Nat
      /\ \A p \in Node : Follows(log[p], log'[p])
  BY <1>0, LogsGrow, LenProperties DEF TypeOK
<1>2. /\ Len(log[l]) <= Len(log'[l])
      /\ \A i \in 1..Len(log[l]) : log'[l][i] = log[l][i]
      /\ \A p \in Node : Len(log[p]) <= Len(log[l])
  BY <1>0, <1>1 DEF Follows, LogsFollow
<1>3. \A p \in Node : nextIndex[l][p] \in Nat /\ nextIndex'[l][p] \in Nat
  BY <1>0 DEF TypeOK
<1>4. \A p \in Node : nextIndex'[l][p] <= Len(log'[l]) + 1
  <2>1. CASE nextIndex'[l] = nextIndex[l]
    BY <1>0, <1>1, <1>2, <1>3, <2>1 DEF ReadsFollow
  <2>2. ASSUME NEW n \in Node, n # l,
               AppendEntriesReturns(n) \/ BecomeLeader(n) \/ Reset(n)
        PROVE  nextIndex'[l] = nextIndex[l]
    <3>1. CASE AppendEntriesReturns(n)
      BY <2>2, <3>1, OnlyLeader DEF AppendEntriesReturns
    <3>2. CASE BecomeLeader(n)
      <4>1. \/ nextIndex' = nextIndex
            \/ nextIndex' = [nextIndex EXCEPT ![n] =
                  [p \in Node |-> IF p = n THEN @[p] ELSE LastIndex(log[n]) + 1]]
        BY <3>2 DEF BecomeLeader, leaderVars
      <4>2. QED
        BY <1>0, <2>2, <4>1 DEF TypeOK
    <3>3. CASE Reset(n)
      <4>1. nextIndex' = [nextIndex EXCEPT ![n] = [p \in Node |-> 1]]
        BY <3>3 DEF Reset
      <4>2. QED
        BY <1>0, <2>2, <4>1 DEF TypeOK
    <3>4. QED
      BY <2>2, <3>1, <3>2, <3>3
  <2>3. CASE BecomeLeader(l)
    <3>1. nextIndex'[l] = nextIndex[l]
          \/ nextIndex'[l] = [p \in Node |-> IF p = l THEN nextIndex[l][p]
                                            ELSE LastIndex(log[l]) + 1]
      <4>1. \/ nextIndex' = nextIndex
            \/ nextIndex' = [nextIndex EXCEPT ![l] =
                  [p \in Node |-> IF p = l THEN @[p] ELSE LastIndex(log[l]) + 1]]
        BY <2>3 DEF BecomeLeader, leaderVars
      <4>2. QED
        BY <1>0, <4>1 DEF TypeOK
    <3>2. CASE nextIndex'[l] = [p \in Node |-> IF p = l THEN nextIndex[l][p]
                                            ELSE LastIndex(log[l]) + 1]
      BY <1>0, <1>1, <1>2, <1>3, <3>2 DEF ReadsFollow, LastIndex
    <3>3. QED
      BY <2>1, <3>1, <3>2
  <2>4. CASE Reset(l)
    <3>1. nextIndex'[l] = [p \in Node |-> 1]
      BY <1>0, <2>4 DEF Reset, TypeOK
    <3>2. QED
      BY <1>1, <3>1
  <2>5. CASE AppendEntriesReturns(l)
    <3> DEFINE q == request[l].to
    <3>1. \/ nextIndex'[l] = nextIndex[l]
          \/ nextIndex' = [nextIndex EXCEPT ![l][q] = NextAfter(answer[l].match)]
      BY <2>5 DEF AppendEntriesReturns, leaderVars
    <3>2. /\ pc[l] = "replicate" /\ answer[l] # Nil /\ request[l] # Nil /\ q \in Node
          /\ answer[l].match \in Nat
      BY <1>0, <2>5 DEF AppendEntriesReturns, TickerOK, AppendRequest, TypeOK, Answer
    <3>3. answer[l].match <= Len(log[l])
      <4>1. answer[l].match <= Len(log[q])
        BY <1>0, <3>2 DEF MatchesHold
      <4>2. QED
        BY <1>1, <1>2, <3>2, <4>1
    <3> HIDE DEF q
    <3>4. CASE nextIndex' = [nextIndex EXCEPT ![l][q] = NextAfter(answer[l].match)]
      <4>1. \A p \in Node : nextIndex'[l][p] = IF p = q THEN answer[l].match + 1
                                               ELSE nextIndex[l][p]
        BY <1>0, <3>2, <3>4 DEF TypeOK, NextAfter
      <4>2. QED
        BY <1>0, <1>1, <1>2, <1>3, <3>2, <3>3, <4>1 DEF ReadsFollow
    <3>5. QED
      BY <2>1, <3>1, <3>4
  <2>6. ASSUME UNCHANGED leaderVars \/ \E n \in Node, c \in Command : Propose(n, c)
        PROVE  nextIndex'[l] = nextIndex[l]
    BY <2>6 DEF leaderVars, Propose
  <2>7. QED
    BY <2>1, <2>2, <2>3, <2>4, <2>5, <2>6, LeaderVarsWriters
<1>5. ASSUME pc'[l] \in {"replicate", "entries"}
      PROVE  /\ OnQuorum(local[l].commit)'
             /\ \A p \in Node : local'[l].next[p] <= Len(log'[l]) + 1
  <2>1. \/ /\ OnQuorum(local'[l].commit)
           /\ \A p \in Node : local'[l].next[p] <= Len(log[l]) + 1
    <3>1. CASE /\ pc[l] \in {"replicate", "entries"}
               /\ local'[l].next = local[l].next /\ local'[l].commit = local[l].commit
      BY <1>0, <3>1 DEF ReadsFollow
    <3>2. CASE local'[l].next = nextIndex[l] /\ local'[l].commit = commitIndex[l]
      BY <1>0, <3>2 DEF ReadsFollow, CommitsHold
    <3>3. QED
      BY <1>0, <1>5, <3>1, <3>2, ReplicatingBegins
  <2>2. /\ local'[l].commit \in Nat /\ \A p \in Node : local'[l].next[p] \in Nat
    BY <1>0 DEF TypeOK, Locals
  <2>3. OnQuorum(local[l].commit)'
    <3>1. ASSUME NEW d \in Nat, OnQuorum(d)
          PROVE  Cardinality({p \in Node : Len(log'[p]) >= d}) >= QuorumSize
      <4>1. OnQuorum(d)'
        BY <1>0, <1>1, <3>1, QuorumStays
      <4>2. QED
        BY <4>1 DEF OnQuorum, Reaching
    <3>2. Cardinality({p \in Node : Len(log'[p]) >= local'[l].commit}) >= QuorumSize
      BY <2>1, <2>2, <3>1
    <3>3. QED
      BY <3>2 DEF OnQuorum, Reaching
  <2>4. QED
    BY <1>1, <1>2, <2>1, <2>2, <2>3
<1>6. ASSUME pc'[l] = "entries"
      PROVE  local'[l].prevTerm = TermAt(log'[l], local'[l].next[local'[l].peer] - 1)
  <2>1. CASE pc'[l] = pc[l] /\ local'[l] = local[l]
    <3> DEFINE i == local[l].next[local[l].peer] - 1
    <3>1. local[l] \in Locals /\ local[l].peer \in Node
      BY <1>0, <1>6, <2>1 DEF TypeOK, TickerOK
    <3>2. i \in Nat /\ i <= Len(log[l])
      <4>1. local[l].next[local[l].peer] \in Nat \ {0}
        BY <3>1 DEF Locals
      <4>2. local[l].next[local[l].peer] <= Len(log[l]) + 1
        BY <1>0, <1>6, <2>1, <3>1 DEF ReadsFollow
      <4>3. QED
        BY <1>1, <4>1, <4>2
    <3>3. local[l].prevTerm = TermAt(log[l], i)
      BY <1>0, <1>6, <2>1 DEF ReadsFollow
    <3> HIDE DEF i
    <3>4. TermAt(log'[l], i) = TermAt(log[l], i)
      BY <1>1, <1>2, <3>2 DEF TermAt
    <3>5. QED
      BY <2>1, <3>3, <3>4 DEF i
  <2>2. ASSUME NEW p \in Node, ReadPrevTerm(l, p)
        PROVE  local'[l].prevTerm = TermAt(log'[l], local'[l].next[local'[l].peer] - 1)
    <3>1. /\ local[l] \in Locals /\ log' = log
          /\ local'[l] = [local[l] EXCEPT !.peer = p,
                             !.prevTerm = TermAt(log[l], local[l].next[p] - 1)]
      BY <1>0, <2>2 DEF ReadPrevTerm, TypeOK, persistent
    <3>2. /\ local'[l].peer = p /\ local'[l].next = local[l].next
          /\ local'[l].prevTerm = TermAt(log[l], local[l].next[p] - 1)
      BY <3>1 DEF Locals
    <3>3. QED
      BY <3>1, <3>2
  <2>3. QED
    BY <1>0, <1>6, <2>1, <2>2, ReadingBegins
<1>7. QED
  BY <1>4, <1>5, <1>6 DEF ReadsFollow

(* No follower has less than it is counted for, nor than it will be.         *)
LEMMA MatchesStep ==
  ASSUME IInv, IInv', NEW l \in Node, Led(l), LeaderInv(l), [Next]_vars
  PROVE  MatchesHold(l)'
<1>0. /\ TypeOK /\ TickerInv /\ TypeOK' /\ TickerOK(l) /\ TickerOK(l)'
      /\ LogsFollow(l) /\ RequestsFollow(l) /\ MatchesHold(l)
  BY DEF IInv, LeaderInv, TickerInv
<1>1. \A p \in Node : /\ Len(log[p]) \in Nat /\ Len(log'[p]) \in Nat
                      /\ Len(log[p]) <= Len(log'[p])
                      /\ matchIndex[l][p] \in Nat /\ matchIndex'[l][p] \in Nat
                      /\ matchIndex[l][p] <= Len(log[p])
  BY <1>0, LogsGrow, LenProperties DEF TypeOK, Follows, MatchesHold
<1>2. ASSUME NEW p \in Node
      PROVE  matchIndex'[l][p] <= Len(log'[p])
  <2>1. CASE matchIndex'[l] = matchIndex[l]
    BY <1>1, <2>1
  <2>2. ASSUME NEW n \in Node, AppendEntriesReturns(n)
        PROVE  matchIndex'[l][p] <= Len(log'[p])
    <3> DEFINE a == answer[l]
               q == request[l].to
    <3>1. n = l /\ pc[l] = "replicate" /\ a # Nil
      BY <2>2, OnlyLeader DEF AppendEntriesReturns
    <3>2. q \in Node /\ a \in Answer /\ a.match \in Nat
      BY <1>0, <3>1 DEF TickerOK, AppendRequest, TypeOK, Answer
    <3>3. a.match <= Len(log[q])
      BY <1>0, <3>1 DEF MatchesHold
    <3>4. \/ matchIndex' = matchIndex
          \/ matchIndex' = [matchIndex EXCEPT ![l] =
                IF a.ok THEN [matchIndex[l] EXCEPT ![q] = a.match, ![l] = LastIndex(log[l])]
                ELSE @]
      BY <2>2, <3>1 DEF AppendEntriesReturns, leaderVars
    <3> HIDE DEF a, q
    <3>5. \/ matchIndex'[l] = matchIndex[l]
          \/ matchIndex'[l][p] = IF p = l THEN Len(log[l]) ELSE IF p = q THEN a.match
                                 ELSE matchIndex[l][p]
      <4>1. matchIndex \in [Node -> [Node -> Nat]] /\ matchIndex[l] \in [Node -> Nat]
        BY <1>0 DEF TypeOK
      <4>2. CASE matchIndex'[l] = matchIndex[l]
        BY <4>2
      <4>3. CASE matchIndex'[l] = [matchIndex[l] EXCEPT ![q] = a.match, ![l] = LastIndex(log[l])]
        BY <3>2, <4>1, <4>3 DEF LastIndex
      <4>4. QED
        BY <3>4, <4>1, <4>2, <4>3
    <3>6. QED
      BY <1>1, <2>1, <3>2, <3>3, <3>5
  <2>3. ASSUME NEW n \in Node, BecomeLeader(n)
        PROVE  matchIndex'[l][p] <= Len(log'[p])
    <3>1. \/ matchIndex' = matchIndex
          \/ matchIndex' = [matchIndex EXCEPT ![n] =
                [k \in Node |-> IF k = n THEN LastIndex(log[n]) ELSE 0]]
      BY <2>3 DEF BecomeLeader, leaderVars
    <3>2. \/ matchIndex'[l] = matchIndex[l]
          \/ matchIndex'[l][p] = IF p = l THEN Len(log[l]) ELSE 0
      <4>1. CASE n = l
        <5>1. \/ matchIndex' = matchIndex
              \/ matchIndex'[n][p] = IF p = n THEN LastIndex(log[n]) ELSE 0
          <6> DEFINE F == [k \in Node |-> IF k = n THEN LastIndex(log[n]) ELSE 0]
          <6>1. F[p] = IF p = n THEN LastIndex(log[n]) ELSE 0
            OBVIOUS
          <6>2. matchIndex' = matchIndex \/ matchIndex' = [matchIndex EXCEPT ![n] = F]
            BY <3>1
          <6> HIDE DEF F
          <6>3. matchIndex' = matchIndex \/ matchIndex'[n] = F
            BY <1>0, <6>2 DEF TypeOK
          <6>4. QED
            BY <6>1, <6>3
        <5>2. QED
          BY <4>1, <5>1 DEF LastIndex
      <4>2. CASE n # l
        BY <1>0, <3>1, <4>2 DEF TypeOK
      <4>3. QED
        BY <4>1, <4>2
    <3>3. QED
      BY <1>1, <2>1, <3>2
  <2>4. ASSUME NEW n \in Node, Reset(n)
        PROVE  matchIndex'[l][p] <= Len(log'[p])
    <3>1. matchIndex' = [matchIndex EXCEPT ![n] = [k \in Node |-> 0]]
      BY <2>4 DEF Reset
    <3>2. matchIndex'[l] = matchIndex[l] \/ matchIndex'[l][p] = 0
      BY <1>0, <3>1 DEF TypeOK
    <3>3. QED
      BY <1>1, <2>1, <3>2
  <2>5. ASSUME NEW n \in Node, NEW c \in Command, Propose(n, c)
        PROVE  matchIndex'[l][p] <= Len(log'[p])
    <3>1. n = l
      BY <2>5, OnlyLeader DEF Propose
    <3>2. /\ matchIndex' = [matchIndex EXCEPT ![l][l] = LastIndex(log[l]) + 1]
          /\ log' = [log EXCEPT ![l] = Append(@, [term |-> currentTerm[l], command |-> c])]
      BY <2>5, <3>1 DEF Propose
    <3>3. matchIndex'[l][p] = IF p = l THEN Len(log[l]) + 1 ELSE matchIndex[l][p]
      BY <1>0, <3>2 DEF TypeOK, LastIndex
    <3>4. Len(log'[l]) = Len(log[l]) + 1
      <4>1. log[l] \in Seq(LogEntry) /\ [term |-> currentTerm[l], command |-> c] \in LogEntry
            /\ log'[l] = Append(log[l], [term |-> currentTerm[l], command |-> c])
        BY <1>0, <3>2 DEF TypeOK, LogEntry
      <4>2. QED
        BY <4>1, AppendProperties
    <3>5. QED
      BY <1>1, <3>3, <3>4
  <2>6. CASE UNCHANGED leaderVars
    BY <2>1, <2>6 DEF leaderVars
  <2>7. QED
    BY <2>2, <2>3, <2>4, <2>5, <2>6, LeaderVarsWriters
<1>3. ASSUME answer'[l] # Nil, pc'[l] = "replicate"
      PROVE  answer'[l].match <= Len(log'[request'[l].to])
  <2>1. CASE DeliverAppend(l)
    <3> DEFINE m == request[l]
    <3>1. /\ request' = request /\ HandleAppendEntries(m) /\ m \in AppendRequest
          /\ answer' = [answer EXCEPT ![l] = AppendEntriesAnswer(m)]
      BY <1>0, <2>1 DEF DeliverAppend, Handle, HandleRequestVote, TickerOK, AppendRequest
    <3>2. m.to \in Node /\ log'[m.to] = MergedLog(m)
      BY <1>0, <3>1 DEF HandleAppendEntries, TypeOK, AppendRequest
    <3>3. answer'[l].match = IF Current(m) THEN Len(log'[m.to]) ELSE 0
      <4>1. answer'[l] = AppendEntriesAnswer(m)
        BY <1>0, <3>1 DEF TypeOK
      <4>2. QED
        BY <3>2, <4>1 DEF AppendEntriesAnswer, LastIndex
    <3>4. QED
      BY <1>1, <3>1, <3>2, <3>3
  <2>2. CASE pc[l] = "replicate" /\ answer'[l] = answer[l] /\ request'[l] = request[l]
    <3> DEFINE q == request[l].to
    <3>1. /\ q \in Node /\ answer[l].match \in Nat
          /\ answer[l].match <= Len(log[q])
      BY <1>0, <1>3, <2>2 DEF TickerOK, AppendRequest, TypeOK, Answer, MatchesHold
    <3> HIDE DEF q
    <3>2. answer[l].match <= Len(log'[q])
      BY <1>1, <3>1
    <3>3. QED
      BY <2>2, <3>2 DEF q
  <2>3. QED
    BY <1>0, <1>3, <2>1, <2>2, AnswerBegins
<1>4. QED
  BY <1>2, <1>3 DEF MatchesHold

(* A commit index stays within its log and on a quorum, and moves back only  *)
(* when its node crashes.                                                    *)
LEMMA CommitGrows ==
  ASSUME IInv, IInv', NEW l \in Node, Led(l), LeaderInv(l), [Next]_vars, NEW p \in Node
  PROVE  /\ commitIndex'[p] <= Len(log'[p])
         /\ OnQuorum(commitIndex'[p])
         /\ commitIndex'[p] >= commitIndex[p] \/ Reset(p)
<1> DEFINE Goal == /\ commitIndex'[p] <= Len(log'[p])
                   /\ OnQuorum(commitIndex'[p])
                   /\ commitIndex'[p] >= commitIndex[p] \/ Reset(p)
<1> SUFFICES Goal
  OBVIOUS
<1>0. /\ TypeOK /\ TickerInv /\ TypeOK' /\ TickerOK(l)
      /\ LogsFollow(l) /\ RequestsFollow(l) /\ MatchesHold(l) /\ CommitsHold
  BY DEF IInv, LeaderInv, TickerInv
<1>1. /\ \A k \in Node : /\ Len(log[k]) \in Nat /\ Len(log'[k]) \in Nat
                         /\ Len(log[k]) <= Len(log'[k])
      /\ commitIndex[p] \in Nat /\ commitIndex'[p] \in Nat
      /\ commitIndex[p] <= Len(log[p]) /\ OnQuorum(commitIndex[p])
  BY <1>0, LogsGrow, LenProperties DEF TypeOK, Follows, CommitsHold
<1>2. CASE commitIndex'[p] = commitIndex[p]
  BY <1>1, <1>2
<1>3. ASSUME NEW m \in Sent, HandleAppendEntries(m)
      PROVE  Goal
  <2>1. m \in AppendRequest /\ m.to \in Node /\ m.commit \in Nat
    BY <1>0, SentType DEF AppendRequest
  <2>2. /\ log'[m.to] = MergedLog(m)
        /\ commitIndex' = [commitIndex EXCEPT ![m.to] =
              IF Consistent(m) /\ m.commit > @
              THEN Minimum(m.commit, LastIndex(MergedLog(m))) ELSE @]
    BY <1>0, <1>3, <2>1 DEF HandleAppendEntries, TypeOK
  <2>3. CASE p = m.to /\ m.commit > commitIndex[p]
             /\ commitIndex'[p] = Minimum(m.commit, Len(log'[p]))
    <3>1. OnQuorum(m.commit)
      BY <1>0 DEF RequestsFollow
    <3>2. /\ commitIndex'[p] <= m.commit /\ commitIndex'[p] <= Len(log'[p])
          /\ commitIndex'[p] >= commitIndex[p]
      BY <1>1, <2>1, <2>3 DEF Minimum
    <3>3. OnQuorum(commitIndex'[p])
      BY <1>0, <1>1, <2>1, <3>1, <3>2, QuorumBelow
    <3>4. QED
      BY <3>2, <3>3
  <2>4. \/ commitIndex'[p] = commitIndex[p]
        \/ /\ p = m.to /\ m.commit > commitIndex[p]
           /\ commitIndex'[p] = Minimum(m.commit, Len(log'[p]))
    BY <1>0, <2>1, <2>2 DEF TypeOK, LastIndex
  <2>5. QED
    BY <1>2, <2>3, <2>4
<1>4. ASSUME NEW n \in Node, AppendEntriesReturns(n)
      PROVE  Goal
  <2> DEFINE a == answer[l]
             q == request[l].to
             match == [matchIndex[l] EXCEPT ![q] = a.match, ![l] = LastIndex(log[l])]
             c == AdvancedCommit(l, local[l].term, match)
  <2>1. n = l /\ pc[l] = "replicate" /\ a # Nil /\ log' = log
    BY <1>4, OnlyLeader DEF AppendEntriesReturns
  <2>2. q \in Node /\ a.match \in Nat /\ a.match <= Len(log[q])
    BY <1>0, <2>1 DEF TickerOK, AppendRequest, TypeOK, Answer, MatchesHold
  <2>3. \/ commitIndex' = commitIndex
        \/ commitIndex' = [commitIndex EXCEPT ![l] = IF a.ok THEN c ELSE @]
    BY <1>4, <2>1 DEF AppendEntriesReturns
  <2>4. match \in [Node -> Nat] /\ \A k \in Node : match[k] <= Len(log[k])
    <3>1. matchIndex[l] \in [Node -> Nat] /\ \A k \in Node : matchIndex[l][k] <= Len(log[k])
      BY <1>0 DEF TypeOK, MatchesHold
    <3>2. Len(log[l]) \in Nat
      BY <1>1
    <3> HIDE DEF q, a
    <3>3. match \in [Node -> Nat]
      BY <2>2, <3>1, <3>2 DEF LastIndex
    <3>4. \A k \in Node : match[k] = IF k = l THEN Len(log[l]) ELSE IF k = q THEN a.match
                                    ELSE matchIndex[l][k]
      BY <2>2, <3>1 DEF LastIndex
    <3> HIDE DEF match
    <3>5. ASSUME NEW k \in Node
          PROVE  match[k] <= Len(log[k])
      <4>1. CASE k = l
        BY <3>2, <3>4, <4>1
      <4>2. CASE k # l /\ k = q
        BY <2>2, <3>4, <4>2
      <4>3. CASE k # l /\ k # q
        BY <3>1, <3>4, <4>3
      <4>4. QED
        BY <4>1, <4>2, <4>3
    <3>6. QED
      BY <3>3, <3>5
  <2> HIDE DEF match
  <2>5. ASSUME c \in Committable(l, local[l].term, match)
        PROVE  c \in Nat /\ c > commitIndex[l] /\ c <= Len(log[l]) /\ OnQuorum(c)
    <3> HIDE DEF c
    <3>1. /\ c \in (commitIndex[l] + 1)..Len(log[l])
          /\ Cardinality({k \in Node : match[k] >= c}) >= QuorumSize
      BY <2>5 DEF Committable, LastIndex
    <3>2. commitIndex[l] \in Nat /\ Len(log[l]) \in Nat
      BY <1>0, <1>1 DEF TypeOK
    <3>3. c \in Nat /\ c > commitIndex[l] /\ c <= Len(log[l])
      BY <3>1, <3>2
    <3>4. {k \in Node : match[k] >= c} \subseteq Reaching(c) /\ Reaching(c) \subseteq Node
      BY <1>1, <2>4, <3>3 DEF Reaching
    <3>5. /\ Cardinality({k \in Node : match[k] >= c}) <= Cardinality(Reaching(c))
          /\ Cardinality({k \in Node : match[k] >= c}) \in Nat
          /\ Cardinality(Reaching(c)) \in Nat
      BY <3>4, NodeAssumption, FS_Subset, FS_CardinalityType
    <3>6. QuorumSize \in Nat
      BY NodeAssumption, FS_CardinalityType DEF QuorumSize
    <3>7. OnQuorum(c)
      BY <3>1, <3>5, <3>6 DEF OnQuorum
    <3>8. QED
      BY <3>3, <3>7
  <2>6. c = commitIndex[l] \/ c \in Committable(l, local[l].term, match)
    <3>1. local[l].term \in Nat
      BY <1>0 DEF TypeOK, Locals
    <3>2. QED
      BY <1>0, <3>1, AdvancedCommitType
  <2>7. \/ commitIndex'[p] = commitIndex[p]
        \/ p = l /\ commitIndex'[p] = c
    <3> HIDE DEF c, a
    <3>1. QED
      BY <1>0, <2>3 DEF TypeOK
  <2> HIDE DEF c
  <2>8. CASE p = l /\ commitIndex'[p] = c /\ c # commitIndex[l]
    BY <1>1, <2>1, <2>5, <2>6, <2>8
  <2>9. QED
    BY <1>2, <2>7, <2>8
<1>5. ASSUME NEW n \in Node, Reset(n)
      PROVE  Goal
  <2>1. commitIndex' = [commitIndex EXCEPT ![n] = 0]
    BY <1>5 DEF Reset
  <2>2. commitIndex'[p] = commitIndex[p] \/ (p = n /\ commitIndex'[p] = 0)
    BY <1>0, <2>1 DEF TypeOK
  <2>3. CASE p = n /\ commitIndex'[p] = 0
    BY <1>0, <1>1, <1>5, <2>3, QuorumOfNone
  <2>4. QED
    BY <1>2, <2>2, <2>3
<1>6. QED
  <2> HIDE DEF Goal
  <2>1. CASE commitIndex' = commitIndex
    BY <1>2, <2>1 DEF Goal
  <2>2. CASE \E m \in Sent : HandleAppendEntries(m)
    BY <1>3, <2>2
  <2>3. CASE \E n \in Node : AppendEntriesReturns(n) \/ Reset(n)
    BY <1>4, <1>5, <2>3
  <2>4. QED
    BY <1>0, <2>1, <2>2, <2>3, CommitWriters

LEMMA LeaderInvStep ==
  ASSUME IInv, IInv', NEW l \in Node, Led(l), LeaderInv(l), [Next]_vars
  PROVE  LeaderInv(l)'
<1>0. TypeOK /\ TypeOK' /\ LogsFollow(l) /\ RequestsFollow(l)
  BY DEF IInv, LeaderInv
<1>1. LogsFollow(l)' /\ \A p \in Node : Follows(log[p], log'[p])
  BY <1>0, LogsGrow
<1>2. RequestsFollow(l)' /\ ReadsFollow(l)' /\ MatchesHold(l)'
  BY RequestsStep, ReadsStep, MatchesStep
<1>3. ASSUME NEW p \in Node
      PROVE  commitIndex'[p] <= Len(log'[p]) /\ OnQuorum(commitIndex[p])'
  <2>1. /\ commitIndex'[p] <= Len(log'[p]) /\ OnQuorum(commitIndex'[p])
        /\ commitIndex'[p] \in Nat
    BY <1>0, CommitGrows DEF TypeOK
  <2>2. ASSUME NEW d \in Nat, OnQuorum(d)
        PROVE  Cardinality({k \in Node : Len(log'[k]) >= d}) >= QuorumSize
    <3>1. OnQuorum(d)'
      BY <1>0, <1>1, <2>2, QuorumStays
    <3>2. QED
      BY <3>1 DEF OnQuorum, Reaching
  <2>3. Cardinality({k \in Node : Len(log'[k]) >= commitIndex'[p]}) >= QuorumSize
    BY <2>1, <2>2
  <2>4. QED
    BY <2>1, <2>3 DEF OnQuorum, Reaching
<1>4. QED
  BY <1>1, <1>2, <1>3 DEF LeaderInv, CommitsHold

LEMMA LeaderInit ==
  ASSUME Init, NEW l \in Node
  PROVE  LeaderInv(l)
<1> USE NodeAssumption
<1>1. TypeOK
  BY TypeInit
<1>2. OnQuorum(0)
  BY <1>1, QuorumOfNone
<1>3. Sent = {}
  BY DEF Init, Sent
<1>4. Len(<< >>) = 0
  OBVIOUS
<1>5. LogsFollow(l) /\ RequestsFollow(l)
  BY <1>3, <1>4 DEF LogsFollow, RequestsFollow, Follows, Init
<1>6. ReadsFollow(l) /\ MatchesHold(l) /\ CommitsHold
  BY <1>2, <1>4 DEF ReadsFollow, MatchesHold, CommitsHold, Init
<1>7. QED
  BY <1>5, <1>6 DEF LeaderInv

-----------------------------------------------------------------------------
(* The key-value service *)

Call == [node : Node, index : Nat, term : Nat, command : Command]

KVTypeOK ==
    /\ lastApplied \in [Node -> Nat]
    /\ pass \in [Node -> [next : Nat, to : Nat] \cup {Nil}]
    /\ executed \in [Node -> Seq(Nat \X LogEntry)]
    /\ missed \in [Node -> SUBSET Nat]
    /\ waiting \subseteq Call
    /\ acked \subseteq Call

(* What a node has applied are entries of its log, at indices it considers   *)
(* committed, that no pass under way or to come will reach again.            *)
AppliedOK(n) ==
    \A j \in 1..Len(executed[n]) :
        LET x == executed[n][j] IN
        /\ x[1] \in 1..Len(log[n]) /\ x[2] = log[n][x[1]]
        /\ x[1] <= commitIndex[n]
        /\ x[1] <= lastApplied[n] \/ (pass[n] # Nil /\ x[1] < pass[n].next)

PassOK(n) ==
    /\ lastApplied[n] <= commitIndex[n]
    /\ pass[n] # Nil => /\ pass[n].to <= commitIndex[n]
                        /\ pass[n].next > lastApplied[n]
                        /\ pass[n].next <= pass[n].to + 1 /\ lastApplied[n] <= pass[n].to

(* No entry was applied twice or before an earlier one.                      *)
InOrder(n) ==
    \A i, j \in 1..Len(executed[n]) : i < j => executed[n][i][1] < executed[n][j][1]

(* None was left out but those a pass did not come to.                       *)
Covers(n) ==
    /\ 1..lastApplied[n] \subseteq Executed(n) \cup missed[n]
    /\ pass[n] # Nil => (lastApplied[n] + 1)..(pass[n].next - 1) \subseteq Executed(n)
    /\ missed[n] \cap Executed(n) = {}
    /\ missed[n] \subseteq 1..lastApplied[n]

(* A call waits at the leader for the entry it made; one that was answered   *)
(* was committed.                                                            *)
CallsOK(l) ==
    /\ \A w \in waiting \cup acked :
          /\ w.index \in 1..Len(log[l])
          /\ log[l][w.index] = [term |-> w.term, command |-> w.command]
    /\ \A w \in waiting : w.node = l
    /\ \A w \in acked : OnQuorum(w.index)

KVInv(l) == /\ KVTypeOK
            /\ \A n \in Node : AppliedOK(n) /\ PassOK(n) /\ InOrder(n) /\ Covers(n)
            /\ CallsOK(l)

(* RaftKV adds to RaftNode and changes nothing of it.                        *)
LEMMA KVStepIsNext ==
  [KVNext]_allVars => [Next]_vars
<1> SUFFICES ASSUME [KVNext]_allVars
             PROVE  [Next]_vars
  OBVIOUS
<1>1. ASSUME NEW n \in Node, StartApply(n) \/ ApplyNext(n) \/ EndApply(n)
      PROVE  UNCHANGED vars
  BY <1>1 DEF StartApply, ApplyNext, EndApply
<1>2. ASSUME NEW w \in waiting, Acknowledge(w) \/ CommitTimeout(w)
      PROVE  UNCHANGED vars
  BY <1>2 DEF Acknowledge, CommitTimeout
<1>3. ASSUME NEW n \in Node, Tick(n) \/ Elsewhere(n) \/ Crash(n)
      PROVE  Next
  BY <1>3 DEF Tick, Elsewhere, Crash, Next
<1>4. ASSUME NEW n \in Node, NEW c \in Command, CallSet(n, c)
      PROVE  Next
  BY <1>4 DEF CallSet, Next
<1>5. ASSUME NEW m \in late, Late(m)
      PROVE  Next
  BY <1>5 DEF Late, Next
<1>6. CASE UNCHANGED allVars
  BY <1>6 DEF allVars
<1>7. QED
  BY <1>1, <1>2, <1>3, <1>4, <1>5, <1>6 DEF KVNext

(* The key-value service runs on the consensus core as it is: every behaviour *)
(* of RaftKV, apply passes, calls and crashes included, is one of RaftNode,   *)
(* so that what is proved of RaftNode holds in RaftKV.                        *)
THEOREM KVImplementsRaft == KVSpec => Spec
<1>1. KVInit => Init
  BY DEF KVInit
<1>2. [KVNext]_allVars => [Next]_vars
  BY KVStepIsNext
<1>3. QED
  BY <1>1, <1>2, PTL DEF KVSpec, Spec

(* What a step does to one node's apply pass.                                *)
LEMMA PassSteps ==
  ASSUME KVTypeOK, [KVNext]_allVars, NEW p \in Node
  PROVE  \/ StartApply(p) \/ ApplyNext(p) \/ EndApply(p) \/ Crash(p)
         \/ /\ lastApplied'[p] = lastApplied[p] /\ pass'[p] = pass[p]
            /\ executed'[p] = executed[p] /\ missed'[p] = missed[p]
            /\ \/ \E n \in Node : Tick(n) \/ Elsewhere(n) \/ \E c \in Command : CallSet(n, c)
               \/ \E m \in late : Late(m)
               \/ UNCHANGED vars
               \/ \E n \in Node \ {p} : Crash(n)
<1> DEFINE Same == /\ lastApplied'[p] = lastApplied[p] /\ pass'[p] = pass[p]
                   /\ executed'[p] = executed[p] /\ missed'[p] = missed[p]
<1>1. ASSUME NEW n \in Node \ {p}, StartApply(n) \/ ApplyNext(n) \/ EndApply(n)
      PROVE  Same /\ UNCHANGED vars
  BY <1>1 DEF StartApply, ApplyNext, EndApply, KVTypeOK
<1>2. ASSUME NEW w \in waiting, Acknowledge(w) \/ CommitTimeout(w)
      PROVE  Same /\ UNCHANGED vars
  BY <1>2 DEF Acknowledge, CommitTimeout, applyVars
<1>3. ASSUME NEW n \in Node \ {p}, Crash(n)
      PROVE  Same
  BY <1>3 DEF Crash, KVTypeOK
<1>4. ASSUME NEW n \in Node, \/ Tick(n) \/ Elsewhere(n)
                             \/ \E c \in Command : CallSet(n, c)
      PROVE  Same
  BY <1>4 DEF Tick, Elsewhere, CallSet, applyVars, kvVars
<1>5. ASSUME NEW m \in late, Late(m)
      PROVE  Same
  BY <1>5 DEF Late, applyVars, kvVars
<1>6. CASE UNCHANGED allVars
  BY <1>6 DEF allVars, applyVars, kvVars
<1>7. QED
  <2> HIDE DEF Same
  <2>1. CASE \E n \in Node : StartApply(n) \/ ApplyNext(n) \/ EndApply(n)
    <3>1. PICK n \in Node : StartApply(n) \/ ApplyNext(n) \/ EndApply(n)
      BY <2>1
    <3>2. CASE n = p
      BY <3>1, <3>2
    <3>3. CASE n # p
      BY <1>1, <3>1, <3>3 DEF Same
    <3>4. QED
      BY <3>2, <3>3
  <2>2. CASE \E w \in waiting : Acknowledge(w) \/ CommitTimeout(w)
    BY <1>2, <2>2 DEF Same
  <2>3. CASE \E n \in Node : Crash(n)
    <3>1. PICK n \in Node : Crash(n)
      BY <2>3
    <3>2. CASE n = p
      BY <3>1, <3>2
    <3>3. CASE n # p
      BY <1>3, <3>1, <3>3 DEF Same
    <3>4. QED
      BY <3>2, <3>3
  <2>4. CASE \E n \in Node : Tick(n) \/ Elsewhere(n) \/ \E c \in Command : CallSet(n, c)
    BY <1>4, <2>4 DEF Same
  <2>5. CASE \E m \in late : Late(m)
    BY <1>5, <2>5 DEF Same
  <2>6. CASE UNCHANGED allVars
    BY <1>6, <2>6 DEF Same, allVars
  <2>7. QED
    BY <2>1, <2>2, <2>3, <2>4, <2>5, <2>6 DEF KVNext

(* A node's commit index moves back only when the node crashes.              *)
LEMMA CommitForward ==
  ASSUME IInv, IInv', NEW l \in Node, Led(l), LeaderInv(l), NEW p \in Node,
         \/ \E n \in Node : Tick(n) \/ Elsewhere(n) \/ \E c \in Command : CallSet(n, c)
         \/ \E m \in late : Late(m)
         \/ UNCHANGED vars
         \/ \E n \in Node \ {p} : Crash(n)
  PROVE  commitIndex'[p] >= commitIndex[p]
<1>0. TypeOK
  BY DEF IInv
<1>1. commitIndex[p] \in Nat
  BY <1>0 DEF TypeOK
<1>2. CASE UNCHANGED vars
  BY <1>1, <1>2 DEF vars
<1>3. ASSUME NEW n \in Node \ {p}, Crash(n)
      PROVE  commitIndex'[p] = commitIndex[p]
  <2>1. commitIndex' = [commitIndex EXCEPT ![n] = 0]
    BY <1>3 DEF Crash, Restart, CrashBetweenSaves, Reset
  <2>2. QED
    BY <1>0, <2>1 DEF TypeOK
<1>4. CASE \/ \E n \in Node : Tick(n) \/ Elsewhere(n) \/ \E c \in Command : CallSet(n, c)
           \/ \E m \in late : Late(m)
  <2>1. ASSUME NEW n \in Node, Tick(n) \/ \E c \in Command : CallSet(n, c)
        PROVE  restarts' = restarts
    BY <2>1 DEF Tick, CallSet, StartElection, StartReplicate, Propose
  <2>2. ASSUME NEW n \in Node, Elsewhere(n)
        PROVE  restarts' = restarts
    BY <2>2 DEF Elsewhere, StartReplicate, RequestVoteReturns, BecomeLeader,
       SendAppendEntries, DeliverAppend, AppendEntriesReturns, AppendCallFails,
       AnswerLost, DeliverVote, VoteCallFails, ReadPrevTerm, Handle
  <2>3. ASSUME NEW m \in late, Late(m)
        PROVE  restarts' = restarts
    BY <2>3 DEF Late, DeliverLate, Handle
  <2>4. restarts' = restarts /\ restarts \in Nat
    BY <1>0, <1>4, <2>1, <2>2, <2>3 DEF TypeOK
  <2>5. ~Reset(p)
    BY <2>4 DEF Reset
  <2>6. [KVNext]_allVars
    BY <1>4 DEF KVNext
  <2>7. [Next]_vars
    BY <2>6, KVStepIsNext
  <2>8. QED
    BY <2>5, <2>7, CommitGrows
<1>5. QED
  BY <1>1, <1>2, <1>3, <1>4

(* An apply pass hands over its log's entries, each index once.              *)
LEMMA AppliesStep ==
  ASSUME IInv, IInv', NEW l \in Node, Led(l), LeaderInv(l), KVTypeOK, [KVNext]_allVars,
         NEW n \in Node, AppliedOK(n), PassOK(n), InOrder(n), Covers(n)
  PROVE  AppliedOK(n)' /\ PassOK(n)' /\ InOrder(n)' /\ Covers(n)'
<1> DEFINE Goal == AppliedOK(n)' /\ PassOK(n)' /\ InOrder(n)' /\ Covers(n)'
<1> SUFFICES Goal
  OBVIOUS
<1>0. /\ TypeOK /\ TypeOK' /\ LogsFollow(l) /\ RequestsFollow(l)
      /\ commitIndex[n] \in Nat /\ commitIndex'[n] \in Nat
      /\ commitIndex[n] <= Len(log[n])
      /\ log[n] \in Seq(LogEntry) /\ Len(log[n]) \in Nat /\ Len(log'[n]) \in Nat
      /\ lastApplied[n] \in Nat
      /\ pass[n] # Nil => pass[n] \in [next : Nat, to : Nat]
      /\ pass[n] # Nil => pass[n].next \in Nat /\ pass[n].to \in Nat
  BY LenProperties DEF IInv, LeaderInv, CommitsHold, TypeOK, KVTypeOK
<1>1. /\ Len(log[n]) <= Len(log'[n])
      /\ \A i \in 1..Len(log[n]) : log'[n][i] = log[n][i]
  BY <1>0, KVStepIsNext, LogsGrow DEF Follows
<1>2. executed[n] \in Seq(Nat \X LogEntry) /\ Len(executed[n]) \in Nat
  BY LenProperties DEF KVTypeOK
<1>3. \A j \in 1..Len(executed[n]) :
         /\ executed[n][j][1] \in Nat
         /\ executed[n][j][1] \in 1..Len(log[n])
         /\ executed[n][j][2] = log[n][executed[n][j][1]]
         /\ executed[n][j][1] <= commitIndex[n]
         /\ \/ executed[n][j][1] <= lastApplied[n]
            \/ pass[n] # Nil /\ executed[n][j][1] < pass[n].next
  BY <1>2 DEF AppliedOK
<1>9. missed[n] \subseteq Nat /\ missed \in [Node -> SUBSET Nat]
  BY DEF KVTypeOK
<1>4. CASE Crash(n)
  <2>1. /\ executed'[n] = << >> /\ Len(<< >>) = 0 /\ lastApplied'[n] = 0 /\ pass'[n] = Nil
        /\ missed'[n] = {}
    BY <1>4 DEF Crash, KVTypeOK
  <2>2. Covers(n)'
    BY <2>1 DEF Covers, Executed
  <2>3. QED
    BY <1>0, <2>1, <2>2 DEF AppliedOK, PassOK, InOrder
<1>5. CASE StartApply(n)
  <2>1. /\ pass[n] = Nil /\ executed' = executed /\ lastApplied' = lastApplied
        /\ missed' = missed
        /\ log' = log /\ commitIndex' = commitIndex
        /\ pass' = [pass EXCEPT ![n] = [next |-> lastApplied[n] + 1, to |-> commitIndex[n]]]
    BY <1>5 DEF StartApply, vars, persistent
  <2>2. pass'[n] = [next |-> lastApplied[n] + 1, to |-> commitIndex[n]]
    BY <2>1 DEF KVTypeOK
  <2>3. PassOK(n)'
    BY <1>0, <2>1, <2>2 DEF PassOK
  <2>4. AppliedOK(n)' /\ InOrder(n)'
    BY <1>3, <2>1 DEF AppliedOK, InOrder
  <2>6. Covers(n)'
    <3>1. (lastApplied'[n] + 1)..(pass'[n].next - 1) = {}
      BY <1>0, <2>1, <2>2
    <3>2. QED
      BY <2>1, <3>1 DEF Covers, Executed
  <2>5. QED
    BY <2>3, <2>4, <2>6
<1>6. CASE EndApply(n)
  <2>1. /\ pass[n] # Nil /\ executed' = executed
        /\ log' = log /\ commitIndex' = commitIndex
        /\ lastApplied' = [lastApplied EXCEPT ![n] = AppliedUpTo(n)]
        /\ pass' = [pass EXCEPT ![n] = Nil]
    BY <1>6 DEF EndApply, vars, persistent
  <2>2. lastApplied'[n] = commitIndex[n] /\ pass'[n] = Nil
    BY <1>0, <2>1 DEF PassOK, AppliedUpTo, KVTypeOK
  <2>3. PassOK(n)'
    BY <1>0, <2>1, <2>2 DEF PassOK
  <2>4. AppliedOK(n)' /\ InOrder(n)'
    BY <1>3, <2>1, <2>2 DEF AppliedOK, InOrder
  <2>6. Covers(n)'
    <3>1. /\ missed'[n] = missed[n] \cup (pass[n].to + 1)..commitIndex[n]
          /\ Executed(n)' = Executed(n) /\ pass[n].next = pass[n].to + 1
          /\ lastApplied[n] <= pass[n].to /\ pass[n].to <= commitIndex[n]
          /\ pass[n].to \in Nat
      <4>1. missed' = [missed EXCEPT ![n] = @ \cup (pass[n].to + 1)..AppliedUpTo(n)]
        BY <1>6 DEF EndApply
      <4>2. AppliedUpTo(n) = commitIndex[n]
        BY <1>0, <2>1 DEF PassOK, AppliedUpTo
      <4>3. pass[n].next > pass[n].to
        BY <1>6 DEF EndApply
      <4>4. Executed(n)' = Executed(n)
        BY <2>1 DEF Executed
      <4>5. QED
        BY <1>0, <1>9, <2>1, <4>1, <4>2, <4>3, <4>4 DEF PassOK
    <3>2. /\ 1..lastApplied[n] \subseteq Executed(n) \cup missed[n]
          /\ (lastApplied[n] + 1)..pass[n].to \subseteq Executed(n)
          /\ missed[n] \cap Executed(n) = {} /\ missed[n] \subseteq 1..lastApplied[n]
      BY <1>0, <2>1, <3>1 DEF Covers
    <3>3. \A x \in Executed(n) : x < pass[n].next /\ x \in Nat
      BY <1>0, <1>3, <2>1 DEF Executed, PassOK
    <3>4. 1..lastApplied'[n] \subseteq Executed(n)' \cup missed'[n]
      <4>1. SUFFICES ASSUME NEW x \in 1..commitIndex[n]
                     PROVE  x \in Executed(n) \cup missed[n] \cup (pass[n].to + 1)..commitIndex[n]
        BY <2>2, <3>1
      <4>2. x \in 1..lastApplied[n] \/ x \in (lastApplied[n] + 1)..pass[n].to
            \/ x \in (pass[n].to + 1)..commitIndex[n]
        BY <1>0, <3>1
      <4>3. QED
        BY <3>2, <4>2
    <3>5. missed'[n] \cap Executed(n)' = {}
      <4>1. \A x \in (pass[n].to + 1)..commitIndex[n] : x \notin Executed(n)
        BY <3>1, <3>3
      <4>2. QED
        BY <3>1, <3>2, <4>1
    <3>6. missed'[n] \subseteq 1..lastApplied'[n]
      BY <1>0, <2>2, <3>1, <3>2
    <3>7. QED
      BY <2>2, <3>4, <3>5, <3>6 DEF Covers
  <2>5. QED
    BY <2>3, <2>4, <2>6
<1>7. CASE ApplyNext(n)
  <2> DEFINE i == pass[n].next
             x == <<i, log[n][i]>>
  <2>1. /\ pass[n] # Nil /\ i <= pass[n].to /\ i \in Nat
        /\ log' = log /\ commitIndex' = commitIndex /\ lastApplied' = lastApplied
        /\ pass' = [pass EXCEPT ![n].next = i + 1]
    BY <1>0, <1>7 DEF ApplyNext, vars, persistent
  <2>2. i > lastApplied[n] /\ i <= commitIndex[n] /\ i \in 1..Len(log[n])
    BY <1>0, <2>1 DEF PassOK
  <2>3. executed' = [executed EXCEPT ![n] = Append(@, x)]
    BY <1>0, <1>7, <2>2 DEF ApplyNext, LastIndex
  <2>4. pass'[n] # Nil /\ pass'[n].next = i + 1 /\ pass'[n].to = pass[n].to
    <3>1. pass'[n] = [pass[n] EXCEPT !.next = i + 1]
      BY <2>1 DEF KVTypeOK
    <3>2. pass'[n].next = i + 1 /\ pass'[n].to = pass[n].to
      BY <1>0, <2>1, <3>1
    <3>3. pass'[n] # Nil
      <4>1. pass'[n] \in [next : Nat, to : Nat]
        BY <1>0, <2>1, <3>1
      <4>2. QED
        BY <4>1, PassAssumption
    <3>4. QED
      BY <3>2, <3>3
  <2>5. x \in Nat \X LogEntry /\ x[1] = i /\ x[2] = log[n][i]
    BY <1>0, <2>1, <2>2, ElementOfSeq
  <2>6. executed'[n] = Append(executed[n], x)
    BY <2>3 DEF KVTypeOK
  <2> HIDE DEF x
  <2>7. /\ Len(executed'[n]) = Len(executed[n]) + 1
        /\ \A j \in 1..Len(executed[n]) : executed'[n][j] = executed[n][j]
        /\ executed'[n][Len(executed[n]) + 1] = x
    BY <1>2, <2>5, <2>6, AppendProperties
  <2> HIDE DEF i
  <2>8. \A j \in 1..Len(executed[n]) : executed[n][j][1] < i
    <3>1. ASSUME NEW j \in 1..Len(executed[n])
          PROVE  executed[n][j][1] < i
      <4>1. \/ executed[n][j][1] <= lastApplied[n]
            \/ executed[n][j][1] < i
        BY <1>3 DEF i
      <4>2. executed[n][j][1] \in Nat
        BY <1>3
      <4>3. QED
        BY <1>0, <2>1, <2>2, <4>1, <4>2
    <3>2. QED
      BY <3>1
  <2>9. PassOK(n)'
    BY <1>0, <2>1, <2>2, <2>4 DEF PassOK, i
  <2>10. ASSUME NEW j \in 1..Len(executed'[n])
         PROVE  /\ executed'[n][j][1] \in 1..Len(log'[n])
                /\ executed'[n][j][2] = log'[n][executed'[n][j][1]]
                /\ executed'[n][j][1] <= commitIndex'[n]
                /\ executed'[n][j][1] < pass'[n].next
    <3>1. CASE j \in 1..Len(executed[n])
      <4>1. executed'[n][j] = executed[n][j] /\ executed[n][j][1] < i
            /\ executed[n][j][1] \in Nat
        BY <1>3, <2>7, <2>8, <3>1
      <4>2. QED
        BY <1>3, <2>1, <2>4, <3>1, <4>1
    <3>2. CASE j = Len(executed[n]) + 1
      BY <2>1, <2>2, <2>4, <2>5, <2>7, <3>2
    <3>3. QED
      BY <1>2, <2>7, <3>1, <3>2
  <2>11. AppliedOK(n)'
    BY <2>4, <2>10 DEF AppliedOK
  <2>12. ASSUME NEW j \in 1..Len(executed'[n]), NEW k \in 1..Len(executed'[n]), j < k
         PROVE  executed'[n][j][1] < executed'[n][k][1]
    <3>1. j \in 1..Len(executed[n]) /\ executed'[n][j] = executed[n][j]
      BY <1>2, <2>7, <2>12
    <3>2. CASE k \in 1..Len(executed[n])
      BY <2>7, <2>12, <3>1, <3>2 DEF InOrder
    <3>3. CASE k = Len(executed[n]) + 1
      BY <2>5, <2>7, <2>8, <3>1, <3>3
    <3>4. QED
      BY <1>2, <2>7, <3>2, <3>3
  <2>13. InOrder(n)'
    BY <2>12 DEF InOrder
  <2>15. Covers(n)'
    <3>1. Executed(n)' = Executed(n) \cup {i}
      <4>1. Executed(n)' = {executed'[n][j][1] : j \in 1..Len(executed'[n])}
        BY DEF Executed
      <4>2. 1..Len(executed'[n]) = 1..Len(executed[n]) \cup {Len(executed[n]) + 1}
        BY <1>2, <2>7
      <4>3. \A j \in 1..Len(executed[n]) : executed'[n][j][1] = executed[n][j][1]
        BY <2>7
      <4>4. executed'[n][Len(executed[n]) + 1][1] = i
        BY <2>5, <2>7
      <4> QED BY <4>1, <4>2, <4>3, <4>4 DEF Executed
    <3>2. missed' = missed
      BY <1>7 DEF ApplyNext
    <3>3. i \notin missed[n]
      BY <1>0, <2>2 DEF Covers
    <3>4. (lastApplied[n] + 1)..(i - 1) \subseteq Executed(n)
      BY <2>1 DEF Covers, i
    <3>5. (lastApplied[n] + 1)..(pass'[n].next - 1) \subseteq Executed(n)'
      BY <1>0, <2>1, <2>2, <2>4, <3>1, <3>4
    <3>6. QED
      BY <2>1, <2>4, <3>1, <3>2, <3>3, <3>5 DEF Covers
  <2>14. QED
    BY <2>9, <2>11, <2>13, <2>15
<1>8. CASE /\ lastApplied'[n] = lastApplied[n] /\ pass'[n] = pass[n]
           /\ executed'[n] = executed[n] /\ missed'[n] = missed[n]
           /\ \/ \E k \in Node : Tick(k) \/ Elsewhere(k) \/ \E c \in Command : CallSet(k, c)
              \/ \E m \in late : Late(m)
              \/ UNCHANGED vars
              \/ \E k \in Node \ {n} : Crash(k)
  <2>1. commitIndex'[n] >= commitIndex[n]
    BY <1>8, CommitForward
  <2>2. PassOK(n)'
    BY <1>0, <1>8, <2>1 DEF PassOK
  <2>3. ASSUME NEW j \in 1..Len(executed[n])
        PROVE  /\ executed[n][j][1] \in 1..Len(log'[n])
               /\ executed[n][j][2] = log'[n][executed[n][j][1]]
               /\ executed[n][j][1] <= commitIndex'[n]
               /\ \/ executed[n][j][1] <= lastApplied[n]
                  \/ pass[n] # Nil /\ executed[n][j][1] < pass[n].next
    <3> DEFINE i == executed[n][j][1]
    <3>1. /\ i \in 1..Len(log[n]) /\ executed[n][j][2] = log[n][i] /\ i <= commitIndex[n]
          /\ i <= lastApplied[n] \/ (pass[n] # Nil /\ i < pass[n].next)
      BY <1>3
    <3> HIDE DEF i
    <3>2. i \in 1..Len(log'[n]) /\ log'[n][i] = log[n][i] /\ i <= commitIndex'[n]
      BY <1>0, <1>1, <2>1, <3>1
    <3>3. QED
      BY <3>1, <3>2 DEF i
  <2>4. AppliedOK(n)'
    BY <1>8, <2>3 DEF AppliedOK
  <2>5. InOrder(n)' /\ Covers(n)'
    BY <1>8 DEF InOrder, Covers, Executed
  <2>6. QED
    BY <2>2, <2>4, <2>5
<1>10. QED
  <2> HIDE DEF Goal
  <2>1. QED
    BY <1>4, <1>5, <1>6, <1>7, <1>8, PassSteps

(* Types, and what calls know, over a step.                                  *)
LEMMA KVTypeStep ==
  ASSUME TypeOK, CommitsHold, KVTypeOK, \A n \in Node : PassOK(n), [KVNext]_allVars
  PROVE  KVTypeOK'
<1>1. \A n \in Node : commitIndex[n] \in Nat /\ lastApplied[n] \in Nat
                      /\ log[n] \in Seq(LogEntry) /\ Len(log[n]) \in Nat
  BY LenProperties DEF TypeOK, KVTypeOK
<1>2. ASSUME NEW n \in Node, StartApply(n)
      PROVE  KVTypeOK'
  BY <1>1, <1>2 DEF StartApply, KVTypeOK
<1>3. ASSUME NEW n \in Node, ApplyNext(n)
      PROVE  KVTypeOK'
  <2> DEFINE i == pass[n].next
  <2>1. /\ pass[n] \in [next : Nat, to : Nat] /\ i \in Nat /\ i > lastApplied[n]
        /\ pass' = [pass EXCEPT ![n].next = i + 1]
        /\ UNCHANGED <<lastApplied, missed, waiting, acked>>
    BY <1>3 DEF ApplyNext, KVTypeOK, PassOK
  <2>2. \/ executed' = executed
        \/ /\ executed' = [executed EXCEPT ![n] = Append(@, <<i, log[n][i]>>)]
           /\ i <= Len(log[n])
    BY <1>3 DEF ApplyNext, LastIndex
  <2> HIDE DEF i
  <2>3. pass' \in [Node -> [next : Nat, to : Nat] \cup {Nil}]
    <3>1. [pass[n] EXCEPT !.next = i + 1] \in [next : Nat, to : Nat]
      BY <2>1
    <3>2. pass' = [pass EXCEPT ![n] = [pass[n] EXCEPT !.next = i + 1]]
      BY <2>1
    <3>3. QED
      BY <3>1, <3>2 DEF KVTypeOK
  <2>4. executed' \in [Node -> Seq(Nat \X LogEntry)]
    <3>1. CASE /\ executed' = [executed EXCEPT ![n] = Append(@, <<i, log[n][i]>>)]
               /\ i <= Len(log[n])
      <4>1. i \in 1..Len(log[n])
        BY <1>1, <2>1, <3>1
      <4>2. log[n][i] \in LogEntry
        BY <1>1, <4>1, ElementOfSeq
      <4>3. Append(executed[n], <<i, log[n][i]>>) \in Seq(Nat \X LogEntry)
        BY <2>1, <4>2, AppendProperties DEF KVTypeOK
      <4>4. QED
        BY <3>1, <4>3 DEF KVTypeOK
    <3>2. QED
      BY <2>2, <3>1 DEF KVTypeOK
  <2>5. QED
    BY <2>1, <2>3, <2>4 DEF KVTypeOK
<1>4. ASSUME NEW n \in Node, EndApply(n)
      PROVE  KVTypeOK'
  <2>1. AppliedUpTo(n) \in Nat /\ pass[n].to \in Nat
    BY <1>1, <1>4 DEF EndApply, AppliedUpTo, KVTypeOK
  <2>2. (pass[n].to + 1)..AppliedUpTo(n) \subseteq Nat
    BY <2>1
  <2>3. missed' \in [Node -> SUBSET Nat]
    BY <1>4, <2>2 DEF EndApply, KVTypeOK
  <2>4. QED
    BY <1>4, <2>1, <2>3 DEF EndApply, KVTypeOK
<1>5. ASSUME NEW n \in Node, NEW c \in Command, CallSet(n, c)
      PROVE  KVTypeOK'
  <2>1. [node |-> n, index |-> LastIndex(log[n]) + 1, term |-> currentTerm[n],
         command |-> c] \in Call
    BY <1>1 DEF TypeOK, Call, LastIndex
  <2>2. QED
    BY <1>5, <2>1 DEF CallSet, applyVars, KVTypeOK
<1>6. ASSUME NEW w \in waiting, Acknowledge(w) \/ CommitTimeout(w)
      PROVE  KVTypeOK'
  BY <1>6 DEF Acknowledge, CommitTimeout, applyVars, KVTypeOK
<1>7. ASSUME NEW n \in Node, Crash(n)
      PROVE  KVTypeOK'
  <2>1. << >> \in Seq(Nat \X LogEntry)
    OBVIOUS
  <2>2. QED
    BY <1>7, <2>1 DEF Crash, KVTypeOK
<1>8. CASE \/ \E n \in Node : Tick(n) \/ Elsewhere(n)
           \/ \E m \in late : Late(m)
           \/ UNCHANGED allVars
  BY <1>8 DEF Tick, Elsewhere, Late, allVars, applyVars, kvVars, KVTypeOK
<1>9. QED
  BY <1>2, <1>3, <1>4, <1>5, <1>6, <1>7, <1>8 DEF KVNext

(* A call's entry stays in the leader's log, and on a quorum once answered.  *)
LEMMA CallsStep ==
  ASSUME IInv, IInv', NEW l \in Node, Led(l), LeaderInv(l), KVTypeOK, [KVNext]_allVars,
         CallsOK(l)
  PROVE  CallsOK(l)'
<1>0. /\ TypeOK /\ TypeOK' /\ LogsFollow(l) /\ RequestsFollow(l) /\ CommitsHold
      /\ log[l] \in Seq(LogEntry) /\ Len(log[l]) \in Nat /\ Len(log'[l]) \in Nat
      /\ [Next]_vars
  BY KVStepIsNext, LenProperties DEF IInv, LeaderInv, TypeOK
<1>1. /\ \A p \in Node : Follows(log[p], log'[p])
      /\ Len(log[l]) <= Len(log'[l])
      /\ \A i \in 1..Len(log[l]) : log'[l][i] = log[l][i]
  BY <1>0, LogsGrow DEF Follows
<1> DEFINE Held(w) == /\ w.index \in 1..Len(log'[l])
                      /\ log'[l][w.index] = [term |-> w.term, command |-> w.command]
<1>2. ASSUME NEW w \in waiting \cup acked
      PROVE  Held(w)
  <2>1. /\ w.index \in 1..Len(log[l])
        /\ log[l][w.index] = [term |-> w.term, command |-> w.command]
    BY DEF CallsOK
  <2>2. w.index \in 1..Len(log'[l]) /\ log'[l][w.index] = log[l][w.index]
    BY <1>0, <1>1, <2>1
  <2>3. QED
    BY <2>1, <2>2
<1>3. ASSUME NEW n \in Node, NEW c \in Command, CallSet(n, c)
      PROVE  /\ n = l /\ acked' = acked
             /\ \E w : waiting' = waiting \cup {w} /\ w.node = l /\ Held(w)
  <2> DEFINE w == [node |-> n, index |-> LastIndex(log[n]) + 1, term |-> currentTerm[n],
                   command |-> c]
  <2>1. n = l
    BY <1>3, OnlyLeader DEF CallSet, Propose
  <2>2. /\ log' = [log EXCEPT ![l] = Append(@, [term |-> currentTerm[l], command |-> c])]
        /\ waiting' = waiting \cup {w} /\ acked' = acked
    BY <1>3, <2>1 DEF CallSet, Propose
  <2>3. /\ log'[l] = Append(log[l], [term |-> currentTerm[l], command |-> c])
        /\ [term |-> currentTerm[l], command |-> c] \in LogEntry
    BY <1>0, <2>2 DEF TypeOK, LogEntry
  <2>4. /\ Len(log'[l]) = Len(log[l]) + 1
        /\ log'[l][Len(log[l]) + 1] = [term |-> currentTerm[l], command |-> c]
    BY <1>0, <2>3, AppendProperties
  <2>5. Held(w) /\ w.node = l
    BY <1>0, <2>1, <2>4 DEF LastIndex
  <2>6. QED
    BY <2>1, <2>2, <2>5
<1> HIDE DEF Held
<1>4. /\ \A w \in waiting' \cup acked' : Held(w)
      /\ \A w \in waiting' : w.node = l
      /\ \A w \in acked' : w \in acked \/ (w \in waiting /\ Reached(w))
  <2>1. CASE waiting' \subseteq waiting /\ acked' = acked
    BY <1>2, <2>1 DEF CallsOK
  <2>2. CASE \E n \in Node, c \in Command : CallSet(n, c)
    BY <1>2, <1>3, <2>2 DEF CallsOK
  <2>3. ASSUME NEW w \in waiting, Acknowledge(w)
        PROVE  /\ waiting' \subseteq waiting /\ acked' = acked \cup {w} /\ Reached(w)
    BY <2>3 DEF Acknowledge
  <2>4. CASE \E w \in waiting : Acknowledge(w)
    BY <1>2, <2>3, <2>4 DEF CallsOK
  <2>5. ASSUME ~\E n \in Node, c \in Command : CallSet(n, c),
               ~\E w \in waiting : Acknowledge(w)
        PROVE  waiting' \subseteq waiting /\ acked' = acked
    <3>1. ASSUME NEW n \in Node, StartApply(n) \/ ApplyNext(n) \/ EndApply(n) \/ Tick(n)
                                 \/ Elsewhere(n) \/ Crash(n)
          PROVE  waiting' \subseteq waiting /\ acked' = acked
      BY <3>1 DEF StartApply, ApplyNext, EndApply, Tick, Elsewhere, Crash, kvVars
    <3>2. CASE \/ \E w \in waiting : CommitTimeout(w)
               \/ \E m \in late : Late(m)
               \/ UNCHANGED allVars
      BY <3>2 DEF CommitTimeout, Late, kvVars, allVars
    <3>3. QED
      BY <2>5, <3>1, <3>2 DEF KVNext
  <2>6. QED
    BY <2>1, <2>2, <2>4, <2>5
<1>5. ASSUME NEW w \in acked'
      PROVE  OnQuorum(w.index)'
  <2>1. w.index \in Nat /\ OnQuorum(w.index)
    <3>1. CASE w \in acked
      BY <3>1 DEF CallsOK, KVTypeOK, Call
    <3>2. CASE w \in waiting /\ Reached(w)
      <4>1. w.node = l /\ w.index \in Nat /\ commitIndex[l] >= w.index
        BY <3>2 DEF CallsOK, KVTypeOK, Call, Reached
      <4>2. commitIndex[l] \in Nat /\ OnQuorum(commitIndex[l])
        BY <1>0 DEF TypeOK, CommitsHold
      <4>3. QED
        BY <1>0, <4>1, <4>2, QuorumBelow
    <3>3. QED
      BY <1>4, <3>1, <3>2
  <2>2. QED
    BY <1>0, <1>1, <2>1, QuorumStays
<1>6. QED
  BY <1>4, <1>5 DEF CallsOK, Held

LEMMA KVInvStep ==
  ASSUME IInv, IInv', NEW l \in Node, Led(l), LeaderInv(l), KVInv(l), [KVNext]_allVars
  PROVE  LeaderInv(l)' /\ KVInv(l)'
<1>0. TypeOK /\ CommitsHold /\ KVTypeOK /\ [Next]_vars /\ CallsOK(l)
      /\ \A n \in Node : AppliedOK(n) /\ PassOK(n) /\ InOrder(n) /\ Covers(n)
  BY KVStepIsNext DEF IInv, LeaderInv, KVInv
<1>1. LeaderInv(l)'
  BY <1>0, LeaderInvStep
<1>2. KVTypeOK' /\ CallsOK(l)'
  BY <1>0, KVTypeStep, CallsStep
<1>3. \A n \in Node : AppliedOK(n)' /\ PassOK(n)' /\ InOrder(n)' /\ Covers(n)'
  BY <1>0, AppliesStep
<1>4. QED
  BY <1>1, <1>2, <1>3 DEF KVInv

(* At the start nothing is applied and nobody waits.                         *)
LEMMA KVInvInit ==
  ASSUME KVInit, NEW l \in Node
  PROVE  LeaderInv(l) /\ KVInv(l)
<1>1. Init /\ Len(<< >>) = 0 /\ << >> \in Seq(Nat \X LogEntry)
  BY DEF KVInit
<1>2. LeaderInv(l)
  BY <1>1, LeaderInit
<1>3. KVTypeOK /\ CallsOK(l)
  BY <1>1 DEF KVInit, KVTypeOK, CallsOK
<1>4. \A n \in Node : AppliedOK(n) /\ PassOK(n) /\ InOrder(n) /\ Covers(n)
  BY <1>1 DEF KVInit, Init, AppliedOK, PassOK, InOrder, Covers, Executed
<1>5. QED
  BY <1>2, <1>3, <1>4 DEF KVInv

(* While one node only leads, the invariants hold.                           *)
LEMMA LedHolds ==
  ASSUME NEW l \in Node
  PROVE  KVSpec => [](IInv /\ (Led(l) => LeaderInv(l) /\ KVInv(l)))
<1>1. KVInit => IInv /\ (Led(l) => LeaderInv(l) /\ KVInv(l))
  BY KVInvInit, IInvInductive DEF KVInit
<1>2. IInv /\ (Led(l) => LeaderInv(l) /\ KVInv(l)) /\ [KVNext]_allVars
      => (IInv /\ (Led(l) => LeaderInv(l) /\ KVInv(l)))'
  <2>1. SUFFICES ASSUME IInv, Led(l) => LeaderInv(l) /\ KVInv(l), [KVNext]_allVars
                 PROVE  IInv' /\ (Led(l)' => LeaderInv(l)' /\ KVInv(l)')
    OBVIOUS
  <2>2. [Next]_vars
    BY <2>1, KVStepIsNext
  <2>3. IInv'
    BY <2>1, <2>2, IInvInductive
  <2>4. elected \subseteq elected'
    BY <2>1, <2>2, DiskStepHolds DEF IInv, DiskStep
  <2>5. Led(l)' => Led(l)
    BY <2>4 DEF Led
  <2>6. QED
    BY <2>1, <2>3, <2>5, KVInvStep
<1>3. QED
  BY <1>1, <1>2, PTL DEF KVSpec

(* An entry of the leader's log that a quorum of logs reach is held by them. *)
LEMMA HeldOnQuorum ==
  ASSUME TypeOK, NEW l \in Node, LogsFollow(l), NEW i \in Nat, i \in 1..Len(log[l]), OnQuorum(i)
  PROVE  Cardinality(Holders(i, log[l][i])) >= QuorumSize
<1> USE NodeAssumption
<1>1. \A p \in Node : Len(log[p]) \in Nat
  BY LenProperties DEF TypeOK
<1>2. Reaching(i) \subseteq Holders(i, log[l][i])
  BY <1>1 DEF Reaching, Holders, LogsFollow, Follows, LastIndex
<1>3. Holders(i, log[l][i]) \subseteq Node
  BY DEF Holders
<1>4. /\ Cardinality(Reaching(i)) <= Cardinality(Holders(i, log[l][i]))
      /\ Cardinality(Reaching(i)) \in Nat
      /\ Cardinality(Holders(i, log[l][i])) \in Nat
  BY <1>2, <1>3, FS_Subset, FS_CardinalityType
<1>5. QuorumSize \in Nat
  BY FS_CardinalityType DEF QuorumSize
<1>6. QED
  BY <1>4, <1>5 DEF OnQuorum

(* A state machine is fed its log in order, each index once, and is denied   *)
(* no entry but those committed while a pass ran, as long as one node has    *)
(* been every leader: the pass reads last_applied before and writes it after *)
(* (node.py, _apply_committed), no commit index moves back while a node      *)
(* lives, and the log reaches every committed entry when the pass comes to   *)
(* it.                                                                       *)
THEOREM AppliedOnce ==
  ASSUME NEW l \in Node
  PROVE  KVSpec => [](Led(l) => AppliedInOrder)
<1>1. KVInv(l) => AppliedInOrder
  BY DEF KVInv, InOrder, Covers, AppliedInOrder
<1>2. QED
  BY <1>1, LedHolds, PTL

(* What any state machine applied is in the logs of a quorum, as long as one *)
(* node has been every leader, in however many terms: across crashes, lost   *)
(* answers and requests that come late, a match_index never counts more than *)
(* the follower still has.                                                   *)
THEOREM AppliedStaysDurable ==
  ASSUME NEW l \in Node
  PROVE  KVSpec => [](Led(l) => AppliedIsDurable)
<1>1. ASSUME IInv, LeaderInv(l), KVInv(l)
      PROVE  AppliedIsDurable
  <2>1. TypeOK /\ LogsFollow(l) /\ CommitsHold
    BY <1>1 DEF IInv, LeaderInv
  <2>2. SUFFICES ASSUME NEW n \in Node, NEW j \in 1..Len(executed[n])
                 PROVE  Cardinality(Holders(executed[n][j][1], executed[n][j][2])) >= QuorumSize
    BY DEF AppliedIsDurable
  <2> DEFINE i == executed[n][j][1]
  <2>3. i \in 1..Len(log[n]) /\ executed[n][j][2] = log[n][i] /\ i <= commitIndex[n]
    BY <1>1 DEF KVInv, AppliedOK
  <2> HIDE DEF i
  <2>4. Len(log[n]) \in Nat /\ Len(log[l]) \in Nat /\ commitIndex[n] \in Nat
    BY <2>1, LenProperties DEF TypeOK
  <2>5. i \in Nat /\ i \in 1..Len(log[l]) /\ log[n][i] = log[l][i]
    BY <2>1, <2>3, <2>4 DEF LogsFollow, Follows
  <2>6. OnQuorum(commitIndex[n])
    BY <2>1 DEF CommitsHold
  <2>7. OnQuorum(i)
    BY <2>1, <2>3, <2>4, <2>5, <2>6, QuorumBelow
  <2>8. Cardinality(Holders(i, log[l][i])) >= QuorumSize
    BY <2>1, <2>5, <2>7, HeldOnQuorum
  <2>9. QED
    BY <2>3, <2>5, <2>8 DEF i
<1>2. IInv /\ (Led(l) => LeaderInv(l) /\ KVInv(l)) => (Led(l) => AppliedIsDurable)
  BY <1>1
<1>3. QED
  BY <1>2, LedHolds, PTL

(* A Set or Del that was answered ok is on a quorum at its own index, as long *)
(* as one node has been every leader: wait_for_commit, which looks at the     *)
(* index alone, then cannot take another entry for the caller's.             *)
THEOREM AckedStaysDurable ==
  ASSUME NEW l \in Node
  PROVE  KVSpec => [](Led(l) => AckedIsDurable)
<1>1. ASSUME IInv, LeaderInv(l), KVInv(l)
      PROVE  AckedIsDurable
  <2>1. TypeOK /\ LogsFollow(l) /\ CallsOK(l) /\ KVTypeOK
    BY <1>1 DEF IInv, LeaderInv, KVInv
  <2>2. SUFFICES ASSUME NEW w \in acked
                 PROVE  Cardinality(Holders(w.index, [term |-> w.term, command |-> w.command]))
                            >= QuorumSize
    BY DEF AckedIsDurable
  <2>3. /\ w.index \in Nat /\ w.index \in 1..Len(log[l]) /\ OnQuorum(w.index)
        /\ log[l][w.index] = [term |-> w.term, command |-> w.command]
    BY <2>1 DEF CallsOK, KVTypeOK, Call
  <2>4. Cardinality(Holders(w.index, log[l][w.index])) >= QuorumSize
    BY <2>1, <2>3, HeldOnQuorum
  <2>5. QED
    BY <2>3, <2>4
<1>2. IInv /\ (Led(l) => LeaderInv(l) /\ KVInv(l)) => (Led(l) => AckedIsDurable)
  BY <1>1
<1>3. QED
  BY <1>2, LedHolds, PTL
=============================================================================
