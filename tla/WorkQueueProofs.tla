-------------------------- MODULE WorkQueueProofs --------------------------
(***************************************************************************)
(* Proofs about WorkQueue, for any set of keys and any number of writes:    *)
(* its type invariant, that the queue's list and sets agree, and that no    *)
(* change whose event arrived is forgotten as long as no key fails Overflow *)
(* times in a row.                                                          *)
(***************************************************************************)
EXTENDS WorkQueue, FiniteSetTheorems, SequenceTheorems, TLAPS

InFlight == pc \in {"read", "act", "done"}

(* The worker has a key exactly while it reconciles, and it does not run     *)
(* before start() has ended.                                                *)
WorkerInv ==
    /\ InFlight => at \in Key
    /\ stage \in {"new", "watching", "listing"} => pc = "check"

(* Until the initial listing is taken, what is unknown exists and will be    *)
(* listed, or its event has queued it.                                       *)
StartInv ==
    /\ stage = "new" => unseen = objects /\ missed = {}
    /\ stage = "watching" => unseen \ missed \subseteq objects \cup queued

FailInv == \A k \in Key : failures[k] <= MaxFail

IInv == TypeOK /\ WorkerInv /\ QueueConsistent /\ StartInv /\ FailInv

(* Appending a key that is not in a list without repetitions.               *)
LEMMA EnqueueLine ==
    ASSUME TypeOK, QueueConsistent,
           NEW k \in Key, k \notin queued, Enqueue(k)
    PROVE  /\ pending' \in Seq(Key)
           /\ \A x \in Key : x \in queued' <=> \E i \in DOMAIN pending' : pending'[i] = x
           /\ \A i, j \in DOMAIN pending' : pending'[i] = pending'[j] => i = j
<1>1. /\ pending' = Append(pending, k)
      /\ queued' = queued \cup {k}
      /\ pending \in Seq(Key)
  BY DEF Enqueue, TypeOK
<1>2. /\ pending' \in Seq(Key)
      /\ Len(pending') = Len(pending) + 1
      /\ DOMAIN pending = 1..Len(pending)
      /\ DOMAIN pending' = 1..Len(pending) + 1
      /\ Len(pending) \in Nat
      /\ \A i \in 1..Len(pending) : pending'[i] = pending[i]
      /\ pending'[Len(pending) + 1] = k
  BY <1>1
<1>3. \A i \in DOMAIN pending : pending[i] # k
  BY DEF QueueConsistent
<1>4. ASSUME NEW x \in Key
      PROVE  x \in queued' <=> \E i \in DOMAIN pending' : pending'[i] = x
  <2>1. CASE x = k
    BY <2>1, <1>1, <1>2
  <2>2. CASE x # k
    <3>1. x \in queued' <=> x \in queued
      BY <2>2, <1>1
    <3>2. x \in queued <=> \E i \in DOMAIN pending : pending[i] = x
      BY DEF QueueConsistent
    <3>3. (\E i \in DOMAIN pending : pending[i] = x)
            <=> \E i \in DOMAIN pending' : pending'[i] = x
      BY <2>2, <1>2
    <3> QED BY <3>1, <3>2, <3>3
  <2> QED BY <2>1, <2>2
<1>5. ASSUME NEW i \in DOMAIN pending', NEW j \in DOMAIN pending',
             pending'[i] = pending'[j]
      PROVE  i = j
  <2>1. CASE i \in DOMAIN pending /\ j \in DOMAIN pending
    BY <2>1, <1>2, <1>5 DEF QueueConsistent
  <2>2. CASE i \notin DOMAIN pending \/ j \notin DOMAIN pending
    BY <2>2, <1>2, <1>3, <1>5
  <2> QED BY <2>1, <2>2
<1> QED BY <1>2, <1>4, <1>5

(* What is left of a list without repetitions when its head is taken.       *)
LEMMA TakeLine ==
    ASSUME NEW line \in Seq(Key), line # << >>, NEW S,
           \A x \in Key : x \in S <=> \E i \in DOMAIN line : line[i] = x,
           \A i, j \in DOMAIN line : line[i] = line[j] => i = j
    PROVE  /\ Head(line) \in Key
           /\ Tail(line) \in Seq(Key)
           /\ \A x \in Key : x \in S \ {Head(line)} <=>
                    \E i \in DOMAIN Tail(line) : Tail(line)[i] = x
           /\ \A i, j \in DOMAIN Tail(line) : Tail(line)[i] = Tail(line)[j] => i = j
<1>1. /\ Len(line) \in Nat \ {0}
      /\ DOMAIN line = 1..Len(line)
      /\ Head(line) = line[1]
      /\ Head(line) \in Key
      /\ Tail(line) \in Seq(Key)
      /\ Len(Tail(line)) = Len(line) - 1
      /\ DOMAIN Tail(line) = 1..Len(line) - 1
      /\ \A i \in 1..Len(line) - 1 : Tail(line)[i] = line[i + 1]
  BY HeadTailProperties, EmptySeq
<1>2. ASSUME NEW x \in Key
      PROVE  x \in S \ {Head(line)} <=>
                \E i \in DOMAIN Tail(line) : Tail(line)[i] = x
  <2>1. ASSUME x \in S, x # Head(line)
        PROVE  \E i \in DOMAIN Tail(line) : Tail(line)[i] = x
    <3>1. PICK i \in DOMAIN line : line[i] = x
      BY <2>1
    <3>2. i # 1 /\ i - 1 \in DOMAIN Tail(line) /\ Tail(line)[i - 1] = x
      BY <3>1, <2>1, <1>1
    <3> QED BY <3>2
  <2>2. ASSUME NEW i \in DOMAIN Tail(line), Tail(line)[i] = x
        PROVE  x \in S /\ x # Head(line)
    <3>1. i + 1 \in DOMAIN line /\ line[i + 1] = x /\ 1 \in DOMAIN line /\ i + 1 # 1
      BY <2>2, <1>1
    <3> QED BY <3>1, <1>1
  <2> QED BY <2>1, <2>2
<1>3. ASSUME NEW i \in DOMAIN Tail(line), NEW j \in DOMAIN Tail(line),
             Tail(line)[i] = Tail(line)[j]
      PROVE  i = j
  <2>1. i + 1 \in DOMAIN line /\ j + 1 \in DOMAIN line /\ line[i + 1] = line[j + 1]
    BY <1>1, <1>3
  <2>2. i + 1 = j + 1
    BY <2>1
  <2> QED BY <2>2, <1>1
<1> QED BY <1>1, <1>2, <1>3

(* The queue followed by the keys that woke: still without repetitions.     *)
LEMMA WokenLine ==
    ASSUME TypeOK, QueueConsistent, NEW s \in Orders(Woken)
    PROVE  LET line == pending \o s IN
           /\ line \in Seq(Key)
           /\ \A x \in Key : x \in queued \cup Woken <=>
                    \E i \in DOMAIN line : line[i] = x
           /\ \A i, j \in DOMAIN line : line[i] = line[j] => i = j
<1> DEFINE line == pending \o s
<1>1. IsFiniteSet(Woken) /\ Woken \subseteq Key /\ Woken \cap queued = {}
  BY FS_Subset, KeyAssumption DEF Woken, TypeOK
<1>2. Cardinality(Woken) \in Nat
  BY <1>1, FS_CardinalityType
<1>3. /\ s \in [1..Cardinality(Woken) -> Woken]
      /\ \A x \in Woken : \E i \in DOMAIN s : s[i] = x
      /\ \A i, j \in DOMAIN s : s[i] = s[j] => i = j
  BY DEF Orders
<1>4. s \in Seq(Key) /\ Len(s) = Cardinality(Woken) /\ DOMAIN s = 1..Len(s)
  <2>1. s \in [1..Cardinality(Woken) -> Key]
    BY <1>1, <1>3
  <2> QED BY <2>1, <1>2
<1>5. pending \in Seq(Key) /\ Len(pending) \in Nat /\ DOMAIN pending = 1..Len(pending)
  BY DEF TypeOK
<1>6. /\ line \in Seq(Key)
      /\ DOMAIN line = 1..Len(pending) + Len(s)
      /\ \A i \in 1..Len(pending) : line[i] = pending[i]
      /\ \A i \in 1..Len(s) : line[Len(pending) + i] = s[i]
      /\ Len(s) \in Nat
  BY <1>4, <1>5
<1>7. ASSUME NEW x \in Key
      PROVE  x \in queued \cup Woken <=> \E i \in DOMAIN line : line[i] = x
  <2>1. ASSUME x \in queued PROVE \E i \in DOMAIN line : line[i] = x
    <3>1. PICK i \in DOMAIN pending : pending[i] = x
      BY <2>1 DEF QueueConsistent
    <3>2. i \in DOMAIN line /\ line[i] = x
      BY <3>1, <1>5, <1>6
    <3> QED BY <3>2
  <2>2. ASSUME x \in Woken PROVE \E i \in DOMAIN line : line[i] = x
    <3>1. PICK i \in DOMAIN s : s[i] = x
      BY <2>2, <1>3
    <3>2. Len(pending) + i \in DOMAIN line /\ line[Len(pending) + i] = x
      BY <3>1, <1>4, <1>5, <1>6
    <3> QED BY <3>2
  <2>3. ASSUME NEW i \in DOMAIN line, line[i] = x PROVE x \in queued \cup Woken
    <3>1. CASE i <= Len(pending)
      <4>1. i \in DOMAIN pending /\ pending[i] = x
        BY <3>1, <2>3, <1>5, <1>6
      <4> QED BY <4>1 DEF QueueConsistent
    <3>2. CASE i > Len(pending)
      <4>1. i - Len(pending) \in 1..Len(s)
        BY <3>2, <1>5, <1>6
      <4>2. i = Len(pending) + (i - Len(pending))
        BY <1>5, <1>6
      <4>3. line[i] = s[i - Len(pending)]
        BY <4>1, <4>2, <1>6
      <4>4. s[i - Len(pending)] \in Woken
        BY <4>1, <1>3, <1>4
      <4> QED BY <4>3, <4>4, <2>3
    <3> QED BY <3>1, <3>2, <1>5, <1>6
  <2> QED BY <2>1, <2>2, <2>3
<1>8. ASSUME NEW i \in DOMAIN line, NEW j \in DOMAIN line, line[i] = line[j]
      PROVE  i = j
  <2>1. \A n \in DOMAIN line : n > Len(pending) =>
           /\ n - Len(pending) \in DOMAIN s
           /\ line[n] = s[n - Len(pending)]
           /\ line[n] \in Woken
    <3> SUFFICES ASSUME NEW n \in DOMAIN line, n > Len(pending)
                 PROVE  /\ n - Len(pending) \in DOMAIN s
                        /\ line[n] = s[n - Len(pending)]
                        /\ line[n] \in Woken
      OBVIOUS
    <3>1. n - Len(pending) \in 1..Len(s) /\ n = Len(pending) + (n - Len(pending))
      BY <1>5, <1>6
    <3>2. line[n] = s[n - Len(pending)]
      BY <3>1, <1>6
    <3> QED BY <3>1, <3>2, <1>3, <1>4
  <2>2. \A n \in DOMAIN line : n <= Len(pending) =>
           n \in DOMAIN pending /\ line[n] = pending[n] /\ line[n] \in queued
    BY <1>5, <1>6 DEF QueueConsistent
  <2>3. i \in Nat /\ j \in Nat
    BY <1>5, <1>6
  <2>4. CASE i <= Len(pending) /\ j <= Len(pending)
    BY <2>4, <2>2, <1>8 DEF QueueConsistent
  <2>5. CASE i > Len(pending) /\ j > Len(pending)
    <3>1. i - Len(pending) = j - Len(pending)
      BY <2>5, <2>1, <1>3, <1>8
    <3> QED BY <3>1, <2>3, <1>5
  <2>6. CASE i <= Len(pending) /\ j > Len(pending)
    BY <2>6, <2>1, <2>2, <1>1, <1>8
  <2>7. CASE i > Len(pending) /\ j <= Len(pending)
    BY <2>7, <2>1, <2>2, <1>1, <1>8
  <2> QED BY <2>3, <2>4, <2>5, <2>6, <2>7, <1>5
<1> QED BY <1>6, <1>7, <1>8

-----------------------------------------------------------------------------
(* add keeps the queue consistent, and leaves the key where a reconcile will *)
(* find it.                                                                 *)
LEMMA AddKeeps ==
    ASSUME IInv, NEW k \in Key, Add(k), UNCHANGED <<pc, at>>
    PROVE  /\ pending' \in Seq(Key)
           /\ queued' \subseteq Key
           /\ dirty' \subseteq Key
           /\ QueueConsistent'
           /\ queued \subseteq queued' /\ dirty \subseteq dirty'
           /\ k \in queued' \cup (dirty' \cap processing')
           /\ pc = "check" => k \in queued'
<1> USE DEF IInv
<1>1. /\ UNCHANGED <<processing, failures, delayed, due>>
      /\ queued \subseteq Key /\ dirty \subseteq Key /\ pending \in Seq(Key)
  BY DEF Add, TypeOK
<1>2. CASE k \in processing
  <2>1. UNCHANGED <<pending, queued>> /\ dirty' = dirty \cup {k}
    BY <1>2 DEF Add, AddQueued
  <2>2. QueueConsistent'
    BY <1>1, <2>1 DEF QueueConsistent
  <2>3. pc # "check"
    BY <1>2 DEF QueueConsistent
  <2> QED BY <1>1, <1>2, <2>1, <2>2, <2>3
<1>3. CASE k \notin processing /\ k \in queued
  <2>1. UNCHANGED <<pending, queued, dirty>>
    BY <1>3 DEF Add, AddQueued
  <2>2. QueueConsistent'
    BY <1>1, <2>1 DEF QueueConsistent
  <2> QED BY <1>1, <1>3, <2>1, <2>2
<1>4. CASE k \notin processing /\ k \notin queued
  <2>1. Enqueue(k) /\ dirty' = dirty
    BY <1>4 DEF Add, AddQueued
  <2>2. queued' = queued \cup {k}
    BY <2>1 DEF Enqueue
  <2>3. QueueConsistent'
    <3>1. queued' \cap processing' = {}
      BY <1>1, <1>4, <2>2 DEF QueueConsistent
    <3>2. processing' = {x \in Key : pc' \in {"read", "act", "done"} /\ x = at'}
      BY <1>1 DEF QueueConsistent
    <3> QED BY <3>1, <3>2, <2>1, <1>4, EnqueueLine DEF QueueConsistent
  <2>4. pending' \in Seq(Key)
    BY <2>1, <1>4, EnqueueLine
  <2> QED BY <1>1, <2>1, <2>2, <2>3, <2>4
<1> QED BY <1>2, <1>3, <1>4

(* Taking the head of the queue.                                            *)
LEMMA GetKeeps ==
    ASSUME IInv, Get
    PROVE  /\ TypeOK' /\ QueueConsistent'
           /\ at' \in queued \cup Woken
           /\ queued' = (queued \cup Woken) \ {at'}
           /\ delayed' = delayed \ due
           /\ processing = {}
<1>1. PICK s \in Orders(Woken) : /\ pending \o s # << >>
                                 /\ Take(pending \o s)
                                 /\ at' = Head(pending \o s)
  BY DEF Get
<1> DEFINE line == pending \o s
<1>2. /\ line \in Seq(Key)
      /\ \A x \in Key : x \in queued \cup Woken <=> \E i \in DOMAIN line : line[i] = x
      /\ \A i, j \in DOMAIN line : line[i] = line[j] => i = j
  BY WokenLine DEF IInv
<1>3. /\ line # << >>
      /\ pending' = Tail(line)
      /\ at' = Head(line)
      /\ queued' = (queued \cup Woken) \ {at'}
      /\ processing' = processing \cup {at'}
      /\ delayed' = delayed \ due
      /\ due' = {}
      /\ UNCHANGED <<dirty, failures, stage, toAdd, resyncing, world, unseen, missed>>
      /\ pc = "get" /\ pc' = "read"
  BY <1>1 DEF Take, Get
<1> HIDE DEF line
<1>4. /\ at' \in Key
      /\ pending' \in Seq(Key)
      /\ \A x \in Key : x \in queued' <=> \E i \in DOMAIN pending' : pending'[i] = x
      /\ \A i, j \in DOMAIN pending' : pending'[i] = pending'[j] => i = j
  BY <1>2, <1>3, TakeLine
<1>5. at' \in queued \cup Woken
  <2>1. 1 \in DOMAIN line /\ line[1] = at'
    BY <1>2, <1>3, HeadTailProperties, EmptySeq
  <2> QED BY <1>2, <1>4, <2>1
<1>6. processing = {}
  BY <1>3 DEF IInv, QueueConsistent
<1>7. TypeOK'
  <2>1. queued \subseteq Key /\ due \subseteq delayed /\ delayed \subseteq Key
    BY DEF IInv, TypeOK
  <2>2. Woken \subseteq Key
    BY <2>1 DEF Woken
  <2> QED BY <1>3, <1>4, <1>6, <2>1, <2>2 DEF IInv, TypeOK, Place, world
<1>8. QueueConsistent'
  BY <1>3, <1>4, <1>6 DEF QueueConsistent
<1> QED BY <1>3, <1>5, <1>6, <1>7, <1>8

(* done, whether the key was marked dirty or not.                           *)
LEMMA DoneKeeps ==
    ASSUME IInv, Done
    PROVE  /\ TypeOK' /\ QueueConsistent'
           /\ at \in Key
           /\ queued \subseteq queued' /\ delayed \subseteq delayed'
           /\ at \in dirty => at \in queued'
           /\ dirty' = dirty \ {at}
           /\ processing = {at}
<1>1. PICK again \in BOOLEAN : Requeue(at, again)
  BY DEF Done
<1>2. /\ pc = "done" /\ pc' = "check" /\ at' = Nil
      /\ processing' = processing \ {at}
      /\ UNCHANGED <<failures, due, stage, toAdd, resyncing, world, unseen, missed>>
  BY DEF Done
<1>3. /\ at \in Key
      /\ processing = {at}
      /\ at \notin queued
      /\ processing' = {}
  BY <1>2 DEF IInv, WorkerInv, InFlight, QueueConsistent
<1>4. CASE at \in dirty
  <2>1. Enqueue(at) /\ dirty' = dirty \ {at} /\ delayed' = delayed
    BY <1>1, <1>3, <1>4 DEF Requeue
  <2>2. /\ pending' \in Seq(Key)
        /\ \A x \in Key : x \in queued' <=> \E i \in DOMAIN pending' : pending'[i] = x
        /\ \A i, j \in DOMAIN pending' : pending'[i] = pending'[j] => i = j
    BY <1>3, <2>1, EnqueueLine DEF IInv
  <2>3. queued' = queued \cup {at}
    BY <2>1 DEF Enqueue
  <2>4. TypeOK'
    BY <1>2, <1>3, <2>1, <2>2, <2>3 DEF IInv, TypeOK, Place, world
  <2>5. QueueConsistent'
    BY <1>2, <1>3, <2>2 DEF QueueConsistent
  <2> QED BY <1>3, <2>1, <2>3, <2>4, <2>5
<1>5. CASE at \notin dirty
  <2>1. /\ UNCHANGED <<pending, queued, dirty>>
        /\ delayed' = IF again THEN delayed \cup {at} ELSE delayed
    BY <1>1, <1>5 DEF Requeue
  <2>2. TypeOK'
    BY <1>2, <1>3, <2>1 DEF IInv, TypeOK, Place, world
  <2>3. QueueConsistent'
    BY <1>2, <1>3, <2>1 DEF IInv, QueueConsistent
  <2> QED BY <1>3, <1>5, <2>1, <2>2, <2>3
<1> QED BY <1>4, <1>5

(* fail, whether its arithmetic raises or not.                              *)
LEMMA FailKeeps ==
    ASSUME IInv, Fail
    PROVE  /\ TypeOK' /\ QueueConsistent' /\ FailInv'
           /\ at \in Key
           /\ MaxFail < Overflow => delayed' = delayed \cup {at}
           /\ processing = {at}
<1>1. /\ pc = "act" /\ pc' \in {"dead", "check"} /\ at' = Nil
      /\ processing' = processing \ {at}
      /\ failures' = [failures EXCEPT ![at] = @ + 1]
      /\ failures[at] < MaxFail
      /\ unseen' = unseen \cup {at}
      /\ UNCHANGED <<pending, queued, dirty, stage, toAdd, resyncing, world, missed>>
  BY DEF Fail, Backoff
<1>2. /\ at \in Key
      /\ processing = {at}
      /\ processing' = {}
  BY <1>1 DEF IInv, WorkerInv, InFlight, QueueConsistent
<1>3. failures \in [Key -> Nat] /\ failures[at] \in Nat
  BY <1>2 DEF IInv, TypeOK
<1>4. \/ /\ failures[at] + 1 >= Overflow
         /\ UNCHANGED <<delayed, due>>
      \/ /\ failures[at] + 1 < Overflow
         /\ delayed' = delayed \cup {at} /\ due' = due \ {at}
  BY <1>3, LimitAssumption DEF Fail, Backoff
<1>5. failures' \in [Key -> Nat]
  <2>1. failures[at] + 1 \in Nat
    BY <1>3
  <2> QED BY <1>1, <1>3, <2>1
<1>6. TypeOK'
  BY <1>1, <1>2, <1>4, <1>5 DEF IInv, TypeOK, Place, world
<1>7. QueueConsistent'
  BY <1>1, <1>2 DEF IInv, QueueConsistent
<1>8. FailInv'
  BY <1>1, <1>2, <1>3, LimitAssumption DEF IInv, FailInv
<1>9. MaxFail < Overflow => delayed' = delayed \cup {at}
  BY <1>1, <1>3, <1>4, LimitAssumption
<1> QED BY <1>2, <1>6, <1>7, <1>8, <1>9

-----------------------------------------------------------------------------
(* The invariant holds at the start (controller.py:42-63 and 162-171).      *)
LEMMA InitInv == Init => IInv
<1> SUFFICES ASSUME Init PROVE IInv
  OBVIOUS
<1>1. TypeOK
  BY DEF Init, TypeOK, Stage, Place
<1>2. QueueConsistent
  BY DEF Init, QueueConsistent
<1>3. WorkerInv /\ StartInv /\ FailInv
  BY LimitAssumption DEF Init, WorkerInv, InFlight, StartInv, FailInv
<1> QED BY <1>1, <1>2, <1>3 DEF IInv

(* One step per action; what add, get, done and fail do to the queue is in   *)
(* the lemmas above.                                                         *)
LEMMA InvStep == IInv /\ [Next]_vars => IInv'
<1> SUFFICES ASSUME IInv, [Next]_vars PROVE IInv'
  OBVIOUS
<1> USE DEF IInv
<1>1. CASE UNCHANGED vars
  BY <1>1 DEF vars, queue, world, TypeOK, QueueConsistent, WorkerInv, InFlight,
              StartInv, FailInv
<1>2. CASE Check \/ GetNothing
  <2>1. /\ UNCHANGED <<queue, stage, toAdd, resyncing, at, world, unseen, missed>>
        /\ pc \in {"check", "get"} /\ pc' \in {"check", "get", "exited"}
        /\ stage = "new" \/ stage = "watching" \/ stage = "listing" => pc' = pc
    BY <1>2 DEF Check, GetNothing, WorkerInv
  <2> QED BY <2>1 DEF queue, world, TypeOK, Place, QueueConsistent, WorkerInv,
                      InFlight, StartInv, FailInv
<1>3. CASE Get
  <2>1. TypeOK' /\ QueueConsistent' /\ pc' = "read" /\ stage' = stage
        /\ failures' = failures /\ at' \in queued \cup Woken /\ pc = "get"
    BY <1>3, GetKeeps DEF Get, Take
  <2>2. at' \in Key
    BY <2>1 DEF TypeOK, Woken
  <2>3. stage \notin {"new", "watching", "listing"}
    BY <2>1 DEF WorkerInv
  <2> QED BY <2>1, <2>2, <2>3 DEF WorkerInv, InFlight, StartInv, FailInv
<1>4. CASE Read \/ Succeed
  <2>1. /\ pc \in {"read", "act"} /\ pc' \in {"act", "done"}
        /\ UNCHANGED <<pending, queued, processing, dirty, delayed, due, stage,
                       toAdd, resyncing, at, world>>
        /\ at \in Key
        /\ stage \notin {"new", "watching", "listing"}
    BY <1>4 DEF Read, Succeed, queue, WorkerInv, InFlight
  <2>2. /\ unseen' \subseteq unseen /\ missed' \subseteq unseen'
        /\ failures' = [failures EXCEPT ![at] = 0] \/ failures' = failures
    BY <1>4 DEF Read, Succeed, queue, TypeOK
  <2>3. TypeOK'
    BY <2>1, <2>2 DEF TypeOK, Place, world
  <2>4. FailInv'
    BY <2>1, <2>2, LimitAssumption DEF TypeOK, FailInv
  <2> QED BY <2>1, <2>2, <2>3, <2>4 DEF QueueConsistent, WorkerInv, InFlight, StartInv
<1>5. CASE Done
  <2>1. TypeOK' /\ QueueConsistent' /\ pc = "done" /\ pc' = "check"
        /\ stage' = stage /\ failures' = failures
    BY <1>5, DoneKeeps DEF Done
  <2> QED BY <2>1 DEF WorkerInv, InFlight, StartInv, FailInv
<1>6. CASE Fail
  <2>1. TypeOK' /\ QueueConsistent' /\ FailInv' /\ pc = "act"
        /\ pc' \in {"dead", "check"} /\ stage' = stage
    BY <1>6, FailKeeps DEF Fail
  <2> QED BY <2>1 DEF WorkerInv, InFlight, StartInv
<1>7. CASE Watch
  BY <1>7 DEF Watch, queue, world, TypeOK, Stage, QueueConsistent, WorkerInv,
              InFlight, StartInv, FailInv
<1>8. CASE List
  BY <1>8 DEF List, queue, world, TypeOK, Stage, QueueConsistent, WorkerInv,
              InFlight, StartInv, FailInv
<1>9. CASE StartThreads \/ Stop
  BY <1>9 DEF StartThreads, Stop, queue, world, TypeOK, Stage, QueueConsistent,
              WorkerInv, InFlight, StartInv, FailInv
<1>10. CASE ListAgain
  BY <1>10 DEF ListAgain, Resynced, queue, world, TypeOK, QueueConsistent,
               WorkerInv, InFlight, StartInv, FailInv
<1>11. CASE \E k \in Key : AddListed(k) \/ AddAgain(k)
  <2>1. PICK k \in Key : AddListed(k) \/ AddAgain(k)
    BY <1>11
  <2>2. /\ Add(k)
        /\ UNCHANGED <<stage, pc, at, objects, writes, unseen>>
        /\ toAdd' \subseteq toAdd /\ resyncing' \subseteq resyncing
        /\ missed' \subseteq missed
        /\ UNCHANGED <<processing, failures, delayed, due>>
        /\ stage # "watching" \/ AddAgain(k)
    BY <2>1 DEF AddListed, AddAgain, Add, world
  <2>3. /\ pending' \in Seq(Key) /\ queued' \subseteq Key /\ dirty' \subseteq Key
        /\ QueueConsistent'
        /\ queued \subseteq queued' /\ (pc = "check" => k \in queued')
    BY <2>2, AddKeeps
  <2>4. TypeOK'
    BY <2>2, <2>3 DEF TypeOK
  <2>5. WorkerInv' /\ FailInv'
    BY <2>2 DEF WorkerInv, InFlight, FailInv
  <2>6. StartInv'
    BY <2>2, <2>3, <2>4 DEF StartInv, WorkerInv, TypeOK, Add
  <2> QED BY <2>3, <2>4, <2>5, <2>6
<1>12. CASE \E k \in Key : Expire(k)
  BY <1>12 DEF Expire, world, TypeOK, QueueConsistent, WorkerInv, InFlight,
               StartInv, FailInv
<1>13. CASE \E k \in Key : Write(k)
  <2>1. PICK k \in Key : Write(k)
    BY <1>13
  <2>2. /\ UNCHANGED <<stage, toAdd, resyncing, pc, at>>
        /\ writes' = writes + 1
        /\ objects' = objects \cup {k} \/ objects' = objects \ {k}
        /\ objects' \subseteq Key
    BY <2>1 DEF Write, TypeOK
  <2>3. CASE Heard /\ Add(k) /\ unseen' = unseen \cup {k}
    <3>1. /\ pending' \in Seq(Key) /\ queued' \subseteq Key /\ dirty' \subseteq Key
          /\ QueueConsistent'
          /\ queued \subseteq queued' /\ (pc = "check" => k \in queued')
      BY <2>2, <2>3, AddKeeps
    <3>2. UNCHANGED <<processing, failures, delayed, due>> /\ missed' = missed \ {k}
      BY <2>3 DEF Add
    <3>3. TypeOK'
      BY <2>2, <2>3, <3>1, <3>2 DEF TypeOK
    <3>4. WorkerInv' /\ FailInv'
      BY <2>2, <3>2 DEF WorkerInv, InFlight, FailInv
    <3>5. stage # "new"
      BY <2>3 DEF Heard
    <3>6. StartInv'
      BY <2>2, <2>3, <3>1, <3>2, <3>5 DEF StartInv, WorkerInv
    <3> QED BY <3>1, <3>3, <3>4, <3>6
  <2>4. CASE Heard /\ missed' = missed \cup {k} /\ unseen' = unseen \cup {k}
             /\ UNCHANGED queue
    <3>1. stage # "new"
      BY <2>4 DEF Heard
    <3> QED BY <2>2, <2>4, <3>1 DEF queue, TypeOK, QueueConsistent, WorkerInv,
                 InFlight, StartInv, FailInv
  <2>5. CASE stage = "new" /\ unseen' = objects' /\ UNCHANGED <<queue, missed>>
    <3>1. missed = {}
      BY <2>5 DEF StartInv
    <3> QED BY <2>2, <2>5 DEF queue, TypeOK, QueueConsistent, WorkerInv,
                 InFlight, StartInv, FailInv
  <2>6. CASE stage = "stopped" /\ unseen' = unseen \cup {k}
             /\ UNCHANGED <<queue, missed>>
    BY <2>2, <2>6 DEF queue, TypeOK, QueueConsistent, WorkerInv, InFlight,
         StartInv, FailInv
  <2> QED BY <2>1, <2>3, <2>4, <2>5, <2>6 DEF Write
<1> QED BY <1>1, <1>2, <1>3, <1>4, <1>5, <1>6, <1>7, <1>8, <1>9, <1>10, <1>11,
           <1>12, <1>13 DEF Next, Worker, Start, Resync

-----------------------------------------------------------------------------
(* The same steps for NoChangeLost: only a completed read, a lost event or a *)
(* key that is put somewhere takes a change away.                            *)
LEMMA LostStep ==
    ASSUME MaxFail < Overflow, IInv, NoChangeLost, [Next]_vars
    PROVE  NoChangeLost'
<1> SUFFICES ASSUME stage' \in {"listing", "working"},
                    NEW k \in unseen' \ missed'
             PROVE  \/ k \in queued' \cup delayed' \cup toAdd'
                    \/ k \in dirty' \cap processing'
                    \/ k = at' /\ pc' = "read"
  BY DEF NoChangeLost
<1> DEFINE Kept == \/ k \in queued \cup delayed \cup toAdd
                   \/ k \in dirty \cap processing
                   \/ k = at /\ pc = "read"
<1>0. stage \in {"listing", "working"} /\ k \in unseen \ missed => Kept
  BY DEF NoChangeLost
<1>1. CASE UNCHANGED vars
  BY <1>0, <1>1 DEF vars, queue, world
<1>2. CASE Check \/ GetNothing \/ ListAgain \/ \E x \in Key : Expire(x)
  <2>1. UNCHANGED <<queued, delayed, toAdd, dirty, processing, at, stage, unseen, missed>>
    BY <1>2 DEF Check, GetNothing, ListAgain, Expire, queue
  <2>2. pc = "read" => pc' = "read"
    BY <1>2 DEF Check, GetNothing, ListAgain, Expire
  <2> QED BY <1>0, <2>1, <2>2
<1>3. CASE Get
  <2>1. /\ UNCHANGED <<stage, toAdd, unseen, missed>> /\ pc' = "read" /\ pc = "get"
    BY <1>3 DEF Get
  <2>2. /\ queued' = (queued \cup Woken) \ {at'}
        /\ delayed' = delayed \ due
        /\ processing = {}
    BY <1>3, GetKeeps
  <2>3. CASE k \in queued \/ k \in toAdd
    BY <2>1, <2>2, <2>3
  <2>4. CASE k \in delayed
    BY <2>1, <2>2, <2>4 DEF Woken
  <2> QED BY <1>0, <2>1, <2>2, <2>3, <2>4
<1>4. CASE Read
  BY <1>0, <1>4 DEF Read, queue
<1>5. CASE Succeed
  BY <1>0, <1>5 DEF Succeed
<1>6. CASE Done
  <2>1. UNCHANGED <<stage, toAdd, unseen, missed>> /\ pc = "done"
    BY <1>6 DEF Done
  <2>2. /\ queued \subseteq queued' /\ delayed \subseteq delayed'
        /\ at \in dirty => at \in queued'
        /\ processing = {at}
    BY <1>6, DoneKeeps
  <2> QED BY <1>0, <2>1, <2>2
<1>7. CASE Fail
  <2>1. /\ UNCHANGED <<queued, stage, toAdd, missed>> /\ pc = "act"
        /\ unseen' = unseen \cup {at}
    BY <1>7 DEF Fail, Backoff
  <2>2. delayed' = delayed \cup {at} /\ processing = {at}
    BY <1>7, FailKeeps
  <2> QED BY <1>0, <2>1, <2>2
<1>8. CASE Watch \/ Stop
  BY <1>8 DEF Watch, Stop
<1>9. CASE List
  <2>1. /\ toAdd' = objects /\ queued' = queued /\ unseen' = unseen /\ missed' = missed
        /\ stage = "watching"
    BY <1>9 DEF List, queue
  <2> QED BY <2>1 DEF IInv, StartInv
<1>10. CASE StartThreads
  BY <1>0, <1>10 DEF StartThreads, queue
<1>11. CASE \E x \in Key : AddListed(x) \/ AddAgain(x)
  <2>1. PICK x \in Key : AddListed(x) \/ AddAgain(x)
    BY <1>11
  <2>2. /\ Add(x)
        /\ UNCHANGED <<stage, pc, at, unseen, processing, delayed>>
        /\ toAdd \subseteq toAdd' \cup {x}
        /\ missed' = missed \ {x}
    BY <2>1 DEF AddListed, AddAgain, Add, world
  <2>3. /\ queued \subseteq queued' /\ dirty \subseteq dirty'
        /\ x \in queued' \cup (dirty' \cap processing')
    BY <2>2, AddKeeps
  <2> QED BY <1>0, <2>2, <2>3
<1>12. CASE \E x \in Key : Write(x)
  <2>1. PICK x \in Key : Write(x)
    BY <1>12
  <2>2. UNCHANGED <<stage, toAdd, resyncing, pc, at>>
    BY <2>1 DEF Write
  <2>3. CASE Add(x) /\ unseen' = unseen \cup {x}
    <3>1. /\ queued \subseteq queued' /\ dirty \subseteq dirty'
          /\ x \in queued' \cup (dirty' \cap processing')
      BY <2>2, <2>3, AddKeeps
    <3>2. UNCHANGED <<processing, delayed>> /\ missed' = missed \ {x}
      BY <2>3 DEF Add
    <3> QED BY <1>0, <2>2, <2>3, <3>1, <3>2
  <2>4. CASE missed' = missed \cup {x} /\ unseen' = unseen \cup {x} /\ UNCHANGED queue
    BY <1>0, <2>2, <2>4 DEF queue
  <2>5. CASE stage \in {"new", "stopped"}
    BY <2>2, <2>5
  <2> QED BY <2>1, <2>3, <2>4, <2>5 DEF Write
<1> QED BY <1>1, <1>2, <1>3, <1>4, <1>5, <1>6, <1>7, <1>8, <1>9, <1>10, <1>11,
           <1>12 DEF Next, Worker, Start, Resync

-----------------------------------------------------------------------------
(* The fields of WorkQueue and the two threads keep their types, whatever    *)
(* arrives, fails or is stopped.                                             *)
THEOREM TypeCorrect == Spec => []TypeOK
<1>1. IInv => TypeOK
  BY DEF IInv
<1> QED BY <1>1, InitInv, InvStep, PTL DEF Spec

(* No key is queued twice or while it is being reconciled, through every     *)
(* interleaving of add, get, done and fail.                                  *)
THEOREM NeverQueuedTwice == Spec => []QueueConsistent
<1>1. IInv => QueueConsistent
  BY DEF IInv
<1> QED BY <1>1, InitInv, InvStep, PTL DEF Spec

(* No change whose event arrived is forgotten, if no key fails Overflow      *)
(* times in a row: with more failures fail() itself raises (the run           *)
(* WorkQueueOverflow).                                                       *)
THEOREM ChangesAreKept ==
    ASSUME MaxFail < Overflow
    PROVE  Spec => []NoChangeLost
<1>1. Init => NoChangeLost
  BY DEF Init, NoChangeLost
<1>2. IInv /\ NoChangeLost /\ [Next]_vars => NoChangeLost'
  BY LostStep
<1> QED BY <1>1, <1>2, InitInv, InvStep, PTL DEF Spec
=============================================================================
