-------------------------- MODULE TaskBrokerProofs --------------------------
(***************************************************************************)
(* Proofs about TaskBroker, for any sets of tasks and workers and any        *)
(* bounds: its type invariant, that no two threads own a task, that the     *)
(* broker forgets none, and that none is delivered too often.               *)
(***************************************************************************)
EXTENDS TaskBroker, TLAPS

(* A thread in the middle of something has a task.                          *)
HandInv ==
    /\ dpc # "look" => wc \in Conn /\ hand \in Task
    /\ \A c \in Conn : hpc[c] \in {"requeue", "save"} => held[c] \in Task

(* A queued task is on disk, or will be when some thread gets to it.        *)
RowInv == \A t \in heap : row[t] # Nil \/ t \in BeingSaved

(* What has not been published is nowhere.                                  *)
PublishedInv ==
    /\ heap \cup pending \cup InHand \cup BeingSaved \subseteq published
    /\ \A t \in Task \ published : row[t] = Nil /\ attempts[t] = 0

(* A queued task has been delivered at most once per retry counted; the     *)
(* delivery that is one ahead of the count is outside the queue.            *)
AttemptInv ==
    /\ \A t \in Task : attempts[t] <= retries[t] + 1 /\ attempts[t] <= MaxRetries + 1
    /\ \A t \in Task :
          t \in heap \/ (dpc \in {"delete", "write"} /\ hand = t) =>
             attempts[t] <= retries[t] /\ attempts[t] <= MaxRetries

IInv ==
    /\ TypeOK /\ HandInv
    /\ OneOwner /\ TaskIsKept /\ RowInv /\ PublishedInv /\ AttemptInv

(* A connection is a worker's.                                              *)
LEMMA ConnWorker == \A c \in Conn : c[1] \in Worker
BY DEF Conn

-----------------------------------------------------------------------------
(* Types *)

(* The dispatcher keeps the types (server.py:267-308).                      *)
LEMMA DispatcherTypes == ASSUME IInv, Dispatcher PROVE TypeOK'
<1> USE DEF IInv, TypeOK, HandInv, broker, reaper, handlers, network, history,
        queue, dispatcher
<1>1. CASE Scan
  BY <1>1 DEF Scan
<1>2. CASE DeleteRow
  BY <1>2 DEF DeleteRow
<1>3. CASE Deliver
  <2>1. hand \in Task /\ wc \in Conn /\ <<hand, retries[hand]>> \in Job
    BY <1>3 DEF Deliver, Job
  <2>2. toWorker' \in [Conn -> Seq(Job)]
    BY <1>3, <2>1 DEF Deliver
  <2>3. attempts' \in [Task -> Nat]
    BY <1>3, <2>1 DEF Deliver
  <2> QED BY <1>3, <2>2, <2>3 DEF Deliver
<1>4. CASE Record
  BY <1>4 DEF Record, NextWorker
<1>5. CASE DeliverFails
  BY <1>5 DEF DeliverFails, Push
<1>6. CASE SaveUndelivered
  BY <1>6 DEF SaveUndelivered, Save
<1>7. CASE DropWorker
  BY <1>7 DEF DropWorker, NextWorker
<1>8. ASSUME NEW c \in Conn, Skip(c) PROVE TypeOK'
  BY <1>8 DEF Skip
<1>9. ASSUME NEW c \in Conn, NEW t \in Task, Dequeue(c, t) PROVE TypeOK'
  BY <1>9 DEF Dequeue
<1> QED BY <1>1, <1>2, <1>3, <1>4, <1>5, <1>6, <1>7, <1>8, <1>9 DEF Dispatcher

(* What both retries do to a task keeps the types (server.py:225-230).      *)
LEMMA RetryTypes ==
    ASSUME TypeOK, NEW t \in Task, Retry(t)
    PROVE  heap' \subseteq Task /\ retries' \in [Task -> Nat] /\ dropped' \subseteq Task
BY DEF TypeOK, Retry, Push

(* The reaper keeps the types (server.py:310-335).                          *)
LEMMA ReaperTypes == ASSUME IInv, Reaper PROVE TypeOK'
<1> USE DEF IInv, TypeOK, HandInv, broker, dispatcher, reaper, handlers,
        network, history, queue
<1>1. ASSUME NEW S \in SUBSET Task, Reap(S) PROVE TypeOK'
  BY <1>1 DEF Reap
<1>2. ASSUME NEW t \in Task, RetryReaped(t) PROVE TypeOK'
  BY <1>2, RetryTypes DEF RetryReaped
<1>3. CASE SaveReaped
  BY <1>3 DEF SaveReaped, Save
<1> QED BY <1>1, <1>2, <1>3 DEF Reaper

(* A connection's handler keeps the types (server.py:119-179).              *)
LEMMA HandlerTypes == ASSUME IInv, NEW c \in Conn, Handler(c) PROVE TypeOK'
<1> USE DEF IInv, TypeOK, HandInv, broker, dispatcher, reaper, handlers,
        network, history, queue
<1>1. c[1] \in Worker
  BY ConnWorker
<1>2. ASSUME NEW type, Arrives(c, type) PROVE toBroker' \in [Conn -> Seq(Message)]
  BY <1>2 DEF Arrives
<1>3. CASE Subscribe(c)
  BY <1>1, <1>2, <1>3 DEF Subscribe
<1>4. CASE Ack(c)
  BY <1>2, <1>4 DEF Ack, Release
<1>5. CASE Result(c)
  BY <1>2, <1>5 DEF Result, Release
<1>6. CASE FreeWorker(c)
  BY <1>6 DEF FreeWorker
<1>7. CASE Nack(c)
  BY <1>2, <1>7 DEF Nack
<1>8. CASE RetryNacked(c)
  <2>1. held[c] \in Task /\ Retry(held[c])
    BY <1>8 DEF RetryNacked
  <2>2. heap' \subseteq Task /\ retries' \in [Task -> Nat] /\ dropped' \subseteq Task
    BY <2>1, RetryTypes
  <2>3. /\ hpc' \in [Conn -> {"read", "free", "requeue", "save"}]
        /\ held' \in [Conn -> Task \cup {Nil}]
    BY <1>8 DEF RetryNacked
  <2> QED BY <1>8, <2>2, <2>3 DEF RetryNacked
<1>9. CASE SaveNacked(c)
  BY <1>9 DEF SaveNacked, Save
<1>10. CASE Close(c)
  BY <1>1, <1>10 DEF Close
<1> QED BY <1>3, <1>4, <1>5, <1>6, <1>7, <1>8, <1>9, <1>10 DEF Handler

(* Workers, network and crashes keep the types (worker.py:139-274).         *)
LEMMA OutsideTypes == ASSUME IInv, Outside PROVE TypeOK'
<1> USE DEF IInv, TypeOK, broker, dispatcher, reaper, handlers, network,
        history, queue
<1>1. ASSUME NEW c \in Conn, NEW type \in {"SUBSCRIBE", "ACK", "NACK", "RESULT"},
             NEW t \in Task \cup {Nil}, Send(c, type, t)
      PROVE  toBroker' \in [Conn -> Seq(Message)]
  <2>1. [type |-> type, task |-> t] \in Message
    BY DEF Message
  <2> QED BY <1>1, <2>1 DEF Send
<1>2. ASSUME NEW w \in Worker, NEW c \in Conn, Connect(w, c) PROVE TypeOK'
  BY <1>1, <1>2 DEF Connect
<1>3. ASSUME NEW w \in Worker, NEW job \in running[w], Finish(w, job) PROVE TypeOK'
  <2>1. job[1] \in Task
    BY DEF Job
  <2>2. toBroker' \in [Conn -> Seq(Message)]
    BY <1>1, <1>3, <2>1 DEF Finish
  <2>3. running' \in [Worker -> SUBSET Job]
    BY <1>3 DEF Finish
  <2> QED BY <1>3, <2>2, <2>3 DEF Finish
<1>4. ASSUME NEW c \in Conn, Receive(c) PROVE TypeOK'
  <2>1. /\ Head(toWorker[c]) \in Job
        /\ Tail(toWorker[c]) \in Seq(Job)
    BY <1>4 DEF Receive
  <2>2. Head(toWorker[c])[1] \in Task
    BY <2>1 DEF Job
  <2>3. toBroker' \in [Conn -> Seq(Message)]
    BY <1>1, <1>4, <2>2 DEF Receive
  <2>4. running' \in [Worker -> SUBSET Job]
    BY <1>4, <2>1, ConnWorker DEF Receive
  <2> QED BY <1>4, <2>1, <2>3, <2>4 DEF Receive
<1>5. ASSUME NEW c \in Conn, Cut(c) PROVE TypeOK'
  <2>1. \A i \in 0..Len(toBroker[c]) : SubSeq(toBroker[c], 1, i) \in Seq(Message)
    OBVIOUS
  <2>2. toBroker' \in [Conn -> Seq(Message)]
    BY <1>5, <2>1 DEF Cut
  <2>3. toWorker' \in [Conn -> Seq(Job)]
    BY <1>5 DEF Cut
  <2>4. running' \in [Worker -> SUBSET Job]
    BY <1>5 DEF Cut
  <2> QED BY <1>5, <2>2, <2>3, <2>4 DEF Cut
<1> QED BY <1>2, <1>3, <1>4, <1>5 DEF Outside

(* Every step keeps the types.                                              *)
LEMMA TypeStep == ASSUME IInv, [Next]_vars PROVE TypeOK'
<1> USE DEF IInv, TypeOK
<1>1. ASSUME NEW t \in Task, Publish(t) PROVE TypeOK'
  BY <1>1 DEF Publish, Push, broker, dispatcher, reaper, network
<1>2. ASSUME NEW t \in Task, SavePublished(t) PROVE TypeOK'
  BY <1>2 DEF SavePublished, Save, broker, dispatcher, reaper, network, history
<1>3. CASE Restart
  BY <1>3 DEF Restart, BeingSaved
<1>4. CASE UNCHANGED vars
  BY <1>4 DEF vars, broker, dispatcher, reaper, handlers, network, history, queue
<1> QED BY <1>1, <1>2, <1>3, <1>4, DispatcherTypes, ReaperTypes, HandlerTypes,
           OutsideTypes DEF Next
-----------------------------------------------------------------------------
(* Where a task is *)

Core == HandInv /\ OneOwner /\ TaskIsKept /\ RowInv /\ PublishedInv /\ AttemptInv

(* Steps that move no task.                                                 *)
LEMMA Quiet ==
    ASSUME IInv,
           UNCHANGED <<queue, pending, dpc, wc, hand, reaper, held, publishing, history>>,
           \A c \in Conn :
              hpc'[c] = hpc[c] \/ {hpc[c], hpc'[c]} \subseteq {"read", "free"}
    PROVE  Core'
<1> USE DEF IInv, Core, queue, reaper, history
<1>1. InHand' = InHand /\ BeingSaved' = BeingSaved
  BY DEF InHand, BeingSaved
<1>2. HandInv'
  BY DEF HandInv
<1>3. OneOwner'
  BY <1>1 DEF OneOwner
<1>4. TaskIsKept'
  BY <1>1 DEF TaskIsKept
<1>5. RowInv'
  BY <1>1 DEF RowInv
<1>6. PublishedInv'
  BY <1>1 DEF PublishedInv
<1>7. AttemptInv'
  BY DEF AttemptInv
<1> QED BY <1>2, <1>3, <1>4, <1>5, <1>6, <1>7

(* publish: the task was nowhere, and its row is on its way.                 *)
LEMMA PublishCore ==
    ASSUME IInv, NEW t \in Task, Publish(t)
    PROVE  Core'
<1> USE BrokerAssumption DEF IInv, TypeOK, Publish, Push, broker, dispatcher,
        reaper, network
<1>1. InHand' = InHand
  BY DEF InHand
<1>2. BeingSaved' = BeingSaved \cup {t}
  BY DEF BeingSaved
<1>3. t \notin heap \cup pending \cup InHand
  BY DEF PublishedInv
<1>4. HandInv'
  BY DEF HandInv
<1>5. OneOwner'
  BY <1>1, <1>2, <1>3 DEF OneOwner, HandInv, InHand
<1>6. TaskIsKept'
  BY <1>1, <1>2, <1>3 DEF TaskIsKept, HandInv
<1>7. RowInv'
  BY <1>1, <1>2, <1>3 DEF RowInv, HandInv
<1>8. PublishedInv'
  BY <1>1, <1>2, <1>3 DEF PublishedInv, HandInv
<1>9. AttemptInv'
  BY DEF AttemptInv, HandInv, PublishedInv
<1> QED BY <1>4, <1>5, <1>6, <1>7, <1>8, <1>9 DEF Core

(* The core of the invariant is kept by Publish's row.                      *)
LEMMA SavePublishedCore ==
    ASSUME IInv, NEW t \in Task, SavePublished(t)
    PROVE  Core'
<1> USE BrokerAssumption DEF IInv, TypeOK, SavePublished, Save, broker,
        dispatcher, reaper, network, history
<1>1. InHand' = InHand
  BY DEF InHand
<1>2. BeingSaved' \subseteq BeingSaved
  BY DEF BeingSaved
<1>3. BeingSaved \subseteq BeingSaved' \cup {t}
  BY DEF BeingSaved
<1>4. row'[t] # Nil
  BY DEF HandInv
<1>5. t \in BeingSaved
  BY DEF BeingSaved
<1>6. HandInv'
  BY DEF HandInv
<1>7. OneOwner'
  BY <1>1, <1>2, <1>3, <1>4, <1>5 DEF OneOwner, HandInv, InHand
<1>8. TaskIsKept'
  BY <1>1, <1>2, <1>3, <1>4, <1>5 DEF TaskIsKept, HandInv
<1>9. RowInv'
  BY <1>1, <1>2, <1>3, <1>4, <1>5 DEF RowInv, HandInv
<1>10. PublishedInv'
  BY <1>1, <1>2, <1>3, <1>4, <1>5 DEF PublishedInv, HandInv
<1>11. AttemptInv'
  BY DEF AttemptInv, HandInv
<1> QED BY <1>6, <1>7, <1>8, <1>9, <1>10, <1>11 DEF Core

(* The dispatcher's steps.  Its hand has left the queue and nobody else has   *)
(* the task, until it is recorded or pushed again.                          *)
LEMMA DequeueCore ==
    ASSUME IInv, NEW c \in Conn, NEW t \in Task, Dequeue(c, t)
    PROVE  Core'
<1> USE BrokerAssumption DEF IInv, TypeOK, Dequeue, broker, reaper, handlers,
        network, history
<1>1. InHand' = InHand \cup {t}
  BY DEF InHand
<1>2. BeingSaved' = BeingSaved
  BY DEF BeingSaved
<1>3. HandInv'
  BY DEF HandInv
<1>4. OneOwner'
  BY <1>1, <1>2 DEF OneOwner, HandInv, InHand
<1>5. TaskIsKept'
  BY <1>1, <1>2 DEF TaskIsKept, HandInv
<1>6. RowInv'
  BY <1>1, <1>2 DEF RowInv, HandInv
<1>7. PublishedInv'
  BY <1>1, <1>2 DEF PublishedInv, HandInv
<1>8. AttemptInv'
  BY DEF AttemptInv, HandInv
<1> QED BY <1>3, <1>4, <1>5, <1>6, <1>7, <1>8 DEF Core

(* The core of the invariant is kept by the deletion of the row of a task   *)
(* that was popped.                                                         *)
LEMMA DeleteRowCore ==
    ASSUME IInv, DeleteRow
    PROVE  Core'
<1> USE BrokerAssumption DEF IInv, TypeOK, DeleteRow, broker, reaper, handlers,
        network, history
<1>1. InHand' = InHand
  BY DEF InHand, HandInv
<1>2. BeingSaved' = BeingSaved
  BY DEF BeingSaved, HandInv
<1>3. hand \in InHand
  BY DEF InHand, HandInv
<1>4. HandInv'
  BY DEF HandInv
<1>5. OneOwner'
  BY <1>1, <1>2, <1>3 DEF OneOwner, HandInv, InHand
<1>6. TaskIsKept'
  BY <1>1, <1>2, <1>3 DEF TaskIsKept, HandInv
<1>7. RowInv'
  BY <1>1, <1>2, <1>3 DEF RowInv, HandInv, OneOwner
<1>8. PublishedInv'
  BY <1>1, <1>2, <1>3 DEF PublishedInv, HandInv
<1>9. AttemptInv'
  BY DEF AttemptInv, HandInv
<1> QED BY <1>4, <1>5, <1>6, <1>7, <1>8, <1>9 DEF Core

(* The core of the invariant is kept by the dispatcher's write of DELIVER.  *)
LEMMA DeliverCore ==
    ASSUME IInv, Deliver
    PROVE  Core'
<1> USE BrokerAssumption DEF IInv, TypeOK, Deliver, queue, broker, reaper,
        handlers
<1>1. InHand' = InHand
  BY DEF InHand, HandInv
<1>2. BeingSaved' = BeingSaved
  BY DEF BeingSaved, HandInv
<1>3. hand \in InHand
  BY DEF InHand, HandInv
<1>4. HandInv'
  BY DEF HandInv
<1>5. OneOwner'
  BY <1>1, <1>2, <1>3 DEF OneOwner, HandInv, InHand
<1>6. TaskIsKept'
  BY <1>1, <1>2, <1>3 DEF TaskIsKept, HandInv
<1>7. RowInv'
  BY <1>1, <1>2, <1>3 DEF RowInv, HandInv
<1>8. PublishedInv'
  BY <1>1, <1>2, <1>3 DEF PublishedInv, HandInv
<1>9. AttemptInv'
  <2>1. hand \in Task /\ hand \notin heap
    BY <1>3 DEF OneOwner, HandInv
  <2>2. attempts' = [attempts EXCEPT ![hand] = @ + 1] /\ dpc = "write" /\ dpc' = "record"
    OBVIOUS
  <2>3. UNCHANGED <<heap, retries, hand>>
    OBVIOUS
  <2> QED BY <2>1, <2>2, <2>3 DEF AttemptInv
<1> QED BY <1>4, <1>5, <1>6, <1>7, <1>8, <1>9 DEF Core

(* The core of the invariant is kept by the record of a delivery as         *)
(* pending.                                                                 *)
LEMMA RecordCore ==
    ASSUME IInv, Record
    PROVE  Core'
<1> USE BrokerAssumption DEF IInv, TypeOK, Record, NextWorker, queue, reaper,
        handlers, network, history
<1>1. InHand' \subseteq InHand
  BY DEF InHand, HandInv
<1>2. InHand \subseteq InHand' \cup {hand}
  BY DEF InHand, HandInv
<1>3. hand \in InHand \ InHand'
  BY DEF InHand, OneOwner, HandInv
<1>4. BeingSaved' = BeingSaved
  BY DEF BeingSaved, HandInv
<1>5. HandInv'
  BY DEF HandInv
<1>6. OneOwner'
  BY <1>1, <1>2, <1>3, <1>4 DEF OneOwner, HandInv, InHand
<1>7. TaskIsKept'
  BY <1>1, <1>2, <1>3, <1>4 DEF TaskIsKept, HandInv
<1>8. RowInv'
  BY <1>1, <1>2, <1>3, <1>4 DEF RowInv, HandInv
<1>9. PublishedInv'
  BY <1>1, <1>2, <1>3, <1>4 DEF PublishedInv, HandInv
<1>10. AttemptInv'
  BY DEF AttemptInv, HandInv
<1> QED BY <1>5, <1>6, <1>7, <1>8, <1>9, <1>10 DEF Core

(* The core of the invariant is kept by a DELIVER that fails.               *)
LEMMA DeliverFailsCore ==
    ASSUME IInv, DeliverFails
    PROVE  Core'
<1> USE BrokerAssumption DEF IInv, TypeOK, DeliverFails, Push, broker, reaper,
        handlers, network, history
<1>1. InHand' \subseteq InHand
  BY DEF InHand, HandInv
<1>2. InHand \subseteq InHand' \cup {hand}
  BY DEF InHand, HandInv
<1>3. hand \in InHand \ InHand'
  BY DEF InHand, OneOwner, HandInv
<1>4. BeingSaved' = BeingSaved \cup {hand}
  BY DEF BeingSaved, HandInv
<1>5. HandInv'
  BY DEF HandInv
<1>6. OneOwner'
  BY <1>1, <1>2, <1>3, <1>4 DEF OneOwner, HandInv, InHand
<1>7. TaskIsKept'
  BY <1>1, <1>2, <1>3, <1>4 DEF TaskIsKept, HandInv
<1>8. RowInv'
  BY <1>1, <1>2, <1>3, <1>4 DEF RowInv, HandInv
<1>9. PublishedInv'
  BY <1>1, <1>2, <1>3, <1>4 DEF PublishedInv, HandInv
<1>10. AttemptInv'
  BY DEF AttemptInv, HandInv
<1> QED BY <1>5, <1>6, <1>7, <1>8, <1>9, <1>10 DEF Core

(* The core of the invariant is kept by the row of a task put back.         *)
LEMMA SaveUndeliveredCore ==
    ASSUME IInv, SaveUndelivered
    PROVE  Core'
<1> USE BrokerAssumption DEF IInv, TypeOK, SaveUndelivered, Save, broker,
        reaper, handlers, network, history
<1>1. InHand' = InHand
  BY DEF InHand, HandInv
<1>2. BeingSaved' \subseteq BeingSaved
  BY DEF BeingSaved, HandInv
<1>3. BeingSaved \subseteq BeingSaved' \cup {hand}
  BY DEF BeingSaved, HandInv
<1>4. row'[hand] # Nil
  BY DEF HandInv
<1>5. hand \in BeingSaved
  BY DEF BeingSaved, HandInv
<1>6. HandInv'
  BY DEF HandInv
<1>7. OneOwner'
  BY <1>1, <1>2, <1>3, <1>4, <1>5 DEF OneOwner, HandInv, InHand
<1>8. TaskIsKept'
  BY <1>1, <1>2, <1>3, <1>4, <1>5 DEF TaskIsKept, HandInv
<1>9. RowInv'
  BY <1>1, <1>2, <1>3, <1>4, <1>5 DEF RowInv, HandInv
<1>10. PublishedInv'
  BY <1>1, <1>2, <1>3, <1>4, <1>5 DEF PublishedInv, HandInv
<1>11. AttemptInv'
  BY DEF AttemptInv, HandInv
<1> QED BY <1>6, <1>7, <1>8, <1>9, <1>10, <1>11 DEF Core

(* The core of the invariant is kept by the removal of a worker that could  *)
(* not be reached.                                                          *)
LEMMA DropWorkerCore ==
    ASSUME IInv, DropWorker
    PROVE  Core'
<1> USE BrokerAssumption DEF IInv, TypeOK, DropWorker, NextWorker, queue,
        reaper, handlers, network, history
<1>1. InHand' = InHand
  BY DEF InHand
<1>2. BeingSaved' = BeingSaved
  BY DEF BeingSaved
<1>3. HandInv'
  BY DEF HandInv
<1>4. OneOwner'
  BY <1>1, <1>2 DEF OneOwner, HandInv, InHand
<1>5. TaskIsKept'
  BY <1>1, <1>2 DEF TaskIsKept, HandInv
<1>6. RowInv'
  BY <1>1, <1>2 DEF RowInv, HandInv
<1>7. PublishedInv'
  BY <1>1, <1>2 DEF PublishedInv, HandInv
<1>8. AttemptInv'
  BY DEF AttemptInv, HandInv
<1> QED BY <1>3, <1>4, <1>5, <1>6, <1>7, <1>8 DEF Core

(* The reaper's steps.                                                      *)
LEMMA ReapCore ==
    ASSUME IInv, NEW S \in SUBSET Task, Reap(S)
    PROVE  Core'
<1> USE BrokerAssumption DEF IInv, TypeOK, Reap, queue, dispatcher, handlers,
        network, history
<1>1. InHand' = InHand \cup S
  BY DEF InHand
<1>2. BeingSaved' = BeingSaved
  BY DEF BeingSaved
<1>3. HandInv'
  BY DEF HandInv
<1>4. OneOwner'
  BY <1>1, <1>2 DEF OneOwner, HandInv, InHand
<1>5. TaskIsKept'
  BY <1>1, <1>2 DEF TaskIsKept, HandInv
<1>6. RowInv'
  BY <1>1, <1>2 DEF RowInv, HandInv
<1>7. PublishedInv'
  BY <1>1, <1>2 DEF PublishedInv, HandInv
<1>8. AttemptInv'
  BY DEF AttemptInv, HandInv
<1> QED BY <1>3, <1>4, <1>5, <1>6, <1>7, <1>8 DEF Core

(* The core of the invariant is kept by the reaper's retry.                 *)
LEMMA RetryReapedCore ==
    ASSUME IInv, NEW t \in Task, RetryReaped(t)
    PROVE  Core'
<1> USE BrokerAssumption DEF IInv, TypeOK, RetryReaped, Retry, Retriable, Push,
        broker, dispatcher, handlers, network
<1>1. InHand' \subseteq InHand
  BY DEF InHand
<1>2. InHand \subseteq InHand' \cup {t}
  BY DEF InHand
<1>3. t \in InHand \ InHand'
  BY DEF InHand, OneOwner
<1>4. BeingSaved \subseteq BeingSaved'
  BY DEF BeingSaved
<1>5. BeingSaved' \subseteq BeingSaved \cup {t}
  BY DEF BeingSaved
<1>6. t \in heap' => t \in BeingSaved'
  BY <1>3 DEF BeingSaved, HandInv, OneOwner
<1>7. HandInv'
  BY DEF HandInv
<1>8. OneOwner'
  BY <1>1, <1>2, <1>3, <1>4, <1>5, <1>6 DEF OneOwner, HandInv, InHand
<1>9. TaskIsKept'
  BY <1>1, <1>2, <1>3, <1>4, <1>5, <1>6 DEF TaskIsKept, HandInv
<1>10. RowInv'
  BY <1>1, <1>2, <1>3, <1>4, <1>5, <1>6 DEF RowInv, HandInv
<1>11. PublishedInv'
  BY <1>1, <1>2, <1>3, <1>4, <1>5, <1>6 DEF PublishedInv, HandInv
<1>12. AttemptInv'
  BY DEF AttemptInv, HandInv
<1> QED BY <1>7, <1>8, <1>9, <1>10, <1>11, <1>12 DEF Core

(* The core of the invariant is kept by the row of a task the reaper put    *)
(* back.                                                                    *)
LEMMA SaveReapedCore ==
    ASSUME IInv, SaveReaped
    PROVE  Core'
<1> USE BrokerAssumption DEF IInv, TypeOK, SaveReaped, Save, broker, dispatcher,
        handlers, network, history
<1>1. InHand' = InHand
  BY DEF InHand
<1>2. BeingSaved' \subseteq BeingSaved
  BY DEF BeingSaved
<1>3. BeingSaved \subseteq BeingSaved' \cup {reapSaves}
  BY DEF BeingSaved
<1>4. row'[reapSaves] # Nil
  BY DEF HandInv
<1>5. reapSaves \in BeingSaved
  BY DEF BeingSaved
<1>6. HandInv'
  BY DEF HandInv
<1>7. OneOwner'
  BY <1>1, <1>2, <1>3, <1>4, <1>5 DEF OneOwner, HandInv, InHand
<1>8. TaskIsKept'
  BY <1>1, <1>2, <1>3, <1>4, <1>5 DEF TaskIsKept, HandInv
<1>9. RowInv'
  BY <1>1, <1>2, <1>3, <1>4, <1>5 DEF RowInv, HandInv
<1>10. PublishedInv'
  BY <1>1, <1>2, <1>3, <1>4, <1>5 DEF PublishedInv, HandInv
<1>11. AttemptInv'
  BY DEF AttemptInv, HandInv
<1> QED BY <1>6, <1>7, <1>8, <1>9, <1>10, <1>11 DEF Core

(* The handlers' steps.                                                     *)
LEMMA AckCore ==
    ASSUME IInv, NEW c \in Conn, Ack(c)
    PROVE  Core'
<1> USE BrokerAssumption DEF IInv, TypeOK, Ack, Release, queue, dispatcher,
        reaper, handlers
<1>1. InHand' = InHand
  BY DEF InHand
<1>2. BeingSaved' = BeingSaved
  BY DEF BeingSaved
<1>3. HandInv'
  BY DEF HandInv
<1>4. OneOwner'
  BY <1>1, <1>2 DEF OneOwner, HandInv, InHand
<1>5. TaskIsKept'
  BY <1>1, <1>2 DEF TaskIsKept, HandInv
<1>6. RowInv'
  BY <1>1, <1>2 DEF RowInv, HandInv
<1>7. PublishedInv'
  BY <1>1, <1>2 DEF PublishedInv, HandInv
<1>8. AttemptInv'
  BY DEF AttemptInv, HandInv
<1> QED BY <1>3, <1>4, <1>5, <1>6, <1>7, <1>8 DEF Core

(* The core of the invariant is kept by a RESULT.                           *)
LEMMA ResultCore ==
    ASSUME IInv, NEW c \in Conn, Result(c)
    PROVE  Core'
<1> USE BrokerAssumption DEF IInv, TypeOK, Result, Release, Arrives, queue,
        dispatcher, reaper
<1>1. InHand' = InHand
  BY DEF InHand
<1>2. BeingSaved' = BeingSaved
  BY DEF BeingSaved
<1>3. HandInv'
  BY DEF HandInv
<1>4. OneOwner'
  BY <1>1, <1>2 DEF OneOwner, HandInv, InHand
<1>5. TaskIsKept'
  BY <1>1, <1>2 DEF TaskIsKept, HandInv
<1>6. RowInv'
  BY <1>1, <1>2 DEF RowInv, HandInv
<1>7. PublishedInv'
  BY <1>1, <1>2 DEF PublishedInv, HandInv
<1>8. AttemptInv'
  BY DEF AttemptInv, HandInv
<1> QED BY <1>3, <1>4, <1>5, <1>6, <1>7, <1>8 DEF Core

(* The core of the invariant is kept by a NACK of a delivery that is        *)
(* pending.                                                                 *)
LEMMA NackPendingCore ==
    ASSUME IInv, NEW c \in Conn, Nack(c), Arrived(c) \in pending
    PROVE  Core'
<1> USE BrokerAssumption DEF IInv, TypeOK, Nack, Arrives, queue, dispatcher,
        reaper, history
<1>1. hpc[c] = "read" /\ hpc' = [hpc EXCEPT ![c] = "requeue"]
  OBVIOUS
<1>2. held' = [held EXCEPT ![c] = Arrived(c)]
  OBVIOUS
<1>3. InHand' = InHand \cup {Arrived(c)}
  BY <1>1, <1>2 DEF InHand
<1>4. BeingSaved' = BeingSaved
  BY <1>1, <1>2 DEF BeingSaved
<1>5. HandInv'
  BY <1>1, <1>2, <1>3, <1>4 DEF HandInv
<1>6. OneOwner'
  <2>1. heap' \cap pending' = {}
    BY <1>1, <1>2, <1>3, <1>4 DEF OneOwner
  <2>2. InHand' \cap (heap' \cup pending') = {}
    BY <1>1, <1>2, <1>3, <1>4 DEF OneOwner
  <2>3. dpc' \in {"delete", "write", "record"} =>
            /\ hand' \notin reaping'
            /\ \A d \in Conn : ~(hpc'[d] = "requeue" /\ held'[d] = hand')
    BY <1>1, <1>2, <1>3, <1>4 DEF OneOwner, HandInv, InHand
  <2>4. \A d \in Conn : hpc'[d] = "requeue" => held'[d] \notin reaping'
    BY <1>1, <1>2, <1>3, <1>4 DEF OneOwner, HandInv, InHand
  <2>5. \A d, e \in Conn :
           hpc'[d] = "requeue" /\ hpc'[e] = "requeue" /\ held'[d] = held'[e] => d = e
    BY <1>1, <1>2, <1>3, <1>4 DEF OneOwner, HandInv, InHand
  <2> QED BY <2>1, <2>2, <2>3, <2>4, <2>5 DEF OneOwner
<1>7. TaskIsKept'
  BY <1>1, <1>2, <1>3, <1>4 DEF TaskIsKept, HandInv
<1>8. RowInv'
  BY <1>1, <1>2, <1>3, <1>4 DEF RowInv, HandInv
<1>9. PublishedInv'
  BY <1>1, <1>2, <1>3, <1>4 DEF PublishedInv, HandInv
<1>10. AttemptInv'
  BY DEF AttemptInv, HandInv
<1> QED BY <1>5, <1>6, <1>7, <1>8, <1>9, <1>10 DEF Core

(* The core of the invariant is kept by a NACK that finds nothing pending.  *)
LEMMA NackLateCore ==
    ASSUME IInv, NEW c \in Conn, Nack(c), Arrived(c) \notin pending
    PROVE  Core'
<1> USE BrokerAssumption DEF IInv, TypeOK, Nack, queue, dispatcher, reaper,
        history
<1>1. pending' = pending
  OBVIOUS
<1>2. InHand' = InHand
  BY DEF InHand
<1>3. BeingSaved' = BeingSaved
  BY DEF BeingSaved
<1>4. HandInv'
  BY DEF HandInv
<1>5. OneOwner'
  BY <1>1, <1>2, <1>3 DEF OneOwner, HandInv, InHand
<1>6. TaskIsKept'
  BY <1>1, <1>2, <1>3 DEF TaskIsKept, HandInv
<1>7. RowInv'
  BY <1>1, <1>2, <1>3 DEF RowInv, HandInv
<1>8. PublishedInv'
  BY <1>1, <1>2, <1>3 DEF PublishedInv, HandInv
<1>9. AttemptInv'
  BY DEF AttemptInv, HandInv
<1> QED BY <1>4, <1>5, <1>6, <1>7, <1>8, <1>9 DEF Core

(* The core of the invariant is kept by the retry of a NACK.                *)
LEMMA RetryNackedCore ==
    ASSUME IInv, NEW c \in Conn, RetryNacked(c)
    PROVE  Core'
<1> USE BrokerAssumption DEF IInv, TypeOK, RetryNacked, Retry, Retriable, Push,
        broker, dispatcher, reaper, network
<1>1. InHand' \subseteq InHand
  BY DEF InHand, HandInv
<1>2. InHand \subseteq InHand' \cup {held[c]}
  BY DEF InHand, HandInv
<1>3. held[c] \in InHand \ InHand'
  BY DEF InHand, OneOwner, HandInv
<1>4. BeingSaved \subseteq BeingSaved'
  BY DEF BeingSaved, HandInv
<1>5. BeingSaved' \subseteq BeingSaved \cup {held[c]}
  BY DEF BeingSaved, HandInv
<1>6. held[c] \in heap' => held[c] \in BeingSaved'
  BY <1>3 DEF BeingSaved, HandInv, OneOwner
<1>7. \A d \in Conn : hpc'[d] = "requeue" => hpc[d] = "requeue" /\ held'[d] = held[d]
  OBVIOUS
<1>8. HandInv'
  BY DEF HandInv
<1>9. OneOwner'
  <2>1. heap' \cap pending' = {}
    BY <1>1, <1>2, <1>3, <1>4, <1>5, <1>6, <1>7 DEF OneOwner
  <2>2. InHand' \cap (heap' \cup pending') = {}
    BY <1>1, <1>2, <1>3, <1>4, <1>5, <1>6, <1>7 DEF OneOwner
  <2>3. dpc' \in {"delete", "write", "record"} =>
            /\ hand' \notin reaping'
            /\ \A d \in Conn : ~(hpc'[d] = "requeue" /\ held'[d] = hand')
    BY <1>1, <1>2, <1>3, <1>4, <1>5, <1>6, <1>7 DEF OneOwner, HandInv, InHand
  <2>4. \A d \in Conn : hpc'[d] = "requeue" => held'[d] \notin reaping'
    BY <1>1, <1>2, <1>3, <1>4, <1>5, <1>6, <1>7 DEF OneOwner, HandInv, InHand
  <2>5. \A d, e \in Conn :
           hpc'[d] = "requeue" /\ hpc'[e] = "requeue" /\ held'[d] = held'[e] => d = e
    BY <1>1, <1>2, <1>3, <1>4, <1>5, <1>6, <1>7 DEF OneOwner, HandInv, InHand
  <2> QED BY <2>1, <2>2, <2>3, <2>4, <2>5 DEF OneOwner
<1>10. TaskIsKept'
  BY <1>1, <1>2, <1>3, <1>4, <1>5, <1>6, <1>7 DEF TaskIsKept, HandInv
<1>11. RowInv'
  BY <1>1, <1>2, <1>3, <1>4, <1>5, <1>6, <1>7 DEF RowInv, HandInv
<1>12. PublishedInv'
  BY <1>1, <1>2, <1>3, <1>4, <1>5, <1>6, <1>7 DEF PublishedInv, HandInv
<1>13. AttemptInv'
  <2>1. held[c] \in Task /\ held[c] \notin heap
    BY <1>3 DEF OneOwner, HandInv
  <2>2. /\ retries' = [retries EXCEPT ![held[c]] = @ + 1]
        /\ UNCHANGED <<attempts, dpc, hand>>
    OBVIOUS
  <2>3. IF retries[held[c]] + 1 <= MaxRetries THEN heap' = heap \cup {held[c]}
        ELSE heap' = heap
    OBVIOUS
  <2> QED BY <2>1, <2>2, <2>3 DEF AttemptInv
<1> QED BY <1>8, <1>9, <1>10, <1>11, <1>12, <1>13 DEF Core

(* The core of the invariant is kept by the row of a task a NACK put back.  *)
LEMMA SaveNackedCore ==
    ASSUME IInv, NEW c \in Conn, SaveNacked(c)
    PROVE  Core'
<1> USE BrokerAssumption DEF IInv, TypeOK, SaveNacked, Save, broker, dispatcher,
        reaper, network, history
<1>1. InHand' = InHand
  BY DEF InHand, HandInv
<1>2. BeingSaved' \subseteq BeingSaved
  BY DEF BeingSaved, HandInv
<1>3. BeingSaved \subseteq BeingSaved' \cup {held[c]}
  BY DEF BeingSaved, HandInv
<1>4. row'[held[c]] # Nil
  BY DEF HandInv
<1>5. held[c] \in BeingSaved
  BY DEF BeingSaved, HandInv
<1>6. HandInv'
  BY DEF HandInv
<1>7. OneOwner'
  BY <1>1, <1>2, <1>3, <1>4, <1>5 DEF OneOwner, HandInv, InHand
<1>8. TaskIsKept'
  BY <1>1, <1>2, <1>3, <1>4, <1>5 DEF TaskIsKept, HandInv
<1>9. RowInv'
  BY <1>1, <1>2, <1>3, <1>4, <1>5 DEF RowInv, HandInv
<1>10. PublishedInv'
  BY <1>1, <1>2, <1>3, <1>4, <1>5 DEF PublishedInv, HandInv
<1>11. AttemptInv'
  BY DEF AttemptInv, HandInv
<1> QED BY <1>6, <1>7, <1>8, <1>9, <1>10, <1>11 DEF Core

(* A restart: what is queued afterwards is what had a row.                   *)
LEMMA RestartCore ==
    ASSUME IInv, Restart
    PROVE  Core'
<1> USE BrokerAssumption DEF IInv, TypeOK, Restart
<1>1. InHand' = {}
  BY DEF InHand
<1>2. BeingSaved' = {}
  BY DEF BeingSaved
<1>3. HandInv'
  BY DEF HandInv
<1>4. OneOwner'
  BY <1>1, <1>2 DEF OneOwner, HandInv, InHand
<1>5. TaskIsKept'
  BY <1>1, <1>2 DEF TaskIsKept, HandInv, RowInv
<1>6. RowInv'
  BY <1>1, <1>2 DEF RowInv, HandInv
<1>7. PublishedInv'
  BY <1>1, <1>2 DEF PublishedInv, HandInv
<1>8. AttemptInv'
  BY DEF AttemptInv, HandInv
<1> QED BY <1>3, <1>4, <1>5, <1>6, <1>7, <1>8 DEF Core

-----------------------------------------------------------------------------
(* The invariant holds at the start (server.py:65-80).                      *)
LEMMA InitInv == ASSUME Init PROVE IInv
<1> USE BrokerAssumption DEF Init
<1>1. TypeOK
  BY DEF TypeOK
<1>2. InHand = {} /\ BeingSaved = {}
  BY DEF InHand, BeingSaved
<1>3. HandInv /\ OneOwner /\ TaskIsKept
  BY <1>2 DEF HandInv, OneOwner, TaskIsKept
<1>4. RowInv /\ PublishedInv /\ AttemptInv
  BY <1>2 DEF RowInv, PublishedInv, AttemptInv
<1> QED BY <1>1, <1>3, <1>4 DEF IInv

(* Every step keeps the core of the invariant.                              *)
LEMMA CoreStep == ASSUME IInv, [Next]_vars PROVE Core'
<1>1. CASE Dispatcher
  <2>1. CASE Scan
    BY <2>1, Quiet DEF Scan, broker, handlers
  <2>2. ASSUME NEW c \in Conn, Skip(c) PROVE Core'
    BY <2>2, Quiet DEF Skip, broker, handlers
  <2> QED BY <1>1, <2>1, <2>2, DequeueCore, DeleteRowCore, DeliverCore, RecordCore,
             DeliverFailsCore, SaveUndeliveredCore, DropWorkerCore DEF Dispatcher
<1>2. CASE Reaper
  BY <1>2, ReapCore, RetryReapedCore, SaveReapedCore DEF Reaper
<1>3. ASSUME NEW c \in Conn, Handler(c) PROVE Core'
  <2>1. CASE Subscribe(c)
    BY <2>1, Quiet DEF Subscribe, dispatcher, handlers
  <2>2. CASE FreeWorker(c)
    <3>1. \A d \in Conn : hpc'[d] = hpc[d] \/ {hpc[d], hpc'[d]} \subseteq {"read", "free"}
      BY <2>2 DEF FreeWorker, IInv, TypeOK
    <3> QED BY <2>2, <3>1, Quiet DEF FreeWorker, dispatcher
  <2>3. CASE Close(c)
    BY <2>3, Quiet DEF Close, dispatcher, handlers
  <2>4. CASE Nack(c)
    BY <2>4, NackPendingCore, NackLateCore
  <2> QED BY <1>3, <2>1, <2>2, <2>3, <2>4, AckCore, ResultCore, RetryNackedCore,
             SaveNackedCore DEF Handler
<1>4. CASE Outside
  <2>1. UNCHANGED <<queue, broker, dispatcher, reaper, handlers, history>>
    BY <1>4 DEF Outside, Connect, Finish, Receive, Cut
  <2> QED BY <2>1, Quiet DEF broker, dispatcher, handlers
<1>5. CASE UNCHANGED vars
  BY <1>5, Quiet DEF vars, broker, dispatcher, handlers
<1> QED BY <1>1, <1>2, <1>3, <1>4, <1>5, PublishCore, SavePublishedCore, RestartCore
        DEF Next

(* The inductive invariant of owners and tasks holds always                 *)
(* (server.py:84-110).                                                      *)
LEMMA Invariance == Spec => []IInv
<1>1. Init => IInv
  BY InitInv
<1>2. IInv /\ [Next]_vars => IInv'
  BY TypeStep, CoreStep DEF IInv, Core
<1> QED BY <1>1, <1>2, PTL DEF Spec

(* The broker, its queue and table, the workers and the network keep their   *)
(* types.                                                                   *)
THEOREM TypeCorrect == Spec => []TypeOK
<1>1. IInv => TypeOK
  BY DEF IInv
<1> QED BY <1>1, Invariance, PTL

(* No two of the broker's threads own one task, in the queue, on its way out  *)
(* of it, pending, timed out or refused.                                    *)
THEOREM OwnersAreUnique == Spec => []OneOwner
<1>1. IInv => OneOwner
  BY DEF IInv
<1> QED BY <1>1, Invariance, PTL

(* A task the broker has accepted and no longer has was answered for, ran    *)
(* out of retries, or was hit by a crash outside the table of the queue.     *)
THEOREM TasksAreKept == Spec => []TaskIsKept
<1>1. IInv => TaskIsKept
  BY DEF IInv
<1> QED BY <1>1, Invariance, PTL

(* Whichever threads count a task's retries, between two starts of the      *)
(* broker it is delivered at most max_retries + 1 times.                    *)
THEOREM AttemptsAreBounded == Spec => []AttemptsBounded
<1>1. IInv => AttemptsBounded
  BY DEF IInv, AttemptInv, AttemptsBounded
<1> QED BY <1>1, Invariance, PTL
=============================================================================
