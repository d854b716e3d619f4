----------------------------- MODULE TaskBroker -----------------------------
(***************************************************************************)
(* The task queue: the broker's threads, the queue and its table on disk,   *)
(* the workers and the connections between them.                            *)
(*                                                                          *)
(* The broker runs a dispatcher, a reaper and one handler per connection.   *)
(* TaskQueue locks its heap, BrokerServer its dicts; a task on its way from *)
(* one to the other is in a local variable of one thread.  enqueue pushes   *)
(* and then, without the lock, writes the row; dequeue pops and then deletes *)
(* it.  Each step here is one locked block, one statement of SQL or one     *)
(* message.                                                                 *)
(*                                                                          *)
(* A connection carries messages in order until it is cut; what was on its  *)
(* way may be lost with it, and the broker notices later.  <<w, i>> is the  *)
(* i-th connection of worker w.  Priorities, due times and the ack timeout  *)
(* are abstracted: any queued task may be the next one due, and an          *)
(* unacknowledged one may time out at any moment.  All workers subscribe to *)
(* the one queue.                                                           *)
(***************************************************************************)
EXTENDS Naturals, Sequences, FiniteSets

CONSTANTS
    Task, Worker,
    Nil,          \* Python's None
    MaxRetries,   \* Task.max_retries
    MaxConn,      \* bound: connections each worker makes
    MaxCrash      \* bound: crashes of the broker

ASSUME BrokerAssumption ==
    /\ Nil \notin Task \cup Nat
    /\ MaxRetries \in Nat /\ MaxCrash \in Nat
    /\ MaxConn \in [Worker -> Nat]

Conn == UNION {{w} \X (1..MaxConn[w]) : w \in Worker}

VARIABLES
    heap, row,                \* TaskQueue: the heap; the retries column of a row
    retries,                  \* Task.retries
    publishing,               \* client handlers: pushed, row not written yet
    pending, registry, busy,  \* _pending, _workers, WorkerConnection.busy
    dpc, todo, wc, hand,      \* the dispatcher and its local variables
    reaping, reapSaves,       \* the reaper: tasks to requeue, row to be written
    hpc, held,                \* the handler of each connection and its task
    link,                     \* what a connection is
    toWorker, toBroker,       \* messages under way
    running,                  \* each worker's futures: <<task, retries>>
    crashes,
    published, attempts,      \* history: tasks accepted, DELIVERs since a start
    released, dropped, lost   \* history: answered, out of retries, crashed with

queue      == <<heap, row, retries>>
broker     == <<pending, registry, busy>>
dispatcher == <<dpc, todo, wc, hand>>
reaper     == <<reaping, reapSaves>>
handlers   == <<hpc, held, publishing>>
network    == <<link, toWorker, toBroker>>
history    == <<published, attempts, released, dropped, lost>>
vars == <<queue, broker, dispatcher, reaper, handlers, network, running,
          crashes, history>>

Job     == Task \X Nat
Message == [type : {"SUBSCRIBE", "ACK", "NACK", "RESULT"}, task : Task \cup {Nil}]

TypeOK ==
    /\ heap \subseteq Task
    /\ row \in [Task -> Nat \cup {Nil}]
    /\ retries \in [Task -> Nat]
    /\ publishing \subseteq Task
    /\ pending \subseteq Task
    /\ registry \in [Worker -> Conn \cup {Nil}]
    /\ busy \in [Conn -> BOOLEAN]
    /\ dpc \in {"look", "delete", "write", "record", "save", "drop"}
    /\ todo \subseteq Conn
    /\ wc \in Conn \cup {Nil}
    /\ hand \in Task \cup {Nil}
    /\ reaping \subseteq Task
    /\ reapSaves \in Task \cup {Nil}
    /\ hpc \in [Conn -> {"read", "free", "requeue", "save"}]
    /\ held \in [Conn -> Task \cup {Nil}]
    /\ link \in [Conn -> {"unused", "up", "cut", "closed"}]
    /\ toWorker \in [Conn -> Seq(Job)]
    /\ toBroker \in [Conn -> Seq(Message)]
    /\ running \in [Worker -> SUBSET Job]
    /\ crashes \in Nat
    /\ attempts \in [Task -> Nat]
    /\ UNION {published, released, dropped, lost} \subseteq Task

-----------------------------------------------------------------------------
(* TaskQueue *)

Push(t) == heap' = heap \cup {t}

Save(t) == row' = [row EXCEPT ![t] = retries[t]]

(* Mutant of Retriable: the count is tested before it grows.                *)
OneMore(t) == retries[t] <= MaxRetries

(* The test of _handle_nack and _reaper_loop, after their increment.        *)
Retriable(t) == retries[t] + 1 <= MaxRetries

(* Mutant of Retry: the retries left are counted down.                      *)
CountDown(t) ==
    /\ retries' = [retries EXCEPT ![t] = @ - 1]
    /\ IF Retriable(t) THEN Push(t) /\ UNCHANGED dropped
       ELSE dropped' = dropped \cup {t} /\ UNCHANGED heap

(* What both do with a task they took out of pending.                       *)
Retry(t) ==
    /\ retries' = [retries EXCEPT ![t] = @ + 1]
    /\ IF Retriable(t) THEN Push(t) /\ UNCHANGED dropped
       ELSE dropped' = dropped \cup {t} /\ UNCHANGED heap

(* A client's handler: PUBLISH, and CONFIRM after the row is written.       *)
Publish(t) ==
    /\ t \notin published
    /\ published' = published \cup {t}
    /\ publishing' = publishing \cup {t}
    /\ Push(t)
    /\ UNCHANGED <<row, retries, broker, dispatcher, reaper, hpc, held, network,
                   running, crashes, attempts, released, dropped, lost>>

SavePublished(t) ==
    /\ t \in publishing
    /\ publishing' = publishing \ {t}
    /\ Save(t)
    /\ UNCHANGED <<heap, retries, broker, dispatcher, reaper, hpc, held, network,
                   running, crashes, history>>

-----------------------------------------------------------------------------
(* The dispatcher *)

Scan ==
    /\ dpc = "look"
    /\ todo = {}
    /\ todo' = {registry[w] : w \in Worker} \ {Nil}
    /\ UNCHANGED <<queue, broker, dpc, wc, hand, reaper, handlers, network,
                   running, crashes, history>>

(* The worker is busy, or no task is due.                                   *)
Skip(c) ==
    /\ dpc = "look"
    /\ c \in todo
    /\ todo' = todo \ {c}
    /\ UNCHANGED <<queue, broker, dpc, wc, hand, reaper, handlers, network,
                   running, crashes, history>>

Dequeue(c, t) ==
    /\ dpc = "look"
    /\ c \in todo
    /\ ~busy[c]
    /\ t \in heap
    /\ heap' = heap \ {t}
    /\ dpc' = "delete"
    /\ wc' = c
    /\ hand' = t
    /\ todo' = todo \ {c}
    /\ UNCHANGED <<row, retries, broker, reaper, handlers, network, running,
                   crashes, history>>

DeleteRow ==
    /\ dpc = "delete"
    /\ row' = [row EXCEPT ![hand] = Nil]
    /\ dpc' = "write"
    /\ UNCHANGED <<heap, retries, broker, todo, wc, hand, reaper, handlers,
                   network, running, crashes, history>>

(* A write succeeds until the peer's end is known to be gone, if the peer   *)
(* reads.                                                                   *)
Deliver ==
    /\ dpc = "write"
    /\ link[wc] \in {"up", "cut"}
    /\ toWorker' = [toWorker EXCEPT ![wc] =
          IF link[wc] = "up" THEN Append(@, <<hand, retries[hand]>>) ELSE @]
    /\ attempts' = [attempts EXCEPT ![hand] = @ + 1]
    /\ dpc' = "record"
    /\ UNCHANGED <<queue, broker, todo, wc, hand, reaper, handlers, link,
                   toBroker, running, crashes, published, released, dropped, lost>>

(* The next worker, or the next scan.                                       *)
NextWorker ==
    /\ dpc' = "look"
    /\ wc' = Nil
    /\ hand' = Nil
    /\ UNCHANGED todo

Record ==
    /\ dpc = "record"
    /\ busy' = [busy EXCEPT ![wc] = TRUE]
    /\ pending' = pending \cup {hand}
    /\ NextWorker
    /\ UNCHANGED <<queue, registry, reaper, handlers, network, running, crashes,
                   history>>

(* Mutant of DeliverFails: the worker is dropped, and the task with it.     *)
DeliverForgets ==
    /\ dpc = "write"
    /\ dpc' = "drop"
    /\ UNCHANGED <<queue, broker, todo, wc, hand, reaper, handlers, network,
                   running, crashes, history>>

(* The peer's end is gone; or it reads nothing, and the write times out.    *)
DeliverFails ==
    /\ dpc = "write"
    /\ Push(hand)
    /\ dpc' = "save"
    /\ UNCHANGED <<row, retries, broker, todo, wc, hand, reaper, handlers,
                   network, running, crashes, history>>

SaveUndelivered ==
    /\ dpc = "save"
    /\ Save(hand)
    /\ dpc' = "drop"
    /\ UNCHANGED <<heap, retries, broker, todo, wc, hand, reaper, handlers,
                   network, running, crashes, history>>

(* _workers.pop(worker_id), whichever connection is registered by now.      *)
DropWorker ==
    /\ dpc = "drop"
    /\ registry' = [registry EXCEPT ![wc[1]] = Nil]
    /\ NextWorker
    /\ UNCHANGED <<queue, pending, busy, reaper, handlers, network, running,
                   crashes, history>>

-----------------------------------------------------------------------------
(* The reaper *)

(* Mutant of Reap: what timed out stays pending.                            *)
ReapKeeps(S) ==
    /\ reaping = {} /\ reapSaves = Nil
    /\ S # {} /\ S \subseteq pending
    /\ reaping' = S
    /\ UNCHANGED <<queue, broker, dispatcher, reapSaves, handlers, network,
                   running, crashes, history>>

(* The deliveries that have waited longer than ack_timeout.                 *)
Reap(S) ==
    /\ reaping = {} /\ reapSaves = Nil
    /\ S # {} /\ S \subseteq pending
    /\ pending' = pending \ S
    /\ reaping' = S
    /\ UNCHANGED <<queue, registry, busy, dispatcher, reapSaves, handlers, network,
                   running, crashes, history>>

RetryReaped(t) ==
    /\ reapSaves = Nil
    /\ t \in reaping
    /\ reaping' = reaping \ {t}
    /\ Retry(t)
    /\ reapSaves' = IF Retriable(t) THEN t ELSE Nil
    /\ UNCHANGED <<row, broker, dispatcher, handlers, network, running, crashes,
                   published, attempts, released, lost>>

SaveReaped ==
    /\ reapSaves # Nil
    /\ Save(reapSaves)
    /\ reapSaves' = Nil
    /\ UNCHANGED <<heap, retries, broker, dispatcher, reaping, handlers, network,
                   running, crashes, history>>

-----------------------------------------------------------------------------
(* The handler of a connection *)

Arrives(c, type) ==
    /\ link[c] \in {"up", "cut"}
    /\ hpc[c] = "read"
    /\ toBroker[c] # << >>
    /\ Head(toBroker[c]).type = type
    /\ toBroker' = [toBroker EXCEPT ![c] = Tail(@)]

Arrived(c) == Head(toBroker[c]).task

Subscribe(c) ==
    /\ Arrives(c, "SUBSCRIBE")
    /\ registry' = [registry EXCEPT ![c[1]] = c]
    /\ UNCHANGED <<queue, pending, busy, dispatcher, reaper, handlers, link,
                   toWorker, running, crashes, history>>

(* _pending.pop(task_id, None)                                              *)
Release(t) ==
    /\ pending' = pending \ {t}
    /\ released' = released \cup (pending \cap {t})

Ack(c) ==
    /\ Arrives(c, "ACK")
    /\ Release(Arrived(c))
    /\ UNCHANGED <<queue, registry, busy, dispatcher, reaper, handlers, link,
                   toWorker, running, crashes, published, attempts, dropped, lost>>

(* RESULT takes the lock twice: for the delivery, then for the worker.      *)
Result(c) ==
    /\ Arrives(c, "RESULT")
    /\ Release(Arrived(c))
    /\ hpc' = [hpc EXCEPT ![c] = "free"]
    /\ UNCHANGED <<queue, registry, busy, dispatcher, reaper, held, publishing,
                   link, toWorker, running, crashes, published, attempts, dropped,
                   lost>>

FreeWorker(c) ==
    /\ hpc[c] = "free"
    /\ busy' = [busy EXCEPT ![c] = FALSE]
    /\ hpc' = [hpc EXCEPT ![c] = "read"]
    /\ UNCHANGED <<queue, pending, registry, dispatcher, reaper, held, publishing,
                   network, running, crashes, history>>

(* NACK has an effect only on a delivery that is still pending.             *)
Nack(c) ==
    /\ Arrives(c, "NACK")
    /\ pending' = pending \ {Arrived(c)}
    /\ IF Arrived(c) \in pending
       THEN /\ hpc' = [hpc EXCEPT ![c] = "requeue"]
            /\ held' = [held EXCEPT ![c] = Arrived(c)]
       ELSE UNCHANGED <<hpc, held>>
    /\ UNCHANGED <<queue, registry, busy, dispatcher, reaper, publishing, link,
                   toWorker, running, crashes, history>>

RetryNacked(c) ==
    /\ hpc[c] = "requeue"
    /\ Retry(held[c])
    /\ IF Retriable(held[c])
       THEN /\ hpc' = [hpc EXCEPT ![c] = "save"]
            /\ UNCHANGED held
       ELSE /\ hpc' = [hpc EXCEPT ![c] = "read"]
            /\ held' = [held EXCEPT ![c] = Nil]
    /\ UNCHANGED <<row, broker, dispatcher, reaper, publishing, network, running,
                   crashes, published, attempts, released, lost>>

SaveNacked(c) ==
    /\ hpc[c] = "save"
    /\ Save(held[c])
    /\ hpc' = [hpc EXCEPT ![c] = "read"]
    /\ held' = [held EXCEPT ![c] = Nil]
    /\ UNCHANGED <<heap, retries, broker, dispatcher, reaper, publishing, network,
                   running, crashes, history>>

(* The end of the stream: the worker's name is taken out of the registry,   *)
(* even if a newer connection of the same worker is there.                  *)
Close(c) ==
    /\ link[c] = "cut"
    /\ hpc[c] = "read"
    /\ toBroker[c] = << >>
    /\ link' = [link EXCEPT ![c] = "closed"]
    /\ registry' = [registry EXCEPT ![c[1]] = Nil]
    /\ UNCHANGED <<queue, pending, busy, dispatcher, reaper, handlers, toWorker,
                   toBroker, running, crashes, history>>

-----------------------------------------------------------------------------
(* Workers *)

Send(c, type, t) ==
    toBroker' = [toBroker EXCEPT ![c] = Append(@, [type |-> type, task |-> t])]

Connect(w, c) ==
    /\ c[1] = w
    /\ link[c] = "unused"
    /\ \A d \in Conn : d[1] = w => /\ link[d] # "up"
                                   /\ d[2] < c[2] => link[d] # "unused"
    /\ link' = [link EXCEPT ![c] = "up"]
    /\ Send(c, "SUBSCRIBE", Nil)
    /\ UNCHANGED <<queue, broker, dispatcher, reaper, handlers, toWorker, running,
                   crashes, history>>

(* _handle_deliver: the task is acknowledged and handed to the pool.        *)
Receive(c) ==
    /\ toWorker[c] # << >>
    /\ toWorker' = [toWorker EXCEPT ![c] = Tail(@)]
    /\ Send(c, "ACK", Head(toWorker[c])[1])
    /\ running' = [running EXCEPT ![c[1]] = @ \cup {Head(toWorker[c])}]
    /\ UNCHANGED <<queue, broker, dispatcher, reaper, handlers, link, crashes,
                   history>>

(* _on_done: the outcome goes to whatever connection the worker has now, or *)
(* is lost.                                                                 *)
Finish(w, job) ==
    /\ job \in running[w]
    /\ running' = [running EXCEPT ![w] = @ \ {job}]
    /\ \/ \E c \in Conn :
             /\ c[1] = w /\ link[c] = "up"
             /\ \/ Send(c, "RESULT", job[1])
                \/ job[2] < MaxRetries /\ Send(c, "NACK", job[1])
       \/ /\ \A c \in Conn : ~(c[1] = w /\ link[c] = "up")
          /\ UNCHANGED toBroker
    /\ UNCHANGED <<queue, broker, dispatcher, reaper, handlers, link, toWorker,
                   crashes, history>>

(* The connection breaks, or the worker's process ends with its jobs.       *)
Cut(c) ==
    /\ link[c] = "up"
    /\ link' = [link EXCEPT ![c] = "cut"]
    /\ toWorker' = [toWorker EXCEPT ![c] = << >>]
    /\ \E i \in 0..Len(toBroker[c]) :
          toBroker' = [toBroker EXCEPT ![c] = SubSeq(@, 1, i)]
    /\ running' = running \/ running' = [running EXCEPT ![c[1]] = {}]
    /\ UNCHANGED <<queue, broker, dispatcher, reaper, handlers, crashes, history>>

-----------------------------------------------------------------------------
(* The broker is killed and started again: _load_from_db reads the rows.    *)

(* The tasks some thread of the broker has pushed without writing the row.  *)
BeingSaved ==
    publishing \cup {t \in Task : \/ dpc = "save" /\ hand = t
                                  \/ reapSaves = t
                                  \/ \E c \in Conn : hpc[c] = "save" /\ held[c] = t}

Restart ==
    /\ crashes < MaxCrash
    /\ crashes' = crashes + 1
    /\ heap' = {t \in Task : row[t] # Nil}
    /\ retries' = [t \in Task |-> IF row[t] # Nil THEN row[t] ELSE retries[t]]
    /\ attempts' = [t \in Task |-> 0]
    /\ lost' = lost \cup (published \ heap) \cup BeingSaved
    /\ pending' = {} /\ publishing' = {} /\ reaping' = {} /\ reapSaves' = Nil
    /\ registry' = [w \in Worker |-> Nil]
    /\ busy' = [c \in Conn |-> FALSE]
    /\ dpc' = "look" /\ todo' = {} /\ wc' = Nil /\ hand' = Nil
    /\ hpc' = [c \in Conn |-> "read"]
    /\ held' = [c \in Conn |-> Nil]
    /\ link' = [c \in Conn |-> IF link[c] = "unused" THEN "unused" ELSE "closed"]
    /\ toWorker' = [c \in Conn |-> << >>]
    /\ toBroker' = [c \in Conn |-> << >>]
    /\ UNCHANGED <<row, running, published, released, dropped>>

-----------------------------------------------------------------------------
Init ==
    /\ heap = {} /\ publishing = {} /\ pending = {} /\ reaping = {}
    /\ row = [t \in Task |-> Nil]
    /\ retries = [t \in Task |-> 0]
    /\ registry = [w \in Worker |-> Nil]
    /\ busy = [c \in Conn |-> FALSE]
    /\ dpc = "look" /\ todo = {} /\ wc = Nil /\ hand = Nil
    /\ reapSaves = Nil
    /\ hpc = [c \in Conn |-> "read"]
    /\ held = [c \in Conn |-> Nil]
    /\ link = [c \in Conn |-> "unused"]
    /\ toWorker = [c \in Conn |-> << >>]
    /\ toBroker = [c \in Conn |-> << >>]
    /\ running = [w \in Worker |-> {}]
    /\ crashes = 0
    /\ published = {} /\ released = {} /\ dropped = {} /\ lost = {}
    /\ attempts = [t \in Task |-> 0]

Dispatcher ==
    \/ Scan \/ DeleteRow \/ Deliver \/ Record \/ DeliverFails
    \/ SaveUndelivered \/ DropWorker
    \/ \E c \in Conn : Skip(c) \/ \E t \in Task : Dequeue(c, t)

Reaper ==
    \/ \E S \in SUBSET Task : Reap(S)
    \/ \E t \in Task : RetryReaped(t)
    \/ SaveReaped

Handler(c) ==
    \/ Subscribe(c) \/ Ack(c) \/ Result(c) \/ FreeWorker(c) \/ Nack(c)
    \/ RetryNacked(c) \/ SaveNacked(c) \/ Close(c)

Outside ==
    \/ \E w \in Worker : \/ \E c \in Conn : Connect(w, c)
                         \/ \E job \in running[w] : Finish(w, job)
    \/ \E c \in Conn : Receive(c) \/ Cut(c)

Next ==
    \/ \E t \in Task : Publish(t) \/ SavePublished(t)
    \/ Dispatcher \/ Reaper \/ (\E c \in Conn : Handler(c))
    \/ Outside \/ Restart

Spec == Init /\ [][Next]_vars

-----------------------------------------------------------------------------
(* Properties *)

(* The task a thread has taken out of one structure and not put into another. *)
InHand ==
    {t \in Task : \/ dpc \in {"delete", "write", "record"} /\ hand = t
                  \/ t \in reaping
                  \/ \E c \in Conn : hpc[c] = "requeue" /\ held[c] = t}

(* No task is in two places of the broker at once, although it passes from   *)
(* the queue to the dispatcher, to pending, to the reaper or a handler and   *)
(* back without one lock around the way: no two threads own it.              *)
OneOwner ==
    /\ heap \cap pending = {}
    /\ InHand \cap (heap \cup pending) = {}
    /\ dpc \in {"delete", "write", "record"} =>
          hand \notin reaping /\ \A c \in Conn : ~(hpc[c] = "requeue" /\ held[c] = hand)
    /\ \A c \in Conn : hpc[c] = "requeue" =>
          /\ held[c] \notin reaping
          /\ \A d \in Conn : hpc[d] = "requeue" /\ held[d] = held[c] => c = d

(* The broker forgets a task only when a worker has answered for it, when it *)
(* is out of retries, or when a crash finds it out of the queue or before    *)
(* its row is written (queue.py: "recover its queue state after a restart    *)
(* without losing tasks").                                                   *)
TaskIsKept ==
    published \subseteq heap \cup pending \cup InHand \cup released \cup dropped
                             \cup lost

(* Between two starts of the broker no task is delivered more often than for *)
(* its first attempt and max_retries (modules/taskqueue/README.md:           *)
(* "Automatic retry with configurable delay and max attempts"), although     *)
(* three threads change its count, none of them under a lock.                *)
AttemptsBounded == \A t \in Task : attempts[t] <= MaxRetries + 1
=============================================================================
