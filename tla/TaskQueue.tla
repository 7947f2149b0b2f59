----------------------------- MODULE TaskQueue -----------------------------
(***************************************************************************)
(* The task queue: internal/agent/taskqueue.go.                            *)
(*                                                                         *)
(* A task has a record in the store and, while it is queued, a place in a  *)
(* priority heap in memory. Enqueuers, consumers (Dequeue) and updaters    *)
(* (Complete, Fail, Cancel) call the queue from goroutines of their own;   *)
(* q.mu guards the heap, nothing guards the records. Of a record the model *)
(* keeps the status. A crash empties the memory, and NewTaskQueue reads    *)
(* nothing back.                                                           *)
(***************************************************************************)
EXTENDS Integers, FiniteSets

CONSTANTS Task, Consumer, Updater,
          Priority,         \* Priority[t]: the smaller, the more urgent
          NoTask,           \* the record of a task that has none, an idle updater
          MaxQueueCrash     \* bound on crashes

Ended == {"completed", "failed", "cancelled"}
Status == {"pending", "running"} \cup Ended

\* What an updater carries from reading a record to writing it.
Updates == [task : Task, status : Ended]

ASSUME PriorityAssumption == Priority \in [Task -> Nat]
ASSUME NoTaskAssumption == NoTask \notin Task /\ NoTask \notin Status /\ NoTask \notin Updates
ASSUME ConsumerAssumption == Consumer # {}
ASSUME QueueBound == MaxQueueCrash \in Nat

VARIABLES
    record,     \* the stored task records
    agentTasks, \* the tasks in the agent's index
    heap,       \* the tasks in the priority heap
    notify,     \* is there a token in the notify channel (capacity 1)?
    enqueue,    \* how far Enqueue(t) has come
    consumer,   \* what each consumer is doing
    update,     \* the update an updater has read a record for
    handed,     \* how often a task was handed to a consumer
    queueCrashes

queueVars == <<record, agentTasks, heap, notify, enqueue, consumer, update, handed, queueCrashes>>

QueueInit ==
    /\ record = [t \in Task |-> NoTask]
    /\ agentTasks = {}
    /\ heap = {}
    /\ notify = FALSE
    /\ enqueue = [t \in Task |-> "new"]
    /\ consumer = [c \in Consumer |-> "away"]
    /\ update = [u \in Updater |-> NoTask]
    /\ handed = [t \in Task |-> 0]
    /\ queueCrashes = 0

-----------------------------------------------------------------------------
(* Enqueue: the record, its index entry, the heap, the token.              *)

SaveTask(t) ==
    /\ enqueue[t] = "new"
    /\ enqueue' = [enqueue EXCEPT ![t] = "saved"]
    /\ record' = [record EXCEPT ![t] = "pending"]
    /\ UNCHANGED <<agentTasks, heap, notify, consumer, update, handed, queueCrashes>>

IndexTask(t) ==
    /\ enqueue[t] = "saved"
    /\ enqueue' = [enqueue EXCEPT ![t] = "indexed"]
    /\ agentTasks' = agentTasks \cup {t}
    /\ UNCHANGED <<record, heap, notify, consumer, update, handed, queueCrashes>>

\* Mutant: the task is pushed before it is saved.
PushFirst(t) == enqueue[t] = "new"

MayPush(t) == enqueue[t] = "indexed"

Push(t) ==
    /\ MayPush(t)
    /\ enqueue' = [enqueue EXCEPT ![t] = IF @ = "new" THEN @ ELSE "pushed"]
    /\ heap' = heap \cup {t}
    /\ UNCHANGED <<record, agentTasks, notify, consumer, update, handed, queueCrashes>>

\* Mutant: the token is lost.
NoToken == notify

\* The select sends into the channel or finds it full.
Token == TRUE

Notify(t) ==
    /\ enqueue[t] = "pushed"
    /\ enqueue' = [enqueue EXCEPT ![t] = "returned"]
    /\ notify' = Token
    /\ UNCHANGED <<record, agentTasks, heap, consumer, update, handed, queueCrashes>>

-----------------------------------------------------------------------------
(* Dequeue.                                                                *)

CallDequeue(c) ==
    /\ consumer[c] = "away"
    /\ consumer' = [consumer EXCEPT ![c] = "looking"]
    /\ UNCHANGED <<record, agentTasks, heap, notify, enqueue, update, handed, queueCrashes>>

\* Mutants: the task stays in the heap; a consumer waits without looking.
Peeked(t) == heap
NotLooked == TRUE

Popped(t) == heap \ {t}

NothingQueued == heap = {}

\* Under the lock: a most urgent task leaves the heap, and its record is saved
\* as running over whatever the store holds by now.
Take(c) ==
    /\ consumer[c] = "looking"
    /\ \E t \in heap :
          /\ \A o \in heap : Priority[t] <= Priority[o]
          /\ heap' = Popped(t)
          /\ record' = [record EXCEPT ![t] = "running"]
          /\ agentTasks' = agentTasks \cup {t}
          /\ handed' = [handed EXCEPT ![t] = @ + 1]
    /\ consumer' = [consumer EXCEPT ![c] = "away"]
    /\ UNCHANGED <<notify, enqueue, update, queueCrashes>>

Block(c) ==
    /\ consumer[c] = "looking" /\ NothingQueued
    /\ consumer' = [consumer EXCEPT ![c] = "waiting"]
    /\ UNCHANGED <<record, agentTasks, heap, notify, enqueue, update, handed, queueCrashes>>

\* The token goes to one waiting consumer, which looks again.
Wake(c) ==
    /\ consumer[c] = "waiting" /\ notify
    /\ notify' = FALSE
    /\ consumer' = [consumer EXCEPT ![c] = "looking"]
    /\ UNCHANGED <<record, agentTasks, heap, enqueue, update, handed, queueCrashes>>

\* The context ends: Dequeue returns its error. The select may prefer it to a token.
Expire(c) ==
    /\ consumer[c] = "waiting"
    /\ consumer' = [consumer EXCEPT ![c] = "away"]
    /\ UNCHANGED <<record, agentTasks, heap, notify, enqueue, update, handed, queueCrashes>>

-----------------------------------------------------------------------------
(* Complete, Fail, Cancel: updateStatus reads the record and writes it     *)
(* back, without the lock.                                                 *)

ReadTask(u, t, s) ==
    /\ update[u] = NoTask /\ record[t] # NoTask
    /\ update' = [update EXCEPT ![u] = [task |-> t, status |-> s]]
    /\ UNCHANGED <<record, agentTasks, heap, notify, enqueue, consumer, handed, queueCrashes>>

WriteTask(u) ==
    /\ update[u] # NoTask
    /\ record' = [record EXCEPT ![update[u].task] = update[u].status]
    /\ agentTasks' = agentTasks \cup {update[u].task}
    /\ update' = [update EXCEPT ![u] = NoTask]
    /\ UNCHANGED <<heap, notify, enqueue, consumer, handed, queueCrashes>>

\* The process dies; its calls and its heap die with it.
QueueCrash ==
    /\ queueCrashes < MaxQueueCrash
    /\ queueCrashes' = queueCrashes + 1
    /\ heap' = {}
    /\ notify' = FALSE
    /\ enqueue' = [t \in Task |-> IF enqueue[t] = "new" THEN "new" ELSE "returned"]
    /\ consumer' = [c \in Consumer |-> "away"]
    /\ update' = [u \in Updater |-> NoTask]
    /\ UNCHANGED <<record, agentTasks, handed>>

-----------------------------------------------------------------------------
Enqueue(t) == SaveTask(t) \/ IndexTask(t) \/ Push(t) \/ Notify(t)

Dequeue(c) == CallDequeue(c) \/ Take(c) \/ Block(c) \/ Wake(c)

QueueNext ==
    \/ \E t \in Task : Enqueue(t)
    \/ \E c \in Consumer : Dequeue(c) \/ Expire(c)
    \/ \E u \in Updater : WriteTask(u) \/ \E t \in Task, s \in Ended : ReadTask(u, t, s)
    \/ QueueCrash

QueueSpec == QueueInit /\ [][QueueNext]_queueVars

\* Goroutines run, and every consumer comes back for more: a worker calls Dequeue in
\* a loop. Nobody has to wait in vain, to update a task or to crash.
QueueFairness ==
    /\ \A t \in Task : WF_queueVars(Enqueue(t) /\ enqueue[t] # "new")
    /\ \A c \in Consumer : WF_queueVars(Dequeue(c))

QueueFairSpec == QueueSpec /\ QueueFairness

-----------------------------------------------------------------------------
\* The shapes of the store, the queue and the calls in progress. The heap and the index
\* name only tasks that are stored.
QueueTypeOK ==
    /\ record \in [Task -> Status \cup {NoTask}]
    /\ agentTasks \subseteq {t \in Task : record[t] # NoTask}
    /\ heap \subseteq {t \in Task : record[t] # NoTask}
    /\ notify \in BOOLEAN
    /\ enqueue \in [Task -> {"new", "saved", "indexed", "pushed", "returned"}]
    /\ consumer \in [Consumer -> {"away", "looking", "waiting"}]
    /\ update \in [Updater -> Updates \cup {NoTask}]
    /\ handed \in [Task -> Nat]
    /\ queueCrashes \in 0..MaxQueueCrash

\* The channel holds one token however many tasks were pushed, and a consumer that
\* takes the token takes one task. Yet tasks never lie in the heap with every
\* consumer asleep and no token on its way.
NoLostWakeUp ==
    heap # {} => \/ notify
                 \/ \E t \in Task : enqueue[t] = "pushed"
                 \/ \E c \in Consumer : consumer[c] # "waiting"

\* Whatever enqueuers, consumers, updaters and crashes do, no task is handed out twice
\* and none that is still in the heap was handed out.
HandedOutOnce ==
    \A t \in Task : /\ handed[t] <= 1
                    /\ t \in heap => handed[t] = 0

\* Enqueue saves the record before it pushes the task, so its "pending" never
\* overwrites what a consumer or an updater has written since.
NeverPendingAgain ==
    [][\A t \in Task : record[t] # NoTask /\ record[t] # "pending" => record'[t] # "pending"]_record

\* A queued task is handed out, as long as the process lives and its workers come back.
QueuedIsTaken == \A t \in Task : t \in heap ~> t \notin heap
=============================================================================
