----------------------------- MODULE WorkerPool -----------------------------
(***************************************************************************)
(* The internal worker pool: worker_pool.go, worker.go, and the task half  *)
(* of context.go and Server.handleRequest.                                 *)
(*                                                                         *)
(* Processes: the reader of each connection (the only caller of submit),   *)
(* the worker goroutines, the goroutine inside start() that launches them, *)
(* the callers of stopAcceptingAndDrain, and the goroutine that waits for  *)
(* the workers.  submitMu is a read-write lock: submit holds the read side *)
(* from its accepting check until it returns, so every write-locked        *)
(* section is one action enabled only while no reader is inside submit.    *)
(***************************************************************************)
EXTENDS Naturals, Sequences, FiniteSets

CONSTANTS Connections,    \* IDs of the connections (uint64 values)
          WorkerCount,    \* len(p.workers)
          QueueCapacity,  \* capacity of each worker's task channel
          MaxRequests,    \* bound: requests one connection sends
          Drainers        \* goroutines that call stopAcceptingAndDrain

ASSUME WorkerPoolAssumption ==
    /\ Connections \subseteq Nat
    /\ WorkerCount \in Nat \ {0}
    /\ QueueCapacity \in Nat \ {0}
    /\ MaxRequests \in Nat

Workers == 0..(WorkerCount - 1)
Task == [conn : Connections, seq : 1..MaxRequests]
None == [conn |-> 0, seq |-> 0]  \* no task: request numbers start at 1

VARIABLES
    poolState,    \* p.state
    accepting,    \* p.accepting
    queue,        \* queue[w]: the buffered channel worker.tasks
    closed,       \* the task channels are closed
    registry,     \* p.tasks, the map of live contexts
    cancelled,    \* tasks whose own context was cancelled
    forced,       \* connections whose forceCtx (parent context) is cancelled
    accepted,     \* accepted[c]: requests of c that submit has queued
    readerPc,     \* readerPc[c]: where c's reader is in handleRequest
    workerPc,     \* workerPc[w]: where the worker goroutine is
    current,      \* current[w]: the task the worker has received
    drainRan,     \* drainOnce has fired
    drainPc,      \* drainPc[d]: where the caller of stopAcceptingAndDrain is
    toCancel,     \* toCancel[d]: the rest of d's snapshotTasks to cancel
    done,         \* p.done is closed
    queuedTasks   \* the queuedTasks gauge of serverMetrics

submitVars == <<accepted, readerPc>>
workerVars == <<workerPc, current>>
drainVars == <<drainRan, drainPc, toCancel, done>>
ctxVars == <<cancelled, forced>>
vars == <<poolState, accepting, queue, closed, registry, queuedTasks,
          submitVars, workerVars, drainVars, ctxVars>>

(* workerIndex: a connection belongs to one worker for its lifetime. *)
WorkerIndex(c) == c % WorkerCount

(* The request c's reader is submitting. *)
Request(c) == [conn |-> c, seq |-> accepted[c] + 1]

(* Context.Err() # nil: a task context derives from its connection's       *)
(* forceCtx (newContext with taskContext as parent).                       *)
Cancelled(t) == t \in cancelled \/ t.conn \in forced

(* No submit is between RLock and RUnlock: the write lock can be taken. *)
WriteLockFree == \A c \in Connections : readerPc[c] # "sending"

(* decrementGauge: never below zero. *)
Decremented(gauge) == IF gauge = 0 THEN 0 ELSE gauge - 1

Init ==
    /\ poolState = "new"
    /\ accepting = FALSE
    /\ queue = [w \in Workers |-> <<>>]
    /\ closed = FALSE
    /\ registry = {}
    /\ cancelled = {}
    /\ forced = {}
    /\ accepted = [c \in Connections |-> 0]
    /\ readerPc = [c \in Connections |-> "idle"]
    /\ workerPc = [w \in Workers |-> "off"]
    /\ current = [w \in Workers |-> None]
    /\ drainRan = FALSE
    /\ drainPc = [d \in Drainers |-> "idle"]
    /\ toCancel = [d \in Drainers |-> {}]
    /\ done = FALSE
    /\ queuedTasks = 0

-----------------------------------------------------------------------------
(* Plausible bugs, used only to show that the properties can fail.  Each   *)
(* one takes the place of the definition it is named after.                *)

(* start() without its check of p.state. *)
BugStart ==
    /\ WriteLockFree
    /\ poolState' = "started"
    /\ accepting' = TRUE
    /\ UNCHANGED <<queue, closed, registry, queuedTasks,
                   submitVars, workerVars, drainVars, ctxVars>>

(* The worker is picked by the request, not by its connection. *)
BugSubmitQueue(c) ==
    LET w == (c + accepted[c]) % WorkerCount IN
    /\ readerPc[c] = "sending"
    /\ Len(queue[w]) < QueueCapacity
    /\ queue' = [queue EXCEPT ![w] = Append(@, Request(c))]
    /\ accepted' = [accepted EXCEPT ![c] = @ + 1]
    /\ readerPc' = [readerPc EXCEPT ![c] = "idle"]
    /\ UNCHANGED <<poolState, accepting, closed, registry, queuedTasks,
                   workerVars, drainVars, ctxVars>>

(* One task more than the channel holds. *)
BugSubmitQueueOverflow(c) ==
    LET w == WorkerIndex(c) IN
    /\ readerPc[c] = "sending"
    /\ Len(queue[w]) <= QueueCapacity
    /\ queue' = [queue EXCEPT ![w] = Append(@, Request(c))]
    /\ accepted' = [accepted EXCEPT ![c] = @ + 1]
    /\ readerPc' = [readerPc EXCEPT ![c] = "idle"]
    /\ UNCHANGED <<poolState, accepting, closed, registry, queuedTasks,
                   workerVars, drainVars, ctxVars>>

(* A rejected task is neither uncounted ... *)
BugSubmitFullCount(c) ==
    /\ readerPc[c] = "sending"
    /\ Len(queue[WorkerIndex(c)]) >= QueueCapacity
    /\ registry' = registry \ {Request(c)}
    /\ cancelled' = cancelled \cup {Request(c)}
    /\ readerPc' = [readerPc EXCEPT ![c] = "gone"]
    /\ UNCHANGED <<poolState, accepting, queue, closed, queuedTasks,
                   accepted, workerVars, drainVars, forced>>

(* ... nor unregistered. *)
BugSubmitFullRegistry(c) ==
    /\ readerPc[c] = "sending"
    /\ Len(queue[WorkerIndex(c)]) >= QueueCapacity
    /\ queuedTasks' = Decremented(queuedTasks)
    /\ cancelled' = cancelled \cup {Request(c)}
    /\ readerPc' = [readerPc EXCEPT ![c] = "gone"]
    /\ UNCHANGED <<poolState, accepting, queue, closed, registry,
                   accepted, workerVars, drainVars, forced>>

(* The offer waits for room in the queue, with the read lock held. *)
BugSubmitFullBlocks(c) ==
    /\ readerPc[c] = "sending"
    /\ Len(queue[WorkerIndex(c)]) >= QueueCapacity
    /\ UNCHANGED vars

(* The channels are closed without the write lock. *)
BugDrainStarted(d) ==
    /\ drainPc[d] = "called" /\ ~drainRan
    /\ poolState = "started"
    /\ drainRan' = TRUE
    /\ accepting' = FALSE
    /\ poolState' = "stopping"
    /\ closed' = TRUE
    /\ drainPc' = [drainPc EXCEPT ![d] = "wait"]
    /\ UNCHANGED <<queue, registry, queuedTasks, done,
                   submitVars, workerVars, toCancel, ctxVars>>

(* Waiting for one worker instead of all of them. *)
BugWorkersDone ==
    /\ poolState = "stopping"
    /\ \E w \in Workers : workerPc[w] = "exit"
    /\ poolState' = "stopped"
    /\ done' = TRUE
    /\ UNCHANGED <<accepting, queue, closed, registry, queuedTasks,
                   drainRan, drainPc, toCancel, submitVars, workerVars, ctxVars>>

(* forceCancel snapshots only what is executing ... *)
BugDrainTimeoutRunning(d) ==
    /\ drainPc[d] = "wait"
    /\ toCancel' = [toCancel EXCEPT ![d] =
                       {current[w] : w \in {v \in Workers : workerPc[v] = "run"}}]
    /\ drainPc' = [drainPc EXCEPT ![d] = "force"]
    /\ UNCHANGED <<poolState, accepting, queue, closed, registry, queuedTasks,
                   drainRan, done, submitVars, workerVars, ctxVars>>

(* ... or is not called at all. *)
BugDrainTimeoutNone(d) ==
    /\ drainPc[d] = "wait"
    /\ drainPc' = [drainPc EXCEPT ![d] = "force"]
    /\ UNCHANGED <<poolState, accepting, queue, closed, registry, queuedTasks,
                   drainRan, toCancel, done, submitVars, workerVars, ctxVars>>

-----------------------------------------------------------------------------
(* workerPool.start *)

Start ==
    /\ WriteLockFree
    /\ poolState = "new"
    /\ poolState' = "started"
    /\ accepting' = TRUE
    /\ UNCHANGED <<queue, closed, registry, queuedTasks,
                   submitVars, workerVars, drainVars, ctxVars>>

(* The loop after the unlock: a drain may already have run in between.     *)
(* A pool stopped from "new" was never started and launches nothing.       *)
LaunchWorker(w) ==
    /\ poolState # "new" /\ ~(poolState = "stopped" /\ ~closed)
    /\ workerPc[w] = "off"
    /\ workerPc' = [workerPc EXCEPT ![w] = "recv"]
    /\ UNCHANGED <<poolState, accepting, queue, closed, registry, queuedTasks,
                   submitVars, current, drainVars, ctxVars>>

-----------------------------------------------------------------------------
(* Server.handleRequest and workerPool.submit, called by c's reader *)

(* RLock; intake has stopped: ErrServerStopping, the context is finished   *)
(* and the reader returns.                                                 *)
SubmitStopping(c) ==
    /\ readerPc[c] = "idle" /\ accepted[c] < MaxRequests
    /\ ~accepting
    /\ readerPc' = [readerPc EXCEPT ![c] = "gone"]
    /\ cancelled' = cancelled \cup {Request(c)}
    /\ UNCHANGED <<poolState, accepting, queue, closed, registry, queuedTasks,
                   accepted, workerVars, drainVars, forced>>

(* RLock; the task is registered and counted before it is offered. *)
SubmitRegister(c) ==
    /\ readerPc[c] = "idle" /\ accepted[c] < MaxRequests
    /\ accepting
    /\ readerPc' = [readerPc EXCEPT ![c] = "sending"]
    /\ registry' = registry \cup {Request(c)}
    /\ queuedTasks' = queuedTasks + 1
    /\ UNCHANGED <<poolState, accepting, queue, closed,
                   accepted, workerVars, drainVars, ctxVars>>

(* The select: the channel has room. *)
SubmitQueue(c) ==
    LET w == WorkerIndex(c) IN
    /\ readerPc[c] = "sending"
    /\ Len(queue[w]) < QueueCapacity
    /\ queue' = [queue EXCEPT ![w] = Append(@, Request(c))]
    /\ accepted' = [accepted EXCEPT ![c] = @ + 1]
    /\ readerPc' = [readerPc EXCEPT ![c] = "idle"]
    /\ UNCHANGED <<poolState, accepting, closed, registry, queuedTasks,
                   workerVars, drainVars, ctxVars>>

(* The select's default: ErrWorkerQueueFull undoes the registration, and   *)
(* handleRequest finishes the context.  The reader then closes its         *)
(* connection (Connection!ReadQueueFull, ForceConnection here) and ends.   *)
SubmitFull(c) ==
    /\ readerPc[c] = "sending"
    /\ Len(queue[WorkerIndex(c)]) >= QueueCapacity
    /\ queuedTasks' = Decremented(queuedTasks)
    /\ registry' = registry \ {Request(c)}
    /\ cancelled' = cancelled \cup {Request(c)}
    /\ readerPc' = [readerPc EXCEPT ![c] = "gone"]
    /\ UNCHANGED <<poolState, accepting, queue, closed,
                   accepted, workerVars, drainVars, forced>>

(* requestClose on the connection cancels forceCtx, hence its tasks. *)
ForceConnection(c) ==
    /\ c \notin forced
    /\ forced' = forced \cup {c}
    /\ UNCHANGED <<poolState, accepting, queue, closed, registry, queuedTasks,
                   submitVars, workerVars, drainVars, cancelled>>

-----------------------------------------------------------------------------
(* worker.start: the loop over the channel *)

Receive(w) ==
    /\ workerPc[w] = "recv"
    /\ queue[w] # <<>>
    /\ current' = [current EXCEPT ![w] = Head(queue[w])]
    /\ queue' = [queue EXCEPT ![w] = Tail(@)]
    /\ workerPc' = [workerPc EXCEPT ![w] = "got"]
    /\ UNCHANGED <<poolState, accepting, closed, registry, queuedTasks,
                   submitVars, drainVars, ctxVars>>

(* taskDequeued, then the handler chain unless the context is cancelled. *)
Begin(w) ==
    /\ workerPc[w] = "got"
    /\ queuedTasks' = Decremented(queuedTasks)
    /\ workerPc' = [workerPc EXCEPT
                      ![w] = IF Cancelled(current[w]) THEN "settle" ELSE "run"]
    /\ UNCHANGED <<poolState, accepting, queue, closed, registry,
                   submitVars, current, drainVars, ctxVars>>

(* task.Next() returns: how long that takes is up to the application. *)
HandlerReturns(w) ==
    /\ workerPc[w] = "run"
    /\ workerPc' = [workerPc EXCEPT ![w] = "settle"]
    /\ UNCHANGED <<poolState, accepting, queue, closed, registry, queuedTasks,
                   submitVars, current, drainVars, ctxVars>>

(* The deferred unregister and finish. *)
Settle(w) ==
    /\ workerPc[w] = "settle"
    /\ registry' = registry \ {current[w]}
    /\ cancelled' = cancelled \cup {current[w]}
    /\ current' = [current EXCEPT ![w] = None]
    /\ workerPc' = [workerPc EXCEPT ![w] = "recv"]
    /\ UNCHANGED <<poolState, accepting, queue, closed, queuedTasks,
                   submitVars, drainVars, forced>>

(* The channel is closed and empty: worker.done is closed. *)
Exit(w) ==
    /\ workerPc[w] = "recv"
    /\ closed /\ queue[w] = <<>>
    /\ workerPc' = [workerPc EXCEPT ![w] = "exit"]
    /\ UNCHANGED <<poolState, accepting, queue, closed, registry, queuedTasks,
                   submitVars, current, drainVars, ctxVars>>

-----------------------------------------------------------------------------
(* stopAccepting and stopAcceptingAndDrain *)

(* The shutdown owner's first step, taken only after start() (Server.Run   *)
(* starts the pool before it publishes the running state).                 *)
StopAccepting ==
    /\ WriteLockFree
    /\ poolState # "new"
    /\ accepting
    /\ accepting' = FALSE
    /\ UNCHANGED <<poolState, queue, closed, registry, queuedTasks,
                   submitVars, workerVars, drainVars, ctxVars>>

(* Somebody calls stopAcceptingAndDrain.  From here on drainOnce wants     *)
(* the write lock, and the context's deadline does not count yet.          *)
DrainCall(d) ==
    /\ drainPc[d] = "idle"
    /\ drainPc' = [drainPc EXCEPT ![d] = "called"]
    /\ UNCHANGED <<poolState, accepting, queue, closed, registry, queuedTasks,
                   drainRan, toCancel, done, submitVars, workerVars, ctxVars>>

(* drainOnce, pool never started: stopped and done at once. *)
DrainNew(d) ==
    /\ drainPc[d] = "called" /\ ~drainRan
    /\ WriteLockFree
    /\ poolState = "new"
    /\ drainRan' = TRUE
    /\ accepting' = FALSE
    /\ poolState' = "stopped"
    /\ done' = TRUE
    /\ drainPc' = [drainPc EXCEPT ![d] = "wait"]
    /\ UNCHANGED <<queue, closed, registry, queuedTasks,
                   submitVars, workerVars, toCancel, ctxVars>>

(* drainOnce, pool started: the channels are closed under the write lock   *)
(* and a goroutine is left waiting for the workers.                        *)
DrainStarted(d) ==
    /\ drainPc[d] = "called" /\ ~drainRan
    /\ WriteLockFree
    /\ poolState = "started"
    /\ drainRan' = TRUE
    /\ accepting' = FALSE
    /\ poolState' = "stopping"
    /\ closed' = TRUE
    /\ drainPc' = [drainPc EXCEPT ![d] = "wait"]
    /\ UNCHANGED <<queue, registry, queuedTasks, done,
                   submitVars, workerVars, toCancel, ctxVars>>

(* drainOnce has fired already: only wait. *)
DrainAgain(d) ==
    /\ drainPc[d] = "called" /\ drainRan
    /\ drainPc' = [drainPc EXCEPT ![d] = "wait"]
    /\ UNCHANGED <<poolState, accepting, queue, closed, registry, queuedTasks,
                   drainRan, toCancel, done, submitVars, workerVars, ctxVars>>

(* The waiting goroutine has received from every worker.done. *)
WorkersDone ==
    /\ poolState = "stopping"
    /\ \A w \in Workers : workerPc[w] = "exit"
    /\ poolState' = "stopped"
    /\ done' = TRUE
    /\ UNCHANGED <<accepting, queue, closed, registry, queuedTasks,
                   drainRan, drainPc, toCancel, submitVars, workerVars, ctxVars>>

DrainReturns(d) ==
    /\ drainPc[d] = "wait" /\ done
    /\ drainPc' = [drainPc EXCEPT ![d] = "drained"]
    /\ UNCHANGED <<poolState, accepting, queue, closed, registry, queuedTasks,
                   drainRan, toCancel, done, submitVars, workerVars, ctxVars>>

(* ctx.Done() fires first: forceCancel snapshots the registered tasks ... *)
DrainTimeout(d) ==
    /\ drainPc[d] = "wait"
    /\ toCancel' = [toCancel EXCEPT ![d] = registry]
    /\ drainPc' = [drainPc EXCEPT ![d] = "force"]
    /\ UNCHANGED <<poolState, accepting, queue, closed, registry, queuedTasks,
                   drainRan, done, submitVars, workerVars, ctxVars>>

(* ... and cancels them one by one. *)
CancelTask(d) ==
    /\ drainPc[d] = "force"
    /\ \E t \in toCancel[d] :
          /\ cancelled' = cancelled \cup {t}
          /\ toCancel' = [toCancel EXCEPT ![d] = @ \ {t}]
    /\ UNCHANGED <<poolState, accepting, queue, closed, registry, queuedTasks,
                   drainRan, drainPc, done, submitVars, workerVars, forced>>

-----------------------------------------------------------------------------
ReaderStep(c) ==
    \/ SubmitStopping(c) \/ SubmitRegister(c)
    \/ SubmitQueue(c) \/ SubmitFull(c)
    \/ ForceConnection(c)

WorkerStep(w) ==
    \/ LaunchWorker(w) \/ Receive(w) \/ Begin(w)
    \/ HandlerReturns(w) \/ Settle(w) \/ Exit(w)

DrainStep(d) ==
    \/ DrainCall(d) \/ DrainNew(d) \/ DrainStarted(d) \/ DrainAgain(d)
    \/ DrainReturns(d) \/ DrainTimeout(d) \/ CancelTask(d)

Next ==
    \/ Start \/ StopAccepting \/ WorkersDone
    \/ \E c \in Connections : ReaderStep(c)
    \/ \E w \in Workers : WorkerStep(w)
    \/ \E d \in Drainers : DrainStep(d)

(* A handler that watches its context returns once it is cancelled.  An    *)
(* uncancelled handler is not assumed to return.                           *)
CooperativeReturn(w) == Cancelled(current[w]) /\ HandlerReturns(w)

(* Runnable goroutines are scheduled, the shutdown timer fires, and        *)
(* handlers are cooperative.  A writer waiting for submitMu is not starved *)
(* by readers that come and go (sync.RWMutex), hence strong fairness; it   *)
(* waits as long as one of them stays.  Nothing is assumed of clients, of  *)
(* Start or of whoever calls for the drain.                                *)
Fairness ==
    /\ \A c \in Connections : WF_vars(SubmitQueue(c) \/ SubmitFull(c))
    /\ \A w \in Workers :
          /\ WF_vars(LaunchWorker(w) \/ Receive(w) \/ Begin(w)
                     \/ Settle(w) \/ Exit(w))
          /\ WF_vars(CooperativeReturn(w))
    /\ \A d \in Drainers :
          /\ SF_vars(DrainNew(d) \/ DrainStarted(d) \/ DrainAgain(d))
          /\ WF_vars(DrainReturns(d) \/ DrainTimeout(d) \/ CancelTask(d))
    /\ WF_vars(WorkersDone)

Spec == Init /\ [][Next]_vars /\ Fairness
-----------------------------------------------------------------------------
(* Properties *)

Held(w) == workerPc[w] \in {"got", "run", "settle"}
Queued == {t \in Task : \E w \in Workers : \E i \in 1..Len(queue[w]) : t = queue[w][i]}
Offered == {Request(c) : c \in {d \in Connections : readerPc[d] = "sending"}}
Received == {current[w] : w \in {v \in Workers : workerPc[v] = "got"}}
Running == {current[w] : w \in {v \in Workers : workerPc[v] = "run"}}
InHand == {current[w] : w \in {v \in Workers : Held(v)}}
Counted == Offered \cup Queued \cup Received

(* Every variable of the pool, of its workers and of its callers holds a   *)
(* value of its Go type; queues never exceed the channel capacity.         *)
TypeOK ==
    /\ poolState \in {"new", "started", "stopping", "stopped"}
    /\ accepting \in BOOLEAN
    /\ queue \in [Workers -> Seq(Task)]
    /\ \A w \in Workers : Len(queue[w]) <= QueueCapacity
    /\ closed \in BOOLEAN
    /\ registry \subseteq Task
    /\ cancelled \subseteq Task
    /\ forced \subseteq Connections
    /\ accepted \in [Connections -> 0..MaxRequests]
    /\ readerPc \in [Connections -> {"idle", "sending", "gone"}]
    /\ workerPc \in [Workers -> {"off", "recv", "got", "run", "settle", "exit"}]
    /\ current \in [Workers -> Task \cup {None}]
    /\ drainRan \in BOOLEAN
    /\ drainPc \in [Drainers -> {"idle", "called", "wait", "drained", "force"}]
    /\ toCancel \in [Drainers -> SUBSET Task]
    /\ done \in BOOLEAN
    /\ queuedTasks \in Nat

(* submit never sends on a closed task channel, which would panic the      *)
(* reader: the channels close only while no reader is past the accepting   *)
(* check of submit.                                                        *)
NoSendOnClosedChannel ==
    \A c \in Connections : readerPc[c] = "sending" => ~closed

(* The queuedTasks gauge counts exactly the tasks between taskQueued and   *)
(* taskDequeued, so the clamp in decrementGauge never hides a decrement    *)
(* that overtook its increment.                                            *)
GaugeExact == queuedTasks = Cardinality(Counted)

(* p.tasks holds exactly the tasks that are offered, queued or in a        *)
(* worker's hands: forceCancel can miss none of them and leaks none.       *)
RegistryExact == registry = Offered \cup Queued \cup InHand

(* stopAcceptingAndDrain returns nil only when every accepted task has     *)
(* been executed or dropped and every worker goroutine that was launched   *)
(* has ended.                                                              *)
DrainReturnsClean ==
    \A d \in Drainers : drainPc[d] = "drained" =>
        /\ registry = {} /\ Queued = {}
        /\ \A w \in Workers : workerPc[w] \in {"off", "exit"}
        /\ (\E w \in Workers : workerPc[w] = "exit") =>
               \A w \in Workers : workerPc[w] = "exit"

(* Once forceCancel is through its snapshot, every task the pool still     *)
(* holds has a cancelled context, although tasks were registered and       *)
(* settled by other goroutines meanwhile.                                  *)
ForceCancelReachesAll ==
    \A d \in Drainers : drainPc[d] = "force" /\ toCancel[d] = {} =>
        \A t \in registry : Cancelled(t)

(* Intake never reopens after a drain or a stopAccepting, even when start  *)
(* is called late.                                                         *)
NeverReopens ==
    [][(drainRan \/ (poolState # "new" /\ ~accepting)) => ~accepting']_vars

(* The pool delivers the requests of a connection one at a time and in     *)
(* order and drops only cancelled ones: it implements TaskDispatch.        *)
Intake == IF accepting THEN "open"
          ELSE IF poolState = "new" THEN "new" ELSE "closed"
Pending == Queued \cup Received
Revoked == {t \in Task : Cancelled(t)}

TD == INSTANCE TaskDispatch WITH
        intake <- Intake, pending <- Pending, running <- Running,
        revoked <- Revoked, drained <- done

Dispatch == TD!Spec

(* A drain that was called ends, whatever is offered, queued or executing  *)
(* when it begins: no submit keeps the write lock from it, even while a    *)
(* handler that nobody has cancelled yet blocks a full queue, and with the *)
(* timer and cooperative handlers the workers empty their closed channels  *)
(* and p.done is closed.                                                   *)
DrainTerminates == (\E d \in Drainers : drainPc[d] = "called") ~> done
=============================================================================
