-------------------------- MODULE WorkerPoolProofs --------------------------
(***************************************************************************)
(* Proofs about WorkerPool, for every number of connections, workers,      *)
(* requests and drainers and every queue capacity: its safety properties,  *)
(* and that it implements TaskDispatch.                                    *)
(***************************************************************************)
EXTENDS WorkerPool, FiniteSetTheorems, TLAPS

USE DEF Workers

(* The strengthening of the safety invariants that is inductive.           *)

(* Who may be inside submit, and what the drain has done. *)
LockInv ==
    /\ accepting => poolState = "started" /\ ~drainRan
    /\ \A c \in Connections :
          readerPc[c] = "sending" => accepting /\ accepted[c] < MaxRequests
    /\ poolState = "new" => ~drainRan
    /\ poolState = "stopping" => closed
    /\ closed => drainRan /\ poolState \in {"stopping", "stopped"}
    /\ done => poolState = "stopped"

(* A worker holds a task exactly between its receive and its settlement,   *)
(* and leaves only a closed and empty channel behind.                      *)
HandInv ==
    /\ \A w \in Workers : IF Held(w) THEN current[w] \in Task ELSE current[w] = None
    /\ \A w \in Workers : workerPc[w] = "exit" => closed /\ queue[w] = <<>>
    /\ poolState = "new" \/ (poolState = "stopped" /\ ~closed) =>
          \A w \in Workers : workerPc[w] = "off" /\ queue[w] = <<>>
    /\ done /\ closed => \A w \in Workers : workerPc[w] = "exit"

(* Tasks of a connection are with its own worker, oldest first, and none   *)
(* of them is newer than the last one accepted.                            *)
OrderInv ==
    /\ \A w \in Workers : \A i \in 1..Len(queue[w]) :
          /\ WorkerIndex(queue[w][i].conn) = w
          /\ queue[w][i].seq <= accepted[queue[w][i].conn]
          /\ \A j \in 1..Len(queue[w]) :
                i < j /\ queue[w][i].conn = queue[w][j].conn =>
                    queue[w][i].seq < queue[w][j].seq
    /\ \A w \in Workers : Held(w) =>
          /\ WorkerIndex(current[w].conn) = w
          /\ current[w].seq <= accepted[current[w].conn]
          /\ \A i \in 1..Len(queue[w]) :
                queue[w][i].conn = current[w].conn => current[w].seq < queue[w][i].seq

(* Whoever was told that the pool is drained saw p.done closed. *)
DrainedInv == \A d \in Drainers : drainPc[d] = "drained" => done

(* What the gauge counts is finite, whatever the number of connections. *)
GaugeInv == IsFiniteSet(Counted) /\ GaugeExact

(* forceCancel starts after intake has closed for good, and a task that is *)
(* neither cancelled nor in the rest of its snapshot has been settled.     *)
ForceInv ==
    \A d \in Drainers :
        /\ drainPc[d] \notin {"idle", "called"} => drainRan
        /\ drainPc[d] = "force" => \A t \in registry : t \in toCancel[d] \/ Cancelled(t)

IInv ==
    /\ TypeOK /\ LockInv /\ HandInv /\ OrderInv /\ DrainedInv /\ RegistryExact
    /\ GaugeInv /\ ForceInv
-----------------------------------------------------------------------------
(* A connection's worker exists. *)
LEMMA WorkerIndexType == \A c \in Connections : WorkerIndex(c) \in Workers
  BY WorkerPoolAssumption DEF WorkerIndex

(* The next request of a connection that may still send is a task. *)
LEMMA RequestType ==
  ASSUME TypeOK, NEW c \in Connections, accepted[c] < MaxRequests
  PROVE  Request(c) \in Task
  BY WorkerPoolAssumption DEF TypeOK, Request, Task

(* None stands for no task. *)
LEMMA NoneIsNoTask == None \notin Task
  BY DEF None, Task

LEMMA InitType == Init => TypeOK
<1> SUFFICES ASSUME Init PROVE TypeOK
  OBVIOUS
<1> USE WorkerPoolAssumption DEF Init
<1>1. queue \in [Workers -> Seq(Task)] /\ \A w \in Workers : Len(queue[w]) <= QueueCapacity
  OBVIOUS
<1>2. current \in [Workers -> Task \cup {None}]
  OBVIOUS
<1>3. accepted \in [Connections -> 0..MaxRequests]
  OBVIOUS
<1>4. toCancel \in [Drainers -> SUBSET Task]
  OBVIOUS
<1> QED
  BY <1>1, <1>2, <1>3, <1>4 DEF TypeOK

(* One step from a state with the type, lock and hand invariants leads to  *)
(* a well-typed state.                                                     *)
LEMMA NextType == TypeOK /\ LockInv /\ HandInv /\ [Next]_vars => TypeOK'
<1> SUFFICES ASSUME TypeOK, LockInv, HandInv, [Next]_vars
             PROVE  TypeOK'
  OBVIOUS
<1> USE WorkerPoolAssumption
<1>1. CASE UNCHANGED vars
  BY <1>1 DEF vars, submitVars, workerVars, drainVars, ctxVars, TypeOK
<1>2. CASE Start \/ StopAccepting \/ WorkersDone
  BY <1>2 DEF Start, StopAccepting, WorkersDone, submitVars, workerVars,
              drainVars, ctxVars, TypeOK
<1>3. ASSUME NEW c \in Connections, ReaderStep(c)
      PROVE  TypeOK'
  <2>1. CASE SubmitStopping(c)
    <3>1. Request(c) \in Task
      BY <2>1, RequestType DEF SubmitStopping
    <3> QED
      BY <2>1, <3>1 DEF SubmitStopping, workerVars, drainVars, TypeOK
  <2>2. CASE SubmitRegister(c)
    <3>1. Request(c) \in Task
      BY <2>2, RequestType DEF SubmitRegister
    <3>2. queuedTasks' \in Nat
      BY <2>2 DEF SubmitRegister, TypeOK
    <3> QED
      BY <2>2, <3>1, <3>2 DEF SubmitRegister, workerVars, drainVars, ctxVars, TypeOK
  <2>3. CASE SubmitQueue(c)
    <3>1. Request(c) \in Task /\ accepted[c] < MaxRequests
      BY <2>3, RequestType DEF SubmitQueue, LockInv
    <3>2. WorkerIndex(c) \in Workers
      BY WorkerIndexType
    <3>3. queue' \in [Workers -> Seq(Task)]
      BY <2>3, <3>1, <3>2 DEF SubmitQueue, TypeOK
    <3>4. \A w \in Workers : Len(queue'[w]) <= QueueCapacity
      BY <2>3, <3>1, <3>2 DEF SubmitQueue, TypeOK
    <3>5. accepted' \in [Connections -> 0..MaxRequests]
      BY <2>3, <3>1 DEF SubmitQueue, TypeOK
    <3> QED
      BY <2>3, <3>3, <3>4, <3>5 DEF SubmitQueue, workerVars, drainVars, ctxVars, TypeOK
  <2>4. CASE SubmitFull(c)
    <3>1. Request(c) \in Task
      BY <2>4, RequestType DEF SubmitFull, LockInv
    <3>2. queuedTasks' \in Nat
      BY <2>4 DEF SubmitFull, Decremented, TypeOK
    <3> QED
      BY <2>4, <3>1, <3>2 DEF SubmitFull, workerVars, drainVars, TypeOK
  <2>5. CASE ForceConnection(c)
    BY <2>5 DEF ForceConnection, submitVars, workerVars, drainVars, TypeOK
  <2> QED
    BY <1>3, <2>1, <2>2, <2>3, <2>4, <2>5 DEF ReaderStep
<1>4. ASSUME NEW w \in Workers, WorkerStep(w)
      PROVE  TypeOK'
  <2>1. CASE LaunchWorker(w) \/ HandlerReturns(w) \/ Exit(w)
    BY <2>1 DEF LaunchWorker, HandlerReturns, Exit, submitVars, drainVars,
                ctxVars, TypeOK
  <2>2. CASE Receive(w)
    <3>1. /\ queue[w] \in Seq(Task) /\ queue[w] # <<>>
          /\ Len(queue[w]) <= QueueCapacity
      BY <2>2 DEF Receive, TypeOK
    <3>2. /\ Head(queue[w]) \in Task /\ Tail(queue[w]) \in Seq(Task)
          /\ Len(Tail(queue[w])) <= QueueCapacity
      BY <3>1
    <3> QED
      BY <2>2, <3>2 DEF Receive, submitVars, drainVars, ctxVars, TypeOK
  <2>3. CASE Begin(w)
    <3>1. queuedTasks' \in Nat
      BY <2>3 DEF Begin, Decremented, TypeOK
    <3> QED
      BY <2>3, <3>1 DEF Begin, submitVars, drainVars, ctxVars, TypeOK
  <2>4. CASE Settle(w)
    BY <2>4 DEF Settle, Held, HandInv, submitVars, drainVars, TypeOK
  <2> QED
    BY <1>4, <2>1, <2>2, <2>3, <2>4 DEF WorkerStep
<1>5. ASSUME NEW d \in Drainers, DrainStep(d)
      PROVE  TypeOK'
  BY <1>5, ZenonT(60) DEF DrainStep, DrainCall, DrainNew, DrainStarted, DrainAgain, DrainReturns,
              DrainTimeout, CancelTask, submitVars, workerVars, drainVars,
              ctxVars, TypeOK
<1> QED
  BY <1>1, <1>2, <1>3, <1>4, <1>5 DEF Next

-----------------------------------------------------------------------------
LEMMA InitLock == Init => LockInv
  BY DEF Init, LockInv

(* submit keeps the write lock out: while a reader is inside, intake is    *)
(* open and no channel is closed.                                          *)
LEMMA NextLock == TypeOK /\ LockInv /\ [Next]_vars => LockInv'
<1> SUFFICES ASSUME TypeOK, LockInv, [Next]_vars
             PROVE  LockInv'
  OBVIOUS
<1> USE WorkerPoolAssumption
<1>1. CASE UNCHANGED vars
  BY <1>1 DEF vars, submitVars, workerVars, drainVars, ctxVars, LockInv
<1>2. CASE Start \/ StopAccepting \/ WorkersDone
  BY <1>2 DEF Start, StopAccepting, WorkersDone, WriteLockFree, submitVars,
              workerVars, drainVars, ctxVars, LockInv, TypeOK
<1>3. ASSUME NEW c \in Connections, ReaderStep(c)
      PROVE  LockInv'
  BY <1>3, SMTT(60) DEF ReaderStep, SubmitStopping, SubmitRegister, SubmitQueue,
              SubmitFull, ForceConnection, submitVars, workerVars, drainVars,
              ctxVars, LockInv, TypeOK
<1>4. ASSUME NEW w \in Workers, WorkerStep(w)
      PROVE  LockInv'
  BY <1>4 DEF WorkerStep, LaunchWorker, Receive, Begin, HandlerReturns, Settle,
              Exit, submitVars, drainVars, ctxVars, LockInv
<1>5. ASSUME NEW d \in Drainers, DrainStep(d)
      PROVE  LockInv'
  BY <1>5 DEF DrainStep, DrainCall, DrainNew, DrainStarted, DrainAgain, DrainReturns,
              DrainTimeout, CancelTask, WriteLockFree, submitVars, workerVars,
              drainVars, ctxVars, LockInv, TypeOK
<1> QED
  BY <1>1, <1>2, <1>3, <1>4, <1>5 DEF Next

LEMMA InitHand == Init => HandInv
  BY DEF Init, HandInv, Held

(* A worker that has left stays out, and leaves nothing in its channel. *)
LEMMA NextHand == TypeOK /\ LockInv /\ HandInv /\ [Next]_vars => HandInv'
<1> SUFFICES ASSUME TypeOK, LockInv, HandInv, [Next]_vars
             PROVE  HandInv'
  OBVIOUS
<1> USE WorkerPoolAssumption
<1>1. CASE UNCHANGED vars
  BY <1>1 DEF vars, submitVars, workerVars, drainVars, ctxVars, Held, HandInv
<1>2. CASE Start \/ StopAccepting \/ WorkersDone
  BY <1>2 DEF Start, StopAccepting, WorkersDone, submitVars, workerVars,
              drainVars, ctxVars, Held, HandInv, LockInv
<1>3. ASSUME NEW c \in Connections, ReaderStep(c)
      PROVE  HandInv'
  <2>1. CASE SubmitQueue(c)
    <3>1. accepting /\ poolState = "started" /\ ~closed
      BY <2>1 DEF SubmitQueue, LockInv, TypeOK
    <3>2. \A w \in Workers : workerPc[w] # "exit"
      BY <3>1 DEF HandInv
    <3> QED
      BY <2>1, <3>1, <3>2 DEF SubmitQueue, workerVars, drainVars, Held, HandInv
  <2>2. CASE SubmitStopping(c) \/ SubmitRegister(c) \/ SubmitFull(c) \/ ForceConnection(c)
    BY <2>2 DEF SubmitStopping, SubmitRegister, SubmitFull, ForceConnection,
                submitVars, workerVars, drainVars, Held, HandInv
  <2> QED
    BY <1>3, <2>1, <2>2 DEF ReaderStep
<1>4. ASSUME NEW w \in Workers, WorkerStep(w)
      PROVE  HandInv'
  <2>1. CASE Receive(w)
    <3>1. Head(queue[w]) \in Task
      BY <2>1 DEF Receive, TypeOK
    <3> QED
      BY <2>1, <3>1 DEF Receive, drainVars, Held, HandInv, TypeOK
  <2>2. CASE LaunchWorker(w)
    BY <2>2 DEF LaunchWorker, drainVars, Held, HandInv, LockInv, TypeOK
  <2>3. CASE Begin(w) \/ HandlerReturns(w)
    <3>1. /\ Held(w)
          /\ \E l \in {"run", "settle"} : workerPc' = [workerPc EXCEPT ![w] = l]
      BY <2>3 DEF Begin, HandlerReturns, Held
    <3>2. UNCHANGED <<poolState, closed, queue, current, done>>
      BY <2>3 DEF Begin, HandlerReturns, drainVars
    <3> QED
      BY <3>1, <3>2 DEF Held, HandInv, TypeOK
  <2>4. CASE Settle(w)
    BY <2>4 DEF Settle, drainVars, Held, HandInv, TypeOK
  <2>5. CASE Exit(w)
    BY <2>5 DEF Exit, drainVars, Held, HandInv, LockInv, TypeOK
  <2> QED
    BY <1>4, <2>1, <2>2, <2>3, <2>4, <2>5 DEF WorkerStep
<1>5. ASSUME NEW d \in Drainers, DrainStep(d)
      PROVE  HandInv'
  BY <1>5, SMTT(60) DEF DrainStep, DrainCall, DrainNew, DrainStarted, DrainAgain, DrainReturns,
              DrainTimeout, CancelTask, submitVars, workerVars,
              drainVars, ctxVars, Held, HandInv, LockInv, TypeOK
<1> QED
  BY <1>1, <1>2, <1>3, <1>4, <1>5 DEF Next

-----------------------------------------------------------------------------
LEMMA InitOrder == Init => OrderInv
  BY DEF Init, OrderInv, Held

(* A step that touches neither the queues nor the tasks in hand keeps the  *)
(* order, and so does one that only lets a worker give its task up.        *)
LEMMA OrderKept ==
  ASSUME OrderInv, UNCHANGED <<queue, current, accepted>>,
         \A w \in Workers : Held(w)' => Held(w)
  PROVE  OrderInv'
  BY DEF OrderInv, WorkerIndex

(* The requests of a connection stay with one worker, oldest first.        *)
LEMMA NextOrder == TypeOK /\ LockInv /\ HandInv /\ OrderInv /\ [Next]_vars => OrderInv'
<1> SUFFICES ASSUME TypeOK, LockInv, HandInv, OrderInv, [Next]_vars
             PROVE  OrderInv'
  OBVIOUS
<1> USE WorkerPoolAssumption
<1>1. CASE UNCHANGED vars
  BY <1>1, OrderKept DEF vars, submitVars, workerVars, Held
<1>2. CASE Start \/ StopAccepting \/ WorkersDone
  BY <1>2, OrderKept DEF Start, StopAccepting, WorkersDone, submitVars,
                         workerVars, Held
<1>3. ASSUME NEW c \in Connections, ReaderStep(c)
      PROVE  OrderInv'
  <2>1. CASE SubmitQueue(c)
    <3> DEFINE v == WorkerIndex(c)
    <3>1. v \in Workers
      BY WorkerIndexType
    <3>2. /\ queue' = [queue EXCEPT ![v] = Append(queue[v], Request(c))]
          /\ accepted' = [accepted EXCEPT ![c] = accepted[c] + 1]
          /\ UNCHANGED <<workerPc, current>>
      BY <2>1 DEF SubmitQueue, workerVars
    <3>3. /\ Request(c) \in Task /\ Request(c).conn = c
          /\ Request(c).seq = accepted[c] + 1 /\ Request(c).seq = accepted'[c]
      BY <2>1, <3>2, RequestType DEF SubmitQueue, LockInv, Request, TypeOK
    <3>4. \A b \in Connections :
            accepted[b] \in Nat /\ accepted'[b] \in Nat /\ accepted[b] <= accepted'[b]
      BY <3>2 DEF TypeOK
    <3>5. \A w \in Workers : queue[w] \in Seq(Task)
      BY DEF TypeOK
    <3>6. \A t \in Task : t.conn \in Connections /\ t.seq \in Nat
      BY DEF Task
    <3>6a. ASSUME NEW t \in Task, t.seq <= accepted[t.conn]
           PROVE  t.seq <= accepted'[t.conn]
      <4>1. t.conn \in Connections /\ t.seq \in Nat
        BY <3>6
      <4>2. /\ accepted[t.conn] \in Nat /\ accepted'[t.conn] \in Nat
            /\ accepted[t.conn] <= accepted'[t.conn]
        BY <4>1, <3>4
      <4> QED
        BY <4>1, <4>2, <3>6a
    <3>7. /\ Len(queue'[v]) = Len(queue[v]) + 1
          /\ queue'[v][Len(queue[v]) + 1] = Request(c)
          /\ \A i \in 1..Len(queue[v]) : queue'[v][i] = queue[v][i]
          /\ \A w \in Workers \ {v} : queue'[w] = queue[w]
      BY <3>1, <3>2, <3>3, <3>5 DEF TypeOK
    <3>8. \A w \in Workers : \A i \in 1..Len(queue[w]) :
            /\ queue[w][i] \in Task
            /\ queue[w][i].seq <= accepted[queue[w][i].conn]
            /\ WorkerIndex(queue[w][i].conn) = w
      BY <3>5 DEF OrderInv
    <3>9. ASSUME NEW w \in Workers
          PROVE  \A i \in 1..Len(queue'[w]) :
                   /\ WorkerIndex(queue'[w][i].conn) = w
                   /\ queue'[w][i].seq <= accepted'[queue'[w][i].conn]
                   /\ \A j \in 1..Len(queue'[w]) :
                         i < j /\ queue'[w][i].conn = queue'[w][j].conn =>
                             queue'[w][i].seq < queue'[w][j].seq
      <4>1. CASE w # v
        BY <4>1, <3>7, <3>8, <3>6a DEF OrderInv
      <4>2. CASE w = v
        <5> TAKE i \in 1..Len(queue'[w])
        <5>1. CASE i \in 1..Len(queue[v])
          <6>1. /\ queue'[w][i] = queue[v][i] /\ queue[v][i] \in Task
                /\ queue[v][i].seq <= accepted[queue[v][i].conn]
                /\ WorkerIndex(queue[v][i].conn) = v
            BY <4>2, <5>1, <3>1, <3>7, <3>8
          <6>2. ASSUME NEW j \in 1..Len(queue'[w]), i < j,
                       queue'[w][i].conn = queue'[w][j].conn
                PROVE  queue'[w][i].seq < queue'[w][j].seq
            <7>1. CASE j \in 1..Len(queue[v])
              BY <4>2, <5>1, <6>2, <7>1, <3>1, <3>7 DEF OrderInv
            <7>2. CASE j = Len(queue[v]) + 1
              BY <4>2, <6>1, <6>2, <7>2, <3>3, <3>4, <3>6, <3>7
            <7> QED
              BY <4>2, <6>2, <7>1, <7>2, <3>1, <3>5, <3>7
          <6> QED
            BY <4>2, <6>1, <6>2, <3>6a
        <5>2. CASE i = Len(queue[v]) + 1
          <6>1. queue'[w][i] = Request(c)
            BY <4>2, <5>2, <3>7
          <6>2. \A j \in 1..Len(queue'[w]) : ~(i < j)
            BY <4>2, <5>2, <3>1, <3>5, <3>7
          <6>3. /\ queue'[w][i].conn = c
                /\ queue'[w][i].seq = accepted'[c]
            BY <6>1, <3>3
          <6>4. accepted'[c] <= accepted'[c]
            BY <3>4
          <6>5. /\ WorkerIndex(queue'[w][i].conn) = w
                /\ queue'[w][i].seq <= accepted'[queue'[w][i].conn]
            BY <4>2, <6>3, <6>4
          <6> QED
            BY <6>2, <6>5
        <5> QED
          BY <4>2, <5>1, <5>2, <3>1, <3>5, <3>7
      <4> QED
        BY <4>1, <4>2
    <3>10. ASSUME NEW w \in Workers, Held(w)'
           PROVE  /\ WorkerIndex(current'[w].conn) = w
                  /\ current'[w].seq <= accepted'[current'[w].conn]
                  /\ \A i \in 1..Len(queue'[w]) :
                        queue'[w][i].conn = current'[w].conn =>
                            current'[w].seq < queue'[w][i].seq
      <4>1. /\ Held(w) /\ current'[w] = current[w] /\ current[w] \in Task
            /\ WorkerIndex(current[w].conn) = w
            /\ current[w].seq <= accepted[current[w].conn]
        BY <3>2, <3>10 DEF Held, HandInv, OrderInv
      <4>2. current[w].seq <= accepted'[current[w].conn]
        BY <4>1, <3>6a
      <4>3. ASSUME NEW i \in 1..Len(queue'[w]), queue'[w][i].conn = current[w].conn
            PROVE  current[w].seq < queue'[w][i].seq
        <5>1. CASE w # v \/ i \in 1..Len(queue[v])
          BY <4>1, <4>3, <5>1, <3>1, <3>7 DEF OrderInv
        <5>2. CASE w = v /\ i = Len(queue[v]) + 1
          BY <4>1, <4>3, <5>2, <3>3, <3>4, <3>6, <3>7
        <5> QED
          BY <4>3, <5>1, <5>2, <3>1, <3>5, <3>7
      <4> QED
        BY <4>1, <4>2, <4>3
    <3> HIDE DEF v
    <3> QED
      BY <3>9, <3>10 DEF OrderInv, WorkerIndex
  <2>2. CASE SubmitStopping(c) \/ SubmitRegister(c) \/ SubmitFull(c) \/ ForceConnection(c)
    BY <2>2, OrderKept DEF SubmitStopping, SubmitRegister, SubmitFull,
                           ForceConnection, submitVars, workerVars, Held
  <2> QED
    BY <1>3, <2>1, <2>2 DEF ReaderStep
<1>4. ASSUME NEW w \in Workers, WorkerStep(w)
      PROVE  OrderInv'
  <2>1. CASE Receive(w)
    <3>1. /\ queue[w] \in Seq(Task) /\ queue[w] # <<>>
          /\ queue' = [queue EXCEPT ![w] = Tail(queue[w])]
          /\ current' = [current EXCEPT ![w] = Head(queue[w])]
          /\ workerPc' = [workerPc EXCEPT ![w] = "got"]
          /\ UNCHANGED accepted
      BY <2>1 DEF Receive, submitVars, TypeOK
    <3>2. /\ Len(queue'[w]) = Len(queue[w]) - 1 /\ Len(queue[w]) \in Nat \ {0}
          /\ \A i \in 1..Len(queue'[w]) : queue'[w][i] = queue[w][i + 1]
          /\ current'[w] = queue[w][1]
          /\ \A u \in Workers \ {w} : queue'[u] = queue[u] /\ current'[u] = current[u]
      BY <3>1 DEF TypeOK
    <3>3. \A u \in Workers \ {w} : Held(u)' => Held(u)
      BY <3>1 DEF Held, TypeOK
    <3>4. \A u \in Workers : \A i \in 1..Len(queue'[u]) :
            /\ WorkerIndex(queue'[u][i].conn) = u
            /\ queue'[u][i].seq <= accepted[queue'[u][i].conn]
            /\ \A j \in 1..Len(queue'[u]) :
                  i < j /\ queue'[u][i].conn = queue'[u][j].conn =>
                      queue'[u][i].seq < queue'[u][j].seq
      <4> TAKE u \in Workers
      <4>1. CASE u # w
        BY <4>1, <3>2, SMTT(60) DEF OrderInv
      <4>2. CASE u = w
        <5> TAKE i \in 1..Len(queue'[u])
        <5>1. /\ i + 1 \in 1..Len(queue[w]) /\ queue'[w][i] = queue[w][i + 1]
          BY <4>2, <3>2
        <5>2. ASSUME NEW j \in 1..Len(queue'[u]), i < j,
                     queue'[u][i].conn = queue'[u][j].conn
              PROVE  queue'[u][i].seq < queue'[u][j].seq
          <6>1. /\ j + 1 \in 1..Len(queue[w]) /\ queue'[w][j] = queue[w][j + 1]
                /\ i + 1 < j + 1
            BY <4>2, <5>2, <3>2
          <6> QED
            BY <4>2, <5>1, <5>2, <6>1 DEF OrderInv
        <5> QED
          BY <4>2, <5>1, <5>2 DEF OrderInv
      <4> QED
        BY <4>1, <4>2
    <3>5. \A u \in Workers : Held(u)' =>
            /\ WorkerIndex(current'[u].conn) = u
            /\ current'[u].seq <= accepted[current'[u].conn]
            /\ \A i \in 1..Len(queue'[u]) :
                  queue'[u][i].conn = current'[u].conn =>
                      current'[u].seq < queue'[u][i].seq
      <4> SUFFICES ASSUME NEW u \in Workers, Held(u)'
                   PROVE  /\ WorkerIndex(current'[u].conn) = u
                          /\ current'[u].seq <= accepted[current'[u].conn]
                          /\ \A i \in 1..Len(queue'[u]) :
                                queue'[u][i].conn = current'[u].conn =>
                                    current'[u].seq < queue'[u][i].seq
        OBVIOUS
      <4>1. CASE u # w
        BY <4>1, <3>2, <3>3 DEF OrderInv
      <4>2. CASE u = w
        <5>1. 1 \in 1..Len(queue[w]) /\ current'[u] = queue[w][1]
          BY <4>2, <3>2
        <5>2. ASSUME NEW i \in 1..Len(queue'[u]), queue'[u][i].conn = current'[u].conn
              PROVE  current'[u].seq < queue'[u][i].seq
          <6>1. /\ i + 1 \in 1..Len(queue[w]) /\ queue'[w][i] = queue[w][i + 1]
                /\ 1 < i + 1
            BY <4>2, <5>2, <3>2
          <6> QED
            BY <4>2, <5>1, <5>2, <6>1 DEF OrderInv
        <5> QED
          BY <4>2, <5>1, <5>2 DEF OrderInv
      <4> QED
        BY <4>1, <4>2
    <3> QED
      BY <3>1, <3>4, <3>5 DEF OrderInv, WorkerIndex
  <2>2. CASE LaunchWorker(w)
    BY <2>2, OrderKept DEF LaunchWorker, submitVars, Held, TypeOK
  <2>3. CASE Begin(w) \/ HandlerReturns(w)
    <3>1. /\ Held(w) /\ \E l : workerPc' = [workerPc EXCEPT ![w] = l]
          /\ UNCHANGED <<queue, current, accepted>>
      BY <2>3 DEF Begin, HandlerReturns, Held, submitVars
    <3> QED
      BY <3>1, OrderKept DEF Held, TypeOK
  <2>4. CASE Settle(w)
    <3>1. /\ \A u \in Workers : Held(u)' => u # w /\ Held(u) /\ current'[u] = current[u]
          /\ UNCHANGED <<queue, accepted>>
      BY <2>4 DEF Settle, submitVars, Held, TypeOK
    <3> QED
      BY <3>1 DEF OrderInv, WorkerIndex
  <2>5. CASE Exit(w)
    BY <2>5, OrderKept DEF Exit, submitVars, Held, TypeOK
  <2> QED
    BY <1>4, <2>1, <2>2, <2>3, <2>4, <2>5 DEF WorkerStep
<1>5. ASSUME NEW d \in Drainers, DrainStep(d)
      PROVE  OrderInv'
  BY <1>5, OrderKept DEF DrainStep, DrainCall, DrainNew, DrainStarted, DrainAgain,
                         DrainReturns, DrainTimeout, CancelTask, submitVars,
                         workerVars, Held
<1> QED
  BY <1>1, <1>2, <1>3, <1>4, <1>5 DEF Next

-----------------------------------------------------------------------------
LEMMA InitRegistry == Init => RegistryExact
  BY DEF Init, RegistryExact, Offered, Queued, InHand, Held

(* A request that is being submitted is nowhere else in the pool ... *)
LEMMA RequestIsNew ==
  ASSUME TypeOK, HandInv, OrderInv, NEW c \in Connections
  PROVE  Request(c) \notin Queued \cup InHand
<1>1. /\ Request(c).conn = c /\ Request(c).seq = accepted[c] + 1
      /\ accepted[c] \in Nat
  BY DEF Request, TypeOK
<1>2. ~(Request(c).seq <= accepted[Request(c).conn])
  BY <1>1
<1>3. Request(c) \notin Queued
  BY <1>2 DEF Queued, OrderInv
<1>4. Request(c) \notin InHand
  BY <1>2 DEF InHand, OrderInv
<1> QED
  BY <1>3, <1>4

(* ... and a task in a worker's hands is with that worker only.            *)
LEMMA HeldOnce ==
  ASSUME TypeOK, HandInv, OrderInv, NEW w \in Workers, Held(w)
  PROVE  /\ current[w] \notin Queued
         /\ \A u \in Workers : Held(u) /\ current[u] = current[w] => u = w
         /\ \A c \in Connections : Request(c) # current[w]
<1>1. /\ current[w] \in Task /\ WorkerIndex(current[w].conn) = w
  BY DEF HandInv, OrderInv
<1>2. current[w] \notin Queued
  <2> SUFFICES ASSUME NEW u \in Workers, NEW i \in 1..Len(queue[u]),
                      current[w] = queue[u][i]
               PROVE  FALSE
    BY DEF Queued
  <2>1. u = w
    BY <1>1 DEF OrderInv
  <2>2. current[w].seq < current[w].seq /\ current[w].seq \in Nat
    BY <1>1, <2>1 DEF OrderInv, Task
  <2> QED
    BY <2>2
<1>3. \A u \in Workers : Held(u) /\ current[u] = current[w] => u = w
  BY <1>1 DEF OrderInv
<1>4. current[w] \in InHand
  BY DEF InHand
<1> QED
  BY <1>2, <1>3, <1>4, RequestIsNew

(* How the sets of tasks change when a task moves: from a reader to a      *)
(* channel ...                                                             *)
LEMMA QueueMoves ==
  ASSUME TypeOK, LockInv, NEW c \in Connections, SubmitQueue(c)
  PROVE  /\ Request(c) \in Offered /\ Request(c) \in Task
         /\ Offered' = Offered \ {Request(c)}
         /\ Queued' = Queued \cup {Request(c)}
<1> USE WorkerPoolAssumption
<1> DEFINE r == Request(c)
           v == WorkerIndex(c)
<1>1. v \in Workers /\ readerPc[c] = "sending" /\ r \in Task
  BY WorkerIndexType, RequestType DEF SubmitQueue, LockInv
<1>2. /\ \A b \in Connections : readerPc'[b] = "sending" <=>
                                  readerPc[b] = "sending" /\ b # c
      /\ \A b \in Connections \ {c} : accepted'[b] = accepted[b]
      /\ queue' = [queue EXCEPT ![v] = Append(queue[v], r)]
  BY DEF SubmitQueue, TypeOK
<1>3. r \in Offered /\ Offered' = Offered \ {r}
  <2>1. \A b \in Connections : Request(b) = r => b = c
    BY DEF Request
  <2>2. \A b \in Connections : b # c => Request(b)' = Request(b)
    BY <1>2 DEF Request
  <2> QED
    BY <1>1, <1>2, <2>1, <2>2 DEF Offered
<1>4. Queued' = Queued \cup {r}
  <2>1. queue[v] \in Seq(Task)
    BY <1>1 DEF TypeOK
  <2>2. /\ Len(queue'[v]) = Len(queue[v]) + 1 /\ Len(queue[v]) \in Nat
        /\ queue'[v][Len(queue[v]) + 1] = r
        /\ \A i \in 1..Len(queue[v]) : queue'[v][i] = queue[v][i]
        /\ \A w \in Workers \ {v} : queue'[w] = queue[w]
    BY <2>1, <1>1, <1>2 DEF TypeOK
  <2>3. \A t : (\E i \in 1..Len(queue'[v]) : t = queue'[v][i])
              <=> t = r \/ (\E i \in 1..Len(queue[v]) : t = queue[v][i])
    BY <2>2, SMTT(60)
  <2>4. ASSUME NEW t
        PROVE  (\E w \in Workers : \E i \in 1..Len(queue'[w]) : t = queue'[w][i])
               <=> t = r \/ (\E w \in Workers : \E i \in 1..Len(queue[w]) : t = queue[w][i])
    <9>1. \A w \in Workers : w # v =>
            ((\E i \in 1..Len(queue'[w]) : t = queue'[w][i])
              <=> (\E i \in 1..Len(queue[w]) : t = queue[w][i]))
      BY <2>2
    <9> HIDE DEF v, r
    <9> QED
      BY <2>3, <9>1, <1>1, ZenonT(60)
  <2> HIDE DEF r
  <2> QED
    BY <2>4, <1>1, ZenonT(60) DEF Queued
<1> QED
  BY <1>1, <1>3, <1>4

(* ... and from the channel to its worker. *)
LEMMA ReceiveMoves ==
  ASSUME TypeOK, NEW w \in Workers, Receive(w)
  PROVE  /\ Head(queue[w]) \in Task
         /\ Queued = Queued' \cup {Head(queue[w])}
<1>1. /\ queue[w] \in Seq(Task) /\ queue[w] # <<>>
      /\ queue' = [queue EXCEPT ![w] = Tail(queue[w])]
  BY DEF Receive, TypeOK
<1>3. /\ Head(queue[w]) \in Task
      /\ \A t : (\E i \in 1..Len(queue[w]) : t = queue[w][i])
             <=> t = Head(queue[w]) \/ (\E i \in 1..Len(queue'[w]) : t = queue'[w][i])
  <2>1. /\ Len(queue'[w]) = Len(queue[w]) - 1 /\ Len(queue[w]) \in Nat \ {0}
        /\ \A i \in 1..Len(queue'[w]) : queue'[w][i] = queue[w][i + 1]
        /\ Head(queue[w]) = queue[w][1] /\ Head(queue[w]) \in Task
    BY <1>1 DEF TypeOK
  <2>2. \A i \in 1..Len(queue[w]) : i = 1 \/ (i - 1 \in 1..Len(queue'[w]) /\ queue'[w][i - 1] = queue[w][i])
    BY <2>1
  <2>3. \A i \in 1..Len(queue'[w]) : i + 1 \in 1..Len(queue[w])
    BY <2>1
  <2>4. 1 \in 1..Len(queue[w])
    BY <2>1
  <2> QED
    BY <2>1, <2>2, <2>3, <2>4
<1>4. Queued = Queued' \cup {Head(queue[w])}
  <2>1. \A u \in Workers \ {w} : queue'[u] = queue[u]
    BY <1>1 DEF TypeOK
  <2>2. ASSUME NEW t
        PROVE  (\E u \in Workers : \E i \in 1..Len(queue[u]) : t = queue[u][i])
               <=> \/ t = Head(queue[w])
                   \/ \E u \in Workers : \E i \in 1..Len(queue'[u]) : t = queue'[u][i]
    <3>1. \A u \in Workers : u # w =>
            ((\E i \in 1..Len(queue'[u]) : t = queue'[u][i])
              <=> (\E i \in 1..Len(queue[u]) : t = queue[u][i]))
      BY <2>1
    <3> QED
      BY <3>1, <1>3, ZenonT(60)
  <2> QED
    BY <2>2, <1>3, ZenonT(60) DEF Queued
<1> QED
  BY <1>3, <1>4

LEMMA RegistryKept ==
  ASSUME RegistryExact, UNCHANGED <<registry, queue, accepted, current>>,
         \A c \in Connections : readerPc'[c] = "sending" <=> readerPc[c] = "sending",
         \A w \in Workers : Held(w)' <=> Held(w)
  PROVE  RegistryExact'
<1>1. Offered' = Offered
  BY DEF Offered, Request
<1>2. Queued' = Queued
  BY DEF Queued
<1>3. InHand' = InHand
  BY DEF InHand
<1> QED
  BY <1>1, <1>2, <1>3 DEF RegistryExact

(* p.tasks stays equal to what is offered, queued and in hand. *)
LEMMA NextRegistry == IInv /\ [Next]_vars => RegistryExact'
<1> SUFFICES ASSUME TypeOK, LockInv, HandInv, OrderInv, RegistryExact, [Next]_vars
             PROVE  RegistryExact'
  BY DEF IInv
<1> USE WorkerPoolAssumption
<1>1. CASE UNCHANGED vars
  BY <1>1, RegistryKept DEF vars, submitVars, workerVars, Held
<1>2. CASE Start \/ StopAccepting \/ WorkersDone
  BY <1>2, RegistryKept DEF Start, StopAccepting, WorkersDone, submitVars,
                            workerVars, Held
<1>3. ASSUME NEW c \in Connections, ReaderStep(c)
      PROVE  RegistryExact'
  <2> DEFINE r == Request(c)
  <2>1. CASE SubmitStopping(c) \/ ForceConnection(c)
    BY <2>1, RegistryKept DEF SubmitStopping, ForceConnection, submitVars,
                              workerVars, Held, TypeOK
  <2>2. CASE SubmitRegister(c)
    <3>1. /\ \A b \in Connections : readerPc'[b] = "sending" <=>
                                      readerPc[b] = "sending" \/ b = c
          /\ registry' = registry \cup {r}
          /\ UNCHANGED <<queue, accepted, workerPc, current>>
      BY <2>2 DEF SubmitRegister, workerVars, TypeOK
    <3>2. Offered' = Offered \cup {r}
      BY <3>1 DEF Offered, Request
    <3>3. Queued' = Queued /\ InHand' = InHand
      BY <3>1 DEF Queued, InHand, Held
    <3> QED
      BY <3>1, <3>2, <3>3 DEF RegistryExact
  <2>3. CASE SubmitQueue(c)
    <3> DEFINE v == WorkerIndex(c)
    <3>1. v \in Workers /\ readerPc[c] = "sending" /\ r \in Task
      BY <2>3, WorkerIndexType, RequestType DEF SubmitQueue, LockInv
    <3>2. /\ \A b \in Connections : readerPc'[b] = "sending" <=>
                                      readerPc[b] = "sending" /\ b # c
          /\ \A b \in Connections \ {c} : accepted'[b] = accepted[b]
          /\ queue' = [queue EXCEPT ![v] = Append(queue[v], r)]
          /\ UNCHANGED <<registry, workerPc, current>>
      BY <2>3 DEF SubmitQueue, workerVars, TypeOK
    <3>3. Offered = Offered' \cup {r}
      BY <3>1, <3>2 DEF Offered, Request
    <3>4. Queued' = Queued \cup {r}
      BY <2>3, QueueMoves
    <3>5. InHand' = InHand
      BY <3>2 DEF InHand, Held
    <3> QED
      BY <3>2, <3>3, <3>4, <3>5 DEF RegistryExact
  <2>4. CASE SubmitFull(c)
    <3>1. /\ \A b \in Connections : readerPc'[b] = "sending" <=>
                                      readerPc[b] = "sending" /\ b # c
          /\ registry' = registry \ {r}
          /\ UNCHANGED <<queue, accepted, workerPc, current>>
          /\ readerPc[c] = "sending"
      BY <2>4 DEF SubmitFull, workerVars, TypeOK
    <3>2. \A b \in Connections : Request(b) = r => b = c
      BY DEF Request
    <3>3. Offered' = Offered \ {r}
      BY <3>1, <3>2 DEF Offered, Request
    <3>4. Queued' = Queued /\ InHand' = InHand
      BY <3>1 DEF Queued, InHand, Held
    <3> QED
      BY <3>1, <3>3, <3>4, RequestIsNew DEF RegistryExact
  <2> QED
    BY <1>3, <2>1, <2>2, <2>3, <2>4 DEF ReaderStep
<1>4. ASSUME NEW w \in Workers, WorkerStep(w)
      PROVE  RegistryExact'
  <2>1. CASE Receive(w)
    <3>1. /\ queue[w] \in Seq(Task) /\ queue[w] # <<>>
          /\ queue' = [queue EXCEPT ![w] = Tail(queue[w])]
          /\ current' = [current EXCEPT ![w] = Head(queue[w])]
          /\ workerPc[w] = "recv" /\ workerPc' = [workerPc EXCEPT ![w] = "got"]
          /\ UNCHANGED <<registry, accepted, readerPc>>
      BY <2>1 DEF Receive, submitVars, TypeOK
    <3>2. Offered' = Offered
      BY <3>1 DEF Offered, Request
    <3>4. Queued = Queued' \cup {Head(queue[w])}
      BY <2>1, ReceiveMoves
    <3>5. InHand' = InHand \cup {Head(queue[w])}
      BY <3>1 DEF InHand, Held, TypeOK
    <3> QED
      BY <3>1, <3>2, <3>4, <3>5 DEF RegistryExact
  <2>2. CASE LaunchWorker(w) \/ Exit(w)
    BY <2>2, RegistryKept DEF LaunchWorker, Exit, submitVars, Held, TypeOK
  <2>3. CASE Begin(w) \/ HandlerReturns(w)
    <3>1. /\ Held(w) /\ \E l \in {"run", "settle"} : workerPc' = [workerPc EXCEPT ![w] = l]
          /\ UNCHANGED <<registry, queue, current, accepted, readerPc>>
      BY <2>3 DEF Begin, HandlerReturns, Held, submitVars
    <3> QED
      BY <3>1, RegistryKept DEF Held, TypeOK
  <2>4. CASE Settle(w)
    <3>1. /\ Held(w)
          /\ registry' = registry \ {current[w]}
          /\ \A u \in Workers : Held(u)' <=> Held(u) /\ u # w
          /\ \A u \in Workers : u # w => current'[u] = current[u]
          /\ UNCHANGED <<queue, accepted, readerPc>>
      BY <2>4 DEF Settle, submitVars, Held, TypeOK
    <3>2. Offered' = Offered /\ Queued' = Queued
      BY <3>1 DEF Offered, Request, Queued
    <3>3. InHand' = InHand \ {current[w]}
      BY <3>1, HeldOnce DEF InHand
    <3>4. current[w] \notin Offered \cup Queued
      BY <3>1, HeldOnce DEF Offered
    <3> QED
      BY <3>1, <3>2, <3>3, <3>4 DEF RegistryExact
  <2> QED
    BY <1>4, <2>1, <2>2, <2>3, <2>4 DEF WorkerStep
<1>5. ASSUME NEW d \in Drainers, DrainStep(d)
      PROVE  RegistryExact'
  BY <1>5, RegistryKept DEF DrainStep, DrainCall, DrainNew, DrainStarted, DrainAgain,
                            DrainReturns, DrainTimeout, CancelTask, submitVars,
                            workerVars, Held
<1> QED
  BY <1>1, <1>2, <1>3, <1>4, <1>5 DEF Next

-----------------------------------------------------------------------------
LEMMA InitDrained == Init => DrainedInv
  BY DEF Init, DrainedInv

(* Only DrainReturns announces the end, and p.done is never reopened.      *)
LEMMA NextDrained == TypeOK /\ DrainedInv /\ [Next]_vars => DrainedInv'
<1> SUFFICES ASSUME TypeOK, DrainedInv, [Next]_vars
             PROVE  DrainedInv'
  OBVIOUS
<1>1. CASE UNCHANGED vars
  BY <1>1 DEF vars, drainVars, DrainedInv
<1>2. CASE Start \/ StopAccepting \/ WorkersDone
  BY <1>2 DEF Start, StopAccepting, WorkersDone, drainVars, DrainedInv
<1>3. ASSUME NEW c \in Connections, ReaderStep(c)
      PROVE  DrainedInv'
  BY <1>3 DEF ReaderStep, SubmitStopping, SubmitRegister, SubmitQueue, SubmitFull,
              ForceConnection, drainVars, DrainedInv
<1>4. ASSUME NEW w \in Workers, WorkerStep(w)
      PROVE  DrainedInv'
  BY <1>4 DEF WorkerStep, LaunchWorker, Receive, Begin, HandlerReturns, Settle,
              Exit, drainVars, DrainedInv
<1>5. ASSUME NEW d \in Drainers, DrainStep(d)
      PROVE  DrainedInv'
  <2>1. CASE DrainReturns(d)
    BY <2>1 DEF DrainReturns, DrainedInv, TypeOK
  <2>2. CASE CancelTask(d)
    BY <2>2 DEF CancelTask, DrainedInv
  <2>3. CASE \/ DrainCall(d) \/ DrainNew(d) \/ DrainStarted(d)
             \/ DrainAgain(d) \/ DrainTimeout(d)
    <3>1. /\ \E l \in {"called", "wait", "force"} : drainPc' = [drainPc EXCEPT ![d] = l]
          /\ done => done'
      BY <2>3 DEF DrainCall, DrainNew, DrainStarted, DrainAgain, DrainTimeout
    <3> QED
      BY <3>1 DEF DrainedInv, TypeOK
  <2> QED
    BY <1>5, <2>1, <2>2, <2>3 DEF DrainStep
<1> QED
  BY <1>1, <1>2, <1>3, <1>4, <1>5 DEF Next

-----------------------------------------------------------------------------
LEMMA InitGauge == Init => GaugeInv
<1> SUFFICES ASSUME Init PROVE Counted = {} /\ queuedTasks = 0
  BY FS_EmptySet DEF GaugeInv, GaugeExact
<1> QED
  BY DEF Init, Counted, Offered, Queued, Received

(* A step that moves no task over the ends of the counted stretch ... *)
LEMMA GaugeKept ==
  ASSUME GaugeInv, Counted' = Counted, queuedTasks' = queuedTasks
  PROVE  GaugeInv'
  BY DEF GaugeInv, GaugeExact

(* ... one that takes a new task in ... *)
LEMMA GaugeUp ==
  ASSUME GaugeInv, NEW t, t \notin Counted, Counted' = Counted \cup {t},
         queuedTasks' = queuedTasks + 1
  PROVE  GaugeInv'
  BY FS_AddElement DEF GaugeInv, GaugeExact

(* ... and one that lets a counted task go: the clamp of decrementGauge    *)
(* does not strike.                                                        *)
LEMMA GaugeDown ==
  ASSUME GaugeInv, NEW t, t \in Counted, Counted' = Counted \ {t},
         queuedTasks' = Decremented(queuedTasks)
  PROVE  GaugeInv'
<1>1. /\ IsFiniteSet(Counted \ {t})
      /\ Cardinality(Counted \ {t}) = Cardinality(Counted) - 1
  BY FS_RemoveElement DEF GaugeInv
<1>2. Cardinality(Counted) \in Nat /\ Cardinality(Counted) # 0
  BY FS_CardinalityType, FS_EmptySet DEF GaugeInv
<1>3. queuedTasks = Cardinality(Counted)
  BY DEF GaugeInv, GaugeExact
<1>4. queuedTasks' = Cardinality(Counted) - 1
  BY <1>2, <1>3 DEF Decremented
<1> QED
  BY <1>1, <1>4 DEF GaugeInv, GaugeExact

(* The three places a counted task can be in, when nothing moves. *)
LEMMA CountedKept ==
  ASSUME UNCHANGED <<queue, accepted, current>>,
         \A c \in Connections : readerPc'[c] = "sending" <=> readerPc[c] = "sending",
         \A w \in Workers : workerPc'[w] = "got" <=> workerPc[w] = "got"
  PROVE  Counted' = Counted
<1>1. Offered' = Offered
  BY DEF Offered, Request
<1>2. Queued' = Queued
  BY DEF Queued
<1>3. Received' = Received
  BY DEF Received
<1> QED
  BY <1>1, <1>2, <1>3 DEF Counted

(* The gauge goes up and down with the tasks it counts. *)
LEMMA NextGauge == IInv /\ [Next]_vars => GaugeInv'
<1> SUFFICES ASSUME TypeOK, LockInv, HandInv, OrderInv, GaugeInv, [Next]_vars
             PROVE  GaugeInv'
  BY DEF IInv
<1>1. CASE UNCHANGED vars
  BY <1>1, CountedKept, GaugeKept DEF vars, submitVars, workerVars
<1>2. CASE Start \/ StopAccepting \/ WorkersDone
  BY <1>2, CountedKept, GaugeKept DEF Start, StopAccepting, WorkersDone,
                                      submitVars, workerVars
<1>3. ASSUME NEW c \in Connections, ReaderStep(c)
      PROVE  GaugeInv'
  <2> DEFINE r == Request(c)
  <2>1. CASE SubmitStopping(c) \/ ForceConnection(c)
    <3>1. Counted' = Counted
      BY <2>1, CountedKept DEF SubmitStopping, ForceConnection, submitVars,
                               workerVars, TypeOK
    <3> QED
      BY <2>1, <3>1, GaugeKept DEF SubmitStopping, ForceConnection
  <2>2. CASE SubmitRegister(c)
    <3>1. /\ readerPc[c] = "idle"
          /\ \A b \in Connections : readerPc'[b] = "sending" <=>
                                      readerPc[b] = "sending" \/ b = c
          /\ queuedTasks' = queuedTasks + 1
          /\ UNCHANGED <<queue, accepted, workerPc, current>>
      BY <2>2 DEF SubmitRegister, workerVars, TypeOK
    <3>2. r \notin Offered
      BY <3>1 DEF Offered, Request
    <3>3. r \notin Queued \cup Received
      BY RequestIsNew DEF InHand, Received, Held
    <3>4. Offered' = Offered \cup {r}
      BY <3>1 DEF Offered, Request
    <3>5. Queued' = Queued /\ Received' = Received
      BY <3>1 DEF Queued, Received
    <3>6. r \notin Counted /\ Counted' = Counted \cup {r}
      BY <3>2, <3>3, <3>4, <3>5 DEF Counted
    <3> QED
      BY <3>1, <3>6, GaugeUp
  <2>3. CASE SubmitQueue(c)
    <3>1. UNCHANGED <<workerPc, current, queuedTasks>>
      BY <2>3 DEF SubmitQueue, workerVars
    <3>2. Received' = Received
      BY <3>1 DEF Received
    <3>3. Counted' = Counted
      BY <2>3, <3>2, QueueMoves DEF Counted
    <3> QED
      BY <3>1, <3>3, GaugeKept
  <2>4. CASE SubmitFull(c)
    <3>1. /\ \A b \in Connections : readerPc'[b] = "sending" <=>
                                      readerPc[b] = "sending" /\ b # c
          /\ readerPc[c] = "sending"
          /\ queuedTasks' = Decremented(queuedTasks)
          /\ UNCHANGED <<queue, accepted, workerPc, current>>
      BY <2>4 DEF SubmitFull, workerVars, TypeOK
    <3>2. \A b \in Connections : Request(b) = r => b = c
      BY DEF Request
    <3>3. r \in Offered /\ Offered' = Offered \ {r}
      BY <3>1, <3>2 DEF Offered, Request
    <3>4. Queued' = Queued /\ Received' = Received
      BY <3>1 DEF Queued, Received
    <3>5. r \notin Queued \cup Received
      BY RequestIsNew DEF InHand, Received, Held
    <3>6. r \in Counted /\ Counted' = Counted \ {r}
      BY <3>3, <3>4, <3>5 DEF Counted
    <3> QED
      BY <3>1, <3>6, GaugeDown
  <2> QED
    BY <1>3, <2>1, <2>2, <2>3, <2>4 DEF ReaderStep
<1>4. ASSUME NEW w \in Workers, WorkerStep(w)
      PROVE  GaugeInv'
  <2>1. CASE Receive(w)
    <3>1. /\ current' = [current EXCEPT ![w] = Head(queue[w])]
          /\ workerPc[w] = "recv" /\ workerPc' = [workerPc EXCEPT ![w] = "got"]
          /\ UNCHANGED <<accepted, readerPc, queuedTasks>>
      BY <2>1 DEF Receive, submitVars
    <3>2. Offered' = Offered
      BY <3>1 DEF Offered, Request
    <3>3. Received' = Received \cup {Head(queue[w])}
      BY <3>1 DEF Received, TypeOK
    <3>4. Counted' = Counted
      BY <2>1, <3>2, <3>3, ReceiveMoves DEF Counted
    <3> QED
      BY <3>1, <3>4, GaugeKept
  <2>2. CASE LaunchWorker(w) \/ HandlerReturns(w) \/ Exit(w)
    <3>1. Counted' = Counted
      BY <2>2, CountedKept DEF LaunchWorker, HandlerReturns, Exit, submitVars, TypeOK
    <3> QED
      BY <2>2, <3>1, GaugeKept DEF LaunchWorker, HandlerReturns, Exit
  <2>3. CASE Begin(w)
    <3>1. /\ Held(w) /\ workerPc[w] = "got"
          /\ queuedTasks' = Decremented(queuedTasks)
          /\ \A u \in Workers : workerPc'[u] = "got" <=> workerPc[u] = "got" /\ u # w
          /\ UNCHANGED <<queue, accepted, readerPc, current>>
      BY <2>3 DEF Begin, submitVars, Held, TypeOK
    <3>2. /\ current[w] \notin Queued /\ current[w] \notin Offered
          /\ \A u \in Workers : workerPc[u] = "got" /\ current[u] = current[w] => u = w
      BY <3>1, HeldOnce DEF Offered, Held
    <3>3. current[w] \in Received /\ Received' = Received \ {current[w]}
      BY <3>1, <3>2 DEF Received
    <3>4. Offered' = Offered /\ Queued' = Queued
      BY <3>1 DEF Offered, Request, Queued
    <3>5. current[w] \in Counted /\ Counted' = Counted \ {current[w]}
      BY <3>2, <3>3, <3>4 DEF Counted
    <3> QED
      BY <3>1, <3>5, GaugeDown
  <2>4. CASE Settle(w)
    <3>1. /\ \A u \in Workers : workerPc'[u] = "got" <=> workerPc[u] = "got"
          /\ \A u \in Workers : workerPc[u] = "got" => current'[u] = current[u]
          /\ UNCHANGED <<queue, accepted, readerPc, queuedTasks>>
      BY <2>4 DEF Settle, submitVars, TypeOK
    <3>2. Offered' = Offered /\ Queued' = Queued
      BY <3>1 DEF Offered, Request, Queued
    <3>3. Received' = Received
      BY <3>1 DEF Received
    <3> QED
      BY <3>1, <3>2, <3>3, GaugeKept DEF Counted
  <2> QED
    BY <1>4, <2>1, <2>2, <2>3, <2>4 DEF WorkerStep
<1>5. ASSUME NEW d \in Drainers, DrainStep(d)
      PROVE  GaugeInv'
  BY <1>5, CountedKept, GaugeKept
     DEF DrainStep, DrainCall, DrainNew, DrainStarted, DrainAgain, DrainReturns,
         DrainTimeout, CancelTask, submitVars, workerVars
<1> QED
  BY <1>1, <1>2, <1>3, <1>4, <1>5 DEF Next

-----------------------------------------------------------------------------
LEMMA InitForce == Init => ForceInv
  BY DEF Init, ForceInv

(* While nothing is registered and no cancellation is taken back, what     *)
(* forceCancel still has to do only shrinks.                               *)
LEMMA ForceKept ==
  ASSUME ForceInv, UNCHANGED <<drainRan, drainPc, toCancel>>,
         drainRan => registry' \subseteq registry,
         \A t : Cancelled(t) => Cancelled(t)'
  PROVE  ForceInv'
  BY DEF ForceInv

(* A task registered after the snapshot would escape it: none is. *)
LEMMA NextForce == TypeOK /\ LockInv /\ ForceInv /\ [Next]_vars => ForceInv'
<1> SUFFICES ASSUME TypeOK, LockInv, ForceInv, [Next]_vars
             PROVE  ForceInv'
  OBVIOUS
<1>1. CASE UNCHANGED vars
  BY <1>1, ForceKept DEF vars, drainVars, ctxVars, Cancelled
<1>2. CASE Start \/ StopAccepting \/ WorkersDone
  BY <1>2, ForceKept DEF Start, StopAccepting, WorkersDone, drainVars, ctxVars,
                         Cancelled
<1>3. ASSUME NEW c \in Connections, ReaderStep(c)
      PROVE  ForceInv'
  <2>1. drainRan => registry' \subseteq registry
    BY <1>3 DEF ReaderStep, SubmitStopping, SubmitRegister, SubmitQueue,
                SubmitFull, ForceConnection, LockInv
  <2>2. cancelled \subseteq cancelled' /\ forced \subseteq forced'
    BY <1>3 DEF ReaderStep, SubmitStopping, SubmitRegister, SubmitQueue,
                SubmitFull, ForceConnection, ctxVars
  <2>3. UNCHANGED drainVars
    BY <1>3 DEF ReaderStep, SubmitStopping, SubmitRegister, SubmitQueue,
                SubmitFull, ForceConnection
  <2> QED
    BY <2>1, <2>2, <2>3, ForceKept DEF drainVars, Cancelled
<1>4. ASSUME NEW w \in Workers, WorkerStep(w)
      PROVE  ForceInv'
  <2>1. /\ registry' \subseteq registry /\ UNCHANGED drainVars
        /\ cancelled \subseteq cancelled' /\ forced' = forced
    BY <1>4 DEF WorkerStep, LaunchWorker, Receive, Begin, HandlerReturns,
                Settle, Exit, ctxVars
  <2> QED
    BY <2>1, ForceKept DEF drainVars, Cancelled
<1>5. ASSUME NEW d \in Drainers, DrainStep(d)
      PROVE  ForceInv'
  <2>1. CASE \/ DrainCall(d) \/ DrainNew(d) \/ DrainStarted(d)
             \/ DrainAgain(d) \/ DrainReturns(d)
    BY <2>1 DEF DrainCall, DrainNew, DrainStarted, DrainAgain, DrainReturns, ctxVars,
                Cancelled, ForceInv, TypeOK
  <2>2. CASE DrainTimeout(d)
    BY <2>2 DEF DrainTimeout, ctxVars, Cancelled, ForceInv, TypeOK
  <2>3. CASE CancelTask(d)
    BY <2>3 DEF CancelTask, Cancelled, ForceInv, TypeOK
  <2> QED
    BY <1>5, <2>1, <2>2, <2>3 DEF DrainStep
<1> QED
  BY <1>1, <1>2, <1>3, <1>4, <1>5 DEF Next

-----------------------------------------------------------------------------
(* The inductive invariant holds in every reachable state of the pool.     *)
THEOREM Inductive == Spec => []IInv
<1>1. Init => IInv
  BY InitType, InitLock, InitHand, InitOrder, InitDrained, InitRegistry,
     InitGauge, InitForce DEF IInv
<1>2. IInv /\ [Next]_vars => IInv'
  BY NextType, NextLock, NextHand, NextOrder, NextDrained, NextRegistry,
     NextGauge, NextForce DEF IInv
<1> QED
  BY <1>1, <1>2, PTL DEF Spec

(* Type correctness of the pool (worker_pool.go, worker.go).               *)
THEOREM TypeCorrect == Spec => []TypeOK
<1>1. IInv => TypeOK
  BY DEF IInv
<1> QED
  BY <1>1, Inductive, PTL

(* submit never sends on a task channel that the drain has closed.         *)
THEOREM NeverSendsOnClosed == Spec => []NoSendOnClosedChannel
<1>1. IInv => NoSendOnClosedChannel
  BY DEF IInv, LockInv, NoSendOnClosedChannel
<1> QED
  BY <1>1, Inductive, PTL

(* p.tasks is exactly the set of tasks the pool is responsible for.        *)
THEOREM RegistryIsExact == Spec => []RegistryExact
<1>1. IInv => RegistryExact
  BY DEF IInv
<1> QED
  BY <1>1, Inductive, PTL

(* When stopAcceptingAndDrain returns nil, the pool is empty and no worker *)
(* goroutine is left: either all were launched and all have ended, or the  *)
(* pool was never started.                                                 *)
THEOREM DrainIsClean == Spec => []DrainReturnsClean
<1>1. IInv => DrainReturnsClean
  <2> SUFFICES ASSUME IInv, NEW d \in Drainers, drainPc[d] = "drained"
               PROVE  /\ registry = {} /\ Queued = {}
                      /\ \A w \in Workers : workerPc[w] \in {"off", "exit"}
                      /\ (\E w \in Workers : workerPc[w] = "exit") =>
                             \A w \in Workers : workerPc[w] = "exit"
    BY DEF DrainReturnsClean
  <2>1. done /\ poolState = "stopped" /\ ~accepting
    BY DEF IInv, DrainedInv, LockInv
  <2>2. \/ \A w \in Workers : workerPc[w] = "exit" /\ queue[w] = <<>>
        \/ \A w \in Workers : workerPc[w] = "off" /\ queue[w] = <<>>
    BY <2>1 DEF IInv, HandInv
  <2>3. Queued = {}
    BY <2>2 DEF Queued
  <2>4. InHand = {}
    BY <2>2 DEF InHand, Held
  <2>5. Offered = {}
    BY <2>1 DEF Offered, IInv, LockInv
  <2> QED
    BY <2>2, <2>3, <2>4, <2>5 DEF IInv, RegistryExact
<1> QED
  BY <1>1, Inductive, PTL

(* queuedTasks is the number of tasks offered, queued or just received:    *)
(* however submit, the workers and the drain interleave, taskDequeued      *)
(* never overtakes taskQueued and decrementGauge never clamps.             *)
THEOREM GaugeIsExact == Spec => []GaugeExact
<1>1. IInv => GaugeExact
  BY DEF IInv, GaugeInv
<1> QED
  BY <1>1, Inductive, PTL

(* forceCancel, which works from a snapshot and without the lock, leaves   *)
(* no live task uncancelled.                                               *)
THEOREM ForceCancelIsComplete == Spec => []ForceCancelReachesAll
<1>1. IInv => ForceCancelReachesAll
  BY DEF IInv, ForceInv, ForceCancelReachesAll
<1> QED
  BY <1>1, Inductive, PTL

(* Intake stays closed: start refuses a pool that is not new, and a new    *)
(* pool has not been drained.                                              *)
THEOREM IntakeStaysClosed == Spec => NeverReopens
<1>1. IInv /\ [Next]_vars =>
        [(drainRan \/ (poolState # "new" /\ ~accepting)) => ~accepting']_vars
  <2> SUFFICES ASSUME IInv, [Next]_vars, drainRan \/ (poolState # "new" /\ ~accepting)
               PROVE  ~accepting' \/ UNCHANGED vars
    OBVIOUS
  <2>1. ~accepting
    BY DEF IInv, LockInv
  <2>2. CASE UNCHANGED vars
    BY <2>2
  <2>3. CASE Start \/ StopAccepting \/ WorkersDone
    BY <2>1, <2>3 DEF Start, StopAccepting, WorkersDone, IInv, LockInv
  <2>4. ASSUME NEW c \in Connections, ReaderStep(c)
        PROVE  ~accepting'
    BY <2>1, <2>4 DEF ReaderStep, SubmitStopping, SubmitRegister, SubmitQueue,
                      SubmitFull, ForceConnection
  <2>5. ASSUME NEW w \in Workers, WorkerStep(w)
        PROVE  ~accepting'
    BY <2>1, <2>5 DEF WorkerStep, LaunchWorker, Receive, Begin, HandlerReturns,
                      Settle, Exit
  <2>6. ASSUME NEW d \in Drainers, DrainStep(d)
        PROVE  ~accepting'
    BY <2>1, <2>6 DEF DrainStep, DrainCall, DrainNew, DrainStarted, DrainAgain, DrainReturns,
                      DrainTimeout, CancelTask
  <2> QED
    BY <2>2, <2>3, <2>4, <2>5, <2>6 DEF Next
<1> QED
  BY <1>1, Inductive, PTL DEF Spec, NeverReopens
----------------------------------------------------------------------------
(* WorkerPool implements TaskDispatch: under the refinement mapping of     *)
(* WorkerPool!TD, every initial state of the pool is one of TaskDispatch   *)
(* and every step of the pool is a step of TaskDispatch or stutters.       *)

USE DEF TD!Task, Task

LEMMA InitRefines == Init => TD!Init
<1> SUFFICES ASSUME Init PROVE TD!Init
  OBVIOUS
<1>1. Intake = "new"
  BY DEF Init, Intake
<1>2. Pending = {}
  BY DEF Init, Pending, Queued, Received
<1>3. Running = {}
  BY DEF Init, Running
<1>4. Revoked = {}
  BY DEF Init, Revoked, Cancelled
<1> QED
  BY <1>1, <1>2, <1>3, <1>4 DEF Init, TD!Init

(* What the mapped variables depend on. *)
LEMMA IntakeKept ==
  ASSUME UNCHANGED <<poolState, accepting>> PROVE Intake' = Intake
  BY DEF Intake

LEMMA PendingKept ==
  ASSUME UNCHANGED <<queue, current>>,
         \A w \in Workers : workerPc'[w] = "got" <=> workerPc[w] = "got"
  PROVE  Pending' = Pending
<1>1. Queued' = Queued
  BY DEF Queued
<1>2. Received' = Received
  BY DEF Received
<1> QED
  BY <1>1, <1>2 DEF Pending

LEMMA RunningKept ==
  ASSUME \A w \in Workers : workerPc'[w] = "run" <=> workerPc[w] = "run",
         \A w \in Workers : workerPc[w] = "run" => current'[w] = current[w]
  PROVE  Running' = Running
  BY DEF Running

LEMMA RevokedKept ==
  ASSUME UNCHANGED ctxVars PROVE Revoked' = Revoked
  BY DEF ctxVars, Revoked, Cancelled

(* A step that only cancels contexts revokes tasks. *)
LEMMA RevokeRefines ==
  ASSUME UNCHANGED <<Intake, accepted, Pending, Running, done>>,
         cancelled \subseteq cancelled', forced \subseteq forced'
  PROVE  TD!Revoke
<1>1. Revoked \subseteq Revoked' /\ Revoked' \subseteq Task
  BY DEF Revoked, Cancelled
<1> QED
  BY <1>1 DEF TD!Revoke

(* start, stopAccepting, and the goroutine that closes p.done. *)
LEMMA PoolRefines ==
  ASSUME IInv, Start \/ StopAccepting \/ WorkersDone
  PROVE  TD!Next
<1>0. UNCHANGED <<accepted, Pending, Running, Revoked>>
  BY PendingKept, RunningKept, RevokedKept
     DEF Start, StopAccepting, WorkersDone, submitVars, workerVars
<1>1. CASE Start
  <2>1. Intake = "new" /\ Intake' = "open" /\ done' = done
    BY <1>1 DEF Start, Intake, IInv, LockInv, drainVars
  <2> QED
    BY <1>0, <2>1 DEF TD!Open, TD!Next
<1>2. CASE StopAccepting
  <2>1. Intake' = "closed" /\ done' = done
    BY <1>2 DEF StopAccepting, Intake, drainVars
  <2> QED
    BY <1>0, <2>1 DEF TD!Close, TD!Next
<1>3. CASE WorkersDone
  <2>1. /\ \A w \in Workers : workerPc[w] = "exit" /\ queue[w] = <<>>
        /\ done' = TRUE /\ Intake' = "closed"
    BY <1>3 DEF WorkersDone, Intake, IInv, LockInv, HandInv
  <2>2. Queued = {} /\ Received = {} /\ Running = {}
    BY <2>1 DEF Queued, Received, Running
  <2> QED
    BY <1>0, <2>1, <2>2 DEF Pending, TD!Drained, TD!Next
<1> QED
  BY <1>1, <1>2, <1>3

(* submit and requestClose: the reader's steps. *)
LEMMA ReaderRefines ==
  ASSUME IInv, NEW c \in Connections, ReaderStep(c)
  PROVE  TD!Next \/ UNCHANGED TD!vars
<1>0. UNCHANGED <<Intake, Running, done>>
  BY IntakeKept, RunningKept
     DEF ReaderStep, SubmitStopping, SubmitRegister, SubmitQueue, SubmitFull,
         ForceConnection, workerVars, drainVars
<1>1. CASE SubmitStopping(c) \/ SubmitFull(c) \/ ForceConnection(c)
  <2>1. UNCHANGED <<accepted, Pending>>
    BY <1>1, PendingKept DEF SubmitStopping, SubmitFull, ForceConnection,
                             submitVars, workerVars
  <2>2. cancelled \subseteq cancelled' /\ forced \subseteq forced'
    BY <1>1 DEF SubmitStopping, SubmitFull, ForceConnection
  <2> QED
    BY <1>0, <2>1, <2>2, RevokeRefines DEF TD!Next
<1>2. CASE SubmitRegister(c)
  <2>1. UNCHANGED <<accepted, Pending, Revoked>>
    BY <1>2, PendingKept, RevokedKept DEF SubmitRegister, workerVars
  <2> QED
    BY <1>0, <2>1 DEF TD!vars
<1>3. CASE SubmitQueue(c)
  <2> DEFINE r == Request(c)
  <2>1. r \in Task /\ Queued' = Queued \cup {r}
    BY <1>3, QueueMoves DEF IInv
  <2>2. Received' = Received
    BY <1>3 DEF SubmitQueue, workerVars, Received
  <2>3. Pending' = Pending \cup {r}
    BY <2>1, <2>2 DEF Pending
  <2>4. Intake = "open"
    BY <1>3 DEF SubmitQueue, Intake, IInv, LockInv
  <2>5. /\ r.conn = c /\ r.seq = accepted[c] + 1
        /\ accepted' = [accepted EXCEPT ![c] = r.seq]
    BY <1>3 DEF SubmitQueue, Request
  <2>6. Revoked' = Revoked
    BY <1>3, RevokedKept DEF SubmitQueue
  <2>7. TD!Accept(r)
    BY <1>0, <2>3, <2>4, <2>5, <2>6 DEF TD!Accept
  <2> QED
    BY <2>1, <2>7 DEF TD!Next
<1> QED
  BY <1>1, <1>2, <1>3 DEF ReaderStep

(* The task a worker is about to begin is the oldest of its connection,    *)
(* and no other worker has one of that connection.                         *)
LEMMA ReceivedHasTurn ==
  ASSUME IInv, NEW w \in Workers, workerPc[w] = "got"
  PROVE  current[w] \in Task /\ TD!Turn(current[w])
<1> DEFINE t == current[w]
<1>1. t \in Task /\ Held(w) /\ WorkerIndex(t.conn) = w
  BY DEF IInv, HandInv, OrderInv, Held
<1>2. t \in Pending
  BY DEF Pending, Received
<1>3. ASSUME NEW u \in Pending, u.conn = t.conn
      PROVE  t.seq <= u.seq
  <2>1. CASE u \in Queued
    <3>0. PICK v \in Workers : \E i \in 1..Len(queue[v]) : u = queue[v][i]
      BY <2>1 DEF Queued
    <3>1. PICK i \in 1..Len(queue[v]) : u = queue[v][i]
      BY <3>0
    <3>2. v = w
      BY <1>1, <1>3, <3>1 DEF IInv, OrderInv
    <3>3. t.seq < u.seq
      BY <1>1, <1>3, <3>1, <3>2 DEF IInv, OrderInv
    <3>4. t.seq \in Nat /\ u.seq \in Nat
      BY <1>1, <2>1 DEF Queued
    <3> QED
      BY <3>3, <3>4
  <2>2. CASE u \in Received
    <3>1. PICK v \in Workers : workerPc[v] = "got" /\ u = current[v]
      BY <2>2 DEF Received
    <3>2. WorkerIndex(u.conn) = v
      BY <3>1 DEF IInv, OrderInv, Held
    <3>3. u = t
      BY <1>1, <1>3, <3>1, <3>2
    <3>4. t.seq \in Nat
      BY <1>1
    <3> QED
      BY <3>3, <3>4
  <2> QED
    BY <2>1, <2>2 DEF Pending
<1>4. ASSUME NEW u \in Running
      PROVE  u.conn # t.conn
  <2>1. PICK v \in Workers : workerPc[v] = "run" /\ u = current[v]
    BY DEF Running
  <2>2. WorkerIndex(u.conn) = v /\ v # w
    BY <2>1 DEF IInv, OrderInv, Held
  <2> QED
    BY <1>1, <2>2
<1> QED
  BY <1>1, <1>2, <1>3, <1>4 DEF TD!Turn

(* The steps of a worker. *)
LEMMA WorkerRefines ==
  ASSUME IInv, NEW w \in Workers, WorkerStep(w)
  PROVE  TD!Next \/ UNCHANGED TD!vars
<1> DEFINE t == current[w]
<1>0. UNCHANGED <<Intake, accepted, done>>
  BY IntakeKept
     DEF WorkerStep, LaunchWorker, Receive, Begin, HandlerReturns, Settle, Exit,
         submitVars, drainVars
<1>1. CASE LaunchWorker(w) \/ Exit(w)
  <2>1. /\ \A v \in Workers : workerPc'[v] = "got" <=> workerPc[v] = "got"
        /\ \A v \in Workers : workerPc'[v] = "run" <=> workerPc[v] = "run"
        /\ UNCHANGED <<queue, current, ctxVars>>
    BY <1>1 DEF LaunchWorker, Exit, IInv, TypeOK
  <2> QED
    BY <1>0, <2>1, PendingKept, RunningKept, RevokedKept DEF TD!vars
<1>2. CASE Receive(w)
  <2>1. /\ workerPc[w] = "recv" /\ workerPc' = [workerPc EXCEPT ![w] = "got"]
        /\ current' = [current EXCEPT ![w] = Head(queue[w])]
        /\ UNCHANGED ctxVars
    BY <1>2 DEF Receive
  <2>2. Received' = Received \cup {Head(queue[w])}
    BY <2>1 DEF Received, IInv, TypeOK
  <2>3. Pending' = Pending
    BY <1>2, <2>2, ReceiveMoves DEF Pending, IInv
  <2>4. Running' = Running
    BY <2>1, RunningKept DEF IInv, TypeOK
  <2> QED
    BY <1>0, <2>1, <2>3, <2>4, RevokedKept DEF TD!vars
<1>3. CASE Begin(w)
  <2>1. /\ workerPc[w] = "got" /\ Held(w)
        /\ \A v \in Workers : workerPc'[v] = "got" <=> workerPc[v] = "got" /\ v # w
        /\ UNCHANGED <<queue, current, ctxVars>>
    BY <1>3 DEF Begin, Held, IInv, TypeOK
  <2>2. t \in Task /\ TD!Turn(t)
    BY <2>1, ReceivedHasTurn
  <2>3. t \notin Queued /\ \A v \in Workers : Held(v) /\ current[v] = t => v = w
    BY <2>1, HeldOnce DEF IInv
  <2>4. Received' = Received \ {t} /\ Queued' = Queued
    BY <2>1, <2>3 DEF Received, Queued, Held
  <2>5. Pending' = Pending \ {t}
    BY <2>3, <2>4 DEF Pending
  <2>6. Revoked' = Revoked
    BY <2>1, RevokedKept
  <2>7. CASE Cancelled(t)
    <3>1. \A v \in Workers : workerPc'[v] = "run" <=> workerPc[v] = "run"
      BY <1>3, <2>7 DEF Begin, IInv, TypeOK
    <3>2. Running' = Running
      BY <2>1, <3>1, RunningKept
    <3>3. t \in Revoked
      BY <2>2, <2>7 DEF Revoked
    <3>4. TD!Drop(t)
      BY <1>0, <2>2, <2>5, <2>6, <3>2, <3>3 DEF TD!Drop
    <3> QED
      BY <2>2, <3>4 DEF TD!Next
  <2>8. CASE ~Cancelled(t)
    <3>1. \A v \in Workers : workerPc'[v] = "run" <=> workerPc[v] = "run" \/ v = w
      BY <1>3, <2>8 DEF Begin, IInv, TypeOK
    <3>2. Running' = Running \cup {t}
      BY <2>1, <3>1 DEF Running
    <3>3. t \notin Revoked
      BY <2>8 DEF Revoked
    <3>4. TD!Start(t)
      BY <1>0, <2>2, <2>5, <2>6, <3>2, <3>3 DEF TD!Start
    <3> QED
      BY <2>2, <3>4 DEF TD!Next
  <2> QED
    BY <2>7, <2>8
<1>4. CASE HandlerReturns(w)
  <2>1. /\ workerPc[w] = "run" /\ Held(w)
        /\ \A v \in Workers : workerPc'[v] = "got" <=> workerPc[v] = "got"
        /\ \A v \in Workers : workerPc'[v] = "run" <=> workerPc[v] = "run" /\ v # w
        /\ UNCHANGED <<queue, current, ctxVars>>
    BY <1>4 DEF HandlerReturns, Held, IInv, TypeOK
  <2>2. t \in Task /\ \A v \in Workers : Held(v) /\ current[v] = t => v = w
    BY <2>1, HeldOnce DEF IInv, HandInv
  <2>3. t \in Running /\ Running' = Running \ {t}
    BY <2>1, <2>2 DEF Running, Held
  <2>4. TD!Finish(t)
    BY <1>0, <2>1, <2>3, PendingKept, RevokedKept DEF TD!Finish
  <2> QED
    BY <2>2, <2>4 DEF TD!Next
<1>5. CASE Settle(w)
  <2>1. /\ \A v \in Workers : workerPc'[v] = "got" <=> workerPc[v] = "got"
        /\ \A v \in Workers : workerPc'[v] = "run" <=> workerPc[v] = "run"
        /\ \A v \in Workers : workerPc[v] \in {"got", "run"} => current'[v] = current[v]
        /\ queue' = queue /\ cancelled \subseteq cancelled' /\ forced' = forced
    BY <1>5 DEF Settle, IInv, TypeOK
  <2>2. Received' = Received /\ Queued' = Queued
    BY <2>1 DEF Received, Queued
  <2>3. Running' = Running
    BY <2>1, RunningKept
  <2> QED
    BY <1>0, <2>1, <2>2, <2>3, RevokeRefines DEF Pending, TD!Next
<1> QED
  BY <1>1, <1>2, <1>3, <1>4, <1>5 DEF WorkerStep

(* The steps of a caller of stopAcceptingAndDrain. *)
LEMMA DrainRefines ==
  ASSUME IInv, NEW d \in Drainers, DrainStep(d)
  PROVE  TD!Next \/ UNCHANGED TD!vars
<1>0. UNCHANGED <<accepted, Pending, Running>>
  BY PendingKept, RunningKept
     DEF DrainStep, DrainCall, DrainNew, DrainStarted, DrainAgain, DrainReturns,
         DrainTimeout, CancelTask, submitVars, workerVars
<1>1. CASE DrainNew(d)
  <2>1. /\ \A w \in Workers : workerPc[w] = "off" /\ queue[w] = <<>>
        /\ done' = TRUE /\ Intake' = "closed" /\ UNCHANGED ctxVars
    BY <1>1 DEF DrainNew, Intake, IInv, HandInv
  <2>2. Queued = {} /\ Received = {} /\ Running = {}
    BY <2>1 DEF Queued, Received, Running
  <2> QED
    BY <1>0, <2>1, <2>2, RevokedKept DEF Pending, TD!Drained, TD!Next
<1>2. CASE DrainStarted(d)
  <2>1. Intake' = "closed" /\ done' = done /\ UNCHANGED ctxVars
    BY <1>2 DEF DrainStarted, Intake
  <2> QED
    BY <1>0, <2>1, RevokedKept DEF TD!Close, TD!Next
<1>3. CASE DrainCall(d) \/ DrainAgain(d) \/ DrainReturns(d) \/ DrainTimeout(d)
  <2>1. UNCHANGED <<poolState, accepting, done, ctxVars>>
    BY <1>3 DEF DrainCall, DrainAgain, DrainReturns, DrainTimeout
  <2> QED
    BY <1>0, <2>1, IntakeKept, RevokedKept DEF TD!vars
<1>4. CASE CancelTask(d)
  <2>1. /\ UNCHANGED <<poolState, accepting, done>>
        /\ cancelled \subseteq cancelled' /\ forced' = forced
    BY <1>4 DEF CancelTask
  <2> QED
    BY <1>0, <2>1, IntakeKept, RevokeRefines DEF TD!Next
<1> QED
  BY <1>1, <1>2, <1>3, <1>4 DEF DrainStep

(* Every step of the pool is a step of TaskDispatch or changes nothing of  *)
(* what it promises.                                                       *)
LEMMA StepRefines == IInv /\ [Next]_vars => [TD!Next]_(TD!vars)
<1> SUFFICES ASSUME IInv, [Next]_vars PROVE TD!Next \/ UNCHANGED TD!vars
  OBVIOUS
<1>1. CASE UNCHANGED vars
  BY <1>1, IntakeKept, PendingKept, RunningKept, RevokedKept
     DEF vars, submitVars, workerVars, drainVars, TD!vars
<1> QED
  BY <1>1, PoolRefines, ReaderRefines, WorkerRefines, DrainRefines DEF Next

(* The worker pool keeps the promises of TaskDispatch for every number of  *)
(* connections, workers, requests and drainers: the requests of one        *)
(* connection run one at a time, in order and exactly as accepted.         *)
THEOREM ImplementsTaskDispatch == Spec => Dispatch
  BY InitRefines, StepRefines, Inductive, PTL DEF Spec, Dispatch, TD!Spec
=============================================================================
