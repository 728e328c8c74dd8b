------------------------------ MODULE Metrics -------------------------------
(***************************************************************************)
(* The counters of stats.go: callers on many goroutines update them with   *)
(* loops of Load and CompareAndSwap, while a scraper (Stats, called by the *)
(* handlers of stats_export.go) loads them one after the other.  uint64    *)
(* and int64 are scaled to MaxUint64 and MaxInt64.                         *)
(***************************************************************************)
EXTENDS Integers, Sequences

CONSTANTS Transports,  \* the transports that have metrics
          Callers,     \* goroutines that update them
          Calls,       \* calls they make: records [op, amount]
          FieldOrder,  \* the counters, in the order in which snapshot loads them
          Ages,        \* the values of the counters to start from
          MaxInt64,
          MaxCalls,    \* bound: calls made altogether
          MaxScrapes   \* bound: snapshots taken

MaxUint64 == 2 * MaxInt64 + 1
Fields == {FieldOrder[i] : i \in DOMAIN FieldOrder}

\* What a counter saturates at.
Limit(f) == IF f = "totalRequestDuration" THEN MaxInt64 ELSE MaxUint64

\* The counters that also go down.
Gauges == {"activeConnections", "queuedTasks"} \cap Fields

VARIABLES
    counters,  \* counters[t][f]: the atomic counter f of transport t
    target,    \* target[c]: the transport of c's call
    todo,      \* todo[c]: the updates that c's call has still to make
    seen,      \* seen[c]: the value c's loop has loaded, -1 before the load
    made,      \* calls made
    due,       \* history: what the calls add up to, without limits or races
    owed,      \* history: increments of a gauge that ended, without decrement
    loaded,    \* the values the running snapshot has loaded
    last,      \* the ServerStats of the snapshot before
    scrapes

vars == <<counters, target, todo, seen, made, due, owed, loaded, last, scrapes>>
callVars == <<target, todo, seen, made, due, owed>>
scrapeVars == <<loaded, last, scrapes>>

Zero == [f \in Fields |-> 0]

Init ==
    /\ \E age \in Ages : counters = [t \in Transports |-> age]
    /\ target = [c \in Callers |-> CHOOSE t \in Transports : TRUE]
    /\ todo = [c \in Callers |-> <<>>]
    /\ seen = [c \in Callers |-> -1]
    /\ made = 0
    /\ due = counters
    /\ owed = [t \in Transports |-> [g \in Gauges |-> counters[t][g]]]
    /\ loaded = <<>>
    /\ last = [t \in Transports \cup {"total"} |-> Zero]
    /\ scrapes = 0
----------------------------------------------------------------------------
(* The operations of serverMetrics, as the updates they make in turn.      *)

Add(f, delta, limit) == [kind |-> "add", field |-> f, delta |-> delta, limit |-> limit]
Inc(f) == Add(f, 1, MaxUint64)
Dec(f) == [kind |-> "dec", field |-> f, delta |-> -1, limit |-> 0]
Maximum(f, candidate) ==
    [kind |-> "max", field |-> f, delta |-> candidate, limit |-> MaxUint64]

Updates(call) ==
    LET n == call.amount
    IN CASE call.op = "connectionOpened" -> <<Inc("activeConnections")>>
         [] call.op = "connectionClosed" -> <<Dec("activeConnections")>>
         [] call.op = "taskQueued" -> <<Inc("queuedTasks")>>
         [] call.op = "taskDequeued" -> <<Dec("queuedTasks")>>
         [] call.op = "messageReceived" ->
                <<Inc("receivedMessages"), Add("receivedBytes", n, MaxUint64)>>
         [] call.op = "messageSent" ->
                <<Inc("sentMessages"), Add("sentBytes", n, MaxUint64)>>
         [] call.op = "taskRejected" -> <<Inc("rejectedTasks")>>
         [] call.op = "connectionError" -> <<Inc("connectionErrors")>>
         [] call.op = "requestCompleted" ->
                IF n <= 0 THEN <<Inc("completedRequests")>>
                ELSE <<Inc("completedRequests"), Add("totalRequestDuration", n, MaxInt64),
                       Maximum("maximumRequestDuration", n)>>

Operations ==
    {"connectionOpened", "connectionClosed", "taskQueued", "taskDequeued", "messageReceived",
     "messageSent", "taskRejected", "connectionError", "requestCompleted"}

\* The calls update counters that exist, and gauges start so low that the calls
\* made cannot fill them: 2^64 connections or tasks are never open at once.
ASSUME MetricsAssumption ==
    /\ Transports = {"tcp", "websocket"}
    /\ FieldOrder \in Seq(STRING) /\ FieldOrder # <<>>
    /\ MaxInt64 \in Nat \ {0} /\ MaxCalls \in Nat /\ MaxScrapes \in Nat
    /\ \A k \in Calls :
          /\ k.op \in Operations /\ k.amount \in 0 .. MaxInt64
          /\ \A i \in DOMAIN Updates(k) : Updates(k)[i].field \in Fields
    /\ \A age \in Ages :
          /\ age \in [Fields -> 0 .. MaxUint64]
          /\ \A f \in Fields : age[f] <= Limit(f)
          /\ \A g \in Gauges : age[g] + MaxCalls <= MaxUint64

MaxOf(a, b) == IF a >= b THEN a ELSE b

\* What an update of f makes of a value, without limits.
Plain(us, f, value) ==
    LET mine == {i \in DOMAIN us : us[i].field = f}
    IN IF mine = {} THEN value
       ELSE LET u == us[CHOOSE i \in mine : TRUE]
            IN IF u.kind = "max" THEN MaxOf(value, u.delta) ELSE value + u.delta

\* A gauge goes down only for what has gone up before: connectionClosed follows
\* the connection's connectionOpened, taskDequeued the task's taskQueued.
Begin(c, t, call) ==
    LET us == Updates(call)
    IN /\ todo[c] = <<>> /\ made < MaxCalls
       /\ us[1].kind = "dec" => owed[t][us[1].field] > 0
       /\ todo' = [todo EXCEPT ![c] = us]
       /\ target' = [target EXCEPT ![c] = t]
       /\ made' = made + 1
       /\ due' = [due EXCEPT ![t] = [f \in Fields |-> Plain(us, f, @[f])]]
       /\ owed' = IF us[1].kind = "dec" THEN [owed EXCEPT ![t][us[1].field] = @ - 1] ELSE owed
       /\ UNCHANGED <<counters, seen, scrapeVars>>
----------------------------------------------------------------------------
(* saturatingAdd, decrementGauge and updateMaximum.                        *)

BugSaturatedSum(first, second, limit) ==
    IF first >= limit THEN limit ELSE (first + second) % (MaxUint64 + 1)

saturatedSum(first, second, limit) ==
    IF first >= limit \/ second > limit - first THEN limit ELSE first + second

\* The loop returns without a swap.
Settled(u, current) ==
    CASE u.kind = "add" -> u.delta = 0 \/ current >= u.limit
      [] u.kind = "dec" -> current = 0
      [] u.kind = "max" -> u.delta <= current

Swapped(u, current) ==
    CASE u.kind = "add" -> saturatedSum(current, u.delta, u.limit)
      [] u.kind = "dec" -> current - 1
      [] u.kind = "max" -> u.delta

Current(c) == counters[target[c]][Head(todo[c]).field]

\* The update at the head of todo[c] is finished.
UpdateDone(c) ==
    LET u == Head(todo[c])
    IN /\ todo' = [todo EXCEPT ![c] = Tail(@)]
       /\ owed' = IF u.kind = "add" /\ u.field \in Gauges
                  THEN [owed EXCEPT ![target[c]][u.field] = @ + 1] ELSE owed
       /\ seen' = [seen EXCEPT ![c] = -1]

Load(c) ==
    /\ todo[c] # <<>> /\ seen[c] = -1
    /\ IF Settled(Head(todo[c]), Current(c))
       THEN UpdateDone(c)
       ELSE seen' = [seen EXCEPT ![c] = Current(c)] /\ UNCHANGED <<todo, owed>>
    /\ UNCHANGED <<counters, target, made, due, scrapeVars>>

BugCompareAndSwap(c) ==
    /\ todo[c] # <<>> /\ seen[c] # -1
    /\ counters' = [counters EXCEPT ![target[c]][Head(todo[c]).field] =
                       Swapped(Head(todo[c]), seen[c])]
    /\ UpdateDone(c)
    /\ UNCHANGED <<target, made, due, scrapeVars>>

CompareAndSwap(c) ==
    /\ todo[c] # <<>> /\ seen[c] # -1
    /\ IF Current(c) = seen[c]
       THEN /\ counters' = [counters EXCEPT ![target[c]][Head(todo[c]).field] =
                               Swapped(Head(todo[c]), seen[c])]
            /\ UpdateDone(c)
       ELSE /\ seen' = [seen EXCEPT ![c] = -1]
            /\ UNCHANGED <<counters, todo, owed>>
    /\ UNCHANGED <<target, made, due, scrapeVars>>
----------------------------------------------------------------------------
(* Stats: snapshot loads TCP's counters, then WebSocket's, and combines.   *)

Width == Len(FieldOrder)
LoadedField(i) == FieldOrder[IF i <= Width THEN i ELSE i - Width]
LoadedTransport(i) == IF i <= Width THEN "tcp" ELSE "websocket"

counterDuration(f, value) ==
    IF f \in {"totalRequestDuration", "maximumRequestDuration"} /\ value > MaxInt64
    THEN MaxInt64 ELSE value

ScrapeLoad ==
    /\ scrapes < MaxScrapes /\ Len(loaded) < 2 * Width
    /\ LET i == Len(loaded) + 1
           f == LoadedField(i)
       IN loaded' = Append(loaded, counterDuration(f, counters[LoadedTransport(i)][f]))
    /\ UNCHANGED <<counters, callVars, last, scrapes>>

Loaded(t, f) == loaded[CHOOSE i \in DOMAIN loaded : LoadedTransport(i) = t /\ LoadedField(i) = f]

combineTransportStats(f) ==
    LET first == Loaded("tcp", f)
        second == Loaded("websocket", f)
    IN CASE f = "maximumRequestDuration" -> MaxOf(first, second)
         [] f = "totalRequestDuration" -> saturatedSum(first, second, MaxInt64)
         [] OTHER -> saturatedSum(first, second, MaxUint64)

\* The types under which the Prometheus handler exports the fields.
prometheusType(f) ==
    IF f \in {"activeConnections", "queuedTasks", "maximumRequestDuration"}
    THEN "gauge" ELSE "counter"

ScrapeReturns ==
    /\ Len(loaded) = 2 * Width
    /\ last' = [t \in {"tcp", "websocket", "total"} |->
                   [f \in Fields |-> IF t = "total" THEN combineTransportStats(f) ELSE Loaded(t, f)]]
    /\ loaded' = <<>>
    /\ scrapes' = scrapes + 1
    /\ UNCHANGED <<counters, callVars>>

Next ==
    \/ \E c \in Callers, t \in Transports, call \in Calls : Begin(c, t, call)
    \/ \E c \in Callers : Load(c)
    \/ \E c \in Callers : CompareAndSwap(c)
    \/ ScrapeLoad
    \/ ScrapeReturns

Spec == Init /\ [][Next]_vars
----------------------------------------------------------------------------
(* Properties.                                                             *)

NeverFalls(f) == prometheusType(f) = "counter" \/ f = "maximumRequestDuration"

\* No update is lost or made twice by the races of the loops, and none overflows:
\* with no call in progress, every counter is what the calls add up to, cut off at
\* its limit (stats.go, saturatingAdd, decrementGauge and updateMaximum).
CountersExact ==
    (\A c \in Callers : todo[c] = <<>>) =>
        \A t \in Transports, f \in Fields :
            counters[t][f] = IF due[t][f] > Limit(f) THEN Limit(f) ELSE due[t][f]

\* What is exported as a counter never goes down from one scrape to the next, for
\* each transport and for the total, and neither does the maximum, also at the
\* limits (stats.go, snapshot and combineTransportStats).
ExportedCountersMonotone ==
    [][\A t \in DOMAIN last, f \in {g \in Fields : NeverFalls(g)} :
           last'[t][f] >= last[t][f]]_vars
=============================================================================
