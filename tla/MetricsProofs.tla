--------------------------- MODULE MetricsProofs ----------------------------
(***************************************************************************)
(* The counters of Metrics lose no update, and nothing that is exported as *)
(* a counter goes down, for any number of callers, calls and scrapes.      *)
(***************************************************************************)
EXTENDS Metrics, FiniteSetTheorems, SequenceTheorems, TLAPS

(* What the calls leave to do: updates of different counters.              *)
IsUpdate(u) ==
    \/ /\ u.kind = "add" /\ u.delta \in 0 .. MaxInt64 /\ u.limit = Limit(u.field)
       /\ u.field # "maximumRequestDuration"
       /\ u.field \in Gauges => u.delta = 1
    \/ u.kind = "dec" /\ u.field \in Gauges /\ u.delta = -1
    \/ u.kind = "max" /\ u.field = "maximumRequestDuration" /\ u.delta \in 0 .. MaxInt64

Update ==
    {u \in [kind : {"add", "dec", "max"}, field : Fields, delta : Int, limit : Nat] : IsUpdate(u)}

Distinct(s) == \A i, j \in DOMAIN s : s[i].field = s[j].field => i = j

TypeInv ==
    /\ counters \in [Transports -> [Fields -> Nat]]
    /\ \A t \in Transports, f \in Fields : counters[t][f] <= Limit(f)
    /\ target \in [Callers -> Transports]
    /\ todo \in [Callers -> Seq(Update)] /\ \A c \in Callers : Distinct(todo[c])
    /\ seen \in [Callers -> Int]
    /\ made \in 0 .. MaxCalls
    /\ due \in [Transports -> [Fields -> Int]]
    /\ owed \in [Transports -> [Gauges -> Int]]

(* A loop swaps only what it had reason to change.                         *)
LoopInv ==
    \A c \in Callers : seen[c] # -1 =>
        /\ todo[c] # <<>> /\ seen[c] \in Nat
        /\ ~ Settled(Head(todo[c]), seen[c])

(* The units that calls in progress have still to add to a counter, so     *)
(* that a sum over the callers is the size of a set; the callers that have *)
(* still to take one from it; and the candidates they have for a maximum.  *)
Units(s, f) ==
    {k \in Nat : \E i \in DOMAIN s : s[i].field = f /\ s[i].kind = "add" /\ k \in 1 .. s[i].delta}
Ups(t, f) == {x \in Callers \X Nat : target[x[1]] = t /\ x[2] \in Units(todo[x[1]], f)}
Takes(s, f) == \E i \in DOMAIN s : s[i].field = f /\ s[i].kind = "dec"
Downs(t, f) == {c \in Callers : target[c] = t /\ Takes(todo[c], f)}
Candidates(s, f) == {s[i].delta : i \in {j \in DOMAIN s : s[j].field = f /\ s[j].kind = "max"}}

Cut(f, n) == IF n > Limit(f) THEN Limit(f) ELSE n

(* A gauge holds what was counted and has not been claimed by a decrement, *)
(* and the decrements under way; it stays away from its limit.             *)
GaugeIs(t, f) ==
    /\ due[t][f] = counters[t][f] + Cardinality(Ups(t, f)) - Cardinality(Downs(t, f))
    /\ counters[t][f] = owed[t][f] + Cardinality(Downs(t, f)) /\ owed[t][f] >= 0
    /\ counters[t][f] + Cardinality(Ups(t, f)) + MaxCalls <= MaxUint64 + made
SumIs(t, f) ==
    due[t][f] \in Nat /\ Cut(f, due[t][f]) = Cut(f, counters[t][f] + Cardinality(Ups(t, f)))
MaximumIs(t, f) ==
    /\ counters[t][f] <= due[t][f]
    /\ \A c \in Callers : target[c] = t => \A n \in Candidates(todo[c], f) : n <= due[t][f]
    /\ \/ due[t][f] = counters[t][f]
       \/ \E c \in Callers : target[c] = t /\ due[t][f] \in Candidates(todo[c], f)
FiniteInv ==
    \A t \in Transports, f \in Fields : IsFiniteSet(Ups(t, f)) /\ IsFiniteSet(Downs(t, f))
GaugeInv == \A t \in Transports, f \in Fields : f \in Gauges => GaugeIs(t, f)
SumInv ==
    \A t \in Transports, f \in Fields :
        f \notin Gauges /\ f # "maximumRequestDuration" => SumIs(t, f)
MaximumInv ==
    \A t \in Transports : "maximumRequestDuration" \in Fields =>
        MaximumIs(t, "maximumRequestDuration")

(* A scrape finds at least what the one before returned, and what it has   *)
(* loaded is still there when it returns.                                  *)
Total(f, first, second) ==
    CASE f = "maximumRequestDuration" -> MaxOf(first, second)
      [] f = "totalRequestDuration" -> saturatedSum(first, second, MaxInt64)
      [] OTHER -> saturatedSum(first, second, MaxUint64)
Falling == {"activeConnections", "queuedTasks"}
ScrapeInv ==
    /\ loaded \in Seq(Nat) /\ Len(loaded) <= 2 * Width
    /\ last \in [{"tcp", "websocket", "total"} -> [Fields -> Nat]]
    /\ \A t \in Transports, f \in Fields : f \notin Falling =>
          last[t][f] <= counterDuration(f, counters[t][f])
    /\ \A f \in Fields : f \notin Falling =>
          last["total"][f] = Total(f, last["tcp"][f], last["websocket"][f])
    /\ \A i \in 1 .. Len(loaded) : LoadedField(i) \notin Falling =>
          /\ last[LoadedTransport(i)][LoadedField(i)] <= loaded[i]
          /\ loaded[i] <= counterDuration(LoadedField(i),
                              counters[LoadedTransport(i)][LoadedField(i)])

IInv == TypeInv /\ LoopInv /\ FiniteInv /\ GaugeInv /\ SumInv /\ MaximumInv /\ ScrapeInv
-----------------------------------------------------------------------------
(* The constants.                                                          *)

LEMMA Constants ==
    /\ MaxInt64 \in Nat /\ MaxInt64 >= 1 /\ MaxUint64 = 2 * MaxInt64 + 1 /\ MaxCalls \in Nat
    /\ \A f \in Fields : Limit(f) \in Nat /\ MaxInt64 <= Limit(f) /\ Limit(f) <= MaxUint64
    /\ \A g \in Gauges : g \in Fields /\ Limit(g) = MaxUint64 /\ g # "maximumRequestDuration"
    BY MetricsAssumption DEF MaxUint64, Limit, Gauges

\* Every operation of serverMetrics updates each counter at most once, and a
\* decrement is the only update of its operation.
LEMMA UpdatesTyped ==
    ASSUME NEW call \in Calls
    PROVE  /\ Updates(call) \in Seq(Update) /\ Updates(call) # <<>> /\ Distinct(Updates(call))
           /\ Updates(call)[1].kind = "dec" => Updates(call) = <<Updates(call)[1]>>
           /\ Updates(call)[1].kind # "dec" =>
                \A i \in DOMAIN Updates(call) : Updates(call)[i].kind # "dec"
<1> DEFINE us == Updates(call)  n == call.amount
<1>1. /\ call.op \in Operations /\ n \in Nat /\ n <= MaxInt64
      /\ \A i \in DOMAIN us : us[i].field \in Fields
    BY MetricsAssumption
<1>2. ASSUME NEW f, Inc(f) \in Update PROVE <<Inc(f)>> \in Seq(Update)
    BY <1>2
<1> USE DEF Distinct
<1>3. CASE call.op \in {"connectionOpened", "taskQueued", "taskRejected", "connectionError"}
  <2>1. PICK f : us = <<Inc(f)>> /\ f # "maximumRequestDuration" /\ f # "totalRequestDuration"
    BY <1>3 DEF Updates
  <2>2. f \in Fields
    <3>1. 1 \in DOMAIN us /\ us[1].field = f
      BY <2>1 DEF Inc, Add
    <3> QED BY <1>1, <3>1
  <2>3. Inc(f) \in Update /\ Inc(f).kind = "add"
    BY <2>1, <2>2, Constants DEF Inc, Add, Update, IsUpdate, Limit
  <2> HIDE DEF us
  <2>4. us \in Seq(Update) /\ us # <<>> /\ DOMAIN us = {1} /\ us[1] = Inc(f)
    BY <2>1, <2>3
  <2> QED BY <2>3, <2>4 DEF us
<1>4. CASE call.op \in {"connectionClosed", "taskDequeued"}
  <2>1. PICK f : us = <<Dec(f)>> /\ f \in {"activeConnections", "queuedTasks"}
    BY <1>4 DEF Updates
  <2>2. f \in Fields
    <3>1. 1 \in DOMAIN us /\ us[1].field = f
      BY <2>1 DEF Dec
    <3> QED BY <1>1, <3>1
  <2>3. Dec(f) \in Update /\ Dec(f).kind = "dec"
    BY <2>1, <2>2, Constants DEF Dec, Update, IsUpdate, Gauges
  <2> HIDE DEF us
  <2>4. us \in Seq(Update) /\ us # <<>> /\ DOMAIN us = {1} /\ us[1] = Dec(f)
    BY <2>1, <2>3
  <2> QED BY <2>1, <2>3, <2>4 DEF us
<1>5. CASE call.op \in {"messageReceived", "messageSent"}
  <2>1. PICK f, g : /\ us = <<Inc(f), Add(g, n, MaxUint64)>> /\ f # g
                    /\ f \notin {"maximumRequestDuration", "totalRequestDuration"}
                    /\ g \notin {"maximumRequestDuration", "totalRequestDuration",
                                 "activeConnections", "queuedTasks"}
    BY <1>5 DEF Updates
  <2>2. f \in Fields /\ g \in Fields
    <3>1. 1 \in DOMAIN us /\ us[1].field = f /\ 2 \in DOMAIN us /\ us[2].field = g
      BY <2>1 DEF Inc, Add
    <3> QED BY <1>1, <3>1
  <2>3. /\ Inc(f) \in Update /\ Inc(f).kind = "add" /\ Inc(f).field = f
        /\ Add(g, n, MaxUint64) \in Update /\ Add(g, n, MaxUint64).kind = "add"
        /\ Add(g, n, MaxUint64).field = g
    <3>1. Inc(f) \in Update /\ Inc(f).kind = "add" /\ Inc(f).field = f
      BY <2>1, <2>2, Constants DEF Inc, Add, Update, IsUpdate, Limit
    <3>2. Limit(g) = MaxUint64 /\ g \notin Gauges /\ MaxUint64 \in Nat
      BY <2>1, Constants DEF Limit, Gauges
    <3> QED BY <1>1, <2>1, <2>2, <3>1, <3>2, Constants DEF Add, Update, IsUpdate
  <2> HIDE DEF us
  <2>4. /\ us \in Seq(Update) /\ us # <<>> /\ DOMAIN us = {1, 2}
        /\ us[1] = Inc(f) /\ us[2] = Add(g, n, MaxUint64)
    BY <2>1, <2>3
  <2> QED BY <2>1, <2>3, <2>4 DEF us
<1>6. CASE call.op = "requestCompleted" /\ n <= 0
  <2>1. us = <<Inc("completedRequests")>>
    BY <1>6 DEF Updates
  <2>2. "completedRequests" \in Fields
    <3>1. 1 \in DOMAIN us /\ us[1].field = "completedRequests"
      BY <2>1 DEF Inc, Add
    <3> QED BY <1>1, <3>1
  <2>3. Inc("completedRequests") \in Update /\ Inc("completedRequests").kind = "add"
    BY <2>2, Constants DEF Inc, Add, Update, IsUpdate, Limit
  <2> HIDE DEF us
  <2>4. us \in Seq(Update) /\ us # <<>> /\ DOMAIN us = {1} /\ us[1] = Inc("completedRequests")
    BY <2>1, <2>3
  <2> QED BY <2>3, <2>4 DEF us
<1>7. CASE call.op = "requestCompleted" /\ ~ (n <= 0)
  <2> DEFINE a == Inc("completedRequests")
             b == Add("totalRequestDuration", n, MaxInt64)
             m == Maximum("maximumRequestDuration", n)
  <2>1. us = <<a, b, m>>
    BY <1>7 DEF Updates
  <2>2. {"completedRequests", "totalRequestDuration", "maximumRequestDuration"} \subseteq Fields
    <3>1. /\ 1 \in DOMAIN us /\ us[1].field = "completedRequests"
          /\ 2 \in DOMAIN us /\ us[2].field = "totalRequestDuration"
          /\ 3 \in DOMAIN us /\ us[3].field = "maximumRequestDuration"
      BY <2>1 DEF Inc, Add, Maximum
    <3> QED BY <1>1, <3>1
  <2>3. /\ a \in Update /\ a.kind = "add" /\ a.field = "completedRequests"
        /\ b \in Update /\ b.kind = "add" /\ b.field = "totalRequestDuration"
        /\ m \in Update /\ m.kind = "max" /\ m.field = "maximumRequestDuration"
    BY <1>1, <2>2, Constants DEF Inc, Add, Maximum, Update, IsUpdate, Limit, Gauges
  <2> HIDE DEF us, a, b, m
  <2>4. /\ us \in Seq(Update) /\ us # <<>> /\ DOMAIN us = {1, 2, 3}
        /\ us[1] = a /\ us[2] = b /\ us[3] = m
    BY <2>1, <2>3
  <2> QED BY <2>3, <2>4 DEF us
<1> QED BY <1>1, <1>3, <1>4, <1>5, <1>6, <1>7 DEF Operations
-----------------------------------------------------------------------------
(* What a sequence of updates has in store for a counter.                  *)

LEMMA Nothing ==
    ASSUME NEW f PROVE Units(<<>>, f) = {} /\ ~ Takes(<<>>, f) /\ Candidates(<<>>, f) = {}
    BY DEF Units, Takes, Candidates

LEMMA InStore ==
    ASSUME NEW s \in Seq(Update), Distinct(s), NEW i \in DOMAIN s, NEW f, s[i].field = f
    PROVE  /\ Units(s, f) = IF s[i].kind = "add" THEN 1 .. s[i].delta ELSE {}
           /\ Takes(s, f) <=> s[i].kind = "dec"
           /\ Candidates(s, f) = IF s[i].kind = "max" THEN {s[i].delta} ELSE {}
<1>1. \A j \in DOMAIN s : s[j].field = f => j = i
    BY DEF Distinct
<1>2. s[i] \in Update
    BY ElementOfSeq, LenProperties
<1>3. s[i].kind = "add" => s[i].delta \in Nat
    BY <1>2, Constants DEF Update, IsUpdate
<1>4. Takes(s, f) <=> s[i].kind = "dec"
    BY <1>1 DEF Takes
<1>5. Units(s, f) = IF s[i].kind = "add" THEN 1 .. s[i].delta ELSE {}
    BY <1>1, <1>3 DEF Units
<1>6. Candidates(s, f) = IF s[i].kind = "max" THEN {s[i].delta} ELSE {}
    BY <1>1 DEF Candidates
<1> QED BY <1>4, <1>5, <1>6

LEMMA NotInStore ==
    ASSUME NEW s, NEW f, \A i \in DOMAIN s : s[i].field # f
    PROVE  Units(s, f) = {} /\ ~ Takes(s, f) /\ Candidates(s, f) = {}
    BY DEF Units, Takes, Candidates

\* Finishing an update takes it out and leaves the others.
LEMMA AfterHead ==
    ASSUME NEW s \in Seq(Update), s # <<>>, Distinct(s)
    PROVE  /\ Head(s) \in Update
           /\ Tail(s) \in Seq(Update) /\ Distinct(Tail(s))
           /\ LET f == Head(s).field
              IN Units(Tail(s), f) = {} /\ ~ Takes(Tail(s), f) /\ Candidates(Tail(s), f) = {}
           /\ \A f : f # Head(s).field =>
                 /\ Units(Tail(s), f) = Units(s, f)
                 /\ Takes(Tail(s), f) <=> Takes(s, f)
                 /\ Candidates(Tail(s), f) = Candidates(s, f)
<1> DEFINE r == Tail(s)  n == Len(s)
<1>1. /\ Head(s) \in Update /\ r \in Seq(Update) /\ n \in Nat \ {0}
      /\ Len(r) = n - 1 /\ \A i \in 1 .. n - 1 : r[i] = s[i + 1]
    BY HeadTailProperties, EmptySeq
<1>2. DOMAIN s = 1 .. n /\ DOMAIN r = 1 .. n - 1 /\ Head(s) = s[1]
    BY <1>1, LenProperties
<1> HIDE DEF r, n
<1>3. \A i \in DOMAIN r : i + 1 \in DOMAIN s /\ i + 1 # 1 /\ r[i] = s[i + 1]
    BY <1>1, <1>2
<1>4. Distinct(r)
    BY <1>1, <1>2, <1>3, SMTT(60) DEF Distinct
<1>5. \A i \in DOMAIN r : r[i].field # Head(s).field
  <2> SUFFICES ASSUME NEW i \in DOMAIN r, r[i].field = Head(s).field PROVE FALSE
    OBVIOUS
  <2>1. 1 \in DOMAIN s
    BY <1>1, <1>2
  <2> QED BY <1>2, <1>3, <2>1 DEF Distinct
<1>6. ASSUME NEW f, f # Head(s).field
      PROVE  /\ Units(r, f) = Units(s, f)
             /\ Takes(r, f) <=> Takes(s, f)
             /\ Candidates(r, f) = Candidates(s, f)
  <2>1. CASE \E i \in DOMAIN r : r[i].field = f
    <3>1. PICK i \in DOMAIN r : r[i].field = f
      BY <2>1
    <3>2. i + 1 \in DOMAIN s /\ s[i + 1] = r[i]
      BY <1>3
    <3>3. /\ Units(r, f) = IF r[i].kind = "add" THEN 1 .. r[i].delta ELSE {}
          /\ Takes(r, f) <=> r[i].kind = "dec"
          /\ Candidates(r, f) = IF r[i].kind = "max" THEN {r[i].delta} ELSE {}
      BY <1>1, <1>4, <3>1, InStore
    <3>4. PICK j \in DOMAIN s : j = i + 1
      BY <3>2
    <3>5. /\ Units(s, f) = IF s[j].kind = "add" THEN 1 .. s[j].delta ELSE {}
          /\ Takes(s, f) <=> s[j].kind = "dec"
          /\ Candidates(s, f) = IF s[j].kind = "max" THEN {s[j].delta} ELSE {}
      BY <3>1, <3>2, <3>4, InStore
    <3> QED BY <3>2, <3>3, <3>4, <3>5
  <2>2. CASE \A i \in DOMAIN r : r[i].field # f
    <3>1. ASSUME NEW j \in DOMAIN s PROVE s[j].field # f
      <4>1. CASE j = 1
        BY <4>1, <1>2, <1>6
      <4>2. CASE j # 1
        <5>1. j - 1 \in DOMAIN r /\ (j - 1) + 1 = j
          BY <1>1, <1>2, <4>2
        <5>2. r[j - 1] = s[(j - 1) + 1]
          BY <1>3, <5>1
        <5> QED BY <2>2, <5>1, <5>2
      <4> QED BY <4>1, <4>2
    <3> QED BY <2>2, <3>1, NotInStore
  <2> QED BY <2>1, <2>2
<1>7. Units(r, Head(s).field) = {} /\ ~ Takes(r, Head(s).field) /\ Candidates(r, Head(s).field) = {}
    BY <1>5, NotInStore
<1> QED BY <1>1, <1>4, <1>6, <1>7 DEF r

LEMMA HeadInStore ==
    ASSUME NEW s \in Seq(Update), s # <<>>, Distinct(s), NEW u, u = Head(s)
    PROVE  /\ u.field \in Fields
           /\ Units(s, u.field) = IF u.kind = "add" THEN 1 .. u.delta ELSE {}
           /\ Takes(s, u.field) <=> u.kind = "dec"
           /\ Candidates(s, u.field) = IF u.kind = "max" THEN {u.delta} ELSE {}
<1>1. 1 \in DOMAIN s /\ Head(s) = s[1]
    BY EmptySeq, LenProperties
<1>2. u \in Update
    BY HeadTailProperties
<1> QED BY <1>1, <1>2, InStore DEF Update
-----------------------------------------------------------------------------
(* Counting what is left to do.                                            *)

LEMMA Block ==
    ASSUME NEW c, NEW d \in Nat
    PROVE  IsFiniteSet({c} \X (1 .. d)) /\ Cardinality({c} \X (1 .. d)) = d
<1>1. IsFiniteSet({c}) /\ Cardinality({c}) = 1
    BY FS_Singleton
<1>2. IsFiniteSet(1 .. d) /\ Cardinality(1 .. d) = d
    BY FS_Interval
<1>3. /\ IsFiniteSet({c} \X (1 .. d))
      /\ Cardinality({c} \X (1 .. d)) = Cardinality({c}) * Cardinality(1 .. d)
    BY <1>1, <1>2, FS_Product
<1> QED BY <1>1, <1>2, <1>3

LEMMA WithBlock ==
    ASSUME NEW S, IsFiniteSet(S), NEW c, NEW d \in Nat, S \cap ({c} \X (1 .. d)) = {}
    PROVE  /\ IsFiniteSet(S \cup ({c} \X (1 .. d)))
           /\ Cardinality(S \cup ({c} \X (1 .. d))) = Cardinality(S) + d
<1> DEFINE B == {c} \X (1 .. d)
<1>1. IsFiniteSet(B) /\ Cardinality(B) = d
    BY Block
<1>2. S \cap B = {}
    OBVIOUS
<1> HIDE DEF B
<1>3. IsFiniteSet(S \cup B) /\ Cardinality(S \cup B) = Cardinality(S) + Cardinality(B) - 0
    BY <1>1, <1>2, FS_Union, FS_EmptySet
<1>4. Cardinality(S) \in Nat
    BY FS_CardinalityType
<1> QED BY <1>1, <1>3, <1>4 DEF B

LEMMA WithoutBlock ==
    ASSUME NEW S, IsFiniteSet(S), NEW c, NEW d \in Nat, {c} \X (1 .. d) \subseteq S
    PROVE  /\ IsFiniteSet(S \ ({c} \X (1 .. d)))
           /\ Cardinality(S \ ({c} \X (1 .. d))) = Cardinality(S) - d
<1> DEFINE B == {c} \X (1 .. d)
<1>1. IsFiniteSet(B) /\ Cardinality(B) = d
    BY Block
<1>2. S \cap B = B
    OBVIOUS
<1> HIDE DEF B
<1>3. IsFiniteSet(S \ B) /\ Cardinality(S \ B) = Cardinality(S) - Cardinality(S \cap B)
    BY FS_Difference
<1> QED BY <1>1, <1>2, <1>3 DEF B

\* An update that ends takes its own units out of its own counter's.
LEMMA Finishing ==
    ASSUME TypeInv, FiniteInv, NEW c \in Callers, NEW u, todo[c] # <<>>, u = Head(todo[c]),
           todo' = [todo EXCEPT ![c] = Tail(@)], target' = target,
           NEW t \in Transports, NEW f \in Fields
    PROVE  /\ IsFiniteSet(Ups(t, f)') /\ IsFiniteSet(Downs(t, f)')
           /\ Cardinality(Ups(t, f)') = Cardinality(Ups(t, f)) -
                 (IF t = target[c] /\ f = u.field /\ u.kind = "add" THEN u.delta ELSE 0)
           /\ Cardinality(Downs(t, f)') = Cardinality(Downs(t, f)) -
                 (IF t = target[c] /\ f = u.field /\ u.kind = "dec" THEN 1 ELSE 0)
<1> DEFINE s == todo[c]
<1>1. s \in Seq(Update) /\ Distinct(s) /\ s # <<>>
    BY DEF TypeInv
<1>2. todo' = [x \in Callers |-> IF x = c THEN Tail(s) ELSE todo[x]]
    BY DEF TypeInv
<1>3. /\ u \in Update
      /\ Units(Tail(s), u.field) = {} /\ ~ Takes(Tail(s), u.field)
      /\ \A g : g # u.field => /\ Units(Tail(s), g) = Units(s, g)
                               /\ Takes(Tail(s), g) <=> Takes(s, g)
    BY <1>1, AfterHead
<1>4. /\ Units(s, u.field) = IF u.kind = "add" THEN 1 .. u.delta ELSE {}
      /\ Takes(s, u.field) <=> u.kind = "dec"
    BY <1>1, HeadInStore
<1>5. IsFiniteSet(Ups(t, f)) /\ Cardinality(Ups(t, f)) \in Nat
    BY FS_CardinalityType DEF FiniteInv
<1>6. IsFiniteSet(Downs(t, f)) /\ Cardinality(Downs(t, f)) \in Nat
    BY FS_CardinalityType DEF FiniteInv
<1> HIDE DEF s
<1>7. CASE t # target[c] \/ f # u.field
  <2>1. Ups(t, f)' = Ups(t, f)
    BY <1>2, <1>3, <1>7 DEF Ups, s
  <2>2. Downs(t, f)' = Downs(t, f)
    BY <1>2, <1>3, <1>7 DEF Downs, s
  <2> QED BY <1>5, <1>6, <1>7, <2>1, <2>2
<1>8. CASE t = target[c] /\ f = u.field
  <2>1. Ups(t, f)' = Ups(t, f) \ ({c} \X Units(s, f))
    BY <1>2, <1>3, <1>8 DEF Ups, s
  <2>2. {c} \X Units(s, f) \subseteq Ups(t, f)
    BY <1>8 DEF Ups, Units, s
  <2>3. Downs(t, f)' = Downs(t, f) \ {c}
    BY <1>2, <1>3, <1>8 DEF Downs, s
  <2>4. c \in Downs(t, f) <=> u.kind = "dec"
    BY <1>4, <1>8 DEF Downs, s
  <2>5. /\ IsFiniteSet(Downs(t, f)')
        /\ Cardinality(Downs(t, f)') =
              Cardinality(Downs(t, f)) - (IF u.kind = "dec" THEN 1 ELSE 0)
    BY <1>6, <2>3, <2>4, FS_RemoveElement
  <2>6. CASE u.kind = "add"
    <3>1. u.delta \in Nat /\ Units(s, f) = 1 .. u.delta
      BY <1>3, <1>4, <1>8, <2>6 DEF Update, IsUpdate
    <3>2. PICK d \in Nat : d = u.delta
      BY <3>1
    <3>3. {c} \X (1 .. d) \subseteq Ups(t, f)
      BY <2>2, <3>1, <3>2
    <3>4. /\ IsFiniteSet(Ups(t, f) \ ({c} \X (1 .. d)))
          /\ Cardinality(Ups(t, f) \ ({c} \X (1 .. d))) = Cardinality(Ups(t, f)) - d
      BY <1>5, <3>3, WithoutBlock
    <3>5. /\ IsFiniteSet(Ups(t, f)')
          /\ Cardinality(Ups(t, f)') = Cardinality(Ups(t, f)) - u.delta
      BY <2>1, <3>1, <3>2, <3>4
    <3> QED BY <1>8, <2>5, <2>6, <3>5
  <2>7. CASE u.kind # "add"
    <3>1. Ups(t, f)' = Ups(t, f)
      BY <1>4, <1>8, <2>1, <2>7
    <3> QED BY <1>5, <1>8, <2>5, <2>7, <3>1
  <2> QED BY <2>6, <2>7
<1> QED BY <1>7, <1>8

\* A call that begins puts its units to those of its transport's counters.
LEMMA Beginning ==
    ASSUME TypeInv, FiniteInv, NEW c \in Callers, NEW b \in Transports, todo[c] = <<>>,
           NEW us \in Seq(Update), Distinct(us),
           todo' = [todo EXCEPT ![c] = us], target' = [target EXCEPT ![c] = b],
           NEW t \in Transports, NEW f \in Fields
    PROVE  /\ IsFiniteSet(Ups(t, f)') /\ IsFiniteSet(Downs(t, f)')
           /\ (t # b \/ \A i \in DOMAIN us : us[i].field # f)
                 => Ups(t, f)' = Ups(t, f) /\ Downs(t, f)' = Downs(t, f)
           /\ t = b => \A i \in DOMAIN us : us[i].field = f =>
                 /\ Cardinality(Ups(t, f)') = Cardinality(Ups(t, f)) +
                       (IF us[i].kind = "add" THEN us[i].delta ELSE 0)
                 /\ Cardinality(Downs(t, f)') = Cardinality(Downs(t, f)) +
                       (IF us[i].kind = "dec" THEN 1 ELSE 0)
<1>1. /\ todo' = [x \in Callers |-> IF x = c THEN us ELSE todo[x]]
      /\ target' = [x \in Callers |-> IF x = c THEN b ELSE target[x]]
    BY DEF TypeInv
<1>2. Units(todo[c], f) = {} /\ ~ Takes(todo[c], f)
    BY Nothing
<1>3. IsFiniteSet(Ups(t, f)) /\ Cardinality(Ups(t, f)) \in Nat
    BY FS_CardinalityType DEF FiniteInv
<1>4. IsFiniteSet(Downs(t, f)) /\ Cardinality(Downs(t, f)) \in Nat
    BY FS_CardinalityType DEF FiniteInv
<1>5. Ups(t, f)' = IF t = b THEN Ups(t, f) \cup ({c} \X Units(us, f)) ELSE Ups(t, f)
  <2>1. Units(us, f) \subseteq Nat
    BY DEF Units
  <2> QED BY <1>1, <1>2, <2>1 DEF Ups
<1>6. Downs(t, f)' = IF t = b /\ Takes(us, f) THEN Downs(t, f) \cup {c} ELSE Downs(t, f)
    BY <1>1, <1>2 DEF Downs
<1>7. c \notin Downs(t, f) /\ \A k : <<c, k>> \notin Ups(t, f)
    BY <1>2 DEF Downs, Ups
<1>8. ASSUME t # b \/ \A i \in DOMAIN us : us[i].field # f
      PROVE  Ups(t, f)' = Ups(t, f) /\ Downs(t, f)' = Downs(t, f)
  <2>1. CASE t # b
    BY <1>5, <1>6, <2>1
  <2>2. CASE \A i \in DOMAIN us : us[i].field # f
    <3>1. Units(us, f) = {} /\ ~ Takes(us, f)
      BY <2>2, NotInStore
    <3> QED BY <1>5, <1>6, <3>1
  <2> QED BY <1>8, <2>1, <2>2
<1>9. ASSUME t = b, NEW i \in DOMAIN us, us[i].field = f
      PROVE  /\ IsFiniteSet(Ups(t, f)') /\ IsFiniteSet(Downs(t, f)')
             /\ Cardinality(Ups(t, f)') = Cardinality(Ups(t, f)) +
                   (IF us[i].kind = "add" THEN us[i].delta ELSE 0)
             /\ Cardinality(Downs(t, f)') = Cardinality(Downs(t, f)) +
                   (IF us[i].kind = "dec" THEN 1 ELSE 0)
  <2>1. /\ Units(us, f) = IF us[i].kind = "add" THEN 1 .. us[i].delta ELSE {}
        /\ Takes(us, f) <=> us[i].kind = "dec"
    BY <1>9, InStore
  <2>2. us[i] \in Update
    BY ElementOfSeq, LenProperties
  <2>3. /\ IsFiniteSet(Downs(t, f)')
        /\ Cardinality(Downs(t, f)') =
              Cardinality(Downs(t, f)) + (IF us[i].kind = "dec" THEN 1 ELSE 0)
    <3>1. /\ IsFiniteSet(Downs(t, f) \cup {c})
          /\ Cardinality(Downs(t, f) \cup {c}) = Cardinality(Downs(t, f)) + 1
      BY <1>4, <1>7, FS_AddElement
    <3>2. CASE us[i].kind = "dec"
      BY <1>6, <1>9, <2>1, <3>1, <3>2
    <3>3. CASE us[i].kind # "dec"
      BY <1>4, <1>6, <2>1, <3>3
    <3> QED BY <3>2, <3>3
  <2>4. CASE us[i].kind = "add"
    <3>1. us[i].delta \in Nat
      BY <2>2, <2>4 DEF Update, IsUpdate
    <3>2. PICK d \in Nat : d = us[i].delta
      BY <3>1
    <3>3. Ups(t, f)' = Ups(t, f) \cup ({c} \X (1 .. d))
      BY <1>5, <1>9, <2>1, <2>4, <3>2
    <3>4. Ups(t, f) \cap ({c} \X (1 .. d)) = {}
      BY <1>7
    <3>5. IsFiniteSet(Ups(t, f)') /\ Cardinality(Ups(t, f)') = Cardinality(Ups(t, f)) + d
      <4>1. /\ IsFiniteSet(Ups(t, f) \cup ({c} \X (1 .. d)))
            /\ Cardinality(Ups(t, f) \cup ({c} \X (1 .. d))) = Cardinality(Ups(t, f)) + d
        BY <1>3, <3>4, WithBlock
      <4> QED BY <3>3, <4>1
    <3> QED BY <2>3, <2>4, <3>2, <3>5
  <2>5. CASE us[i].kind # "add"
    <3>1. Ups(t, f)' = Ups(t, f)
      BY <1>5, <1>9, <2>1, <2>5
    <3> QED BY <1>3, <2>3, <2>5, <3>1
  <2> QED BY <2>4, <2>5
<1>10. IsFiniteSet(Ups(t, f)') /\ IsFiniteSet(Downs(t, f)')
    BY <1>3, <1>4, <1>8, <1>9
<1> QED BY <1>8, <1>9, <1>10
-----------------------------------------------------------------------------
(* What a step does: it begins a call, completes an update or changes no   *)
(* counter and no call.                                                    *)

New(u, v) == IF Settled(u, v) THEN v ELSE Swapped(u, v)

LEMMA NewValue ==
    ASSUME NEW u \in Update, NEW v \in Nat, v <= Limit(u.field)
    PROVE  /\ New(u, v) \in Nat /\ New(u, v) <= Limit(u.field)
           /\ u.kind # "dec" => v <= New(u, v)
           /\ u.kind = "add" => New(u, v) = Cut(u.field, v + u.delta)
           /\ u.kind = "dec" => New(u, v) = IF v = 0 THEN 0 ELSE v - 1
           /\ u.kind = "max" => New(u, v) = MaxOf(v, u.delta)
<1>1. /\ u.kind \in {"add", "dec", "max"} /\ u.field \in Fields /\ u.delta \in Int
      /\ Limit(u.field) \in Nat /\ MaxInt64 <= Limit(u.field) /\ MaxInt64 \in Nat
    BY Constants DEF Update
<1>2. CASE u.kind = "add"
  <2>1. u.delta \in Nat /\ u.limit = Limit(u.field)
    BY <1>2, Constants DEF Update, IsUpdate
  <2>2. New(u, v) = IF u.delta = 0 \/ v >= u.limit THEN v ELSE saturatedSum(v, u.delta, u.limit)
    BY <1>2 DEF New, Settled, Swapped
  <2> QED BY <1>1, <1>2, <2>1, <2>2 DEF saturatedSum, Cut
<1>3. CASE u.kind = "dec"
  <2>1. New(u, v) = IF v = 0 THEN v ELSE v - 1
    BY <1>3 DEF New, Settled, Swapped
  <2> QED BY <1>1, <1>3, <2>1
<1>4. CASE u.kind = "max"
  <2>1. u.delta \in Nat /\ u.delta <= MaxInt64
    BY <1>4, Constants DEF Update, IsUpdate
  <2>2. New(u, v) = IF u.delta <= v THEN v ELSE u.delta
    BY <1>4 DEF New, Settled, Swapped
  <2> QED BY <1>1, <1>4, <2>1, <2>2 DEF MaxOf
<1> QED BY <1>1, <1>2, <1>3, <1>4

Completes(c) ==
    /\ todo[c] # <<>> /\ UpdateDone(c)
    /\ counters' = [counters EXCEPT ![target[c]][Head(todo[c]).field] =
                       New(Head(todo[c]), Current(c))]
    /\ UNCHANGED <<target, made, due, scrapeVars>>

LEMMA UpdateSteps ==
    ASSUME TypeInv, LoopInv, NEW c \in Callers, Load(c) \/ CompareAndSwap(c)
    PROVE  Completes(c) \/ UNCHANGED <<counters, target, todo, made, due, owed, scrapeVars>>
<1> DEFINE u == Head(todo[c])
<1>1. todo[c] # <<>> /\ todo[c] \in Seq(Update) /\ target[c] \in Transports
    BY DEF Load, CompareAndSwap, TypeInv
<1>2. u \in Update /\ u.field \in Fields
    BY <1>1, HeadTailProperties DEF Update
<1>3. CASE Load(c)
  <2>1. CASE Settled(u, Current(c))
    <3>1. New(u, Current(c)) = counters[target[c]][u.field]
      BY <2>1 DEF New, Current
    <3>2. counters = [counters EXCEPT ![target[c]][u.field] = counters[target[c]][u.field]]
      BY <1>1, <1>2 DEF TypeInv
    <3>3. counters' = counters /\ UpdateDone(c) /\ UNCHANGED <<target, made, due, scrapeVars>>
      BY <1>3, <2>1 DEF Load
    <3> QED BY <1>1, <3>1, <3>2, <3>3 DEF Completes
  <2>2. CASE ~ Settled(u, Current(c))
    BY <1>3, <2>2 DEF Load
  <2> QED BY <2>1, <2>2
<1>4. CASE CompareAndSwap(c)
  <2>1. CASE Current(c) = seen[c]
    <3>1. ~ Settled(u, Current(c))
      BY <1>4, <2>1 DEF CompareAndSwap, LoopInv
    <3>2. New(u, Current(c)) = Swapped(u, seen[c])
      BY <2>1, <3>1 DEF New
    <3> QED BY <1>1, <1>4, <2>1, <3>2 DEF CompareAndSwap, Completes
  <2>2. CASE Current(c) # seen[c]
    BY <1>4, <2>2 DEF CompareAndSwap
  <2> QED BY <2>1, <2>2
<1> QED BY <1>3, <1>4

LEMMA Steps ==
    ASSUME TypeInv, LoopInv, [Next]_vars
    PROVE  \/ \E c \in Callers, t \in Transports, call \in Calls : Begin(c, t, call)
           \/ \E c \in Callers : Completes(c)
           \/ UNCHANGED <<counters, target, todo, made, due, owed>>
<1>1. CASE \E c \in Callers : Load(c) \/ CompareAndSwap(c)
  <2>1. PICK c \in Callers : Load(c) \/ CompareAndSwap(c)
    BY <1>1
  <2> QED BY <2>1, UpdateSteps
<1>2. CASE ScrapeLoad \/ ScrapeReturns
    BY <1>2 DEF ScrapeLoad, ScrapeReturns, callVars
<1>3. CASE UNCHANGED vars
    BY <1>3 DEF vars
<1> QED BY <1>1, <1>2, <1>3 DEF Next

LEMMA Completed ==
    ASSUME TypeInv, NEW c \in Callers, Completes(c), NEW u, u = Head(todo[c])
    PROVE  /\ u \in Update /\ u.field \in Fields /\ target[c] \in Transports
           /\ todo[c] # <<>> /\ todo' = [todo EXCEPT ![c] = Tail(@)]
           /\ target' = target /\ due' = due /\ made' = made
           /\ counters' \in [Transports -> [Fields -> Nat]]
           /\ \A t \in Transports, f \in Fields : counters'[t][f] =
                 IF t = target[c] /\ f = u.field THEN New(u, counters[t][f]) ELSE counters[t][f]
           /\ owed' \in [Transports -> [Gauges -> Int]]
           /\ \A t \in Transports, g \in Gauges : owed'[t][g] = owed[t][g] +
                 (IF t = target[c] /\ g = u.field /\ u.kind = "add" THEN 1 ELSE 0)
<1>1. /\ todo[c] # <<>> /\ todo[c] \in Seq(Update) /\ target[c] \in Transports
      /\ todo' = [todo EXCEPT ![c] = Tail(@)] /\ target' = target /\ due' = due /\ made' = made
    BY DEF Completes, UpdateDone, TypeInv
<1>2. u \in Update /\ u.field \in Fields
    BY <1>1, HeadTailProperties DEF Update
<1>3. PICK n : n = New(u, counters[target[c]][u.field])
    OBVIOUS
<1>4. counters' = [counters EXCEPT ![target[c]][u.field] = n]
    BY <1>3 DEF Completes, Current
<1>5. n \in Nat
  <2>1. counters[target[c]][u.field] \in Nat /\ counters[target[c]][u.field] <= Limit(u.field)
    BY <1>1, <1>2 DEF TypeInv
  <2> QED BY <1>2, <1>3, <2>1, NewValue
<1>6. counters \in [Transports -> [Fields -> Nat]]
    BY DEF TypeInv
<1>7. counters' \in [Transports -> [Fields -> Nat]]
    BY <1>1, <1>2, <1>4, <1>5, <1>6
<1>8. \A t \in Transports, f \in Fields : counters'[t][f] =
          IF t = target[c] /\ f = u.field THEN n ELSE counters[t][f]
    BY <1>1, <1>2, <1>4, <1>6
<1>9. \A t \in Transports, f \in Fields : counters'[t][f] =
          IF t = target[c] /\ f = u.field THEN New(u, counters[t][f]) ELSE counters[t][f]
    BY <1>3, <1>8
<1>10. /\ owed' \in [Transports -> [Gauges -> Int]]
       /\ \A t \in Transports, g \in Gauges : owed'[t][g] = owed[t][g] +
             (IF t = target[c] /\ g = u.field /\ u.kind = "add" THEN 1 ELSE 0)
  <2>1. owed \in [Transports -> [Gauges -> Int]]
    BY DEF TypeInv
  <2>2. CASE u.kind = "add" /\ u.field \in Gauges
    <3>1. owed' = [owed EXCEPT ![target[c]][u.field] = @ + 1]
      BY <2>2 DEF Completes, UpdateDone
    <3> QED BY <1>1, <2>1, <2>2, <3>1
  <2>3. CASE ~ (u.kind = "add" /\ u.field \in Gauges)
    <3>1. owed' = owed
      BY <2>3 DEF Completes, UpdateDone
    <3> QED BY <2>1, <2>3, <3>1
  <2> QED BY <2>2, <2>3
<1> QED BY <1>1, <1>2, <1>7, <1>9, <1>10

LEMMA PlainValue ==
    ASSUME NEW us \in Seq(Update), Distinct(us), NEW f, NEW v
    PROVE  /\ (\A i \in DOMAIN us : us[i].field # f) => Plain(us, f, v) = v
           /\ \A i \in DOMAIN us : us[i].field = f =>
                 Plain(us, f, v) = IF us[i].kind = "max" THEN MaxOf(v, us[i].delta)
                                   ELSE v + us[i].delta
<1>1. ASSUME \A i \in DOMAIN us : us[i].field # f PROVE Plain(us, f, v) = v
    BY <1>1 DEF Plain
<1>2. ASSUME NEW i \in DOMAIN us, us[i].field = f
      PROVE  Plain(us, f, v) = IF us[i].kind = "max" THEN MaxOf(v, us[i].delta)
                               ELSE v + us[i].delta
  <2>1. {j \in DOMAIN us : us[j].field = f} = {i}
    BY <1>2 DEF Distinct
  <2>2. (CHOOSE j \in {i} : TRUE) = i
    OBVIOUS
  <2> QED BY <2>1, <2>2 DEF Plain
<1> QED BY <1>1, <1>2

LEMMA Begun ==
    ASSUME TypeInv, NEW c \in Callers, NEW b \in Transports, NEW call \in Calls,
           Begin(c, b, call), NEW us, us = Updates(call)
    PROVE  /\ us \in Seq(Update) /\ Distinct(us) /\ todo[c] = <<>>
           /\ todo' = [todo EXCEPT ![c] = us] /\ target' = [target EXCEPT ![c] = b]
           /\ counters' = counters /\ made' = made + 1 /\ made < MaxCalls
           /\ \A t \in Transports, f \in Fields :
                 due'[t][f] = IF t = b THEN Plain(us, f, due[t][f]) ELSE due[t][f]
           /\ due' \in [Transports -> [Fields -> Int]]
           /\ owed' \in [Transports -> [Gauges -> Int]]
           /\ \A t \in Transports, g \in Gauges :
                 \/ owed'[t][g] = owed[t][g] /\ (t = b => ~ Takes(us, g))
                 \/ owed'[t][g] = owed[t][g] - 1 /\ owed[t][g] > 0 /\ t = b /\ Takes(us, g)
<1>1. /\ us \in Seq(Update) /\ us # <<>> /\ Distinct(us)
      /\ us[1].kind = "dec" => us = <<us[1]>>
      /\ us[1].kind # "dec" => \A i \in DOMAIN us : us[i].kind # "dec"
    BY UpdatesTyped
<1>2. /\ todo[c] = <<>> /\ todo' = [todo EXCEPT ![c] = us] /\ target' = [target EXCEPT ![c] = b]
      /\ counters' = counters /\ made' = made + 1 /\ made < MaxCalls
      /\ us[1].kind = "dec" => owed[b][us[1].field] > 0
      /\ due' = [due EXCEPT ![b] = [f \in Fields |-> Plain(us, f, @[f])]]
      /\ owed' = IF us[1].kind = "dec" THEN [owed EXCEPT ![b][us[1].field] = @ - 1] ELSE owed
    BY DEF Begin
<1>3. \A t \in Transports, f \in Fields :
          due'[t][f] = IF t = b THEN Plain(us, f, due[t][f]) ELSE due[t][f]
    BY <1>2 DEF TypeInv
<1>4. ASSUME NEW f \in Fields PROVE Plain(us, f, due[b][f]) \in Int
  <2>1. due[b][f] \in Int
    BY DEF TypeInv
  <2>2. CASE \E i \in DOMAIN us : us[i].field = f
    <3>1. PICK i \in DOMAIN us : us[i].field = f
      BY <2>2
    <3>2. us[i] \in Update
      BY <1>1, ElementOfSeq, LenProperties
    <3>3. us[i].delta \in Int
      BY <3>2 DEF Update
    <3> QED BY <1>1, <2>1, <3>1, <3>3, PlainValue DEF MaxOf
  <2>3. CASE \A i \in DOMAIN us : us[i].field # f
    BY <1>1, <2>1, <2>3, PlainValue
  <2> QED BY <2>2, <2>3
<1>5. due' \in [Transports -> [Fields -> Int]]
  <2>1. due' = [t \in Transports |-> IF t = b THEN [f \in Fields |-> Plain(us, f, due[b][f])]
                                     ELSE due[t]]
    BY <1>2 DEF TypeInv
  <2> QED BY <1>4, <2>1 DEF TypeInv
<1>6. owed \in [Transports -> [Gauges -> Int]]
    BY DEF TypeInv
<1>7. CASE us[1].kind = "dec"
  <2>1. DOMAIN us = {1}
    BY <1>1, <1>7
  <2>2. us[1] \in Update
    BY <1>1, <2>1, ElementOfSeq, LenProperties
  <2>3. us[1].field \in Gauges
    BY <1>7, <2>2 DEF Update, IsUpdate
  <2>4. \A g : Takes(us, g) <=> g = us[1].field
    BY <1>7, <2>1 DEF Takes
  <2>5. owed' = [owed EXCEPT ![b][us[1].field] = @ - 1] /\ owed[b][us[1].field] > 0
    BY <1>2, <1>7
  <2>6. \A t \in Transports, g \in Gauges : owed'[t][g] =
            IF t = b /\ g = us[1].field THEN owed[t][g] - 1 ELSE owed[t][g]
    BY <1>6, <2>3, <2>5
  <2>7. owed' \in [Transports -> [Gauges -> Int]]
    BY <1>6, <2>3, <2>5
  <2> QED BY <1>1, <1>2, <1>3, <1>5, <2>4, <2>5, <2>6, <2>7
<1>8. CASE us[1].kind # "dec"
  <2>1. \A g : ~ Takes(us, g)
    BY <1>1, <1>8 DEF Takes
  <2> QED BY <1>1, <1>2, <1>3, <1>5, <1>6, <1>8, <2>1
<1> QED BY <1>7, <1>8
-----------------------------------------------------------------------------
(* The invariants of the counters.                                         *)

LEMMA InitType == Init => TypeInv /\ LoopInv
<1> SUFFICES ASSUME Init PROVE TypeInv /\ LoopInv
    OBVIOUS
<1>1. PICK age \in Ages : counters = [t \in Transports |-> age]
    BY DEF Init
<1>2. age \in [Fields -> 0 .. MaxUint64] /\ \A f \in Fields : age[f] <= Limit(f)
    BY MetricsAssumption
<1>3. counters \in [Transports -> [Fields -> Nat]]
    BY <1>1, <1>2, Constants
<1>4. \A t \in Transports, f \in Fields : counters[t][f] <= Limit(f)
    BY <1>1, <1>2
<1>5. target \in [Callers -> Transports]
  <2>1. (CHOOSE t \in Transports : TRUE) \in Transports
    BY MetricsAssumption
  <2> QED BY <2>1 DEF Init
<1>6. <<>> \in Seq(Update) /\ Distinct(<<>>)
    BY EmptySeq DEF Distinct
<1>7. todo \in [Callers -> Seq(Update)] /\ \A c \in Callers : Distinct(todo[c])
    BY <1>6 DEF Init
<1>8. seen \in [Callers -> Int] /\ \A c \in Callers : seen[c] = -1
    BY DEF Init
<1>9. due \in [Transports -> [Fields -> Int]] /\ made \in 0 .. MaxCalls
    BY <1>3, Constants DEF Init
<1>10. owed \in [Transports -> [Gauges -> Int]]
    BY <1>3, Constants DEF Init
<1> QED BY <1>3, <1>4, <1>5, <1>7, <1>8, <1>9, <1>10 DEF TypeInv, LoopInv

LEMMA NextLoop == TypeInv /\ LoopInv /\ [Next]_vars => seen' \in [Callers -> Int] /\ LoopInv'
<1> SUFFICES ASSUME TypeInv, LoopInv, [Next]_vars PROVE seen' \in [Callers -> Int] /\ LoopInv'
    OBVIOUS
<1>1. seen \in [Callers -> Int]
    BY DEF TypeInv
<1>2. ASSUME NEW c \in Callers, Load(c) PROVE seen' \in [Callers -> Int] /\ LoopInv'
  <2>1. /\ todo[c] # <<>> /\ todo[c] \in Seq(Update) /\ target[c] \in Transports
        /\ todo \in [Callers -> Seq(Update)]
    BY <1>2 DEF Load, TypeInv
  <2>2. Head(todo[c]).field \in Fields
    BY <2>1, HeadTailProperties DEF Update
  <2>3. Current(c) \in Nat
    BY <2>1, <2>2 DEF Current, TypeInv
  <2>4. CASE Settled(Head(todo[c]), Current(c))
    <3>1. seen' = [seen EXCEPT ![c] = -1] /\ todo' = [todo EXCEPT ![c] = Tail(@)]
      BY <1>2, <2>4 DEF Load, UpdateDone
    <3> QED BY <1>1, <2>1, <3>1 DEF LoopInv
  <2>5. CASE ~ Settled(Head(todo[c]), Current(c))
    <3>1. seen' = [seen EXCEPT ![c] = Current(c)] /\ todo' = todo
      BY <1>2, <2>5 DEF Load
    <3>2. PICK n \in Nat : n = Current(c)
      BY <2>3
    <3>3. seen' = [seen EXCEPT ![c] = n] /\ ~ Settled(Head(todo[c]), n)
      BY <2>5, <3>1, <3>2
    <3>4. seen' \in [Callers -> Int] /\ \A x \in Callers : seen'[x] = IF x = c THEN n ELSE seen[x]
      BY <1>1, <3>3
    <3>5. ASSUME NEW x \in Callers, seen'[x] # -1
          PROVE  /\ todo'[x] # <<>> /\ seen'[x] \in Nat
                 /\ ~ Settled(Head(todo'[x]), seen'[x])
      <4>1. CASE x = c
        BY <2>1, <3>1, <3>3, <3>4, <4>1
      <4>2. CASE x # c
        BY <3>1, <3>4, <3>5, <4>2 DEF LoopInv
      <4> QED BY <4>1, <4>2
    <3> QED BY <3>4, <3>5 DEF LoopInv
  <2> QED BY <2>4, <2>5
<1>3. ASSUME NEW c \in Callers, CompareAndSwap(c) PROVE seen' \in [Callers -> Int] /\ LoopInv'
  <2>1. seen' = [seen EXCEPT ![c] = -1] /\ \A x \in Callers : x # c => todo'[x] = todo[x]
    BY <1>3 DEF CompareAndSwap, UpdateDone, TypeInv
  <2> QED BY <1>1, <2>1 DEF LoopInv
<1>4. ASSUME NEW c \in Callers, NEW t \in Transports, NEW call \in Calls, Begin(c, t, call)
      PROVE  seen' \in [Callers -> Int] /\ LoopInv'
  <2>1. /\ seen' = seen /\ todo[c] = <<>>
        /\ \A x \in Callers : x # c => todo'[x] = todo[x]
    BY <1>4 DEF Begin, TypeInv
  <2>2. seen[c] = -1
    BY <2>1 DEF LoopInv
  <2> QED BY <1>1, <2>1, <2>2 DEF LoopInv
<1>5. CASE ScrapeLoad \/ ScrapeReturns \/ UNCHANGED vars
  <2>1. seen' = seen /\ todo' = todo
    BY <1>5 DEF ScrapeLoad, ScrapeReturns, callVars, vars
  <2> QED BY <1>1, <2>1 DEF LoopInv
<1> QED BY <1>2, <1>3, <1>4, <1>5 DEF Next

LEMMA NextType == TypeInv /\ LoopInv /\ [Next]_vars => TypeInv'
<1> SUFFICES ASSUME TypeInv, LoopInv, [Next]_vars PROVE TypeInv'
    OBVIOUS
<1>1. seen' \in [Callers -> Int]
    BY NextLoop
<1>2. ASSUME NEW c \in Callers, NEW b \in Transports, NEW call \in Calls, Begin(c, b, call)
      PROVE  TypeInv'
  <2>1. PICK us : us = Updates(call)
    OBVIOUS
  <2>2. /\ us \in Seq(Update) /\ Distinct(us)
        /\ todo' = [todo EXCEPT ![c] = us] /\ target' = [target EXCEPT ![c] = b]
        /\ counters' = counters /\ made' = made + 1 /\ made < MaxCalls
        /\ due' \in [Transports -> [Fields -> Int]]
        /\ owed' \in [Transports -> [Gauges -> Int]]
    BY <1>2, <2>1, Begun
  <2>3. todo' \in [Callers -> Seq(Update)] /\ \A x \in Callers : Distinct(todo'[x])
    BY <2>2 DEF TypeInv
  <2>4. target' \in [Callers -> Transports] /\ made' \in 0 .. MaxCalls
    BY <2>2, Constants DEF TypeInv
  <2> QED BY <1>1, <2>2, <2>3, <2>4 DEF TypeInv
<1>3. ASSUME NEW c \in Callers, Completes(c) PROVE TypeInv'
  <2>1. PICK u : u = Head(todo[c])
    OBVIOUS
  <2>2. /\ u \in Update /\ u.field \in Fields /\ target[c] \in Transports
        /\ todo[c] # <<>> /\ todo' = [todo EXCEPT ![c] = Tail(@)]
        /\ target' = target /\ due' = due /\ made' = made
        /\ counters' \in [Transports -> [Fields -> Nat]]
        /\ \A t \in Transports, f \in Fields : counters'[t][f] =
              IF t = target[c] /\ f = u.field THEN New(u, counters[t][f]) ELSE counters[t][f]
        /\ owed' \in [Transports -> [Gauges -> Int]]
    BY <1>3, <2>1, Completed
  <2>3. ASSUME NEW t \in Transports, NEW f \in Fields PROVE counters'[t][f] <= Limit(f)
    <3>1. counters[t][f] \in Nat /\ counters[t][f] <= Limit(f)
      BY DEF TypeInv
    <3>2. CASE t = target[c] /\ f = u.field
      BY <2>2, <3>1, <3>2, NewValue
    <3>3. CASE ~ (t = target[c] /\ f = u.field)
      BY <2>2, <3>1, <3>3
    <3> QED BY <3>2, <3>3
  <2>4. Tail(todo[c]) \in Seq(Update) /\ Distinct(Tail(todo[c]))
    BY <2>2, AfterHead DEF TypeInv
  <2>5. todo' \in [Callers -> Seq(Update)] /\ \A x \in Callers : Distinct(todo'[x])
    BY <2>2, <2>4 DEF TypeInv
  <2> QED BY <1>1, <2>2, <2>3, <2>5 DEF TypeInv
<1>4. CASE UNCHANGED <<counters, target, todo, made, due, owed>>
    BY <1>1, <1>4 DEF TypeInv
<1> QED BY <1>2, <1>3, <1>4, Steps

LEMMA NextFinite == TypeInv /\ LoopInv /\ FiniteInv /\ [Next]_vars => FiniteInv'
<1> SUFFICES ASSUME TypeInv, LoopInv, FiniteInv, [Next]_vars,
                    NEW t \in Transports, NEW f \in Fields
             PROVE  IsFiniteSet(Ups(t, f)') /\ IsFiniteSet(Downs(t, f)')
    BY DEF FiniteInv
<1>1. ASSUME NEW c \in Callers, NEW b \in Transports, NEW call \in Calls, Begin(c, b, call)
      PROVE  IsFiniteSet(Ups(t, f)') /\ IsFiniteSet(Downs(t, f)')
  <2>1. PICK us : us = Updates(call)
    OBVIOUS
  <2>2. /\ us \in Seq(Update) /\ Distinct(us) /\ todo[c] = <<>>
        /\ todo' = [todo EXCEPT ![c] = us] /\ target' = [target EXCEPT ![c] = b]
    BY <1>1, <2>1, Begun
  <2> QED BY <2>2, Beginning
<1>2. ASSUME NEW c \in Callers, Completes(c)
      PROVE  IsFiniteSet(Ups(t, f)') /\ IsFiniteSet(Downs(t, f)')
    BY <1>2, Finishing DEF Completes, UpdateDone
<1>3. CASE UNCHANGED <<counters, target, todo, made, due, owed>>
    BY <1>3 DEF FiniteInv, Ups, Downs
<1> QED BY <1>1, <1>2, <1>3, Steps

LEMMA Counts ==
    ASSUME FiniteInv, NEW t \in Transports, NEW f \in Fields
    PROVE  Cardinality(Ups(t, f)) \in Nat /\ Cardinality(Downs(t, f)) \in Nat
    BY FS_CardinalityType DEF FiniteInv

LEMMA NextSum == TypeInv /\ LoopInv /\ FiniteInv /\ SumInv /\ [Next]_vars => SumInv'
<1> SUFFICES ASSUME TypeInv, LoopInv, FiniteInv, SumInv, [Next]_vars,
                    NEW t \in Transports, NEW f \in Fields,
                    f \notin Gauges, f # "maximumRequestDuration"
             PROVE  SumIs(t, f)'
    BY DEF SumInv
<1>1. /\ due[t][f] \in Nat /\ counters[t][f] \in Nat /\ counters[t][f] <= Limit(f)
      /\ Cardinality(Ups(t, f)) \in Nat /\ Limit(f) \in Nat
      /\ Cut(f, due[t][f]) = Cut(f, counters[t][f] + Cardinality(Ups(t, f)))
    BY Counts, Constants DEF TypeInv, SumInv, SumIs
<1>2. ASSUME NEW c \in Callers, NEW b \in Transports, NEW call \in Calls, Begin(c, b, call)
      PROVE  SumIs(t, f)'
  <2>1. PICK us : us = Updates(call)
    OBVIOUS
  <2>2. /\ us \in Seq(Update) /\ Distinct(us) /\ todo[c] = <<>>
        /\ todo' = [todo EXCEPT ![c] = us] /\ target' = [target EXCEPT ![c] = b]
        /\ counters' = counters
        /\ due'[t][f] = IF t = b THEN Plain(us, f, due[t][f]) ELSE due[t][f]
    BY <1>2, <2>1, Begun
  <2>3. CASE t # b \/ \A i \in DOMAIN us : us[i].field # f
    <3>1. Ups(t, f)' = Ups(t, f)
      BY <2>2, <2>3, Beginning
    <3>2. due'[t][f] = due[t][f]
      BY <2>2, <2>3, PlainValue
    <3> QED BY <1>1, <2>2, <3>1, <3>2 DEF SumIs
  <2>4. ASSUME t = b, NEW i \in DOMAIN us, us[i].field = f PROVE SumIs(t, f)'
    <3>1. us[i] \in Update
      BY <2>2, ElementOfSeq, LenProperties
    <3>2. us[i].kind = "add" /\ us[i].delta \in Nat
      BY <2>4, <3>1 DEF Update, IsUpdate
    <3>3. Cardinality(Ups(t, f)') = Cardinality(Ups(t, f)) + us[i].delta
      BY <2>2, <2>4, <3>2, Beginning, ZenonT(60)
    <3>4. due'[t][f] = due[t][f] + us[i].delta
      BY <2>2, <2>4, <3>2, PlainValue
    <3>5. /\ Cut(f, due[t][f] + us[i].delta) =
                Cut(f, (counters[t][f] + Cardinality(Ups(t, f))) + us[i].delta)
          /\ due[t][f] + us[i].delta \in Nat
      BY <1>1, <3>2 DEF Cut
    <3>6. (counters[t][f] + Cardinality(Ups(t, f))) + us[i].delta =
              counters'[t][f] + Cardinality(Ups(t, f)')
      BY <1>1, <2>2, <3>2, <3>3
    <3> QED BY <3>4, <3>5, <3>6 DEF SumIs
  <2> QED BY <2>3, <2>4
<1>3. ASSUME NEW c \in Callers, Completes(c) PROVE SumIs(t, f)'
  <2>1. PICK u : u = Head(todo[c])
    OBVIOUS
  <2>2. /\ u \in Update /\ todo[c] # <<>> /\ todo' = [todo EXCEPT ![c] = Tail(@)]
        /\ target' = target /\ due' = due
        /\ counters'[t][f] =
              IF t = target[c] /\ f = u.field THEN New(u, counters[t][f]) ELSE counters[t][f]
    BY <1>3, <2>1, Completed
  <2>3. /\ IsFiniteSet(Ups(t, f)')
        /\ Cardinality(Ups(t, f)') = Cardinality(Ups(t, f)) -
              (IF t = target[c] /\ f = u.field /\ u.kind = "add" THEN u.delta ELSE 0)
    BY <2>1, <2>2, Finishing, ZenonT(60)
  <2>4. CASE t = target[c] /\ f = u.field
    <3>1. u.kind = "add" /\ u.delta \in Nat
      BY <2>2, <2>4 DEF Update, IsUpdate
    <3>2. counters'[t][f] = Cut(f, counters[t][f] + u.delta)
      BY <1>1, <2>2, <2>4, <3>1, NewValue
    <3>3. /\ Cardinality(Ups(t, f)') = Cardinality(Ups(t, f)) - u.delta
          /\ Cardinality(Ups(t, f)') \in Nat
      BY <2>3, <2>4, <3>1, FS_CardinalityType
    <3> QED BY <1>1, <2>2, <3>1, <3>2, <3>3 DEF SumIs, Cut
  <2>5. CASE ~ (t = target[c] /\ f = u.field)
    <3>1. Cardinality(Ups(t, f)') = Cardinality(Ups(t, f)) /\ counters'[t][f] = counters[t][f]
      BY <1>1, <2>2, <2>3, <2>5
    <3> QED BY <1>1, <2>2, <3>1 DEF SumIs
  <2> QED BY <2>4, <2>5
<1>4. CASE UNCHANGED <<counters, target, todo, made, due, owed>>
  <2>1. Ups(t, f)' = Ups(t, f)
    BY <1>4 DEF Ups
  <2> QED BY <1>1, <1>4, <2>1 DEF SumIs
<1> QED BY <1>2, <1>3, <1>4, Steps

LEMMA NextGauge == TypeInv /\ LoopInv /\ FiniteInv /\ GaugeInv /\ [Next]_vars => GaugeInv'
<1> SUFFICES ASSUME TypeInv, LoopInv, FiniteInv, GaugeInv, [Next]_vars,
                    NEW t \in Transports, NEW f \in Fields, f \in Gauges
             PROVE  GaugeIs(t, f)'
    BY DEF GaugeInv
<1>1. /\ f # "maximumRequestDuration" /\ Limit(f) = MaxUint64
      /\ MaxUint64 \in Nat /\ MaxCalls \in Nat
    BY Constants
<1>2. /\ due[t][f] \in Int /\ counters[t][f] \in Nat /\ counters[t][f] <= Limit(f)
      /\ owed[t][f] \in Int /\ made \in Nat /\ made <= MaxCalls
    BY <1>1, Constants DEF TypeInv
<1>3. Cardinality(Ups(t, f)) \in Nat /\ Cardinality(Downs(t, f)) \in Nat
    BY <1>1, Counts
<1>4. GaugeIs(t, f)
    BY <1>1 DEF GaugeInv
<1>5. ASSUME NEW c \in Callers, NEW b \in Transports, NEW call \in Calls, Begin(c, b, call)
      PROVE  GaugeIs(t, f)'
  <2>1. PICK us : us = Updates(call)
    OBVIOUS
  <2>2. /\ us \in Seq(Update) /\ Distinct(us) /\ todo[c] = <<>>
        /\ todo' = [todo EXCEPT ![c] = us] /\ target' = [target EXCEPT ![c] = b]
        /\ counters' = counters /\ made' = made + 1
        /\ due'[t][f] = IF t = b THEN Plain(us, f, due[t][f]) ELSE due[t][f]
        /\ \/ owed'[t][f] = owed[t][f] /\ (t = b => ~ Takes(us, f))
           \/ owed'[t][f] = owed[t][f] - 1 /\ owed[t][f] > 0 /\ t = b /\ Takes(us, f)
    BY <1>1, <1>5, <2>1, Begun
  <2>0. counters'[t][f] = counters[t][f] /\ made' = made + 1
    BY <2>2
  <2>3. CASE t # b \/ \A i \in DOMAIN us : us[i].field # f
    <3>1. Ups(t, f)' = Ups(t, f) /\ Downs(t, f)' = Downs(t, f)
      BY <1>1, <2>2, <2>3, Beginning, ZenonT(60)
    <3>2. due'[t][f] = due[t][f]
      BY <2>2, <2>3, PlainValue
    <3>3. owed'[t][f] = owed[t][f]
      <4>1. t = b => ~ Takes(us, f)
        BY <2>3, NotInStore
      <4> QED BY <2>2, <4>1
    <3> QED BY <1>1, <1>2, <1>3, <1>4, <2>0, <3>1, <3>2, <3>3 DEF GaugeIs
  <2>4. ASSUME t = b, NEW i \in DOMAIN us, us[i].field = f PROVE GaugeIs(t, f)'
    <3>1. us[i] \in Update
      BY <2>2, ElementOfSeq, LenProperties
    <3>2. \/ us[i].kind = "add" /\ us[i].delta = 1
          \/ us[i].kind = "dec" /\ us[i].delta = -1
      BY <1>1, <2>4, <3>1 DEF Update, IsUpdate
    <3>3. /\ Cardinality(Ups(t, f)') = Cardinality(Ups(t, f)) +
                (IF us[i].kind = "add" THEN us[i].delta ELSE 0)
          /\ Cardinality(Downs(t, f)') = Cardinality(Downs(t, f)) +
                (IF us[i].kind = "dec" THEN 1 ELSE 0)
      BY <1>1, <2>2, <2>4, Beginning, ZenonT(60)
    <3>4. due'[t][f] = due[t][f] + us[i].delta
      BY <2>2, <2>4, <3>2, PlainValue
    <3>5. Takes(us, f) <=> us[i].kind = "dec"
      BY <2>2, <2>4, InStore
    <3>6. CASE us[i].kind = "add"
      <4>1. /\ Cardinality(Ups(t, f)') = Cardinality(Ups(t, f)) + 1
            /\ Cardinality(Downs(t, f)') = Cardinality(Downs(t, f))
            /\ due'[t][f] = due[t][f] + 1 /\ owed'[t][f] = owed[t][f]
        BY <1>3, <2>2, <3>2, <3>3, <3>4, <3>5, <3>6
      <4> QED BY <1>1, <1>2, <1>3, <1>4, <2>0, <4>1 DEF GaugeIs
    <3>7. CASE us[i].kind = "dec"
      <4>1. /\ Cardinality(Ups(t, f)') = Cardinality(Ups(t, f))
            /\ Cardinality(Downs(t, f)') = Cardinality(Downs(t, f)) + 1
            /\ due'[t][f] = due[t][f] - 1 /\ owed'[t][f] = owed[t][f] - 1 /\ owed[t][f] > 0
        BY <1>2, <1>3, <2>2, <2>4, <3>2, <3>3, <3>4, <3>5, <3>7
      <4> QED BY <1>1, <1>2, <1>3, <1>4, <2>0, <4>1 DEF GaugeIs
    <3> QED BY <3>2, <3>6, <3>7
  <2> QED BY <2>3, <2>4
<1>6. ASSUME NEW c \in Callers, Completes(c) PROVE GaugeIs(t, f)'
  <2>1. PICK u : u = Head(todo[c])
    OBVIOUS
  <2>2. /\ u \in Update /\ todo[c] # <<>> /\ todo' = [todo EXCEPT ![c] = Tail(@)]
        /\ target' = target /\ due' = due /\ made' = made
        /\ counters'[t][f] =
              IF t = target[c] /\ f = u.field THEN New(u, counters[t][f]) ELSE counters[t][f]
        /\ owed'[t][f] = owed[t][f] +
              (IF t = target[c] /\ f = u.field /\ u.kind = "add" THEN 1 ELSE 0)
    BY <1>1, <1>6, <2>1, Completed
  <2>0. due'[t][f] = due[t][f] /\ made' = made
    BY <2>2
  <2>3. /\ IsFiniteSet(Ups(t, f)') /\ IsFiniteSet(Downs(t, f)')
        /\ Cardinality(Ups(t, f)') = Cardinality(Ups(t, f)) -
              (IF t = target[c] /\ f = u.field /\ u.kind = "add" THEN u.delta ELSE 0)
        /\ Cardinality(Downs(t, f)') = Cardinality(Downs(t, f)) -
              (IF t = target[c] /\ f = u.field /\ u.kind = "dec" THEN 1 ELSE 0)
    <3>1. todo[c] # <<>> /\ todo' = [todo EXCEPT ![c] = Tail(@)] /\ target' = target
      BY <2>2
    <3> QED BY <2>1, <3>1, Finishing, ZenonT(60)
  <2>4. Cardinality(Ups(t, f)') \in Nat /\ Cardinality(Downs(t, f)') \in Nat
    BY <2>3, FS_CardinalityType
  <2>5. CASE t = target[c] /\ f = u.field
    <3>1. (u.kind = "add" /\ u.delta = 1) \/ u.kind = "dec"
      BY <1>1, <2>2, <2>5 DEF Update, IsUpdate
    <3>2. CASE u.kind = "add"
      <4>1. /\ Cardinality(Ups(t, f)') = Cardinality(Ups(t, f)) - 1
            /\ Cardinality(Downs(t, f)') = Cardinality(Downs(t, f))
            /\ owed'[t][f] = owed[t][f] + 1
        BY <1>3, <2>2, <2>3, <2>5, <3>1, <3>2
      <4>2. counters[t][f] + 1 <= MaxUint64
        BY <1>1, <1>2, <1>3, <1>4, <2>4, <4>1 DEF GaugeIs
      <4>3. counters'[t][f] = Cut(f, counters[t][f] + 1)
        BY <1>2, <2>2, <2>5, <3>1, <3>2, NewValue
      <4>4. counters'[t][f] = counters[t][f] + 1
        BY <1>1, <1>2, <4>2, <4>3 DEF Cut
      <4> QED BY <1>1, <1>2, <1>3, <1>4, <2>0, <4>1, <4>4 DEF GaugeIs
    <3>3. CASE u.kind = "dec"
      <4>1. /\ Cardinality(Ups(t, f)') = Cardinality(Ups(t, f))
            /\ Cardinality(Downs(t, f)') = Cardinality(Downs(t, f)) - 1
            /\ owed'[t][f] = owed[t][f]
        BY <1>2, <1>3, <2>2, <2>3, <2>5, <3>3
      <4>2. counters[t][f] > 0
        BY <1>2, <1>3, <1>4, <2>4, <4>1 DEF GaugeIs
      <4>3. counters'[t][f] = counters[t][f] - 1
        BY <1>2, <2>2, <2>5, <3>3, <4>2, NewValue
      <4> QED BY <1>1, <1>2, <1>3, <1>4, <2>0, <4>1, <4>3 DEF GaugeIs
    <3> QED BY <3>1, <3>2, <3>3
  <2>6. CASE ~ (t = target[c] /\ f = u.field)
    <3>1. /\ Cardinality(Ups(t, f)') = Cardinality(Ups(t, f))
          /\ Cardinality(Downs(t, f)') = Cardinality(Downs(t, f))
          /\ counters'[t][f] = counters[t][f] /\ owed'[t][f] = owed[t][f]
      BY <1>2, <1>3, <2>2, <2>3, <2>6
    <3> QED BY <1>4, <2>2, <3>1 DEF GaugeIs
  <2> QED BY <2>5, <2>6
<1>7. CASE UNCHANGED <<counters, target, todo, made, due, owed>>
  <2>1. Ups(t, f)' = Ups(t, f) /\ Downs(t, f)' = Downs(t, f)
    BY <1>7 DEF Ups, Downs
  <2> QED BY <1>4, <1>7, <2>1 DEF GaugeIs
<1> QED BY <1>5, <1>6, <1>7, Steps

LEMMA NextMaximum == TypeInv /\ LoopInv /\ MaximumInv /\ [Next]_vars => MaximumInv'
<1> DEFINE f == "maximumRequestDuration"
<1> SUFFICES ASSUME TypeInv, LoopInv, MaximumInv, [Next]_vars,
                    NEW t \in Transports, f \in Fields
             PROVE  MaximumIs(t, f)'
    BY DEF MaximumInv
<1>1. due[t][f] \in Int /\ counters[t][f] \in Nat /\ counters[t][f] <= Limit(f)
    BY DEF TypeInv
<1>2. MaximumIs(t, f)
    BY DEF MaximumInv
<1> HIDE DEF f
<1>3. ASSUME NEW c \in Callers, NEW b \in Transports, NEW call \in Calls, Begin(c, b, call)
      PROVE  MaximumIs(t, f)'
  <2>1. PICK us : us = Updates(call)
    OBVIOUS
  <2>2. /\ us \in Seq(Update) /\ Distinct(us) /\ todo[c] = <<>>
        /\ todo' = [todo EXCEPT ![c] = us] /\ target' = [target EXCEPT ![c] = b]
        /\ counters' = counters
        /\ due'[t][f] = IF t = b THEN Plain(us, f, due[t][f]) ELSE due[t][f]
    BY <1>3, <2>1, Begun
  <2>3. /\ \A x \in Callers : target'[x] = IF x = c THEN b ELSE target[x]
        /\ \A x \in Callers : todo'[x] = IF x = c THEN us ELSE todo[x]
        /\ Candidates(todo[c], f) = {}
    BY <2>2, Nothing DEF TypeInv
  <2>4. CASE t # b \/ \A i \in DOMAIN us : us[i].field # f
    <3>1. due'[t][f] = due[t][f]
      BY <2>2, <2>4, PlainValue
    <3>2. t = b => Candidates(us, f) = {}
      BY <2>4, NotInStore
    <3>3. ASSUME NEW x \in Callers, target'[x] = t
          PROVE  Candidates(todo'[x], f) = {} \/ (target[x] = t /\ todo'[x] = todo[x])
      <4>1. CASE x = c
        <5>1. t = b /\ todo'[x] = us
          BY <2>3, <3>3, <4>1
        <5> QED BY <3>2, <5>1
      <4>2. CASE x # c
        BY <2>3, <3>3, <4>2
      <4> QED BY <4>1, <4>2
    <3>4. \A x \in Callers : target[x] = t /\ Candidates(todo[x], f) # {} =>
              target'[x] = t /\ todo'[x] = todo[x]
      BY <2>3
    <3> QED BY <1>2, <2>2, <3>1, <3>3, <3>4 DEF MaximumIs
  <2>5. ASSUME t = b, NEW i \in DOMAIN us, us[i].field = f PROVE MaximumIs(t, f)'
    <3>1. us[i] \in Update
      BY <2>2, ElementOfSeq, LenProperties
    <3>2. us[i].kind = "max" /\ us[i].delta \in Nat
      BY <2>5, <3>1, Constants DEF Update, IsUpdate, f
    <3>3. Candidates(us, f) = {us[i].delta}
      BY <2>2, <2>5, <3>2, InStore
    <3>4. due'[t][f] = MaxOf(due[t][f], us[i].delta)
      BY <2>2, <2>5, <3>2, PlainValue
    <3>5. due'[t][f] \in Int /\ due'[t][f] >= due[t][f] /\ due'[t][f] >= us[i].delta
      BY <1>1, <3>2, <3>4 DEF MaxOf
    <3>6. counters'[t][f] <= due'[t][f]
      BY <1>1, <1>2, <2>2, <3>5 DEF MaximumIs
    <3>7. ASSUME NEW x \in Callers, target'[x] = t, NEW n \in Candidates(todo'[x], f)
          PROVE  n <= due'[t][f]
      <4>1. CASE x = c
        BY <2>3, <3>3, <3>5, <3>7, <4>1
      <4>2. CASE x # c
        <5>1. n <= due[t][f] /\ n \in Candidates(todo[x], f)
          BY <1>2, <2>3, <3>7, <4>2 DEF MaximumIs
        <5>2. n \in Int
          <6>1. PICK j \in DOMAIN todo[x] : n = todo[x][j].delta
            BY <5>1 DEF Candidates
          <6>2. todo[x][j] \in Update
            BY ElementOfSeq, LenProperties DEF TypeInv
          <6> QED BY <6>1, <6>2 DEF Update
        <5> QED BY <1>1, <3>5, <5>1, <5>2
      <4> QED BY <4>1, <4>2
    <3>8. \/ due'[t][f] = counters'[t][f]
          \/ \E x \in Callers : target'[x] = t /\ due'[t][f] \in Candidates(todo'[x], f)
      <4>1. CASE due'[t][f] = us[i].delta
        <5>1. target'[c] = t /\ due'[t][f] \in Candidates(todo'[c], f)
          BY <2>3, <2>5, <3>3, <4>1
        <5> QED BY <5>1
      <4>2. CASE due'[t][f] = due[t][f]
        <5>1. CASE due[t][f] = counters[t][f]
          BY <2>2, <4>2, <5>1
        <5>2. CASE \E x \in Callers : target[x] = t /\ due[t][f] \in Candidates(todo[x], f)
          <6>1. PICK x \in Callers : target[x] = t /\ due[t][f] \in Candidates(todo[x], f)
            BY <5>2
          <6>2. x # c
            BY <2>3, <6>1
          <6>3. target'[x] = t /\ due'[t][f] \in Candidates(todo'[x], f)
            BY <2>3, <4>2, <6>1, <6>2
          <6> QED BY <6>3
        <5> QED BY <1>2, <5>1, <5>2 DEF MaximumIs
      <4> QED BY <3>4, <4>1, <4>2 DEF MaxOf
    <3> QED BY <3>6, <3>7, <3>8 DEF MaximumIs
  <2> QED BY <2>4, <2>5
<1>4. ASSUME NEW c \in Callers, Completes(c) PROVE MaximumIs(t, f)'
  <2>1. PICK u : u = Head(todo[c])
    OBVIOUS
  <2>2. /\ u \in Update /\ todo[c] # <<>> /\ todo' = [todo EXCEPT ![c] = Tail(@)]
        /\ target' = target /\ due' = due
        /\ counters'[t][f] =
              IF t = target[c] /\ f = u.field THEN New(u, counters[t][f]) ELSE counters[t][f]
    BY <1>4, <2>1, Completed
  <2>3. todo[c] \in Seq(Update) /\ Distinct(todo[c])
    BY DEF TypeInv
  <2>4. \A x \in Callers : todo'[x] = IF x = c THEN Tail(todo[c]) ELSE todo[x]
    BY <2>2 DEF TypeInv
  <2>5. CASE t = target[c] /\ f = u.field
    <3>1. u.kind = "max" /\ u.delta \in Nat
      BY <2>2, <2>5, Constants DEF Update, IsUpdate, f
    <3>2. Candidates(todo[c], f) = {u.delta} /\ Candidates(Tail(todo[c]), f) = {}
      BY <2>1, <2>2, <2>3, <2>5, <3>1, HeadInStore, AfterHead
    <3>3. counters'[t][f] = MaxOf(counters[t][f], u.delta)
      BY <1>1, <2>2, <2>5, <3>1, NewValue
    <3>4. u.delta <= due[t][f] /\ counters[t][f] <= due[t][f]
      BY <1>2, <2>5, <3>2 DEF MaximumIs
    <3>5. /\ counters'[t][f] <= due'[t][f]
          /\ due[t][f] = counters[t][f] \/ due[t][f] = u.delta => due'[t][f] = counters'[t][f]
      BY <1>1, <2>2, <3>1, <3>3, <3>4 DEF MaxOf
    <3>6. \A x \in Callers : target'[x] = t =>
              \A n \in Candidates(todo'[x], f) : n <= due'[t][f]
      BY <1>2, <2>2, <2>4, <3>2 DEF MaximumIs
    <3>7. \/ due'[t][f] = counters'[t][f]
          \/ \E x \in Callers : target'[x] = t /\ due'[t][f] \in Candidates(todo'[x], f)
      <4>1. CASE due[t][f] = counters[t][f]
        BY <3>5, <4>1
      <4>2. CASE \E x \in Callers : target[x] = t /\ due[t][f] \in Candidates(todo[x], f)
        <5>1. PICK x \in Callers : target[x] = t /\ due[t][f] \in Candidates(todo[x], f)
          BY <4>2
        <5>2. CASE x = c
          BY <3>2, <3>5, <5>1, <5>2
        <5>3. CASE x # c
          BY <2>2, <2>4, <5>1, <5>3
        <5> QED BY <5>2, <5>3
      <4> QED BY <1>2, <4>1, <4>2 DEF MaximumIs
    <3> QED BY <3>5, <3>6, <3>7 DEF MaximumIs
  <2>6. CASE ~ (t = target[c] /\ f = u.field)
    <3>1. counters'[t][f] = counters[t][f] /\ due'[t][f] = due[t][f]
      BY <2>2, <2>6
    <3>2. t = target[c] => Candidates(Tail(todo[c]), f) = Candidates(todo[c], f)
      BY <2>1, <2>2, <2>3, <2>6, AfterHead
    <3>3. \A x \in Callers : /\ target'[x] = target[x]
                             /\ target[x] = t => Candidates(todo'[x], f) = Candidates(todo[x], f)
      BY <2>2, <2>4, <3>2
    <3> QED BY <1>2, <3>1, <3>3 DEF MaximumIs
  <2> QED BY <2>5, <2>6
<1>5. CASE UNCHANGED <<counters, target, todo, made, due, owed>>
    BY <1>2, <1>5 DEF MaximumIs, Candidates
<1> QED BY <1>3, <1>4, <1>5, Steps

LEMMA InitCounts == Init => FiniteInv /\ GaugeInv /\ SumInv /\ MaximumInv
<1> SUFFICES ASSUME Init PROVE FiniteInv /\ GaugeInv /\ SumInv /\ MaximumInv
    OBVIOUS
<1>1. \A c \in Callers : todo[c] = <<>>
    BY DEF Init
<1>2. ASSUME NEW t, NEW f PROVE Ups(t, f) = {} /\ Downs(t, f) = {}
    BY <1>1, Nothing DEF Ups, Downs
<1>3. FiniteInv
    BY <1>2, FS_EmptySet DEF FiniteInv
<1>4. ASSUME NEW t, NEW f PROVE Cardinality(Ups(t, f)) = 0 /\ Cardinality(Downs(t, f)) = 0
    BY <1>2, FS_EmptySet
<1>5. TypeInv
    BY InitType
<1>6. PICK age \in Ages : counters = [t \in Transports |-> age]
    BY DEF Init
<1>7. due = counters /\ made = 0 /\ owed = [t \in Transports |-> [g \in Gauges |-> counters[t][g]]]
    BY DEF Init
<1>8. ASSUME NEW t \in Transports, NEW f \in Fields, f \in Gauges PROVE GaugeIs(t, f)
  <2>1. age[f] + MaxCalls <= MaxUint64
    BY <1>8, MetricsAssumption
  <2>2. counters[t][f] \in Nat /\ counters[t][f] = age[f] /\ MaxUint64 \in Nat /\ MaxCalls \in Nat
    BY <1>5, <1>6, Constants DEF TypeInv
  <2>3. due[t][f] = counters[t][f] /\ owed[t][f] = counters[t][f] /\ made = 0
    BY <1>7, <1>8
  <2> QED BY <1>4, <2>1, <2>2, <2>3 DEF GaugeIs
<1>9. ASSUME NEW t \in Transports, NEW f \in Fields PROVE SumIs(t, f)
  <2>1. counters[t][f] \in Nat /\ counters[t][f] + Cardinality(Ups(t, f)) = counters[t][f]
    BY <1>4, <1>5 DEF TypeInv
  <2> QED BY <1>7, <2>1 DEF SumIs
<1>10. ASSUME NEW t \in Transports, NEW f \in Fields PROVE MaximumIs(t, f)
  <2>1. counters[t][f] \in Nat /\ \A c \in Callers : Candidates(todo[c], f) = {}
    BY <1>1, <1>5, Nothing DEF TypeInv
  <2>2. due[t][f] = counters[t][f] /\ counters[t][f] <= counters[t][f]
    BY <1>7, <2>1
  <2> QED BY <2>1, <2>2 DEF MaximumIs
<1> QED BY <1>3, <1>8, <1>9, <1>10 DEF GaugeInv, SumInv, MaximumInv
-----------------------------------------------------------------------------
(* The scrapes.                                                            *)

LEMMA Growing ==
    ASSUME TypeInv, LoopInv, [Next]_vars, NEW t \in Transports, NEW f \in Fields, f \notin Falling
    PROVE  counters[t][f] \in Nat /\ counters'[t][f] \in Nat /\ counters[t][f] <= counters'[t][f]
<1>1. counters[t][f] \in Nat /\ counters[t][f] <= Limit(f)
    BY DEF TypeInv
<1>2. CASE \E c \in Callers : Completes(c)
  <2>1. PICK c \in Callers : Completes(c)
    BY <1>2
  <2>2. PICK u : u = Head(todo[c])
    OBVIOUS
  <2>3. /\ u \in Update
        /\ counters'[t][f] =
              IF t = target[c] /\ f = u.field THEN New(u, counters[t][f]) ELSE counters[t][f]
    BY <2>1, <2>2, Completed
  <2>4. CASE t = target[c] /\ f = u.field
    <3>1. u.kind # "dec"
      BY <2>3, <2>4 DEF Update, IsUpdate, Gauges, Falling
    <3> QED BY <1>1, <2>3, <2>4, <3>1, NewValue
  <2>5. CASE ~ (t = target[c] /\ f = u.field)
    BY <1>1, <2>3, <2>5
  <2> QED BY <2>4, <2>5
<1>3. CASE ~ \E c \in Callers : Completes(c)
  <2>1. counters' = counters
    BY <1>3, Steps DEF Begin
  <2> QED BY <1>1, <2>1
<1> QED BY <1>2, <1>3

LEMMA DurationGrows ==
    ASSUME NEW f, NEW m \in Nat, NEW n \in Nat, m <= n
    PROVE  counterDuration(f, m) \in Nat /\ counterDuration(f, m) <= counterDuration(f, n)
    BY Constants DEF counterDuration

LEMMA TotalGrows ==
    ASSUME NEW f, NEW a \in Nat, NEW b \in Nat, NEW m \in Nat, NEW n \in Nat, a <= m, b <= n
    PROVE  Total(f, a, b) \in Nat /\ Total(f, a, b) <= Total(f, m, n)
<1>1. MaxInt64 \in Nat /\ MaxUint64 \in Nat
    BY Constants
<1>2. CASE f = "maximumRequestDuration"
    BY <1>2 DEF Total, MaxOf
<1>3. CASE f = "totalRequestDuration"
    BY <1>1, <1>3 DEF Total, saturatedSum
<1>4. CASE f \notin {"maximumRequestDuration", "totalRequestDuration"}
    BY <1>1, <1>4 DEF Total, saturatedSum
<1> QED BY <1>2, <1>3, <1>4

LEMMA Places ==
    /\ Width \in Nat
    /\ \A i \in 1 .. 2 * Width : LoadedField(i) \in Fields /\ LoadedTransport(i) \in Transports
    /\ \A t \in Transports, f \in Fields :
          \E i \in 1 .. 2 * Width : LoadedTransport(i) = t /\ LoadedField(i) = f
<1>1. FieldOrder \in Seq(STRING) /\ Transports = {"tcp", "websocket"}
    BY MetricsAssumption
<1>2. Width \in Nat /\ DOMAIN FieldOrder = 1 .. Width
    BY <1>1, LenProperties DEF Width
<1>3. ASSUME NEW i \in 1 .. 2 * Width
      PROVE  LoadedField(i) \in Fields /\ LoadedTransport(i) \in Transports
  <2>1. (IF i <= Width THEN i ELSE i - Width) \in DOMAIN FieldOrder
    BY <1>2
  <2> QED BY <1>1, <2>1 DEF LoadedField, LoadedTransport, Fields
<1>4. ASSUME NEW t \in Transports, NEW f \in Fields
      PROVE  \E i \in 1 .. 2 * Width : LoadedTransport(i) = t /\ LoadedField(i) = f
  <2>1. PICK k \in 1 .. Width : FieldOrder[k] = f
    BY <1>2 DEF Fields
  <2>2. CASE t = "tcp"
    <3>1. k \in 1 .. 2 * Width /\ k <= Width
      BY <1>2
    <3> QED BY <2>1, <2>2, <3>1 DEF LoadedTransport, LoadedField
  <2>3. CASE t = "websocket"
    <3>1. k + Width \in 1 .. 2 * Width /\ ~ (k + Width <= Width) /\ (k + Width) - Width = k
      BY <1>2
    <3> QED BY <2>1, <2>3, <3>1 DEF LoadedTransport, LoadedField
  <2> QED BY <1>1, <2>2, <2>3
<1> QED BY <1>2, <1>3, <1>4

LEMMA LoadedIs ==
    ASSUME ScrapeInv, Len(loaded) = 2 * Width, NEW t \in Transports, NEW f \in Fields
    PROVE  \E i \in 1 .. Len(loaded) :
              LoadedTransport(i) = t /\ LoadedField(i) = f /\ Loaded(t, f) = loaded[i]
<1>1. DOMAIN loaded = 1 .. Len(loaded)
    BY LenProperties DEF ScrapeInv
<1>2. PICK i \in DOMAIN loaded : LoadedTransport(i) = t /\ LoadedField(i) = f
    BY <1>1, Places
<1>3. PICK j : j = CHOOSE k \in DOMAIN loaded : LoadedTransport(k) = t /\ LoadedField(k) = f
    OBVIOUS
<1>4. j \in DOMAIN loaded /\ LoadedTransport(j) = t /\ LoadedField(j) = f
    BY <1>2, <1>3
<1>5. Loaded(t, f) = loaded[j]
    BY <1>3 DEF Loaded
<1> QED BY <1>1, <1>4, <1>5

\* What a scrape returns is no less than what the one before returned, and no
\* more than the counters hold.
LEMMA Returned ==
    ASSUME TypeInv, ScrapeInv, ScrapeReturns, NEW f \in Fields
    PROVE  /\ last' \in [{"tcp", "websocket", "total"} -> [Fields -> Nat]]
           /\ \A t \in Transports : f \notin Falling =>
                 /\ last[t][f] <= last'[t][f]
                 /\ last'[t][f] <= counterDuration(f, counters[t][f])
           /\ last'["total"][f] = Total(f, last'["tcp"][f], last'["websocket"][f])
<1>1. Transports = {"tcp", "websocket"} /\ Len(loaded) = 2 * Width
    BY MetricsAssumption DEF ScrapeReturns
<1>2. ASSUME NEW t \in Transports, NEW g \in Fields PROVE Loaded(t, g) \in Nat
  <2>1. PICK i \in 1 .. Len(loaded) : Loaded(t, g) = loaded[i]
    BY <1>1, LoadedIs
  <2> QED BY <2>1, ElementOfSeq DEF ScrapeInv
<1>3. ASSUME NEW g \in Fields
      PROVE  /\ combineTransportStats(g) = Total(g, Loaded("tcp", g), Loaded("websocket", g))
             /\ combineTransportStats(g) \in Nat
  <2>1. combineTransportStats(g) = Total(g, Loaded("tcp", g), Loaded("websocket", g))
    BY DEF combineTransportStats, Total
  <2>2. PICK m \in Nat, n \in Nat : m = Loaded("tcp", g) /\ n = Loaded("websocket", g)
    BY <1>1, <1>2
  <2>3. Total(g, m, n) \in Nat
    BY TotalGrows
  <2> QED BY <2>1, <2>2, <2>3
<1>4. last' = [t \in {"tcp", "websocket", "total"} |->
          [g \in Fields |-> IF t = "total" THEN combineTransportStats(g) ELSE Loaded(t, g)]]
    BY DEF ScrapeReturns
<1>5. last' \in [{"tcp", "websocket", "total"} -> [Fields -> Nat]]
    BY <1>1, <1>2, <1>3, <1>4
<1>6. /\ \A t \in Transports : last'[t][f] = Loaded(t, f)
      /\ last'["total"][f] = combineTransportStats(f)
    BY <1>1, <1>4
<1>7. ASSUME NEW t \in Transports, f \notin Falling
      PROVE  /\ last[t][f] <= last'[t][f]
             /\ last'[t][f] <= counterDuration(f, counters[t][f])
  <2>1. PICK i \in 1 .. Len(loaded) :
            LoadedTransport(i) = t /\ LoadedField(i) = f /\ Loaded(t, f) = loaded[i]
    BY <1>1, LoadedIs
  <2>2. last[t][f] <= loaded[i] /\ loaded[i] <= counterDuration(f, counters[t][f])
    BY <1>7, <2>1 DEF ScrapeInv
  <2> QED BY <1>6, <2>1, <2>2
<1>8. last'["total"][f] = Total(f, last'["tcp"][f], last'["websocket"][f])
    BY <1>1, <1>3, <1>6
<1> QED BY <1>5, <1>7, <1>8

LEMMA InitScrape == Init => ScrapeInv
<1> SUFFICES ASSUME Init PROVE ScrapeInv
    OBVIOUS
<1>1. /\ loaded = <<>> /\ Transports = {"tcp", "websocket"} /\ TypeInv
      /\ last = [t \in Transports \cup {"total"} |-> Zero]
    BY MetricsAssumption, InitType DEF Init
<1>2. Transports \cup {"total"} = {"tcp", "websocket", "total"}
    BY <1>1
<1>3. /\ last \in [{"tcp", "websocket", "total"} -> [Fields -> Nat]]
      /\ \A t \in {"tcp", "websocket", "total"}, f \in Fields : last[t][f] = 0
    BY <1>1, <1>2 DEF Zero
<1>4. loaded \in Seq(Nat) /\ Len(loaded) = 0 /\ Len(loaded) <= 2 * Width
    BY <1>1, EmptySeq, Places
<1>5. ASSUME NEW t \in Transports, NEW f \in Fields
      PROVE  last[t][f] <= counterDuration(f, counters[t][f])
  <2>1. PICK n \in Nat : n = counters[t][f]
    BY <1>1 DEF TypeInv
  <2>2. counterDuration(f, n) \in Nat
    BY DurationGrows
  <2> QED BY <1>1, <1>3, <2>1, <2>2
<1>6. ASSUME NEW f \in Fields
      PROVE  last["total"][f] = Total(f, last["tcp"][f], last["websocket"][f])
  <2>1. Total(f, 0, 0) = 0
    BY Constants DEF Total, MaxOf, saturatedSum
  <2> QED BY <1>3, <2>1
<1> QED BY <1>3, <1>4, <1>5, <1>6 DEF ScrapeInv

LEMMA NextScrape == TypeInv /\ LoopInv /\ ScrapeInv /\ [Next]_vars => ScrapeInv'
<1> SUFFICES ASSUME TypeInv, LoopInv, ScrapeInv, [Next]_vars PROVE ScrapeInv'
    OBVIOUS
<1>1. /\ Transports = {"tcp", "websocket"} /\ Width \in Nat
      /\ \A i \in 1 .. 2 * Width : LoadedField(i) \in Fields /\ LoadedTransport(i) \in Transports
    BY MetricsAssumption, Places
<1>2. /\ loaded \in Seq(Nat) /\ Len(loaded) \in Nat /\ Len(loaded) <= 2 * Width
      /\ last \in [{"tcp", "websocket", "total"} -> [Fields -> Nat]]
      /\ \A i \in 1 .. Len(loaded) : loaded[i] \in Nat
    BY LenProperties DEF ScrapeInv
<1>3. ASSUME NEW t \in Transports, NEW f \in Fields, f \notin Falling
      PROVE  /\ counterDuration(f, counters[t][f]) \in Nat
             /\ counterDuration(f, counters'[t][f]) \in Nat
             /\ counterDuration(f, counters[t][f]) <= counterDuration(f, counters'[t][f])
  <2>1. PICK m \in Nat, n \in Nat : m = counters[t][f] /\ n = counters'[t][f] /\ m <= n
    BY <1>3, Growing
  <2>2. counterDuration(f, m) \in Nat /\ counterDuration(f, m) <= counterDuration(f, n)
    BY <2>1, DurationGrows
  <2>3. counterDuration(f, n) \in Nat
    BY DurationGrows
  <2> QED BY <2>1, <2>2, <2>3
<1>4. CASE UNCHANGED <<loaded, last>>
  <2>1. ASSUME NEW t \in Transports, NEW f \in Fields, f \notin Falling
        PROVE  last'[t][f] <= counterDuration(f, counters'[t][f])
    <3>1. last[t][f] \in Nat /\ last[t][f] <= counterDuration(f, counters[t][f])
      BY <1>1, <1>2, <2>1 DEF ScrapeInv
    <3> QED BY <1>3, <1>4, <2>1, <3>1
  <2>2. ASSUME NEW i \in 1 .. Len(loaded'), LoadedField(i) \notin Falling
        PROVE  /\ last'[LoadedTransport(i)][LoadedField(i)] <= loaded'[i]
               /\ loaded'[i] <= counterDuration(LoadedField(i),
                                    counters'[LoadedTransport(i)][LoadedField(i)])
    <3>1. PICK t \in Transports, f \in Fields : t = LoadedTransport(i) /\ f = LoadedField(i)
      BY <1>1, <1>2, <1>4
    <3>2. /\ last[t][f] <= loaded[i] /\ loaded[i] \in Nat
          /\ loaded[i] <= counterDuration(f, counters[t][f])
      BY <1>2, <1>4, <2>2, <3>1 DEF ScrapeInv
    <3>3. loaded[i] <= counterDuration(f, counters'[t][f])
      BY <1>3, <2>2, <3>1, <3>2
    <3> QED BY <1>4, <3>1, <3>2, <3>3
  <2>3. \A f \in Fields : f \notin Falling =>
            last'["total"][f] = Total(f, last'["tcp"][f], last'["websocket"][f])
    BY <1>4 DEF ScrapeInv
  <2> QED BY <1>2, <1>4, <2>1, <2>2, <2>3 DEF ScrapeInv
<1>5. CASE ScrapeLoad
  <2>1. PICK k, t, f : k = Len(loaded) + 1 /\ t = LoadedTransport(k) /\ f = LoadedField(k)
    OBVIOUS
  <2>2. k \in 1 .. 2 * Width /\ t \in Transports /\ f \in Fields
    BY <1>1, <1>2, <1>5, <2>1 DEF ScrapeLoad
  <2>3. PICK v : v = counterDuration(f, counters[t][f])
    OBVIOUS
  <2>4. loaded' = Append(loaded, v) /\ counters' = counters /\ last' = last
    BY <1>5, <2>1, <2>3 DEF ScrapeLoad
  <2>5. v \in Nat
    <3>1. PICK n \in Nat : n = counters[t][f]
      BY <2>2 DEF TypeInv
    <3> QED BY <2>3, <3>1, DurationGrows
  <2>6. /\ loaded' \in Seq(Nat) /\ Len(loaded') = k
        /\ \A i \in 1 .. Len(loaded) : loaded'[i] = loaded[i]
        /\ loaded'[k] = v
    BY <1>2, <2>1, <2>4, <2>5, AppendProperties
  <2>7. ASSUME NEW i \in 1 .. Len(loaded'), LoadedField(i) \notin Falling
        PROVE  /\ last'[LoadedTransport(i)][LoadedField(i)] <= loaded'[i]
               /\ loaded'[i] <= counterDuration(LoadedField(i),
                                    counters'[LoadedTransport(i)][LoadedField(i)])
    <3>1. CASE i = k
      <4>1. last[t][f] <= counterDuration(f, counters[t][f])
        BY <2>1, <2>2, <2>7, <3>1 DEF ScrapeInv
      <4> QED BY <2>1, <2>3, <2>4, <2>5, <2>6, <3>1, <4>1
    <3>2. CASE i # k
      <4>1. i \in 1 .. Len(loaded)
        BY <1>2, <2>1, <2>6, <3>2
      <4>2. loaded'[i] = loaded[i]
        BY <2>6, <4>1
      <4> QED BY <2>4, <2>7, <4>1, <4>2 DEF ScrapeInv
    <3> QED BY <3>1, <3>2
  <2>8. /\ \A x \in Transports, g \in Fields : g \notin Falling =>
              last'[x][g] <= counterDuration(g, counters'[x][g])
        /\ \A g \in Fields : g \notin Falling =>
              last'["total"][g] = Total(g, last'["tcp"][g], last'["websocket"][g])
    BY <2>4 DEF ScrapeInv
  <2>9. Len(loaded') <= 2 * Width
    BY <1>1, <2>2, <2>6
  <2> QED BY <1>2, <2>4, <2>6, <2>7, <2>8, <2>9 DEF ScrapeInv
<1>6. CASE ScrapeReturns
  <2>1. loaded' = <<>> /\ counters' = counters /\ loaded' \in Seq(Nat) /\ Len(loaded') = 0
    BY <1>6, EmptySeq DEF ScrapeReturns
  <2>2. last' \in [{"tcp", "websocket", "total"} -> [Fields -> Nat]]
    <3>1. PICK f \in Fields : TRUE
      BY <1>1, Places, MetricsAssumption, EmptySeq, LenProperties DEF Fields
    <3> QED BY <1>6, <3>1, Returned
  <2>3. \A t \in Transports, f \in Fields : f \notin Falling =>
            last'[t][f] <= counterDuration(f, counters'[t][f])
    BY <1>6, <2>1, Returned
  <2>4. \A f \in Fields : f \notin Falling =>
            last'["total"][f] = Total(f, last'["tcp"][f], last'["websocket"][f])
    BY <1>6, Returned
  <2>5. Len(loaded') <= 2 * Width
    BY <1>1, <2>1
  <2> QED BY <2>1, <2>2, <2>3, <2>4, <2>5 DEF ScrapeInv
<1>7. ASSUME ~ ScrapeLoad, ~ ScrapeReturns PROVE UNCHANGED <<loaded, last>>
    BY <1>7 DEF Next, Begin, Load, CompareAndSwap, scrapeVars, vars
<1> QED BY <1>4, <1>5, <1>6, <1>7
-----------------------------------------------------------------------------
(* The theorems.                                                           *)

LEMMA NextInv == IInv /\ [Next]_vars => IInv'
    BY NextType, NextLoop, NextFinite, NextGauge, NextSum, NextMaximum, NextScrape DEF IInv

\* The invariant holds whatever the callers and the scraper do: the loops of Load
\* and CompareAndSwap keep the account of what is left to do.
THEOREM Inductive == Spec => []IInv
<1>1. Init => IInv
    BY InitType, InitCounts, InitScrape DEF IInv
<1> QED BY <1>1, NextInv, PTL DEF Spec

\* With no call in progress every counter is what the calls add up to, cut off at
\* its limit, for any number of callers and calls (stats.go, saturatingAdd,
\* decrementGauge and updateMaximum).
THEOREM NoUpdateIsLost == Spec => []CountersExact
<1>1. IInv => CountersExact
  <2> SUFFICES ASSUME IInv, \A c \in Callers : todo[c] = <<>>,
                      NEW t \in Transports, NEW f \in Fields
               PROVE  counters[t][f] = Cut(f, due[t][f])
    BY DEF CountersExact, Cut
  <2>1. counters[t][f] \in Nat /\ counters[t][f] <= Limit(f) /\ Limit(f) \in Nat
    BY Constants DEF IInv, TypeInv
  <2>2. Ups(t, f) = {} /\ Downs(t, f) = {}
    BY Nothing DEF Ups, Downs
  <2>3. Cardinality(Ups(t, f)) = 0 /\ Cardinality(Downs(t, f)) = 0
    BY <2>2, FS_EmptySet
  <2>4. CASE f \in Gauges
    <3>1. GaugeIs(t, f)
      BY <2>4 DEF IInv, GaugeInv
    <3> QED BY <2>1, <2>3, <3>1 DEF GaugeIs, Cut
  <2>5. CASE f = "maximumRequestDuration"
    <3>1. MaximumIs(t, f)
      BY <2>5 DEF IInv, MaximumInv
    <3>2. \A c \in Callers : Candidates(todo[c], f) = {}
      BY Nothing
    <3> QED BY <2>1, <3>1, <3>2 DEF MaximumIs, Cut
  <2>6. CASE f \notin Gauges /\ f # "maximumRequestDuration"
    <3>1. SumIs(t, f)
      BY <2>6 DEF IInv, SumInv
    <3> QED BY <2>1, <2>3, <3>1 DEF SumIs, Cut
  <2> QED BY <2>4, <2>5, <2>6
<1> QED BY <1>1, Inductive, PTL

\* Nothing that is exported as a counter goes down from one scrape to the next,
\* though the counters are loaded one by one while they change and the totals
\* saturate (stats.go, snapshot and combineTransportStats).
THEOREM ExportsOnlyGrow == Spec => ExportedCountersMonotone
<1> DEFINE Grows == \A t \in DOMAIN last, f \in {g \in Fields : NeverFalls(g)} :
                        last'[t][f] >= last[t][f]
<1>1. IInv /\ [Next]_vars => [Grows]_vars
  <2> SUFFICES ASSUME IInv, [Next]_vars, NEW t \in DOMAIN last, NEW f \in Fields, NeverFalls(f)
               PROVE  last'[t][f] >= last[t][f]
    OBVIOUS
  <2>1. /\ TypeInv /\ ScrapeInv /\ Transports = {"tcp", "websocket"} /\ f \notin Falling
        /\ last \in [{"tcp", "websocket", "total"} -> [Fields -> Nat]]
    BY MetricsAssumption DEF IInv, ScrapeInv, NeverFalls, prometheusType, Falling
  <2>2. CASE ScrapeReturns
    <3>1. /\ last' \in [{"tcp", "websocket", "total"} -> [Fields -> Nat]]
          /\ \A x \in Transports : last[x][f] <= last'[x][f]
          /\ last'["total"][f] = Total(f, last'["tcp"][f], last'["websocket"][f])
      BY <2>1, <2>2, Returned
    <3>2. CASE t \in Transports
      BY <2>1, <3>1, <3>2
    <3>3. CASE t = "total"
      <4>1. PICK a \in Nat, b \in Nat, m \in Nat, n \in Nat :
                /\ a = last["tcp"][f] /\ b = last["websocket"][f]
                /\ m = last'["tcp"][f] /\ n = last'["websocket"][f]
        BY <2>1, <3>1
      <4>2. a <= m /\ b <= n
        BY <2>1, <3>1, <4>1
      <4>3. Total(f, a, b) <= Total(f, m, n)
        BY <4>2, TotalGrows
      <4>4. last["total"][f] = Total(f, a, b)
        BY <2>1, <4>1 DEF ScrapeInv
      <4>5. last["total"][f] \in Nat /\ last'["total"][f] \in Nat
        BY <2>1, <3>1
      <4> QED BY <3>1, <3>3, <4>1, <4>3, <4>4, <4>5
    <3> QED BY <2>1, <3>2, <3>3
  <2>3. CASE ~ ScrapeReturns
    <3>1. last' = last
      BY <2>3 DEF Next, Begin, Load, CompareAndSwap, ScrapeLoad, scrapeVars, vars
    <3>2. last[t][f] \in Nat
      BY <2>1
    <3> QED BY <3>1, <3>2
  <2> QED BY <2>2, <2>3
<1> QED BY <1>1, Inductive, PTL DEF Spec, ExportedCountersMonotone
=============================================================================
