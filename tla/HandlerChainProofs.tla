------------------------- MODULE HandlerChainProofs -------------------------
(***************************************************************************)
(* Proofs about HandlerChain and Router, for every set of events and       *)
(* handlers, every number of groups, routes, handlers and calls of Next.   *)
(***************************************************************************)
EXTENDS HandlerChain, SequenceTheorems, TLAPS

(* The inductive invariant.  Slices first: what a slice refers to exists   *)
(* and holds handlers, and no two slices refer to one array, so that an    *)
(* append into spare capacity is seen by nobody else.                      *)
Slices == [array : Nat, len : Nat]
Heaps == Seq(Seq(Handlers \cup {"nil"}))

Fits(heap, s) ==
    /\ s \in Slices
    /\ s.array = 0 => s.len = 0
    /\ s.array # 0 => /\ s.array \in 1 .. Len(heap)
                      /\ s.len \in 1 .. Len(heap[s.array])
                      /\ \A i \in 1 .. s.len : heap[s.array][i] \in Handlers

Apart(s, t) == s.array # 0 => s.array # t.array

SliceInv ==
    /\ arrays \in Heaps
    /\ groups \in Seq(Slices) /\ routes \in [Events -> Slices]
    /\ \A g \in DOMAIN groups : Fits(arrays, groups[g])
    /\ \A e \in Events : Fits(arrays, routes[e])
    /\ \A g, k \in DOMAIN groups : g # k => Apart(groups[g], groups[k])
    /\ \A e, f \in Events : e # f => Apart(routes[e], routes[f])
    /\ \A g \in DOMAIN groups, e \in Events : Apart(groups[g], routes[e])
    /\ \A e \in DOMAIN runtimeRoutes : runtimeRoutes[e] \in Seq(Handlers)

(* The call stack of one request: loops of Next and handlers in turn.      *)
Calls == [kind : {"Next", "handler"}, index : Nat, calls : Nat]

ChainType ==
    /\ outcome \in {"none", "queued", "running", "completed", "crashed"}
    /\ handlers \in Seq(Handlers \cup {"notFound"})
    /\ step \in Int /\ stack \in Seq(Calls) /\ ran \in Seq(Nat)
    /\ panicking \in BOOLEAN

Alternates ==
    /\ stack # <<>> => stack[1].kind = "Next"
    /\ \A k \in 1 .. Len(stack) - 1 : stack[k].kind # stack[k + 1].kind
StackInv ==
    /\ outcome = "running" <=> stack # <<>>
    /\ Alternates
    /\ outcome \in {"none", "queued"} => step = -1 /\ ran = <<>> /\ ~ panicking
    /\ outcome = "crashed" => panicking

(* The loop on top is about to call the handler of its step; otherwise     *)
(* that one is already among the handlers that ran.                        *)
InLoop == ~ panicking /\ Top.kind = "Next"
RanInv ==
    /\ \A i \in 1 .. Len(ran) : ran[i] = i - 1
    /\ Len(ran) <= Len(handlers)
    /\ outcome = "running" =>
          /\ step >= 0
          /\ step >= Len(handlers) => Len(ran) = Len(handlers)
          /\ step < Len(handlers) => Len(ran) = IF InLoop THEN step ELSE step + 1
    /\ outcome = "completed" => Len(ran) = Len(handlers)

(* The active handlers, the outermost first, have increasing indices, and  *)
(* one whose call of Next has returned is left with nothing to run.        *)
Active == {stack[k].index : k \in {k \in 1 .. Len(stack) : stack[k].kind = "handler"}}
Nested == \A k \in 1 .. Len(stack) : stack[k].kind = "handler" =>
    /\ stack[k].index < Len(ran)
    /\ \A m \in 1 .. k - 1 : stack[m].kind = "handler" => stack[m].index < stack[k].index
Exhausted == InHandler /\ Top.calls > 0 => step >= Len(handlers)
DepthInv == Nested /\ Exhausted

(* Every Recovery in front of an active handler is active or has recovered. *)
Guarded(j) == \A i \in 0 .. j - 1 : At(i) = "recovery" => i \in recovered \cup Active
ShieldInv ==
    /\ outcome = "running" /\ step < Len(handlers) => Guarded(Len(ran))
    /\ \A j \in Active : Guarded(j)
    /\ panicking => panicked \in Nat /\ Guarded(panicked)

IInv == SliceInv /\ ChainType /\ StackInv /\ RanInv /\ DepthInv /\ ShieldInv

-----------------------------------------------------------------------------
USE DEF vars, chainVars

(* What the operations on the stack do to it. *)
Pushed(c) ==
    /\ Len(stack') = Len(stack) + 1
    /\ \A k \in 1 .. Len(stack) : /\ stack'[k].kind = stack[k].kind
                                  /\ stack'[k].index = stack[k].index
    /\ stack'[Len(stack) + 1] = c

PoppedOff ==
    /\ Len(stack') = Len(stack) - 1
    /\ \A k \in 1 .. Len(stack') : stack'[k] = stack[k]

LEMMA Prefix ==
  ASSUME NEW S, NEW s \in Seq(S), NEW n \in 0 .. Len(s)
  PROVE  /\ SubSeq(s, 1, n) \in Seq(S) /\ Len(SubSeq(s, 1, n)) = n
         /\ \A i \in 1 .. n : SubSeq(s, 1, n)[i] = s[i]
<1>1. 1 \in Int /\ n \in Int /\ Len(s) \in Nat /\ \A i \in 1 .. n : s[i] \in S
  BY LenProperties, ElementOfSeq
<1>2. /\ SubSeq(s, 1, n) \in Seq(S)
      /\ Len(SubSeq(s, 1, n)) = IF 1 <= n THEN n - 1 + 1 ELSE 0
      /\ \A i \in 1 .. n - 1 + 1 : SubSeq(s, 1, n)[i] = s[1 + i - 1]
  BY <1>1, SubSeqProperties
<1> QED
  BY <1>1, <1>2

LEMMA StackTop ==
  ASSUME ChainType, StackInv, outcome = "running"
  PROVE  /\ Len(stack) \in Nat \ {0}
         /\ Top = stack[Len(stack)] /\ Top \in Calls
         /\ Len(stack) = 1 => Top.kind = "Next"
  BY EmptySeq, LenProperties DEF ChainType, StackInv, Alternates, Top

LEMMA Popping ==
  ASSUME ChainType, StackInv, outcome = "running", stack' = Popped
  PROVE  /\ stack' \in Seq(Calls) /\ PoppedOff
         /\ Popped = <<>> <=> Len(stack) = 1
         /\ Len(stack) > 1 => stack'[Len(stack')] = stack[Len(stack) - 1]
                              /\ stack'[1] = stack[1]
<1>1. Len(stack) \in Nat \ {0} /\ stack \in Seq(Calls)
  BY StackTop DEF ChainType
<1>2. /\ stack' \in Seq(Calls) /\ Len(stack') = Len(stack) - 1
      /\ \A k \in 1 .. Len(stack') : stack'[k] = stack[k]
  <2>1. Len(stack) - 1 \in 0 .. Len(stack)
    BY <1>1
  <2>2. /\ Popped \in Seq(Calls) /\ Len(Popped) = Len(stack) - 1
        /\ \A k \in 1 .. Len(stack) - 1 : Popped[k] = stack[k]
    BY <1>1, <2>1, Prefix DEF Popped
  <2> QED
    BY <2>2
<1>3. Popped = <<>> <=> Len(stack) = 1
  BY <1>1, <1>2, EmptySeq
<1> QED
  BY <1>1, <1>2, <1>3 DEF PoppedOff

LEMMA Pushing ==
  ASSUME ChainType, NEW c \in Calls, stack' = Append(stack, c)
  PROVE  stack' \in Seq(Calls) /\ Pushed(c)
  BY AppendProperties DEF ChainType, Pushed

LEMMA CallingNext ==
  ASSUME ChainType, StackInv, HandlerCallsNext
  PROVE  stack' \in Seq(Calls) /\ Pushed(NextCall)
<1> DEFINE s == [stack EXCEPT ![Len(stack)].calls = @ + 1]
<1>1. outcome = "running" /\ stack \in Seq(Calls)
  BY DEF HandlerCallsNext, InHandler, ChainType
<1>2. Len(stack) \in 1 .. Len(stack) /\ Top \in Calls /\ Top = stack[Len(stack)]
  BY <1>1, StackTop
<1>3. [Top EXCEPT !.calls = @ + 1] \in Calls
  BY <1>2 DEF Calls
<1>4. s = [stack EXCEPT ![Len(stack)] = [Top EXCEPT !.calls = @ + 1]]
  BY <1>2
<1>5. /\ s \in Seq(Calls) /\ Len(s) = Len(stack)
      /\ \A k \in 1 .. Len(stack) :
            s[k] = IF k = Len(stack) THEN [Top EXCEPT !.calls = @ + 1] ELSE stack[k]
  BY <1>1, <1>2, <1>3, <1>4, ExceptSeq
<1>6. \A k \in 1 .. Len(stack) : s[k].kind = stack[k].kind /\ s[k].index = stack[k].index
  BY <1>2, <1>5 DEF Calls
<1>7. stack' = Append(s, NextCall) /\ NextCall \in Calls
  BY DEF HandlerCallsNext, NextCall, Calls
<1> HIDE DEF s
<1>8. /\ Append(s, NextCall) \in Seq(Calls) /\ Len(Append(s, NextCall)) = Len(s) + 1
      /\ \A k \in 1 .. Len(s) : Append(s, NextCall)[k] = s[k]
      /\ Append(s, NextCall)[Len(s) + 1] = NextCall
  BY <1>5, <1>7, AppendProperties
<1> QED
  BY <1>5, <1>6, <1>7, <1>8 DEF Pushed

LEMMA Beginning ==
  ASSUME ChainType, StackInv, WorkerCallsNext
  PROVE  stack' \in Seq(Calls) /\ Len(stack') = 1 /\ stack'[1] = NextCall
         /\ stack' # <<>>
  BY DEF WorkerCallsNext, NextCall, Calls

LEMMA LoopPushes ==
  ASSUME ChainType, StackInv, RanInv, LoopCalls
  PROVE  /\ stack' \in Seq(Calls)
         /\ Pushed([kind |-> "handler", index |-> step, calls |-> 0])
<1>1. step \in Nat
  BY DEF ChainType, RanInv, LoopCalls
<1> QED
  BY <1>1, Pushing DEF LoopCalls, Calls

LEMMA PopAlternates ==
  ASSUME ChainType, StackInv, outcome = "running", stack' = Popped
  PROVE  Alternates' /\ (stack' = <<>> <=> Len(stack) = 1)
<1>1. /\ Len(stack) \in Nat \ {0} /\ stack' \in Seq(Calls)
      /\ Len(stack') = Len(stack) - 1
      /\ \A k \in 1 .. Len(stack') : stack'[k] = stack[k]
      /\ stack' = <<>> <=> Len(stack) = 1
  BY StackTop, Popping DEF PoppedOff
<1>2. stack' # <<>> => stack'[1].kind = "Next"
  BY <1>1 DEF StackInv, Alternates
<1>3. ASSUME NEW k \in 1 .. Len(stack') - 1
      PROVE  stack'[k].kind # stack'[k + 1].kind
  <2>1. k \in 1 .. Len(stack') /\ k + 1 \in 1 .. Len(stack') /\ k \in 1 .. Len(stack) - 1
    BY <1>1, <1>3
  <2> QED
    BY <1>1, <2>1 DEF StackInv, Alternates
<1> QED
  BY <1>1, <1>2, <1>3 DEF Alternates

LEMMA PushAlternates ==
  ASSUME ChainType, StackInv, outcome = "running", NEW c, Pushed(c),
         c.kind # Top.kind, stack' \in Seq(Calls)
  PROVE  Alternates' /\ stack' # <<>>
<1>1. /\ Len(stack) \in Nat \ {0} /\ Top = stack[Len(stack)]
      /\ Len(stack') = Len(stack) + 1
  BY StackTop DEF Pushed
<1>2. stack' # <<>> /\ stack'[1].kind = "Next"
  BY <1>1, EmptySeq DEF StackInv, Alternates, Pushed
<1>3. ASSUME NEW k \in 1 .. Len(stack') - 1
      PROVE  stack'[k].kind # stack'[k + 1].kind
  <2>1. CASE k = Len(stack)
    BY <1>1, <2>1 DEF Pushed
  <2>2. CASE k # Len(stack)
    <3>1. k \in 1 .. Len(stack) /\ k + 1 \in 1 .. Len(stack) /\ k \in 1 .. Len(stack) - 1
      BY <1>1, <1>3, <2>2
    <3> QED
      BY <3>1 DEF StackInv, Alternates, Pushed
  <2> QED
    BY <2>1, <2>2
<1> QED
  BY <1>2, <1>3 DEF Alternates

(* The request keeps its type. *)
LEMMA NextChainType ==
  SliceInv /\ StackInv /\ RanInv /\ ChainType /\ [Next]_vars => ChainType'
<1> SUFFICES ASSUME SliceInv, StackInv, RanInv, ChainType, [Next]_vars
             PROVE  ChainType'
  OBVIOUS
<1> USE DEF ReturnToLoop, InHandler, Unwinding
<1>1. CASE UNCHANGED vars
  BY <1>1 DEF SliceInv, StackInv, RanInv, ChainType
<1>2. CASE outcome = "none" /\ RouterNext /\ UNCHANGED chainVars
  BY <1>2 DEF SliceInv, StackInv, RanInv, ChainType
<1>3. ASSUME NEW e \in Events, HandleRequest(e) PROVE ChainType'
  <2>1. handlers' \in Seq(Handlers \cup {"notFound"})
    <3>1. CASE e \in DOMAIN runtimeRoutes
      <4>1. handlers' = runtimeRoutes[e] /\ runtimeRoutes[e] \in Seq(Handlers)
        BY <1>3, <3>1 DEF HandleRequest, SliceInv
      <4> QED
        BY <4>1, SeqMonotonic
    <3>2. CASE e \notin DOMAIN runtimeRoutes
      BY <1>3, <3>2 DEF HandleRequest
    <3> QED
      BY <3>1, <3>2
  <2> QED
    BY <1>3, <2>1 DEF HandleRequest, ChainType
<1>4. CASE WorkerCallsNext
  BY <1>4, Beginning DEF WorkerCallsNext, SliceInv, StackInv, RanInv, ChainType
<1>5. CASE LoopCalls
  BY <1>5, StackTop, LoopPushes DEF LoopCalls, SliceInv, StackInv, RanInv,
      ChainType
<1>6. CASE LoopEnds
  BY <1>6, StackTop, Popping DEF LoopEnds, SliceInv, StackInv, RanInv,
      ChainType
<1>7. CASE HandlerCallsNext
  BY <1>7, StackTop, CallingNext DEF HandlerCallsNext, SliceInv, StackInv,
      RanInv, ChainType
<1>8. CASE HandlerReturns
  BY <1>8, StackTop, Popping DEF HandlerReturns, SliceInv, StackInv, RanInv,
      ChainType
<1>9. CASE HandlerPanics
  BY <1>9, StackTop DEF HandlerPanics, SliceInv, StackInv, RanInv, ChainType
<1>10. CASE Recover
  <2>1. outcome = "running" /\ stack' = Popped /\ panicking' = FALSE
    BY <1>10 DEF Recover
  <2>2. stack' \in Seq(Calls)
    BY <2>1, Popping
  <2>3. panicking' \in BOOLEAN
    BY <2>1
  <2> QED
    BY <1>10, <2>2, <2>3 DEF Recover, ChainType
<1>11. CASE Unwind
  BY <1>11, StackTop, Popping DEF Unwind, SliceInv, StackInv, RanInv, ChainType
<1> QED
  BY <1>1, <1>2, <1>3, <1>4, <1>5, <1>6, <1>7, <1>8, <1>9, <1>10, <1>11 DEF
      Next

(* Loops and handlers alternate on the stack. *)
LEMMA NextStackInv ==
  ChainType /\ RanInv /\ StackInv /\ [Next]_vars => StackInv'
<1> SUFFICES ASSUME ChainType, RanInv, StackInv, [Next]_vars PROVE StackInv'
  OBVIOUS
<1> USE DEF ReturnToLoop, InHandler, Unwinding, NextCall, Calls
<1>1. CASE UNCHANGED vars
  <2>1. Alternates'
    BY <1>1 DEF StackInv, Alternates
  <2> QED
    BY <1>1, <2>1 DEF StackInv
<1>2. CASE outcome = "none" /\ RouterNext /\ UNCHANGED chainVars
  <2>1. Alternates'
    BY <1>2 DEF StackInv, Alternates
  <2> QED
    BY <1>2, <2>1 DEF StackInv
<1>3. ASSUME NEW e \in Events, HandleRequest(e) PROVE StackInv'
  <2>1. Alternates'
    BY <1>3 DEF HandleRequest, StackInv, Alternates
  <2> QED
    BY <1>3, <2>1 DEF HandleRequest, StackInv
<1>4. CASE WorkerCallsNext
  <2>1. Alternates' /\ stack' # <<>> /\ outcome' = "running"
    BY <1>4, Beginning DEF Alternates, WorkerCallsNext
  <2> QED
    BY <2>1 DEF StackInv
<1>5. CASE LoopCalls
  BY <1>5, StackTop, LoopPushes, PushAlternates DEF LoopCalls, ChainType,
      RanInv, StackInv
<1>6. CASE LoopEnds
  BY <1>6, StackTop, PopAlternates DEF LoopEnds, ChainType, RanInv, StackInv
<1>7. CASE HandlerCallsNext
  BY <1>7, StackTop, CallingNext, PushAlternates DEF HandlerCallsNext,
      ChainType, RanInv, StackInv
<1>8. CASE HandlerReturns
  BY <1>8, StackTop, PopAlternates DEF HandlerReturns, ChainType, RanInv,
      StackInv
<1>9. CASE HandlerPanics
  <2>1. Alternates'
    BY <1>9 DEF HandlerPanics, StackInv, Alternates
  <2>2. outcome = "running" /\ outcome' = outcome /\ stack' = stack
    BY <1>9 DEF HandlerPanics
  <2> QED
    BY <2>1, <2>2 DEF StackInv
<1>10. CASE Recover
  <2>1. outcome = "running" /\ stack' = Popped /\ outcome' = outcome /\ Top.kind = "handler"
    BY <1>10 DEF Recover, Recovers
  <2>2. Alternates' /\ stack' # <<>>
    BY <2>1, StackTop, PopAlternates
  <2> QED
    BY <2>1, <2>2 DEF StackInv
<1>11. CASE Unwind
  BY <1>11, StackTop, PopAlternates DEF Unwind, ChainType, RanInv, StackInv
<1> QED
  BY <1>1, <1>2, <1>3, <1>4, <1>5, <1>6, <1>7, <1>8, <1>9, <1>10, <1>11 DEF
      Next

LEMMA ReturnsToLoop ==
  ASSUME ChainType, StackInv, outcome = "running", stack' = Popped, Top.kind = "handler"
  PROVE  Top'.kind = "Next" /\ Len(stack) > 1 /\ stack' # <<>>
<1>1. Len(stack) \in Nat \ {0} /\ Top = stack[Len(stack)] /\ Len(stack) # 1
  BY StackTop
<1>2. /\ Len(stack') = Len(stack) - 1 /\ stack' # <<>>
      /\ stack'[Len(stack')] = stack[Len(stack) - 1]
  BY <1>1, Popping DEF PoppedOff
<1>3. stack[Len(stack) - 1].kind # "handler" /\ stack[Len(stack) - 1] \in Calls
  BY <1>1 DEF StackInv, Alternates, ChainType
<1> QED
  BY <1>1, <1>2, <1>3 DEF Top, Calls

(* The step and the handlers that ran keep together. *)
LEMMA NextRanInv == ChainType /\ StackInv /\ RanInv /\ [Next]_vars => RanInv'
<1> SUFFICES ASSUME ChainType, StackInv, RanInv, [Next]_vars PROVE RanInv'
  OBVIOUS
<1> USE DEF ReturnToLoop, InHandler, Unwinding, NextCall, Calls, InLoop, Top
<1>1. CASE UNCHANGED vars
  BY <1>1 DEF ChainType, StackInv, RanInv
<1>2. CASE outcome = "none" /\ RouterNext /\ UNCHANGED chainVars
  BY <1>2 DEF ChainType, StackInv, RanInv
<1>3. ASSUME NEW e \in Events, HandleRequest(e) PROVE RanInv'
  BY <1>3 DEF HandleRequest, ChainType, StackInv, RanInv
<1>4. CASE WorkerCallsNext
  BY <1>4, Beginning DEF WorkerCallsNext, ChainType, StackInv, RanInv
<1>5. CASE LoopCalls
  BY <1>5, StackTop, LoopPushes, SMTT(60) DEF LoopCalls, ChainType, StackInv, RanInv
<1>6. CASE LoopEnds
  BY <1>6, StackTop, Popping DEF LoopEnds, ChainType, StackInv, RanInv
<1>7. CASE HandlerCallsNext
  BY <1>7, StackTop, CallingNext DEF HandlerCallsNext, ChainType, StackInv,
      RanInv
<1>8. CASE HandlerReturns
  <2>1. /\ outcome = "running" /\ stack' = Popped /\ Top.kind = "handler"
        /\ step' = step + 1 /\ outcome' = outcome /\ UNCHANGED <<handlers, ran>>
        /\ ~ panicking'
    BY <1>8 DEF HandlerReturns
  <2>2. InLoop'
    BY <2>1, ReturnsToLoop DEF InLoop
  <2>3. ~ InLoop
    BY <2>1 DEF InLoop
  <2>4. Len(ran) \in Nat /\ Len(handlers) \in Nat /\ step \in Int
    BY LenProperties DEF ChainType
  <2> HIDE DEF InLoop
  <2> QED
    BY <2>1, <2>2, <2>3, <2>4 DEF RanInv
<1>9. CASE HandlerPanics
  BY <1>9, StackTop DEF HandlerPanics, ChainType, StackInv, RanInv
<1>10. CASE Recover
  <2>1. /\ outcome = "running" /\ stack' = Popped /\ Top.kind = "handler"
        /\ step' = step + 1 /\ outcome' = outcome /\ UNCHANGED <<handlers, ran>>
        /\ ~ panicking'
    BY <1>10 DEF Recover, Recovers
  <2>2. InLoop'
    BY <2>1, ReturnsToLoop DEF InLoop
  <2>3. ~ InLoop
    BY <2>1 DEF InLoop
  <2>4. Len(ran) \in Nat /\ Len(handlers) \in Nat /\ step \in Int
    BY LenProperties DEF ChainType
  <2> HIDE DEF InLoop
  <2> QED
    BY <2>1, <2>2, <2>3, <2>4 DEF RanInv
<1>11. CASE Unwind
  BY <1>11, StackTop, Popping DEF Unwind, ChainType, StackInv, RanInv
<1> QED
  BY <1>1, <1>2, <1>3, <1>4, <1>5, <1>6, <1>7, <1>8, <1>9, <1>10, <1>11 DEF
      Next

LEMMA PopNested ==
  ASSUME ChainType, StackInv, Nested, outcome = "running", stack' = Popped, ran' = ran
  PROVE  Nested'
<1>1. /\ Len(stack) \in Nat \ {0} /\ Len(stack') = Len(stack) - 1
      /\ \A k \in 1 .. Len(stack') : stack'[k] = stack[k]
  BY StackTop, Popping DEF PoppedOff
<1>2. \A k \in 1 .. Len(stack') : k \in 1 .. Len(stack) /\ \A m \in 1 .. k - 1 : m \in 1 .. Len(stack')
  BY <1>1
<1> QED
  BY <1>1, <1>2 DEF Nested

LEMMA PushNested ==
  ASSUME ChainType, Nested, NEW c \in Calls, Pushed(c), Len(ran') >= Len(ran),
         ran' \in Seq(Nat),
         c.kind = "handler" => c.index >= Len(ran) /\ c.index < Len(ran')
  PROVE  Nested'
<1>1. Len(stack) \in Nat /\ Len(ran) \in Nat /\ Len(ran') \in Nat /\ c.index \in Nat
  BY LenProperties DEF ChainType, Calls
<1>2. \A k \in 1 .. Len(stack) : stack[k].index \in Nat
  <2>1. \A k \in 1 .. Len(stack) : stack[k] \in Calls
    BY DEF ChainType
  <2> QED
    BY <2>1 DEF Calls
<1> SUFFICES ASSUME NEW k \in 1 .. Len(stack) + 1, stack'[k].kind = "handler"
             PROVE  /\ stack'[k].index < Len(ran')
                    /\ \A m \in 1 .. k - 1 : stack'[m].kind = "handler" =>
                          stack'[m].index < stack'[k].index
  BY DEF Nested, Pushed
<1>3. ASSUME NEW m \in 1 .. k - 1, stack'[m].kind = "handler"
      PROVE  stack'[m].index < stack'[k].index
  <2>1. m \in 1 .. Len(stack) /\ stack[m].kind = "handler" /\ stack'[m].index = stack[m].index
    BY <1>1, <1>3 DEF Pushed
  <2>2. CASE k \in 1 .. Len(stack)
    BY <1>3, <2>1, <2>2 DEF Nested, Pushed
  <2>3. CASE k = Len(stack) + 1
    <3>1. stack[m].index < Len(ran) /\ stack'[k] = c
      BY <2>1, <2>3 DEF Nested, Pushed
    <3> QED
      BY <1>1, <1>2, <2>1, <3>1
  <2>4. k \in 1 .. Len(stack) \/ k = Len(stack) + 1
    BY <1>1, SMTT(60)
  <2> QED
    BY <2>2, <2>3, <2>4
<1>4. stack'[k].index < Len(ran')
  <2>1. CASE k \in 1 .. Len(stack)
    <3>1. stack[k].index < Len(ran) /\ stack'[k].index = stack[k].index
      BY <2>1 DEF Nested, Pushed
    <3> QED
      BY <1>1, <1>2, <2>1, <3>1
  <2>2. CASE k = Len(stack) + 1
    BY <2>2 DEF Pushed
  <2> QED
    BY <1>1, <2>1, <2>2
<1> QED
  BY <1>3, <1>4

(* Inner handlers have higher indices. *)
LEMMA NextDepthInv ==
  ChainType /\ StackInv /\ RanInv /\ DepthInv /\ [Next]_vars => DepthInv'
<1> SUFFICES ASSUME ChainType, StackInv, RanInv, DepthInv, [Next]_vars
             PROVE  DepthInv'
  OBVIOUS
<1>1. CASE UNCHANGED vars
  BY <1>1 DEF Nested, Exhausted, InHandler, Top, ChainType, StackInv, RanInv,
      DepthInv
<1>2. CASE outcome = "none" /\ RouterNext /\ UNCHANGED chainVars
  BY <1>2 DEF Nested, Exhausted, InHandler, Top, ChainType, StackInv, RanInv,
      DepthInv
<1>3. ASSUME NEW e \in Events, HandleRequest(e) PROVE DepthInv'
  BY <1>3 DEF Nested, Exhausted, InHandler, Top, HandleRequest, ChainType,
      StackInv, RanInv, DepthInv
<1>4. CASE WorkerCallsNext
  <2>1. stack' = <<NextCall>> /\ NextCall.kind = "Next" /\ Len(stack') = 1 /\ stack'[1] = NextCall
    BY <1>4, Beginning DEF WorkerCallsNext, NextCall
  <2> QED
    BY <2>1 DEF DepthInv, Nested, Exhausted, InHandler, Top
<1>5. CASE LoopCalls
  <2> DEFINE c == [kind |-> "handler", index |-> step, calls |-> 0]
  <2>1. /\ outcome = "running" /\ step < Len(handlers) /\ ran' = Append(ran, step)
        /\ step \in Nat /\ c \in Calls /\ Len(ran) = step /\ Len(stack) \in Nat
    BY <1>5, LenProperties, StackTop DEF LoopCalls, InLoop, RanInv, ChainType,
        Calls
  <2>2. ran' \in Seq(Nat) /\ Len(ran') = Len(ran) + 1
    BY <2>1, AppendProperties DEF ChainType
  <2>3. Pushed(c)
    BY <1>5, LoopPushes
  <2>4. Top'.calls = 0
    BY <2>1, <2>3 DEF Pushed, Top
  <2>5. Nested'
    BY <2>1, <2>2, <2>3, PushNested DEF DepthInv
  <2> QED
    BY <2>4, <2>5 DEF DepthInv, Exhausted
<1>6. CASE LoopEnds
  <2>1. /\ outcome = "running" /\ stack' = Popped /\ ran' = ran
    BY <1>6 DEF LoopEnds
  <2>2. Nested'
    BY <2>1, PopNested DEF DepthInv
  <2>3. Exhausted'
    BY <1>6, LenProperties DEF LoopEnds, Exhausted, ChainType
  <2> QED
    BY <2>2, <2>3 DEF DepthInv
<1>7. CASE HandlerCallsNext
  <2>1. /\ outcome = "running" /\ ran' = ran /\ NextCall \in Calls /\ NextCall.kind = "Next"
        /\ Pushed(NextCall)
    BY <1>7, CallingNext DEF HandlerCallsNext, InHandler, NextCall, Calls
  <2>2. Top'.kind = "Next"
    BY <2>1, StackTop DEF Pushed, Top
  <2>3. Nested'
    BY <2>1, PushNested, LenProperties DEF DepthInv, ChainType
  <2> QED
    BY <2>2, <2>3 DEF DepthInv, Exhausted, InHandler
<1>8. CASE HandlerReturns
  <2>1. /\ outcome = "running" /\ stack' = Popped /\ ran' = ran
    BY <1>8 DEF HandlerReturns, InHandler, ReturnToLoop
  <2>2. Nested'
    BY <2>1, PopNested DEF DepthInv
  <2>3. Exhausted'
    BY <1>8, <2>1, ReturnsToLoop DEF HandlerReturns, Exhausted, InHandler
  <2> QED
    BY <2>2, <2>3 DEF DepthInv
<1>9. CASE HandlerPanics
  BY <1>9, StackTop DEF Nested, Exhausted, InHandler, Top, HandlerPanics,
      ChainType, StackInv, RanInv, DepthInv
<1>10. CASE Recover
  <2>1. /\ outcome = "running" /\ stack' = Popped /\ ran' = ran
    BY <1>10 DEF Recover, Unwinding, ReturnToLoop
  <2>2. Nested'
    BY <2>1, PopNested DEF DepthInv
  <2>3. Exhausted'
    BY <1>10, <2>1, ReturnsToLoop DEF Recover, Recovers, Exhausted, InHandler
  <2> QED
    BY <2>2, <2>3 DEF DepthInv
<1>11. CASE Unwind
  <2>1. /\ outcome = "running" /\ stack' = Popped /\ ran' = ran
    BY <1>11 DEF Unwind, Unwinding
  <2>2. Nested'
    BY <2>1, PopNested DEF DepthInv
  <2>3. Exhausted'
    BY <1>11 DEF Unwind, Unwinding, Exhausted, InHandler
  <2> QED
    BY <2>2, <2>3 DEF DepthInv
<1> QED
  BY <1>1, <1>2, <1>3, <1>4, <1>5, <1>6, <1>7, <1>8, <1>9, <1>10, <1>11 DEF
      Next

LEMMA PopActive ==
  ASSUME ChainType, StackInv, outcome = "running", stack' = Popped
  PROVE  /\ Top.kind = "Next" => Active' = Active
         /\ Top.kind = "handler" => Active = Active' \cup {Top.index}
         /\ Top.kind = "handler" /\ Nested => \A j \in Active' : j < Top.index
<1>1. /\ Len(stack) \in Nat \ {0} /\ Len(stack') = Len(stack) - 1
      /\ \A k \in 1 .. Len(stack') : stack'[k] = stack[k]
      /\ Top = stack[Len(stack)]
  BY StackTop, Popping DEF PoppedOff
<1>2. 1 .. Len(stack) = 1 .. Len(stack') \cup {Len(stack)}
  BY <1>1
<1>3. Top.kind = "Next" => Active' = Active
  BY <1>1, <1>2 DEF Active
<1>4. Top.kind = "handler" => Active = Active' \cup {Top.index}
  BY <1>1, <1>2 DEF Active
<1>5. ASSUME Top.kind = "handler", Nested, NEW j \in Active' PROVE j < Top.index
  <2>1. PICK k \in 1 .. Len(stack') : stack'[k].kind = "handler" /\ j = stack'[k].index
    BY <1>5 DEF Active
  <2>2. k \in 1 .. Len(stack) - 1 /\ Len(stack) \in 1 .. Len(stack)
    BY <1>1
  <2> QED
    BY <1>1, <1>5, <2>1, <2>2 DEF Nested
<1> QED
  BY <1>3, <1>4, <1>5

LEMMA PushActive ==
  ASSUME ChainType, NEW c, Pushed(c)
  PROVE  /\ c.kind = "Next" => Active' = Active
         /\ c.kind = "handler" => Active' = Active \cup {c.index}
<1>1. Len(stack) \in Nat /\ Len(stack') = Len(stack) + 1
  BY LenProperties DEF ChainType, Pushed
<1>2. 1 .. Len(stack') = 1 .. Len(stack) \cup {Len(stack) + 1}
  BY <1>1
<1> QED
  BY <1>1, <1>2 DEF Active, Pushed

LEMMA TopIsActive ==
  ASSUME ChainType, StackInv, outcome = "running", Top.kind = "handler"
  PROVE  Top.index \in Active /\ Top.index \in Nat
  BY StackTop DEF Active, Calls

(* A step that only takes a frame off the stack, a Recovery only when it   *)
(* has recovered or when nothing is left to run, leaves nobody unguarded.  *)
LEMMA PopShield ==
  ASSUME ChainType, StackInv, RanInv, DepthInv, ShieldInv, outcome = "running",
         stack' = Popped, handlers' = handlers, ran' = ran, recovered \subseteq recovered',
         Top.kind = "handler" /\ At(Top.index) = "recovery" =>
            Top.index \in recovered' \/ (step >= Len(handlers) /\ ~ panicking')
  PROVE  /\ step < Len(handlers) => Guarded(Len(ran))'
         /\ \A j \in Active' : Guarded(j)'
         /\ panicking /\ panicking' /\ panicked' = panicked => Guarded(panicked)'
<1>1. Top.kind \in {"Next", "handler"}
  BY StackTop DEF Calls
<1>2. Active' \subseteq Active
  BY <1>1, PopActive
<1>3. \A i \in recovered \cup Active :
         At(i) = "recovery" /\ i \notin recovered' \cup Active' =>
            Top.kind = "handler" /\ i = Top.index /\ step >= Len(handlers) /\ ~ panicking'
  BY <1>1, PopActive
<1>4. ASSUME step < Len(handlers) PROVE Guarded(Len(ran))'
  <2>1. step \in Int /\ Len(handlers) \in Nat
    BY LenProperties DEF ChainType
  <2> QED
    BY <1>3, <1>4, <2>1 DEF ShieldInv, Guarded, At
<1>5. ASSUME NEW j \in Active' PROVE Guarded(j)'
  <2>1. Guarded(j)
    BY <1>2, <1>5 DEF ShieldInv
  <2>2. Top.kind = "handler" => j < Top.index /\ Top.index \in Nat
    BY <1>5, PopActive, StackTop DEF DepthInv, Calls
  <2>3. j \in Nat
    <3>1. PICK k \in 1 .. Len(stack) : j = stack[k].index
      BY <1>2, <1>5 DEF Active
    <3>2. stack[k] \in Calls
      BY <3>1 DEF ChainType
    <3> QED
      BY <3>1, <3>2 DEF Calls
  <2>4. ASSUME NEW i \in 0 .. j - 1, At(i) = "recovery"
        PROVE  i \in recovered' \cup Active'
    <3>1. i \in recovered \cup Active
      BY <2>1, <2>4 DEF Guarded
    <3>2. Top.kind = "handler" => i # Top.index
      BY <2>2, <2>3, <2>4
    <3> QED
      BY <1>3, <2>4, <3>1, <3>2
  <2> QED
    BY <2>4 DEF Guarded, At
<1>6. ASSUME panicking, panicking', panicked' = panicked
      PROVE  Guarded(panicked)'
  BY <1>3, <1>6 DEF ShieldInv, Guarded, At
<1> QED
  BY <1>4, <1>5, <1>6

(* A Recovery stays active until it recovers or nothing is left to run. *)
LEMMA NextShieldInv ==
  ChainType /\ StackInv /\ RanInv /\ DepthInv /\ ShieldInv /\ [Next]_vars =>
    ShieldInv'
<1> SUFFICES ASSUME ChainType, StackInv, RanInv, DepthInv, ShieldInv,
                    [Next]_vars
             PROVE  ShieldInv'
  OBVIOUS
<1>1. CASE UNCHANGED vars
  <2>1. UNCHANGED <<outcome, handlers, step, ran, panicking, panicked, recovered, stack>>
    BY <1>1
  <2>2. Active' = Active
    BY <2>1 DEF Active
  <2> QED
    BY <2>1, <2>2 DEF ShieldInv, Guarded, At
<1>2. CASE outcome = "none" /\ RouterNext /\ UNCHANGED chainVars
  <2>1. UNCHANGED <<outcome, handlers, step, ran, panicking, panicked, recovered, stack>>
    BY <1>2
  <2>2. Active' = Active
    BY <2>1 DEF Active
  <2> QED
    BY <2>1, <2>2 DEF ShieldInv, Guarded, At
<1>3. ASSUME NEW e \in Events, HandleRequest(e) PROVE ShieldInv'
  <2>1. /\ outcome' = "queued" /\ ~ panicking /\ panicking' = panicking /\ stack = <<>> /\ stack' = stack
    BY <1>3 DEF HandleRequest, StackInv
  <2>2. Active' = {}
    BY <2>1 DEF Active
  <2> QED
    BY <2>1, <2>2 DEF ShieldInv
<1>4. CASE WorkerCallsNext
  <2>1. /\ outcome' = "running" /\ handlers' = handlers /\ ran' = ran /\ ran = <<>>
        /\ ~ panicking' /\ Len(stack') = 1 /\ stack'[1].kind = "Next"
    BY <1>4, Beginning DEF WorkerCallsNext, StackInv, NextCall
  <2>2. Active' = {} /\ Len(ran') = 0
    BY <2>1 DEF Active
  <2> QED
    BY <2>1, <2>2 DEF ShieldInv, Guarded
<1>5. CASE LoopCalls
  <2> DEFINE c == [kind |-> "handler", index |-> step, calls |-> 0]
  <2>1. /\ outcome = "running" /\ step < Len(handlers) /\ ran' = Append(ran, step)
        /\ step \in Nat /\ Len(ran) = step /\ ~ panicking /\ ~ panicking'
        /\ UNCHANGED <<outcome, step, handlers, recovered>>
    BY <1>5, LenProperties DEF LoopCalls, InLoop, RanInv, ChainType
  <2>2. Len(ran') = step + 1
    BY <2>1, AppendProperties DEF ChainType
  <2>3. Active' = Active \cup {step}
    BY <1>5, LoopPushes, PushActive
  <2>4. Guarded(step)
    BY <2>1 DEF ShieldInv
  <2>5. Guarded(step)' /\ Guarded(Len(ran))'
    <3>1. step' = step
      BY <1>5 DEF LoopCalls
    <3>2. \A i \in 0 .. step - 1 : At(i)' = "recovery" => i \in recovered' \cup Active'
      BY <2>1, <2>3, <2>4 DEF Guarded, At
    <3>3. \A i \in 0 .. step : i \in 0 .. step - 1 \/ i = step
      BY <2>1
    <3>4. \A i \in 0 .. step : At(i)' = "recovery" => i \in recovered' \cup Active'
      BY <2>3, <3>2, <3>3
    <3>5. Len(ran') - 1 = step
      BY <2>1, <2>2
    <3> QED
      BY <3>1, <3>2, <3>4, <3>5 DEF Guarded
  <2>6. \A j \in Active : Guarded(j)'
    BY <2>1, <2>3 DEF ShieldInv, Guarded, At
  <2>7. \A j \in Active' : Guarded(j)'
    BY <2>1, <2>3, <2>5, <2>6
  <2> QED
    BY <2>1, <2>5, <2>7 DEF ShieldInv
<1>6. CASE LoopEnds
  <2>1. /\ outcome = "running" /\ stack' = Popped /\ Top.kind = "Next" /\ ~ panicking
        /\ UNCHANGED <<handlers, ran, recovered, panicking, step>>
    BY <1>6 DEF LoopEnds
  <2>2. step < Len(handlers) => Guarded(Len(ran))'
    BY <2>1, PopShield
  <2>3. \A j \in Active' : Guarded(j)'
    BY <2>1, PopShield
  <2> QED
    BY <2>1, <2>2, <2>3 DEF ShieldInv
<1>7. CASE HandlerCallsNext
  <2>1. /\ outcome = "running" /\ step' = step + 1 /\ ran' = ran /\ ~ panicking
        /\ panicking' = panicking /\ handlers' = handlers /\ recovered' = recovered
    BY <1>7 DEF HandlerCallsNext, InHandler
  <2>2. Active' = Active
    BY <1>7, CallingNext, PushActive DEF NextCall
  <2>3. step' < Len(handlers') => step < Len(handlers)
    BY <2>1, LenProperties DEF ChainType
  <2> QED
    BY <2>1, <2>2, <2>3 DEF ShieldInv, Guarded, At
<1>8. CASE HandlerReturns
  <2>1. /\ outcome = "running" /\ stack' = Popped /\ ~ panicking' /\ step' = step + 1
        /\ UNCHANGED <<handlers, ran>> /\ recovered \subseteq recovered'
    BY <1>8 DEF HandlerReturns, InHandler, ReturnToLoop
  <2>2. Top.kind = "handler" /\ At(Top.index) = "recovery" =>
           Top.index \in recovered' \/ (step >= Len(handlers) /\ ~ panicking')
    BY <1>8, <2>1 DEF HandlerReturns, InHandler, NextCalls, DepthInv, Exhausted
  <2>3. step < Len(handlers) => Guarded(Len(ran))'
    BY <2>1, <2>2, PopShield
  <2>4. \A j \in Active' : Guarded(j)'
    BY <2>1, <2>2, PopShield
  <2>5. step' < Len(handlers') => step < Len(handlers)
    BY <2>1, LenProperties DEF ChainType
  <2> QED
    BY <2>1, <2>3, <2>4, <2>5 DEF ShieldInv
<1>9. CASE HandlerPanics
  <2>1. /\ outcome = "running" /\ Top.kind = "handler" /\ panicked' = Top.index
        /\ UNCHANGED <<outcome, handlers, step, stack, ran, recovered>>
    BY <1>9 DEF HandlerPanics, InHandler
  <2>2. Top.index \in Active /\ Top.index \in Nat
    BY <2>1, TopIsActive
  <2>3. Active' = Active
    BY <2>1 DEF Active
  <2> QED
    BY <2>1, <2>2, <2>3 DEF ShieldInv, Guarded, At
<1>10. CASE Recover
  <2>1. /\ outcome = "running" /\ stack' = Popped /\ ~ panicking' /\ step' = step + 1
        /\ UNCHANGED <<handlers, ran>> /\ recovered \subseteq recovered'
    BY <1>10 DEF Recover, Unwinding, ReturnToLoop
  <2>2. Top.kind = "handler" /\ At(Top.index) = "recovery" =>
           Top.index \in recovered' \/ (step >= Len(handlers) /\ ~ panicking')
    BY <1>10 DEF Recover
  <2>3. step < Len(handlers) => Guarded(Len(ran))'
    BY <2>1, <2>2, PopShield
  <2>4. \A j \in Active' : Guarded(j)'
    BY <2>1, <2>2, PopShield
  <2>5. step' < Len(handlers') => step < Len(handlers)
    BY <2>1, LenProperties DEF ChainType
  <2> QED
    BY <2>1, <2>3, <2>4, <2>5 DEF ShieldInv
<1>11. CASE Unwind
  <2>1. /\ outcome = "running" /\ stack' = Popped /\ panicking /\ panicking' = panicking
        /\ UNCHANGED <<handlers, ran, recovered, step, panicked>>
        /\ ~ (Top.kind = "handler" /\ At(Top.index) = "recovery")
    BY <1>11 DEF Unwind, Unwinding, Recovers
  <2>2. step < Len(handlers) => Guarded(Len(ran))'
    BY <2>1, PopShield
  <2>3. \A j \in Active' : Guarded(j)'
    BY <2>1, PopShield
  <2>4. Guarded(panicked)'
    BY <2>1, PopShield
  <2> QED
    BY <2>1, <2>2, <2>3, <2>4 DEF ShieldInv
<1> QED
  BY <1>1, <1>2, <1>3, <1>4, <1>5, <1>6, <1>7, <1>8, <1>9, <1>10, <1>11 DEF
      Next

-----------------------------------------------------------------------------
(* Slices.  First what append does to a slice that fits its heap. *)

LEMMA ValueOf ==
  ASSUME NEW heap \in Heaps, NEW s, Fits(heap, s)
  PROVE  /\ ValueIn(heap, s) \in Seq(Handlers) /\ Len(ValueIn(heap, s)) = s.len
         /\ \A i \in 1 .. s.len : ValueIn(heap, s)[i] = heap[s.array][i]
<1>1. CASE s.array = 0
  BY <1>1 DEF Fits, ValueIn
<1>2. CASE s.array # 0
  <2> DEFINE a == heap[s.array]
  <2>1. s.len \in Nat \ {0} /\ \A i \in 1 .. s.len : a[i] \in Handlers
    BY <1>2 DEF Fits, Slices
  <2>2. ValueIn(heap, s) = SubSeq(a, 1, s.len)
    BY <1>2 DEF ValueIn
  <2> HIDE DEF a
  <2>3. 1 \in Int /\ s.len \in Int
    BY <2>1
  <2>4. /\ SubSeq(a, 1, s.len) \in Seq(Handlers)
        /\ Len(SubSeq(a, 1, s.len)) = IF 1 <= s.len THEN s.len - 1 + 1 ELSE 0
        /\ \A i \in 1 .. s.len - 1 + 1 : SubSeq(a, 1, s.len)[i] = a[1 + i - 1]
    BY <2>1, <2>3, SubSeqProperties
  <2>5. Len(SubSeq(a, 1, s.len)) = s.len
    BY <2>1, <2>4
  <2>6. \A i \in 1 .. s.len : SubSeq(a, 1, s.len)[i] = a[i]
    BY <2>1, <2>4
  <2> QED
    BY <2>2, <2>4, <2>5, <2>6 DEF a
<1> QED
  BY <1>1, <1>2

(* r is an outcome of append(s, hs...): its value is right, and only the   *)
(* array of s may have changed.                                            *)
Extends(heap, s, hs, r) ==
    /\ r.arrays \in Heaps /\ Len(r.arrays) >= Len(heap)
    /\ Fits(r.arrays, r.slice)
    /\ ValueIn(r.arrays, r.slice) = ValueIn(heap, s) \o hs
    /\ \A a \in 1 .. Len(heap) : a # s.array => r.arrays[a] = heap[a]
    /\ r.slice.array = s.array \/ r.slice.array > Len(heap)

LEMMA InPlace ==
  ASSUME NEW heap \in Heaps, NEW s, Fits(heap, s), NEW hs \in Seq(Handlers),
         NEW r, s.array # 0, hs # <<>>, s.len + Len(hs) <= Len(heap[s.array])
  PROVE  r = [arrays |-> [heap EXCEPT ![s.array] =
                [i \in 1 .. Len(heap[s.array]) |->
                    IF i \in s.len + 1 .. s.len + Len(hs)
                    THEN hs[i - s.len] ELSE heap[s.array][i]]],
              slice |-> [s EXCEPT !.len = s.len + Len(hs)]]
         => Extends(heap, s, hs, r)
<1>0. SUFFICES ASSUME r = [arrays |-> [heap EXCEPT ![s.array] =
                             [i \in 1 .. Len(heap[s.array]) |->
                                 IF i \in s.len + 1 .. s.len + Len(hs)
                                 THEN hs[i - s.len] ELSE heap[s.array][i]]],
                           slice |-> [s EXCEPT !.len = s.len + Len(hs)]]
               PROVE  Extends(heap, s, hs, r)
  OBVIOUS
<1> DEFINE a == heap[s.array]
           b == [i \in 1 .. Len(a) |->
                    IF i \in s.len + 1 .. s.len + Len(hs) THEN hs[i - s.len] ELSE a[i]]
           n == s.len + Len(hs)
<1>1. /\ s.array \in 1 .. Len(heap) /\ s.len \in Nat \ {0} /\ s.array \in Nat
      /\ \A i \in 1 .. s.len : a[i] \in Handlers
  BY DEF Fits, Slices
<1>2. a \in Seq(Handlers \cup {"nil"}) /\ Len(a) \in Nat
  BY <1>1, ElementOfSeq, LenProperties DEF Heaps
<1>3. Len(hs) \in Nat \ {0} /\ \A i \in 1 .. Len(hs) : hs[i] \in Handlers
  BY EmptySeq, ElementOfSeq
<1>4. n \in 1 .. Len(a) /\ n \in Nat
  BY <1>1, <1>2, <1>3
<1>5. \A i \in 1 .. n : b[i] = IF i \in 1 .. s.len THEN a[i] ELSE hs[i - s.len]
  BY <1>1, <1>2, <1>3, <1>4
<1>6. b \in Seq(Handlers \cup {"nil"}) /\ Len(b) = Len(a)
  <2>1. b \in [1 .. Len(a) -> Handlers \cup {"nil"}]
    BY <1>1, <1>2, <1>3, ElementOfSeq
  <2>2. b \in Seq(Handlers \cup {"nil"})
    BY <1>2, <2>1, SeqDef
  <2> QED
    BY <1>2, <2>1, <2>2, LenProperties
<1>7. \A i \in 1 .. n : b[i] \in Handlers
  <2> TAKE i \in 1 .. n
  <2>1. i \notin 1 .. s.len => i - s.len \in 1 .. Len(hs)
    BY <1>1, <1>3, <1>4
  <2> QED
    BY <1>1, <1>3, <1>5, <2>1
<1> DEFINE heap2 == [heap EXCEPT ![s.array] = b]
<1>8. r.arrays = heap2 /\ r.slice = [s EXCEPT !.len = n]
  BY <1>0
<1> HIDE DEF a, b
<1>9. /\ heap2 \in Heaps /\ Len(heap2) = Len(heap) /\ heap2[s.array] = b
      /\ \A k \in 1 .. Len(heap) : k # s.array => heap2[k] = heap[k]
  BY <1>1, <1>6, ExceptSeq DEF Heaps
<1> HIDE DEF heap2, n
<1>10. Len(heap) \in Nat
  BY LenProperties DEF Heaps
<1>11. r.slice.array = s.array /\ r.slice.len = n /\ r.slice \in Slices
  BY <1>1, <1>4, <1>8 DEF Fits, Slices
<1>12. Fits(heap2, r.slice)
  BY <1>1, <1>4, <1>6, <1>7, <1>9, <1>11 DEF Fits
<1>13. ValueIn(heap2, r.slice) = ValueIn(heap, s) \o hs
  <2> DEFINE v == ValueIn(heap2, r.slice)
             w == ValueIn(heap, s)
  <2>0. /\ v \in Seq(Handlers) /\ Len(v) = r.slice.len
        /\ \A i \in 1 .. r.slice.len : v[i] = heap2[r.slice.array][i]
    BY <1>9, <1>12, ValueOf
  <2>1. v \in Seq(Handlers) /\ Len(v) = n /\ \A i \in 1 .. n : v[i] = b[i]
    BY <1>9, <1>11, <2>0
  <2>2. w \in Seq(Handlers) /\ Len(w) = s.len /\ \A i \in 1 .. s.len : w[i] = a[i]
    BY ValueOf DEF a
  <2> HIDE DEF v, w
  <2>3. /\ w \o hs \in Seq(Handlers) /\ Len(w \o hs) = n
        /\ \A i \in 1 .. n : (w \o hs)[i] = IF i <= s.len THEN w[i] ELSE hs[i - s.len]
    <3>1. /\ w \o hs \in Seq(Handlers) /\ Len(w \o hs) = Len(w) + Len(hs)
          /\ \A i \in 1 .. Len(w) + Len(hs) :
                (w \o hs)[i] = IF i <= Len(w) THEN w[i] ELSE hs[i - Len(w)]
      BY <2>2, ConcatProperties
    <3> QED
      BY <2>2, <3>1 DEF n
  <2>4. ASSUME NEW i \in 1 .. n PROVE v[i] = (w \o hs)[i]
    <3>1. CASE i \in 1 .. s.len
      <4>1. b[i] = a[i] /\ w[i] = a[i] /\ i <= s.len
        BY <1>1, <1>5, <2>2, <3>1
      <4> QED
        BY <2>1, <2>3, <4>1
    <3>2. CASE i \notin 1 .. s.len
      <4>1. b[i] = hs[i - s.len] /\ ~ (i <= s.len)
        BY <1>1, <1>4, <1>5, <3>2
      <4> QED
        BY <2>1, <2>3, <4>1
    <3> QED
      BY <3>1, <3>2
  <2>5. v = w \o hs
    BY <2>1, <2>3, <2>4, SeqEqual
  <2> QED
    BY <2>5 DEF v, w
<1>14. r.arrays = heap2
  BY <1>8
<1>15. r.arrays \in Heaps /\ Len(r.arrays) >= Len(heap)
  BY <1>9, <1>10, <1>14
<1>16. Fits(r.arrays, r.slice) /\ ValueIn(r.arrays, r.slice) = ValueIn(heap, s) \o hs
  BY <1>12, <1>13, <1>14
<1>17. \A k \in 1 .. Len(heap) : k # s.array => r.arrays[k] = heap[k]
  BY <1>9, <1>14
<1> QED
  BY <1>11, <1>15, <1>16, <1>17, Zenon DEF Extends

LEMMA Grown ==
  ASSUME NEW heap \in Heaps, NEW s, Fits(heap, s), NEW hs \in Seq(Handlers),
         NEW r, hs # <<>>, NEW spare \in 0 .. MaxSpare
  PROVE  r = [arrays |-> Append(heap, ValueIn(heap, s) \o hs
                                        \o [i \in 1 .. spare |-> "nil"]),
              slice |-> [array |-> Len(heap) + 1, len |-> s.len + Len(hs)]]
         => Extends(heap, s, hs, r)
<1>0. SUFFICES ASSUME r = [arrays |-> Append(heap, ValueIn(heap, s) \o hs
                                                     \o [i \in 1 .. spare |-> "nil"]),
                           slice |-> [array |-> Len(heap) + 1, len |-> s.len + Len(hs)]]
               PROVE  Extends(heap, s, hs, r)
  OBVIOUS
<1> DEFINE w == ValueIn(heap, s)
           z == [i \in 1 .. spare |-> "nil"]
           b == w \o hs \o z
           n == s.len + Len(hs)
           heap2 == Append(heap, b)
           H == Handlers \cup {"nil"}
<1>1. w \in Seq(Handlers) /\ Len(w) = s.len /\ s.len \in Nat
  BY ValueOf DEF Fits, Slices
<1>2. Len(hs) \in Nat \ {0}
  BY EmptySeq
<1>3. /\ w \o hs \in Seq(Handlers) /\ Len(w \o hs) = n /\ n \in Nat \ {0}
      /\ \A i \in 1 .. n : (w \o hs)[i] \in Handlers
  <2> HIDE DEF w
  <2>1. w \o hs \in Seq(Handlers) /\ Len(w \o hs) = Len(w) + Len(hs)
    BY <1>1, ConcatProperties
  <2> QED
    BY <1>1, <1>2, <2>1, ElementOfSeq
<1>4. z \in Seq(H) /\ Len(z) = spare
  <2>1. spare \in Nat /\ z \in [1 .. spare -> H]
    BY RouterAssumption
  <2>2. z \in Seq(H)
    BY <2>1, SeqDef
  <2> QED
    BY <2>1, <2>2, LenProperties
<1>5. w \o hs \in Seq(H)
  BY <1>3, SeqMonotonic
<1> HIDE DEF z, w
<1>6. /\ b \in Seq(H) /\ Len(b) = n + spare
      /\ \A i \in 1 .. n : b[i] = (w \o hs)[i]
  <2> DEFINE u == w \o hs
  <2>1. spare \in Nat /\ b = u \o z /\ Len(u) = n /\ u \in Seq(H)
    BY <1>3, <1>5, RouterAssumption
  <2> HIDE DEF u, n, b
  <2>2. /\ u \o z \in Seq(H) /\ Len(u \o z) = Len(u) + Len(z)
        /\ \A i \in 1 .. Len(u) + Len(z) :
              (u \o z)[i] = IF i <= Len(u) THEN u[i] ELSE z[i - Len(u)]
    BY <1>4, <2>1, ConcatProperties
  <2>3. \A i \in 1 .. n : i \in 1 .. n + spare /\ i <= n
    BY <1>3, <2>1
  <2>4. \A i \in 1 .. n : b[i] = u[i]
    BY <1>4, <2>1, <2>2, <2>3
  <2> QED
    BY <1>4, <2>1, <2>2, <2>4 DEF u
<1> HIDE DEF b
<1>7. /\ heap2 \in Heaps /\ Len(heap2) = Len(heap) + 1
      /\ \A k \in 1 .. Len(heap) : heap2[k] = heap[k]
      /\ heap2[Len(heap) + 1] = b /\ Len(heap) \in Nat
  BY <1>6, AppendProperties, LenProperties DEF Heaps
<1>8. r.arrays = heap2 /\ r.slice = [array |-> Len(heap) + 1, len |-> n]
  BY <1>0 DEF b, w, z
<1> HIDE DEF heap2, n
<1>9. r.slice.array = Len(heap) + 1 /\ r.slice.len = n /\ r.slice \in Slices
  BY <1>3, <1>7, <1>8 DEF Slices
<1>10. Fits(heap2, r.slice)
  <2>1. spare \in Nat
    BY RouterAssumption
  <2>2. n \in 1 .. Len(b)
    BY <1>3, <1>6, <2>1
  <2>3. \A i \in 1 .. n : b[i] \in Handlers
    BY <1>3, <1>6
  <2> QED
    BY <1>7, <1>9, <2>2, <2>3 DEF Fits
<1>11. ValueIn(heap2, r.slice) = w \o hs
  <2> DEFINE v == ValueIn(heap2, r.slice)
  <2>1. v \in Seq(Handlers) /\ Len(v) = n /\ \A i \in 1 .. n : v[i] = b[i]
    BY <1>7, <1>9, <1>10, ValueOf
  <2> HIDE DEF v
  <2>2. v = w \o hs
    BY <1>3, <1>6, <2>1, SeqEqual
  <2> QED
    BY <2>2 DEF v
<1>12. r.arrays = heap2
  BY <1>8
<1>13. ValueIn(heap2, r.slice) = ValueIn(heap, s) \o hs
  BY <1>11 DEF w
<1>14. r.arrays \in Heaps /\ Len(r.arrays) >= Len(heap) /\ r.slice.array > Len(heap)
  BY <1>7, <1>9, <1>12
<1>15. Fits(r.arrays, r.slice) /\ ValueIn(r.arrays, r.slice) = ValueIn(heap, s) \o hs
  BY <1>10, <1>12, <1>13
<1>16. \A k \in 1 .. Len(heap) : r.arrays[k] = heap[k]
  BY <1>7, <1>12
<1> QED
  BY <1>14, <1>15, <1>16, Zenon DEF Extends

LEMMA AppendedExtends ==
  ASSUME NEW heap \in Heaps, NEW s, Fits(heap, s), NEW hs \in Seq(Handlers),
         NEW r \in Appended(heap, s, hs)
  PROVE  Extends(heap, s, hs, r)
<1>1. CASE hs = <<>>
  <2>1. r = [arrays |-> heap, slice |-> s]
    BY <1>1 DEF Appended
  <2>2. ValueIn(heap, s) \o <<>> = ValueIn(heap, s)
    BY ValueOf, ConcatEmptySeq
  <2>3. Len(heap) \in Nat
    BY LenProperties DEF Heaps
  <2> QED
    BY <1>1, <2>1, <2>2, <2>3 DEF Extends
<1>2. CASE hs # <<>> /\ s.array # 0 /\ s.len + Len(hs) <= Len(heap[s.array])
  BY <1>2, InPlace DEF Appended
<1>3. CASE hs # <<>> /\ ~ (s.array # 0 /\ s.len + Len(hs) <= Len(heap[s.array]))
  <2>1. PICK spare \in 0 .. MaxSpare :
           r = [arrays |-> Append(heap, ValueIn(heap, s) \o hs
                                          \o [i \in 1 .. spare |-> "nil"]),
                slice |-> [array |-> Len(heap) + 1, len |-> s.len + Len(hs)]]
    BY <1>3 DEF Appended
  <2> QED
    BY <1>3, <2>1, Grown
<1> QED
  BY <1>1, <1>2, <1>3

(* A slice that does not share the array keeps its value. *)
LEMMA Untouched ==
  ASSUME NEW heap \in Heaps, NEW s, NEW hs, NEW r, Extends(heap, s, hs, r),
         NEW t, Fits(heap, t), Apart(t, s)
  PROVE  Fits(r.arrays, t) /\ ValueIn(r.arrays, t) = ValueIn(heap, t)
<1>1. CASE t.array = 0
  BY <1>1 DEF Fits, ValueIn
<1>2. CASE t.array # 0
  <2>1. t.array \in 1 .. Len(heap) /\ r.arrays[t.array] = heap[t.array]
    BY <1>2 DEF Fits, Apart, Extends
  <2>2. t.array \in 1 .. Len(r.arrays)
    BY <2>1, LenProperties DEF Extends, Heaps
  <2> QED
    BY <1>2, <2>1, <2>2 DEF Fits, ValueIn
<1> QED
  BY <1>1, <1>2

LEMMA FreshApart ==
  ASSUME NEW heap \in Heaps, NEW t, Fits(heap, t),
         NEW s, s.array \in Nat, s.array = 0 \/ s.array > Len(heap)
  PROVE  Apart(s, t) /\ Apart(t, s)
<1>1. Len(heap) \in Nat /\ t.array \in 0 .. Len(heap)
  BY LenProperties DEF Heaps, Fits, Slices
<1> QED
  BY <1>1 DEF Apart

LEMMA ApartSym == \A s, t : Apart(s, t) => Apart(t, s)
  BY DEF Apart

(* append([]Handler(nil), slice...) leaves every array alone. *)
LEMMA CopyIs ==
  ASSUME NEW heap \in Heaps, NEW s, Fits(heap, s), NEW r \in Copied(heap, s)
  PROVE  /\ Extends(heap, NilSlice, ValueIn(heap, s), r)
         /\ ValueIn(r.arrays, r.slice) = ValueIn(heap, s)
         /\ r.slice \in Slices /\ (r.slice.array = 0 \/ r.slice.array > Len(heap))
         /\ \A t : Fits(heap, t) => /\ Fits(r.arrays, t)
                                    /\ ValueIn(r.arrays, t) = ValueIn(heap, t)
<1>1. Fits(heap, NilSlice) /\ NilSlice.array = 0
  BY DEF Fits, NilSlice, Slices
<1>2. ValueIn(heap, s) \in Seq(Handlers)
  BY ValueOf
<1>3. Extends(heap, NilSlice, ValueIn(heap, s), r)
  BY <1>1, <1>2, AppendedExtends DEF Copied
<1>4. ValueIn(heap, NilSlice) = <<>>
  BY <1>1 DEF ValueIn
<1>5. <<>> \o ValueIn(heap, s) = ValueIn(heap, s)
  BY <1>2, ConcatEmptySeq
<1>6. \A t : Apart(t, NilSlice)
  BY <1>1 DEF Apart
<1>7. \A t : Fits(heap, t) => /\ Fits(r.arrays, t)
                              /\ ValueIn(r.arrays, t) = ValueIn(heap, t)
  BY <1>3, <1>6, Untouched
<1> QED
  BY <1>1, <1>3, <1>4, <1>5, <1>7 DEF Extends, Fits

-----------------------------------------------------------------------------
(* The router step by step: each one keeps the slices apart and does to    *)
(* the handlers of groups and routes what RouteTable says.                 *)
Chains == [g \in DOMAIN groups |-> Value(groups[g])]
Routes == [e \in Events |-> Value(routes[e])]

LEMMA ChainsOf ==
  ASSUME NEW heap \in Heaps, NEW gs \in Seq(Slices),
         \A k \in DOMAIN gs : Fits(heap, gs[k])
  PROVE  LET ch == [g \in DOMAIN gs |-> ValueIn(heap, gs[g])]
         IN  /\ DOMAIN gs = 1 .. Len(gs) /\ Len(gs) \in Nat
             /\ ch \in Seq(Seq(Handlers)) /\ Len(ch) = Len(gs)
             /\ \A k \in 1 .. Len(gs) : ch[k] = ValueIn(heap, gs[k])
<1> DEFINE ch == [g \in DOMAIN gs |-> ValueIn(heap, gs[g])]
<1>1. DOMAIN gs = 1 .. Len(gs) /\ Len(gs) \in Nat
  BY LenProperties
<1>2. \A k \in DOMAIN gs : ValueIn(heap, gs[k]) \in Seq(Handlers)
  BY ValueOf
<1>3. ch \in [1 .. Len(gs) -> Seq(Handlers)]
  BY <1>1, <1>2
<1>4. ch \in Seq(Seq(Handlers))
  BY <1>1, <1>3, SeqDef
<1>5. Len(ch) = Len(gs)
  BY <1>1, <1>3, <1>4, LenProperties
<1> QED
  BY <1>1, <1>4, <1>5

ChainsOfGroups ==
    /\ DOMAIN groups = 1 .. Len(groups) /\ Len(groups) \in Nat
    /\ Chains \in Seq(Seq(Handlers)) /\ Len(Chains) = Len(groups)
    /\ \A k \in 1 .. Len(groups) : Chains[k] = ValueIn(arrays, groups[k])

LEMMA ChainsType == /\ SliceInv => ChainsOfGroups
                    /\ SliceInv' => ChainsOfGroups'
<1>1. SliceInv => ChainsOfGroups
  BY ChainsOf DEF SliceInv, ChainsOfGroups, Chains, Value
<1>2. SliceInv' => ChainsOfGroups'
  BY ChainsOf DEF SliceInv, ChainsOfGroups, Chains, Value
<1> QED
  BY <1>1, <1>2

LEMMA GroupStep ==
  ASSUME SliceInv, NEW g \in DOMAIN groups, Group(g)
  PROVE  SliceInv' /\ Table!Group(g)
<1>1. PICK copy \in Copied(arrays, groups[g]) :
         arrays' = copy.arrays /\ groups' = Append(groups, copy.slice)
  BY DEF Group
<1> DEFINE c == copy.slice
<1>2. /\ arrays \in Heaps /\ Fits(arrays, groups[g])
      /\ UNCHANGED <<routes, stage, runtimeRoutes>>
  BY DEF SliceInv, Group
<1>3. /\ arrays' \in Heaps /\ Fits(arrays', c)
      /\ ValueIn(arrays', c) = ValueIn(arrays, groups[g])
      /\ c \in Slices /\ (c.array = 0 \/ c.array > Len(arrays))
      /\ \A t : Fits(arrays, t) => /\ Fits(arrays', t)
                                   /\ ValueIn(arrays', t) = ValueIn(arrays, t)
  BY <1>1, <1>2, CopyIs DEF Extends
<1> HIDE DEF c
<1>4. \A t : Fits(arrays, t) => Apart(c, t) /\ Apart(t, c)
  BY <1>2, <1>3, FreshApart DEF Slices
<1>5. /\ groups' \in Seq(Slices) /\ Len(groups') = Len(groups) + 1
      /\ \A k \in 1 .. Len(groups) : groups'[k] = groups[k]
      /\ groups'[Len(groups) + 1] = c
  BY <1>1, <1>3, AppendProperties DEF SliceInv, c
<1>6. /\ DOMAIN groups = 1 .. Len(groups) /\ Len(groups) \in Nat
      /\ DOMAIN groups' = 1 .. Len(groups) + 1
  BY <1>5, ChainsType, LenProperties DEF ChainsOfGroups
<1>7. \A k \in DOMAIN groups' : k \in DOMAIN groups \/ k = Len(groups) + 1
  BY <1>6
<1>8. SliceInv'
  <2>1. \A k \in DOMAIN groups' : Fits(arrays', groups'[k])
    BY <1>3, <1>5, <1>6, <1>7 DEF SliceInv
  <2>2. \A k, m \in DOMAIN groups' : k # m => Apart(groups'[k], groups'[m])
    BY <1>4, <1>5, <1>6, <1>7 DEF SliceInv
  <2>3. \A k \in DOMAIN groups', e \in Events : Apart(groups'[k], routes[e])
    BY <1>4, <1>5, <1>6, <1>7 DEF SliceInv
  <2>4. \A e \in Events : Fits(arrays', routes[e])
    BY <1>3 DEF SliceInv
  <2> QED
    BY <1>2, <1>3, <1>5, <2>1, <2>2, <2>3, <2>4 DEF SliceInv
<1>9. Chains' = Append(Chains, Chains[g])
  <2>1. /\ Chains' \in Seq(Seq(Handlers)) /\ Len(Chains') = Len(groups) + 1
        /\ \A k \in 1 .. Len(groups) + 1 : Chains'[k] = ValueIn(arrays', groups'[k])
    BY <1>5, <1>8, ChainsType DEF ChainsOfGroups
  <2>2. /\ Chains \in Seq(Seq(Handlers)) /\ Len(Chains) = Len(groups)
        /\ \A k \in 1 .. Len(groups) : Chains[k] = ValueIn(arrays, groups[k])
    BY ChainsType DEF ChainsOfGroups
  <2>3. Chains[g] \in Seq(Handlers)
    BY <1>6, <2>2
  <2>4. /\ Append(Chains, Chains[g]) \in Seq(Seq(Handlers))
        /\ Len(Append(Chains, Chains[g])) = Len(groups) + 1
        /\ \A k \in 1 .. Len(groups) : Append(Chains, Chains[g])[k] = Chains[k]
        /\ Append(Chains, Chains[g])[Len(groups) + 1] = Chains[g]
    BY <2>2, <2>3, AppendProperties
  <2>5. ASSUME NEW k \in 1 .. Len(groups) + 1
        PROVE  Chains'[k] = Append(Chains, Chains[g])[k]
    <3>1. CASE k \in 1 .. Len(groups)
      <4>1. groups'[k] = groups[k] /\ Fits(arrays, groups[k])
        BY <1>5, <1>6, <3>1 DEF SliceInv
      <4> QED
        BY <1>3, <2>1, <2>2, <2>4, <3>1, <4>1
    <3>2. CASE k = Len(groups) + 1
      BY <1>3, <1>5, <1>6, <2>1, <2>2, <2>4, <3>2
    <3>3. k \in 1 .. Len(groups) \/ k = Len(groups) + 1
      BY <1>6
    <3> QED
      BY <3>1, <3>2, <3>3
  <2> QED
    BY <2>1, <2>4, <2>5, SeqEqual
<1>10. Routes' = Routes
  BY <1>2, <1>3 DEF Routes, Value, SliceInv
<1> QED
  BY <1>2, <1>8, <1>9, <1>10 DEF Table!Group, Chains, Routes

LEMMA UseStep ==
  ASSUME SliceInv, NEW g \in DOMAIN groups, NEW hs \in HandlerLists, Use(g, hs)
  PROVE  SliceInv' /\ Table!Use(g)
<1>1. PICK r \in Appended(arrays, groups[g], hs) :
         arrays' = r.arrays /\ groups' = [groups EXCEPT ![g] = r.slice]
  BY DEF Use
<1> DEFINE c == r.slice
<1>2. hs \in Seq(Handlers) /\ hs \in [1 .. 1 -> Handlers] \cup [1 .. 2 -> Handlers]
  BY SeqDef, ZenonT(60) DEF HandlerLists
<1>3. /\ arrays \in Heaps /\ Fits(arrays, groups[g])
      /\ UNCHANGED <<routes, stage, runtimeRoutes>> /\ stage = "new"
  BY DEF SliceInv, Use
<1>4. Extends(arrays, groups[g], hs, r)
  BY <1>1, <1>2, <1>3, AppendedExtends
<1>5. \A t : Fits(arrays, t) /\ Apart(t, groups[g]) =>
         Fits(arrays', t) /\ ValueIn(arrays', t) = ValueIn(arrays, t)
  BY <1>1, <1>3, <1>4, Untouched
<1>6. /\ arrays' \in Heaps /\ Fits(arrays', c) /\ c \in Slices /\ c.array \in Nat
      /\ ValueIn(arrays', c) = ValueIn(arrays, groups[g]) \o hs
      /\ c.array = groups[g].array \/ c.array > Len(arrays)
  BY <1>1, <1>4 DEF Extends, Fits, Slices
<1> HIDE DEF c
<1>7. \A t : Fits(arrays, t) /\ Apart(groups[g], t) => Apart(c, t) /\ Apart(t, c)
  <2>1. CASE c.array = groups[g].array
    BY <2>1, ApartSym DEF Apart
  <2>2. CASE c.array > Len(arrays)
    BY <1>3, <1>6, <2>2, FreshApart
  <2> QED
    BY <1>6, <2>1, <2>2
<1>8. /\ DOMAIN groups = 1 .. Len(groups) /\ Len(groups) \in Nat
      /\ groups \in Seq(Slices)
  BY ChainsType DEF ChainsOfGroups, SliceInv
<1>9. /\ groups' \in Seq(Slices) /\ Len(groups') = Len(groups)
      /\ DOMAIN groups' = DOMAIN groups
      /\ \A k \in DOMAIN groups : groups'[k] = IF k = g THEN c ELSE groups[k]
  BY <1>1, <1>6, <1>8, ExceptSeq DEF c
<1>10. /\ \A k \in DOMAIN groups : k # g =>
             /\ Fits(arrays, groups[k]) /\ Apart(groups[g], groups[k])
             /\ Apart(groups[k], groups[g])
       /\ \A e \in Events : /\ Fits(arrays, routes[e]) /\ Apart(groups[g], routes[e])
                            /\ Apart(routes[e], groups[g])
  BY ApartSym DEF SliceInv
<1>11. SliceInv'
  <2>1. \A k \in DOMAIN groups : Fits(arrays', groups'[k])
    BY <1>5, <1>6, <1>9, <1>10
  <2>2. \A k, m \in DOMAIN groups : k # m => Apart(groups'[k], groups'[m])
    BY <1>7, <1>9, <1>10 DEF SliceInv
  <2>3. \A k \in DOMAIN groups, e \in Events : Apart(groups'[k], routes[e])
    BY <1>7, <1>9, <1>10 DEF SliceInv
  <2>4. \A e \in Events : Fits(arrays', routes[e])
    BY <1>5, <1>10
  <2> QED
    BY <1>3, <1>6, <1>9, <2>1, <2>2, <2>3, <2>4 DEF SliceInv
<1>12. Chains' = [Chains EXCEPT ![g] = @ \o hs]
  <2>1. \A k \in DOMAIN groups :
           Chains'[k] = IF k = g THEN Chains[k] \o hs ELSE Chains[k]
    BY <1>5, <1>6, <1>9, <1>10 DEF Chains, Value
  <2> QED
    BY <1>9, <2>1 DEF Chains
<1>13. Routes' = Routes
  BY <1>3, <1>5, <1>10 DEF Routes, Value
<1> QED
  BY <1>2, <1>3, <1>11, <1>12, <1>13 DEF Table!Use, Chains, Routes

LEMMA RegisterStep ==
  ASSUME SliceInv, NEW g \in DOMAIN groups, NEW e \in Events, NEW h \in Handlers,
         RegisterRoute(g, e, h)
  PROVE  SliceInv' /\ Table!Register(g, e, h)
<1>1. PICK copy \in Copied(arrays, groups[g]) :
         \E r \in Appended(copy.arrays, copy.slice, <<h>>) :
            arrays' = r.arrays /\ routes' = [routes EXCEPT ![e] = r.slice]
  BY DEF RegisterRoute
<1>2. PICK r \in Appended(copy.arrays, copy.slice, <<h>>) :
         arrays' = r.arrays /\ routes' = [routes EXCEPT ![e] = r.slice]
  BY <1>1
<1> DEFINE c == r.slice
<1>3. /\ arrays \in Heaps /\ Fits(arrays, groups[g]) /\ <<h>> \in Seq(Handlers)
      /\ UNCHANGED <<groups, stage, runtimeRoutes>> /\ stage = "new"
      /\ Len(arrays) \in Nat
  BY LenProperties DEF SliceInv, RegisterRoute, Heaps
<1>4. /\ copy.arrays \in Heaps /\ Len(copy.arrays) >= Len(arrays)
      /\ Fits(copy.arrays, copy.slice)
      /\ ValueIn(copy.arrays, copy.slice) = ValueIn(arrays, groups[g])
      /\ copy.slice.array \in Nat
      /\ copy.slice.array = 0 \/ copy.slice.array > Len(arrays)
      /\ \A t : Fits(arrays, t) => /\ Fits(copy.arrays, t)
                                   /\ ValueIn(copy.arrays, t) = ValueIn(arrays, t)
  BY <1>1, <1>3, CopyIs DEF Extends, Slices
<1>5. Extends(copy.arrays, copy.slice, <<h>>, r)
  BY <1>2, <1>3, <1>4, AppendedExtends
<1>6. \A t : Fits(arrays, t) => Apart(t, copy.slice)
  BY <1>3, <1>4, FreshApart
<1>7. \A t : Fits(arrays, t) => Fits(arrays', t) /\ ValueIn(arrays', t) = ValueIn(arrays, t)
  <2>1. \A t : Fits(copy.arrays, t) /\ Apart(t, copy.slice) =>
           Fits(arrays', t) /\ ValueIn(arrays', t) = ValueIn(copy.arrays, t)
    BY <1>2, <1>4, <1>5, Untouched
  <2> QED
    BY <1>4, <1>6, <2>1
<1>8. /\ arrays' \in Heaps /\ Fits(arrays', c) /\ c \in Slices /\ c.array \in Nat
      /\ ValueIn(arrays', c) = ValueIn(arrays, groups[g]) \o <<h>>
      /\ c.array = copy.slice.array \/ c.array > Len(copy.arrays)
  BY <1>2, <1>4, <1>5 DEF Extends, Fits, Slices
<1> HIDE DEF c
<1>9. c.array = 0 \/ c.array > Len(arrays)
  <2>1. Len(copy.arrays) \in Nat
    BY <1>4, LenProperties DEF Heaps
  <2> QED
    BY <1>3, <1>4, <1>8, <2>1
<1>10. \A t : Fits(arrays, t) => Apart(c, t) /\ Apart(t, c)
  BY <1>3, <1>8, <1>9, FreshApart
<1>11. /\ routes' \in [Events -> Slices]
       /\ \A f \in Events : routes'[f] = IF f = e THEN c ELSE routes[f]
  BY <1>2, <1>8 DEF SliceInv, c
<1>12. SliceInv'
  <2>1. \A k \in DOMAIN groups : Fits(arrays', groups[k])
    BY <1>7 DEF SliceInv
  <2>2. \A f \in Events : Fits(arrays', routes'[f])
    BY <1>7, <1>8, <1>11 DEF SliceInv
  <2>3. \A f, k \in Events : f # k => Apart(routes'[f], routes'[k])
    BY <1>10, <1>11 DEF SliceInv
  <2>4. \A k \in DOMAIN groups, f \in Events : Apart(groups[k], routes'[f])
    BY <1>10, <1>11 DEF SliceInv
  <2> QED
    BY <1>3, <1>8, <1>11, <2>1, <2>2, <2>3, <2>4 DEF SliceInv
<1>13. ValueIn(arrays', c) = Append(Chains[g], h)
  <2>1. ValueIn(arrays, groups[g]) \in Seq(Handlers)
    BY <1>3, ValueOf
  <2>2. Append(ValueIn(arrays, groups[g]), h) = ValueIn(arrays, groups[g]) \o <<h>>
    BY <2>1, AppendIsConcat
  <2> QED
    BY <1>8, <2>2 DEF Chains, Value
<1>14. Routes' = [Routes EXCEPT ![e] = Append(Chains[g], h)]
  <2>1. \A f \in Events : Routes'[f] = IF f = e THEN Append(Chains[g], h) ELSE Routes[f]
    BY <1>7, <1>11, <1>13 DEF Routes, Value, SliceInv
  <2> QED
    BY <2>1 DEF Routes
<1>15. Chains' = Chains
  BY <1>3, <1>7 DEF Chains, Value, SliceInv
<1> QED
  BY <1>3, <1>12, <1>14, <1>15 DEF Table!Register, Chains, Routes

LEMMA Kept == SliceInv /\ UNCHANGED routerVars =>
                 SliceInv' /\ Chains' = Chains /\ Routes' = Routes
  BY DEF SliceInv, routerVars, Chains, Routes, Value

LEMMA RouterStep ==
  ASSUME SliceInv, RouterNext
  PROVE  SliceInv' /\ [Table!Next]_(Table!vars)
<1>1. ASSUME NEW g \in DOMAIN groups, Group(g)
      PROVE  SliceInv' /\ [Table!Next]_(Table!vars)
  <2>1. SliceInv' /\ Table!Group(g)
    BY <1>1, GroupStep
  <2> QED
    BY <1>1, <2>1 DEF Table!Next
<1>2. ASSUME NEW g \in DOMAIN groups, NEW hs \in HandlerLists, Use(g, hs)
      PROVE  SliceInv' /\ [Table!Next]_(Table!vars)
  <2>1. SliceInv' /\ Table!Use(g)
    BY <1>2, UseStep
  <2> QED
    BY <1>2, <2>1 DEF Table!Next
<1>3. ASSUME NEW g \in DOMAIN groups, NEW e \in Events, NEW h \in Handlers,
             RegisterRoute(g, e, h)
      PROVE  SliceInv' /\ [Table!Next]_(Table!vars)
  <2>1. SliceInv' /\ Table!Register(g, e, h)
    BY <1>3, RegisterStep
  <2> QED
    BY <1>3, <2>1 DEF Table!Next
<1>4. CASE ClaimRun
  <2>1. /\ stage = "new" /\ stage' = "starting"
        /\ UNCHANGED <<arrays, groups, routes, runtimeRoutes>>
    BY <1>4 DEF ClaimRun
  <2>2. SliceInv' /\ Chains' = Chains /\ Routes' = Routes
    BY <2>1 DEF SliceInv, Chains, Routes, Value
  <2> QED
    BY <2>1, <2>2 DEF Table!Next, Table!Start, Chains, Routes
<1>5. CASE Freeze
  <2>1. /\ stage = "starting" /\ stage' = "frozen"
        /\ UNCHANGED <<arrays, groups, routes>>
        /\ runtimeRoutes' = [e \in Registered |-> Value(routes[e])]
    BY <1>5 DEF Freeze
  <2>2. \A e \in Registered : Value(routes[e]) \in Seq(Handlers)
    BY ValueOf DEF SliceInv, Registered, Value
  <2>3. SliceInv'
    BY <2>1, <2>2 DEF SliceInv
  <2>4. Chains' = Chains /\ Routes' = Routes
    BY <2>1 DEF Chains, Routes, Value
  <2> QED
    BY <2>1, <2>3, <2>4 DEF Table!vars, Chains, Routes
<1> QED
  BY <1>1, <1>2, <1>3, <1>4, <1>5 DEF RouterNext

LEMMA SliceStep == SliceInv /\ [Next]_vars => SliceInv' /\ [Table!Next]_(Table!vars)
<1> SUFFICES ASSUME SliceInv, [Next]_vars
             PROVE  SliceInv' /\ [Table!Next]_(Table!vars)
  OBVIOUS
<1>1. CASE RouterNext
  BY <1>1, RouterStep
<1>2. CASE UNCHANGED routerVars
  <2>1. SliceInv' /\ Chains' = Chains /\ Routes' = Routes
    BY <1>2, Kept
  <2> QED
    BY <1>2, <2>1 DEF Table!vars, Chains, Routes, routerVars
<1>3. RouterNext \/ UNCHANGED routerVars
  BY DEF Next, HandleRequest, WorkerCallsNext, LoopCalls, LoopEnds,
      HandlerCallsNext,
         HandlerReturns, HandlerPanics, Recover, Unwind
<1> QED
  BY <1>1, <1>2, <1>3

-----------------------------------------------------------------------------
LEMMA InitInv == Init => IInv
<1> SUFFICES ASSUME Init PROVE IInv
  OBVIOUS
<1>1. SliceInv
  <2>1. /\ arrays = <<>> /\ groups = <<NilSlice>> /\ routes = [e \in Events |-> NilSlice]
        /\ runtimeRoutes = [e \in {} |-> <<>>]
    BY DEF Init, RouterInit
  <2>2. arrays \in Heaps /\ NilSlice \in Slices /\ Fits(arrays, NilSlice)
    BY <2>1 DEF Heaps, NilSlice, Slices, Fits
  <2>3. groups \in Seq(Slices) /\ DOMAIN groups = 1 .. 1 /\ groups[1] = NilSlice
    BY <2>1, <2>2
  <2>4. \A s : Apart(NilSlice, s)
    BY DEF Apart, NilSlice
  <2> QED
    BY <2>1, <2>2, <2>3, <2>4 DEF SliceInv
<1>2. ChainType /\ StackInv /\ RanInv
  <2>1. ChainType
    <3>1. /\ handlers = <<>> /\ ran = <<>> /\ stack = <<>> /\ step = -1
          /\ outcome = "none" /\ panicking \in BOOLEAN
      BY DEF Init
    <3> QED
      BY <3>1 DEF ChainType
  <2>2. StackInv
    BY DEF Init, StackInv, Alternates
  <2>3. RanInv
    BY DEF Init, RanInv
  <2> QED
    BY <2>1, <2>2, <2>3
<1>3. DepthInv /\ ShieldInv
  BY DEF Init, DepthInv, Nested, Exhausted, InHandler, ShieldInv, Active
<1> QED
  BY <1>1, <1>2, <1>3 DEF IInv

LEMMA NextInv == IInv /\ [Next]_vars => IInv'
  BY SliceStep, NextChainType, NextStackInv, NextRanInv, NextDepthInv,
      NextShieldInv
  DEF IInv

(* The inductive invariant holds of every behaviour of the router and of a *)
(* request on it.                                                          *)
THEOREM Inductive == Spec => []IInv
  BY InitInv, NextInv, PTL DEF Spec

(* Context.Next runs the handlers of a request in order, none twice and    *)
(* none left out, whatever they call and whatever is recovered.            *)
THEOREM HandlersRunOnce == Spec => []RunsOnceInOrder
<1>1. IInv => RunsOnceInOrder
  <2> SUFFICES ASSUME IInv PROVE RunsOnceInOrder
    OBVIOUS
  <2>1. ChainType /\ RanInv
    BY DEF IInv
  <2>2. ran = [i \in 1 .. Len(ran) |-> ran[i]]
    BY <2>1, LenProperties DEF ChainType
  <2>3. [i \in 1 .. Len(ran) |-> ran[i]] = [i \in 1 .. Len(ran) |-> i - 1]
    BY <2>1 DEF RanInv
  <2>4. outcome = "completed" => Len(ran) = Len(handlers)
    BY <2>1 DEF RanInv
  <2> QED
    BY <2>2, <2>3, <2>4 DEF RunsOnceInOrder
<1> QED
  BY <1>1, Inductive, PTL

(* A panic ends the process only when every Recovery in front of the       *)
(* handler that panicked has been used up by an earlier panic.             *)
THEOREM RecoveryContainsPanics == Spec => []PanicContained
<1>1. IInv => PanicContained
  <2> SUFFICES ASSUME IInv, outcome = "crashed"
               PROVE  {i \in 0 .. panicked - 1 : At(i) = "recovery"} \subseteq recovered
    BY DEF PanicContained
  <2>1. StackInv /\ ShieldInv
    BY DEF IInv
  <2>2. stack = <<>> /\ panicking
    BY <2>1 DEF StackInv
  <2>3. Active = {}
    BY <2>2 DEF Active
  <2> QED
    BY <2>1, <2>2, <2>3 DEF ShieldInv, Guarded
<1> QED
  BY <1>1, Inductive, PTL

(* Group, Use, RegisterRoute and Run on shared slices implement RouteTable, *)
(* where groups and routes are values.                                      *)
THEOREM ImplementsRouteTable == Spec => RoutesAsRegistered
<1>1. Init => Table!Init
  <2> SUFFICES ASSUME Init PROVE Table!Init
    OBVIOUS
  <2>1. /\ groups = <<NilSlice>> /\ routes = [e \in Events |-> NilSlice] /\ stage = "new"
    BY DEF Init, RouterInit
  <2>2. Value(NilSlice) = <<>>
    BY DEF Value, ValueIn, NilSlice
  <2>3. Routes = [e \in Events |-> <<>>]
    BY <2>1, <2>2 DEF Routes
  <2>4. Chains = << <<>> >>
    BY <2>1, <2>2 DEF Chains
  <2> QED
    BY <2>1, <2>3, <2>4 DEF Table!Init, Chains, Routes
<1>2. IInv /\ [Next]_vars => [Table!Next]_(Table!vars)
  BY SliceStep DEF IInv
<1> QED
  BY <1>1, <1>2, Inductive, PTL DEF Spec, RoutesAsRegistered, Table!Spec

=============================================================================
