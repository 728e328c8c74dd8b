---------------------------- MODULE HandlerChain ----------------------------
(***************************************************************************)
(* One request on a server whose routes are those of module Router: the    *)
(* lookup of handleRequest, the worker's call of Context.Next, the call    *)
(* stack of nested Next loops and handlers, panics, and the Recovery       *)
(* middleware.  Any other handler may call Next any number of times,       *)
(* return, or panic, at any point; the Logger middleware is one of them:   *)
(* it calls Next once, and its formatter and writer may panic afterwards.  *)
(***************************************************************************)
EXTENDS Router, Integers

CONSTANTS MaxNext,  \* bound: calls of Next by one handler
          MaxChain  \* bound: handlers of the route of the request

VARIABLES
    outcome,    \* "none", "queued", "running", "completed", "crashed"
    handlers,   \* c.handlers
    step,       \* c.step
    stack,      \* the active calls: [kind, index, calls], the innermost last
    panicking,  \* a panic is unwinding the stack
    ran,        \* history: indices of the handlers that were called
    panicked,   \* history: index of the handler that panicked last
    recovered   \* history: indices of the Recovery handlers that recovered

chainVars == <<outcome, handlers, step, stack, panicking, ran, panicked, recovered>>
vars == <<routerVars, chainVars>>

Init ==
    /\ RouterInit
    /\ outcome = "none" /\ handlers = <<>> /\ step = -1 /\ stack = <<>>
    /\ panicking = FALSE /\ ran = <<>> /\ panicked = -1 /\ recovered = {}

\* c.handlers[i], indexed from 0.
At(i) == handlers[i + 1]

Top == stack[Len(stack)]
Popped == SubSeq(stack, 1, Len(stack) - 1)
InHandler == outcome = "running" /\ ~ panicking /\ Top.kind = "handler"
NextCall == [kind |-> "Next", index |-> 0, calls |-> 0]

\* handleRequest: the handlers of the event, or the one that answers 404.
HandleRequest(e) ==
    /\ stage = "frozen" /\ outcome = "none"
    /\ handlers' = IF e \in DOMAIN runtimeRoutes THEN runtimeRoutes[e] ELSE <<"notFound">>
    /\ Len(handlers') <= MaxChain
    /\ outcome' = "queued"
    /\ UNCHANGED <<routerVars, step, stack, panicking, ran, panicked, recovered>>

WorkerCallsNext ==
    /\ outcome = "queued"
    /\ outcome' = "running"
    /\ step' = step + 1
    /\ stack' = <<NextCall>>
    /\ UNCHANGED <<routerVars, handlers, panicking, ran, panicked, recovered>>

\* The loop of Next calls the handler of the current step ...
LoopCalls ==
    /\ outcome = "running" /\ ~ panicking /\ Top.kind = "Next"
    /\ step < Len(handlers)
    /\ stack' = Append(stack, [kind |-> "handler", index |-> step, calls |-> 0])
    /\ ran' = Append(ran, step)
    /\ UNCHANGED <<routerVars, outcome, handlers, step, panicking, panicked, recovered>>

\* ... or ends, and Next returns.
LoopEnds ==
    /\ outcome = "running" /\ ~ panicking /\ Top.kind = "Next"
    /\ step >= Len(handlers)
    /\ stack' = Popped
    /\ outcome' = IF Popped = <<>> THEN "completed" ELSE outcome
    /\ UNCHANGED <<routerVars, handlers, step, panicking, ran, panicked, recovered>>

BugNextCalls(h) == IF h \in {"recovery", "notFound"} THEN {0} ELSE 0 .. MaxNext

\* How often a handler calls Next: Recovery once.
NextCalls(h) ==
    CASE h = "recovery" -> {1}
      [] h = "notFound" -> {0}
      [] OTHER -> 0 .. MaxNext

BugHandlerCallsNext ==
    /\ InHandler
    /\ \E n \in NextCalls(At(Top.index)) : Top.calls < n
    /\ stack' = Append([stack EXCEPT ![Len(stack)].calls = @ + 1], NextCall)
    /\ UNCHANGED <<routerVars, outcome, handlers, step, panicking, ran, panicked, recovered>>

HandlerCallsNext ==
    /\ InHandler
    /\ \E n \in NextCalls(At(Top.index)) : Top.calls < n
    /\ step' = step + 1
    /\ stack' = Append([stack EXCEPT ![Len(stack)].calls = @ + 1], NextCall)
    /\ UNCHANGED <<routerVars, outcome, handlers, panicking, ran, panicked, recovered>>

\* The handler returns to the loop, which moves to the next step.
ReturnToLoop ==
    /\ stack' = Popped
    /\ step' = step + 1

HandlerReturns ==
    /\ InHandler
    /\ Top.calls \in NextCalls(At(Top.index))
    /\ ReturnToLoop
    /\ UNCHANGED <<routerVars, outcome, handlers, panicking, ran, panicked, recovered>>

HandlerPanics ==
    /\ InHandler
    /\ At(Top.index) \notin {"recovery", "notFound"}
    /\ panicking' = TRUE
    /\ panicked' = Top.index
    /\ UNCHANGED <<routerVars, outcome, handlers, step, stack, ran, recovered>>

Unwinding == outcome = "running" /\ panicking
Recovers == Top.kind = "handler" /\ At(Top.index) = "recovery"

\* The deferred recover of Recovery: it answers 500 and the handler returns
\* normally, to a loop that goes on with the handlers after the one that panicked.
Recover ==
    /\ Unwinding /\ Recovers
    /\ panicking' = FALSE
    /\ recovered' = recovered \cup {Top.index}
    /\ ReturnToLoop
    /\ UNCHANGED <<routerVars, outcome, handlers, ran, panicked>>

\* Nothing recovers between here and the worker's goroutine: the process ends.
Unwind ==
    /\ Unwinding /\ ~ Recovers
    /\ stack' = Popped
    /\ outcome' = IF Popped = <<>> THEN "crashed" ELSE outcome
    /\ UNCHANGED <<routerVars, handlers, step, panicking, ran, panicked, recovered>>

Next ==
    \/ outcome = "none" /\ RouterNext /\ UNCHANGED chainVars
    \/ \E e \in Events : HandleRequest(e)
    \/ WorkerCallsNext
    \/ LoopCalls
    \/ LoopEnds
    \/ HandlerCallsNext
    \/ HandlerReturns
    \/ HandlerPanics
    \/ Recover
    \/ Unwind

Spec == Init /\ [][Next]_vars
----------------------------------------------------------------------------
(* Properties.                                                             *)

\* However often Next is called and whatever panics are recovered, the handlers
\* of a request run in order, none twice and none left out, and a request that
\* completes has run them all (context.go, Next; recovery.go).
RunsOnceInOrder ==
    /\ ran = [i \in 1 .. Len(ran) |-> i - 1]
    /\ outcome = "completed" => Len(ran) = Len(handlers)

\* A panic ends the process only if every Recovery handler in front of the one
\* that panicked has already recovered a panic of this request: each protects the
\* handlers behind it once (recovery.go, Recovery).
PanicContained ==
    outcome = "crashed" =>
        {i \in 0 .. panicked - 1 : At(i) = "recovery"} \subseteq recovered
=============================================================================
