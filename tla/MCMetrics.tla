----------------------------- MODULE MCMetrics ------------------------------
(* Metrics with counters of 0 .. 5 and durations of 0 .. 2.                 *)
EXTENDS Metrics, TLC

\* The callers are interchangeable: Calls and Init name none of them.
CallerSymmetry == Permutations(Callers)

MCFieldOrder ==
    <<"activeConnections", "completedRequests", "totalRequestDuration",
      "maximumRequestDuration">>

\* A new server, and one whose counters are close to their limits.
MCAges ==
    {[f \in Fields |-> 0],
     [f \in Fields |-> CASE f = "activeConnections" -> 1
                         [] f \in {"totalRequestDuration", "maximumRequestDuration"} -> 1
                         [] OTHER -> 4]}

Call(op, amount) == [op |-> op, amount |-> amount]
MCCalls ==
    {Call("connectionOpened", 0), Call("connectionClosed", 0),
     Call("requestCompleted", 1), Call("requestCompleted", 2)}
=============================================================================
