---------------------------- MODULE TaskDispatch ----------------------------
(***************************************************************************)
(* What the worker pool promises to the rest of ramix, with neither        *)
(* workers nor queues: requests of one connection run one at a time and in *)
(* the order they were accepted, an accepted request is dropped only once  *)
(* its context is cancelled, intake opens at most once, and the pool is    *)
(* reported drained only when nothing is left.                             *)
(* WorkerPool implements this module (WorkerPool!Dispatch).                *)
(***************************************************************************)
EXTENDS Naturals

CONSTANTS Connections,  \* connection IDs
          MaxRequests   \* bound on the requests of one connection

Task == [conn : Connections, seq : 1..MaxRequests]

VARIABLES intake,    \* "new", "open" or "closed"
          accepted,  \* accepted[c]: how many requests of c were accepted
          pending,   \* accepted tasks whose handlers have not started
          running,   \* tasks whose handlers are executing
          revoked,   \* tasks whose context is cancelled
          drained    \* the pool has announced that it is drained

vars == <<intake, accepted, pending, running, revoked, drained>>

Init ==
    /\ intake = "new"
    /\ accepted = [c \in Connections |-> 0]
    /\ pending = {}
    /\ running = {}
    /\ revoked = {}
    /\ drained = FALSE

(* Intake opens once and closes for good. *)
Open ==
    /\ intake = "new"
    /\ intake' = "open"
    /\ UNCHANGED <<accepted, pending, running, revoked, drained>>

Close ==
    /\ intake' = "closed"
    /\ UNCHANGED <<accepted, pending, running, revoked, drained>>

(* The next request of a connection is taken in. *)
Accept(t) ==
    /\ intake = "open"
    /\ t.seq = accepted[t.conn] + 1
    /\ accepted' = [accepted EXCEPT ![t.conn] = t.seq]
    /\ pending' = pending \cup {t}
    /\ UNCHANGED <<intake, running, revoked, drained>>

(* t is the oldest unstarted request of its connection and no other one of *)
(* that connection is executing.                                           *)
Turn(t) ==
    /\ t \in pending
    /\ \A u \in pending : u.conn = t.conn => t.seq <= u.seq
    /\ \A u \in running : u.conn # t.conn

Start(t) ==
    /\ Turn(t)
    /\ t \notin revoked
    /\ pending' = pending \ {t}
    /\ running' = running \cup {t}
    /\ UNCHANGED <<intake, accepted, revoked, drained>>

Drop(t) ==
    /\ Turn(t)
    /\ t \in revoked
    /\ pending' = pending \ {t}
    /\ UNCHANGED <<intake, accepted, running, revoked, drained>>

Finish(t) ==
    /\ t \in running
    /\ running' = running \ {t}
    /\ UNCHANGED <<intake, accepted, pending, revoked, drained>>

(* Cancellation may strike any set of tasks at any time. *)
Revoke ==
    /\ revoked \subseteq revoked'
    /\ revoked' \subseteq Task
    /\ UNCHANGED <<intake, accepted, pending, running, drained>>

(* The pool may be closed and found empty in a single step, as it is when  *)
(* it is drained before it was ever started.                               *)
Drained ==
    /\ intake' = "closed"
    /\ pending = {}
    /\ running = {}
    /\ drained' = TRUE
    /\ UNCHANGED <<accepted, pending, running, revoked>>

Next ==
    \/ Open
    \/ Close
    \/ Revoke
    \/ Drained
    \/ \E t \in Task : Accept(t) \/ Start(t) \/ Drop(t) \/ Finish(t)

Spec == Init /\ [][Next]_vars
=============================================================================
