-------------------------- MODULE ServerLifecycle ---------------------------
(***************************************************************************)
(* The life of a Server: Run, Shutdown, rollbackStartup, startShutdown and *)
(* shutdownOwner of server.go, with the accept services they launch and    *)
(* the registration calls that server_state.go freezes.                    *)
(*                                                                         *)
(* Goroutines: the callers of Run, the callers of Shutdown, one service    *)
(* per transport, and the shutdown owner.  Sections under stateMu are one  *)
(* action each.  What the owner does to the pool and to the connections is *)
(* one step here (OwnerWork): WorkerPool and Connection have the detail.   *)
(***************************************************************************)
EXTENDS Naturals, FiniteSets

CONSTANTS Transports,  \* the transports to bind
          Runners,     \* goroutines that call Run
          Stoppers,    \* goroutines that call Shutdown
          MaxChanges   \* bound: registrations of hooks and routes

ASSUME ServerLifecycleAssumption ==
    /\ IsFiniteSet(Transports) /\ Transports # {}
    /\ MaxChanges \in Nat

VARIABLES
    state,            \* s.state
    stopRequested,    \* s.stopRequested
    startupDone,      \* s.startupDone is closed
    shutdownDone,     \* s.shutdownDone is closed
    shutdownErr,      \* s.shutdownErr
    bound,            \* transports whose listener was bound
    listening,        \* listeners not closed
    pool,             \* the worker pool: "new", "started" or "draining"
    setups,           \* s.acceptingSetups
    service,          \* service[t]: the accept goroutine of t
    runtimeErr,       \* errors waiting in the runtimeErr channel
    failed,           \* a service failed before shutdownDone was closed
    config,           \* number of registrations made
    runtime,          \* the registrations Run froze
    runPc,            \* runPc[r]: where the caller of Run is
    runCtx,           \* runCtx[r]: r's context is cancelled
    cause,            \* cause[r]: the runtime error r has received
    stopPc,           \* stopPc[s]: where the caller of Shutdown is
    ownerStarted,     \* shutdownStartOnce has fired
    ownerPc,          \* where the shutdown owner is
    expired,          \* ShutdownTimeout has passed
    timedOut          \* the owner's timedOut

runVars == <<runPc, runCtx, cause>>
ownerVars == <<ownerStarted, ownerPc, expired, timedOut>>
doneVars == <<startupDone, shutdownDone, shutdownErr>>
netVars == <<bound, listening, service, runtimeErr, failed>>
configVars == <<config, runtime>>
vars == <<state, stopRequested, doneVars, netVars, pool, setups, configVars,
          runVars, stopPc, ownerVars>>

Init ==
    /\ state = "new"
    /\ stopRequested = FALSE
    /\ startupDone = FALSE /\ shutdownDone = FALSE /\ shutdownErr = "nil"
    /\ bound = {} /\ listening = {}
    /\ pool = "new" /\ setups = FALSE
    /\ service = [t \in Transports |-> "off"]
    /\ runtimeErr = 0 /\ failed = FALSE
    /\ config = 0 /\ runtime = 0
    /\ runPc = [r \in Runners |-> "idle"]
    /\ runCtx = [r \in Runners |-> FALSE]
    /\ cause = [r \in Runners |-> FALSE]
    /\ stopPc = [s \in Stoppers |-> "idle"]
    /\ ownerStarted = FALSE /\ ownerPc = "off"
    /\ expired = FALSE /\ timedOut = FALSE

RunGo(r, label) == runPc' = [runPc EXCEPT ![r] = label]

-----------------------------------------------------------------------------
(* Plausible bugs, used only to show that the properties can fail.  Each   *)
(* one takes the place of the definition it is named after.                *)

(* A registration is refused only once the server runs. *)
BugRegister ==
    /\ state \in {"new", "starting", "running"}
    /\ config < MaxChanges
    /\ config' = config + 1
    /\ UNCHANGED <<state, stopRequested, doneVars, netVars, pool, setups,
                   runtime, runVars, stopPc, ownerVars>>

(* running is published without another look at stopRequested. *)
BugPublish(r) ==
    /\ runPc[r] = "publish"
    /\ ~runCtx[r]
    /\ pool' = "started"
    /\ setups' = TRUE
    /\ service' = [t \in Transports |-> IF t \in bound THEN "serving" ELSE "off"]
    /\ state' = "running"
    /\ startupDone' = TRUE
    /\ RunGo(r, "serve")
    /\ UNCHANGED <<stopRequested, shutdownDone, shutdownErr, bound, listening,
                   runtimeErr, failed, configVars, runCtx, cause, stopPc,
                   ownerVars>>

(* The rollback forgets the listeners that were already bound ... *)
BugRollbackClose(r) ==
    /\ runPc[r] = "rollback"
    /\ RunGo(r, "rolledBack")
    /\ UNCHANGED <<state, stopRequested, doneVars, netVars, pool, setups,
                   configVars, runCtx, cause, stopPc, ownerVars>>

(* ... or those who wait for startup. *)
BugRollbackStop(r) ==
    /\ runPc[r] = "rolledBack"
    /\ state' = "stopped"
    /\ shutdownErr' = "nil"
    /\ shutdownDone' = TRUE
    /\ RunGo(r, "returned")
    /\ UNCHANGED <<startupDone, stopRequested, netVars, pool, setups,
                   configVars, runCtx, cause, stopPc, ownerVars>>

(* startShutdown stores stopping whatever the state. *)
BugStartShutdown(r) ==
    /\ runPc[r] = "stop"
    /\ state' = "stopping"
    /\ RunGo(r, "own")
    /\ UNCHANGED <<stopRequested, doneVars, netVars, pool, setups, configVars,
                   runCtx, cause, stopPc, ownerVars>>

(* Run looks at runtimeErr only in its select. *)
BugRunReturns(r) ==
    /\ runPc[r] \in {"serve", "await"}
    /\ shutdownDone
    /\ RunGo(r, "returned")
    /\ UNCHANGED <<state, stopRequested, doneVars, netVars, pool, setups,
                   configVars, runCtx, cause, stopPc, ownerVars>>

(* Shutdown leaves it to Run to start the owner. *)
BugShutdownOwns(s) ==
    /\ stopPc[s] = "own"
    /\ stopPc' = [stopPc EXCEPT ![s] = "awaitStop"]
    /\ UNCHANGED <<state, stopRequested, doneVars, netVars, pool, setups,
                   configVars, runVars, ownerVars>>

-----------------------------------------------------------------------------
(* OnConnectionOpen, OnConnectionClose, OnConnectionError, RegisterRoute:  *)
(* refused unless the server is new (mutationErrorLocked).                 *)
Register ==
    /\ state = "new"
    /\ config < MaxChanges
    /\ config' = config + 1
    /\ UNCHANGED <<state, stopRequested, doneVars, netVars, pool, setups,
                   runtime, runVars, stopPc, ownerVars>>

(* The context given to Run is cancelled, at any time. *)
CancelRun(r) ==
    /\ ~runCtx[r]
    /\ runCtx' = [runCtx EXCEPT ![r] = TRUE]
    /\ UNCHANGED <<state, stopRequested, doneVars, netVars, pool, setups,
                   configVars, runPc, cause, stopPc, ownerVars>>

-----------------------------------------------------------------------------
(* Run: startup *)

(* claimRun refuses a server that is not new. *)
ClaimRefused(r) ==
    /\ runPc[r] = "idle"
    /\ state # "new"
    /\ RunGo(r, "refused")
    /\ UNCHANGED <<state, stopRequested, doneVars, netVars, pool, setups,
                   configVars, runCtx, cause, stopPc, ownerVars>>

ClaimRun(r) ==
    /\ runPc[r] = "idle"
    /\ state = "new"
    /\ state' = "starting"
    /\ RunGo(r, "prepare")
    /\ UNCHANGED <<stopRequested, doneVars, netVars, pool, setups,
                   configVars, runCtx, cause, stopPc, ownerVars>>

(* Validation of the options, freezing of routes and hooks, and the        *)
(* WebSocket mux: an error rolls back, so does a cancellation seen here.   *)
Prepare(r) ==
    /\ runPc[r] = "prepare"
    /\ runtime' = config
    /\ \/ RunGo(r, "rollback")
       \/ ~stopRequested /\ ~runCtx[r] /\ RunGo(r, "bind")
    /\ UNCHANGED <<state, stopRequested, doneVars, netVars, pool, setups,
                   config, runCtx, cause, stopPc, ownerVars>>

(* One turn of the loop of bindTransports: startupCanceled, then listen.   *)
BindCanceled(r) ==
    /\ runPc[r] = "bind"
    /\ bound # Transports
    /\ stopRequested \/ runCtx[r]
    /\ RunGo(r, "rollback")
    /\ UNCHANGED <<state, stopRequested, doneVars, netVars, pool, setups,
                   configVars, runCtx, cause, stopPc, ownerVars>>

BindChecked(r) ==
    /\ runPc[r] = "bind"
    /\ bound # Transports
    /\ ~stopRequested /\ ~runCtx[r]
    /\ RunGo(r, "listen")
    /\ UNCHANGED <<state, stopRequested, doneVars, netVars, pool, setups,
                   configVars, runCtx, cause, stopPc, ownerVars>>

Listen(r) ==
    /\ runPc[r] = "listen"
    /\ \E t \in Transports \ bound :
          /\ bound' = bound \cup {t}
          /\ listening' = listening \cup {t}
    /\ RunGo(r, "bind")
    /\ UNCHANGED <<state, stopRequested, doneVars, service, runtimeErr, failed,
                   pool, setups, configVars, runCtx, cause, stopPc, ownerVars>>

ListenFails(r) ==
    /\ runPc[r] = "listen"
    /\ RunGo(r, "rollback")
    /\ UNCHANGED <<state, stopRequested, doneVars, netVars, pool, setups,
                   configVars, runCtx, cause, stopPc, ownerVars>>

(* All are bound: applyTLS may fail, startupCanceled may strike. *)
Bound(r) ==
    /\ runPc[r] = "bind"
    /\ bound = Transports
    /\ \/ RunGo(r, "rollback")
       \/ ~stopRequested /\ ~runCtx[r] /\ RunGo(r, "publish")
    /\ UNCHANGED <<state, stopRequested, doneVars, netVars, pool, setups,
                   configVars, runCtx, cause, stopPc, ownerVars>>

(* The last look at stopRequested and the move to running are one section  *)
(* under stateMu, which also starts the pool and the services.             *)
PublishCanceled(r) ==
    /\ runPc[r] = "publish"
    /\ stopRequested \/ runCtx[r]
    /\ RunGo(r, "rollback")
    /\ UNCHANGED <<state, stopRequested, doneVars, netVars, pool, setups,
                   configVars, runCtx, cause, stopPc, ownerVars>>

Publish(r) ==
    /\ runPc[r] = "publish"
    /\ ~stopRequested /\ ~runCtx[r]
    /\ pool' = "started"
    /\ setups' = TRUE
    /\ service' = [t \in Transports |-> IF t \in bound THEN "serving" ELSE "off"]
    /\ state' = "running"
    /\ startupDone' = TRUE
    /\ RunGo(r, "serve")
    /\ UNCHANGED <<stopRequested, shutdownDone, shutdownErr, bound, listening,
                   runtimeErr, failed, configVars, runCtx, cause, stopPc,
                   ownerVars>>

(* rollbackStartup: close what was bound, then publish the end. *)
RollbackClose(r) ==
    /\ runPc[r] = "rollback"
    /\ listening' = {}
    /\ RunGo(r, "rolledBack")
    /\ UNCHANGED <<state, stopRequested, doneVars, bound, service, runtimeErr,
                   failed, pool, setups, configVars, runCtx, cause, stopPc,
                   ownerVars>>

RollbackStop(r) ==
    /\ runPc[r] = "rolledBack"
    /\ state' = "stopped"
    /\ shutdownErr' = "nil"
    /\ startupDone' = TRUE /\ shutdownDone' = TRUE
    /\ RunGo(r, "returned")
    /\ UNCHANGED <<stopRequested, netVars, pool, setups, configVars, runCtx,
                   cause, stopPc, ownerVars>>

-----------------------------------------------------------------------------
(* Run: the select, startShutdown and the result *)

RunCanceled(r) ==
    /\ runPc[r] = "serve"
    /\ runCtx[r]
    /\ RunGo(r, "stop")
    /\ UNCHANGED <<state, stopRequested, doneVars, netVars, pool, setups,
                   configVars, runCtx, cause, stopPc, ownerVars>>

RunFailed(r) ==
    /\ runPc[r] = "serve"
    /\ runtimeErr > 0
    /\ runtimeErr' = runtimeErr - 1
    /\ cause' = [cause EXCEPT ![r] = TRUE]
    /\ RunGo(r, "stop")
    /\ UNCHANGED <<state, stopRequested, doneVars, bound, listening, service,
                   failed, pool, setups, configVars, runCtx, stopPc, ownerVars>>

(* startShutdown, which may come after somebody else's shutdown is over:   *)
(* the select takes any ready case.                                        *)
StartShutdown(r) ==
    /\ runPc[r] = "stop"
    /\ state' = IF state = "running" THEN "stopping" ELSE state
    /\ RunGo(r, "own")
    /\ UNCHANGED <<stopRequested, doneVars, netVars, pool, setups, configVars,
                   runCtx, cause, stopPc, ownerVars>>

(* shutdownStartOnce.Do *)
LaunchOwner ==
    IF ownerStarted THEN UNCHANGED <<ownerStarted, ownerPc>>
    ELSE ownerStarted' = TRUE /\ ownerPc' = "stopPool"

RunOwns(r) ==
    /\ runPc[r] = "own"
    /\ LaunchOwner
    /\ RunGo(r, "await")
    /\ UNCHANGED <<state, stopRequested, doneVars, netVars, pool, setups,
                   configVars, runCtx, cause, stopPc, expired, timedOut>>

(* shutdownDone; a runtime error that is waiting is still picked up. *)
RunReturns(r) ==
    /\ runPc[r] \in {"serve", "await"}
    /\ shutdownDone
    /\ IF ~cause[r] /\ runtimeErr > 0
       THEN runtimeErr' = runtimeErr - 1 /\ cause' = [cause EXCEPT ![r] = TRUE]
       ELSE UNCHANGED <<runtimeErr, cause>>
    /\ RunGo(r, "returned")
    /\ UNCHANGED <<state, stopRequested, doneVars, bound, listening, service,
                   failed, pool, setups, configVars, runCtx, stopPc, ownerVars>>

-----------------------------------------------------------------------------
(* The accept services: they end quietly once their listener is closed, or *)
(* with an error at any time, which runtimeErr always has room for.        *)

ServiceEnds(t) ==
    /\ service[t] = "serving"
    /\ t \notin listening
    /\ service' = [service EXCEPT ![t] = "ended"]
    /\ UNCHANGED <<state, stopRequested, doneVars, bound, listening, runtimeErr,
                   failed, pool, setups, configVars, runVars, stopPc, ownerVars>>

ServiceFails(t) ==
    /\ service[t] = "serving"
    /\ service' = [service EXCEPT ![t] = "ended"]
    /\ runtimeErr' = IF runtimeErr < Cardinality(Transports)
                     THEN runtimeErr + 1 ELSE runtimeErr
    /\ failed' = (failed \/ ~shutdownDone)
    /\ UNCHANGED <<state, stopRequested, doneVars, bound, listening, pool,
                   setups, configVars, runVars, stopPc, ownerVars>>

-----------------------------------------------------------------------------
(* Shutdown *)

StopGo(s, label) == stopPc' = [stopPc EXCEPT ![s] = label]

(* The switch under stateMu. *)
ShutdownEnter(s) ==
    /\ stopPc[s] = "idle"
    /\ StopGo(s, CASE state = "new" -> "noop"
                   [] state = "starting" -> "awaitStartup"
                   [] state = "running" -> "own"
                   [] state = "stopping" -> "awaitStop"
                   [] state = "stopped" -> shutdownErr)
    /\ stopRequested' = (stopRequested \/ state = "starting")
    /\ state' = IF state = "running" THEN "stopping" ELSE state
    /\ UNCHANGED <<doneVars, netVars, pool, setups, configVars, runVars, ownerVars>>

ShutdownOwns(s) ==
    /\ stopPc[s] = "own"
    /\ LaunchOwner
    /\ StopGo(s, "awaitStop")
    /\ UNCHANGED <<state, stopRequested, doneVars, netVars, pool, setups,
                   configVars, runVars, expired, timedOut>>

ShutdownReturns(s) ==
    /\ \/ stopPc[s] = "awaitStartup" /\ startupDone
       \/ stopPc[s] = "awaitStop" /\ shutdownDone
    /\ StopGo(s, shutdownErr)
    /\ UNCHANGED <<state, stopRequested, doneVars, netVars, pool, setups,
                   configVars, runVars, ownerVars>>

(* The caller's own context ends the wait, never the shutdown. *)
ShutdownGivesUp(s) ==
    /\ stopPc[s] \in {"awaitStartup", "awaitStop"}
    /\ StopGo(s, "ctxErr")
    /\ UNCHANGED <<state, stopRequested, doneVars, netVars, pool, setups,
                   configVars, runVars, ownerVars>>

-----------------------------------------------------------------------------
(* shutdownOwner *)

OwnerGo(label) == ownerPc' = label

Expire ==
    /\ ownerPc \notin {"off", "exit"}
    /\ ~expired
    /\ expired' = TRUE
    /\ UNCHANGED <<state, stopRequested, doneVars, netVars, pool, setups,
                   configVars, runVars, stopPc, ownerStarted, ownerPc, timedOut>>

(* workerPool.stopAccepting, then stopConnectionSetups. *)
OwnerStopsIntake ==
    /\ ownerPc = "stopPool"
    /\ pool' = "draining"
    /\ setups' = FALSE
    /\ OwnerGo("closeServing")
    /\ UNCHANGED <<state, stopRequested, doneVars, netVars, configVars, runVars,
                   stopPc, ownerStarted, expired, timedOut>>

OwnerClosesServing ==
    /\ ownerPc = "closeServing"
    /\ listening' = {}
    /\ OwnerGo("work")
    /\ UNCHANGED <<state, stopRequested, doneVars, bound, service, runtimeErr,
                   failed, pool, setups, configVars, runVars, stopPc,
                   ownerStarted, expired, timedOut>>

(* Setups are awaited, reads quiesced, the pool and the writers drained,   *)
(* connections closed and awaited; each wait ends at the timeout.          *)
OwnerWork ==
    /\ ownerPc = "work"
    /\ timedOut' \in {FALSE, expired}
    /\ OwnerGo("services")
    /\ UNCHANGED <<state, stopRequested, doneVars, netVars, pool, setups,
                   configVars, runVars, stopPc, ownerStarted, expired>>

OwnerAwaitsServices ==
    /\ ownerPc = "services"
    /\ \/ (\A t \in Transports : service[t] # "serving") /\ UNCHANGED timedOut
       \/ expired /\ timedOut' = TRUE
    /\ OwnerGo("publish")
    /\ UNCHANGED <<state, stopRequested, doneVars, netVars, pool, setups,
                   configVars, runVars, stopPc, ownerStarted, expired>>

OwnerPublishes ==
    /\ ownerPc = "publish"
    /\ shutdownErr' = IF timedOut THEN "timeout" ELSE shutdownErr
    /\ state' = "stopped"
    /\ shutdownDone' = TRUE
    /\ OwnerGo("exit")
    /\ UNCHANGED <<stopRequested, startupDone, netVars, pool, setups,
                   configVars, runVars, stopPc, ownerStarted, expired, timedOut>>

-----------------------------------------------------------------------------
RunStartup(r) ==
    \/ Prepare(r) \/ BindCanceled(r) \/ BindChecked(r)
    \/ Listen(r) \/ ListenFails(r) \/ Bound(r)
    \/ PublishCanceled(r) \/ Publish(r)
    \/ RollbackClose(r) \/ RollbackStop(r)

RunService(r) ==
    \/ RunCanceled(r) \/ RunFailed(r) \/ StartShutdown(r) \/ RunOwns(r)
    \/ RunReturns(r)

RunStep(r) == ClaimRefused(r) \/ ClaimRun(r) \/ RunStartup(r) \/ RunService(r)

StopStep(s) ==
    \/ ShutdownEnter(s) \/ ShutdownOwns(s) \/ ShutdownReturns(s)
    \/ ShutdownGivesUp(s)

OwnerStep ==
    \/ OwnerStopsIntake \/ OwnerClosesServing \/ OwnerWork
    \/ OwnerAwaitsServices \/ OwnerPublishes

Next ==
    \/ Register \/ Expire \/ OwnerStep
    \/ \E r \in Runners : CancelRun(r) \/ RunStep(r)
    \/ \E t \in Transports : ServiceEnds(t) \/ ServiceFails(t)
    \/ \E s \in Stoppers : StopStep(s)

(* Goroutines that can run do, the shutdown timer fires, and an accept     *)
(* loop ends when its listener is closed.  Nobody is obliged to call Run   *)
(* or Shutdown or to cancel a context.                                     *)
Fairness ==
    /\ \A r \in Runners : WF_vars(RunStartup(r) \/ RunService(r))
    /\ \A s \in Stoppers : WF_vars(ShutdownOwns(s) \/ ShutdownReturns(s))
    /\ \A t \in Transports : WF_vars(ServiceEnds(t))
    /\ WF_vars(OwnerStep) /\ WF_vars(Expire)

Spec == Init /\ [][Next]_vars /\ Fairness
-----------------------------------------------------------------------------
(* Properties *)

Results == {"nil", "timeout"}

(* Every variable of the server and of its callers has a value of its      *)
(* type, and runtimeErr never holds more than its capacity.                *)
TypeOK ==
    /\ state \in {"new", "starting", "running", "stopping", "stopped"}
    /\ stopRequested \in BOOLEAN
    /\ startupDone \in BOOLEAN /\ shutdownDone \in BOOLEAN
    /\ shutdownErr \in Results
    /\ bound \subseteq Transports /\ listening \subseteq bound
    /\ pool \in {"new", "started", "draining"} /\ setups \in BOOLEAN
    /\ service \in [Transports -> {"off", "serving", "ended"}]
    /\ runtimeErr \in 0..Cardinality(Transports) /\ failed \in BOOLEAN
    /\ config \in 0..MaxChanges /\ runtime \in 0..MaxChanges
    /\ runPc \in [Runners -> {"idle", "refused", "prepare", "bind", "listen",
                              "publish", "serve", "stop", "own", "await",
                              "rollback", "rolledBack", "returned"}]
    /\ runCtx \in [Runners -> BOOLEAN] /\ cause \in [Runners -> BOOLEAN]
    /\ stopPc \in [Stoppers -> Results \cup {"idle", "noop", "awaitStartup",
                                            "own", "awaitStop", "ctxErr"}]
    /\ ownerStarted \in BOOLEAN
    /\ ownerPc \in {"off", "stopPool", "closeServing", "work", "services",
                    "publish", "exit"}
    /\ expired \in BOOLEAN /\ timedOut \in BOOLEAN

LegalMove ==
    state' # state =>
        <<state, state'>> \in {<<"new", "starting">>, <<"starting", "running">>,
                              <<"starting", "stopped">>, <<"running", "stopping">>,
                              <<"stopping", "stopped">>}

StoppedIsFrozen ==
    state = "stopped" => UNCHANGED <<shutdownErr, shutdownDone, listening, pool, setups>>

(* The server goes through its states in order: startup either completes   *)
(* or goes straight to stopped, and a late cancellation of Run's context   *)
(* never revives a stopped server.  Nothing about a stopped server changes *)
(* any more, not its terminal error either, though a second owner would be *)
(* free to store one.                                                      *)
LifecycleSteps == [][LegalMove /\ StoppedIsFrozen]_vars

(* A Shutdown that came after Run and returned a result, rather than its   *)
(* caller's context error, returned the result all callers get and left a  *)
(* stopped server, also when it came in the middle of startup.             *)
ShutdownIsFinal ==
    \A s \in Stoppers :
        stopPc[s] \in Results => state = "stopped" /\ stopPc[s] = shutdownErr

(* A stopped server holds no listener, accepts no setup and has no pool    *)
(* that still takes requests, whether it was shut down or its startup was  *)
(* rolled back; without a timeout its services have ended too.             *)
StoppedReleasesAll ==
    state = "stopped" =>
        /\ listening = {} /\ ~setups /\ pool # "started"
        /\ shutdownErr = "nil" => \A t \in Transports : service[t] # "serving"

(* When services fail before the end of the shutdown, a failure is part of *)
(* Run's result, whichever of the failure, the context and Shutdown came   *)
(* first.  Of two failures the code keeps the first; the model does not    *)
(* tell them apart.                                                        *)
RuntimeErrorSurfaces ==
    \A r \in Runners : runPc[r] = "returned" /\ failed => cause[r]

(* A running server uses exactly the hooks and routes that were registered *)
(* when Run claimed it.                                                    *)
RunningConfigFrozen == state \in {"running", "stopping"} => runtime = config

(* A stop that was asked for, in startup or when running, is completed.    *)
StopCompletes == (stopRequested \/ state = "stopping") ~> (state = "stopped")

(* Nobody waits in Shutdown for ever, whatever startup does meanwhile.     *)
ShutdownReturnsToAll ==
    \A s \in Stoppers :
        (stopPc[s] \in {"own", "awaitStartup", "awaitStop"})
            ~> (stopPc[s] \in Results \cup {"ctxErr"})
=============================================================================
