------------------------ MODULE ServerLifecycleProofs ------------------------
(***************************************************************************)
(* Proofs about ServerLifecycle, for every set of transports and every     *)
(* number of callers of Run and of Shutdown.                               *)
(***************************************************************************)
EXTENDS ServerLifecycle, FiniteSetTheorems, TLAPS

(* The strengthening of the safety invariants that is inductive.           *)

Startup == {"prepare", "bind", "listen", "publish", "rollback", "rolledBack"}
Serving == {"serve", "stop", "own", "await"}

(* One caller of Run has claimed the server; it is in startup exactly      *)
(* until startupDone is closed, and outlives the shutdown it waits for.    *)
RunInv ==
    /\ state = "new" => \A r \in Runners : runPc[r] \in {"idle", "refused"}
    /\ \A r, q \in Runners :
          runPc[r] \notin {"idle", "refused"} /\ runPc[q] \notin {"idle", "refused"} => r = q
    /\ \A r \in Runners :
          /\ runPc[r] \in Startup => state = "starting"
          /\ runPc[r] \in Serving => state \in {"running", "stopping"} \/ ownerPc = "exit"
          /\ runPc[r] \in {"own", "await"} => state # "running"
          /\ runPc[r] = "returned" => state = "stopped"
          /\ runPc[r] = "rolledBack" => listening = {}
          /\ runPc[r] \in {"bind", "listen", "publish"} => runtime = config

(* What the state says of the channels that announce it.  Nothing serves   *)
(* before the server runs, and a stop requested in startup prevents that.  *)
StateInv ==
    /\ startupDone <=> state \notin {"new", "starting"}
    /\ shutdownDone <=> state = "stopped"
    /\ stopRequested => state \in {"starting", "stopped"}
    /\ ~startupDone => /\ pool = "new" /\ ~setups /\ ~failed
                       /\ \A t \in Transports : service[t] = "off"
    /\ ~shutdownDone => shutdownErr = "nil"

(* The owner runs while the server is stopping, and what it has undone     *)
(* stays undone.                                                           *)
OwnerInv ==
    /\ ownerStarted <=> ownerPc # "off"
    /\ ownerPc \notin {"off", "exit"} => state = "stopping"
    /\ ownerPc = "exit" => state = "stopped"
    /\ ownerPc \in {"closeServing", "work", "services", "publish"} => ~setups /\ pool = "draining"
    /\ ownerPc \in {"work", "services", "publish"} => listening = {}
    /\ ownerPc = "publish" /\ ~timedOut => \A t \in Transports : service[t] # "serving"

(* Those who wait in Shutdown wait for what is still to come. *)
StopInv ==
    \A s \in Stoppers :
        /\ stopPc[s] = "awaitStartup" => stopRequested
        /\ stopPc[s] = "own" => state = "stopping" \/ ownerPc = "exit"

(* A failure is in the channel or in the hands of the one who will return. *)
FailureInv ==
    \A r \in Runners : runPc[r] \in Serving /\ failed => runtimeErr > 0 \/ cause[r]

IInv ==
    /\ TypeOK /\ RunInv /\ StateInv /\ OwnerInv /\ StopInv /\ FailureInv
    /\ ShutdownIsFinal /\ StoppedReleasesAll /\ RuntimeErrorSurfaces /\ RunningConfigFrozen
-----------------------------------------------------------------------------
USE DEF vars, runVars, ownerVars, doneVars, netVars, configVars, RunGo, StopGo,
        OwnerGo, LaunchOwner, Results, Startup, Serving

(* runtimeErr has room for the failure of at least one service. *)
LEMMA Bounds == /\ Cardinality(Transports) \in Nat /\ Cardinality(Transports) > 0
                /\ MaxChanges \in Nat
  BY ServerLifecycleAssumption, FS_CardinalityType, FS_EmptySet

(* The type invariant in three parts, which the provers take one by one. *)
TypeServer ==
    /\ state \in {"new", "starting", "running", "stopping", "stopped"}
    /\ stopRequested \in BOOLEAN
    /\ startupDone \in BOOLEAN /\ shutdownDone \in BOOLEAN
    /\ shutdownErr \in Results
    /\ pool \in {"new", "started", "draining"} /\ setups \in BOOLEAN
    /\ ownerStarted \in BOOLEAN
    /\ ownerPc \in {"off", "stopPool", "closeServing", "work", "services",
                    "publish", "exit"}
    /\ expired \in BOOLEAN /\ timedOut \in BOOLEAN

TypeNet ==
    /\ bound \subseteq Transports /\ listening \subseteq bound
    /\ service \in [Transports -> {"off", "serving", "ended"}]
    /\ runtimeErr \in 0..Cardinality(Transports) /\ failed \in BOOLEAN
    /\ config \in 0..MaxChanges /\ runtime \in 0..MaxChanges

TypeCallers ==
    /\ runPc \in [Runners -> {"idle", "refused", "prepare", "bind", "listen",
                              "publish", "serve", "stop", "own", "await",
                              "rollback", "rolledBack", "returned"}]
    /\ runCtx \in [Runners -> BOOLEAN] /\ cause \in [Runners -> BOOLEAN]
    /\ stopPc \in [Stoppers -> Results \cup {"idle", "noop", "awaitStartup",
                                            "own", "awaitStop", "ctxErr"}]

LEMMA TypeParts == TypeOK <=> TypeServer /\ TypeNet /\ TypeCallers
  BY Zenon DEF TypeOK, TypeServer, TypeNet, TypeCallers

LEMMA InitType == Init => TypeOK
<1> SUFFICES ASSUME Init PROVE TypeOK
  OBVIOUS
<1>1. TypeServer
  BY DEF Init, TypeServer
<1>2. runtimeErr \in 0..Cardinality(Transports)
  BY Bounds DEF Init
<1>3. config \in 0..MaxChanges /\ runtime \in 0..MaxChanges
  BY Bounds DEF Init
<1>4. TypeNet
  BY <1>2, <1>3 DEF Init, TypeNet
<1>5. TypeCallers
  BY DEF Init, TypeCallers
<1> QED
  BY <1>1, <1>4, <1>5, TypeParts

(* shutdownStartOnce leaves an owner at one of its steps. *)
LEMMA LaunchType ==
  ASSUME TypeServer, LaunchOwner
  PROVE  /\ ownerStarted' \in BOOLEAN
         /\ ownerPc' \in {"off", "stopPool", "closeServing", "work", "services",
                          "publish", "exit"}
<1>1. CASE ownerStarted
  BY <1>1 DEF TypeServer
<1>2. CASE ~ownerStarted
  BY <1>2
<1> QED
  BY <1>1, <1>2

(* The state, the channels, the pool and the owner keep their types. *)
LEMMA NextTypeServer == TypeServer /\ [Next]_vars => TypeServer'
<1> SUFFICES ASSUME TypeServer, [Next]_vars PROVE TypeServer'
  OBVIOUS
<1>1. CASE UNCHANGED vars
  BY <1>1 DEF TypeServer
<1>2. CASE Register \/ Expire
  <2>1. CASE Register
    BY <2>1 DEF Register, TypeServer
  <2>2. CASE Expire
    BY <2>2 DEF Expire, TypeServer
  <2> QED
    BY <1>2, <2>1, <2>2
<1>3. CASE OwnerStep
  BY <1>3, ZenonT(60) DEF OwnerStep, OwnerStopsIntake, OwnerClosesServing, OwnerWork,
    OwnerAwaitsServices, OwnerPublishes, TypeServer
<1>4. ASSUME NEW r \in Runners, CancelRun(r) \/ ClaimRefused(r) \/ ClaimRun(r)
      PROVE  TypeServer'
  BY <1>4 DEF CancelRun, ClaimRefused, ClaimRun, TypeServer
<1>5. ASSUME NEW r \in Runners, RunStartup(r) PROVE TypeServer'
  <2>1. CASE Prepare(r) \/ BindCanceled(r) \/ BindChecked(r) \/ Listen(r) \/
            ListenFails(r) \/ Bound(r) \/ PublishCanceled(r) \/
            RollbackClose(r)
    BY <2>1 DEF Prepare, BindCanceled, BindChecked, Listen, ListenFails,
      Bound, PublishCanceled, RollbackClose, TypeServer
  <2>2. CASE Publish(r)
    BY <2>2 DEF Publish, TypeServer
  <2>3. CASE RollbackStop(r)
    BY <2>3 DEF RollbackStop, TypeServer
  <2> QED
    BY <1>5, <2>1, <2>2, <2>3 DEF RunStartup
<1>6. ASSUME NEW r \in Runners, RunService(r) PROVE TypeServer'
  <2>1. CASE RunCanceled(r) \/ RunFailed(r) \/ RunReturns(r)
    BY <2>1 DEF RunCanceled, RunFailed, RunReturns, TypeServer
  <2>2. CASE StartShutdown(r)
    BY <2>2 DEF StartShutdown, TypeServer
  <2>3. CASE RunOwns(r)
    BY <2>3, LaunchType, ZenonT(60) DEF RunOwns, TypeServer
  <2> QED
    BY <1>6, <2>1, <2>2, <2>3 DEF RunService
<1>7. ASSUME NEW t \in Transports, ServiceEnds(t) \/ ServiceFails(t)
      PROVE  TypeServer'
  BY <1>7 DEF ServiceEnds, ServiceFails, TypeServer
<1>8. ASSUME NEW s \in Stoppers, StopStep(s) PROVE TypeServer'
  <2>1. CASE ShutdownReturns(s) \/ ShutdownGivesUp(s)
    BY <2>1 DEF ShutdownReturns, ShutdownGivesUp, TypeServer
  <2>2. CASE ShutdownEnter(s)
    BY <2>2 DEF ShutdownEnter, TypeServer
  <2>3. CASE ShutdownOwns(s)
    BY <2>3, LaunchType, ZenonT(60) DEF ShutdownOwns, TypeServer
  <2> QED
    BY <1>8, <2>1, <2>2, <2>3 DEF StopStep
<1> QED
  BY <1>1, <1>2, <1>3, <1>4, <1>5, <1>6, <1>7, <1>8 DEF Next, RunStep

(* So do the listeners, the services, runtimeErr and the registrations. *)
LEMMA NextTypeNet == TypeNet /\ [Next]_vars => TypeNet'
<1> SUFFICES ASSUME TypeNet, [Next]_vars PROVE TypeNet'
  OBVIOUS
<1> USE Bounds
<1>1. CASE UNCHANGED vars
  BY <1>1 DEF TypeNet
<1>2. CASE Register \/ Expire
  BY <1>2 DEF Register, Expire, TypeNet
<1>3. CASE OwnerStep
  BY <1>3 DEF OwnerStep, OwnerStopsIntake, OwnerClosesServing, OwnerWork,
    OwnerAwaitsServices, OwnerPublishes, TypeNet
<1>4. ASSUME NEW r \in Runners, CancelRun(r) \/ ClaimRefused(r) \/ ClaimRun(r)
      PROVE  TypeNet'
  BY <1>4 DEF CancelRun, ClaimRefused, ClaimRun, TypeNet
<1>5. ASSUME NEW r \in Runners, RunStartup(r) PROVE TypeNet'
  BY <1>5 DEF RunStartup, Prepare, BindCanceled, BindChecked, Listen,
    ListenFails, Bound, PublishCanceled, Publish, RollbackClose,
    RollbackStop, TypeNet
<1>6. ASSUME NEW r \in Runners, RunService(r) PROVE TypeNet'
  BY <1>6 DEF RunService, RunCanceled, RunFailed, StartShutdown, RunOwns,
    RunReturns, TypeNet
<1>7. ASSUME NEW t \in Transports, ServiceEnds(t) \/ ServiceFails(t)
      PROVE  TypeNet'
  <2>1. CASE ServiceEnds(t)
    BY <2>1 DEF ServiceEnds, TypeNet
  <2>2. CASE ServiceFails(t)
    BY <2>2 DEF ServiceFails, TypeNet
  <2> QED
    BY <1>7, <2>1, <2>2
<1>8. ASSUME NEW s \in Stoppers, StopStep(s) PROVE TypeNet'
  BY <1>8 DEF StopStep, ShutdownEnter, ShutdownOwns, ShutdownReturns,
    ShutdownGivesUp, TypeNet
<1> QED
  BY <1>1, <1>2, <1>3, <1>4, <1>5, <1>6, <1>7, <1>8 DEF Next, RunStep

(* So do the callers of Run and of Shutdown. *)
LEMMA NextTypeCallers ==
  TypeServer /\ TypeCallers /\ [Next]_vars => TypeCallers'
<1> SUFFICES ASSUME TypeServer, TypeCallers, [Next]_vars PROVE TypeCallers'
  OBVIOUS
<1>1. CASE UNCHANGED vars
  BY <1>1 DEF TypeServer, TypeCallers
<1>2. CASE Register \/ Expire
  BY <1>2 DEF Register, Expire, TypeServer, TypeCallers
<1>3. CASE OwnerStep
  BY <1>3 DEF OwnerStep, OwnerStopsIntake, OwnerClosesServing, OwnerWork,
    OwnerAwaitsServices, OwnerPublishes, TypeServer, TypeCallers
<1>4. ASSUME NEW r \in Runners, CancelRun(r) \/ ClaimRefused(r) \/ ClaimRun(r)
      PROVE  TypeCallers'
  BY <1>4 DEF CancelRun, ClaimRefused, ClaimRun, TypeServer, TypeCallers
<1>5. ASSUME NEW r \in Runners, RunStartup(r) PROVE TypeCallers'
  BY <1>5 DEF RunStartup, Prepare, BindCanceled, BindChecked, Listen,
    ListenFails, Bound, PublishCanceled, Publish, RollbackClose,
    RollbackStop, TypeServer, TypeCallers
<1>6. ASSUME NEW r \in Runners, RunService(r) PROVE TypeCallers'
  BY <1>6 DEF RunService, RunCanceled, RunFailed, StartShutdown, RunOwns,
    RunReturns, TypeServer, TypeCallers
<1>7. ASSUME NEW t \in Transports, ServiceEnds(t) \/ ServiceFails(t)
      PROVE  TypeCallers'
  BY <1>7 DEF ServiceEnds, ServiceFails, TypeServer, TypeCallers
<1>8. ASSUME NEW s \in Stoppers, StopStep(s) PROVE TypeCallers'
  BY <1>8 DEF StopStep, ShutdownEnter, ShutdownOwns, ShutdownReturns,
    ShutdownGivesUp, TypeServer, TypeCallers
<1> QED
  BY <1>1, <1>2, <1>3, <1>4, <1>5, <1>6, <1>7, <1>8 DEF Next, RunStep

LEMMA NextType == TypeOK /\ [Next]_vars => TypeOK'
<1> SUFFICES ASSUME TypeServer, TypeNet, TypeCallers, [Next]_vars
             PROVE  (TypeServer /\ TypeNet /\ TypeCallers)'
  BY TypeParts, PTL
<1> QED
  BY NextTypeServer, NextTypeNet, NextTypeCallers

(* The caller of Run that claimed the server stays alone in it. *)
LEMMA NextRunInv ==
  TypeOK /\ RunInv /\ StateInv /\ OwnerInv /\ StopInv /\ [Next]_vars =>
    RunInv'
<1> SUFFICES ASSUME TypeOK, RunInv, StateInv, OwnerInv, StopInv, [Next]_vars
             PROVE  RunInv'
  OBVIOUS
<1> USE Bounds
<1>1. CASE UNCHANGED vars
  BY <1>1 DEF TypeOK, RunInv, StateInv, OwnerInv, StopInv
<1>2. CASE Register \/ Expire
  BY <1>2 DEF Register, Expire, TypeOK, RunInv, StateInv, OwnerInv, StopInv
<1>3. CASE OwnerStep
  BY <1>3 DEF OwnerStep, OwnerStopsIntake, OwnerClosesServing, OwnerWork,
    OwnerAwaitsServices, OwnerPublishes, TypeOK, RunInv, StateInv, OwnerInv,
    StopInv
<1>4. ASSUME NEW r \in Runners, CancelRun(r) \/ ClaimRefused(r) \/ ClaimRun(r)
      PROVE  RunInv'
  BY <1>4 DEF CancelRun, ClaimRefused, ClaimRun, TypeOK, RunInv, StateInv,
    OwnerInv, StopInv
<1>5. ASSUME NEW r \in Runners, RunStartup(r) PROVE RunInv'
  BY <1>5 DEF RunStartup, Prepare, BindCanceled, BindChecked, Listen,
    ListenFails, Bound, PublishCanceled, Publish, RollbackClose,
    RollbackStop, TypeOK, RunInv, StateInv, OwnerInv, StopInv
<1>6. ASSUME NEW r \in Runners, RunService(r) PROVE RunInv'
  BY <1>6 DEF RunService, RunCanceled, RunFailed, StartShutdown, RunOwns,
    RunReturns, TypeOK, RunInv, StateInv, OwnerInv, StopInv
<1>7. ASSUME NEW t \in Transports, ServiceEnds(t) \/ ServiceFails(t)
      PROVE  RunInv'
  BY <1>7 DEF ServiceEnds, ServiceFails, TypeOK, RunInv, StateInv, OwnerInv,
    StopInv
<1>8. ASSUME NEW s \in Stoppers, StopStep(s) PROVE RunInv'
  BY <1>8 DEF StopStep, ShutdownEnter, ShutdownOwns, ShutdownReturns,
    ShutdownGivesUp, TypeOK, RunInv, StateInv, OwnerInv, StopInv
<1> QED
  BY <1>1, <1>2, <1>3, <1>4, <1>5, <1>6, <1>7, <1>8 DEF Next, RunStep

(* The state and the channels that announce it change together. *)
LEMMA NextStateInv ==
  TypeOK /\ RunInv /\ StateInv /\ OwnerInv /\ [Next]_vars => StateInv'
<1> SUFFICES ASSUME TypeOK, RunInv, StateInv, OwnerInv, [Next]_vars
             PROVE  StateInv'
  OBVIOUS
<1> USE Bounds
<1>1. CASE UNCHANGED vars
  BY <1>1 DEF TypeOK, RunInv, StateInv, OwnerInv
<1>2. CASE Register \/ Expire
  BY <1>2 DEF Register, Expire, TypeOK, RunInv, StateInv, OwnerInv
<1>3. CASE OwnerStep
  <2>1. CASE OwnerStopsIntake
    BY <2>1 DEF OwnerStopsIntake, TypeOK, RunInv, StateInv, OwnerInv
  <2>2. CASE OwnerClosesServing
    BY <2>2 DEF OwnerClosesServing, TypeOK, RunInv, StateInv, OwnerInv
  <2>3. CASE OwnerWork
    BY <2>3 DEF OwnerWork, TypeOK, RunInv, StateInv, OwnerInv
  <2>4. CASE OwnerAwaitsServices
    BY <2>4 DEF OwnerAwaitsServices, TypeOK, RunInv, StateInv, OwnerInv
  <2>5. CASE OwnerPublishes
    BY <2>5 DEF OwnerPublishes, TypeOK, RunInv, StateInv, OwnerInv
  <2> QED
    BY <1>3, <2>1, <2>2, <2>3, <2>4, <2>5 DEF OwnerStep
<1>4. ASSUME NEW r \in Runners, CancelRun(r) \/ ClaimRefused(r) \/ ClaimRun(r)
      PROVE  StateInv'
  BY <1>4 DEF CancelRun, ClaimRefused, ClaimRun, TypeOK, RunInv, StateInv,
    OwnerInv
<1>5. ASSUME NEW r \in Runners, RunStartup(r) PROVE StateInv'
  BY <1>5 DEF RunStartup, Prepare, BindCanceled, BindChecked, Listen,
    ListenFails, Bound, PublishCanceled, Publish, RollbackClose,
    RollbackStop, TypeOK, RunInv, StateInv, OwnerInv
<1>6. ASSUME NEW r \in Runners, RunService(r) PROVE StateInv'
  BY <1>6 DEF RunService, RunCanceled, RunFailed, StartShutdown, RunOwns,
    RunReturns, TypeOK, RunInv, StateInv, OwnerInv
<1>7. ASSUME NEW t \in Transports, ServiceEnds(t) \/ ServiceFails(t)
      PROVE  StateInv'
  BY <1>7 DEF ServiceEnds, ServiceFails, TypeOK, RunInv, StateInv, OwnerInv
<1>8. ASSUME NEW s \in Stoppers, StopStep(s) PROVE StateInv'
  BY <1>8 DEF StopStep, ShutdownEnter, ShutdownOwns, ShutdownReturns,
    ShutdownGivesUp, TypeOK, RunInv, StateInv, OwnerInv
<1> QED
  BY <1>1, <1>2, <1>3, <1>4, <1>5, <1>6, <1>7, <1>8 DEF Next, RunStep

(* The owner goes through its steps while the server is stopping. *)
LEMMA NextOwnerInv ==
  TypeOK /\ RunInv /\ StateInv /\ OwnerInv /\ StopInv /\ [Next]_vars =>
    OwnerInv'
<1> SUFFICES ASSUME TypeOK, RunInv, StateInv, OwnerInv, StopInv, [Next]_vars
             PROVE  OwnerInv'
  OBVIOUS
<1> USE Bounds
<1>1. CASE UNCHANGED vars
  BY <1>1 DEF TypeOK, RunInv, StateInv, OwnerInv, StopInv
<1>2. CASE Register \/ Expire
  BY <1>2 DEF Register, Expire, TypeOK, RunInv, StateInv, OwnerInv, StopInv
<1>3. CASE OwnerStep
  <2>1. CASE OwnerStopsIntake
    BY <2>1 DEF OwnerStopsIntake, TypeOK, RunInv, StateInv, OwnerInv,
      StopInv
  <2>2. CASE OwnerClosesServing
    BY <2>2 DEF OwnerClosesServing, TypeOK, RunInv, StateInv, OwnerInv,
      StopInv
  <2>3. CASE OwnerWork
    BY <2>3 DEF OwnerWork, TypeOK, RunInv, StateInv, OwnerInv, StopInv
  <2>4. CASE OwnerAwaitsServices
    BY <2>4 DEF OwnerAwaitsServices, TypeOK, RunInv, StateInv, OwnerInv,
      StopInv
  <2>5. CASE OwnerPublishes
    BY <2>5 DEF OwnerPublishes, TypeOK, RunInv, StateInv, OwnerInv, StopInv
  <2> QED
    BY <1>3, <2>1, <2>2, <2>3, <2>4, <2>5 DEF OwnerStep
<1>4. ASSUME NEW r \in Runners, CancelRun(r) \/ ClaimRefused(r) \/ ClaimRun(r)
      PROVE  OwnerInv'
  BY <1>4 DEF CancelRun, ClaimRefused, ClaimRun, TypeOK, RunInv, StateInv,
    OwnerInv, StopInv
<1>5. ASSUME NEW r \in Runners, RunStartup(r) PROVE OwnerInv'
  BY <1>5 DEF RunStartup, Prepare, BindCanceled, BindChecked, Listen,
    ListenFails, Bound, PublishCanceled, Publish, RollbackClose,
    RollbackStop, TypeOK, RunInv, StateInv, OwnerInv, StopInv
<1>6. ASSUME NEW r \in Runners, RunService(r) PROVE OwnerInv'
  BY <1>6 DEF RunService, RunCanceled, RunFailed, StartShutdown, RunOwns,
    RunReturns, TypeOK, RunInv, StateInv, OwnerInv, StopInv
<1>7. ASSUME NEW t \in Transports, ServiceEnds(t) \/ ServiceFails(t)
      PROVE  OwnerInv'
  BY <1>7 DEF ServiceEnds, ServiceFails, TypeOK, RunInv, StateInv, OwnerInv,
    StopInv
<1>8. ASSUME NEW s \in Stoppers, StopStep(s) PROVE OwnerInv'
  BY <1>8 DEF StopStep, ShutdownEnter, ShutdownOwns, ShutdownReturns,
    ShutdownGivesUp, TypeOK, RunInv, StateInv, OwnerInv, StopInv
<1> QED
  BY <1>1, <1>2, <1>3, <1>4, <1>5, <1>6, <1>7, <1>8 DEF Next, RunStep

(* A caller of Shutdown waits for what is still to come. *)
LEMMA NextStopInv ==
  TypeOK /\ RunInv /\ StateInv /\ OwnerInv /\ StopInv /\ [Next]_vars =>
    StopInv'
<1> SUFFICES ASSUME TypeOK, RunInv, StateInv, OwnerInv, StopInv, [Next]_vars
             PROVE  StopInv'
  OBVIOUS
<1> USE Bounds
<1>1. CASE UNCHANGED vars
  BY <1>1 DEF TypeOK, RunInv, StateInv, OwnerInv, StopInv
<1>2. CASE Register \/ Expire
  BY <1>2 DEF Register, Expire, TypeOK, RunInv, StateInv, OwnerInv, StopInv
<1>3. CASE OwnerStep
  BY <1>3 DEF OwnerStep, OwnerStopsIntake, OwnerClosesServing, OwnerWork,
    OwnerAwaitsServices, OwnerPublishes, TypeOK, RunInv, StateInv, OwnerInv,
    StopInv
<1>4. ASSUME NEW r \in Runners, CancelRun(r) \/ ClaimRefused(r) \/ ClaimRun(r)
      PROVE  StopInv'
  BY <1>4 DEF CancelRun, ClaimRefused, ClaimRun, TypeOK, RunInv, StateInv,
    OwnerInv, StopInv
<1>5. ASSUME NEW r \in Runners, RunStartup(r) PROVE StopInv'
  BY <1>5 DEF RunStartup, Prepare, BindCanceled, BindChecked, Listen,
    ListenFails, Bound, PublishCanceled, Publish, RollbackClose,
    RollbackStop, TypeOK, RunInv, StateInv, OwnerInv, StopInv
<1>6. ASSUME NEW r \in Runners, RunService(r) PROVE StopInv'
  BY <1>6 DEF RunService, RunCanceled, RunFailed, StartShutdown, RunOwns,
    RunReturns, TypeOK, RunInv, StateInv, OwnerInv, StopInv
<1>7. ASSUME NEW t \in Transports, ServiceEnds(t) \/ ServiceFails(t)
      PROVE  StopInv'
  BY <1>7 DEF ServiceEnds, ServiceFails, TypeOK, RunInv, StateInv, OwnerInv,
    StopInv
<1>8. ASSUME NEW s \in Stoppers, StopStep(s) PROVE StopInv'
  <2>1. CASE ShutdownEnter(s)
    BY <2>1 DEF ShutdownEnter, TypeOK, RunInv, StateInv, OwnerInv, StopInv
  <2>2. CASE ShutdownOwns(s)
    BY <2>2 DEF ShutdownOwns, TypeOK, RunInv, StateInv, OwnerInv, StopInv
  <2>3. CASE ShutdownReturns(s)
    BY <2>3 DEF ShutdownReturns, TypeOK, RunInv, StateInv, OwnerInv, StopInv
  <2>4. CASE ShutdownGivesUp(s)
    BY <2>4 DEF ShutdownGivesUp, TypeOK, RunInv, StateInv, OwnerInv, StopInv
  <2> QED
    BY <1>8, <2>1, <2>2, <2>3, <2>4 DEF StopStep
<1> QED
  BY <1>1, <1>2, <1>3, <1>4, <1>5, <1>6, <1>7, <1>8 DEF Next, RunStep

(* A failure is queued or in hand until Run returns. *)
LEMMA NextFailureInv ==
  TypeOK /\ RunInv /\ StateInv /\ FailureInv /\ [Next]_vars => FailureInv'
<1> SUFFICES ASSUME TypeOK, RunInv, StateInv, FailureInv, [Next]_vars
             PROVE  FailureInv'
  OBVIOUS
<1> USE Bounds
<1>1. CASE UNCHANGED vars
  BY <1>1 DEF TypeOK, RunInv, StateInv, FailureInv
<1>2. CASE Register \/ Expire
  BY <1>2 DEF Register, Expire, TypeOK, RunInv, StateInv, FailureInv
<1>3. CASE OwnerStep
  BY <1>3 DEF OwnerStep, OwnerStopsIntake, OwnerClosesServing, OwnerWork,
    OwnerAwaitsServices, OwnerPublishes, TypeOK, RunInv, StateInv,
    FailureInv
<1>4. ASSUME NEW r \in Runners, CancelRun(r) \/ ClaimRefused(r) \/ ClaimRun(r)
      PROVE  FailureInv'
  BY <1>4, ZenonT(60) DEF CancelRun, ClaimRefused, ClaimRun, TypeOK, RunInv, StateInv,
    FailureInv
<1>5. ASSUME NEW r \in Runners, RunStartup(r) PROVE FailureInv'
  BY <1>5 DEF RunStartup, Prepare, BindCanceled, BindChecked, Listen,
    ListenFails, Bound, PublishCanceled, Publish, RollbackClose,
    RollbackStop, TypeOK, RunInv, StateInv, FailureInv
<1>6. ASSUME NEW r \in Runners, RunService(r) PROVE FailureInv'
  BY <1>6, ZenonT(60) DEF RunService, RunCanceled, RunFailed, StartShutdown, RunOwns,
    RunReturns, TypeOK, RunInv, StateInv, FailureInv
<1>7. ASSUME NEW t \in Transports, ServiceEnds(t) \/ ServiceFails(t)
      PROVE  FailureInv'
  <2>1. CASE ServiceEnds(t)
    BY <2>1 DEF ServiceEnds, TypeOK, RunInv, StateInv, FailureInv
  <2>2. CASE ServiceFails(t)
    BY <2>2 DEF ServiceFails, TypeOK, RunInv, StateInv, FailureInv
  <2> QED
    BY <1>7, <2>1, <2>2
<1>8. ASSUME NEW s \in Stoppers, StopStep(s) PROVE FailureInv'
  BY <1>8 DEF StopStep, ShutdownEnter, ShutdownOwns, ShutdownReturns,
    ShutdownGivesUp, TypeOK, RunInv, StateInv, FailureInv
<1> QED
  BY <1>1, <1>2, <1>3, <1>4, <1>5, <1>6, <1>7, <1>8 DEF Next, RunStep

(* A result is handed out once the server is stopped, and then it stays. *)
LEMMA NextShutdownIsFinal ==
  TypeOK /\ RunInv /\ StateInv /\ OwnerInv /\ StopInv /\ ShutdownIsFinal /\
    [Next]_vars => ShutdownIsFinal'
<1> SUFFICES ASSUME TypeOK, RunInv, StateInv, OwnerInv, StopInv,
                    ShutdownIsFinal, [Next]_vars
             PROVE  ShutdownIsFinal'
  OBVIOUS
<1> USE Bounds
<1>1. CASE UNCHANGED vars
  BY <1>1 DEF TypeOK, RunInv, StateInv, OwnerInv, StopInv, ShutdownIsFinal
<1>2. CASE Register \/ Expire
  BY <1>2 DEF Register, Expire, TypeOK, RunInv, StateInv, OwnerInv, StopInv,
    ShutdownIsFinal
<1>3. CASE OwnerStep
  BY <1>3 DEF OwnerStep, OwnerStopsIntake, OwnerClosesServing, OwnerWork,
    OwnerAwaitsServices, OwnerPublishes, TypeOK, RunInv, StateInv, OwnerInv,
    StopInv, ShutdownIsFinal
<1>4. ASSUME NEW r \in Runners, CancelRun(r) \/ ClaimRefused(r) \/ ClaimRun(r)
      PROVE  ShutdownIsFinal'
  BY <1>4 DEF CancelRun, ClaimRefused, ClaimRun, TypeOK, RunInv, StateInv,
    OwnerInv, StopInv, ShutdownIsFinal
<1>5. ASSUME NEW r \in Runners, RunStartup(r) PROVE ShutdownIsFinal'
  BY <1>5 DEF RunStartup, Prepare, BindCanceled, BindChecked, Listen,
    ListenFails, Bound, PublishCanceled, Publish, RollbackClose,
    RollbackStop, TypeOK, RunInv, StateInv, OwnerInv, StopInv,
    ShutdownIsFinal
<1>6. ASSUME NEW r \in Runners, RunService(r) PROVE ShutdownIsFinal'
  BY <1>6 DEF RunService, RunCanceled, RunFailed, StartShutdown, RunOwns,
    RunReturns, TypeOK, RunInv, StateInv, OwnerInv, StopInv, ShutdownIsFinal
<1>7. ASSUME NEW t \in Transports, ServiceEnds(t) \/ ServiceFails(t)
      PROVE  ShutdownIsFinal'
  BY <1>7 DEF ServiceEnds, ServiceFails, TypeOK, RunInv, StateInv, OwnerInv,
    StopInv, ShutdownIsFinal
<1>8. ASSUME NEW s \in Stoppers, StopStep(s) PROVE ShutdownIsFinal'
  BY <1>8 DEF StopStep, ShutdownEnter, ShutdownOwns, ShutdownReturns,
    ShutdownGivesUp, TypeOK, RunInv, StateInv, OwnerInv, StopInv,
    ShutdownIsFinal
<1> QED
  BY <1>1, <1>2, <1>3, <1>4, <1>5, <1>6, <1>7, <1>8 DEF Next, RunStep

(* Both ways to stopped release everything. *)
LEMMA NextStoppedReleasesAll ==
  TypeOK /\ RunInv /\ StateInv /\ OwnerInv /\ StoppedReleasesAll /\
    [Next]_vars => StoppedReleasesAll'
<1> SUFFICES ASSUME TypeOK, RunInv, StateInv, OwnerInv, StoppedReleasesAll,
                    [Next]_vars
             PROVE  StoppedReleasesAll'
  OBVIOUS
<1> USE Bounds
<1>1. CASE UNCHANGED vars
  BY <1>1 DEF TypeOK, RunInv, StateInv, OwnerInv, StoppedReleasesAll
<1>2. CASE Register \/ Expire
  BY <1>2 DEF Register, Expire, TypeOK, RunInv, StateInv, OwnerInv,
    StoppedReleasesAll
<1>3. CASE OwnerStep
  BY <1>3 DEF OwnerStep, OwnerStopsIntake, OwnerClosesServing, OwnerWork,
    OwnerAwaitsServices, OwnerPublishes, TypeOK, RunInv, StateInv, OwnerInv,
    StoppedReleasesAll
<1>4. ASSUME NEW r \in Runners, CancelRun(r) \/ ClaimRefused(r) \/ ClaimRun(r)
      PROVE  StoppedReleasesAll'
  BY <1>4 DEF CancelRun, ClaimRefused, ClaimRun, TypeOK, RunInv, StateInv,
    OwnerInv, StoppedReleasesAll
<1>5. ASSUME NEW r \in Runners, RunStartup(r) PROVE StoppedReleasesAll'
  BY <1>5 DEF RunStartup, Prepare, BindCanceled, BindChecked, Listen,
    ListenFails, Bound, PublishCanceled, Publish, RollbackClose,
    RollbackStop, TypeOK, RunInv, StateInv, OwnerInv, StoppedReleasesAll
<1>6. ASSUME NEW r \in Runners, RunService(r) PROVE StoppedReleasesAll'
  BY <1>6 DEF RunService, RunCanceled, RunFailed, StartShutdown, RunOwns,
    RunReturns, TypeOK, RunInv, StateInv, OwnerInv, StoppedReleasesAll
<1>7. ASSUME NEW t \in Transports, ServiceEnds(t) \/ ServiceFails(t)
      PROVE  StoppedReleasesAll'
  BY <1>7 DEF ServiceEnds, ServiceFails, TypeOK, RunInv, StateInv, OwnerInv,
    StoppedReleasesAll
<1>8. ASSUME NEW s \in Stoppers, StopStep(s) PROVE StoppedReleasesAll'
  BY <1>8 DEF StopStep, ShutdownEnter, ShutdownOwns, ShutdownReturns,
    ShutdownGivesUp, TypeOK, RunInv, StateInv, OwnerInv, StoppedReleasesAll
<1> QED
  BY <1>1, <1>2, <1>3, <1>4, <1>5, <1>6, <1>7, <1>8 DEF Next, RunStep

(* Run takes a waiting failure along when it returns. *)
LEMMA NextRuntimeErrorSurfaces ==
  TypeOK /\ RunInv /\ StateInv /\ FailureInv /\ RuntimeErrorSurfaces /\
    [Next]_vars => RuntimeErrorSurfaces'
<1> SUFFICES ASSUME TypeOK, RunInv, StateInv, FailureInv, RuntimeErrorSurfaces,
                    [Next]_vars
             PROVE  RuntimeErrorSurfaces'
  OBVIOUS
<1> USE Bounds
<1>1. CASE UNCHANGED vars
  BY <1>1 DEF TypeOK, RunInv, StateInv, FailureInv, RuntimeErrorSurfaces
<1>2. CASE Register \/ Expire
  BY <1>2 DEF Register, Expire, TypeOK, RunInv, StateInv, FailureInv,
    RuntimeErrorSurfaces
<1>3. CASE OwnerStep
  BY <1>3 DEF OwnerStep, OwnerStopsIntake, OwnerClosesServing, OwnerWork,
    OwnerAwaitsServices, OwnerPublishes, TypeOK, RunInv, StateInv,
    FailureInv, RuntimeErrorSurfaces
<1>4. ASSUME NEW r \in Runners, CancelRun(r) \/ ClaimRefused(r) \/ ClaimRun(r)
      PROVE  RuntimeErrorSurfaces'
  BY <1>4, ZenonT(60) DEF CancelRun, ClaimRefused, ClaimRun, TypeOK, RunInv, StateInv,
    FailureInv, RuntimeErrorSurfaces
<1>5. ASSUME NEW r \in Runners, RunStartup(r) PROVE RuntimeErrorSurfaces'
  BY <1>5 DEF RunStartup, Prepare, BindCanceled, BindChecked, Listen,
    ListenFails, Bound, PublishCanceled, Publish, RollbackClose,
    RollbackStop, TypeOK, RunInv, StateInv, FailureInv, RuntimeErrorSurfaces
<1>6. ASSUME NEW r \in Runners, RunService(r) PROVE RuntimeErrorSurfaces'
  BY <1>6, ZenonT(60) DEF RunService, RunCanceled, RunFailed, StartShutdown, RunOwns,
    RunReturns, TypeOK, RunInv, StateInv, FailureInv, RuntimeErrorSurfaces
<1>7. ASSUME NEW t \in Transports, ServiceEnds(t) \/ ServiceFails(t)
      PROVE  RuntimeErrorSurfaces'
  BY <1>7 DEF ServiceEnds, ServiceFails, TypeOK, RunInv, StateInv,
    FailureInv, RuntimeErrorSurfaces
<1>8. ASSUME NEW s \in Stoppers, StopStep(s) PROVE RuntimeErrorSurfaces'
  BY <1>8 DEF StopStep, ShutdownEnter, ShutdownOwns, ShutdownReturns,
    ShutdownGivesUp, TypeOK, RunInv, StateInv, FailureInv,
    RuntimeErrorSurfaces
<1> QED
  BY <1>1, <1>2, <1>3, <1>4, <1>5, <1>6, <1>7, <1>8 DEF Next, RunStep

(* Nothing is registered once Run has claimed the server. *)
LEMMA NextRunningConfigFrozen ==
  TypeOK /\ RunInv /\ StateInv /\ RunningConfigFrozen /\ [Next]_vars =>
    RunningConfigFrozen'
<1> SUFFICES ASSUME TypeOK, RunInv, StateInv, RunningConfigFrozen, [Next]_vars
             PROVE  RunningConfigFrozen'
  OBVIOUS
<1> USE Bounds
<1>1. CASE UNCHANGED vars
  BY <1>1 DEF TypeOK, RunInv, StateInv, RunningConfigFrozen
<1>2. CASE Register \/ Expire
  BY <1>2 DEF Register, Expire, TypeOK, RunInv, StateInv,
    RunningConfigFrozen
<1>3. CASE OwnerStep
  BY <1>3 DEF OwnerStep, OwnerStopsIntake, OwnerClosesServing, OwnerWork,
    OwnerAwaitsServices, OwnerPublishes, TypeOK, RunInv, StateInv,
    RunningConfigFrozen
<1>4. ASSUME NEW r \in Runners, CancelRun(r) \/ ClaimRefused(r) \/ ClaimRun(r)
      PROVE  RunningConfigFrozen'
  BY <1>4 DEF CancelRun, ClaimRefused, ClaimRun, TypeOK, RunInv, StateInv,
    RunningConfigFrozen
<1>5. ASSUME NEW r \in Runners, RunStartup(r) PROVE RunningConfigFrozen'
  BY <1>5 DEF RunStartup, Prepare, BindCanceled, BindChecked, Listen,
    ListenFails, Bound, PublishCanceled, Publish, RollbackClose,
    RollbackStop, TypeOK, RunInv, StateInv, RunningConfigFrozen
<1>6. ASSUME NEW r \in Runners, RunService(r) PROVE RunningConfigFrozen'
  BY <1>6 DEF RunService, RunCanceled, RunFailed, StartShutdown, RunOwns,
    RunReturns, TypeOK, RunInv, StateInv, RunningConfigFrozen
<1>7. ASSUME NEW t \in Transports, ServiceEnds(t) \/ ServiceFails(t)
      PROVE  RunningConfigFrozen'
  BY <1>7 DEF ServiceEnds, ServiceFails, TypeOK, RunInv, StateInv,
    RunningConfigFrozen
<1>8. ASSUME NEW s \in Stoppers, StopStep(s) PROVE RunningConfigFrozen'
  BY <1>8 DEF StopStep, ShutdownEnter, ShutdownOwns, ShutdownReturns,
    ShutdownGivesUp, TypeOK, RunInv, StateInv, RunningConfigFrozen
<1> QED
  BY <1>1, <1>2, <1>3, <1>4, <1>5, <1>6, <1>7, <1>8 DEF Next, RunStep

(* No step leaves the order of the states. *)
LEMMA LegalMoveKept ==
  TypeOK /\ RunInv /\ StateInv /\ OwnerInv /\ StopInv /\ [Next]_vars =>
    LegalMove
<1> SUFFICES ASSUME TypeOK, RunInv, StateInv, OwnerInv, StopInv, [Next]_vars
             PROVE  LegalMove
  OBVIOUS
<1>1. CASE UNCHANGED vars
  BY <1>1 DEF TypeOK, RunInv, StateInv, OwnerInv, StopInv, LegalMove
<1>2. CASE Register \/ Expire
  BY <1>2 DEF Register, Expire, TypeOK, RunInv, StateInv, OwnerInv, StopInv,
    LegalMove
<1>3. CASE OwnerStep
  BY <1>3 DEF OwnerStep, OwnerStopsIntake, OwnerClosesServing, OwnerWork,
    OwnerAwaitsServices, OwnerPublishes, TypeOK, RunInv, StateInv, OwnerInv,
    StopInv, LegalMove
<1>4. ASSUME NEW r \in Runners, CancelRun(r) \/ ClaimRefused(r) \/ ClaimRun(r)
      PROVE  LegalMove
  BY <1>4 DEF CancelRun, ClaimRefused, ClaimRun, TypeOK, RunInv, StateInv,
    OwnerInv, StopInv, LegalMove
<1>5. ASSUME NEW r \in Runners, RunStartup(r) PROVE LegalMove
  BY <1>5 DEF RunStartup, Prepare, BindCanceled, BindChecked, Listen,
    ListenFails, Bound, PublishCanceled, Publish, RollbackClose,
    RollbackStop, TypeOK, RunInv, StateInv, OwnerInv, StopInv, LegalMove
<1>6. ASSUME NEW r \in Runners, RunService(r) PROVE LegalMove
  BY <1>6 DEF RunService, RunCanceled, RunFailed, StartShutdown, RunOwns,
    RunReturns, TypeOK, RunInv, StateInv, OwnerInv, StopInv, LegalMove
<1>7. ASSUME NEW t \in Transports, ServiceEnds(t) \/ ServiceFails(t)
      PROVE  LegalMove
  BY <1>7 DEF ServiceEnds, ServiceFails, TypeOK, RunInv, StateInv, OwnerInv,
    StopInv, LegalMove
<1>8. ASSUME NEW s \in Stoppers, StopStep(s) PROVE LegalMove
  BY <1>8 DEF StopStep, ShutdownEnter, ShutdownOwns, ShutdownReturns,
    ShutdownGivesUp, TypeOK, RunInv, StateInv, OwnerInv, StopInv, LegalMove
<1> QED
  BY <1>1, <1>2, <1>3, <1>4, <1>5, <1>6, <1>7, <1>8 DEF Next, RunStep

(* No goroutine that is left changes a stopped server. *)
LEMMA StoppedIsFrozenKept ==
  TypeOK /\ RunInv /\ StateInv /\ OwnerInv /\ StopInv /\ [Next]_vars =>
    StoppedIsFrozen
<1> SUFFICES ASSUME TypeOK, RunInv, StateInv, OwnerInv, StopInv, [Next]_vars
             PROVE  StoppedIsFrozen
  OBVIOUS
<1>1. CASE UNCHANGED vars
  BY <1>1 DEF TypeOK, RunInv, StateInv, OwnerInv, StopInv, StoppedIsFrozen
<1>2. CASE Register \/ Expire
  BY <1>2 DEF Register, Expire, TypeOK, RunInv, StateInv, OwnerInv, StopInv,
    StoppedIsFrozen
<1>3. CASE OwnerStep
  BY <1>3 DEF OwnerStep, OwnerStopsIntake, OwnerClosesServing, OwnerWork,
    OwnerAwaitsServices, OwnerPublishes, TypeOK, RunInv, StateInv, OwnerInv,
    StopInv, StoppedIsFrozen
<1>4. ASSUME NEW r \in Runners, CancelRun(r) \/ ClaimRefused(r) \/ ClaimRun(r)
      PROVE  StoppedIsFrozen
  BY <1>4 DEF CancelRun, ClaimRefused, ClaimRun, TypeOK, RunInv, StateInv,
    OwnerInv, StopInv, StoppedIsFrozen
<1>5. ASSUME NEW r \in Runners, RunStartup(r) PROVE StoppedIsFrozen
  BY <1>5 DEF RunStartup, Prepare, BindCanceled, BindChecked, Listen,
    ListenFails, Bound, PublishCanceled, Publish, RollbackClose,
    RollbackStop, TypeOK, RunInv, StateInv, OwnerInv, StopInv,
    StoppedIsFrozen
<1>6. ASSUME NEW r \in Runners, RunService(r) PROVE StoppedIsFrozen
  BY <1>6 DEF RunService, RunCanceled, RunFailed, StartShutdown, RunOwns,
    RunReturns, TypeOK, RunInv, StateInv, OwnerInv, StopInv, StoppedIsFrozen
<1>7. ASSUME NEW t \in Transports, ServiceEnds(t) \/ ServiceFails(t)
      PROVE  StoppedIsFrozen
  BY <1>7 DEF ServiceEnds, ServiceFails, TypeOK, RunInv, StateInv, OwnerInv,
    StopInv, StoppedIsFrozen
<1>8. ASSUME NEW s \in Stoppers, StopStep(s) PROVE StoppedIsFrozen
  BY <1>8 DEF StopStep, ShutdownEnter, ShutdownOwns, ShutdownReturns,
    ShutdownGivesUp, TypeOK, RunInv, StateInv, OwnerInv, StopInv,
    StoppedIsFrozen
<1> QED
  BY <1>1, <1>2, <1>3, <1>4, <1>5, <1>6, <1>7, <1>8 DEF Next, RunStep

-----------------------------------------------------------------------------
LEMMA InitInv == Init => IInv
<1> SUFFICES ASSUME Init PROVE IInv
  OBVIOUS
<1> USE DEF Init
<1>1. RunInv /\ StateInv /\ OwnerInv
  BY DEF RunInv, StateInv, OwnerInv
<1>2. StopInv /\ FailureInv /\ ShutdownIsFinal
  BY DEF StopInv, FailureInv, ShutdownIsFinal
<1>3. StoppedReleasesAll /\ RuntimeErrorSurfaces /\ RunningConfigFrozen
  BY DEF StoppedReleasesAll, RuntimeErrorSurfaces, RunningConfigFrozen
<1> QED
  BY <1>1, <1>2, <1>3, InitType DEF IInv

LEMMA NextInv == IInv /\ [Next]_vars => IInv'
  BY NextType, NextRunInv, NextStateInv, NextOwnerInv, NextStopInv,
     NextFailureInv, NextShutdownIsFinal, NextStoppedReleasesAll,
     NextRuntimeErrorSurfaces, NextRunningConfigFrozen DEF IInv

(* IInv is an inductive invariant of the server's lifecycle. *)
THEOREM Inductive == Spec => []IInv
<1> QED
  BY InitInv, NextInv, PTL DEF Spec

(* The state machine of server.go stays well typed, and the runtimeErr     *)
(* channel never holds more than one error per transport.                  *)
THEOREM TypeCorrect == Spec => []TypeOK
<1>1. IInv => TypeOK
  BY DEF IInv
<1> QED
  BY <1>1, Inductive, PTL

(* Server.Shutdown, for any number of callers at any time after Run: who   *)
(* gets a result gets the one terminal result, and the server is stopped.  *)
THEOREM ShutdownReportsTheEnd == Spec => []ShutdownIsFinal
<1>1. IInv => ShutdownIsFinal
  BY DEF IInv
<1> QED
  BY <1>1, Inductive, PTL

(* Whether shutdownOwner or rollbackStartup ended it, a stopped server has *)
(* released its listeners, its setups and its pool.                        *)
THEOREM NothingLeftOpen == Spec => []StoppedReleasesAll
<1>1. IInv => StoppedReleasesAll
  BY DEF IInv
<1> QED
  BY <1>1, Inductive, PTL

(* No failure of an accept loop is lost in the race of Run's select with   *)
(* the context and with Shutdown: Run returns it.                          *)
THEOREM FailuresReachRun == Spec => []RuntimeErrorSurfaces
<1>1. IInv => RuntimeErrorSurfaces
  BY DEF IInv
<1> QED
  BY <1>1, Inductive, PTL

(* No registration slips in between the freeze of the configuration and    *)
(* the end of the server.                                                  *)
THEOREM ConfigStaysFrozen == Spec => []RunningConfigFrozen
<1>1. IInv => RunningConfigFrozen
  BY DEF IInv
<1> QED
  BY <1>1, Inductive, PTL

(* stateMu guards every move: startup completes or is rolled back, a       *)
(* running server is stopped once, and neither a late cancellation nor a   *)
(* second owner touches a stopped one.                                     *)
THEOREM LifecycleInOrder == Spec => LifecycleSteps
<1>1. IInv /\ [Next]_vars => [LegalMove /\ StoppedIsFrozen]_vars
  BY LegalMoveKept, StoppedIsFrozenKept DEF IInv
<1> QED
  BY <1>1, Inductive, PTL DEF Spec, LifecycleSteps

==============================================================================
