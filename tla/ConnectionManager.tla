------------------------- MODULE ConnectionManager --------------------------
(***************************************************************************)
(* The connections of a server from their setup to their end: manager.go,  *)
(* the acceptors of tcp_server.go and websocket_server.go with the setup   *)
(* gate of server.go, and the shutdown owner's calls on the manager.       *)
(*                                                                         *)
(* Goroutines: the TCP accept loop, one HTTP handler per upgrade request,  *)
(* the supervisor of each connection, the shutdown owner.  A group's lock  *)
(* covers one group only, so counting and snapshots read group by group.   *)
(* What a connection does between its start and its removal is Connection; *)
(* here it is closed (by the peer or by the owner) or drained, and ends.   *)
(***************************************************************************)
EXTENDS Naturals, FiniteSets

CONSTANTS Upgrades,        \* WebSocket upgrade requests
          MaxAccepts,      \* bound: sockets the TCP loop accepts
          GroupCount,      \* ConnectionGroupsCount
          MaxConnections   \* MaxConnectionsCount

ASSUME ConnectionManagerAssumption ==
    /\ IsFiniteSet(Upgrades) /\ "tcp" \notin Upgrades
    /\ MaxAccepts \in Nat
    /\ GroupCount \in Nat \ {0}
    /\ MaxConnections \in Nat \ {0}

Conns == 1..(MaxAccepts + Cardinality(Upgrades))  \* connection IDs
Openers == {"tcp"} \cup Upgrades

VARIABLES
    members,          \* the union of the groups' maps
    finalizing,       \* m.finalizing
    change,           \* how many finalizingChange channels were closed
    life,             \* life[c]: the stage of connection c
    closing,          \* connections on which requestClose was called
    quiesced,         \* connections on which quiesceReads was called
    drained,          \* connections whose writer stopSendsAndDrain has ended
    listening,        \* closeServingResources was not called yet
    acceptingSetups,  \* s.acceptingSetups
    inSetup,          \* who is counted in setupWG
    lastID,           \* s.currentConnectionID
    opPc,             \* opPc[o]: where the acceptor or handler is
    own,              \* own[o]: the connection it is opening, or 0
    accepts,          \* sockets accepted so far
    count,            \* count[o]: its progress in connectionsCount
    peak,             \* history: the most that were Deciding at once, so far
    ownerPc,          \* where the shutdown owner is
    snapGroup,        \* the next group its snapshot reads
    snap,             \* what its snapshot has found
    seenChange,       \* the finalizingChange channel it holds
    expired,          \* ShutdownTimeout has passed
    timedOut          \* the owner's timedOut

connVars == <<members, finalizing, change, life, closing, quiesced, drained>>
countVars == <<count, peak>>
setupVars == <<listening, acceptingSetups, inSetup, lastID, opPc, own, accepts,
               countVars>>
snapVars == <<snapGroup, snap>>
ownerVars == <<ownerPc, snapVars, seenChange, expired, timedOut>>
vars == <<connVars, setupVars, ownerVars>>

(* selectGroup *)
Group(g) == {c \in Conns : c % GroupCount = g}

NoCount == [group |-> 0, total |-> 0]

OpGo(o, label) == opPc' = [opPc EXCEPT ![o] = label]

(* Who has begun to count the connections and not yet added its own. *)
Deciding == {o \in Openers : \/ opPc[o] \in {"count", "upgrade", "add"}
                             \/ o = "tcp" /\ opPc[o] = "begin"}

StartCount(o) ==
    /\ OpGo(o, "count")
    /\ LET now == Cardinality(Deciding \cup {o})
       IN  peak' = IF now > peak THEN now ELSE peak

Init ==
    /\ members = {} /\ finalizing = {} /\ change = 0
    /\ life = [c \in Conns |-> "none"]
    /\ closing = {} /\ quiesced = {} /\ drained = {}
    /\ listening = TRUE /\ acceptingSetups = TRUE /\ inSetup = {}
    /\ lastID = 0 /\ accepts = 0
    /\ opPc = [o \in Openers |-> IF o = "tcp" THEN "accept" ELSE "idle"]
    /\ own = [o \in Openers |-> 0]
    /\ count = [o \in Openers |-> NoCount] /\ peak = 0
    /\ ownerPc = "off" /\ snapGroup = 0 /\ snap = {} /\ seenChange = 0
    /\ expired = FALSE /\ timedOut = FALSE

-----------------------------------------------------------------------------
(* Plausible bugs, used only to show that the properties can fail.  Each   *)
(* one takes the place of the definition it is named after.                *)

(* removeConnection does not pass through the finalizing set. *)
BugRemoveBegin(c) ==
    /\ life[c] = "open"
    /\ c \in closing \/ c \in quiesced \cap drained
    /\ life' = [life EXCEPT ![c] = "finalizing"]
    /\ UNCHANGED <<members, finalizing, change, closing, quiesced, drained,
                   setupVars, ownerVars>>

(* markFinalized does not close the channel others may be waiting on. *)
BugMarkFinalized(c) ==
    /\ life[c] = "done"
    /\ finalizing' = finalizing \ {c}
    /\ life' = [life EXCEPT ![c] = "final"]
    /\ UNCHANGED <<members, change, closing, quiesced, drained, setupVars,
                   ownerVars>>

(* The upgrade handler does not look at the limit, the TCP loop does. *)
BugCountDone(o) ==
    /\ opPc[o] = "count" /\ count[o].group = GroupCount
    /\ OpGo(o, IF o # "tcp" THEN "upgrade"
               ELSE IF count[o].total >= MaxConnections THEN "accept" ELSE "begin")
    /\ count' = [count EXCEPT ![o] = NoCount]
    /\ UNCHANGED <<connVars, listening, acceptingSetups, inSetup, lastID, own,
                   accepts, peak, ownerVars>>

-----------------------------------------------------------------------------
(* serveTCP and handleWebSocketUpgrade *)

(* A socket is accepted. *)
Accept ==
    /\ opPc["tcp"] = "accept" /\ listening
    /\ accepts < MaxAccepts
    /\ accepts' = accepts + 1
    /\ StartCount("tcp")
    /\ UNCHANGED <<connVars, listening, acceptingSetups, inSetup, lastID, own,
                   count, ownerVars>>

(* Accept fails, with net.ErrClosed once the listener is closed, and the   *)
(* service ends.  What another error does to the server is ServerLifecycle.*)
AcceptEnds ==
    /\ opPc["tcp"] = "accept"
    /\ OpGo("tcp", "ended")
    /\ UNCHANGED <<connVars, listening, acceptingSetups, inSetup, lastID, own,
                   accepts, countVars, ownerVars>>

(* A request reaches the upgrade handler. *)
Arrive(o) ==
    /\ opPc[o] = "idle" /\ listening
    /\ OpGo(o, "begin")
    /\ UNCHANGED <<connVars, listening, acceptingSetups, inSetup, lastID, own,
                   accepts, countVars, ownerVars>>

(* connectionsCount reads one group after the other. *)
CountGroup(o) ==
    /\ opPc[o] = "count" /\ count[o].group < GroupCount
    /\ count' = [count EXCEPT ![o] =
          [group |-> @.group + 1,
           total |-> @.total + Cardinality(members \cap Group(@.group))]]
    /\ UNCHANGED <<connVars, listening, acceptingSetups, inSetup, lastID, opPc,
                   own, accepts, peak, ownerVars>>

AtLimit(total) == total >= MaxConnections

(* At the limit the socket is closed, or the upgrade refused.  TCP counts  *)
(* before it passes the setup gate, WebSocket after.                       *)
CountDone(o) ==
    /\ opPc[o] = "count" /\ count[o].group = GroupCount
    /\ OpGo(o, IF AtLimit(count[o].total)
               THEN IF o = "tcp" THEN "accept" ELSE "finish"
               ELSE IF o = "tcp" THEN "begin" ELSE "upgrade")
    /\ count' = [count EXCEPT ![o] = NoCount]
    /\ UNCHANGED <<connVars, listening, acceptingSetups, inSetup, lastID, own,
                   accepts, peak, ownerVars>>

(* beginConnectionSetup *)
SetupBegin(o) ==
    /\ opPc[o] = "begin" /\ acceptingSetups
    /\ inSetup' = inSetup \cup {o}
    /\ \/ o = "tcp" /\ OpGo(o, "add") /\ UNCHANGED peak
       \/ o # "tcp" /\ StartCount(o)
    /\ UNCHANGED <<connVars, listening, acceptingSetups, lastID, own, accepts,
                   count, ownerVars>>

SetupRefused(o) ==
    /\ opPc[o] = "begin" /\ ~acceptingSetups
    /\ OpGo(o, IF o = "tcp" THEN "accept" ELSE "ended")
    /\ UNCHANGED <<connVars, listening, acceptingSetups, inSetup, lastID, own,
                   accepts, countVars, ownerVars>>

(* Upgrade takes the socket over from the HTTP server, or fails, as it     *)
(* must once webSocketServer.Close has closed the socket under it.         *)
Upgrade(o) ==
    /\ opPc[o] = "upgrade"
    /\ (listening /\ OpGo(o, "add")) \/ OpGo(o, "finish")
    /\ UNCHANGED <<connVars, listening, acceptingSetups, inSetup, lastID, own,
                   accepts, countVars, ownerVars>>

(* nextConnectionID, newNetConnection and addConnection: whatever the      *)
(* server's state is by now.                                               *)
Add(o) ==
    /\ opPc[o] = "add"
    /\ LET c == lastID + 1 IN
          /\ lastID' = c
          /\ members' = members \cup {c}
          /\ life' = [life EXCEPT ![c] = "added"]
          /\ own' = [own EXCEPT ![o] = c]
    /\ OpGo(o, "open")
    /\ UNCHANGED <<finalizing, change, closing, quiesced, drained, listening,
                   acceptingSetups, inSetup, accepts, countVars, ownerVars>>

(* open starts the connection's goroutines, then runs the open hook here. *)
Open(o) ==
    /\ opPc[o] = "open"
    /\ life' = [life EXCEPT ![own[o]] = "hook"]
    /\ OpGo(o, "hook")
    /\ UNCHANGED <<members, finalizing, change, closing, quiesced, drained,
                   listening, acceptingSetups, inSetup, lastID, own, accepts,
                   countVars, ownerVars>>

HookReturns(o) ==
    /\ opPc[o] = "hook"
    /\ life' = [life EXCEPT ![own[o]] = "open"]
    /\ OpGo(o, "finish")
    /\ UNCHANGED <<members, finalizing, change, closing, quiesced, drained,
                   listening, acceptingSetups, inSetup, lastID, own, accepts,
                   countVars, ownerVars>>

(* finishConnectionSetup *)
SetupFinish(o) ==
    /\ opPc[o] = "finish"
    /\ inSetup' = inSetup \ {o}
    /\ own' = [own EXCEPT ![o] = 0]
    /\ OpGo(o, IF o = "tcp" THEN "accept" ELSE "ended")
    /\ UNCHANGED <<connVars, listening, acceptingSetups, lastID, accepts,
                   countVars, ownerVars>>

-----------------------------------------------------------------------------
(* A connection's own end, and its supervisor *)

(* The reader, the writer or the heartbeat closes the connection: up to    *)
(* the peer, which may stay, and keep the heartbeat content with pings.    *)
PeerCloses(c) ==
    /\ life[c] \in {"hook", "open"} /\ c \notin closing
    /\ closing' = closing \cup {c}
    /\ UNCHANGED <<members, finalizing, change, life, quiesced, drained,
                   setupVars, ownerVars>>

(* The open hook has returned and the goroutines have ended.               *)
(* removeConnection: first into the finalizing set ...                     *)
RemoveBegin(c) ==
    /\ life[c] = "open"
    /\ c \in closing \/ c \in quiesced \cap drained
    /\ finalizing' = finalizing \cup {c}
    /\ life' = [life EXCEPT ![c] = "finalizing"]
    /\ UNCHANGED <<members, change, closing, quiesced, drained, setupVars,
                   ownerVars>>

(* ... then out of its group. *)
RemoveEnd(c) ==
    /\ life[c] = "finalizing"
    /\ members' = members \ {c}
    /\ life' = [life EXCEPT ![c] = "removed"]
    /\ UNCHANGED <<finalizing, change, closing, quiesced, drained, setupVars,
                   ownerVars>>

(* The close hook has run and c.done is closed. *)
CloseDone(c) ==
    /\ life[c] = "removed"
    /\ life' = [life EXCEPT ![c] = "done"]
    /\ UNCHANGED <<members, finalizing, change, closing, quiesced, drained,
                   setupVars, ownerVars>>

(* markFinalized replaces the change channel after closing it. *)
MarkFinalized(c) ==
    /\ life[c] = "done"
    /\ finalizing' = finalizing \ {c}
    /\ change' = change + 1
    /\ life' = [life EXCEPT ![c] = "final"]
    /\ UNCHANGED <<members, closing, quiesced, drained, setupVars, ownerVars>>

-----------------------------------------------------------------------------
(* shutdownOwner *)

(* Every timed wait ends normally or at the timeout. *)
Ended(normally) ==
    \/ normally /\ UNCHANGED timedOut
    \/ expired /\ timedOut' = TRUE

OwnerGo(label) ==
    /\ ownerPc' = label
    /\ snapGroup' = 0 /\ snap' = {}

Expire ==
    /\ ownerPc \notin {"off", "stopped"} /\ ~expired
    /\ expired' = TRUE
    /\ UNCHANGED <<connVars, setupVars, ownerPc, snapVars, seenChange, timedOut>>

(* stopConnectionSetups *)
OwnerStopsSetups ==
    /\ ownerPc = "off"
    /\ acceptingSetups' = FALSE
    /\ OwnerGo("closeServing")
    /\ UNCHANGED <<connVars, listening, inSetup, lastID, opPc, own, accepts,
                   countVars, seenChange, expired, timedOut>>

OwnerClosesServing ==
    /\ ownerPc = "closeServing"
    /\ listening' = FALSE
    /\ OwnerGo("awaitSetups")
    /\ UNCHANGED <<connVars, acceptingSetups, inSetup, lastID, opPc, own,
                   accepts, countVars, seenChange, expired, timedOut>>

(* waitForConnectionSetups *)
OwnerAwaitsSetups ==
    /\ ownerPc = "awaitSetups"
    /\ Ended(inSetup = {})
    /\ OwnerGo("quiesce")
    /\ UNCHANGED <<connVars, setupVars, seenChange, expired>>

(* snapshot reads one group after the other. *)
Snapshot ==
    /\ ownerPc \in {"quiesce", "drain", "force", "wait", "forceAgain"}
    /\ snapGroup < GroupCount
    /\ snap' = snap \cup (members \cap Group(snapGroup))
    /\ snapGroup' = snapGroup + 1
    /\ UNCHANGED <<connVars, setupVars, ownerPc, seenChange, expired, timedOut>>

Taken == snapGroup = GroupCount

(* quiesceAll *)
OwnerQuiesces ==
    /\ ownerPc = "quiesce" /\ Taken
    /\ quiesced' = quiesced \cup snap
    /\ OwnerGo("pool")
    /\ UNCHANGED <<members, finalizing, change, life, closing, drained,
                   setupVars, seenChange, expired, timedOut>>

(* stopAcceptingAndDrain on the pool: WorkerPool. *)
OwnerDrainsPool ==
    /\ ownerPc = "pool"
    /\ Ended(TRUE)
    /\ OwnerGo("drain")
    /\ UNCHANGED <<connVars, setupVars, seenChange, expired>>

(* stopSendsAndDrain on each, until the timeout strikes at one of them.    *)
(* It waits for a writer, which runs once the connection has been started. *)
OwnerDrainsSends ==
    /\ ownerPc = "drain" /\ Taken
    /\ \E told \in SUBSET snap :
          /\ drained' = drained \cup told
          /\ \/ /\ told = snap /\ \A c \in snap : life[c] # "added"
                /\ UNCHANGED timedOut
             \/ expired /\ told # {} /\ timedOut' = TRUE
    /\ OwnerGo("force")
    /\ UNCHANGED <<members, finalizing, change, life, closing, quiesced,
                   setupVars, seenChange, expired>>

(* forceCloseAll *)
OwnerForces ==
    /\ ownerPc = "force" /\ Taken
    /\ closing' = closing \cup snap
    /\ OwnerGo("wait")
    /\ UNCHANGED <<members, finalizing, change, life, quiesced, drained,
                   setupVars, seenChange, expired, timedOut>>

(* waitAll: the groups' snapshot, then the finalizing set ... *)
WaitCollects ==
    /\ ownerPc = "wait" /\ Taken
    /\ IF snap \cup finalizing = {}
       THEN OwnerGo("services")
       ELSE /\ ownerPc' = "waitEach"
            /\ snap' = snap \cup finalizing
            /\ UNCHANGED snapGroup
    /\ UNCHANGED <<connVars, setupVars, seenChange, expired, timedOut>>

(* ... then each of them ... *)
WaitEach ==
    /\ ownerPc = "waitEach"
    /\ \/ /\ \A c \in snap : life[c] \in {"done", "final"}
          /\ OwnerGo("waitCheck") /\ UNCHANGED timedOut
       \/ expired /\ timedOut' = TRUE /\ OwnerGo("services")
    /\ UNCHANGED <<connVars, setupVars, seenChange, expired>>

(* ... then the finalizing set with its change channel, in one look ... *)
WaitCheck ==
    /\ ownerPc = "waitCheck"
    /\ seenChange' = change
    /\ OwnerGo(IF finalizing = {} THEN "services" ELSE "waitChange")
    /\ UNCHANGED <<connVars, setupVars, expired, timedOut>>

(* ... and until that channel is closed, to begin again. *)
WaitChange ==
    /\ ownerPc = "waitChange"
    /\ \/ change # seenChange /\ OwnerGo("wait") /\ UNCHANGED timedOut
       \/ expired /\ timedOut' = TRUE /\ OwnerGo("services")
    /\ UNCHANGED <<connVars, setupVars, seenChange, expired>>

(* serviceWG: the TCP loop; http.Server.Serve returns when it is closed,   *)
(* whatever its handlers are doing.                                        *)
OwnerAwaitsServices ==
    /\ ownerPc = "services"
    /\ Ended(opPc["tcp"] = "ended")
    /\ OwnerGo("forceAgain")
    /\ UNCHANGED <<connVars, setupVars, seenChange, expired>>

(* After a timeout forceCloseAll once more, and in any case the end. *)
OwnerStops ==
    /\ ownerPc = "forceAgain"
    /\ timedOut => Taken
    /\ closing' = IF timedOut THEN closing \cup snap ELSE closing
    /\ OwnerGo("stopped")
    /\ UNCHANGED <<members, finalizing, change, life, quiesced, drained,
                   setupVars, seenChange, expired, timedOut>>

-----------------------------------------------------------------------------
SetupStep(o) ==
    \/ CountGroup(o) \/ CountDone(o) \/ SetupBegin(o) \/ SetupRefused(o)
    \/ Upgrade(o) \/ Add(o) \/ Open(o) \/ HookReturns(o) \/ SetupFinish(o)

SuperviseStep(c) ==
    RemoveBegin(c) \/ RemoveEnd(c) \/ CloseDone(c) \/ MarkFinalized(c)

OwnerStep ==
    \/ OwnerClosesServing \/ OwnerAwaitsSetups \/ Snapshot \/ OwnerQuiesces
    \/ OwnerDrainsPool \/ OwnerDrainsSends \/ OwnerForces \/ WaitCollects
    \/ WaitEach \/ WaitCheck \/ WaitChange \/ OwnerAwaitsServices \/ OwnerStops

Next ==
    \/ Accept \/ AcceptEnds \/ Expire \/ OwnerStopsSetups \/ OwnerStep
    \/ \E o \in Upgrades : Arrive(o)
    \/ \E o \in Openers : SetupStep(o)
    \/ \E c \in Conns : PeerCloses(c) \/ SuperviseStep(c)

(* Runnable goroutines are scheduled, open and close hooks return, an      *)
(* upgrade and every write succeed or fail.  The timer need not fire.      *)
Fairness ==
    /\ \A o \in Openers : WF_vars(SetupStep(o))
    /\ WF_vars(~listening /\ AcceptEnds)
    /\ \A c \in Conns : WF_vars(SuperviseStep(c))
    /\ WF_vars(OwnerStep)

Spec == Init /\ [][Next]_vars /\ Fairness
-----------------------------------------------------------------------------
(* Properties *)

Registered == {c \in Conns : life[c] # "none"}

(* Every variable of the manager, of the acceptors and of the owner has a  *)
(* value of its type.                                                      *)
TypeOK ==
    /\ members \subseteq Conns /\ finalizing \subseteq Conns
    /\ change \in Nat
    /\ life \in [Conns -> {"none", "added", "hook", "open", "finalizing",
                           "removed", "done", "final"}]
    /\ closing \subseteq Conns /\ quiesced \subseteq Conns /\ drained \subseteq Conns
    /\ listening \in BOOLEAN /\ acceptingSetups \in BOOLEAN
    /\ inSetup \subseteq Openers
    /\ lastID \in {0} \cup Conns /\ accepts \in 0..MaxAccepts
    /\ opPc \in [Openers -> {"accept", "idle", "count", "begin", "upgrade",
                             "add", "open", "hook", "finish", "ended"}]
    /\ own \in [Openers -> Conns \cup {0}]
    /\ count \in [Openers -> [group : 0..GroupCount, total : Nat]]
    /\ peak \in Nat
    /\ ownerPc \in {"off", "closeServing", "awaitSetups", "quiesce", "pool",
                    "drain", "force", "wait", "waitEach", "waitCheck",
                    "waitChange", "services", "forceAgain", "stopped"}
    /\ snapGroup \in 0..GroupCount /\ snap \subseteq Conns
    /\ seenChange \in Nat
    /\ expired \in BOOLEAN /\ timedOut \in BOOLEAN

(* A shutdown that ends without a timeout leaves nothing behind: every     *)
(* connection that was ever registered has been finalized, and no setup    *)
(* can still register one.  The snapshots are not atomic and connections   *)
(* move between the groups and the finalizing set meanwhile.               *)
CleanShutdownIsComplete ==
    ownerPc = "stopped" /\ ~timedOut =>
        /\ \A c \in Registered : life[c] = "final"
        /\ \A o \in Openers : opPc[o] \notin {"add", "open", "hook"}

(* MaxConnectionsCount is a hard limit as long as no two setups, of either *)
(* transport, are between the start of their count and their addConnection *)
(* at the same time; with at most n there at once, ever so far, at most    *)
(* n - 1 connections are above it.  Counting and registering are separate  *)
(* steps, the count reads group by group, and connections come and go.     *)
LimitOvershootBounded == Cardinality(members) < MaxConnections + peak

(* Nobody needs the timer when everybody cooperates: the owner's waits end *)
(* by themselves, so no wake-up of waitAll is lost.                        *)
ShutdownNeedsNoTimer == (ownerPc = "closeServing") ~> (ownerPc = "stopped")

(* What the design document says of a shutdown whose deadline expires:     *)
(* the framework's goroutines exit, so every connection comes to its end.  *)
FrameworkWindsDown ==
    \A c \in Conns :
        (ownerPc = "stopped" /\ life[c] # "none") ~> (life[c] = "final")
=============================================================================
