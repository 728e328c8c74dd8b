----------------------- MODULE ConnectionManagerProofs -----------------------
(***************************************************************************)
(* Proofs about ConnectionManager, for every number of upgrades, accepted  *)
(* sockets and groups and every limit.                                     *)
(***************************************************************************)
EXTENDS ConnectionManager, FiniteSetTheorems, TLAPS

USE DEF vars, connVars, setupVars, snapVars, ownerVars, countVars, OpGo,
        OwnerGo, Ended, Taken, NoCount

(* The strengthening of the safety invariants that is inductive.           *)

(* Who is past the setup gate is counted in setupWG; the gate stays shut.  *)
GateInv ==
    /\ ownerPc # "off" => ~acceptingSetups
    /\ opPc["tcp"] \notin {"idle", "upgrade"}
    /\ \A o \in Openers :
          /\ opPc[o] \in {"upgrade", "add", "open", "hook", "finish"} => o \in inSetup
          /\ opPc[o] = "count" /\ o # "tcp" => o \in inSetup
          /\ opPc[o] # "count" => count[o] = NoCount

(* Every ID is used once, each accepted socket and each upgrade uses at    *)
(* most one, and so IDs do not run out.                                    *)
Unspent == {u \in Upgrades : opPc[u] \notin {"open", "hook", "finish", "ended"}}
InFlight == IF opPc["tcp"] \in {"count", "begin", "add"} THEN 1 ELSE 0

BudgetInv == lastID + InFlight + Cardinality(Unspent) <= accepts + Cardinality(Upgrades)

(* The groups and the finalizing set together hold every connection from   *)
(* its registration until it is final, and one opener brings it there.     *)
LifeInv ==
    /\ members = {c \in Conns : life[c] \in {"added", "hook", "open", "finalizing"}}
    /\ finalizing = {c \in Conns : life[c] \in {"finalizing", "removed", "done"}}
    /\ \A c \in Conns : life[c] = "none" <=> c > lastID

OpeningInv ==
    /\ \A o \in Openers :
          /\ opPc[o] = "open" => own[o] \in Conns /\ life[own[o]] = "added"
          /\ opPc[o] = "hook" => own[o] \in Conns /\ life[own[o]] = "hook"
          /\ \A p \in Openers :
                opPc[o] \in {"open", "hook"} /\ opPc[p] \in {"open", "hook"}
                    /\ own[o] = own[p] => o = p
    /\ \A c \in Conns :
          /\ life[c] = "added" => \E o \in Openers : opPc[o] = "open" /\ own[o] = c
          /\ life[c] = "hook" => \E o \in Openers : opPc[o] = "hook" /\ own[o] = c

(* What the owner knows after the setups, as long as no wait timed out.  A *)
(* snapshot of shrinking groups misses nothing that is still in them.      *)
WaitInv ==
    ownerPc \notin {"off", "closeServing", "awaitSetups"} /\ ~timedOut =>
        /\ inSetup = {}
        /\ ownerPc = "wait" => \A c \in members : c % GroupCount < snapGroup => c \in snap
        /\ ownerPc = "waitEach" => \A c \in Registered : c \in snap \/ life[c] = "final"
        /\ ownerPc = "waitCheck" => \A c \in Registered : life[c] \in {"done", "final"}
        /\ ownerPc \in {"services", "forceAgain", "stopped"} =>
              \A c \in Registered : life[c] = "final"

(* Every set of members that stays is found by whoever counts from now on, *)
(* up to the groups already read.  So the more members there are, the      *)
(* fewer of those who decide can still pass the limit; each of these adds  *)
(* one member at most.                                                     *)
Ahead(o, S) == {c \in S : opPc[o] = "count" /\ count[o].group <= c % GroupCount}
Finds(o, S) == count[o].total + Cardinality(Ahead(o, S))
Passing(S) == {o \in Deciding : Finds(o, S) < MaxConnections}

LimitInv ==
    /\ Cardinality(Deciding) <= peak
    /\ \A S \in SUBSET members :
          Cardinality(S) + Cardinality(Passing(S)) < MaxConnections + peak

IInv ==
    /\ TypeOK /\ GateInv /\ BudgetInv /\ LifeInv /\ OpeningInv
    /\ WaitInv /\ LimitInv
-----------------------------------------------------------------------------
LEMMA OpenersType == /\ "tcp" \in Openers /\ "tcp" \notin Upgrades
                     /\ \A o \in Openers : o # "tcp" <=> o \in Upgrades
  BY ConnectionManagerAssumption DEF Openers

LEMMA Sizes == /\ Cardinality(Upgrades) \in Nat /\ MaxAccepts \in Nat
               /\ GroupCount \in Nat \ {0} /\ MaxConnections \in Nat \ {0}
  BY ConnectionManagerAssumption, FS_CardinalityType

LEMMA ConnsType == Conns \subseteq Nat \ {0}
  BY Sizes DEF Conns

(* selectGroup finds a group for every connection. *)
LEMMA GroupIndex == \A c \in Conns : c % GroupCount \in 0..(GroupCount - 1)
  BY Sizes, ConnsType

(* What the manager holds is finite. *)
LEMMA ConnsFinite == \A S : S \subseteq Conns => IsFiniteSet(S) /\ Cardinality(S) \in Nat
<1>1. IsFiniteSet(Conns)
  BY Sizes, FS_Interval DEF Conns
<1> QED
  BY <1>1, FS_Subset, FS_CardinalityType

LEMMA UpgradesFinite == \A S : S \subseteq Upgrades => IsFiniteSet(S) /\ Cardinality(S) \in Nat
  BY ConnectionManagerAssumption, FS_Subset, FS_CardinalityType

(* nextConnectionID has an unused ID for whoever is about to register. *)
LEMMA FreshID ==
  ASSUME TypeOK, GateInv, BudgetInv, NEW o \in Openers, opPc[o] = "add"
  PROVE  lastID + 1 \in Conns
<1>1. /\ lastID \in Nat /\ accepts \in Nat /\ accepts <= MaxAccepts
      /\ Cardinality(Unspent) \in Nat
  BY ConnsType, Sizes, UpgradesFinite DEF TypeOK, Unspent
<1>2. InFlight + Cardinality(Unspent) >= 1
  <2>1. CASE o = "tcp"
    BY <1>1, <2>1 DEF InFlight
  <2>2. CASE o # "tcp"
    <3>1. o \in Unspent /\ InFlight \in Nat
      BY <2>2, OpenersType DEF Unspent, InFlight
    <3>2. Cardinality(Unspent) # 0
      BY <3>1, UpgradesFinite, FS_EmptySet DEF Unspent
    <3> QED
      BY <1>1, <3>1, <3>2
  <2> QED
    BY <2>1, <2>2
<1>3. InFlight \in Nat
  BY DEF InFlight
<1>4. lastID + 1 <= MaxAccepts + Cardinality(Upgrades)
  BY <1>1, <1>2, <1>3, Sizes DEF BudgetInv
<1> QED
  BY <1>1, <1>4, Sizes DEF Conns

-----------------------------------------------------------------------------
(* The type invariant in three parts, which the provers take one by one. *)
TypeConns ==
    /\ members \subseteq Conns /\ finalizing \subseteq Conns
    /\ change \in Nat
    /\ life \in [Conns -> {"none", "added", "hook", "open", "finalizing",
                           "removed", "done", "final"}]
    /\ closing \subseteq Conns /\ quiesced \subseteq Conns /\ drained \subseteq Conns

TypeSetups ==
    /\ listening \in BOOLEAN /\ acceptingSetups \in BOOLEAN
    /\ inSetup \subseteq Openers
    /\ lastID \in {0} \cup Conns /\ accepts \in 0..MaxAccepts
    /\ opPc \in [Openers -> {"accept", "idle", "count", "begin", "upgrade",
                             "add", "open", "hook", "finish", "ended"}]
    /\ own \in [Openers -> Conns \cup {0}]
    /\ count \in [Openers -> [group : 0..GroupCount, total : Nat]]
    /\ peak \in Nat

TypeOwner ==
    /\ ownerPc \in {"off", "closeServing", "awaitSetups", "quiesce", "pool",
                    "drain", "force", "wait", "waitEach", "waitCheck",
                    "waitChange", "services", "forceAgain", "stopped"}
    /\ snapGroup \in 0..GroupCount /\ snap \subseteq Conns
    /\ seenChange \in Nat
    /\ expired \in BOOLEAN /\ timedOut \in BOOLEAN

LEMMA TypeParts == TypeOK <=> TypeConns /\ TypeSetups /\ TypeOwner
  BY Zenon DEF TypeOK, TypeConns, TypeSetups, TypeOwner

LEMMA InitType == Init => TypeOK
<1> SUFFICES ASSUME Init PROVE TypeOK
  OBVIOUS
<1>1. TypeConns
  BY DEF Init, TypeConns
<1>2. TypeSetups
  BY OpenersType, Sizes DEF Init, TypeSetups
<1>3. TypeOwner
  <2>1. snapGroup \in 0..GroupCount
    BY Sizes DEF Init
  <2> QED
    BY <2>1 DEF Init, TypeOwner
<1> QED
  BY <1>1, <1>2, <1>3, TypeParts

(* The manager's sets and the stages of the connections keep their types. *)
LEMMA NextTypeConns ==
  TypeConns /\ TypeSetups /\ TypeOwner /\ GateInv /\ BudgetInv /\
    [Next]_vars => TypeConns'
<1> SUFFICES ASSUME TypeConns, TypeSetups, TypeOwner, GateInv, BudgetInv,
                    [Next]_vars
             PROVE  TypeConns'
  OBVIOUS
<1> USE OpenersType, ConnsType
<1>1. CASE UNCHANGED vars
  BY <1>1 DEF TypeConns, TypeSetups, TypeOwner, GateInv, BudgetInv
<1>2. CASE Accept \/ AcceptEnds \/ Expire \/ OwnerStopsSetups
  BY <1>2 DEF Accept, AcceptEnds, Expire, OwnerStopsSetups, TypeConns,
      TypeSetups, TypeOwner, GateInv, BudgetInv
<1>3. CASE OwnerStep
  BY <1>3 DEF OwnerStep, OwnerClosesServing, OwnerAwaitsSetups, Snapshot,
      OwnerQuiesces, OwnerDrainsPool, OwnerDrainsSends, OwnerForces,
      WaitCollects, WaitEach, WaitCheck, WaitChange, OwnerAwaitsServices,
      OwnerStops, TypeConns, TypeSetups, TypeOwner, GateInv, BudgetInv
<1>4. ASSUME NEW o \in Upgrades, Arrive(o) PROVE TypeConns'
  BY <1>4 DEF Arrive, TypeConns, TypeSetups, TypeOwner, GateInv, BudgetInv
<1>5. ASSUME NEW o \in Openers, SetupStep(o) PROVE TypeConns'
  <2>1. CASE CountGroup(o) \/ CountDone(o) \/ SetupBegin(o) \/ SetupRefused(o)
            \/ Upgrade(o) \/ Open(o) \/ HookReturns(o) \/ SetupFinish(o)
    BY <2>1 DEF CountGroup, CountDone, SetupBegin, SetupRefused, Upgrade, Open,
        HookReturns, SetupFinish, TypeConns, TypeSetups, TypeOwner, GateInv,
        BudgetInv
  <2>2. CASE Add(o)
    <3>1. lastID + 1 \in Conns
      BY <2>2, FreshID, TypeParts DEF Add
    <3> QED
      BY <2>2, <3>1 DEF Add, TypeConns
  <2> QED
    BY <1>5, <2>1, <2>2 DEF SetupStep
<1>6. ASSUME NEW c \in Conns, PeerCloses(c) \/ SuperviseStep(c) PROVE TypeConns'
  <2>1. CASE PeerCloses(c) \/ RemoveBegin(c) \/ RemoveEnd(c) \/ CloseDone(c)
    BY <2>1 DEF PeerCloses, RemoveBegin, RemoveEnd, CloseDone, TypeConns,
        TypeSetups, TypeOwner, GateInv, BudgetInv
  <2>2. CASE MarkFinalized(c)
    BY <2>2 DEF MarkFinalized, TypeConns, TypeSetups, TypeOwner, GateInv,
        BudgetInv
  <2> QED
    BY <1>6, <2>1, <2>2 DEF SuperviseStep
<1> QED
  BY <1>1, <1>2, <1>3, <1>4, <1>5, <1>6 DEF Next

LEMMA OpenersFinite == \A P : P \subseteq Openers => IsFiniteSet(P) /\ Cardinality(P) \in Nat
<1>1. IsFiniteSet(Openers)
  <2>1. IsFiniteSet({"tcp"}) /\ IsFiniteSet(Upgrades)
    BY ConnectionManagerAssumption, FS_Singleton
  <2> QED
    BY <2>1, FS_Union DEF Openers
<1> QED
  BY <1>1, FS_Subset, FS_CardinalityType

LEMMA StartType ==
  ASSUME NEW o \in Openers, StartCount(o), peak \in Nat
  PROVE  opPc' = [opPc EXCEPT ![o] = "count"] /\ peak' \in Nat
<1>1. Deciding \cup {o} \subseteq Openers
  BY DEF Deciding
<1>2. Cardinality(Deciding \cup {o}) \in Nat
  BY <1>1, OpenersFinite
<1> QED
  BY <1>2 DEF StartCount

(* So do the variables of the acceptors. *)
LEMMA NextTypeSetups ==
  TypeConns /\ TypeSetups /\ TypeOwner /\ GateInv /\ BudgetInv /\
    [Next]_vars => TypeSetups'
<1> SUFFICES ASSUME TypeConns, TypeSetups, TypeOwner, GateInv, BudgetInv,
                    [Next]_vars
             PROVE  TypeSetups'
  OBVIOUS
<1> USE OpenersType, ConnsType, Sizes
<1>1. CASE UNCHANGED vars
  BY <1>1 DEF TypeConns, TypeSetups, TypeOwner, GateInv, BudgetInv
<1>2. CASE Accept \/ AcceptEnds \/ Expire \/ OwnerStopsSetups
  <2>1. CASE Accept
    <3>1. opPc' = [opPc EXCEPT !["tcp"] = "count"] /\ peak' \in Nat
      BY <2>1, StartType DEF Accept, TypeSetups
    <3> QED
      BY <2>1, <3>1 DEF Accept, TypeSetups
  <2>2. CASE AcceptEnds
    BY <2>2 DEF AcceptEnds, TypeConns, TypeSetups, TypeOwner, GateInv,
        BudgetInv
  <2>3. CASE Expire
    BY <2>3 DEF Expire, TypeConns, TypeSetups, TypeOwner, GateInv, BudgetInv
  <2>4. CASE OwnerStopsSetups
    BY <2>4 DEF OwnerStopsSetups, TypeConns, TypeSetups, TypeOwner, GateInv,
        BudgetInv
  <2> QED
    BY <1>2, <2>1, <2>2, <2>3, <2>4
<1>3. CASE OwnerStep
  BY <1>3 DEF OwnerStep, OwnerClosesServing, OwnerAwaitsSetups, Snapshot,
      OwnerQuiesces, OwnerDrainsPool, OwnerDrainsSends, OwnerForces,
      WaitCollects, WaitEach, WaitCheck, WaitChange, OwnerAwaitsServices,
      OwnerStops, TypeConns, TypeSetups, TypeOwner, GateInv, BudgetInv
<1>4. ASSUME NEW o \in Upgrades, Arrive(o) PROVE TypeSetups'
  BY <1>4 DEF Arrive, TypeConns, TypeSetups, TypeOwner, GateInv, BudgetInv
<1>5. ASSUME NEW o \in Openers, SetupStep(o) PROVE TypeSetups'
  <2>0. CASE SetupBegin(o)
    <3>1. /\ opPc' \in {[opPc EXCEPT ![o] = "add"], [opPc EXCEPT ![o] = "count"]}
          /\ peak' \in Nat
      BY <2>0, StartType DEF SetupBegin, TypeSetups
    <3> QED
      BY <2>0, <3>1 DEF SetupBegin, TypeSetups
  <2>1. CASE CountDone(o) \/ SetupRefused(o) \/ Upgrade(o) \/
            Open(o) \/ HookReturns(o) \/ SetupFinish(o)
    BY <2>1 DEF CountDone, SetupRefused, Upgrade, Open,
        HookReturns, SetupFinish, TypeConns, TypeSetups, TypeOwner, GateInv,
        BudgetInv
  <2>2. CASE CountGroup(o)
    <3> DEFINE g == count[o].group
    <3>1. Cardinality(members \cap Group(g)) \in Nat
      BY ConnsFinite DEF Group
    <3>2. /\ count[o] \in [group : 0..GroupCount, total : Nat]
          /\ count[o].group < GroupCount
      BY <2>2 DEF CountGroup, TypeSetups
    <3> QED
      BY <2>2, <3>1, <3>2 DEF CountGroup, TypeSetups
  <2>3. CASE Add(o)
    <3>1. lastID + 1 \in Conns
      BY <2>3, FreshID, TypeParts DEF Add
    <3> QED
      BY <2>3, <3>1 DEF Add, TypeSetups
  <2> QED
    BY <1>5, <2>0, <2>1, <2>2, <2>3 DEF SetupStep
<1>6. ASSUME NEW c \in Conns, PeerCloses(c) \/ SuperviseStep(c)
      PROVE  TypeSetups'
  BY <1>6 DEF SuperviseStep, PeerCloses, RemoveBegin, RemoveEnd, CloseDone,
      MarkFinalized, TypeConns, TypeSetups, TypeOwner, GateInv, BudgetInv
<1> QED
  BY <1>1, <1>2, <1>3, <1>4, <1>5, <1>6 DEF Next

(* So do the owner's. *)
LEMMA NextTypeOwner == TypeConns /\ TypeOwner /\ [Next]_vars => TypeOwner'
<1> SUFFICES ASSUME TypeConns, TypeOwner, [Next]_vars PROVE TypeOwner'
  OBVIOUS
<1> USE Sizes
<1>1. CASE UNCHANGED vars
  BY <1>1 DEF TypeConns, TypeOwner
<1>2. CASE Accept \/ AcceptEnds \/ Expire \/ OwnerStopsSetups
  <2>1. CASE Accept
    BY <2>1 DEF Accept, TypeConns, TypeOwner
  <2>2. CASE AcceptEnds
    BY <2>2 DEF AcceptEnds, TypeConns, TypeOwner
  <2>3. CASE Expire
    BY <2>3 DEF Expire, TypeConns, TypeOwner
  <2>4. CASE OwnerStopsSetups
    BY <2>4 DEF OwnerStopsSetups, TypeConns, TypeOwner
  <2> QED
    BY <1>2, <2>1, <2>2, <2>3, <2>4
<1>3. CASE OwnerStep
  <2>1. CASE OwnerClosesServing \/ Snapshot \/ OwnerQuiesces \/ OwnerForces \/
            WaitCollects \/ WaitCheck \/ OwnerStops
    BY <2>1 DEF OwnerClosesServing, Snapshot, OwnerQuiesces, OwnerForces,
        WaitCollects, WaitCheck, OwnerStops, TypeConns, TypeOwner
  <2>2. CASE OwnerAwaitsSetups
    <3>1. timedOut' \in BOOLEAN
      BY <2>2 DEF OwnerAwaitsSetups, TypeOwner
    <3> QED
      BY <2>2, <3>1 DEF OwnerAwaitsSetups, TypeConns, TypeOwner
  <2>3. CASE OwnerDrainsPool
    <3>1. timedOut' \in BOOLEAN
      BY <2>3 DEF OwnerDrainsPool, TypeOwner
    <3> QED
      BY <2>3, <3>1 DEF OwnerDrainsPool, TypeConns, TypeOwner
  <2>4. CASE OwnerDrainsSends
    <3>1. timedOut' \in BOOLEAN
      BY <2>4 DEF OwnerDrainsSends, TypeOwner
    <3> QED
      BY <2>4, <3>1 DEF OwnerDrainsSends, TypeConns, TypeOwner
  <2>5. CASE WaitEach
    <3>1. timedOut' \in BOOLEAN
      BY <2>5 DEF WaitEach, TypeOwner
    <3> QED
      BY <2>5, <3>1 DEF WaitEach, TypeConns, TypeOwner
  <2>6. CASE WaitChange
    <3>1. timedOut' \in BOOLEAN
      BY <2>6 DEF WaitChange, TypeOwner
    <3> QED
      BY <2>6, <3>1 DEF WaitChange, TypeConns, TypeOwner
  <2>7. CASE OwnerAwaitsServices
    <3>1. timedOut' \in BOOLEAN
      BY <2>7 DEF OwnerAwaitsServices, TypeOwner
    <3> QED
      BY <2>7, <3>1 DEF OwnerAwaitsServices, TypeConns, TypeOwner
  <2> QED
    BY <1>3, <2>1, <2>2, <2>3, <2>4, <2>5, <2>6, <2>7 DEF OwnerStep
<1>4. ASSUME NEW o \in Upgrades, Arrive(o) PROVE TypeOwner'
  BY <1>4 DEF Arrive, TypeConns, TypeOwner
<1>5. ASSUME NEW o \in Openers, SetupStep(o) PROVE TypeOwner'
  BY <1>5 DEF SetupStep, CountGroup, CountDone, SetupBegin, SetupRefused,
      Upgrade, Add, Open, HookReturns, SetupFinish, TypeConns, TypeOwner
<1>6. ASSUME NEW c \in Conns, PeerCloses(c) \/ SuperviseStep(c) PROVE TypeOwner'
  BY <1>6 DEF SuperviseStep, PeerCloses, RemoveBegin, RemoveEnd, CloseDone,
      MarkFinalized, TypeConns, TypeOwner
<1> QED
  BY <1>1, <1>2, <1>3, <1>4, <1>5, <1>6 DEF Next

LEMMA NextType == TypeOK /\ GateInv /\ BudgetInv /\ [Next]_vars => TypeOK'
<1>1. (TypeOK <=> TypeConns /\ TypeSetups /\ TypeOwner)'
  BY TypeParts, PTL
<1> QED
  BY <1>1, TypeParts, NextTypeConns, NextTypeSetups, NextTypeOwner
-----------------------------------------------------------------------------
LEMMA InitGate == Init => GateInv
  BY OpenersType DEF Init, GateInv

(* Nobody enters the setup gate unseen, and it stays shut. *)
LEMMA NextGateInv == TypeOK /\ GateInv /\ [Next]_vars => GateInv'
<1> SUFFICES ASSUME TypeOK, GateInv, [Next]_vars PROVE GateInv'
  OBVIOUS
<1> USE OpenersType, ConnsType
<1>1. CASE UNCHANGED vars
  BY <1>1 DEF TypeOK, GateInv
<1>2. CASE Accept \/ AcceptEnds \/ Expire \/ OwnerStopsSetups
  BY <1>2 DEF StartCount, Accept, AcceptEnds, Expire, OwnerStopsSetups, TypeOK, GateInv
<1>3. CASE OwnerStep
  BY <1>3 DEF OwnerStep, OwnerClosesServing, OwnerAwaitsSetups, Snapshot,
      OwnerQuiesces, OwnerDrainsPool, OwnerDrainsSends, OwnerForces,
      WaitCollects, WaitEach, WaitCheck, WaitChange, OwnerAwaitsServices,
      OwnerStops, TypeOK, GateInv
<1>4. ASSUME NEW o \in Upgrades, Arrive(o) PROVE GateInv'
  BY <1>4 DEF Arrive, TypeOK, GateInv
<1>5. ASSUME NEW o \in Openers, SetupStep(o) PROVE GateInv'
  BY <1>5 DEF StartCount, SetupStep, CountGroup, CountDone, SetupBegin, SetupRefused,
      Upgrade, Add, Open, HookReturns, SetupFinish, TypeOK, GateInv
<1>6. ASSUME NEW c \in Conns, PeerCloses(c) \/ SuperviseStep(c) PROVE GateInv'
  BY <1>6 DEF SuperviseStep, PeerCloses, RemoveBegin, RemoveEnd, CloseDone,
      MarkFinalized, TypeOK, GateInv
<1> QED
  BY <1>1, <1>2, <1>3, <1>4, <1>5, <1>6 DEF Next

LEMMA InitWait == Init => WaitInv
  BY DEF Init, WaitInv

LEMMA InitLife == Init => LifeInv /\ OpeningInv
  BY OpenersType, ConnsType DEF Init, LifeInv, OpeningInv

(* A connection is in the groups or in the finalizing set until it is final. *)
LEMMA NextLifeInv ==
  TypeOK /\ GateInv /\ BudgetInv /\ LifeInv /\ OpeningInv /\ [Next]_vars =>
    LifeInv'
<1> SUFFICES ASSUME TypeOK, GateInv, BudgetInv, LifeInv, OpeningInv, [Next]_vars
             PROVE  LifeInv'
  OBVIOUS
<1> USE OpenersType, ConnsType
<1>1. CASE UNCHANGED vars
  BY <1>1 DEF TypeOK, GateInv, BudgetInv, LifeInv, OpeningInv
<1>2. CASE Accept \/ AcceptEnds \/ Expire \/ OwnerStopsSetups
  BY <1>2 DEF Accept, AcceptEnds, Expire, OwnerStopsSetups, TypeOK, GateInv,
      BudgetInv, LifeInv, OpeningInv
<1>3. CASE OwnerStep
  BY <1>3 DEF OwnerStep, OwnerClosesServing, OwnerAwaitsSetups, Snapshot,
      OwnerQuiesces, OwnerDrainsPool, OwnerDrainsSends, OwnerForces,
      WaitCollects, WaitEach, WaitCheck, WaitChange, OwnerAwaitsServices,
      OwnerStops, TypeOK, GateInv, BudgetInv, LifeInv, OpeningInv
<1>4. ASSUME NEW o \in Upgrades, Arrive(o) PROVE LifeInv'
  BY <1>4 DEF Arrive, TypeOK, GateInv, BudgetInv, LifeInv, OpeningInv
<1>5. ASSUME NEW o \in Openers, SetupStep(o) PROVE LifeInv'
  <2>1. CASE CountGroup(o) \/ CountDone(o) \/ SetupBegin(o) \/ SetupRefused(o)
            \/ Upgrade(o) \/ SetupFinish(o)
    BY <2>1 DEF CountGroup, CountDone, SetupBegin, SetupRefused, Upgrade,
        SetupFinish, TypeOK, GateInv, BudgetInv, LifeInv, OpeningInv
  <2>2. CASE Add(o)
    <3> DEFINE n == lastID + 1
    <3>1. n \in Conns /\ life[n] = "none" /\ n \in Nat
      BY <2>2, FreshID DEF Add, LifeInv, TypeOK
    <3>2. /\ life' = [life EXCEPT ![n] = "added"] /\ lastID' = n
          /\ own' = [own EXCEPT ![o] = n] /\ opPc' = [opPc EXCEPT ![o] = "open"]
          /\ members' = members \cup {n} /\ finalizing' = finalizing
          /\ lastID \in Nat
      BY <2>2 DEF Add, TypeOK
    <3> HIDE DEF n
    <3>3. \A c \in Conns : c > n <=> c > lastID /\ c # n
      BY <3>2 DEF n
    <3> QED
      BY <3>1, <3>2, <3>3 DEF LifeInv, TypeOK
  <2>3. CASE Open(o)
    BY <2>3 DEF Open, TypeOK, GateInv, BudgetInv, LifeInv, OpeningInv
  <2>4. CASE HookReturns(o)
    BY <2>4 DEF HookReturns, TypeOK, GateInv, BudgetInv, LifeInv, OpeningInv
  <2> QED
    BY <1>5, <2>1, <2>2, <2>3, <2>4 DEF SetupStep
<1>6. ASSUME NEW c \in Conns, PeerCloses(c) \/ SuperviseStep(c) PROVE LifeInv'
  <2>1. CASE PeerCloses(c)
    BY <2>1 DEF PeerCloses, TypeOK, LifeInv
  <2>2. CASE RemoveBegin(c)
    BY <2>2 DEF RemoveBegin, TypeOK, LifeInv
  <2>3. CASE RemoveEnd(c)
    BY <2>3 DEF RemoveEnd, TypeOK, LifeInv
  <2>4. CASE CloseDone(c)
    BY <2>4 DEF CloseDone, TypeOK, LifeInv
  <2>5. CASE MarkFinalized(c)
    BY <2>5 DEF MarkFinalized, TypeOK, LifeInv
  <2> QED
    BY <1>6, <2>1, <2>2, <2>3, <2>4, <2>5 DEF SuperviseStep
<1> QED
  BY <1>1, <1>2, <1>3, <1>4, <1>5, <1>6 DEF Next

(* Each connection in its setup has one opener. *)
LEMMA NextOpeningInv ==
  TypeOK /\ GateInv /\ BudgetInv /\ LifeInv /\ OpeningInv /\ [Next]_vars =>
    OpeningInv'
<1> SUFFICES ASSUME TypeOK, GateInv, BudgetInv, LifeInv, OpeningInv, [Next]_vars
             PROVE  OpeningInv'
  OBVIOUS
<1> USE OpenersType, ConnsType
<1>1. CASE UNCHANGED vars
  BY <1>1 DEF TypeOK, GateInv, BudgetInv, LifeInv, OpeningInv
<1>2. CASE Accept \/ AcceptEnds \/ Expire \/ OwnerStopsSetups
  BY <1>2 DEF StartCount, Accept, AcceptEnds, Expire, OwnerStopsSetups, TypeOK, GateInv,
      BudgetInv, LifeInv, OpeningInv
<1>3. CASE OwnerStep
  BY <1>3 DEF OwnerStep, OwnerClosesServing, OwnerAwaitsSetups, Snapshot,
      OwnerQuiesces, OwnerDrainsPool, OwnerDrainsSends, OwnerForces,
      WaitCollects, WaitEach, WaitCheck, WaitChange, OwnerAwaitsServices,
      OwnerStops, TypeOK, GateInv, BudgetInv, LifeInv, OpeningInv
<1>4. ASSUME NEW o \in Upgrades, Arrive(o) PROVE OpeningInv'
  BY <1>4 DEF Arrive, TypeOK, GateInv, BudgetInv, LifeInv, OpeningInv
<1>5. ASSUME NEW o \in Openers, SetupStep(o) PROVE OpeningInv'
  <2>1. CASE CountGroup(o) \/ CountDone(o) \/ SetupBegin(o) \/ SetupRefused(o)
            \/ Upgrade(o)
    BY <2>1 DEF StartCount, CountGroup, CountDone, SetupBegin, SetupRefused, Upgrade,
        TypeOK, GateInv, BudgetInv, LifeInv, OpeningInv
  <2>2. CASE Add(o)
    <3> DEFINE n == lastID + 1
    <3>1. n \in Conns /\ life[n] = "none" /\ n \in Nat
      BY <2>2, FreshID DEF Add, LifeInv, TypeOK
    <3>2. /\ life' = [life EXCEPT ![n] = "added"] /\ lastID' = n
          /\ own' = [own EXCEPT ![o] = n] /\ opPc' = [opPc EXCEPT ![o] = "open"]
          /\ members' = members \cup {n} /\ finalizing' = finalizing
          /\ lastID \in Nat
      BY <2>2 DEF Add, TypeOK
    <3> HIDE DEF n
    <3>3. \A p \in Openers : opPc[p] \in {"open", "hook"} => own[p] # n
      BY <3>1 DEF OpeningInv
    <3>4. ASSUME NEW p \in Openers, p # o
          PROVE  opPc'[p] = opPc[p] /\ own'[p] = own[p]
      BY <3>2, <3>4 DEF TypeOK
    <3>5. opPc'[o] = "open" /\ own'[o] = n /\ opPc[o] = "add" /\ life'[n] = "added"
      BY <2>2, <3>1, <3>2 DEF Add, TypeOK
    <3>6. \A c \in Conns : c # n => life'[c] = life[c]
      BY <3>2 DEF TypeOK
    <3>7. ASSUME NEW p \in Openers
          PROVE  /\ opPc'[p] = "open" => own'[p] \in Conns /\ life'[own'[p]] = "added"
                 /\ opPc'[p] = "hook" => own'[p] \in Conns /\ life'[own'[p]] = "hook"
      <4>1. CASE p = o
        BY <3>1, <3>5, <4>1
      <4>2. CASE p # o
        <5>1. opPc'[p] = opPc[p] /\ own'[p] = own[p]
          BY <3>4, <4>2
        <5>2. /\ opPc[p] = "open" => own[p] \in Conns /\ life[own[p]] = "added"
              /\ opPc[p] = "hook" => own[p] \in Conns /\ life[own[p]] = "hook"
          BY DEF OpeningInv
        <5> QED
          BY <3>3, <3>6, <5>1, <5>2
      <4> QED
        BY <4>1, <4>2
    <3>8. \A p, q \in Openers :
             opPc'[p] \in {"open", "hook"} /\ opPc'[q] \in {"open", "hook"}
                 /\ own'[p] = own'[q] => p = q
      BY <3>3, <3>4, <3>5 DEF OpeningInv
    <3>9. \A c \in Conns :
             /\ life'[c] = "added" => \E p \in Openers : opPc'[p] = "open" /\ own'[p] = c
             /\ life'[c] = "hook" => \E p \in Openers : opPc'[p] = "hook" /\ own'[p] = c
      BY <3>4, <3>5, <3>6 DEF OpeningInv
    <3> QED
      BY <3>7, <3>8, <3>9 DEF OpeningInv
  <2>3. CASE Open(o)
    BY <2>3 DEF Open, TypeOK, GateInv, BudgetInv, LifeInv, OpeningInv
  <2>4. CASE HookReturns(o)
    BY <2>4 DEF HookReturns, TypeOK, GateInv, BudgetInv, LifeInv, OpeningInv
  <2>5. CASE SetupFinish(o)
    BY <2>5 DEF SetupFinish, TypeOK, GateInv, BudgetInv, LifeInv, OpeningInv
  <2> QED
    BY <1>5, <2>1, <2>2, <2>3, <2>4, <2>5 DEF SetupStep
<1>6. ASSUME NEW c \in Conns, PeerCloses(c) \/ SuperviseStep(c)
      PROVE  OpeningInv'
  <2>1. CASE PeerCloses(c)
    BY <2>1 DEF PeerCloses, TypeOK, GateInv, BudgetInv, LifeInv, OpeningInv
  <2>2. CASE RemoveBegin(c)
    BY <2>2 DEF RemoveBegin, TypeOK, GateInv, BudgetInv, LifeInv, OpeningInv
  <2>3. CASE RemoveEnd(c)
    BY <2>3 DEF RemoveEnd, TypeOK, GateInv, BudgetInv, LifeInv, OpeningInv
  <2>4. CASE CloseDone(c)
    BY <2>4 DEF CloseDone, TypeOK, GateInv, BudgetInv, LifeInv, OpeningInv
  <2>5. CASE MarkFinalized(c)
    BY <2>5 DEF MarkFinalized, TypeOK, GateInv, BudgetInv, LifeInv, OpeningInv
  <2> QED
    BY <1>6, <2>1, <2>2, <2>3, <2>4, <2>5 DEF SuperviseStep
<1> QED
  BY <1>1, <1>2, <1>3, <1>4, <1>5, <1>6 DEF Next

(* What the owner knows stays true. *)
LEMMA NextWaitInv ==
  TypeOK /\ GateInv /\ LifeInv /\ OpeningInv /\ WaitInv /\ [Next]_vars =>
    WaitInv'
<1> SUFFICES ASSUME TypeOK, GateInv, LifeInv, OpeningInv, WaitInv, [Next]_vars
             PROVE  WaitInv'
  OBVIOUS
<1> USE OpenersType, ConnsType, GroupIndex, Sizes
<1>1. CASE UNCHANGED vars
  BY <1>1 DEF TypeOK, GateInv, LifeInv, OpeningInv, WaitInv, Registered
<1>2. CASE Accept \/ AcceptEnds \/ Expire \/ OwnerStopsSetups
  <2>1. CASE Accept
    BY <2>1 DEF Accept, TypeOK, GateInv, LifeInv, OpeningInv, WaitInv,
        Registered
  <2>2. CASE AcceptEnds
    BY <2>2 DEF AcceptEnds, TypeOK, GateInv, LifeInv, OpeningInv, WaitInv,
        Registered
  <2>3. CASE Expire
    BY <2>3 DEF Expire, TypeOK, GateInv, LifeInv, OpeningInv, WaitInv,
        Registered
  <2>4. CASE OwnerStopsSetups
    BY <2>4 DEF OwnerStopsSetups, TypeOK, GateInv, LifeInv, OpeningInv,
        WaitInv, Registered
  <2> QED
    BY <1>2, <2>1, <2>2, <2>3, <2>4
<1>3. CASE OwnerStep
  <2>1. CASE OwnerClosesServing
    BY <2>1 DEF OwnerClosesServing, TypeOK, GateInv, LifeInv, OpeningInv,
        WaitInv, Registered
  <2>2. CASE Snapshot
    BY <2>2 DEF Snapshot, Group, TypeOK, LifeInv, WaitInv, Registered
  <2>3. CASE OwnerAwaitsSetups
    BY <2>3 DEF OwnerAwaitsSetups, TypeOK, GateInv, LifeInv, OpeningInv,
        WaitInv, Registered
  <2>4. CASE OwnerQuiesces
    BY <2>4 DEF OwnerQuiesces, TypeOK, GateInv, LifeInv, OpeningInv, WaitInv,
        Registered
  <2>5. CASE OwnerDrainsPool
    BY <2>5 DEF OwnerDrainsPool, TypeOK, GateInv, LifeInv, OpeningInv, WaitInv,
        Registered
  <2>6. CASE OwnerDrainsSends
    BY <2>6 DEF OwnerDrainsSends, TypeOK, GateInv, LifeInv, OpeningInv,
        WaitInv, Registered
  <2>7. CASE OwnerForces
    BY <2>7 DEF OwnerForces, TypeOK, GateInv, LifeInv, OpeningInv, WaitInv,
        Registered
  <2>8. CASE WaitCollects
    BY <2>8 DEF WaitCollects, TypeOK, GateInv, LifeInv, OpeningInv, WaitInv,
        Registered
  <2>9. CASE WaitEach
    BY <2>9 DEF WaitEach, TypeOK, GateInv, LifeInv, OpeningInv, WaitInv,
        Registered
  <2>10. CASE WaitCheck
    BY <2>10 DEF WaitCheck, TypeOK, GateInv, LifeInv, OpeningInv, WaitInv,
        Registered
  <2>11. CASE WaitChange
    BY <2>11 DEF WaitChange, TypeOK, GateInv, LifeInv, OpeningInv, WaitInv,
        Registered
  <2>12. CASE OwnerAwaitsServices
    BY <2>12 DEF OwnerAwaitsServices, TypeOK, GateInv, LifeInv, OpeningInv,
        WaitInv, Registered
  <2>13. CASE OwnerStops
    BY <2>13 DEF OwnerStops, TypeOK, GateInv, LifeInv, OpeningInv, WaitInv,
        Registered
  <2> QED
    BY <1>3, <2>1, <2>2, <2>3, <2>4, <2>5, <2>6, <2>7, <2>8, <2>9, <2>10,
        <2>11, <2>12, <2>13 DEF OwnerStep
<1>4. ASSUME NEW o \in Upgrades, Arrive(o) PROVE WaitInv'
  BY <1>4 DEF Arrive, TypeOK, GateInv, LifeInv, OpeningInv, WaitInv, Registered
<1>5. ASSUME NEW o \in Openers, SetupStep(o) PROVE WaitInv'
  <2>1. CASE CountGroup(o)
    BY <2>1 DEF CountGroup, TypeOK, GateInv, LifeInv, OpeningInv, WaitInv,
        Registered
  <2>2. CASE CountDone(o)
    BY <2>2 DEF CountDone, TypeOK, GateInv, LifeInv, OpeningInv, WaitInv,
        Registered
  <2>3. CASE SetupBegin(o)
    BY <2>3 DEF SetupBegin, TypeOK, GateInv, LifeInv, OpeningInv, WaitInv,
        Registered
  <2>4. CASE SetupRefused(o)
    BY <2>4 DEF SetupRefused, TypeOK, GateInv, LifeInv, OpeningInv, WaitInv,
        Registered
  <2>5. CASE Upgrade(o)
    BY <2>5 DEF Upgrade, TypeOK, GateInv, LifeInv, OpeningInv, WaitInv,
        Registered
  <2>6. CASE Add(o)
    BY <2>6 DEF Add, TypeOK, GateInv, LifeInv, OpeningInv, WaitInv, Registered
  <2>7. CASE Open(o)
    BY <2>7 DEF Open, TypeOK, GateInv, LifeInv, OpeningInv, WaitInv, Registered
  <2>8. CASE HookReturns(o)
    BY <2>8 DEF HookReturns, TypeOK, GateInv, LifeInv, OpeningInv, WaitInv,
        Registered
  <2>9. CASE SetupFinish(o)
    BY <2>9 DEF SetupFinish, TypeOK, GateInv, LifeInv, OpeningInv, WaitInv,
        Registered
  <2> QED
    BY <1>5, <2>1, <2>2, <2>3, <2>4, <2>5, <2>6, <2>7, <2>8, <2>9 DEF SetupStep
<1>6. ASSUME NEW c \in Conns, PeerCloses(c) \/ SuperviseStep(c) PROVE WaitInv'
  <2>1. CASE PeerCloses(c)
    BY <2>1 DEF PeerCloses, TypeOK, GateInv, LifeInv, OpeningInv, WaitInv,
        Registered
  <2>2. CASE RemoveBegin(c)
    BY <2>2 DEF RemoveBegin, TypeOK, GateInv, LifeInv, OpeningInv, WaitInv,
        Registered
  <2>3. CASE RemoveEnd(c)
    BY <2>3 DEF RemoveEnd, TypeOK, GateInv, LifeInv, OpeningInv, WaitInv,
        Registered
  <2>4. CASE CloseDone(c)
    BY <2>4 DEF CloseDone, TypeOK, GateInv, LifeInv, OpeningInv, WaitInv,
        Registered
  <2>5. CASE MarkFinalized(c)
    <3>1. /\ life'[c] = "final" /\ \A d \in Conns : d # c => life'[d] = life[d]
          /\ life[c] = "done"
          /\ UNCHANGED <<members, inSetup, ownerPc, timedOut, snap, snapGroup>>
      BY <2>5 DEF MarkFinalized, TypeOK
    <3> QED
      BY <3>1 DEF WaitInv, Registered, TypeOK
  <2> QED
    BY <1>6, <2>1, <2>2, <2>3, <2>4, <2>5 DEF SuperviseStep
<1> QED
  BY <1>1, <1>2, <1>3, <1>4, <1>5, <1>6 DEF Next

-----------------------------------------------------------------------------
LEMMA InitBudget == Init => BudgetInv
<1> SUFFICES ASSUME Init PROVE BudgetInv
  OBVIOUS
<1>1. Unspent = Upgrades /\ InFlight = 0 /\ lastID = 0 /\ accepts = 0
  BY OpenersType DEF Init, Unspent, InFlight, Openers
<1> QED
  BY <1>1, Sizes DEF BudgetInv

LEMMA Balance ==
  ASSUME NEW l \in Nat, NEW i \in Nat, NEW j \in Nat, NEW u \in Nat, NEW v \in Nat,
         NEW a \in Nat, NEW b \in Nat, NEW n \in Nat,
         l + i + u <= a + n, j + a <= i + b, v <= u
  PROVE  l + j + v <= b + n
  OBVIOUS

(* A step that neither hands out an ID nor sends an upgrade back to its    *)
(* start.                                                                  *)
LEMMA BudgetKept ==
  ASSUME TypeOK, TypeOK', BudgetInv, lastID' = lastID, Unspent' \subseteq Unspent,
         InFlight' + accepts <= InFlight + accepts'
  PROVE  BudgetInv'
<1>1. Cardinality(Unspent') <= Cardinality(Unspent)
  BY UpgradesFinite, FS_Subset DEF Unspent
<1>2. Cardinality(Unspent') \in Nat /\ Cardinality(Unspent) \in Nat
  BY UpgradesFinite DEF Unspent
<1>3. /\ InFlight \in Nat /\ InFlight' \in Nat /\ lastID \in Nat
      /\ accepts \in Nat /\ accepts' \in Nat
  BY ConnsType DEF InFlight, TypeOK
<1>4. lastID + InFlight + Cardinality(Unspent) <= accepts + Cardinality(Upgrades)
  BY DEF BudgetInv
<1>5. lastID + InFlight' + Cardinality(Unspent') <= accepts' + Cardinality(Upgrades)
  BY <1>1, <1>2, <1>3, <1>4, Sizes, Balance
<1> QED
  BY <1>5 DEF BudgetInv

(* Each ID is paid for by an accepted socket or by an upgrade. *)
LEMMA NextBudgetInv ==
  TypeOK /\ TypeOK' /\ GateInv /\ BudgetInv /\ [Next]_vars => BudgetInv'
<1> SUFFICES ASSUME TypeOK, TypeOK', GateInv, BudgetInv, [Next]_vars
             PROVE  BudgetInv'
  OBVIOUS
<1> USE OpenersType
<1>1. CASE \/ UNCHANGED vars \/ Expire \/ OwnerStopsSetups \/ OwnerStep
           \/ \E c \in Conns : PeerCloses(c) \/ SuperviseStep(c)
  <2>1. UNCHANGED <<opPc, lastID, accepts>>
    BY <1>1 DEF Expire, OwnerStopsSetups, OwnerStep, OwnerClosesServing,
        OwnerAwaitsSetups, Snapshot, OwnerQuiesces, OwnerDrainsPool,
        OwnerDrainsSends, OwnerForces, WaitCollects, WaitEach, WaitCheck,
        WaitChange, OwnerAwaitsServices, OwnerStops, PeerCloses, SuperviseStep,
        RemoveBegin, RemoveEnd, CloseDone, MarkFinalized
  <2>2. Unspent' = Unspent /\ InFlight' = InFlight
    BY <2>1 DEF Unspent, InFlight
  <2> QED
    BY <2>1, <2>2 DEF BudgetInv
<1>2. CASE Accept \/ AcceptEnds
  <2>1. /\ opPc["tcp"] = "accept" /\ lastID' = lastID
        /\ \/ opPc' = [opPc EXCEPT !["tcp"] = "count"] /\ accepts' = accepts + 1
           \/ opPc' = [opPc EXCEPT !["tcp"] = "ended"] /\ accepts' = accepts
    BY <1>2 DEF StartCount, Accept, AcceptEnds
  <2>2. Unspent' = Unspent
    BY <2>1 DEF Unspent, TypeOK, Openers
  <2>3. /\ InFlight = 0
        /\ \/ InFlight' = 1 /\ accepts' = accepts + 1
           \/ InFlight' = 0 /\ accepts' = accepts
    BY <2>1 DEF InFlight, TypeOK
  <2>4. accepts \in Nat
    BY DEF TypeOK
  <2>5. InFlight' + accepts <= InFlight + accepts'
    BY <2>3, <2>4
  <2> QED
    BY <2>1, <2>2, <2>5, BudgetKept
<1>3. ASSUME NEW o \in Upgrades, Arrive(o) PROVE BudgetInv'
  <2>1. Unspent' = Unspent /\ lastID' = lastID
    BY <1>3 DEF Arrive, Unspent, TypeOK, Openers
  <2>2. InFlight' + accepts <= InFlight + accepts'
    BY <1>3 DEF Arrive, InFlight, TypeOK
  <2> QED
    BY <2>1, <2>2, BudgetKept
<1>4. ASSUME NEW o \in Openers, SetupStep(o) PROVE BudgetInv'
  <2>1. CASE Add(o)
    <3>1. opPc[o] = "add" /\ lastID' = lastID + 1 /\ opPc' = [opPc EXCEPT ![o] = "open"]
          /\ accepts' = accepts
      BY <2>1 DEF Add
    <3>2. Cardinality(Unspent) \in Nat /\ lastID \in Nat /\ accepts \in Nat
      BY UpgradesFinite, ConnsType DEF Unspent, TypeOK
    <3>3. CASE o = "tcp"
      <4>1. Unspent' = Unspent
        BY <3>1, <3>3 DEF Unspent, TypeOK, Openers
      <4>2. InFlight = 1 /\ InFlight' = 0
        BY <3>1, <3>3 DEF InFlight, TypeOK
      <4> QED
        BY <3>1, <3>2, <4>1, <4>2, Sizes DEF BudgetInv
    <3>4. CASE o # "tcp"
      <4>1. o \in Unspent /\ Unspent' = Unspent \ {o}
        BY <3>1, <3>4 DEF Unspent, TypeOK, Openers
      <4>2. Cardinality(Unspent') = Cardinality(Unspent) - 1
        BY <4>1, UpgradesFinite, FS_RemoveElement, ZenonT(60) DEF Unspent
      <4>3. InFlight' = InFlight /\ InFlight \in Nat
        BY <3>1, <3>4 DEF InFlight, TypeOK
      <4> QED
        BY <3>1, <3>2, <4>2, <4>3, Sizes DEF BudgetInv
    <3> QED
      BY <3>3, <3>4
  <2>2. CASE CountGroup(o) \/ CountDone(o) \/ SetupBegin(o) \/ SetupRefused(o)
            \/ Upgrade(o) \/ Open(o) \/ HookReturns(o) \/ SetupFinish(o)
    <3>1. lastID' = lastID /\ accepts' = accepts
      BY <2>2 DEF CountGroup, CountDone, SetupBegin, SetupRefused, Upgrade,
          Open, HookReturns, SetupFinish
    <3>2. Unspent' \subseteq Unspent
      BY <2>2, ZenonT(60) DEF StartCount, CountGroup, CountDone, SetupBegin, SetupRefused, Upgrade,
          Open, HookReturns, SetupFinish, Unspent, TypeOK, Openers
    <3>3. InFlight' <= InFlight
      BY <2>2 DEF StartCount, CountGroup, CountDone, SetupBegin, SetupRefused, Upgrade,
          Open, HookReturns, SetupFinish, InFlight, GateInv, TypeOK
    <3>4. InFlight' + accepts <= InFlight + accepts'
      BY <3>1, <3>3 DEF InFlight, TypeOK
    <3> QED
      BY <3>1, <3>2, <3>4, BudgetKept
  <2> QED
    BY <1>4, <2>1, <2>2 DEF SetupStep
<1> QED
  BY <1>1, <1>2, <1>3, <1>4 DEF Next

-----------------------------------------------------------------------------
(* What a setup finds is a number, more members never make it less, and    *)
(* nothing is left to find for one that does not count.                    *)
LEMMA FindsNat ==
  ASSUME TypeOK, NEW o \in Openers, NEW S \in SUBSET Conns
  PROVE  Finds(o, S) \in Nat
<1>1. Cardinality(Ahead(o, S)) \in Nat
  BY ConnsFinite DEF Ahead
<1>2. count[o].total \in Nat
  BY DEF TypeOK
<1> QED
  BY <1>1, <1>2 DEF Finds

LEMMA FindsMore ==
  ASSUME TypeOK, NEW o \in Openers, NEW S \in SUBSET Conns, NEW T \in SUBSET S
  PROVE  Finds(o, T) <= Finds(o, S)
<1>1. Ahead(o, T) \subseteq Ahead(o, S) /\ Ahead(o, S) \subseteq Conns
  BY DEF Ahead
<1>2. /\ Cardinality(Ahead(o, T)) <= Cardinality(Ahead(o, S))
      /\ Cardinality(Ahead(o, T)) \in Nat /\ Cardinality(Ahead(o, S)) \in Nat
  BY <1>1, ConnsFinite, FS_Subset
<1>3. count[o].total \in Nat
  BY DEF TypeOK
<1> QED
  BY <1>2, <1>3 DEF Finds

LEMMA FindsNothing ==
  ASSUME TypeOK, GateInv, NEW o \in Openers, opPc[o] # "count", NEW S
  PROVE  Finds(o, S) = 0
<1>1. Ahead(o, S) = {} /\ count[o].total = 0
  BY DEF Ahead, GateInv
<1> QED
  BY <1>1, FS_EmptySet DEF Finds

LEMMA InitLimit == Init => LimitInv
<1> SUFFICES ASSUME Init PROVE LimitInv
  OBVIOUS
<1>1. members = {} /\ peak = 0 /\ Deciding = {}
  BY OpenersType DEF Init, Deciding
<1>2. Cardinality({}) = 0
  BY FS_EmptySet
<1>3. \A S \in SUBSET members : S = {} /\ Passing(S) = {}
  BY <1>1 DEF Passing
<1>4. ASSUME NEW S \in SUBSET members
      PROVE  Cardinality(S) + Cardinality(Passing(S)) < MaxConnections + peak
  BY <1>1, <1>2, <1>3, Sizes
<1> QED
  BY <1>1, <1>2, <1>4 DEF LimitInv

(* A step that adds nobody to the members or to those who decide, and lets *)
(* nobody pass who would not have passed before.                           *)
LEMMA LimitKept ==
  ASSUME TypeOK, LimitInv, members' \subseteq members, peak' = peak,
         Deciding' \subseteq Deciding,
         \A o \in Deciding' : \A S \in SUBSET members' :
            Finds(o, S)' < MaxConnections => Finds(o, S) < MaxConnections
  PROVE  LimitInv'
<1>1. peak \in Nat /\ members \subseteq Conns /\ Deciding \subseteq Openers
  BY DEF TypeOK, Deciding
<1>2. Cardinality(Deciding') <= peak'
  <2>1. /\ Cardinality(Deciding') <= Cardinality(Deciding)
        /\ Cardinality(Deciding') \in Nat /\ Cardinality(Deciding) \in Nat
    BY <1>1, OpenersFinite, FS_Subset
  <2> QED
    BY <1>1, <2>1 DEF LimitInv
<1>3. ASSUME NEW S \in SUBSET members'
      PROVE  Cardinality(S) + Cardinality(Passing(S)') < MaxConnections + peak'
  <2>1. Passing(S)' \subseteq Passing(S) /\ Passing(S) \subseteq Openers
    BY <1>1 DEF Passing
  <2>2. /\ Cardinality(Passing(S)') <= Cardinality(Passing(S))
        /\ Cardinality(Passing(S)') \in Nat /\ Cardinality(Passing(S)) \in Nat
    BY <2>1, OpenersFinite, FS_Subset
  <2>3. Cardinality(S) \in Nat /\ S \in SUBSET members
    BY <1>1, ConnsFinite
  <2>4. Cardinality(S) + Cardinality(Passing(S)) < MaxConnections + peak
    BY <2>3 DEF LimitInv
  <2> QED
    BY <1>1, <2>2, <2>3, <2>4, Sizes
<1> QED
  BY <1>2, <1>3 DEF LimitInv

(* Most steps change nobody's count. *)
LEMMA LimitUntouched ==
  ASSUME TypeOK, LimitInv, members' \subseteq members, count' = count, peak' = peak,
         Deciding' \subseteq Deciding,
         \A o \in Deciding' : opPc'[o] = "count" <=> opPc[o] = "count"
  PROVE  LimitInv'
<1>1. ASSUME NEW o \in Deciding', NEW S \in SUBSET members'
      PROVE  Finds(o, S)' = Finds(o, S)
  BY DEF Finds, Ahead
<1> QED
  BY <1>1, LimitKept

(* StartCount: with the limit reached the newcomer will find so, otherwise *)
(* those who decide are no more than the peak.                             *)
LEMMA LimitStart ==
  ASSUME TypeOK, TypeOK', GateInv, LimitInv, NEW o \in Openers, opPc[o] # "count",
         StartCount(o), members' = members, count' = count
  PROVE  LimitInv'
<1>1. /\ peak \in Nat /\ peak' \in Nat /\ members \subseteq Conns
      /\ Deciding \subseteq Openers
  BY DEF TypeOK, Deciding
<1>2. Deciding' = Deciding \cup {o}
  BY DEF StartCount, Deciding, TypeOK
<1>3. Cardinality(Deciding') \in Nat /\ Deciding' \subseteq Openers
  BY <1>1, <1>2, OpenersFinite
<1>4. Cardinality(Deciding') <= peak' /\ peak <= peak'
  BY <1>1, <1>2, <1>3 DEF StartCount
<1>5. ASSUME NEW S \in SUBSET members'
      PROVE  Cardinality(S) + Cardinality(Passing(S)') < MaxConnections + peak'
  <2>1. Cardinality(S) \in Nat /\ S \in SUBSET members /\ S \in SUBSET Conns
    BY <1>1, ConnsFinite
  <2>2. Passing(S)' \subseteq Deciding' /\ Passing(S) \subseteq Openers
    BY <1>1 DEF Passing
  <2>3. Cardinality(Passing(S)') \in Nat /\ Cardinality(Passing(S)) \in Nat
    BY <1>3, <2>2, OpenersFinite
  <2>4. CASE Cardinality(S) < MaxConnections
    <3>1. Cardinality(Passing(S)') <= Cardinality(Deciding')
      BY <1>3, <2>2, OpenersFinite, FS_Subset
    <3> QED
      BY <1>1, <1>3, <1>4, <2>1, <2>3, <2>4, <3>1, Sizes
  <2>5. CASE Cardinality(S) >= MaxConnections
    <3>1. Finds(o, S)' = Cardinality(S)
      <4>1. opPc'[o] = "count" /\ count'[o].group = 0 /\ count'[o].total = 0
        BY DEF StartCount, TypeOK, GateInv
      <4>2. Ahead(o, S)' = S
        BY <2>1, <4>1, GroupIndex, Sizes DEF Ahead
      <4> QED
        BY <2>1, <4>1, <4>2 DEF Finds
    <3>2. ASSUME NEW p \in Openers, p # o PROVE Finds(p, S)' = Finds(p, S)
      <4>1. opPc'[p] = opPc[p]
        BY <3>2 DEF StartCount, TypeOK
      <4> QED
        BY <4>1 DEF Finds, Ahead
    <3>3. o \notin Passing(S)'
      BY <2>1, <2>5, <3>1, Sizes DEF Passing
    <3>4. Passing(S)' \subseteq Passing(S)
      BY <1>2, <1>3, <3>2, <3>3 DEF Passing
    <3>5. Cardinality(Passing(S)') <= Cardinality(Passing(S))
      BY <2>2, <3>4, OpenersFinite, FS_Subset
    <3>6. Cardinality(S) + Cardinality(Passing(S)) < MaxConnections + peak
      BY <2>1 DEF LimitInv
    <3> QED
      BY <1>1, <1>4, <2>1, <2>3, <3>5, <3>6, Sizes
  <2> QED
    BY <2>1, <2>4, <2>5, Sizes
<1> QED
  BY <1>4, <1>5 DEF LimitInv

(* connectionsCount: the total takes up at least what it leaves behind. *)
LEMMA LimitCounts ==
  ASSUME TypeOK, LimitInv, NEW o \in Openers, CountGroup(o)
  PROVE  LimitInv'
<1> DEFINE g == count[o].group
           t == count[o].total
           Here == members \cap Group(g)
<1>1. /\ opPc[o] = "count" /\ UNCHANGED <<members, opPc, peak>>
      /\ count' = [count EXCEPT ![o] = [group |-> g + 1, total |-> t + Cardinality(Here)]]
  BY DEF CountGroup
<1>2. /\ g \in Nat /\ t \in Nat /\ members \subseteq Conns
      /\ count'[o].group = g + 1 /\ count'[o].total = t + Cardinality(Here)
  BY <1>1 DEF TypeOK
<1>3. Deciding' = Deciding /\ Deciding \subseteq Openers
  BY <1>1 DEF Deciding
<1>4. ASSUME NEW p \in Deciding', NEW S \in SUBSET members'
      PROVE  Finds(p, S)' < MaxConnections => Finds(p, S) < MaxConnections
  <2>1. S \subseteq Conns /\ S \subseteq members
    BY <1>1, <1>2
  <2>2. CASE p # o
    <3>1. count'[p] = count[p] /\ opPc' = opPc
      BY <1>1, <1>3, <2>2 DEF TypeOK
    <3>2. Finds(p, S)' = Finds(p, S)
      BY <3>1 DEF Finds, Ahead
    <3> QED
      BY <3>2
  <2>3. CASE p = o
    <3> DEFINE A == Ahead(o, S)
               B == {c \in S : g + 1 <= c % GroupCount}
               C == S \cap Group(g)
    <3>1. B = Ahead(o, S)'
      BY <1>1, <1>2 DEF Ahead
    <3>2. A \subseteq B \cup C
      <4>1. \A c \in Conns : c % GroupCount \in Nat
        BY GroupIndex, Sizes
      <4>2. \A c \in Conns : g <= c % GroupCount => g + 1 <= c % GroupCount \/ c % GroupCount = g
        BY <1>2, <4>1
      <4> QED
        BY <2>1, <4>2 DEF Ahead, Group
    <3>3. A \subseteq Conns /\ B \subseteq Conns /\ C \subseteq Here /\ Here \subseteq Conns
      BY <1>2, <2>1 DEF Ahead
    <3>4. Finds(o, S) = t + Cardinality(A)
      BY DEF Finds
    <3>5. Finds(o, S)' = t + Cardinality(Here) + Cardinality(B)
      BY <1>2, <3>1 DEF Finds
    <3> HIDE DEF A, B, C, Here, t
    <3>6. /\ Cardinality(A) \in Nat /\ Cardinality(B) \in Nat /\ Cardinality(C) \in Nat
          /\ Cardinality(Here) \in Nat /\ Cardinality(B \cup C) \in Nat
          /\ Cardinality(B \cap C) \in Nat
      <4>1. B \cup C \subseteq Conns /\ B \cap C \subseteq Conns /\ C \subseteq Conns
        BY <3>3
      <4> QED
        BY <3>3, <4>1, ConnsFinite
    <3>7. Cardinality(B \cup C) = Cardinality(B) + Cardinality(C) - Cardinality(B \cap C)
      BY <3>3, ConnsFinite, FS_Union
    <3>8. Cardinality(A) <= Cardinality(B \cup C) /\ Cardinality(C) <= Cardinality(Here)
      <4>1. B \cup C \subseteq Conns
        BY <3>3
      <4> QED
        BY <3>2, <3>3, <4>1, ConnsFinite, FS_Subset
    <3>9. Finds(o, S) <= Finds(o, S)'
      BY <1>2, <3>4, <3>5, <3>6, <3>7, <3>8
    <3>10. Finds(o, S) \in Nat /\ Finds(o, S)' \in Nat
      BY <1>2, <3>4, <3>5, <3>6
    <3> QED
      BY <2>3, <3>9, <3>10, Sizes
  <2> QED
    BY <2>2, <2>3
<1> QED
  BY <1>1, <1>3, <1>4, LimitKept

(* AtLimit lets nobody pass who has found as many as the limit. *)
LEMMA LimitCounted ==
  ASSUME TypeOK, GateInv, LimitInv, NEW o \in Openers, CountDone(o)
  PROVE  LimitInv'
<1>1. /\ opPc[o] = "count" /\ count[o].group = GroupCount
      /\ UNCHANGED <<members, peak>>
      /\ \A p \in Openers : p # o => opPc'[p] = opPc[p] /\ count'[p] = count[p]
      /\ ~AtLimit(count[o].total) \/ opPc'[o] \in {"accept", "finish"}
  BY DEF CountDone, TypeOK
<1>2. Deciding' \subseteq Deciding /\ Deciding \subseteq Openers
  BY <1>1 DEF Deciding
<1>3. members \subseteq Conns
  BY DEF TypeOK
<1>4. ASSUME NEW p \in Deciding', NEW S \in SUBSET members'
      PROVE  Finds(p, S)' < MaxConnections => Finds(p, S) < MaxConnections
  <2>1. CASE p # o
    <3>1. Finds(p, S)' = Finds(p, S)
      BY <1>1, <1>2, <2>1 DEF Finds, Ahead
    <3> QED
      BY <3>1
  <2>2. CASE p = o
    <3>1. ~AtLimit(count[o].total)
      BY <1>1, <2>2 DEF Deciding
    <3>2. Ahead(o, S) = {}
      BY <1>1, <1>3, GroupIndex, Sizes DEF Ahead
    <3>3. Finds(o, S) = count[o].total /\ count[o].total \in Nat
      BY <3>2, FS_EmptySet DEF Finds, TypeOK
    <3> QED
      BY <2>2, <3>1, <3>3, Sizes DEF AtLimit
  <2> QED
    BY <2>1, <2>2
<1> QED
  BY <1>1, <1>2, <1>4, LimitKept

(* addConnection: the new member was among those who could still pass. *)
LEMMA LimitAdded ==
  ASSUME TypeOK, GateInv, LimitInv, NEW o \in Openers, opPc[o] = "add",
         opPc' = [opPc EXCEPT ![o] = "open"], count' = count, peak' = peak,
         NEW n \in Conns, members' = members \cup {n}
  PROVE  LimitInv'
<1>1. peak \in Nat /\ members \subseteq Conns /\ Deciding \subseteq Openers
  BY DEF TypeOK, Deciding
<1>2. Deciding' = Deciding \ {o} /\ o \in Deciding
  BY DEF Deciding, TypeOK
<1>3. Cardinality(Deciding') <= peak'
  <2>1. /\ Cardinality(Deciding') <= Cardinality(Deciding)
        /\ Cardinality(Deciding') \in Nat /\ Cardinality(Deciding) \in Nat
    BY <1>1, <1>2, OpenersFinite, FS_Subset
  <2> QED
    BY <1>1, <2>1 DEF LimitInv
<1>4. ASSUME NEW S \in SUBSET members'
      PROVE  Cardinality(S) + Cardinality(Passing(S)') < MaxConnections + peak'
  <2> DEFINE T == S \ {n}
             P == Passing(T)
  <2>1. T \in SUBSET members /\ T \in SUBSET S /\ S \in SUBSET Conns /\ T \in SUBSET Conns
    BY <1>1
  <2>2. /\ Cardinality(S) <= Cardinality(T) + 1
        /\ Cardinality(S) \in Nat /\ Cardinality(T) \in Nat
    <3>1. /\ Cardinality(S) \in Nat /\ Cardinality(T) \in Nat
          /\ IsFiniteSet(S) /\ IsFiniteSet(T)
      BY <2>1, ConnsFinite
    <3>2. CASE n \in S
      BY <3>1, <3>2, FS_RemoveElement
    <3>3. CASE n \notin S
      <4>1. T = S
        BY <3>3
      <4> QED
        BY <3>1, <4>1
    <3> QED
      BY <3>2, <3>3
  <2>3. o \in P /\ P \subseteq Openers
    BY <1>1, <1>2, FindsNothing, Sizes DEF Passing
  <2>4. Passing(S)' \subseteq P \ {o}
    <3>1. ASSUME NEW p \in Deciding', Finds(p, S)' < MaxConnections
          PROVE  p \in P /\ p # o
      <4>1. p \in Deciding /\ p \in Openers /\ p # o
        BY <1>1, <1>2
      <4>2. Finds(p, S)' = Finds(p, S)
        BY <4>1 DEF Finds, Ahead, TypeOK
      <4>3. Finds(p, T) <= Finds(p, S) /\ Finds(p, T) \in Nat /\ Finds(p, S) \in Nat
        BY <2>1, <4>1, FindsMore, FindsNat
      <4>4. Finds(p, T) < MaxConnections
        BY <3>1, <4>2, <4>3, Sizes
      <4> QED
        BY <4>1, <4>4 DEF Passing
    <3> QED
      BY <3>1 DEF Passing
  <2> HIDE DEF P, T
  <2>5. /\ Cardinality(P \ {o}) = Cardinality(P) - 1 /\ Cardinality(P) \in Nat
        /\ Cardinality(P \ {o}) \in Nat
    <3>1. IsFiniteSet(P) /\ P \ {o} \subseteq Openers
      BY <2>3, OpenersFinite
    <3> QED
      BY <2>3, <3>1, OpenersFinite, FS_RemoveElement
  <2>6. /\ Cardinality(Passing(S)') <= Cardinality(P \ {o})
        /\ Cardinality(Passing(S)') \in Nat
    <3>1. P \ {o} \subseteq Openers /\ Passing(S)' \subseteq Openers
      BY <2>3, <2>4
    <3> QED
      BY <2>4, <3>1, OpenersFinite, FS_Subset
  <2>7. Cardinality(T) + Cardinality(P) < MaxConnections + peak
    BY <2>1 DEF LimitInv, P
  <2> QED
    BY <1>1, <2>2, <2>5, <2>6, <2>7, Sizes
<1> QED
  BY <1>3, <1>4 DEF LimitInv

(* Every step keeps the balance of members, passing setups and peak. *)
LEMMA NextLimit ==
  TypeOK /\ TypeOK' /\ GateInv /\ BudgetInv /\ LimitInv /\ [Next]_vars => LimitInv'
<1> SUFFICES ASSUME TypeOK, TypeOK', GateInv, BudgetInv, LimitInv, [Next]_vars
             PROVE  LimitInv'
  OBVIOUS
<1> USE OpenersType
<1>1. CASE \/ UNCHANGED vars \/ Expire \/ OwnerStopsSetups \/ OwnerStep
           \/ \E c \in Conns : PeerCloses(c) \/ SuperviseStep(c)
  <2>1. UNCHANGED <<opPc, count, peak>> /\ members' \subseteq members
    BY <1>1 DEF Expire, OwnerStopsSetups, OwnerStep, OwnerClosesServing,
        OwnerAwaitsSetups, Snapshot, OwnerQuiesces, OwnerDrainsPool,
        OwnerDrainsSends, OwnerForces, WaitCollects, WaitEach, WaitCheck,
        WaitChange, OwnerAwaitsServices, OwnerStops, PeerCloses, SuperviseStep,
        RemoveBegin, RemoveEnd, CloseDone, MarkFinalized
  <2>2. Deciding' = Deciding
    BY <2>1 DEF Deciding
  <2> QED
    BY <2>1, <2>2, LimitUntouched
<1>2. CASE Accept
  <2>1. opPc["tcp"] # "count" /\ StartCount("tcp") /\ UNCHANGED <<members, count>>
    BY <1>2 DEF Accept
  <2> QED
    BY <2>1, LimitStart
<1>3. CASE AcceptEnds \/ \E o \in Upgrades : Arrive(o)
  <2>1. UNCHANGED <<members, count, peak>>
    BY <1>3 DEF AcceptEnds, Arrive
  <2>2. /\ Deciding' \subseteq Deciding
        /\ \A o \in Deciding' : opPc'[o] = "count" <=> opPc[o] = "count"
    BY <1>3 DEF AcceptEnds, Arrive, Deciding, TypeOK, Openers
  <2> QED
    BY <2>1, <2>2, LimitUntouched
<1>4. ASSUME NEW o \in Openers, SetupStep(o) PROVE LimitInv'
  <2>1. CASE Add(o)
    <3>1. lastID + 1 \in Conns
      BY <2>1, FreshID DEF Add
    <3> QED
      BY <2>1, <3>1, LimitAdded DEF Add
  <2>2. CASE CountGroup(o) \/ CountDone(o)
    BY <2>2, LimitCounts, LimitCounted
  <2>3. CASE SetupBegin(o) /\ o # "tcp"
    <3>1. opPc[o] # "count" /\ StartCount(o) /\ UNCHANGED <<members, count>>
      BY <2>3 DEF SetupBegin
    <3> QED
      BY <3>1, LimitStart
  <2>4. CASE \/ (SetupBegin(o) /\ o = "tcp") \/ SetupRefused(o) \/ Upgrade(o)
             \/ Open(o) \/ HookReturns(o) \/ SetupFinish(o)
    <3>1. UNCHANGED <<members, count, peak>>
      BY <2>4 DEF SetupBegin, SetupRefused, Upgrade, Open, HookReturns, SetupFinish
    <3>2. \E l \in {"add", "accept", "ended", "finish", "hook"} :
             /\ opPc' = [opPc EXCEPT ![o] = l] /\ opPc[o] # "count"
             /\ l = "add" => o \in Deciding
      BY <2>4 DEF SetupBegin, SetupRefused, Upgrade, Open, HookReturns,
          SetupFinish, Deciding
    <3>3. /\ Deciding' \subseteq Deciding
          /\ \A p \in Deciding' : opPc'[p] = "count" <=> opPc[p] = "count"
      BY <3>2 DEF Deciding, TypeOK
    <3> QED
      BY <3>1, <3>3, LimitUntouched
  <2> QED
    BY <1>4, <2>1, <2>2, <2>3, <2>4 DEF SetupStep
<1> QED
  BY <1>1, <1>2, <1>3, <1>4 DEF Next

-----------------------------------------------------------------------------
LEMMA NextInv == IInv /\ [Next]_vars => IInv'
  BY NextType, NextGateInv, NextBudgetInv, NextLifeInv, NextOpeningInv,
     NextWaitInv, NextLimit DEF IInv

(* IInv is an inductive invariant of the connection manager. *)
THEOREM Inductive == Spec => []IInv
<1>1. Init => IInv
  BY InitType, InitGate, InitBudget, InitLife, InitWait, InitLimit DEF IInv
<1> QED
  BY <1>1, NextInv, PTL DEF Spec

(* The manager, its acceptors and the owner stay well typed; in particular *)
(* nextConnectionID never runs out of the IDs the bounds provide.          *)
THEOREM TypeCorrect == Spec => []TypeOK
<1>1. IInv => TypeOK
  BY DEF IInv
<1> QED
  BY <1>1, Inductive, PTL

(* shutdownOwner returning without a timeout has closed and awaited every  *)
(* connection, though waitAll works from group-by-group snapshots while    *)
(* connections are opened, removed and finalized.                          *)
THEOREM CleanShutdown == Spec => []CleanShutdownIsComplete
<1>1. IInv => CleanShutdownIsComplete
  BY DEF IInv, WaitInv, GateInv, CleanShutdownIsComplete
<1> QED
  BY <1>1, Inductive, PTL

(* MaxConnectionsCount is exceeded by less than the number of setups, of   *)
(* either transport, that were ever between their count and their          *)
(* addConnection at the same time; so it is never exceeded when no two     *)
(* ever are.                                                               *)
THEOREM LimitHolds == Spec => []LimitOvershootBounded
<1>1. IInv => LimitOvershootBounded
  <2> SUFFICES ASSUME IInv PROVE LimitOvershootBounded
    OBVIOUS
  <2>1. Cardinality(members) + Cardinality(Passing(members)) < MaxConnections + peak
    BY DEF IInv, LimitInv
  <2>2. Passing(members) \subseteq Openers /\ members \subseteq Conns /\ peak \in Nat
    BY DEF Passing, Deciding, IInv, TypeOK
  <2>3. Cardinality(members) \in Nat /\ Cardinality(Passing(members)) \in Nat
    BY <2>2, ConnsFinite, OpenersFinite
  <2> QED
    BY <2>1, <2>2, <2>3, Sizes DEF LimitOvershootBounded
<1> QED
  BY <1>1, Inductive, PTL

==============================================================================
