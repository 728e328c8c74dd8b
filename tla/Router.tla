------------------------------- MODULE Router -------------------------------
(***************************************************************************)
(* Route groups, middleware and routes of router.go, and the frozen copy   *)
(* that Run takes.  A slice of handlers is a backing array and a length:   *)
(* append writes into the array when it has room, and otherwise copies to  *)
(* a new array, whose spare capacity the runtime chooses.  router.mu and   *)
(* the server's stateMu make each operation one step.                      *)
(***************************************************************************)
EXTENDS Naturals, Sequences

CONSTANTS Events,    \* events that routes are registered for
          Handlers,  \* handlers in use
          MaxGroups, \* bound: route groups
          MaxOps,    \* bound: calls of Use and RegisterRoute
          MaxSpare   \* bound: spare capacity of a new array

ASSUME RouterAssumption == MaxGroups \in Nat /\ MaxOps \in Nat /\ MaxSpare \in Nat

VARIABLES
    arrays,         \* the backing arrays allocated so far
    groups,         \* groups[g]: the slice g.handlers; group 1 is the server's
    routes,         \* routes[e]: a slice, NilSlice when e is not in the map
    stage,          \* "new", "starting" after claimRun, "frozen" after freeze
    runtimeRoutes,  \* s.runtimeRoutes once frozen: the handlers by value, as
                    \* nothing else refers to the arrays of the copies
    ops

routerVars == <<arrays, groups, routes, stage, runtimeRoutes, ops>>

NilSlice == [array |-> 0, len |-> 0]

ValueIn(heap, slice) ==
    IF slice.array = 0 THEN <<>> ELSE SubSeq(heap[slice.array], 1, slice.len)
Value(slice) == ValueIn(arrays, slice)

\* The outcomes of append(slice, hs...): the arrays after it, and the new slice.
Appended(heap, slice, hs) ==
    LET len == slice.len + Len(hs)
        inPlace(array) == [i \in 1 .. Len(array) |->
                              IF i \in slice.len + 1 .. len THEN hs[i - slice.len] ELSE array[i]]
        grown(spare) == ValueIn(heap, slice) \o hs \o [i \in 1 .. spare |-> "nil"]
    IN IF hs = <<>> THEN {[arrays |-> heap, slice |-> slice]}
       ELSE IF slice.array # 0 /\ len <= Len(heap[slice.array])
       THEN {[arrays |-> [heap EXCEPT ![slice.array] = inPlace(@)],
              slice |-> [slice EXCEPT !.len = len]]}
       ELSE {[arrays |-> Append(heap, grown(spare)),
              slice |-> [array |-> Len(heap) + 1, len |-> len]] : spare \in 0 .. MaxSpare}

\* append([]Handler(nil), slice...)
Copied(heap, slice) == Appended(heap, NilSlice, ValueIn(heap, slice))

RouterInit ==
    /\ arrays = <<>>
    /\ groups = <<NilSlice>>
    /\ routes = [e \in Events |-> NilSlice]
    /\ stage = "new"
    /\ runtimeRoutes = [e \in {} |-> <<>>]
    /\ ops = 0

Operation == ops < MaxOps /\ ops' = ops + 1

Group(g) ==
    /\ Len(groups) < MaxGroups
    /\ \E copy \in Copied(arrays, groups[g]) :
           /\ arrays' = copy.arrays
           /\ groups' = Append(groups, copy.slice)
    /\ UNCHANGED <<routes, stage, runtimeRoutes, ops>>

\* Use and RegisterRoute return mutationErrorLocked unless the server is new.
Use(g, hs) ==
    /\ stage = "new"
    /\ Operation
    /\ \E result \in Appended(arrays, groups[g], hs) :
           /\ arrays' = result.arrays
           /\ groups' = [groups EXCEPT ![g] = result.slice]
    /\ UNCHANGED <<routes, stage, runtimeRoutes>>

BugRegisterRoute(g, e, h) ==
    /\ stage = "new"
    /\ Operation
    /\ \E result \in Appended(arrays, groups[g], <<h>>) :
           /\ arrays' = result.arrays
           /\ routes' = [routes EXCEPT ![e] = result.slice]
    /\ UNCHANGED <<groups, stage, runtimeRoutes>>

RegisterRoute(g, e, h) ==
    /\ stage = "new"
    /\ Operation
    /\ \E copy \in Copied(arrays, groups[g]) :
       \E result \in Appended(copy.arrays, copy.slice, <<h>>) :
           /\ arrays' = result.arrays
           /\ routes' = [routes EXCEPT ![e] = result.slice]
    /\ UNCHANGED <<groups, stage, runtimeRoutes>>

\* claimRun leaves stateNew; freeze copies the routes.
ClaimRun ==
    /\ stage = "new"
    /\ stage' = "starting"
    /\ UNCHANGED <<arrays, groups, routes, runtimeRoutes, ops>>

Registered == {e \in Events : routes[e] # NilSlice}

Freeze ==
    /\ stage = "starting"
    /\ stage' = "frozen"
    /\ runtimeRoutes' = [e \in Registered |-> Value(routes[e])]
    /\ UNCHANGED <<arrays, groups, routes, ops>>

HandlerLists == [1 .. 1 -> Handlers] \cup [1 .. 2 -> Handlers]

RouterNext ==
    \/ \E g \in DOMAIN groups : Group(g)
    \/ \E g \in DOMAIN groups, hs \in HandlerLists : Use(g, hs)
    \/ \E g \in DOMAIN groups, e \in Events, h \in Handlers : RegisterRoute(g, e, h)
    \/ ClaimRun
    \/ Freeze
----------------------------------------------------------------------------
\* Groups and routes behave as values, although the slices may share arrays: the
\* router implements RouteTable (router.go, Group, Use and RegisterRoute).
Table == INSTANCE RouteTable WITH
    chains <- [g \in DOMAIN groups |-> Value(groups[g])],
    table <- [e \in Events |-> Value(routes[e])],
    started <- stage # "new"
RoutesAsRegistered == Table!Spec
=============================================================================
