----------------------------- MODULE RouteTable -----------------------------
(***************************************************************************)
(* What router.go promises, with values instead of slices: a route runs    *)
(* the handlers its group had when the route was registered, then its own; *)
(* nothing done later to any group or route changes it, and a started      *)
(* server changes no route at all.  Router implements this module          *)
(* (Router!RoutesAsRegistered).                                            *)
(***************************************************************************)
EXTENDS Naturals, Sequences

CONSTANTS Events, Handlers

VARIABLES chains,   \* chains[g]: the handlers of group g; group 1 is the server's
          table,    \* table[e]: the handlers of event e, <<>> if none
          started

vars == <<chains, table, started>>

Init ==
    /\ chains = << <<>> >>
    /\ table = [e \in Events |-> <<>>]
    /\ started = FALSE

Group(g) ==
    /\ chains' = Append(chains, chains[g])
    /\ UNCHANGED <<table, started>>

Use(g) ==
    /\ ~ started
    /\ \E hs \in [1 .. 1 -> Handlers] \cup [1 .. 2 -> Handlers] :
           chains' = [chains EXCEPT ![g] = @ \o hs]
    /\ UNCHANGED <<table, started>>

Register(g, e, h) ==
    /\ ~ started
    /\ table' = [table EXCEPT ![e] = Append(chains[g], h)]
    /\ UNCHANGED <<chains, started>>

Start ==
    /\ ~ started
    /\ started' = TRUE
    /\ UNCHANGED <<chains, table>>

Next ==
    \/ \E g \in DOMAIN chains : Group(g) \/ Use(g)
    \/ \E g \in DOMAIN chains, e \in Events, h \in Handlers : Register(g, e, h)
    \/ Start

Spec == Init /\ [][Next]_vars
=============================================================================
