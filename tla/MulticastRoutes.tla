-------------------------- MODULE MulticastRoutes --------------------------
(***************************************************************************)
(* What MRD promises for the routes of one bridge, without slots, life     *)
(* times and statuses: a set of known sources, of which those that may be  *)
(* routed are, and a line about a source acts on its route at once.        *)
(***************************************************************************)
EXTENDS Naturals, FiniteSets

CONSTANTS Addr, LinkLocal, MAX_MCAST_ENTRIES

VARIABLES
    known,      \* sources that are remembered
    admitted,   \* those whose last line found them on the white list
    routes      \* the kernel's routes for the bridge

routeVars == <<known, admitted, routes>>

Init == known = {} /\ admitted = {} /\ routes = {}

Room == Cardinality(known) < MAX_MCAST_ENTRIES

SetRoute(a, ok) ==
    routes' = IF ok THEN routes \cup ({a} \cap LinkLocal) ELSE routes \ {a}

(* A line about a, which is or is not to be routed. *)
Line(a, ok) ==
    /\ a \in known \/ Room
    /\ known' = known \cup {a}
    /\ admitted' = IF ok THEN admitted \cup {a} ELSE admitted \ {a}
    /\ SetRoute(a, ok)

(* ... and one that cannot be remembered. *)
LineWithoutRoom(a, ok) ==
    /\ a \notin known /\ ~Room
    /\ SetRoute(a, ok)
    /\ UNCHANGED <<known, admitted>>

(* A source that fell silent goes with its route, and no other does. *)
Forget(a) ==
    /\ a \in known
    /\ known' = known \ {a}
    /\ admitted' = admitted \ {a}
    /\ routes' = routes \ {a}

(* The white list is found: all that is known is learnt anew. *)
StartOver ==
    /\ known' = {} /\ admitted' = {}
    /\ routes' = routes \ known

(* The daemon is killed and forgets, the kernel does not. *)
Killed ==
    /\ known' = {} /\ admitted' = {}
    /\ UNCHANGED routes

Next ==
    \/ \E a \in Addr, ok \in BOOLEAN : Line(a, ok) \/ LineWithoutRoom(a, ok)
    \/ \E a \in Addr : Forget(a)
    \/ StartOver \/ Killed

Spec == Init /\ [][Next]_routeVars
=============================================================================
