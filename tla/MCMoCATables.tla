---------------------------- MODULE MCMoCATables ----------------------------
(* Instances of MoCATables for TLC. *)
EXTENDS MoCATables, TLC

CONSTANTS n1, n2

Only(f) == [op \in Op |-> IF op \in DOMAIN f THEN f[op] ELSE 0]

(* The network moves between the requests, nothing fails. *)
Moving == Only([change |-> 2, disable |-> 1])

(* The network moves under a fetch, or calls fail. *)
Failing == Only([change |-> 1, changeInFetch |-> 1, cpeFails |-> 1, numFails |-> 1])

Faults == Only([devicesFail |-> 1, meshFails |-> 1, flowFails |-> 1, alloc |-> 1])

AllBudget == {Moving, Failing, Faults}

Peers == <<"p1", "p2">>

Symmetry == Permutations(Node)

=============================================================================
