---------------------------- MODULE MCMoCALogging ----------------------------
(* An instance of MoCALogging for TLC. *)
EXTENDS MoCALogging

Only(f) == [op \in Op |-> IF op \in DOMAIN f THEN f[op] ELSE 0]

Sets == Only([set |-> 2])

Faults == Only([set |-> 1, openFails |-> 1, getFails |-> 1, restart |-> 1])

AllBudget == {Sets, Faults}

=============================================================================
