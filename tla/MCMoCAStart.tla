----------------------------- MODULE MCMoCAStart -----------------------------
(* An instance of MoCAStart for TLC. *)
EXTENDS MoCAStart

Only(f) == [op \in Op |-> IF op \in DOMAIN f THEN f[op] ELSE 0]

(* Processes come and go, and one start fails late. *)
Lives == Only([start |-> 3, signal |-> 2, reboot |-> 1, fileFails |-> 1])

(* The bus takes the component down, twice, and sets what is traced. *)
Cancelled == Only([start |-> 1, cancel |-> 2, log |-> 2])

(* The console takes it down and up again, while the bus does too. *)
Consoled == Only([engage |-> 1, consoleCancel |-> 1, cancel |-> 1, quit |-> 1, log |-> 1])

Again == Only([engage |-> 2, consoleCancel |-> 1, log |-> 2])

(* Whatever may fail, at once and in a second engagement. *)
Failing == Only([start |-> 1, daemonFails |-> 1, busFails |-> 1, alloc |-> 1,
                 threadFails |-> 1, registerFails |-> 1, cdmFails |-> 1, fileFails |-> 1])

FailingAgain == Only([engage |-> 1, alloc |-> 1, registerFails |-> 1, cancel |-> 1])

AllBudget == {Lives, Cancelled, Consoled, Again, Failing, FailingAgain}

Trace == 0 .. 1
Invalid == -1

=============================================================================
