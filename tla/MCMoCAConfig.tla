---------------------------- MODULE MCMoCAConfig ----------------------------
(* Instances of MoCAConfig for TLC. *)
EXTENDS MoCAConfig, TLC

Symmetry == Permutations(ValidKey)

(* Documents: the header before or behind the wrapper, other settings       *)
(* before or behind Enable, one with a name that begins with it, Enable as  *)
(* a string, none at all, and a document that cannot be unpacked.           *)
Names == {"moca", "subdoc_name", "version", "transaction_id", "Enable", "Enabled", "Mode"}
NamesBegin == {<<"Enable", "Enabled">>}

Bool(key, val) == [key |-> key, type |-> "boolean", val |-> val]
Text(key) == [key |-> key, type |-> "str", val |-> FALSE]

Front == << [key |-> "subdoc_name", type |-> "str", map |-> << >>],
             [key |-> "version", type |-> "integer", map |-> << >>],
             [key |-> "transaction_id", type |-> "integer", map |-> << >>] >>
Wrapper(settings) == << [key |-> "moca", type |-> "map", map |-> settings] >>

Blobs ==
    {[unpacks |-> TRUE, map |-> Front \o Wrapper(settings)] :
        settings \in {<< >>, << Text("Enable") >>, << Bool("Enable", TRUE), Bool("Mode", FALSE) >>,
                      << Bool("Enabled", TRUE), Bool("Enable", FALSE) >>}}
    \cup {[unpacks |-> TRUE, map |-> Wrapper(settings) \o Front] :
        settings \in {<< Bool("Mode", FALSE), Text("Enabled"), Bool("Enable", TRUE) >>,
                      << Bool("Enabled", FALSE) >>}}
    \cup {[unpacks |-> FALSE, map |-> << >>]}

(* A scenario is a function that is 0 but for the named Op. *)
Only(f) == [o \in Op |-> IF o \in DOMAIN f THEN f[o] ELSE 0]

(* Transactions one after the other, and what fails in them. *)
Transactions == Only([txn |-> 2, set |-> 3, enable |-> 2, key |-> 2, provision |-> 1,
                      get |-> 1, halSet |-> 1, lanMode |-> 1])

(* ... and the agent dies at any point of them. *)
Killed == Only([txn |-> 2, set |-> 2, enable |-> 1, key |-> 1, number |-> 1, halSet |-> 1,
                restart |-> 1])

(* What is asked for is not stored, and then read. *)
Unstored == Only([txn |-> 2, set |-> 2, enable |-> 2, get |-> 2, syscfg |-> 1,
                  restart |-> 1])

(* Whatever may switch MoCA off while it is forced on. *)
Forced == Only([txn |-> 2, set |-> 2, enable |-> 2, number |-> 1, web |-> 1,
                restart |-> 1])

(* The force flag is set and rolled back. *)
Forcing == Only([txn |-> 2, set |-> 2, force |-> 2, key |-> 1, restart |-> 1,
                 syscfg |-> 1, syscfgGet |-> 1])

(* Starts and restarts in every mode. *)
Starts == Only([txn |-> 1, set |-> 1, enable |-> 1, key |-> 1, restart |-> 1,
                bridge |-> 1, split |-> 1, equip |-> 1, get |-> 1])

(* Documents, with a syscfg that fails once or more. *)
Documents == Only([web |-> 2, syscfg |-> 2, lanMode |-> 1])

(* A transaction that holds a key, while others use the cache. *)
HeldDefault == Only([txn |-> 1, set |-> 2, key |-> 1, default |-> 1, reset |-> 1])

HeldOthers == Only([txn |-> 1, set |-> 1, key |-> 1, snmp |-> 1])

(* Everything that may fail, to a reset or a document and a change over SNMP. *)
FailingReset == Only([reset |-> 1, snmp |-> 1, halSet |-> 1, halGet |-> 1, syscfg |-> 1])

FailingWeb == Only([web |-> 1, snmp |-> 1, halSet |-> 1, halGet |-> 1, syscfg |-> 1,
                    syscfgGet |-> 1])

Snmps == Only([snmp |-> 3])

Resets == Only([reset |-> 2])

BusBudget == {Transactions, Killed, Unstored, Forced, Forcing}

AllBudget == {Starts, Documents, HeldDefault, HeldOthers, FailingReset, FailingWeb}

LiveBudget == {Snmps, Resets}

(* MoCA is forced on; a transaction that only says where provisioning is    *)
(* found is rolled back, and another one follows.                           *)
UndoneBudget == {Only([txn |-> 2, set |-> 3, provision |-> 1, number |-> 1, enable |-> 1])}

=============================================================================
