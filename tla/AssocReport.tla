----------------------------- MODULE AssocReport -----------------------------
(***************************************************************************)
(* What the device synchronisation promises to LM Lite when every report   *)
(* arrives: each poll takes a snapshot of the network, and before the next *)
(* poll LM Lite has been told the joins and leaves between the last        *)
(* snapshot and this one, and nothing else.                                *)
(*                                                                         *)
(* The snapshot is the network itself, with two exceptions that the code   *)
(* makes: a poll that fails is taken for a network without devices, and a  *)
(* poll during which a device joins may miss devices.                      *)
(***************************************************************************)
EXTENDS Naturals

CONSTANT Device

VARIABLES
    network,    \* the devices that are associated
    grew,       \* a device joined since the poll began
    failures,   \* how many polls failed
    snapshot,   \* the devices of the last poll
    told        \* the devices LM Lite holds to be online

reportVars == <<network, grew, failures, snapshot, told>>

Init ==
    /\ network = {} /\ snapshot = {} /\ told = {}
    /\ grew = FALSE /\ failures = 0

Change ==
    /\ network' \in SUBSET Device
    /\ grew' \in {grew, TRUE}
    /\ ~grew' => network' \subseteq network
    /\ UNCHANGED <<failures, snapshot, told>>

BeginPoll ==
    /\ told = snapshot
    /\ grew' = FALSE
    /\ UNCHANGED <<network, failures, snapshot, told>>

Poll ==
    /\ told = snapshot
    /\ snapshot' \in SUBSET network
    /\ grew' \in {grew, FALSE}
    /\ ~grew' => snapshot' = network
    /\ UNCHANGED <<network, failures, told>>

FailedPoll ==
    /\ told = snapshot
    /\ snapshot' = {}
    /\ failures' = failures + 1
    /\ grew' \in {grew, FALSE}
    /\ UNCHANGED <<network, told>>

Joined(d) ==
    /\ d \in snapshot \ told
    /\ told' = told \cup {d}
    /\ UNCHANGED <<network, grew, failures, snapshot>>

Left(d) ==
    /\ d \in told \ snapshot
    /\ told' = told \ {d}
    /\ UNCHANGED <<network, grew, failures, snapshot>>

Next ==
    \/ Change \/ BeginPoll \/ Poll \/ FailedPoll
    \/ \E d \in Device : Joined(d) \/ Left(d)

Spec == Init /\ [][Next]_reportVars

FairSpec ==
    /\ Spec
    /\ WF_reportVars(BeginPoll) /\ WF_reportVars(Poll)
    /\ \A d \in Device : WF_reportVars(Joined(d) \/ Left(d))
=============================================================================
