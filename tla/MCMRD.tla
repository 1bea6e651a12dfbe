-------------------------------- MODULE MCMRD --------------------------------
(* Instances of MRD for TLC. *)
EXTENDS MRD

Symmetry == Permutations(LinkLocal)     \* Matched and OwnAddr hold all of them or none

NoFault == [f \in Fault |-> 0]

(* Sources come and go on both sides; the white list appears and is edited. *)
Tables == [NoFault EXCEPT !["lanTalk"] = 1, !["wanTalk"] = 2, !["whitelist"] = 1]

(* The LAN side, for longer. *)
LanTables == [NoFault EXCEPT !["lanTalk"] = 3]

(* The MoCA side alone, with more sources than entries. *)
Overflow == [NoFault EXCEPT !["wanTalk"] = 4]

(* Everything that can fail, where the segment of the white list is created *)
(* and, without a restart, where it is replaced (both are in Segments), by  *)
(* one that holds any addresses.                                            *)
Faults == [f \in Fault |->
              IF f \in {"lanTalk", "neighbour", "whitelist", "replace"} THEN 0 ELSE 1]

FaultsReplaced == [Faults EXCEPT !["create"] = 0, !["replace"] = 1, !["restart"] = 0]

(* The white list is replaced, and attaching it fails. *)
Segments == [NoFault EXCEPT !["wanTalk"] = 2, !["whitelist"] = 1,
                            !["create"] = 1, !["replace"] = 1, !["shmat"] = 2]

Neighbours == [NoFault EXCEPT !["wanTalk"] = 2, !["neighbour"] = 2]

SafetyBudget == {Tables, LanTables, Overflow, Neighbours, Faults, FaultsReplaced}

LiveBudget == {Segments, Neighbours}

=============================================================================
