------------------------ MODULE MoCADeviceSyncProofs ------------------------
(***************************************************************************)
(* Proofs about MoCADeviceSync, for every set of devices and all bounds.   *)
(***************************************************************************)
EXTENDS MoCADeviceSync, SequenceTheorems, TLAPS

(* While the sync thread walks the array, its index is inside the array the *)
(* HAL filled, and past the zero check the entry is a device.               *)
ScanInv ==
    /\ pc["sync"] \in {"online"} \cup WritePc => i \in Nat \ {0} /\ Len(arr) = ulCount
    /\ pc["sync"] \in WritePc => i <= ulCount /\ arr[i] \in Device

USE DEF Thread, SendPc, WritePc, SyncPc, BusPc, Goto, Fault, Node

-----------------------------------------------------------------------------
(* The HAL's table stays a sequence of devices. *)
LEMMA AssocTyped ==
    ASSUME TypeOK, AssocChange
    PROVE  assoc' \in Seq(Device)
<1>1. CASE \E d \in Device \ Range(assoc), k \in 1 .. Len(assoc) + 1 :
              assoc' = InsertAt(assoc, k, d)
  <2>1. PICK d \in Device, k \in 1 .. Len(assoc) + 1 :
            assoc' = InsertAt(assoc, k, d)
    BY <1>1
  <2>2. assoc \in Seq(Device) /\ Len(assoc) \in Nat
    BY LenProperties DEF TypeOK
  <2>3. \A l \in 1 .. Len(assoc) : assoc[l] \in Device
    BY <2>2, ElementOfSeq
  <2>4. SubSeq(assoc, 1, k - 1) \in Seq(Device)
    BY <2>2, <2>3, SubSeqProperties
  <2>5. SubSeq(assoc, k, Len(assoc)) \in Seq(Device)
    BY <2>2, <2>3, SubSeqProperties
  <2>6. <<d>> \in Seq(Device)
    OBVIOUS
  <2> QED
    BY <2>1, <2>4, <2>5, <2>6, ConcatProperties DEF InsertAt
<1>2. CASE \E k \in DOMAIN assoc : assoc' = RemoveAt(assoc, k)
  <2>1. PICK k \in DOMAIN assoc : assoc' = RemoveAt(assoc, k)
    BY <1>2
  <2>2. assoc \in Seq(Device) /\ Len(assoc) \in Nat /\ k \in 1 .. Len(assoc)
    BY LenProperties DEF TypeOK
  <2>3. \A l \in 1 .. Len(assoc) : assoc[l] \in Device
    BY <2>2, ElementOfSeq
  <2>4. SubSeq(assoc, 1, k - 1) \in Seq(Device)
    BY <2>2, <2>3, SubSeqProperties
  <2>5. SubSeq(assoc, k + 1, Len(assoc)) \in Seq(Device)
    BY <2>2, <2>3, SubSeqProperties
  <2> QED
    BY <2>1, <2>4, <2>5, ConcatProperties DEF RemoveAt
<1> QED
  BY <1>1, <1>2 DEF AssocChange

(* What is known of a list of nodes. *)
LEMMA ListOfNodes ==
    ASSUME NEW list \in Seq(Node)
    PROVE  /\ DOMAIN list = 1 .. Len(list) /\ Len(list) \in Nat
           /\ \A k \in DOMAIN list : list[k] \in Node
           /\ \A k \in DOMAIN list : list[k].deviceMac \in Device
<1>1. DOMAIN list = 1 .. Len(list) /\ Len(list) \in Nat
  BY LenProperties
<1>2. \A k \in DOMAIN list : list[k] \in Node
  BY <1>1, ElementOfSeq
<1>3. \A node \in Node : node.deviceMac \in Device
  OBVIOUS
<1> QED
  BY <1>1, <1>2, <1>3

(* Replacing one node by a node keeps a list of nodes of the same length. *)
LEMMA NodeReplaced ==
    ASSUME NEW list \in Seq(Node), NEW k \in 1 .. Len(list), NEW node \in Node
    PROVE  /\ [list EXCEPT ![k] = node] \in Seq(Node)
           /\ Len([list EXCEPT ![k] = node]) = Len(list)
           /\ \A l \in 1 .. Len(list) :
                [list EXCEPT ![k] = node][l] = IF l = k THEN node ELSE list[l]
BY ExceptSeq

(* What a step of Set_MoCADevices_Status_Offline or Send writes is a node,  *)
(* and keeps its MAC.                                                       *)
ClearedNode(node) == [node EXCEPT !.StatusChange = FALSE]

LEMMA NodesTyped ==
    ASSUME NEW node \in Node
    PROVE  /\ OfflineNode(node) \in Node
           /\ OfflineNode(node).deviceMac = node.deviceMac
           /\ PassedNode(node) \in Node
           /\ PassedNode(node).deviceMac = node.deviceMac
           /\ ClearedNode(node) \in Node
           /\ ClearedNode(node).deviceMac = node.deviceMac
BY DEF OfflineNode, PassedNode, ClearedNode

-----------------------------------------------------------------------------
(* The steps that write one node in place: UpdateDevice, SendSkip, SendAck, *)
(* SendClear.                                                               *)
NodeWrite(k, node) ==
    /\ k \in 1 .. Len(mocaList)
    /\ node \in Node
    /\ node.deviceMac = mocaList[k].deviceMac
    /\ mocaList' = [mocaList EXCEPT ![k] = node]

(* The cursor of a thread that is at a node. *)
LEMMA CursorLives ==
    ASSUME TypeOK, SendWalksLiveNodes, NEW t \in Thread, pc[t] \in SendPc,
           pc[t] # "send" \/ cur[t] <= Len(mocaList)
    PROVE  cur[t] \in 1 .. Len(mocaList) /\ mocaList[cur[t]] \in Node
<1>1. Len(mocaList) \in Nat /\ cur[t] \in 1 .. Len(mocaList)
  BY LenProperties DEF TypeOK, SendWalksLiveNodes, Held
<1> QED
  BY <1>1, ElementOfSeq DEF TypeOK

(* SendSkip writes one node of the list ... *)
LEMMA SkipWrites ==
    ASSUME TypeOK, SendWalksLiveNodes, NEW t \in Thread, SendSkip(t)
    PROVE  NodeWrite(cur[t], PassedNode(mocaList[cur[t]]))
<1>1. cur[t] \in 1 .. Len(mocaList) /\ mocaList[cur[t]] \in Node
  BY CursorLives DEF SendSkip
<1> QED
  BY <1>1, NodesTyped DEF NodeWrite, SendSkip

(* ... so does SendAck, if the call succeeded ... *)
LEMMA AckWrites ==
    ASSUME TypeOK, SendWalksLiveNodes, NEW t \in Thread, SendAck(t), ret[t]
    PROVE  NodeWrite(cur[t], PassedNode(mocaList[cur[t]]))
<1>1. cur[t] \in 1 .. Len(mocaList) /\ mocaList[cur[t]] \in Node
  BY CursorLives DEF SendAck
<1>2. mocaList' = [mocaList EXCEPT ![cur[t]] = PassedNode(mocaList[cur[t]])]
  BY DEF SendAck, Success, PassedNode
<1> QED
  BY <1>1, <1>2, NodesTyped DEF NodeWrite

(* ... and SendClear. *)
LEMMA ClearWrites ==
    ASSUME TypeOK, SendWalksLiveNodes, NEW t \in Thread, SendClear(t)
    PROVE  NodeWrite(cur[t], ClearedNode(mocaList[cur[t]]))
<1>1. cur[t] \in 1 .. Len(mocaList) /\ mocaList[cur[t]] \in Node
  BY CursorLives DEF SendClear
<1>2. mocaList' = [mocaList EXCEPT ![cur[t]] = ClearedNode(mocaList[cur[t]])]
  BY DEF SendClear, ClearedNode
<1> QED
  BY <1>1, <1>2, NodesTyped DEF NodeWrite

(* Such a step keeps the length of the list and every MAC. *)
LEMMA WriteKeeps ==
    ASSUME mocaList \in Seq(Node), NEW k, NEW node, NodeWrite(k, node)
    PROVE  /\ mocaList' \in Seq(Node)
           /\ Len(mocaList') = Len(mocaList)
           /\ DOMAIN mocaList' = DOMAIN mocaList
           /\ \A l \in DOMAIN mocaList :
                /\ mocaList'[l] = IF l = k THEN node ELSE mocaList[l]
                /\ mocaList'[l].deviceMac = mocaList[l].deviceMac
BY NodeReplaced, LenProperties DEF NodeWrite

(* What Send does to the list: it clears flags, one of the node at its      *)
(* cursor at a time.                                                        *)
FlagsCleared(t) ==
    /\ mocaList' \in Seq(Node)
    /\ Len(mocaList') = Len(mocaList)
    /\ DOMAIN mocaList' = DOMAIN mocaList
    /\ \A k \in DOMAIN mocaList :
        /\ mocaList'[k].deviceMac = mocaList[k].deviceMac
        /\ mocaList'[k].Status = mocaList[k].Status
        /\ mocaList'[k].freed = mocaList[k].freed
        /\ mocaList'[k].Updated => mocaList[k].Updated
        /\ mocaList'[k].StatusChange => mocaList[k].StatusChange
        /\ k # cur[t] => mocaList'[k] = mocaList[k]
        /\ pc[t] # "clear" => mocaList'[k].StatusChange = mocaList[k].StatusChange
    /\ SendSkip(t) \/ SendClear(t) \/ (SendAck(t) /\ ret[t]) => cur[t] \in DOMAIN mocaList
    /\ SendSkip(t) \/ (SendAck(t) /\ ret[t]) => ~mocaList'[cur[t]].Updated
    /\ SendClear(t) => /\ ~mocaList'[cur[t]].StatusChange
                       /\ mocaList'[cur[t]].Updated = mocaList[cur[t]].Updated

LEMMA SendEffect ==
    ASSUME TypeOK, SendWalksLiveNodes, NEW t \in Thread, Send(t)
    PROVE  FlagsCleared(t)
<1>0. /\ mocaList \in Seq(Node) /\ ret[t] \in BOOLEAN
      /\ \A k \in DOMAIN mocaList : mocaList[k] \in Node
  BY ListOfNodes DEF TypeOK
<1>1. CASE mocaList' = mocaList /\ ~SendSkip(t) /\ ~SendClear(t) /\ ~(SendAck(t) /\ ret[t])
  BY <1>0, <1>1 DEF FlagsCleared
<1>2. ASSUME NodeWrite(cur[t], PassedNode(mocaList[cur[t]])), ~SendClear(t)
      PROVE  FlagsCleared(t)
  <2>1. cur[t] \in DOMAIN mocaList /\ mocaList[cur[t]] \in Node
    BY <1>0, <1>2, LenProperties DEF NodeWrite
  <2>2. /\ PassedNode(mocaList[cur[t]]).deviceMac = mocaList[cur[t]].deviceMac
        /\ PassedNode(mocaList[cur[t]]).Status = mocaList[cur[t]].Status
        /\ PassedNode(mocaList[cur[t]]).freed = mocaList[cur[t]].freed
        /\ PassedNode(mocaList[cur[t]]).StatusChange = mocaList[cur[t]].StatusChange
        /\ ~PassedNode(mocaList[cur[t]]).Updated
    BY <2>1 DEF PassedNode
  <2>3. /\ mocaList' \in Seq(Node) /\ Len(mocaList') = Len(mocaList)
        /\ DOMAIN mocaList' = DOMAIN mocaList
        /\ \A l \in DOMAIN mocaList :
             mocaList'[l] = IF l = cur[t] THEN PassedNode(mocaList[cur[t]]) ELSE mocaList[l]
    BY <1>0, <1>2, WriteKeeps
  <2> QED
    BY <1>2, <2>1, <2>2, <2>3 DEF FlagsCleared
<1>3. ASSUME SendClear(t) PROVE FlagsCleared(t)
  <2>0. NodeWrite(cur[t], ClearedNode(mocaList[cur[t]]))
    BY <1>3, ClearWrites
  <2>1. cur[t] \in DOMAIN mocaList /\ mocaList[cur[t]] \in Node
    BY <1>0, <2>0, LenProperties DEF NodeWrite
  <2>2. /\ ClearedNode(mocaList[cur[t]]).deviceMac = mocaList[cur[t]].deviceMac
        /\ ClearedNode(mocaList[cur[t]]).Status = mocaList[cur[t]].Status
        /\ ClearedNode(mocaList[cur[t]]).freed = mocaList[cur[t]].freed
        /\ ClearedNode(mocaList[cur[t]]).Updated = mocaList[cur[t]].Updated
        /\ ~ClearedNode(mocaList[cur[t]]).StatusChange
    BY <2>1 DEF ClearedNode
  <2>3. /\ mocaList' \in Seq(Node) /\ Len(mocaList') = Len(mocaList)
        /\ DOMAIN mocaList' = DOMAIN mocaList
        /\ \A l \in DOMAIN mocaList :
             mocaList'[l] = IF l = cur[t] THEN ClearedNode(mocaList[cur[t]]) ELSE mocaList[l]
    BY <1>0, <2>0, WriteKeeps
  <2>4. pc[t] = "clear" /\ ~SendSkip(t) /\ ~SendAck(t)
    BY <1>3 DEF SendClear, SendSkip, SendAck
  <2> QED
    BY <2>1, <2>2, <2>3, <2>4 DEF FlagsCleared
<1>4. CASE SendSkip(t)
  <2>1. ~SendClear(t)
    BY <1>4 DEF SendSkip, SendClear
  <2> QED
    BY <1>2, <1>4, <2>1, SkipWrites
<1>5. CASE SendAck(t)
  <2>1. ~SendClear(t) /\ ~SendSkip(t)
    BY <1>5 DEF SendAck, SendClear, SendSkip
  <2>2. ~ret[t] => mocaList' = mocaList
    BY <1>5 DEF SendAck, Success
  <2> QED
    BY <1>1, <1>2, <1>5, <2>1, <2>2, AckWrites
<1>6. CASE SendLock(t) \/ SendFormat(t) \/ SendCall(t) \/ SendEnd(t)
  <2>1. mocaList' = mocaList
    BY <1>6 DEF SendLock, SendFormat, SendCall, SendEnd
  <2> QED
    BY <1>1, <1>3, <1>4, <1>5, <2>1
<1> QED
  BY <1>3, <1>4, <1>5, <1>6 DEF Send

(* And so does Set_MoCADevices_Status_Offline. *)
LEMMA OfflineKeeps ==
    ASSUME TypeOK, Set_MoCADevices_Status_Offline
    PROVE  /\ mocaList' \in Seq(Node)
           /\ Len(mocaList') = Len(mocaList)
           /\ DOMAIN mocaList' = DOMAIN mocaList
           /\ \A l \in DOMAIN mocaList :
                /\ mocaList'[l] = OfflineNode(mocaList[l])
                /\ mocaList'[l].deviceMac = mocaList[l].deviceMac
<1>1. mocaList \in Seq(Node) /\ Len(mocaList) \in Nat /\ i \in Nat
      /\ DOMAIN mocaList = 1 .. Len(mocaList)
  BY LenProperties DEF TypeOK
<1>2. \A l \in 1 .. Len(mocaList) :
        /\ OfflineNode(mocaList[l]) \in Node
        /\ OfflineNode(mocaList[l]).deviceMac = mocaList[l].deviceMac
  BY <1>1, ElementOfSeq, NodesTyped
<1>3. mocaList' = [l \in 1 .. Len(mocaList) |-> OfflineNode(mocaList[l])]
  BY <1>1 DEF Set_MoCADevices_Status_Offline
<1> QED
  BY <1>1, <1>2, <1>3, IsASeq, LenProperties

(* With one node per MAC the search finds that node, or returns NULL.       *)
LEMMA FoundPosition ==
    ASSUME TypeOK, UniqueMac, NEW mac \in Device
    PROVE  \/ Found(mac) = 0 /\ \A k \in DOMAIN mocaList :
                                    mocaList[k].deviceMac # mac
           \/ Found(mac) \in DOMAIN mocaList /\ mocaList[Found(mac)].deviceMac = mac
<1>1. CASE Positions(mac) = {}
  BY <1>1 DEF Found, Positions
<1>2. ASSUME NEW p \in Positions(mac) PROVE Found(mac) = p
  <2>1. DOMAIN mocaList = 1 .. Len(mocaList) /\ Len(mocaList) \in Nat
    BY LenProperties DEF TypeOK
  <2>2. \A l \in Positions(mac) : l = p
    BY <1>2 DEF Positions, UniqueMac
  <2>3. p <= p
    BY <1>2, <2>1 DEF Positions
  <2> QED
    BY <1>2, <2>2, <2>3 DEF Found
<1> QED
  BY <1>1, <1>2 DEF Positions

-----------------------------------------------------------------------------
(* What the actions leave alone. *)
USE DEF syncVars, sendVars, envVars

(* What UpdateDevice does, by the point it is at: it writes to the found    *)
(* node only, brings it online, and at no point takes it offline.           *)
AfterWrite(node) ==
    [write |-> IF node.Status = 1 THEN "confirm" ELSE "updated", confirm |-> "online",
     updated |-> "changed", changed |-> "free", free |-> "path", path |-> "freeType",
     freeType |-> "type", type |-> "online"]

NodeUpdated ==
    LET old == mocaList[device]
        new == mocaList'[device]
        at == pc["sync"]
    IN /\ device # 0 /\ device \in DOMAIN mocaList /\ old \in Node /\ at \in WritePc
       /\ mocaList' \in Seq(Node)
       /\ Len(mocaList') = Len(mocaList)
       /\ DOMAIN mocaList' = DOMAIN mocaList
       /\ \A k \in DOMAIN mocaList : /\ k # device => mocaList'[k] = mocaList[k]
                                     /\ mocaList'[k].deviceMac = mocaList[k].deviceMac
       /\ new.Status = (IF at = "write" THEN 1 ELSE old.Status)
       /\ new.Updated = (old.Updated \/ at \in {"confirm", "updated"})
       /\ new.StatusChange = IF at = "changed" THEN TRUE
                             ELSE ~(at = "write" /\ old.Status = 1) /\ old.StatusChange
       /\ new.freed # {} => \/ at \in {"free", "freeType"}
                            \/ at \notin {"path", "type"} /\ new.freed = old.freed
       /\ pc' = [pc EXCEPT !["sync"] = AfterWrite(old)[at]]
       /\ IF pc'["sync"] = "online" THEN i' = i + 1 /\ device' = 0
          ELSE i' = i /\ device' = device
       /\ UNCHANGED <<mutex, ulCount, arr, sendVars, deviceMAC, envVars>>

LEMMA WriteEffect ==
    ASSUME TypeOK, FoundNodeLives, NEW from \in WritePc, NEW node, NEW to \in SyncPc,
           device # 0, Write(from, node, to), node \in Node,
           node.deviceMac = mocaList[device].deviceMac,
           to = AfterWrite(mocaList[device])[from],
           node.Status = (IF from = "write" THEN 1 ELSE mocaList[device].Status),
           node.Updated = (mocaList[device].Updated \/ from \in {"confirm", "updated"}),
           node.StatusChange = IF from = "changed" THEN TRUE
                ELSE ~(from = "write" /\ mocaList[device].Status = 1)
                     /\ mocaList[device].StatusChange,
           node.freed # {} => \/ from \in {"free", "freeType"}
                              \/ from \notin {"path", "type"} /\ node.freed = mocaList[device].freed
    PROVE  NodeUpdated
<1>1. /\ mocaList \in Seq(Node) /\ DOMAIN mocaList = 1 .. Len(mocaList)
      /\ \A k \in DOMAIN mocaList : mocaList[k] \in Node
  BY ListOfNodes DEF TypeOK
<1>2. pc["sync"] = from /\ device \in DOMAIN mocaList
  BY DEF Write, FoundNodeLives
<1>3. NodeWrite(device, node)
  BY <1>1, <1>2 DEF Write, NodeWrite
<1>4. /\ mocaList' \in Seq(Node) /\ Len(mocaList') = Len(mocaList)
      /\ DOMAIN mocaList' = DOMAIN mocaList
      /\ \A l \in DOMAIN mocaList :
           /\ mocaList'[l] = IF l = device THEN node ELSE mocaList[l]
           /\ mocaList'[l].deviceMac = mocaList[l].deviceMac
  BY <1>1, <1>3, WriteKeeps
<1>5. mocaList'[device] = node
  BY <1>2, <1>4
<1>6. /\ pc' = [pc EXCEPT !["sync"] = to] /\ pc'["sync"] = to
      /\ IF to = "online" THEN i' = i + 1 /\ device' = 0 ELSE i' = i /\ device' = device
      /\ UNCHANGED <<mutex, ulCount, arr, sendVars, deviceMAC, envVars>>
  BY DEF Write, TypeOK
<1> QED
  BY <1>1, <1>2, <1>4, <1>5, <1>6 DEF NodeUpdated

LEMMA UpdateEffect ==
    ASSUME TypeOK, FoundNodeLives, UpdateDevice
    PROVE  NodeUpdated
<1> DEFINE old == mocaList[device]
<1>1. /\ device # 0 /\ pc["sync"] \in WritePc
      /\ \/ old.Status = 1 /\ Write("write", [old EXCEPT !.StatusChange = FALSE], "confirm")
         \/ Write("confirm", [old EXCEPT !.Updated = TRUE], "online")
         \/ old.Status = 0 /\ Write("write", [old EXCEPT !.Status = 1], "updated")
         \/ Write("updated", [old EXCEPT !.Updated = TRUE], "changed")
         \/ Write("changed", [old EXCEPT !.StatusChange = TRUE], "free")
         \/ Write("free", [old EXCEPT !.freed = {"AssociatedDevice"}], "path")
         \/ Write("path", [old EXCEPT !.freed = {}], "freeType")
         \/ Write("freeType", [old EXCEPT !.freed = {"ssidType"}], "type")
         \/ Write("type", [old EXCEPT !.freed = {}], "online")
  BY DEF UpdateDevice, Marked, Write
<1>2. old \in Node
  BY <1>1, ListOfNodes DEF FoundNodeLives, TypeOK
<1> HIDE DEF old
<1>3. ASSUME old.Status = 1, Write("write", [old EXCEPT !.StatusChange = FALSE], "confirm")
      PROVE  NodeUpdated
  BY <1>1, <1>2, <1>3, WriteEffect DEF AfterWrite, old
<1>4. ASSUME Write("confirm", [old EXCEPT !.Updated = TRUE], "online")
      PROVE  NodeUpdated
  BY <1>1, <1>2, <1>4, WriteEffect DEF AfterWrite, old
<1>5. ASSUME old.Status = 0, Write("write", [old EXCEPT !.Status = 1], "updated")
      PROVE  NodeUpdated
  BY <1>1, <1>2, <1>5, WriteEffect DEF AfterWrite, old
<1>6. ASSUME Write("updated", [old EXCEPT !.Updated = TRUE], "changed")
      PROVE  NodeUpdated
  BY <1>1, <1>2, <1>6, WriteEffect DEF AfterWrite, old
<1>7. ASSUME Write("changed", [old EXCEPT !.StatusChange = TRUE], "free")
      PROVE  NodeUpdated
  BY <1>1, <1>2, <1>7, WriteEffect DEF AfterWrite, old
<1>8. ASSUME Write("free", [old EXCEPT !.freed = {"AssociatedDevice"}], "path")
      PROVE  NodeUpdated
  BY <1>1, <1>2, <1>8, WriteEffect DEF AfterWrite, old, String
<1>9. ASSUME Write("path", [old EXCEPT !.freed = {}], "freeType")
      PROVE  NodeUpdated
  BY <1>1, <1>2, <1>9, WriteEffect DEF AfterWrite, old
<1>10. ASSUME Write("freeType", [old EXCEPT !.freed = {"ssidType"}], "type")
       PROVE  NodeUpdated
  BY <1>1, <1>2, <1>10, WriteEffect DEF AfterWrite, old, String
<1>11. ASSUME Write("type", [old EXCEPT !.freed = {}], "online")
       PROVE  NodeUpdated
  BY <1>1, <1>2, <1>11, WriteEffect DEF AfterWrite, old
<1> QED
  BY <1>1, <1>3, <1>4, <1>5, <1>6, <1>7, <1>8, <1>9, <1>10, <1>11 DEF old

(* Where the two kinds of step leave the threads. *)
LEMMA UpdateMoves ==
    ASSUME TypeOK, NodeUpdated
    PROVE  /\ pc'["bus"] = pc["bus"]
           /\ \/ pc["sync"] \in {"confirm", "type"} /\ pc'["sync"] = "online"
                 /\ i' = i + 1 /\ device' = 0
              \/ pc'["sync"] \in WritePc \ {"write"} /\ i' = i /\ device' = device
                 /\ pc["sync"] \notin {"confirm", "type"}
           /\ pc["sync"] = "write" => pc'["sync"] \in {"confirm", "updated"}
           /\ pc["sync"] = "write" /\ pc'["sync"] = "updated" => mocaList[device].Status # 1
           /\ pc'["sync"] = "path" <=> pc["sync"] = "free"
           /\ pc'["sync"] = "type" <=> pc["sync"] = "freeType"
           /\ pc'["sync"] = "changed" <=> pc["sync"] = "updated"
           /\ pc'["sync"] \in {"free", "path", "freeType", "type"} =>
                pc["sync"] \in {"changed", "free", "path", "freeType"}
<1>1. /\ pc' = [pc EXCEPT !["sync"] = AfterWrite(mocaList[device])[pc["sync"]]]
      /\ pc["sync"] \in WritePc
      /\ IF pc'["sync"] = "online" THEN i' = i + 1 /\ device' = 0
         ELSE i' = i /\ device' = device
  BY DEF NodeUpdated
<1>2. pc'["bus"] = pc["bus"] /\ pc'["sync"] = AfterWrite(mocaList[device])[pc["sync"]]
  BY <1>1 DEF TypeOK
<1>3. /\ pc["sync"] = "write" => pc'["sync"] =
                        IF mocaList[device].Status = 1 THEN "confirm" ELSE "updated"
      /\ pc["sync"] = "confirm" => pc'["sync"] = "online"
      /\ pc["sync"] = "updated" => pc'["sync"] = "changed"
      /\ pc["sync"] = "changed" => pc'["sync"] = "free"
      /\ pc["sync"] = "free" => pc'["sync"] = "path"
      /\ pc["sync"] = "path" => pc'["sync"] = "freeType"
      /\ pc["sync"] = "freeType" => pc'["sync"] = "type"
      /\ pc["sync"] = "type" => pc'["sync"] = "online"
  BY <1>2 DEF AfterWrite
<1> QED
  BY <1>1, <1>2, <1>3

LEMMA SendMoves ==
    ASSUME TypeOK, NEW t \in Thread, Send(t)
    PROVE  /\ UNCHANGED <<syncVars, deviceMAC, assoc, grew>>
           /\ pc[t] \in {"lock"} \cup SendPc
           /\ \A u \in Thread : u # t => pc'[u] = pc[u]
           /\ pc'[t] \in SendPc \cup (IF t = "bus" THEN {"idle"} ELSE {"cleanup", "sleep"})
<1>1. CASE SendLock(t)
  BY <1>1 DEF SendLock, TypeOK
<1>2. CASE SendSkip(t)
  BY <1>2 DEF SendSkip, TypeOK
<1>3. CASE SendFormat(t)
  BY <1>3 DEF SendFormat, TypeOK
<1>4. CASE SendCall(t)
  BY <1>4 DEF SendCall, TypeOK
<1>5. CASE SendAck(t)
  BY <1>5 DEF SendAck, TypeOK
<1>6. CASE SendClear(t)
  BY <1>6 DEF SendClear, TypeOK
<1>7. CASE SendEnd(t)
  BY <1>7 DEF SendEnd, AfterSend, TypeOK
<1> QED
  BY <1>1, <1>2, <1>3, <1>4, <1>5, <1>6, <1>7 DEF Send

(* A lookup that found nothing is still right when the node is added.       *)
LookupInv ==
    (pc["sync"] = "write" /\ device = 0) =>
        \A k \in DOMAIN mocaList : mocaList[k].deviceMac # arr[i]

(* After the first write the found node is online. *)
WriteInv ==
    pc["sync"] \in WritePc \ {"write"} => device # 0 /\ mocaList[device].Status = 1

(* Strings are given back of the found node only, and only for a step.      *)
StringsInv ==
    \A k \in DOMAIN mocaList :
        mocaList[k].freed # {} => k = device /\ pc["sync"] \in {"path", "type"}

(* The inductive invariant behind the list properties. *)
SafeInv ==
    /\ TypeOK /\ ScanInv /\ SendWalksLiveNodes /\ UniqueMac /\ LookupInv /\ FoundNodeLives
    /\ WriteInv /\ StringsInv

(* A bounded action of the environment keeps the type of used. *)
LEMMA SpendTyped ==
    ASSUME used \in [Fault -> Nat], NEW f \in Fault, Spend(f) \/ UNCHANGED used
    PROVE  used' \in [Fault -> Nat]
BY DEF Spend

(* The steps of the sending part keep the types. *)
LEMMA SendTyped ==
    ASSUME SafeInv, NEW t \in Thread, Send(t)
    PROVE  TypeOK'
<1> USE DEF SafeInv
<1>0. cur[t] \in Nat /\ ret[t] \in BOOLEAN /\ Len(mocaList) \in Nat
      /\ NextNode(t) \in Nat
  BY LenProperties DEF TypeOK, NextNode
<1>1. mocaList' \in Seq(Node)
  BY SendEffect DEF FlagsCleared
<1>2. CASE SendLock(t)
  BY <1>2 DEF SendLock, TypeOK
<1>3. CASE SendSkip(t)
  BY <1>0, <1>3, <1>1 DEF SendSkip, TypeOK
<1>4. CASE SendFormat(t)
  <2>1. mocaList[cur[t]] \in Node
    BY <1>4, CursorLives DEF SendFormat
  <2>2. line' \in [Thread -> {0, 1}]
    BY <1>4, <2>1 DEF SendFormat, TypeOK
  <2> QED
    BY <1>4, <2>2 DEF SendFormat, TypeOK
<1>5. CASE SendCall(t)
  <2>1. PICK delivered \in BOOLEAN :
            lmlite' = IF delivered
                      THEN [lmlite EXCEPT ![mocaList[cur[t]].deviceMac] = line[t]]
                      ELSE lmlite
    BY <1>5 DEF SendCall
  <2>2. line[t] \in {0, 1} /\ lmlite \in [Device -> {0, 1}]
    BY DEF TypeOK
  <2>3. lmlite' \in [Device -> {0, 1}]
    BY <2>1, <2>2
  <2>4. used' \in [Fault -> Nat]
    <3>1. Spend("sendFail") \/ UNCHANGED used
      BY <1>5 DEF SendCall
    <3> QED
      BY <3>1, SpendTyped DEF TypeOK, Fault
  <2>5. ret' \in [Thread -> BOOLEAN]
    BY <1>5 DEF SendCall, TypeOK
  <2> QED
    BY <1>5, <2>3, <2>4, <2>5 DEF SendCall, TypeOK
<1>6. CASE SendAck(t)
  <2>1. /\ \/ cur' = cur /\ pc' = [pc EXCEPT ![t] = "clear"]
           \/ cur' = [cur EXCEPT ![t] = NextNode(t)] /\ pc' = [pc EXCEPT ![t] = "send"]
        /\ ret' = [ret EXCEPT ![t] = FALSE] /\ line' = [line EXCEPT ![t] = 0]
        /\ UNCHANGED <<mutex, ulCount, arr, i, device, deviceMAC, assoc, grew, lmlite, used>>
    BY <1>6 DEF SendAck
  <2>2. /\ cur' \in [Thread -> Nat] /\ ret' \in [Thread -> BOOLEAN]
        /\ line' \in [Thread -> {0, 1}]
    BY <1>0, <2>1 DEF TypeOK
  <2>3. /\ pc' \in [Thread -> SyncPc \cup BusPc]
        /\ pc'["sync"] \in SyncPc /\ pc'["bus"] \in BusPc
    BY <2>1 DEF TypeOK
  <2> QED
    BY <1>1, <2>1, <2>2, <2>3 DEF TypeOK
<1>7. CASE SendClear(t)
  BY <1>0, <1>7, <1>1 DEF SendClear, TypeOK
<1>8. CASE SendEnd(t)
  BY <1>8 DEF SendEnd, AfterSend, TypeOK
<1> QED
  BY <1>2, <1>3, <1>4, <1>5, <1>6, <1>7, <1>8 DEF Send

(* An entry that passed the zero check is a device. *)
LEMMA ScannedEntry ==
    ASSUME TypeOK, ScanInv, FindDeviceInMoCAList
    PROVE  arr[i] \in Device
<1>1. i \in 1 .. Len(arr) /\ arr[i] # Zero
  BY DEF FindDeviceInMoCAList, ScanInv, TypeOK
<1>2. arr[i] \in Device \cup {Zero}
  BY <1>1, ElementOfSeq DEF TypeOK
<1> QED
  BY <1>1, <1>2

(* The steps of a round keep the types. *)
LEMMA SyncTyped ==
    ASSUME SafeInv, SynchronizeMoCADevices
    PROVE  TypeOK'
<1> USE DEF SafeInv
<1>0. Len(mocaList) \in Nat /\ Len(assoc) \in Nat /\ i + 1 \in Nat
      /\ \A k \in 1 .. Len(assoc) : assoc[k] \in Device
  BY LenProperties, ElementOfSeq DEF TypeOK
<1>1. CASE PollCount
  <2>1. used' \in [Fault -> Nat]
    <3>1. Spend("halFail") \/ UNCHANGED used
      BY <1>1 DEF PollCount
    <3> QED
      BY <3>1, SpendTyped DEF TypeOK, Fault
  <2>2. /\ pc' \in [Thread -> SyncPc \cup BusPc]
        /\ pc'["sync"] \in SyncPc /\ pc'["bus"] \in BusPc
    BY <1>1 DEF PollCount, TypeOK
  <2>3. ulCount' \in Nat /\ arr' \in Seq(Device \cup {Zero})
    BY <1>0, <1>1 DEF PollCount
  <2> QED
    BY <1>1, <2>1, <2>2, <2>3 DEF PollCount, TypeOK
<1>2. CASE PollTable
  <2>1. arr' \in Seq(Device \cup {Zero})
    <3>1. CASE arr' = arr
      BY <3>1 DEF TypeOK
    <3>2. CASE arr' = [k \in 1..ulCount |->
                          IF k <= Len(assoc) THEN assoc[k] ELSE Zero]
      <4>1. \A k \in 1 .. ulCount :
              (IF k <= Len(assoc) THEN assoc[k] ELSE Zero) \in Device \cup {Zero}
        BY <1>0 DEF TypeOK
      <4> QED
        BY <3>2, <4>1, IsASeq DEF TypeOK
    <3> QED
      BY <1>2, <3>1, <3>2 DEF PollTable
  <2>2. used' \in [Fault -> Nat]
    <3>1. Spend("halFail") \/ UNCHANGED used
      BY <1>2 DEF PollTable
    <3> QED
      BY <3>1, SpendTyped DEF TypeOK, Fault
  <2>3. /\ \/ pc' = [pc EXCEPT !["sync"] = "online"]
           \/ pc' = [pc EXCEPT !["sync"] = "offline"]
        /\ ulCount' \in {ulCount, 0} /\ i' \in {i, 1}
    BY <1>2 DEF PollTable
  <2>4. /\ pc' \in [Thread -> SyncPc \cup BusPc]
        /\ pc'["sync"] \in SyncPc /\ pc'["bus"] \in BusPc
        /\ ulCount' \in Nat /\ i' \in Nat
    <3>1. /\ pc \in [Thread -> SyncPc \cup BusPc]
          /\ pc["bus"] \in BusPc /\ ulCount \in Nat /\ i \in Nat
      BY DEF TypeOK
    <3>2. "sync" \in Thread /\ {"online", "offline"} \subseteq SyncPc
      BY DEF SyncPc
    <3> QED
      BY <2>3, <3>1, <3>2
  <2>5. UNCHANGED <<mocaList, mutex, device, cur, line, ret, deviceMAC, assoc, grew, lmlite>>
    BY <1>2 DEF PollTable
  <2>6. /\ mocaList' \in Seq(Node) /\ mutex' \in Thread \cup {"none"}
        /\ device' \in Nat /\ cur' \in [Thread -> Nat]
        /\ line' \in [Thread -> {0, 1}] /\ ret' \in [Thread -> BOOLEAN]
        /\ deviceMAC' \in BOOLEAN /\ grew' \in BOOLEAN
        /\ assoc' \in Seq(Device) /\ lmlite' \in [Device -> {0, 1}]
    BY <2>5 DEF TypeOK
  <2> QED
    BY <2>1, <2>2, <2>4, <2>6 DEF TypeOK
<1>3. CASE SkipEntry
  BY <1>0, <1>3 DEF SkipEntry, TypeOK
<1>4. CASE FindDeviceInMoCAList
  <2>1. Found(arr[i]) \in Nat
    <3>1. arr[i] \in Device
      BY <1>4, ScannedEntry
    <3>2. \A k \in DOMAIN mocaList : k \in Nat
      <4>1. mocaList \in Seq(Node)
        BY DEF TypeOK
      <4>2. DOMAIN mocaList = 1 .. Len(mocaList) /\ Len(mocaList) \in Nat
        BY <4>1, LenProperties
      <4> QED
        BY <4>2
    <3> QED
      BY <3>1, <3>2, FoundPosition
  <2> QED
    BY <1>4, <2>1 DEF FindDeviceInMoCAList, TypeOK
<1>5. CASE AddDevice
  <2>1. arr[i] \in Device
    BY <1>5 DEF AddDevice, ScanInv
  <2>2. mocaList' \in Seq(Node)
    BY <1>5, <2>1, AppendProperties DEF AddDevice, TypeOK
  <2> QED
    BY <1>0, <1>5, <2>2 DEF AddDevice, TypeOK
<1>6. CASE UpdateDevice
  <2>1. NodeUpdated
    BY <1>6, UpdateEffect
  <2>2. /\ mocaList' \in Seq(Node) /\ i' \in Nat /\ device' \in Nat
        /\ pc' = [pc EXCEPT !["sync"] = pc'["sync"]]
        /\ pc'["sync"] \in WritePc \cup {"online"}
    BY <1>0, <2>1 DEF NodeUpdated, AfterWrite, TypeOK
  <2>3. UNCHANGED <<mutex, ulCount, arr, cur, line, ret, deviceMAC, assoc, grew, lmlite, used>>
    BY <2>1 DEF NodeUpdated
  <2>4. /\ pc' \in [Thread -> SyncPc \cup BusPc]
        /\ pc'["sync"] \in SyncPc /\ pc'["bus"] \in BusPc
    BY <2>2 DEF TypeOK
  <2> QED
    BY <2>2, <2>3, <2>4 DEF TypeOK
<1>7. CASE Set_MoCADevices_Status_Offline
  BY <1>7, OfflineKeeps DEF Set_MoCADevices_Status_Offline, TypeOK
<1>8. CASE Send("sync")
  BY <1>8, SendTyped
<1>9. CASE CleanupMoCAList
  BY <1>9 DEF CleanupMoCAList, TypeOK
<1>10. CASE Wake
  BY <1>10 DEF Wake, TypeOK
<1> QED
  BY <1>1, <1>2, <1>3, <1>4, <1>5, <1>6, <1>7, <1>8, <1>9, <1>10
  DEF SynchronizeMoCADevices

(* The steps of the network, the bus and the restart keep the types. *)
LEMMA EnvironmentTyped ==
    ASSUME SafeInv, Environment
    PROVE  TypeOK'
<1> USE DEF SafeInv
<1>1. CASE PAMAnswers
  BY <1>1 DEF PAMAnswers, TypeOK
<1>2. CASE HostSync
  <2>1. used' \in [Fault -> Nat]
    <3>1. Spend("hostSync") \/ Spend("lmRestart")
      BY <1>2 DEF HostSync
    <3> QED
      BY <3>1, SpendTyped DEF TypeOK, Fault
  <2>2. lmlite' \in [Device -> {0, 1}]
    BY <1>2 DEF HostSync, TypeOK
  <2> QED
    BY <1>2, <2>1, <2>2 DEF HostSync, TypeOK
<1>3. CASE AssocChange
  <2>1. used' \in [Fault -> Nat]
    <3>1. Spend("change")
      BY <1>3 DEF AssocChange
    <3> QED
      BY <3>1, SpendTyped DEF TypeOK, Fault
  <2>2. grew' \in BOOLEAN
    BY <1>3 DEF AssocChange, TypeOK
  <2> QED
    BY <1>3, <2>1, <2>2, AssocTyped DEF AssocChange, TypeOK
<1>4. CASE Restart
  <2>1. used' \in [Fault -> Nat]
    <3>1. Spend("restart")
      BY <1>4 DEF Restart
    <3> QED
      BY <3>1, SpendTyped DEF TypeOK, Fault
  <2>2. /\ mocaList' \in Seq(Node) /\ arr' \in Seq(Device \cup {Zero})
        /\ cur' \in [Thread -> Nat] /\ ret' \in [Thread -> BOOLEAN]
        /\ line' \in [Thread -> {0, 1}]
    BY <1>4 DEF Restart
  <2>3. /\ pc' \in [Thread -> SyncPc \cup BusPc]
        /\ pc'["sync"] \in SyncPc /\ pc'["bus"] \in BusPc
    BY <1>4 DEF Restart, InitialPc
  <2> QED
    BY <1>4, <2>1, <2>2, <2>3 DEF Restart, TypeOK
<1> QED
  BY <1>1, <1>2, <1>3, <1>4 DEF Environment

-----------------------------------------------------------------------------
(* The sync thread's index stays inside the array. *)
LEMMA ScanStep ==
    ASSUME SafeInv, TypeOK', [Next]_vars
    PROVE  ScanInv'
<1> USE DEF SafeInv, ScanInv
<1>1. CASE PollCount
  BY <1>1 DEF PollCount, TypeOK
<1>2. CASE PollTable
  <2>1. CASE arr' = [k \in 1..ulCount |->
                        IF k <= Len(assoc) THEN assoc[k] ELSE Zero]
    <3>1. arr' \in Seq(Device \cup {Zero}) /\ ulCount \in Nat
      BY DEF TypeOK
    <3>2. Len(arr') = ulCount
      BY <2>1, <3>1, LenProperties
    <3> QED
      <4>1. \/ pc'["sync"] = "online" /\ i' = 1 /\ ulCount' = ulCount
            \/ pc'["sync"] = "offline"
        BY <1>2 DEF PollTable, TypeOK
      <4> QED
        BY <3>2, <4>1
  <2>2. CASE Goto("sync", "offline")
    BY <1>2, <2>2 DEF PollTable, TypeOK
  <2> QED
    BY <1>2, <2>1, <2>2 DEF PollTable
<1>3. CASE SkipEntry
  BY <1>3 DEF SkipEntry, TypeOK
<1>4. CASE FindDeviceInMoCAList
  <2>1. arr[i] \in Device
    BY <1>4, ScannedEntry
  <2> QED
    BY <1>4, <2>1 DEF FindDeviceInMoCAList, TypeOK
<1>5. CASE AddDevice
  BY <1>5 DEF AddDevice, TypeOK
<1>6. CASE UpdateDevice
  <2>1. NodeUpdated
    BY <1>6, UpdateEffect
  <2>2. i' \in {i, i + 1} /\ arr' = arr /\ ulCount' = ulCount /\ i \in Nat
    BY <2>1 DEF NodeUpdated, TypeOK
  <2>3. /\ pc["sync"] \in WritePc /\ (pc'["sync"] = "online" \/ i' = i)
        /\ pc'["sync"] \in {"online"} \cup WritePc
    BY <2>1, UpdateMoves DEF NodeUpdated
  <2> QED
    BY <2>2, <2>3
<1>7. CASE Set_MoCADevices_Status_Offline
  BY <1>7 DEF Set_MoCADevices_Status_Offline, TypeOK
<1>8. ASSUME NEW t \in Thread, Send(t) PROVE ScanInv'
  <2>1. /\ i' = i /\ arr' = arr /\ ulCount' = ulCount
        /\ pc'["sync"] \in {"online"} \cup WritePc => pc'["sync"] = pc["sync"]
    BY <1>8, SendMoves
  <2> QED
    BY <2>1
<1>9. CASE CleanupMoCAList
  BY <1>9 DEF CleanupMoCAList, TypeOK
<1>10. CASE Wake
  BY <1>10 DEF Wake, TypeOK
<1>11. CASE PAMAnswers
  BY <1>11 DEF PAMAnswers
<1>12. CASE HostSync
  BY <1>12 DEF HostSync, TypeOK
<1>13. CASE AssocChange
  BY <1>13 DEF AssocChange
<1>14. CASE Restart
  BY <1>14 DEF Restart, InitialPc
<1>15. CASE UNCHANGED vars
  BY <1>15 DEF vars
<1> QED
  BY <1>1, <1>2, <1>3, <1>4, <1>5, <1>6, <1>7, <1>8, <1>9, <1>10, <1>11, <1>12,
     <1>13, <1>14, <1>15 DEF Next, SynchronizeMoCADevices, Environment

-----------------------------------------------------------------------------
(* Send_Update_to_LMLite walks live nodes: whoever is inside holds the      *)
(* mutex, and while it is held nobody shortens or lengthens the list.       *)
LEMMA WalkStep ==
    ASSUME SafeInv, TypeOK', [Next]_vars
    PROVE  SendWalksLiveNodes'
<1> USE DEF SafeInv, SendWalksLiveNodes, Held
<1>0. Len(mocaList) \in Nat /\ DOMAIN mocaList = 1 .. Len(mocaList)
      /\ Len(mocaList') \in Nat /\ DOMAIN mocaList' = 1 .. Len(mocaList')
  BY LenProperties DEF TypeOK
<1>1. CASE /\ mutex' = mutex /\ cur' = cur /\ Len(mocaList') = Len(mocaList)
           /\ \A t \in Thread : pc'[t] = pc[t] \/ ~Held(t)'
  BY <1>0, <1>1
<1>2. CASE PollCount
  BY <1>1, <1>2 DEF PollCount, TypeOK
<1>3. CASE PollTable
  BY <1>1, <1>3 DEF PollTable, TypeOK
<1>4. CASE SkipEntry
  BY <1>1, <1>4 DEF SkipEntry, TypeOK
<1>5. CASE FindDeviceInMoCAList
  BY <1>1, <1>5 DEF FindDeviceInMoCAList, TypeOK
<1>6. CASE AddDevice
  <2>1. \A t \in Thread : ~Held(t) /\ ~Held(t)'
    BY <1>6 DEF AddDevice, TypeOK
  <2> QED
    BY <2>1
<1>7. CASE UpdateDevice
  <2>1. NodeUpdated
    BY <1>7, UpdateEffect
  <2>2. /\ mutex' = mutex /\ cur' = cur /\ Len(mocaList') = Len(mocaList)
        /\ pc'["bus"] = pc["bus"] /\ pc'["sync"] \in {"online"} \cup WritePc
    BY <2>1, UpdateMoves DEF NodeUpdated
  <2> QED
    BY <1>1, <2>2
<1>8. CASE Set_MoCADevices_Status_Offline
  <2>1. \A t \in Thread : ~Held(t) /\ ~Held(t)'
    BY <1>8 DEF Set_MoCADevices_Status_Offline, TypeOK
  <2> QED
    BY <2>1
<1>9. ASSUME NEW t \in Thread, Send(t) PROVE SendWalksLiveNodes'
  <2>0. \A u \in Thread : Held(u) => mutex = u
    OBVIOUS
  <2>1. CASE SendLock(t)
    <3>1. \A u \in Thread : ~Held(u) /\ (Held(u)' => u = t)
      BY <2>1 DEF SendLock, TypeOK
    <3>2. mutex' = t /\ cur'[t] = 1 /\ pc'[t] = "send" /\ mocaList' = mocaList
      BY <2>1 DEF SendLock, TypeOK
    <3>3. t \in Thread /\ 1 \in 1 .. Len(mocaList') + 1
      BY <1>0
    <3> QED
      BY <3>1, <3>2, <3>3
  <2>2. /\ Len(mocaList') = Len(mocaList)
        /\ SendSkip(t) \/ SendClear(t) \/ (SendAck(t) /\ ret[t]) => cur[t] \in DOMAIN mocaList
    BY <1>9, SendEffect DEF FlagsCleared
  <2>3. ASSUME NEW l \in {"send", "format", "ack", "clear"}, pc[t] \in SendPc,
               pc' = [pc EXCEPT ![t] = l], mutex' = mutex,
               \/ cur' = cur
               \/ l = "send" /\ cur' = [cur EXCEPT ![t] = NextNode(t)],
               cur[t] \in DOMAIN mocaList
        PROVE  SendWalksLiveNodes'
    <3>1. mutex' = t
      BY <2>3
    <3>2. \A u \in Thread : Held(u)' => u = t
      BY <2>3, <3>1 DEF TypeOK
    <3>3. pc'[t] = l /\ cur'[t] \in {cur[t], cur[t] + 1} /\ (l # "send" => cur'[t] = cur[t])
      BY <2>3 DEF TypeOK, NextNode
    <3> QED
      BY <1>0, <2>2, <2>3, <3>1, <3>2, <3>3
  <2>4. CASE SendSkip(t) \/ SendFormat(t) \/ SendCall(t) \/ SendAck(t) \/ SendClear(t)
    <3>1. cur[t] \in DOMAIN mocaList
      BY <1>0, <2>4, CursorLives DEF SendSkip, SendFormat, SendCall, SendAck, SendClear
    <3>2. /\ pc[t] \in SendPc /\ mutex' = mutex
          /\ \/ pc' = [pc EXCEPT ![t] = "send"] /\ cur' = [cur EXCEPT ![t] = NextNode(t)]
             \/ pc' = [pc EXCEPT ![t] = "format"] /\ cur' = cur
             \/ pc' = [pc EXCEPT ![t] = "ack"] /\ cur' = cur
             \/ pc' = [pc EXCEPT ![t] = "clear"] /\ cur' = cur
      BY <2>4 DEF SendSkip, SendFormat, SendCall, SendAck, SendClear, TypeOK
    <3> QED
      BY <2>3, <3>1, <3>2
  <2>6. CASE SendEnd(t)
    <3>1. \A u \in Thread : ~Held(u)'
      BY <2>6 DEF SendEnd, AfterSend, TypeOK
    <3> QED
      BY <3>1
  <2> QED
    BY <1>9, <2>1, <2>4, <2>6 DEF Send
<1>10. CASE CleanupMoCAList
  <2>1. \A t \in Thread : ~Held(t) /\ ~Held(t)'
    BY <1>10 DEF CleanupMoCAList, TypeOK
  <2> QED
    BY <2>1
<1>11. CASE Wake
  BY <1>1, <1>11 DEF Wake, TypeOK
<1>12. CASE PAMAnswers
  BY <1>1, <1>12 DEF PAMAnswers
<1>13. CASE HostSync
  BY <1>1, <1>13 DEF HostSync, TypeOK
<1>14. CASE AssocChange
  BY <1>1, <1>14 DEF AssocChange
<1>15. CASE Restart
  BY <1>15 DEF Restart, InitialPc
<1>16. CASE UNCHANGED vars
  BY <1>1, <1>16 DEF vars
<1> QED
  BY <1>2, <1>3, <1>4, <1>5, <1>6, <1>7, <1>8, <1>9, <1>10, <1>11, <1>12,
     <1>13, <1>14, <1>15, <1>16 DEF Next, SynchronizeMoCADevices, Environment

-----------------------------------------------------------------------------
(* One node per MAC: nothing is appended between a lookup that failed and   *)
(* the append it leads to, and every other step keeps the MACs.             *)
LEMMA ListStep ==
    ASSUME SafeInv, TypeOK', [Next]_vars
    PROVE  (UniqueMac /\ LookupInv /\ FoundNodeLives)'
<1> DEFINE ListInv == UniqueMac /\ LookupInv /\ FoundNodeLives
<1> USE DEF SafeInv, UniqueMac, LookupInv, FoundNodeLives
<1>0. DOMAIN mocaList = 1 .. Len(mocaList) /\ Len(mocaList) \in Nat
  BY LenProperties DEF TypeOK
<1>1. ASSUME DOMAIN mocaList' = DOMAIN mocaList,
             \A k \in DOMAIN mocaList :
                mocaList'[k].deviceMac = mocaList[k].deviceMac,
             pc'["sync"] \in WritePc => /\ pc["sync"] \in WritePc
                                        /\ device' = device /\ arr' = arr /\ i' = i,
             pc'["sync"] = "write" => pc["sync"] = "write"
      PROVE  ListInv'
  BY <1>1
<1>2. CASE PollCount
  BY <1>1, <1>2 DEF PollCount, TypeOK
<1>3. CASE PollTable
  BY <1>1, <1>3 DEF PollTable, TypeOK
<1>4. CASE SkipEntry
  BY <1>1, <1>4 DEF SkipEntry, TypeOK
<1>5. CASE FindDeviceInMoCAList
  <2>1. device' = Found(arr[i]) /\ mocaList' = mocaList /\ arr' = arr /\ i' = i
    BY <1>5 DEF FindDeviceInMoCAList
  <2>2. \/ Found(arr[i]) = 0 /\ \A k \in DOMAIN mocaList :
                                    mocaList[k].deviceMac # arr[i]
        \/ /\ Found(arr[i]) \in DOMAIN mocaList
           /\ mocaList[Found(arr[i])].deviceMac = arr[i]
    BY <1>5, ScannedEntry, FoundPosition
  <2> QED
    BY <1>0, <2>1, <2>2
<1>6. CASE AddDevice
  <2>1. arr[i] \in Device /\ \A k \in DOMAIN mocaList : mocaList[k].deviceMac # arr[i]
    BY <1>6 DEF AddDevice, ScanInv
  <2>2. /\ DOMAIN mocaList' = 1 .. Len(mocaList) + 1
        /\ \A k \in DOMAIN mocaList : mocaList'[k] = mocaList[k]
        /\ mocaList'[Len(mocaList) + 1].deviceMac = arr[i]
    <3> DEFINE new == [deviceMac |-> arr[i], Status |-> 1, Updated |-> TRUE,
                       StatusChange |-> TRUE, freed |-> {}]
    <3>1. new \in Node /\ mocaList \in Seq(Node) /\ new.deviceMac = arr[i]
      BY <2>1 DEF TypeOK
    <3>2. mocaList' = Append(mocaList, new)
      BY <1>6 DEF AddDevice
    <3> HIDE DEF new
    <3> QED
      BY <1>0, <3>1, <3>2, AppendProperties, LenProperties
  <2>3. UniqueMac'
    BY <1>0, <2>1, <2>2
  <2>4. pc'["sync"] = "online"
    BY <1>6 DEF AddDevice, TypeOK
  <2> QED
    BY <2>3, <2>4
<1>7. CASE UpdateDevice
  <2>1. NodeUpdated
    BY <1>7, UpdateEffect
  <2>2. /\ pc'["sync"] \in WritePc => device' = device /\ i' = i
        /\ pc'["sync"] # "write" /\ pc["sync"] \in WritePc
    BY <2>1, UpdateMoves DEF NodeUpdated
  <2>3. arr' = arr /\ DOMAIN mocaList' = DOMAIN mocaList
        /\ \A k \in DOMAIN mocaList : mocaList'[k].deviceMac = mocaList[k].deviceMac
    BY <2>1 DEF NodeUpdated
  <2> QED
    BY <1>1, <2>2, <2>3
<1>8. CASE Set_MoCADevices_Status_Offline
  <2>1. pc'["sync"] = "lock"
    BY <1>8 DEF Set_MoCADevices_Status_Offline, TypeOK
  <2> QED
    BY <1>1, <1>8, <2>1, OfflineKeeps
<1>9. ASSUME NEW t \in Thread, Send(t) PROVE ListInv'
  <2>1. /\ DOMAIN mocaList' = DOMAIN mocaList
        /\ \A k \in DOMAIN mocaList :
             mocaList'[k].deviceMac = mocaList[k].deviceMac
    BY <1>9, SendEffect DEF FlagsCleared
  <2>2. /\ device' = device /\ arr' = arr /\ i' = i
        /\ pc'["sync"] \in WritePc => pc'["sync"] = pc["sync"]
    BY <1>9, SendMoves
  <2> QED
    BY <1>1, <2>1, <2>2
<1>10. CASE CleanupMoCAList
  BY <1>10 DEF CleanupMoCAList, TypeOK
<1>11. CASE Wake
  BY <1>1, <1>11 DEF Wake, TypeOK
<1>12. CASE PAMAnswers
  BY <1>1, <1>12 DEF PAMAnswers
<1>13. CASE HostSync
  BY <1>1, <1>13 DEF HostSync, TypeOK
<1>14. CASE AssocChange
  BY <1>1, <1>14 DEF AssocChange
<1>15. CASE Restart
  BY <1>15 DEF Restart, InitialPc
<1>16. CASE UNCHANGED vars
  BY <1>1, <1>16 DEF vars
<1> QED
  BY <1>2, <1>3, <1>4, <1>5, <1>6, <1>7, <1>8, <1>9, <1>10, <1>11, <1>12,
     <1>13, <1>14, <1>15, <1>16 DEF Next, SynchronizeMoCADevices, Environment

-----------------------------------------------------------------------------

(* What the sync thread writes through the pointer without the mutex: the   *)
(* node stays online, whatever the bus thread does meanwhile, and its       *)
(* strings are whole again when the next entry's turn comes.                *)
LEMMA WriteStep ==
    ASSUME SafeInv, TypeOK', [Next]_vars
    PROVE  (WriteInv /\ StringsInv)'
<1> USE DEF SafeInv, WriteInv, StringsInv
<1>0. DOMAIN mocaList = 1 .. Len(mocaList) /\ Len(mocaList) \in Nat
  BY LenProperties DEF TypeOK
<1>1. ASSUME DOMAIN mocaList' = DOMAIN mocaList,
             \A k \in DOMAIN mocaList : /\ mocaList'[k].Status = mocaList[k].Status
                                        /\ mocaList'[k].freed = mocaList[k].freed,
             pc'["sync"] \in WritePc \/ pc["sync"] \in WritePc =>
                pc'["sync"] = pc["sync"] /\ device' = device
      PROVE  (WriteInv /\ StringsInv)'
  <2>1. pc'["sync"] \in WritePc \ {"write"} => device \in DOMAIN mocaList
    BY <1>1 DEF FoundNodeLives
  <2> QED
    BY <1>1, <2>1
<1>2. ASSUME mocaList' = mocaList, pc["sync"] \notin WritePc,
             pc'["sync"] \notin WritePc \ {"write"}
      PROVE  (WriteInv /\ StringsInv)'
  BY <1>2
<1>3. CASE PollCount \/ PollTable \/ SkipEntry \/ FindDeviceInMoCAList \/ Wake
  BY <1>2, <1>3 DEF PollCount, PollTable, SkipEntry, FindDeviceInMoCAList, Wake, TypeOK
<1>4. CASE AddDevice
  <2> DEFINE new == [deviceMac |-> arr[i], Status |-> 1, Updated |-> TRUE,
                     StatusChange |-> TRUE, freed |-> {}]
  <2>1. new \in Node /\ mocaList \in Seq(Node) /\ new.freed = {}
    BY <1>4 DEF AddDevice, ScanInv, TypeOK
  <2>2. mocaList' = Append(mocaList, new) /\ pc'["sync"] = "online" /\ pc["sync"] = "write"
    BY <1>4 DEF AddDevice, TypeOK
  <2> HIDE DEF new
  <2>3. \A k \in DOMAIN mocaList' : mocaList'[k].freed = {}
    <3>1. /\ DOMAIN mocaList' = 1 .. Len(mocaList) + 1
          /\ \A k \in DOMAIN mocaList : mocaList'[k] = mocaList[k]
          /\ mocaList'[Len(mocaList) + 1] = new
      BY <1>0, <2>1, <2>2, AppendProperties, LenProperties
    <3>2. \A k \in DOMAIN mocaList' : k \in DOMAIN mocaList \/ k = Len(mocaList) + 1
      BY <1>0, <3>1
    <3> QED
      BY <2>1, <2>2, <3>1, <3>2
  <2> QED
    BY <2>2, <2>3
<1>5. CASE UpdateDevice
  <2>1. NodeUpdated
    BY <1>5, UpdateEffect
  <2>2. WriteInv'
    <3>1. /\ pc'["sync"] \in WritePc \ {"write"} => device' = device
          /\ device # 0 /\ mocaList'[device].Status = 1
      BY <2>1, UpdateMoves DEF NodeUpdated
    <3> QED
      BY <3>1
  <2>3. \A k \in DOMAIN mocaList : k # device => mocaList'[k].freed = {}
    BY <2>1 DEF NodeUpdated
  <2>4. mocaList'[device].freed # {} => /\ pc["sync"] \in {"free", "freeType"}
                                        /\ device' = device
                                        /\ pc'["sync"] \in {"path", "type"}
    <3>1. mocaList'[device].freed # {} => pc["sync"] \in {"free", "freeType"}
      BY <2>1 DEF NodeUpdated
    <3> QED
      BY <2>1, <3>1, UpdateMoves
  <2>5. DOMAIN mocaList' = DOMAIN mocaList
    BY <2>1 DEF NodeUpdated
  <2> QED
    BY <2>2, <2>3, <2>4, <2>5
<1>6. CASE Set_MoCADevices_Status_Offline
  <2>1. /\ DOMAIN mocaList' = DOMAIN mocaList
        /\ \A k \in DOMAIN mocaList : mocaList'[k] = OfflineNode(mocaList[k])
    BY <1>6, OfflineKeeps
  <2>2. \A k \in DOMAIN mocaList : OfflineNode(mocaList[k]).freed = mocaList[k].freed
    BY ListOfNodes DEF OfflineNode, TypeOK
  <2>3. pc["sync"] = "offline" /\ pc'["sync"] = "lock"
    BY <1>6 DEF Set_MoCADevices_Status_Offline, TypeOK
  <2> QED
    BY <2>1, <2>2, <2>3
<1>7. ASSUME NEW t \in Thread, Send(t) PROVE (WriteInv /\ StringsInv)'
  <2>1. /\ DOMAIN mocaList' = DOMAIN mocaList
        /\ \A k \in DOMAIN mocaList : /\ mocaList'[k].Status = mocaList[k].Status
                                      /\ mocaList'[k].freed = mocaList[k].freed
    BY <1>7, SendEffect DEF FlagsCleared
  <2>2. /\ device' = device
        /\ pc'["sync"] \in WritePc \/ pc["sync"] \in WritePc => pc'["sync"] = pc["sync"]
    BY <1>7, SendMoves
  <2> QED
    BY <1>1, <2>1, <2>2
<1>8. CASE CleanupMoCAList \/ Restart
  <2>1. DOMAIN mocaList' = {} /\ pc'["sync"] \in {"sleep", "poll"}
    BY <1>8 DEF CleanupMoCAList, Restart, InitialPc, TypeOK
  <2> QED
    BY <2>1
<1>9. CASE PAMAnswers \/ HostSync \/ AssocChange \/ UNCHANGED vars
  <2>1. mocaList' = mocaList /\ device' = device /\ pc'["sync"] = pc["sync"]
    BY <1>9 DEF PAMAnswers, HostSync, AssocChange, vars, TypeOK
  <2> QED
    BY <1>1, <2>1
<1> QED
  BY <1>3, <1>4, <1>5, <1>6, <1>7, <1>8, <1>9
  DEF Next, SynchronizeMoCADevices, Environment

-----------------------------------------------------------------------------
(* SafeInv is inductive. *)
LEMMA SafeInit ==
    ASSUME Init
    PROVE  SafeInv
<1>1. TypeOK
  <2>1. /\ assoc \in Seq(Device) /\ mocaList \in Seq(Node)
        /\ arr \in Seq(Device \cup {Zero})
    BY DEF Init
  <2>2. /\ pc \in [Thread -> SyncPc \cup BusPc]
        /\ pc["sync"] \in SyncPc /\ pc["bus"] \in BusPc
    BY DEF Init, InitialPc
  <2>3. lmlite \in [Device -> {0, 1}] /\ used \in [Fault -> Nat]
        /\ cur \in [Thread -> Nat] /\ ret \in [Thread -> BOOLEAN]
        /\ line \in [Thread -> {0, 1}]
    BY DEF Init
  <2> QED
    BY <2>1, <2>2, <2>3 DEF Init, TypeOK
<1>2. mocaList = << >> /\ DOMAIN mocaList = {} /\ pc["sync"] = "poll"
      /\ \A t \in Thread : ~Held(t)
  BY LenProperties DEF Init, InitialPc, Held
<1> QED
  BY <1>1, <1>2 DEF SafeInv, ScanInv, SendWalksLiveNodes, UniqueMac, LookupInv,
                    FoundNodeLives, WriteInv, StringsInv

(* Every step keeps the safety invariant ... *)
LEMMA SafeStep ==
    ASSUME SafeInv, [Next]_vars
    PROVE  SafeInv'
<1>1. TypeOK'
  <2>1. CASE SynchronizeMoCADevices
    BY <2>1, SyncTyped
  <2>2. CASE Send("bus")
    BY <2>2, SendTyped
  <2>3. CASE Environment
    BY <2>3, EnvironmentTyped
  <2>4. CASE UNCHANGED vars
    BY <2>4 DEF vars, SafeInv, TypeOK
  <2> QED
    BY <2>1, <2>2, <2>3, <2>4 DEF Next
<1>2. ScanInv'
  BY <1>1, ScanStep
<1>3. SendWalksLiveNodes'
  BY <1>1, WalkStep
<1>4. (UniqueMac /\ LookupInv /\ FoundNodeLives)'
  BY <1>1, ListStep
<1>5. (WriteInv /\ StringsInv)'
  BY <1>1, WriteStep
<1> QED
  BY <1>1, <1>2, <1>3, <1>4, <1>5 DEF SafeInv

(* ... which therefore always holds. *)
LEMMA Safe == Spec => []SafeInv
<1>1. Init => SafeInv
  BY SafeInit
<1>2. SafeInv /\ [Next]_vars => SafeInv'
  BY SafeStep
<1> QED
  BY <1>1, <1>2, PTL DEF Spec

(* Every variable keeps its type: the index and the count of the poll are   *)
(* naturals, the list holds well-formed nodes, a thread is at a point of    *)
(* its own code.                                                            *)
THEOREM TypeCorrect == Spec => []TypeOK
<1>1. SafeInv => TypeOK
  BY DEF SafeInv
<1> QED
  BY <1>1, Safe, PTL

(* add_to_moca_list never adds a second node for a MAC. *)
THEOREM NodesAreUnique == Spec => []UniqueMac
<1>1. SafeInv => UniqueMac
  BY DEF SafeInv
<1> QED
  BY <1>1, Safe, PTL

(* Set_MoCADevices_Status_Online writes only to a node of the list, and to  *)
(* that of its own MAC, although it does so without the mutex and write by  *)
(* write; Send_Update_to_LMLite never follows a freed node, nor are two     *)
(* threads ever inside; and a string of the node that Send formats is given *)
(* back only when the node is the very one that comes back.                 *)
THEOREM NodesAreLive == Spec => []NodesLiveWhileUsed
<1>1. SafeInv => NodesLiveWhileUsed
  <2>1. ASSUME SafeInv, NEW t \in Thread, ~LiveStrings(t)
        PROVE  t = "bus" /\ pc["sync"] \in {"path", "type"} /\ device = cur[t]
    <3>1. pc[t] = "format" /\ mocaList[cur[t]].freed # {}
      BY <2>1 DEF LiveStrings
    <3>2. cur[t] \in DOMAIN mocaList
      BY <2>1, <3>1 DEF SafeInv, SendWalksLiveNodes, Held
    <3> QED
      BY <2>1, <3>1, <3>2 DEF SafeInv, StringsInv
  <2> QED
    BY <2>1 DEF SafeInv, NodesLiveWhileUsed, StringsLiveUnlessBack
<1> QED
  BY <1>1, Safe, PTL

-----------------------------------------------------------------------------
(* LM Lite and departures.  A line that is formatted from an offline node   *)
(* says offline, once it was acknowledged LM Lite knows, and so it does     *)
(* when the node's StatusChange is cleared.                                 *)
AckInv ==
    \A t \in Thread : Held(t) /\ pc[t] # "send" /\ mocaList[cur[t]].Status = 0 =>
        /\ pc[t] = "format" => line[t] = 0
        /\ pc[t] = "ack" /\ ret[t] => lmlite[mocaList[cur[t]].deviceMac] = 0
        /\ pc[t] = "clear" => lmlite[mocaList[cur[t]].deviceMac] = 0

(* A node of a device that LM Lite holds online is online itself, or its    *)
(* change is still to be reported.                                          *)
ToldInv ==
    \A k \in DOMAIN mocaList : lmlite[mocaList[k].deviceMac] = 1 =>
        mocaList[k].Status = 1 \/ mocaList[k].StatusChange

(* AddDevice appends an online node to the list. *)
LEMMA AddAppends ==
    ASSUME SafeInv, AddDevice
    PROVE  /\ DOMAIN mocaList' = 1 .. Len(mocaList) + 1
           /\ DOMAIN mocaList = 1 .. Len(mocaList) /\ Len(mocaList) \in Nat
           /\ \A k \in DOMAIN mocaList : mocaList'[k] = mocaList[k]
           /\ mocaList'[Len(mocaList) + 1].deviceMac = arr[i]
           /\ mocaList'[Len(mocaList) + 1].Status = 1
           /\ mocaList'[Len(mocaList) + 1].Updated
           /\ mocaList'[Len(mocaList) + 1].StatusChange
<1> DEFINE new == [deviceMac |-> arr[i], Status |-> 1, Updated |-> TRUE,
                   StatusChange |-> TRUE, freed |-> {}]
<1>0. DOMAIN mocaList = 1 .. Len(mocaList) /\ Len(mocaList) \in Nat
  BY LenProperties DEF SafeInv, TypeOK
<1>1. /\ new \in Node /\ mocaList \in Seq(Node) /\ new.Status = 1
      /\ new.deviceMac = arr[i] /\ new.Updated /\ new.StatusChange
  BY DEF AddDevice, ScanInv, SafeInv, TypeOK
<1>2. mocaList' = Append(mocaList, new)
  BY DEF AddDevice
<1> HIDE DEF new
<1> QED
  BY <1>0, <1>1, <1>2, AppendProperties, LenProperties

(* What the bus call does to what LM Lite holds. *)
LEMMA CallEffect ==
    ASSUME SafeInv, NEW t \in Thread, SendCall(t)
    PROVE  LET node == mocaList[cur[t]]
           IN /\ cur[t] \in DOMAIN mocaList
              /\ node \in Node /\ node.deviceMac \in Device
              /\ \A d \in Device : d # node.deviceMac => lmlite'[d] = lmlite[d]
              /\ lmlite'[node.deviceMac] \in {lmlite[node.deviceMac], line[t]}
              /\ ret'[t] => lmlite'[node.deviceMac] = line[t]
              /\ ret'[t] \/ Spend("sendFail")
              /\ ret'[t] \in BOOLEAN
              /\ Spend("sendFail") \/ used' = used
              /\ pc[t] = "format" /\ pc'[t] = "ack"
              /\ UNCHANGED <<mocaList, mutex, cur, line>>
<1> USE DEF SafeInv
<1> DEFINE mac == mocaList[cur[t]].deviceMac
<1>1. /\ cur[t] \in DOMAIN mocaList /\ mocaList[cur[t]] \in Node /\ mac \in Device
  BY CursorLives, ListOfNodes DEF SendCall, TypeOK
<1>2. PICK delivered \in BOOLEAN, acknowledged \in BOOLEAN :
        /\ acknowledged => delivered
        /\ IF acknowledged THEN UNCHANGED used ELSE Spend("sendFail")
        /\ lmlite' = IF delivered THEN [lmlite EXCEPT ![mac] = line[t]] ELSE lmlite
        /\ ret' = [ret EXCEPT ![t] = acknowledged]
  BY DEF SendCall
<1> HIDE DEF mac
<1>3. /\ \A d \in Device : d # mac => lmlite'[d] = lmlite[d]
      /\ lmlite'[mac] = IF delivered THEN line[t] ELSE lmlite[mac]
      /\ ret'[t] = acknowledged
  BY <1>1, <1>2 DEF TypeOK
<1>4. /\ pc[t] = "format" /\ pc'[t] = "ack"
      /\ UNCHANGED <<mocaList, mutex, cur, line>>
  BY DEF SendCall, TypeOK
<1> QED
  BY <1>1, <1>2, <1>3, <1>4 DEF mac

(* Only Send and HostSync change what LM Lite holds; HostSync makes it      *)
(* forget.                                                                  *)
LEMMA LMLiteKept ==
    ASSUME [Next]_vars, ~SendCall("sync"), ~SendCall("bus")
    PROVE  /\ ~HostSync => lmlite' = lmlite
           /\ \A d \in Device : lmlite[d] = 0 => lmlite'[d] = 0
<1>0. CASE HostSync
  BY <1>0 DEF HostSync
<1>1. CASE PollCount \/ PollTable \/ SkipEntry \/ FindDeviceInMoCAList \/ AddDevice
  BY <1>1 DEF PollCount, PollTable, SkipEntry, FindDeviceInMoCAList, AddDevice
<1>2. CASE UpdateDevice \/ Set_MoCADevices_Status_Offline \/ CleanupMoCAList \/ Wake
  BY <1>2 DEF UpdateDevice, Write, Set_MoCADevices_Status_Offline, CleanupMoCAList, Wake
<1>3. CASE Send("sync") \/ Send("bus")
  BY <1>3 DEF Send, SendLock, SendSkip, SendFormat, SendAck, SendClear, SendEnd
<1>4. CASE PAMAnswers \/ AssocChange \/ Restart \/ UNCHANGED vars
  BY <1>4 DEF PAMAnswers, AssocChange, Restart, vars
<1> QED
  BY <1>0, <1>1, <1>2, <1>3, <1>4 DEF Next, SynchronizeMoCADevices, Environment

(* Whoever steps in Send has, or gets, the mutex; nobody else is inside.    *)
LEMMA SendAlone ==
    ASSUME SafeInv, NEW t \in Thread, Send(t), NEW u \in Thread, u # t
    PROVE  ~Held(u) /\ pc'[u] = pc[u]
<1>1. CASE SendLock(t)
  BY <1>1, SendMoves DEF SendLock, SafeInv, SendWalksLiveNodes
<1>2. CASE ~SendLock(t)
  <2>1. Held(t)
    BY <1>2 DEF Send, SendSkip, SendFormat, SendCall, SendAck, SendClear, SendEnd, Held
  <2> QED
    BY <2>1, SendMoves DEF SafeInv, SendWalksLiveNodes
<1> QED
  BY <1>1, <1>2

(* Whoever is in Send holds the mutex, so only his own steps, the writes of *)
(* Online, which bring a node online, and a HostSync, which makes LM Lite   *)
(* forget, happen meanwhile.                                                *)
LEMMA AckStep ==
    ASSUME SafeInv, SafeInv', AckInv, [Next]_vars
    PROVE  AckInv'
<1> USE DEF SafeInv
<1>0. /\ DOMAIN mocaList = 1 .. Len(mocaList)
      /\ \A k \in DOMAIN mocaList : mocaList[k] \in Node /\ mocaList[k].deviceMac \in Device
      /\ \A u \in Thread : Held(u) /\ pc[u] # "send" => cur[u] \in DOMAIN mocaList
  BY ListOfNodes DEF TypeOK, SendWalksLiveNodes
<1>1. ASSUME DOMAIN mocaList' = DOMAIN mocaList,
             \A k \in DOMAIN mocaList :
                /\ mocaList'[k].deviceMac = mocaList[k].deviceMac
                /\ mocaList'[k].Status = 0 => mocaList[k].Status = 0,
             \A d \in Device : lmlite[d] = 0 => lmlite'[d] = 0,
             cur' = cur, line' = line, ret' = ret,
             \A u \in Thread : Held(u)' => pc'[u] = pc[u]
      PROVE  AckInv'
  <2>1. SUFFICES ASSUME NEW u \in Thread, Held(u), pc[u] # "send", pc'[u] = pc[u],
                        mocaList'[cur[u]].Status = 0
                 PROVE  /\ pc[u] = "format" => line[u] = 0
                        /\ pc[u] = "ack" /\ ret[u] => lmlite'[mocaList'[cur[u]].deviceMac] = 0
                        /\ pc[u] = "clear" => lmlite'[mocaList'[cur[u]].deviceMac] = 0
    BY <1>1 DEF AckInv, Held
  <2>2. cur[u] \in DOMAIN mocaList
    BY <1>0, <2>1
  <2> QED
    BY <1>0, <1>1, <2>1, <2>2 DEF AckInv
<1>2. ASSUME NEW t \in Thread, Send(t)
      PROVE  AckInv'
  <2>1. SUFFICES ASSUME Held(t)', pc'[t] # "send", mocaList'[cur'[t]].Status = 0
                 PROVE  /\ pc'[t] = "format" => line'[t] = 0
                        /\ pc'[t] = "ack" /\ ret'[t] =>
                             lmlite'[mocaList'[cur'[t]].deviceMac] = 0
                        /\ pc'[t] = "clear" => lmlite'[mocaList'[cur'[t]].deviceMac] = 0
    BY <1>2, SendAlone DEF AckInv, Held
  <2>2. CASE SendFormat(t)
    BY <2>1, <2>2 DEF SendFormat, TypeOK
  <2>3. CASE SendCall(t)
    <3> DEFINE mac == mocaList[cur[t]].deviceMac
    <3>1. /\ ret'[t] => lmlite'[mac] = line[t]
          /\ pc[t] = "format" /\ pc'[t] = "ack"
          /\ UNCHANGED <<mocaList, mutex, cur, line>>
      BY <2>3, CallEffect
    <3>2. line[t] = 0
      BY <2>1, <3>1 DEF AckInv, Held
    <3> QED
      BY <3>1, <3>2
  <2>4. CASE SendAck(t)
    <3>1. pc'[t] = "clear" /\ cur' = cur /\ lmlite' = lmlite /\ pc[t] = "ack" /\ ret[t]
      BY <2>1, <2>4 DEF SendAck, Success, TypeOK
    <3>2. /\ mocaList'[cur[t]].Status = mocaList[cur[t]].Status
          /\ mocaList'[cur[t]].deviceMac = mocaList[cur[t]].deviceMac
      BY <1>0, <1>2, <3>1, SendEffect DEF FlagsCleared, Held
    <3> QED
      BY <2>1, <3>1, <3>2 DEF AckInv, Held
  <2>5. CASE SendLock(t) \/ SendSkip(t) \/ SendClear(t)
    BY <2>1, <2>5 DEF SendLock, SendSkip, SendClear, TypeOK
  <2>6. CASE SendEnd(t)
    BY <2>1, <2>6 DEF SendEnd, AfterSend, Held, TypeOK
  <2> QED
    BY <1>2, <2>2, <2>3, <2>4, <2>5, <2>6 DEF Send
<1>3. CASE UpdateDevice
  <2>1. NodeUpdated
    BY <1>3, UpdateEffect
  <2>2. /\ DOMAIN mocaList' = DOMAIN mocaList
        /\ \A k \in DOMAIN mocaList :
             /\ mocaList'[k].deviceMac = mocaList[k].deviceMac
             /\ mocaList'[k].Status = 0 => mocaList[k].Status = 0
        /\ lmlite' = lmlite /\ cur' = cur /\ line' = line /\ ret' = ret
    BY <2>1 DEF NodeUpdated
  <2>3. \A u \in Thread : Held(u)' => pc'[u] = pc[u]
    BY <2>1, UpdateMoves DEF Held
  <2> QED
    BY <1>1, <2>2, <2>3
<1>4. CASE AddDevice \/ Set_MoCADevices_Status_Offline \/ CleanupMoCAList \/ Restart
  <2>1. \A u \in Thread : ~Held(u)'
    <3>1. CASE Restart
      BY <3>1 DEF Restart, InitialPc, Held
    <3>2. CASE AddDevice \/ Set_MoCADevices_Status_Offline \/ CleanupMoCAList
      <4>1. /\ mutex = "none" /\ pc'["bus"] = pc["bus"]
            /\ pc'["sync"] \in {"online", "lock", "sleep"}
        BY <3>2 DEF AddDevice, Set_MoCADevices_Status_Offline, CleanupMoCAList, TypeOK
      <4> QED
        BY <4>1 DEF Held, SendWalksLiveNodes
    <3> QED
      BY <1>4, <3>1, <3>2
  <2> QED
    BY <2>1 DEF AckInv
<1>5. CASE PollCount \/ PollTable \/ SkipEntry \/ FindDeviceInMoCAList \/ Wake
  <2>1. /\ mocaList' = mocaList /\ cur' = cur /\ line' = line /\ ret' = ret /\ lmlite' = lmlite
        /\ \A u \in Thread : Held(u)' => pc'[u] = pc[u]
    BY <1>5 DEF PollCount, PollTable, SkipEntry, FindDeviceInMoCAList, Wake, TypeOK, Held
  <2> QED
    BY <1>1, <2>1
<1>6. CASE PAMAnswers \/ AssocChange \/ HostSync \/ UNCHANGED vars
  <2>1. /\ mocaList' = mocaList /\ cur' = cur /\ line' = line /\ ret' = ret
        /\ \A u \in Thread : Held(u)' => pc'[u] = pc[u]
    BY <1>6 DEF PAMAnswers, AssocChange, HostSync, vars, TypeOK, Held
  <2>2. \A d \in Device : lmlite[d] = 0 => lmlite'[d] = 0
    BY <1>6 DEF PAMAnswers, AssocChange, HostSync, vars
  <2> QED
    BY <1>1, <2>1, <2>2
<1> QED
  BY <1>2, <1>3, <1>4, <1>5, <1>6 DEF Next, SynchronizeMoCADevices, Environment

(* Every step keeps ToldInv: a node goes offline together with a change to  *)
(* report, and the change is forgotten only when LM Lite knows.             *)
LEMMA ToldStep ==
    ASSUME SafeInv, SafeInv', AckInv, ToldInv, [Next]_vars
    PROVE  ToldInv'
<1> USE DEF SafeInv
<1>0. /\ DOMAIN mocaList = 1 .. Len(mocaList)
      /\ \A k \in DOMAIN mocaList : mocaList[k] \in Node /\ mocaList[k].deviceMac \in Device
      /\ lmlite \in [Device -> {0, 1}] /\ lmlite' \in [Device -> {0, 1}]
  BY ListOfNodes DEF TypeOK
<1>1. ASSUME DOMAIN mocaList' = DOMAIN mocaList,
             \A k \in DOMAIN mocaList :
                /\ mocaList'[k].deviceMac = mocaList[k].deviceMac
                /\ \/ mocaList'[k].Status = 1 \/ mocaList'[k].StatusChange
                   \/ ~(mocaList[k].Status = 1 \/ mocaList[k].StatusChange),
             \A d \in Device : lmlite[d] = 0 => lmlite'[d] = 0
      PROVE  ToldInv'
  <2>1. \A d \in Device : lmlite'[d] = 1 => lmlite[d] = 1
    BY <1>0, <1>1
  <2> QED
    BY <1>0, <1>1, <2>1 DEF ToldInv
<1>2. ASSUME NEW t \in Thread, SendCall(t)
      PROVE  ToldInv'
  <2> DEFINE mac == mocaList[cur[t]].deviceMac
  <2>1. /\ cur[t] \in DOMAIN mocaList /\ mac \in Device /\ mocaList[cur[t]] \in Node
        /\ \A d \in Device : d # mac => lmlite'[d] = lmlite[d]
        /\ lmlite'[mac] \in {lmlite[mac], line[t]}
        /\ pc[t] = "format" /\ mocaList' = mocaList
    BY <1>2, CallEffect
  <2>2. line[t] = 1 => mocaList[cur[t]].Status = 1
    BY <2>1 DEF AckInv, Held
  <2>3. SUFFICES ASSUME NEW k \in DOMAIN mocaList, lmlite'[mocaList[k].deviceMac] = 1
                 PROVE  mocaList[k].Status = 1 \/ mocaList[k].StatusChange
    BY <2>1 DEF ToldInv
  <2>4. CASE mocaList[k].deviceMac = mac
    <3>1. k = cur[t]
      BY <2>1, <2>4 DEF UniqueMac
    <3> QED
      BY <2>1, <2>2, <2>3, <3>1 DEF ToldInv
  <2>5. CASE mocaList[k].deviceMac # mac
    <3>1. lmlite'[mocaList[k].deviceMac] = lmlite[mocaList[k].deviceMac]
      BY <1>0, <2>1, <2>5
    <3> QED
      BY <2>3, <3>1 DEF ToldInv
  <2> QED
    BY <2>4, <2>5
<1>3. ASSUME ~SendCall("sync"), ~SendCall("bus")
      PROVE  ToldInv'
  <2>0. \A d \in Device : lmlite[d] = 0 => lmlite'[d] = 0
    BY <1>3, LMLiteKept
  <2>1. ASSUME NEW t \in Thread, Send(t), pc[t] # "clear" PROVE ToldInv'
    <3>1. /\ DOMAIN mocaList' = DOMAIN mocaList
          /\ \A k \in DOMAIN mocaList :
               /\ mocaList'[k].deviceMac = mocaList[k].deviceMac
               /\ mocaList'[k].Status = mocaList[k].Status
               /\ mocaList'[k].StatusChange = mocaList[k].StatusChange
      BY <2>1, SendEffect DEF FlagsCleared
    <3> QED
      BY <1>1, <2>0, <3>1
  <2>2. ASSUME NEW t \in Thread, Send(t), pc[t] = "clear" PROVE ToldInv'
    <3>1. /\ DOMAIN mocaList' = DOMAIN mocaList
          /\ \A k \in DOMAIN mocaList :
               /\ mocaList'[k].deviceMac = mocaList[k].deviceMac
               /\ mocaList'[k].Status = mocaList[k].Status
               /\ k # cur[t] => mocaList'[k] = mocaList[k]
      BY <2>2, SendEffect DEF FlagsCleared
    <3>2. SUFFICES ASSUME NEW k \in DOMAIN mocaList, lmlite'[mocaList[k].deviceMac] = 1
                   PROVE  mocaList'[k].Status = 1 \/ mocaList'[k].StatusChange
      BY <3>1 DEF ToldInv
    <3>3. lmlite[mocaList[k].deviceMac] = 1
      BY <1>0, <2>0, <3>2
    <3>4. CASE k = cur[t]
      BY <1>0, <2>2, <3>1, <3>3, <3>4 DEF AckInv, Held
    <3>5. CASE k # cur[t]
      BY <3>1, <3>3, <3>5 DEF ToldInv
    <3> QED
      BY <3>4, <3>5
  <2>3. CASE UpdateDevice
    <3>1. NodeUpdated
      BY <2>3, UpdateEffect
    <3>2. /\ DOMAIN mocaList' = DOMAIN mocaList
          /\ \A k \in DOMAIN mocaList : k # device => mocaList'[k] = mocaList[k]
          /\ \A k \in DOMAIN mocaList : mocaList'[k].deviceMac = mocaList[k].deviceMac
      BY <3>1 DEF NodeUpdated
    <3>3. \/ mocaList'[device].Status = 1 \/ mocaList'[device].StatusChange
          \/ ~(mocaList[device].Status = 1 \/ mocaList[device].StatusChange)
      BY <3>1 DEF NodeUpdated
    <3> QED
      BY <1>1, <2>0, <3>2, <3>3
  <2>4. CASE AddDevice
    <3>1. /\ DOMAIN mocaList' = 1 .. Len(mocaList) + 1
          /\ DOMAIN mocaList = 1 .. Len(mocaList) /\ Len(mocaList) \in Nat
          /\ \A k \in DOMAIN mocaList : mocaList'[k] = mocaList[k]
          /\ mocaList'[Len(mocaList) + 1].Status = 1
      BY <2>4, AddAppends
    <3>2. \A k \in DOMAIN mocaList' : k \in DOMAIN mocaList \/ k = Len(mocaList) + 1
      BY <3>1
    <3>3. lmlite' = lmlite
      BY <2>4 DEF AddDevice
    <3> QED
      BY <3>1, <3>2, <3>3 DEF ToldInv
  <2>5. CASE Set_MoCADevices_Status_Offline
    <3>1. \A k \in DOMAIN mocaList :
            \/ OfflineNode(mocaList[k]).StatusChange
            \/ OfflineNode(mocaList[k]) = mocaList[k]
      BY <1>0 DEF OfflineNode
    <3> QED
      BY <1>1, <2>0, <2>5, <3>1, OfflineKeeps
  <2>6. CASE CleanupMoCAList \/ Restart
    <3>1. DOMAIN mocaList' = {}
      BY <2>6 DEF CleanupMoCAList, Restart
    <3> QED
      BY <3>1 DEF ToldInv
  <2>7. CASE PollCount \/ PollTable \/ SkipEntry \/ FindDeviceInMoCAList \/ Wake
    <3>1. mocaList' = mocaList
      BY <2>7 DEF PollCount, PollTable, SkipEntry, FindDeviceInMoCAList, Wake
    <3> QED
      BY <1>1, <2>0, <3>1
  <2>8. CASE PAMAnswers \/ AssocChange \/ HostSync \/ UNCHANGED vars
    <3>1. mocaList' = mocaList
      BY <2>8 DEF PAMAnswers, AssocChange, HostSync, vars
    <3> QED
      BY <1>1, <2>0, <3>1
  <2> QED
    BY <2>1, <2>2, <2>3, <2>4, <2>5, <2>6, <2>7, <2>8
    DEF Next, SynchronizeMoCADevices, Environment
<1> QED
  BY <1>2, <1>3

-----------------------------------------------------------------------------
(* The counters of the environment grow. *)
LEMMA UsedAfter ==
    ASSUME SafeInv, [Next]_vars
    PROVE  used' = used \/ \E f \in Fault : Spend(f)
<1>1. CASE PollCount \/ PollTable \/ AssocChange \/ Restart
  <2>1. used' = used \/ \E f \in {"halFail", "change", "restart"} : Spend(f)
    BY <1>1 DEF PollCount, PollTable, AssocChange, Restart
  <2> QED
    BY <2>1
<1>2. CASE HostSync
  <2>1. \E f \in {"hostSync", "lmRestart"} : Spend(f)
    BY <1>2 DEF HostSync
  <2> QED
    BY <2>1
<1>3. ASSUME NEW t \in Thread, Send(t)
      PROVE  used' = used \/ \E f \in Fault : Spend(f)
  <2>1. used' = used \/ Spend("sendFail")
    BY <1>3 DEF Send, SendLock, SendSkip, SendFormat, SendCall, SendAck, SendClear, SendEnd
  <2> QED
    BY <2>1
<1>4. CASE SkipEntry \/ FindDeviceInMoCAList \/ AddDevice \/ UpdateDevice
  BY <1>4 DEF SkipEntry, FindDeviceInMoCAList, AddDevice, UpdateDevice, Write
<1>5. CASE Set_MoCADevices_Status_Offline \/ CleanupMoCAList \/ Wake
  BY <1>5 DEF Set_MoCADevices_Status_Offline, CleanupMoCAList, Wake
<1>6. CASE PAMAnswers \/ UNCHANGED vars
  BY <1>6 DEF PAMAnswers, vars
<1> QED
  BY <1>1, <1>2, <1>3, <1>4, <1>5, <1>6 DEF Next, SynchronizeMoCADevices, Environment

LEMMA UsedGrows ==
    ASSUME SafeInv, [Next]_vars
    PROVE  \A f \in Fault : used[f] \in Nat /\ used'[f] \in Nat /\ used[f] <= used'[f]
<1>1. used \in [Fault -> Nat]
  BY DEF SafeInv, TypeOK
<1>2. ASSUME NEW g \in Fault, Spend(g)
      PROVE  \A f \in Fault : used[f] \in Nat /\ used'[f] \in Nat /\ used[f] <= used'[f]
  <2>1. used' = [used EXCEPT ![g] = @ + 1]
    BY <1>2 DEF Spend
  <2> HIDE DEF Fault
  <2> QED
    BY <1>1, <2>1
<1> QED
  BY <1>1, <1>2, UsedAfter

(* As long as every report is acknowledged and the agent runs.              *)
Calm == used["restart"] = 0 /\ used["sendFail"] = 0

Reported(node) == ~node.Updated /\ ~node.StatusChange

ListedInv ==
    \A d \in Device :
        lmlite[d] = 1 => \E k \in DOMAIN mocaList : mocaList[k].deviceMac = d

(* Then Send leaves every node reported behind it, a round without a table  *)
(* takes every node offline and reports it, and the list that is freed      *)
(* holds nothing LM Lite still waits for.                                   *)
CalmPhases ==
    /\ pc["sync"] \in {"poll", "table", "cleanup", "sleep"} =>
            \A k \in DOMAIN mocaList : Reported(mocaList[k])
    /\ pc["sync"] \in {"table", "online"} \cup WritePc => ulCount # 0
    /\ pc["sync"] = "offline" /\ ulCount = 0 =>
            \A k \in DOMAIN mocaList : Reported(mocaList[k])
    /\ pc["sync"] \in {"lock", "cleanup"} \cup SendPc /\ ulCount = 0 =>
            \A k \in DOMAIN mocaList : mocaList[k].Status = 0
    /\ pc["sync"] = "cleanup" => ulCount = 0

CalmSend ==
    /\ pc["sync"] \in SendPc =>
            \A k \in DOMAIN mocaList : k < cur["sync"] => Reported(mocaList[k])
    /\ pc["sync"] = "ack" => ret["sync"]
    /\ pc["sync"] = "clear" => ~mocaList[cur["sync"]].Updated

CalmInv == Calm => ListedInv /\ CalmPhases /\ CalmSend

LEMMA CalmBefore ==
    ASSUME SafeInv, [Next]_vars, Calm'
    PROVE  Calm /\ ~Restart /\ ~Spend("sendFail")
<1>1. /\ used["restart"] \in Nat /\ used["restart"] <= used'["restart"]
      /\ used["sendFail"] \in Nat /\ used["sendFail"] <= used'["sendFail"]
      /\ used'["restart"] = 0 /\ used'["sendFail"] = 0
  BY UsedGrows DEF Calm
<1>2. ASSUME NEW g \in {"restart", "sendFail"}, Spend(g) PROVE FALSE
  <2>1. used' = [used EXCEPT ![g] = @ + 1] /\ used \in [Fault -> Nat] /\ g \in Fault
    BY <1>2 DEF Spend, SafeInv, TypeOK
  <2>2. used'[g] = used[g] + 1
    BY <2>1
  <2> QED
    BY <1>1, <2>2
<1> QED
  BY <1>1, <1>2 DEF Calm, Restart

(* The steps of the sync thread outside Send. *)
LEMMA CalmRound ==
    ASSUME SafeInv, SafeInv', ToldInv, ListedInv, CalmPhases, [Next]_vars,
           \A t \in Thread : ~Send(t), ~Restart, ~Environment, ~UNCHANGED vars
    PROVE  (ListedInv /\ CalmPhases /\ CalmSend)'
<1> USE DEF SafeInv
<1>0. /\ DOMAIN mocaList = 1 .. Len(mocaList) /\ Len(mocaList) \in Nat
      /\ \A k \in DOMAIN mocaList : mocaList[k] \in Node
      /\ ulCount \in Nat /\ i \in Nat
  BY ListOfNodes DEF TypeOK
<1>1. lmlite' = lmlite
  <2>1. ~HostSync /\ ~SendCall("sync") /\ ~SendCall("bus")
    BY DEF Environment, Send
  <2> QED
    BY <2>1, LMLiteKept
<1>2. CASE PollCount
  <2>1. /\ mocaList' = mocaList /\ pc["sync"] = "poll"
        /\ \/ pc'["sync"] = "table" /\ ulCount' # 0
           \/ pc'["sync"] = "offline"
    <3>1. assoc # << >> => Len(assoc) # 0
      BY EmptySeq DEF TypeOK
    <3> QED
      BY <1>2, <3>1 DEF PollCount, TypeOK
  <2> QED
    BY <1>1, <2>1 DEF ListedInv, CalmPhases, CalmSend
<1>3. CASE PollTable
  <2>1. /\ mocaList' = mocaList /\ pc["sync"] = "table"
        /\ \/ pc'["sync"] = "online" /\ ulCount' = ulCount
           \/ pc'["sync"] = "offline"
    BY <1>3 DEF PollTable, TypeOK
  <2> QED
    BY <1>1, <2>1 DEF ListedInv, CalmPhases, CalmSend
<1>4. CASE SkipEntry \/ FindDeviceInMoCAList
  <2>1. /\ mocaList' = mocaList /\ ulCount' = ulCount
        /\ pc["sync"] = "online" /\ pc'["sync"] \in {"online", "write", "offline"}
    BY <1>4 DEF SkipEntry, FindDeviceInMoCAList, TypeOK
  <2> QED
    BY <1>1, <2>1 DEF ListedInv, CalmPhases, CalmSend
<1>5. CASE AddDevice
  <2>1. /\ DOMAIN mocaList \subseteq DOMAIN mocaList'
        /\ \A k \in DOMAIN mocaList : mocaList'[k] = mocaList[k]
    BY <1>0, <1>5, AddAppends
  <2>2. ulCount' = ulCount /\ pc["sync"] = "write" /\ pc'["sync"] = "online"
    BY <1>5 DEF AddDevice, TypeOK
  <2> QED
    BY <1>1, <2>1, <2>2 DEF ListedInv, CalmPhases, CalmSend
<1>6. CASE UpdateDevice
  <2>1. NodeUpdated
    BY <1>6, UpdateEffect
  <2>2. /\ DOMAIN mocaList' = DOMAIN mocaList /\ ulCount' = ulCount
        /\ \A k \in DOMAIN mocaList : mocaList'[k].deviceMac = mocaList[k].deviceMac
        /\ pc["sync"] \in WritePc
    BY <2>1 DEF NodeUpdated
  <2>3. pc'["sync"] \in {"online"} \cup WritePc
    BY <2>1, UpdateMoves
  <2> QED
    BY <1>1, <2>2, <2>3 DEF ListedInv, CalmPhases, CalmSend
<1>7. CASE Set_MoCADevices_Status_Offline
  <2>1. /\ DOMAIN mocaList' = DOMAIN mocaList
        /\ \A k \in DOMAIN mocaList :
             /\ mocaList'[k] = OfflineNode(mocaList[k])
             /\ mocaList'[k].deviceMac = mocaList[k].deviceMac
    BY <1>7, OfflineKeeps
  <2>2. /\ ulCount' = ulCount /\ pc["sync"] = "offline" /\ pc'["sync"] = "lock"
    BY <1>7 DEF Set_MoCADevices_Status_Offline, TypeOK
  <2>3. \A k \in DOMAIN mocaList :
          Reported(mocaList[k]) => OfflineNode(mocaList[k]).Status = 0
    BY <1>0 DEF OfflineNode, Reported
  <2> QED
    BY <1>1, <2>1, <2>2, <2>3 DEF ListedInv, CalmPhases, CalmSend
<1>8. CASE CleanupMoCAList
  <2>1. /\ DOMAIN mocaList' = {} /\ pc["sync"] = "cleanup" /\ pc'["sync"] = "sleep"
    BY <1>8 DEF CleanupMoCAList, TypeOK
  <2>2. \A k \in DOMAIN mocaList : mocaList[k].Status = 0 /\ ~mocaList[k].StatusChange
    BY <2>1 DEF CalmPhases, Reported
  <2>3. \A d \in Device : lmlite[d] # 1
    BY <2>2 DEF ToldInv, ListedInv
  <2> QED
    BY <1>1, <2>1, <2>3 DEF ListedInv, CalmPhases, CalmSend
<1>9. CASE Wake
  <2>1. /\ mocaList' = mocaList /\ ulCount' = ulCount
        /\ pc["sync"] = "sleep" /\ pc'["sync"] = "poll"
    BY <1>9 DEF Wake, TypeOK
  <2> QED
    BY <1>1, <2>1 DEF ListedInv, CalmPhases, CalmSend
<1> QED
  BY <1>2, <1>3, <1>4, <1>5, <1>6, <1>7, <1>8, <1>9 DEF Next, SynchronizeMoCADevices

(* Send, of either thread: the bus thread only clears flags. *)
LEMMA CalmSends ==
    ASSUME SafeInv, SafeInv', ListedInv, CalmPhases, CalmSend, NEW t \in Thread, Send(t),
           ~Spend("sendFail")
    PROVE  (ListedInv /\ CalmPhases /\ CalmSend)'
<1> USE DEF SafeInv
<1>0. /\ DOMAIN mocaList = 1 .. Len(mocaList) /\ Len(mocaList) \in Nat
      /\ \A k \in DOMAIN mocaList : mocaList[k] \in Node
      /\ cur \in [Thread -> Nat] /\ ret \in [Thread -> BOOLEAN]
  BY ListOfNodes DEF TypeOK
<1>1. /\ DOMAIN mocaList' = DOMAIN mocaList
      /\ \A k \in DOMAIN mocaList :
            /\ mocaList'[k].deviceMac = mocaList[k].deviceMac
            /\ mocaList'[k].Status = mocaList[k].Status
            /\ mocaList'[k].Updated => mocaList[k].Updated
            /\ mocaList'[k].StatusChange => mocaList[k].StatusChange
  BY SendEffect DEF FlagsCleared
<1>2. \A k \in DOMAIN mocaList : Reported(mocaList[k]) => Reported(mocaList'[k])
  BY <1>1 DEF Reported
<1>3. ListedInv'
  <2>1. CASE SendCall(t)
    <3>1. /\ mocaList[cur[t]].deviceMac \in Device /\ cur[t] \in DOMAIN mocaList
          /\ \A d \in Device : d # mocaList[cur[t]].deviceMac => lmlite'[d] = lmlite[d]
      BY <2>1, CallEffect
    <3> QED
      BY <1>1, <3>1 DEF ListedInv
  <2>2. CASE ~SendCall(t)
    <3>1. lmlite' = lmlite
      BY <2>2 DEF Send, SendLock, SendSkip, SendFormat, SendAck, SendClear, SendEnd
    <3> QED
      BY <1>1, <3>1 DEF ListedInv
  <2> QED
    BY <2>1, <2>2
<1>4. CASE t = "bus"
  <2>1. ulCount' = ulCount /\ pc'["sync"] = pc["sync"]
    BY <1>4, SendMoves
  <2>2. /\ cur'["sync"] = cur["sync"] /\ ret'["sync"] = ret["sync"]
    BY <1>0, <1>4 DEF Send, SendLock, SendSkip, SendFormat, SendCall, SendAck, SendClear, SendEnd
  <2>3. ~Held("sync")
    BY <1>4, SendAlone
  <2> QED
    BY <1>1, <1>2, <1>3, <2>1, <2>2, <2>3 DEF CalmPhases, CalmSend, Held
<1>5. CASE t = "sync"
  <2> DEFINE c == cur["sync"]
  <2>1. ulCount' = ulCount /\ pc["sync"] \in {"lock"} \cup SendPc
    BY <1>5, SendMoves
  <2>2. ulCount = 0 => \A k \in DOMAIN mocaList : mocaList[k].Status = 0
    BY <2>1 DEF CalmPhases
  <2>3. ASSUME pc'["sync"] \in SendPc PROVE CalmPhases'
    BY <1>1, <2>1, <2>2, <2>3 DEF CalmPhases
  <2>4. CASE SendLock("sync")
    <3>1. pc'["sync"] = "send" /\ cur'["sync"] = 1
      BY <1>0, <2>4 DEF SendLock, TypeOK
    <3>2. \A k \in DOMAIN mocaList' : ~(k < 1)
      BY <1>0, <1>1
    <3> QED
      BY <1>3, <2>3, <3>1, <3>2 DEF CalmSend
  <2>5. ASSUME pc["sync"] \in SendPc, pc'["sync"] = "send", cur'["sync"] = c + 1,
               c \in DOMAIN mocaList, Reported(mocaList'[c])
        PROVE  (ListedInv /\ CalmPhases /\ CalmSend)'
    <3>1. \A k \in DOMAIN mocaList : k < c + 1 => k < c \/ k = c
      BY <1>0, <2>5
    <3>2. \A k \in DOMAIN mocaList' : k < c + 1 => Reported(mocaList'[k])
      BY <1>1, <1>2, <2>5, <3>1 DEF CalmSend
    <3> QED
      BY <1>3, <2>3, <2>5, <3>2 DEF CalmSend
  <2>6. CASE SendSkip("sync")
    <3>1. /\ pc["sync"] = "send" /\ pc'["sync"] = "send" /\ cur'["sync"] = c + 1
          /\ ~mocaList[c].StatusChange
      BY <1>0, <2>6 DEF SendSkip, NextNode, Due, TypeOK
    <3>2. c \in DOMAIN mocaList /\ ~mocaList'[c].Updated
      BY <1>5, <2>6, SendEffect DEF FlagsCleared
    <3>3. ~mocaList'[c].StatusChange
      BY <1>1, <3>1, <3>2
    <3> QED
      BY <2>5, <3>1, <3>2, <3>3 DEF Reported
  <2>7. ASSUME pc["sync"] \in SendPc, pc'["sync"] \in {"format", "ack", "clear"}, cur' = cur,
               pc'["sync"] = "ack" => ret'["sync"],
               pc'["sync"] = "clear" => ~mocaList'[c].Updated
        PROVE  (ListedInv /\ CalmPhases /\ CalmSend)'
    BY <1>1, <1>2, <1>3, <2>3, <2>7 DEF CalmSend
  <2>8. CASE SendFormat("sync")
    <3>1. pc["sync"] = "send" /\ pc'["sync"] = "format" /\ cur' = cur
      BY <2>8 DEF SendFormat, TypeOK
    <3> QED
      BY <2>7, <3>1
  <2>9. CASE SendCall("sync")
    <3>1. pc["sync"] = "format" /\ pc'["sync"] = "ack" /\ cur' = cur /\ ret'["sync"]
      BY <2>9, CallEffect
    <3> QED
      BY <2>7, <3>1
  <2>10. CASE SendAck("sync")
    <3>1. pc["sync"] = "ack" /\ ret["sync"]
      BY <2>10 DEF SendAck, CalmSend
    <3>2. pc'["sync"] = "clear" /\ cur' = cur
      BY <2>10, <3>1 DEF SendAck, Success, TypeOK
    <3>3. ~mocaList'[c].Updated
      BY <1>5, <2>10, <3>1, SendEffect DEF FlagsCleared
    <3> QED
      BY <2>7, <3>1, <3>2, <3>3
  <2>11. CASE SendClear("sync")
    <3>1. pc["sync"] = "clear" /\ pc'["sync"] = "send" /\ cur'["sync"] = c + 1
      BY <1>0, <2>11 DEF SendClear, NextNode, TypeOK
    <3>2. /\ c \in DOMAIN mocaList /\ ~mocaList'[c].StatusChange
          /\ mocaList'[c].Updated = mocaList[c].Updated
      BY <1>5, <2>11, SendEffect DEF FlagsCleared
    <3>3. ~mocaList[c].Updated
      BY <3>1 DEF CalmSend
    <3> QED
      BY <2>5, <3>1, <3>2, <3>3 DEF Reported
  <2>12. CASE SendEnd("sync")
    <3>1. /\ pc["sync"] = "send" /\ c > Len(mocaList) /\ mocaList' = mocaList
          /\ \/ pc'["sync"] = "cleanup" /\ ulCount = 0
             \/ pc'["sync"] = "sleep"
      BY <2>12 DEF SendEnd, AfterSend, TypeOK
    <3>2. \A k \in DOMAIN mocaList : k < c
      BY <1>0, <3>1
    <3>3. \A k \in DOMAIN mocaList : Reported(mocaList[k])
      BY <3>1, <3>2 DEF CalmSend
    <3> QED
      BY <1>3, <2>1, <2>2, <3>1, <3>3 DEF CalmPhases, CalmSend
  <2> QED
    BY <1>5, <2>4, <2>6, <2>8, <2>9, <2>10, <2>11, <2>12 DEF Send
<1> QED
  BY <1>4, <1>5

LEMMA CalmStep ==
    ASSUME SafeInv, SafeInv', ToldInv, CalmInv, [Next]_vars
    PROVE  CalmInv'
<1>1. SUFFICES ASSUME Calm' PROVE (ListedInv /\ CalmPhases /\ CalmSend)'
  BY DEF CalmInv
<1>2. Calm /\ ~Restart /\ ~Spend("sendFail") /\ ListedInv /\ CalmPhases /\ CalmSend
  BY <1>1, CalmBefore DEF CalmInv
<1>3. ASSUME NEW t \in Thread, Send(t) PROVE (ListedInv /\ CalmPhases /\ CalmSend)'
  BY <1>2, <1>3, CalmSends
<1>4. CASE PAMAnswers \/ HostSync \/ AssocChange \/ UNCHANGED vars
  <2>1. /\ mocaList' = mocaList /\ ulCount' = ulCount /\ pc'["sync"] = pc["sync"]
        /\ cur' = cur /\ ret' = ret
    BY <1>4 DEF PAMAnswers, HostSync, AssocChange, vars, syncVars, sendVars, SafeInv, TypeOK
  <2>2. \A d \in Device : lmlite'[d] = 1 => lmlite[d] = 1
    <3>1. \A d \in Device : lmlite[d] = 0 => lmlite'[d] = 0
      BY <1>4 DEF PAMAnswers, HostSync, AssocChange, vars
    <3> QED
      BY <3>1 DEF SafeInv, TypeOK
  <2> QED
    BY <1>2, <2>1, <2>2 DEF ListedInv, CalmPhases, CalmSend
<1>5. CASE (\A t \in Thread : ~Send(t)) /\ ~Environment /\ ~UNCHANGED vars
  BY <1>2, <1>5, CalmRound
<1> QED
  BY <1>2, <1>3, <1>4, <1>5 DEF Environment

(* A departure is not forgotten: a device that LM Lite holds online has a   *)
(* node that is online or whose change is still to be reported, whatever    *)
(* reports were lost, and whoever sent them.  It has no node only after a   *)
(* restart, or after a report that was not acknowledged.                    *)
THEOREM DeparturesAreTold == Spec => []OfflineTold
<1> DEFINE IInv == SafeInv /\ AckInv /\ ToldInv /\ CalmInv
<1>1. Init => IInv
  <2>1. ASSUME Init PROVE IInv
    <3>1. /\ mocaList = << >> /\ DOMAIN mocaList = {} /\ \A t \in Thread : ~Held(t)
          /\ pc["sync"] = "poll" /\ \A d \in Device : lmlite[d] = 0
      BY <2>1 DEF Init, InitialPc, Held
    <3> QED
      BY <2>1, <3>1, SafeInit DEF AckInv, ToldInv, CalmInv, ListedInv, CalmPhases, CalmSend
  <2> QED
    BY <2>1
<1>2. IInv /\ [Next]_vars => IInv'
  BY SafeStep, AckStep, ToldStep, CalmStep
<1>3. IInv => OfflineTold
  <2>1. SUFFICES ASSUME IInv, NEW d \in Device, lmlite[d] = 1
                 PROVE  \/ \E k \in Positions(d) :
                                mocaList[k].Status = 1 \/ mocaList[k].StatusChange
                        \/ /\ Positions(d) = {}
                           /\ used["restart"] > 0 \/ used["sendFail"] > 0
    BY DEF OfflineTold
  <2>2. CASE Positions(d) = {}
    <3>1. ~Calm
      BY <2>1, <2>2 DEF CalmInv, ListedInv, Positions
    <3>2. used["restart"] \in Nat /\ used["sendFail"] \in Nat
      BY <2>1 DEF SafeInv, TypeOK
    <3> QED
      BY <2>2, <3>1, <3>2 DEF Calm
  <2>3. ASSUME NEW k \in Positions(d)
        PROVE  mocaList[k].Status = 1 \/ mocaList[k].StatusChange
    BY <2>1, <2>3 DEF ToldInv, Positions
  <2> QED
    BY <2>2, <2>3
<1>4. QED
  <2> HIDE DEF IInv
  <2> QED
    BY <1>1, <1>2, <1>3, PTL DEF Spec

-----------------------------------------------------------------------------
(* The rounds.  As long as no HostSync was asked for the bus thread is not  *)
(* in Send, and the nodes of the devices in the round's table are online    *)
(* from their turn in the walk on, and are kept so by the offline pass.     *)
Silent == used["hostSync"] = 0 /\ used["lmRestart"] = 0

Confirmed(d) == \E k \in DOMAIN mocaList : /\ mocaList[k].deviceMac = d
                                           /\ mocaList[k].Status = 1
                                           /\ mocaList[k].Updated

Online(d) == \E k \in DOMAIN mocaList : /\ mocaList[k].deviceMac = d
                                        /\ mocaList[k].Status = 1

RoundInv ==
    /\ pc["sync"] = "table" => arr = << >>
    /\ Silent =>
        /\ pc["bus"] = "idle"
        /\ pc["sync"] \in {"online"} \cup WritePc =>
                \A l \in 1 .. i - 1 : arr[l] \in Device => Confirmed(arr[l])
        /\ pc["sync"] \in {"changed", "free", "path", "freeType", "type"} =>
                mocaList[device].Updated
        /\ pc["sync"] = "offline" => \A d \in Associated(arr) : Confirmed(d)
        /\ pc["sync"] \in {"lock"} \cup SendPc => \A d \in Associated(arr) : Online(d)

LEMMA SilentBefore ==
    ASSUME SafeInv, [Next]_vars, Silent'
    PROVE  Silent /\ ~HostSync
<1>1. /\ used["hostSync"] \in Nat /\ used["hostSync"] <= used'["hostSync"]
      /\ used["lmRestart"] \in Nat /\ used["lmRestart"] <= used'["lmRestart"]
      /\ used'["hostSync"] = 0 /\ used'["lmRestart"] = 0
  BY UsedGrows DEF Silent
<1>2. ASSUME NEW g \in {"hostSync", "lmRestart"}, Spend(g) PROVE FALSE
  <2>1. used' = [used EXCEPT ![g] = @ + 1] /\ used \in [Fault -> Nat] /\ g \in Fault
    BY <1>2 DEF Spend, SafeInv, TypeOK
  <2>2. used'[g] = used[g] + 1
    BY <2>1
  <2> QED
    BY <1>1, <2>2
<1> QED
  BY <1>1, <1>2 DEF Silent, HostSync

(* The walk: what comes next is confirmed and what was stays so. *)
LEMMA WalkConfirms ==
    ASSUME SafeInv, SkipEntry \/ AddDevice \/ UpdateDevice, pc["sync"] \in {"online"} \cup WritePc,
           \A l \in 1 .. i - 1 : arr[l] \in Device => Confirmed(arr[l]),
           pc["sync"] \in {"changed", "free", "path", "freeType", "type"} =>
                mocaList[device].Updated
    PROVE  /\ pc'["sync"] \in {"online"} \cup WritePc =>
                \A l \in 1 .. i' - 1 : arr[l] \in Device => Confirmed(arr[l])'
           /\ pc'["sync"] = "offline" => \A d \in Associated(arr) : Confirmed(d)'
           /\ pc'["sync"] \in {"changed", "free", "path", "freeType", "type"} =>
                mocaList'[device'].Updated
           /\ pc'["sync"] \in {"online", "offline"} \cup WritePc /\ arr' = arr
<1> USE DEF SafeInv
<1>0. /\ i \in Nat \ {0} /\ Len(arr) = ulCount /\ DOMAIN arr = 1 .. Len(arr)
      /\ Len(arr) \in Nat
  BY LenProperties DEF ScanInv, TypeOK
<1>1. CASE SkipEntry
  <2>1. /\ mocaList' = mocaList /\ arr' = arr
        /\ \/ i <= ulCount /\ arr[i] = Zero /\ i' = i + 1 /\ pc'["sync"] = "online"
           \/ ~(i <= ulCount) /\ pc'["sync"] = "offline" /\ i' = i
    BY <1>1 DEF SkipEntry, TypeOK
  <2>2. \A d : Confirmed(d) => Confirmed(d)'
    BY <2>1 DEF Confirmed
  <2>3. CASE i <= ulCount
    <3>1. \A l \in 1 .. i' - 1 : l \in 1 .. i - 1 \/ l = i
      BY <1>0, <2>1, <2>3
    <3> QED
      BY <2>1, <2>2, <2>3, <3>1, ZeroAssumption
  <2>4. CASE ~(i <= ulCount)
    <3>1. \A l \in DOMAIN arr : l \in 1 .. i - 1
      BY <1>0, <2>4
    <3> QED
      BY <2>1, <2>2, <2>4, <3>1 DEF Associated
  <2> QED
    BY <2>3, <2>4
<1>2. CASE AddDevice
  <2>1. arr' = arr /\ i' = i + 1 /\ pc'["sync"] = "online"
    BY <1>2 DEF AddDevice, TypeOK
  <2>2. /\ Len(mocaList) + 1 \in DOMAIN mocaList' /\ DOMAIN mocaList \subseteq DOMAIN mocaList'
        /\ mocaList'[Len(mocaList) + 1].deviceMac = arr[i]
        /\ mocaList'[Len(mocaList) + 1].Status = 1
        /\ mocaList'[Len(mocaList) + 1].Updated
        /\ \A k \in DOMAIN mocaList : mocaList'[k] = mocaList[k]
    BY <1>2, AddAppends
  <2>3. \A d : d = arr[i] \/ Confirmed(d) => Confirmed(d)'
    BY <2>2 DEF Confirmed
  <2>4. \A l \in 1 .. i' - 1 : l \in 1 .. i - 1 \/ l = i
    BY <1>0, <2>1
  <2> QED
    BY <2>1, <2>3, <2>4 DEF Confirmed
<1>3. CASE UpdateDevice
  <2>1. NodeUpdated
    BY <1>3, UpdateEffect
  <2>2. /\ DOMAIN mocaList' = DOMAIN mocaList /\ arr' = arr /\ device \in DOMAIN mocaList
        /\ \A k \in DOMAIN mocaList :
             /\ mocaList'[k].deviceMac = mocaList[k].deviceMac
             /\ mocaList[k].Status = 1 => mocaList'[k].Status = 1
             /\ mocaList[k].Updated => mocaList'[k].Updated
        /\ mocaList'[device].Status = 1
        /\ pc["sync"] \in {"confirm", "updated"} => mocaList'[device].Updated
        /\ pc["sync"] \in WritePc /\ mocaList[device].deviceMac = arr[i]
    BY <2>1 DEF NodeUpdated, WriteInv, FoundNodeLives
  <2>3. \A d : Confirmed(d) => Confirmed(d)'
    BY <2>2 DEF Confirmed
  <2>4. CASE pc'["sync"] = "online"
    <3>1. i' = i + 1 /\ pc["sync"] \in {"confirm", "type"}
      BY <2>1, <2>4, UpdateMoves
    <3>2. \A d : d = arr[i] => Confirmed(d)'
      BY <2>2, <3>1 DEF Confirmed
    <3>3. \A l \in 1 .. i' - 1 : l \in 1 .. i - 1 \/ l = i
      BY <1>0, <3>1
    <3> QED
      BY <2>2, <2>3, <2>4, <3>1, <3>2, <3>3 DEF Confirmed
  <2>5. CASE pc'["sync"] # "online"
    <3>1. /\ i' = i /\ device' = device /\ pc'["sync"] \in WritePc
          /\ pc'["sync"] = "changed" <=> pc["sync"] = "updated"
          /\ pc'["sync"] \in {"free", "path", "freeType", "type"} =>
               pc["sync"] \in {"changed", "free", "path", "freeType"}
      BY <2>1, <2>5, UpdateMoves
    <3> QED
      BY <2>2, <2>3, <3>1 DEF Confirmed
  <2> QED
    BY <2>4, <2>5
<1> QED
  BY <1>1, <1>2, <1>3

(* Every step. *)
LEMMA RoundStep ==
    ASSUME SafeInv, SafeInv', RoundInv, [Next]_vars
    PROVE  RoundInv'
<1> USE DEF SafeInv
<1>1. (pc["sync"] = "table" => arr = << >>)'
  <2>1. CASE PollCount
    BY <2>1 DEF PollCount
  <2>2. CASE ~PollCount
    <3>1. pc'["sync"] = "table" => pc["sync"] = "table" /\ arr' = arr
      <4>1. CASE PollTable \/ SkipEntry \/ FindDeviceInMoCAList \/ AddDevice \/ UpdateDevice
        BY <4>1 DEF PollTable, SkipEntry, FindDeviceInMoCAList, AddDevice, UpdateDevice,
                    Write, TypeOK
      <4>2. CASE Set_MoCADevices_Status_Offline \/ CleanupMoCAList \/ Wake
        BY <4>2 DEF Set_MoCADevices_Status_Offline, CleanupMoCAList, Wake, TypeOK
      <4>3. ASSUME NEW t \in Thread, Send(t)
            PROVE  pc'["sync"] = "table" => pc["sync"] = "table" /\ arr' = arr
        BY <4>3 DEF Send, SendLock, SendSkip, SendFormat, SendCall, SendAck, SendClear, SendEnd,
                    AfterSend, TypeOK
      <4>4. CASE Environment \/ UNCHANGED vars
        BY <4>4 DEF Environment, PAMAnswers, HostSync, AssocChange, Restart, InitialPc,
                    vars, TypeOK
      <4> QED
        BY <2>2, <4>1, <4>2, <4>3, <4>4 DEF Next, SynchronizeMoCADevices
    <3> QED
      BY <3>1 DEF RoundInv
  <2> QED
    BY <2>1, <2>2
<1>2. SUFFICES ASSUME Silent'
               PROVE  (/\ pc["bus"] = "idle"
                       /\ pc["sync"] \in {"online"} \cup WritePc =>
                            \A l \in 1 .. i - 1 : arr[l] \in Device => Confirmed(arr[l])
                       /\ pc["sync"] \in {"changed", "free", "path", "freeType", "type"} =>
                            mocaList[device].Updated
                       /\ pc["sync"] = "offline" => \A d \in Associated(arr) : Confirmed(d)
                       /\ pc["sync"] \in {"lock"} \cup SendPc =>
                            \A d \in Associated(arr) : Online(d))'
  BY <1>1 DEF RoundInv
<1>3. Silent /\ ~HostSync
  BY <1>2, SilentBefore
<1>4. /\ pc["bus"] = "idle"
      /\ pc["sync"] \in {"online"} \cup WritePc =>
            \A l \in 1 .. i - 1 : arr[l] \in Device => Confirmed(arr[l])
      /\ pc["sync"] \in {"changed", "free", "path", "freeType", "type"} =>
           mocaList[device].Updated
      /\ pc["sync"] = "offline" => \A d \in Associated(arr) : Confirmed(d)
      /\ pc["sync"] \in {"lock"} \cup SendPc => \A d \in Associated(arr) : Online(d)
  BY <1>3 DEF RoundInv
<1> DEFINE Goal == (/\ pc["bus"] = "idle"
                    /\ pc["sync"] \in {"online"} \cup WritePc =>
                         \A l \in 1 .. i - 1 : arr[l] \in Device => Confirmed(arr[l])
                    /\ pc["sync"] \in {"changed", "free", "path", "freeType", "type"} =>
                         mocaList[device].Updated
                    /\ pc["sync"] = "offline" => \A d \in Associated(arr) : Confirmed(d)
                    /\ pc["sync"] \in {"lock"} \cup SendPc =>
                         \A d \in Associated(arr) : Online(d))'
<1>5. CASE PollCount
  <2>1. pc'["bus"] = "idle" /\ pc'["sync"] \in {"table", "offline"} /\ arr' = << >>
    BY <1>4, <1>5 DEF PollCount, TypeOK
  <2>2. Associated(arr)' = {}
    BY <2>1 DEF Associated
  <2> QED
    BY <2>1, <2>2
<1>6. CASE PollTable
  <2>1. /\ pc'["bus"] = "idle"
        /\ \/ pc'["sync"] = "online" /\ i' = 1
           \/ pc'["sync"] = "offline" /\ arr' = << >>
    BY <1>4, <1>6 DEF PollTable, TypeOK, RoundInv
  <2>2. arr' = << >> => Associated(arr)' = {}
    BY DEF Associated
  <2> QED
    BY <2>1, <2>2
<1>7. CASE SkipEntry \/ AddDevice \/ UpdateDevice
  <2>1. pc["sync"] \in {"online"} \cup WritePc /\ pc'["bus"] = "idle"
    BY <1>4, <1>7 DEF SkipEntry, AddDevice, UpdateDevice, Write, TypeOK
  <2>2. /\ pc'["sync"] \in {"online"} \cup WritePc =>
             \A l \in 1 .. i' - 1 : arr[l] \in Device => Confirmed(arr[l])'
        /\ pc'["sync"] = "offline" => \A d \in Associated(arr) : Confirmed(d)'
        /\ pc'["sync"] \in {"changed", "free", "path", "freeType", "type"} =>
                mocaList'[device'].Updated
        /\ pc'["sync"] \in {"online", "offline"} \cup WritePc /\ arr' = arr
    BY <1>4, <1>7, <2>1, WalkConfirms
  <2> QED
    BY <2>1, <2>2 DEF Confirmed, Associated
<1>8. CASE FindDeviceInMoCAList
  <2>1. /\ pc["sync"] = "online" /\ pc'["sync"] = "write" /\ pc'["bus"] = "idle"
        /\ mocaList' = mocaList /\ arr' = arr /\ i' = i
    BY <1>4, <1>8 DEF FindDeviceInMoCAList, TypeOK
  <2> QED
    BY <1>4, <2>1 DEF Confirmed
<1>9. CASE Set_MoCADevices_Status_Offline
  <2>1. /\ pc["sync"] = "offline" /\ pc'["sync"] = "lock" /\ pc'["bus"] = "idle"
        /\ arr' = arr
    BY <1>4, <1>9 DEF Set_MoCADevices_Status_Offline, TypeOK
  <2>2. \A d : Confirmed(d) => Online(d)'
    BY <1>9, OfflineKeeps DEF Confirmed, Online, OfflineNode
  <2> QED
    BY <1>4, <2>1, <2>2 DEF Associated
<1>10. CASE Send("sync")
  <2>1. /\ pc["sync"] \in {"lock"} \cup SendPc /\ pc'["bus"] = "idle" /\ arr' = arr
        /\ pc'["sync"] \in SendPc \cup {"cleanup", "sleep"}
    BY <1>4, <1>10 DEF Send, SendLock, SendSkip, SendFormat, SendCall, SendAck, SendClear, SendEnd,
                    AfterSend, TypeOK
  <2>2. \A d : Online(d) => Online(d)'
    BY <1>10, SendEffect DEF FlagsCleared, Online
  <2> QED
    BY <1>4, <2>1, <2>2 DEF Associated
<1>11. ~Send("bus")
  BY <1>4 DEF Send, SendLock, SendSkip, SendFormat, SendCall, SendAck, SendClear, SendEnd
<1>12. CASE CleanupMoCAList \/ Wake
  BY <1>4, <1>12 DEF CleanupMoCAList, Wake, TypeOK
<1>13. CASE Restart
  BY <1>13 DEF Restart, InitialPc
<1>14. CASE PAMAnswers \/ AssocChange \/ UNCHANGED vars
  <2>1. /\ pc' = pc /\ arr' = arr /\ i' = i /\ mocaList' = mocaList
        /\ device' = device
    BY <1>14 DEF PAMAnswers, AssocChange, vars
  <2> QED
    BY <1>4, <2>1 DEF Confirmed, Online, Associated
<1> QED
  BY <1>3, <1>5, <1>6, <1>7, <1>8, <1>9, <1>10, <1>11, <1>12, <1>13, <1>14
  DEF Next, SynchronizeMoCADevices, Environment

LEMMA RoundInit ==
    ASSUME Init
    PROVE  RoundInv
<1>1. pc["sync"] = "poll" /\ pc["bus"] = "idle"
  BY DEF Init, InitialPc
<1> QED
  BY <1>1 DEF RoundInv

(* The line that the sync thread formats says what its node still says: the *)
(* only thread that changes a Status is this one.                           *)
LineInv ==
    pc["sync"] = "format" => line["sync"] = mocaList[cur["sync"]].Status

LEMMA LineStep ==
    ASSUME SafeInv, LineInv, [Next]_vars
    PROVE  LineInv'
<1> USE DEF SafeInv
<1>1. CASE Send("sync")
  <2>1. CASE SendFormat("sync")
    BY <2>1 DEF SendFormat, LineInv, TypeOK
  <2>2. CASE ~SendFormat("sync")
    <3>1. pc'["sync"] # "format"
      BY <1>1, <2>2 DEF Send, SendLock, SendSkip, SendCall, SendAck, SendClear, SendEnd,
                        AfterSend, TypeOK
    <3> QED
      BY <3>1 DEF LineInv
  <2> QED
    BY <2>1, <2>2
<1>2. CASE Send("bus")
  <2>1. pc'["sync"] # "format"
    BY <1>2, SendAlone DEF Held
  <2> QED
    BY <2>1 DEF LineInv
<1>3. CASE PollCount \/ PollTable \/ SkipEntry \/ FindDeviceInMoCAList \/ AddDevice \/ Wake
  BY <1>3 DEF PollCount, PollTable, SkipEntry, FindDeviceInMoCAList, AddDevice, Wake,
              LineInv, TypeOK
<1>4. CASE UpdateDevice
  BY <1>4, UpdateEffect, UpdateMoves DEF LineInv
<1>5. CASE Set_MoCADevices_Status_Offline \/ CleanupMoCAList \/ Restart
  BY <1>5 DEF Set_MoCADevices_Status_Offline, CleanupMoCAList, Restart, InitialPc,
              LineInv, TypeOK
<1>6. CASE PAMAnswers \/ HostSync \/ AssocChange \/ UNCHANGED vars
  BY <1>6 DEF PAMAnswers, HostSync, AssocChange, vars, LineInv, TypeOK
<1> QED
  BY <1>1, <1>2, <1>3, <1>4, <1>5, <1>6 DEF Next, SynchronizeMoCADevices, Environment

(* A device whose node is offline while the sync thread sends is not in the *)
(* table of the round.                                                      *)
LEMMA OfflineAbsent ==
    ASSUME SafeInv, RoundInv, Silent, pc["sync"] \in SendPc, NEW k \in DOMAIN mocaList,
           mocaList[k].Status = 0
    PROVE  mocaList[k].deviceMac \notin Associated(arr)
<1>1. SUFFICES ASSUME mocaList[k].deviceMac \in Associated(arr) PROVE FALSE
  OBVIOUS
<1>2. Online(mocaList[k].deviceMac)
  BY <1>1 DEF RoundInv
<1> QED
  BY <1>2 DEF Online, SafeInv, UniqueMac

(* While no HostSync was asked for, LM Lite is told that a device left only *)
(* in a round whose table does not hold it, whatever reports are lost,      *)
(* polls fail and restarts happen.                                          *)
THEOREM ReportsAreTrue == Spec => RoundTruth
<1>1. Init => RoundInv /\ LineInv
  BY RoundInit DEF Init, InitialPc, LineInv
<1>2. SafeInv /\ SafeInv' /\ RoundInv /\ LineInv /\ [Next]_vars => RoundInv' /\ LineInv'
  BY RoundStep, LineStep
<1>3. SafeInv /\ RoundInv /\ LineInv /\ [Next]_vars =>
        [used'["hostSync"] = 0 /\ used'["lmRestart"] = 0 => OnlyDepartures]_lmlite
  <2>1. SUFFICES ASSUME SafeInv, RoundInv, LineInv, [Next]_vars, Silent', NEW d \in Device,
                        lmlite[d] = 1, lmlite'[d] = 0
                 PROVE  d \notin Associated(arr)
    BY DEF Silent, OnlyDepartures, TurnsOffline
  <2>2. Silent /\ ~HostSync
    BY <2>1, SilentBefore
  <2>3. ~SendCall("bus")
    BY <2>1, <2>2 DEF RoundInv, SendCall
  <2>4. SendCall("sync")
    BY <2>1, <2>2, <2>3, LMLiteKept
  <2>5. /\ cur["sync"] \in DOMAIN mocaList /\ pc["sync"] = "format"
        /\ mocaList[cur["sync"]].deviceMac = d /\ line["sync"] = 0
    BY <2>1, <2>4, CallEffect
  <2>6. mocaList[cur["sync"]].Status = 0
    BY <2>1, <2>5 DEF LineInv
  <2> QED
    BY <2>1, <2>2, <2>5, <2>6, OfflineAbsent
<1> QED
  BY <1>1, <1>2, <1>3, Safe, PTL DEF Spec, RoundTruth

-----------------------------------------------------------------------------
(* Rounds without lost reports, HostSync requests and restarts: LM Lite     *)
(* agrees with the table of each round, and the rounds implement            *)
(* AssocReport.                                                             *)
Lossless == MaxHostSync = 0 /\ MaxLMRestart = 0 /\ MaxSendFail = 0 /\ MaxRestart = 0

(* No device is twice in a table of the HAL; else its second entry would    *)
(* cancel the change that the first one made.                               *)
OncePerTable(table) ==
    \A k, l \in DOMAIN table : table[k] \in Device /\ table[k] = table[l] => k = l

(* LM Lite knows the status of each node without a change to report, but    *)
(* for the node that Online is bringing back.                               *)
KnownInv ==
    \A k \in DOMAIN mocaList :
        ~mocaList[k].StatusChange =>
            \/ lmlite[mocaList[k].deviceMac] = mocaList[k].Status
            \/ k = device /\ pc["sync"] \in {"updated", "changed"}

PhaseInv ==
    /\ pc["sync"] \in {"online"} \cup WritePc =>
            \A k \in DOMAIN mocaList :
                \/ Reported(mocaList[k])
                \/ \E l \in DOMAIN arr : l < i /\ arr[l] = mocaList[k].deviceMac
                \/ k = device /\ pc["sync"] \in WritePc \ {"write"}
    /\ pc["sync"] = "offline" =>
            \A k \in DOMAIN mocaList :
                Reported(mocaList[k]) \/ mocaList[k].deviceMac \in Associated(arr)
    /\ pc["sync"] \in {"lock"} \cup SendPc =>
            \A k \in DOMAIN mocaList :
                mocaList[k].Status = 1 => mocaList[k].deviceMac \in Associated(arr)

SentInv ==
    pc["sync"] \in {"ack", "clear"} =>
        lmlite[mocaList[cur["sync"]].deviceMac] = mocaList[cur["sync"]].Status

EndInv ==
    /\ pc["sync"] \in {"offline", "lock"} \cup SendPc => (ulCount = 0 => arr = << >>)
    /\ pc["sync"] = "cleanup" => arr = << >>
    /\ pc["sync"] \in {"sleep", "cleanup"} => ToldOnline = Associated(arr)

(* The number that was asked for covers the table unless a device joined. *)
GrewInv == pc["sync"] = "table" /\ ~grew => Len(assoc) <= ulCount

AgreeInv ==
    /\ Silent /\ Calm /\ OncePerTable(assoc) /\ OncePerTable(arr)
    /\ KnownInv /\ PhaseInv /\ SentInv /\ EndInv /\ GrewInv

LosslessInv ==
    SafeInv /\ AckInv /\ ToldInv /\ CalmInv /\ RoundInv /\ LineInv /\ AgreeInv

(* The faults that are excluded do not happen. *)
LEMMA NoFaults ==
    ASSUME Lossless, SafeInv
    PROVE  ~HostSync /\ ~Restart /\ ~Spend("sendFail")
<1>1. ASSUME NEW f \in {"hostSync", "lmRestart", "sendFail", "restart"}, Spend(f) PROVE FALSE
  <2>1. used[f] \in Nat /\ Bound[f] = 0
    BY <1>1 DEF Lossless, Bound, SafeInv, TypeOK
  <2> QED
    BY <1>1, <2>1 DEF Spend
<1> QED
  BY <1>1 DEF HostSync, Restart

LEMMA QuietKept ==
    ASSUME Lossless, SafeInv, Silent, Calm, [Next]_vars
    PROVE  Silent' /\ Calm'
<1>1. CASE used' = used
  BY <1>1 DEF Silent, Calm
<1>2. ASSUME NEW f \in Fault, Spend(f) PROVE Silent' /\ Calm'
  <2>1. used[f] \in Nat /\ used' = [used EXCEPT ![f] = @ + 1] /\ used[f] < Bound[f]
    BY <1>2 DEF Spend, SafeInv, TypeOK
  <2>2. f \notin {"hostSync", "lmRestart", "sendFail", "restart"}
    BY <2>1 DEF Lossless, Bound
  <2> QED
    BY <2>1, <2>2 DEF Silent, Calm
<1> QED
  BY <1>1, <1>2, UsedAfter

(* The HAL's table and what a poll takes from it hold no device twice. *)
LEMMA InsertedAt ==
    ASSUME NEW S, NEW s \in Seq(S), NEW k \in 1 .. Len(s) + 1, NEW d \in S
    PROVE  /\ DOMAIN InsertAt(s, k, d) = 1 .. Len(s) + 1
           /\ \A l \in 1 .. Len(s) + 1 :
                InsertAt(s, k, d)[l] = IF l < k THEN s[l] ELSE IF l = k THEN d ELSE s[l - 1]
<1> DEFINE a == SubSeq(s, 1, k - 1)
           b == SubSeq(s, k, Len(s))
           ad == a \o <<d>>
<1>0. Len(s) \in Nat /\ k \in Int /\ k - 1 \in Int /\ \A l \in 1 .. Len(s) : s[l] \in S
  BY LenProperties, ElementOfSeq
<1>1. /\ a \in Seq(S) /\ Len(a) = k - 1
      /\ \A l \in 1 .. k - 1 : a[l] = s[l]
  <2>1. \A l \in 1 .. k - 1 : s[l] \in S
    BY <1>0
  <2>2. /\ a \in Seq(S) /\ Len(a) = IF 1 <= k - 1 THEN k - 1 - 1 + 1 ELSE 0
        /\ \A l \in 1 .. k - 1 - 1 + 1 : a[l] = s[1 + l - 1]
    BY <1>0, <2>1, SubSeqProperties
  <2>3. \A l \in 1 .. k - 1 : l \in 1 .. k - 1 - 1 + 1 /\ 1 + l - 1 = l
    BY <1>0
  <2> HIDE DEF a
  <2> QED
    BY <1>0, <2>2, <2>3
<1>2. /\ b \in Seq(S) /\ Len(b) = Len(s) - k + 1
      /\ \A l \in 1 .. Len(s) - k + 1 : b[l] = s[k + l - 1]
  <2>1. \A l \in k .. Len(s) : s[l] \in S
    BY <1>0
  <2>2. /\ b \in Seq(S) /\ Len(b) = IF k <= Len(s) THEN Len(s) - k + 1 ELSE 0
        /\ \A l \in 1 .. Len(s) - k + 1 : b[l] = s[k + l - 1]
    BY <1>0, <2>1, SubSeqProperties
  <2> HIDE DEF b
  <2> QED
    BY <1>0, <2>2
<1>3. <<d>> \in Seq(S) /\ Len(<<d>>) = 1 /\ <<d>>[1] = d
  OBVIOUS
<1> HIDE DEF a, b
<1>4. /\ ad \in Seq(S) /\ Len(ad) = k
      /\ \A l \in 1 .. k : ad[l] = IF l < k THEN s[l] ELSE d
  <2>1. /\ ad \in Seq(S) /\ Len(ad) = Len(a) + Len(<<d>>)
        /\ \A l \in 1 .. Len(a) + Len(<<d>>) :
             ad[l] = IF l <= Len(a) THEN a[l] ELSE <<d>>[l - Len(a)]
    BY <1>1, <1>3, ConcatProperties
  <2>2. \A l \in 1 .. k : /\ l \in 1 .. Len(a) + Len(<<d>>)
                          /\ (l <= Len(a)) = (l < k)
                          /\ l < k => l \in 1 .. k - 1
                          /\ ~(l < k) => l - Len(a) = 1
    BY <1>0, <1>1, <1>3
  <2> HIDE DEF ad
  <2>3. Len(ad) = k
    BY <1>0, <1>1, <1>3, <2>1
  <2>4. \A l \in 1 .. k : ad[l] = IF l < k THEN s[l] ELSE d
    BY <1>1, <1>3, <2>1, <2>2
  <2> QED
    BY <2>1, <2>3, <2>4
<1> HIDE DEF ad
<1>5. /\ ad \o b \in Seq(S) /\ Len(ad \o b) = Len(ad) + Len(b)
      /\ \A l \in 1 .. Len(ad) + Len(b) :
           (ad \o b)[l] = IF l <= Len(ad) THEN ad[l] ELSE b[l - Len(ad)]
  BY <1>2, <1>4, ConcatProperties
<1>6. InsertAt(s, k, d) = ad \o b
  BY DEF InsertAt, ad, a, b
<1>7. Len(ad) + Len(b) = Len(s) + 1
  BY <1>0, <1>2, <1>4
<1>8. DOMAIN (ad \o b) = 1 .. Len(s) + 1
  BY <1>5, <1>7, LenProperties
<1>9. ASSUME NEW l \in 1 .. Len(s) + 1
      PROVE  (ad \o b)[l] = IF l < k THEN s[l] ELSE IF l = k THEN d ELSE s[l - 1]
  <2>1. (ad \o b)[l] = IF l <= k THEN ad[l] ELSE b[l - k]
    BY <1>4, <1>5, <1>7
  <2>2. CASE l <= k
    <3>1. l \in 1 .. k
      BY <1>0, <2>2
    <3> QED
      BY <1>0, <1>4, <2>1, <2>2, <3>1
  <2>3. CASE ~(l <= k)
    <3>1. l - k \in 1 .. Len(s) - k + 1 /\ k + (l - k) - 1 = l - 1 /\ ~(l < k) /\ l # k
      BY <1>0, <2>3
    <3> QED
      BY <1>2, <2>1, <2>3, <3>1
  <2> QED
    BY <2>2, <2>3
<1> QED
  BY <1>6, <1>8, <1>9

LEMMA RemovedAt ==
    ASSUME NEW S, NEW s \in Seq(S), NEW k \in 1 .. Len(s)
    PROVE  /\ DOMAIN RemoveAt(s, k) = 1 .. Len(s) - 1
           /\ Len(RemoveAt(s, k)) = Len(s) - 1
           /\ \A l \in 1 .. Len(s) - 1 :
                RemoveAt(s, k)[l] = IF l < k THEN s[l] ELSE s[l + 1]
<1> DEFINE a == SubSeq(s, 1, k - 1)
           b == SubSeq(s, k + 1, Len(s))
<1>0. /\ Len(s) \in Nat /\ k \in Int /\ k - 1 \in Int /\ k + 1 \in Int
      /\ \A l \in 1 .. Len(s) : s[l] \in S
  BY LenProperties, ElementOfSeq
<1>1. /\ a \in Seq(S) /\ Len(a) = k - 1
      /\ \A l \in 1 .. k - 1 : a[l] = s[l]
  <2>1. \A l \in 1 .. k - 1 : s[l] \in S
    BY <1>0
  <2>2. /\ a \in Seq(S) /\ Len(a) = IF 1 <= k - 1 THEN k - 1 - 1 + 1 ELSE 0
        /\ \A l \in 1 .. k - 1 - 1 + 1 : a[l] = s[1 + l - 1]
    BY <1>0, <2>1, SubSeqProperties
  <2>3. \A l \in 1 .. k - 1 : l \in 1 .. k - 1 - 1 + 1 /\ 1 + l - 1 = l
    BY <1>0
  <2> HIDE DEF a
  <2> QED
    BY <1>0, <2>2, <2>3
<1>2. /\ b \in Seq(S) /\ Len(b) = Len(s) - k
      /\ \A l \in 1 .. Len(s) - k : b[l] = s[k + l]
  <2>1. \A l \in k + 1 .. Len(s) : s[l] \in S
    BY <1>0
  <2>2. /\ b \in Seq(S)
        /\ Len(b) = IF k + 1 <= Len(s) THEN Len(s) - (k + 1) + 1 ELSE 0
        /\ \A l \in 1 .. Len(s) - (k + 1) + 1 : b[l] = s[(k + 1) + l - 1]
    BY <1>0, <2>1, SubSeqProperties
  <2>3. \A l \in 1 .. Len(s) - k : /\ l \in 1 .. Len(s) - (k + 1) + 1
                                   /\ (k + 1) + l - 1 = k + l
    BY <1>0
  <2> HIDE DEF b
  <2> QED
    BY <1>0, <2>2, <2>3
<1> HIDE DEF a, b
<1>3. /\ a \o b \in Seq(S) /\ Len(a \o b) = Len(a) + Len(b)
      /\ \A l \in 1 .. Len(a) + Len(b) :
           (a \o b)[l] = IF l <= Len(a) THEN a[l] ELSE b[l - Len(a)]
  BY <1>1, <1>2, ConcatProperties
<1>4. RemoveAt(s, k) = a \o b
  BY DEF RemoveAt, a, b
<1>5. Len(a) + Len(b) = Len(s) - 1
  BY <1>0, <1>1, <1>2
<1>6. DOMAIN (a \o b) = 1 .. Len(s) - 1 /\ Len(a \o b) = Len(s) - 1
  BY <1>3, <1>5, LenProperties
<1>7. ASSUME NEW l \in 1 .. Len(s) - 1
      PROVE  (a \o b)[l] = IF l < k THEN s[l] ELSE s[l + 1]
  <2>1. (a \o b)[l] = IF l <= k - 1 THEN a[l] ELSE b[l - (k - 1)]
    BY <1>1, <1>3, <1>5
  <2>2. CASE l < k
    <3>1. l \in 1 .. k - 1 /\ l <= k - 1
      BY <1>0, <2>2
    <3> QED
      BY <1>1, <2>1, <2>2, <3>1
  <2>3. CASE ~(l < k)
    <3>1. l - (k - 1) \in 1 .. Len(s) - k /\ k + (l - (k - 1)) = l + 1 /\ ~(l <= k - 1)
      BY <1>0, <2>3
    <3> QED
      BY <1>2, <2>1, <2>3, <3>1
  <2> QED
    BY <2>2, <2>3
<1> QED
  BY <1>4, <1>6, <1>7

LEMMA OnceInserted ==
    ASSUME NEW s \in Seq(Device), OncePerTable(s), NEW k \in 1 .. Len(s) + 1,
           NEW d \in Device, d \notin Range(s)
    PROVE  OncePerTable(InsertAt(s, k, d))
<1> DEFINE u == InsertAt(s, k, d)
<1>0. Len(s) \in Nat /\ DOMAIN s = 1 .. Len(s) /\ \A l \in DOMAIN s : s[l] \in Device
  BY LenProperties, ElementOfSeq
<1>1. /\ DOMAIN u = 1 .. Len(s) + 1
      /\ \A l \in 1 .. Len(s) + 1 :
           u[l] = IF l < k THEN s[l] ELSE IF l = k THEN d ELSE s[l - 1]
  BY InsertedAt
<1>2. \A l \in DOMAIN s : s[l] # d
  BY DEF Range
<1> HIDE DEF u
<1>3. SUFFICES ASSUME NEW l \in DOMAIN u, NEW m \in DOMAIN u, u[l] = u[m] PROVE l = m
  BY DEF OncePerTable, u
<1>4. \A n \in DOMAIN u : /\ n < k => n \in DOMAIN s
                          /\ n > k => n - 1 \in DOMAIN s
  BY <1>0, <1>1
<1>5. \A n, p \in DOMAIN s : s[n] = s[p] => n = p
  BY <1>0 DEF OncePerTable
<1>6. CASE l = k \/ m = k
  BY <1>0, <1>1, <1>2, <1>3, <1>4, <1>6
<1>7. CASE l # k /\ m # k
  <2> DEFINE g(n) == IF n < k THEN n ELSE n - 1
  <2>1. u[l] = s[g(l)] /\ u[m] = s[g(m)] /\ g(l) \in DOMAIN s /\ g(m) \in DOMAIN s
    BY <1>0, <1>1, <1>4, <1>7
  <2>2. g(l) = g(m)
    BY <1>3, <1>5, <2>1
  <2> QED
    BY <1>0, <1>1, <1>7, <2>2
<1> QED
  BY <1>6, <1>7

LEMMA OnceRemoved ==
    ASSUME NEW s \in Seq(Device), OncePerTable(s), NEW k \in 1 .. Len(s)
    PROVE  OncePerTable(RemoveAt(s, k))
<1> DEFINE u == RemoveAt(s, k)
           g(n) == IF n < k THEN n ELSE n + 1
<1>0. Len(s) \in Nat /\ DOMAIN s = 1 .. Len(s) /\ \A l \in DOMAIN s : s[l] \in Device
  BY LenProperties, ElementOfSeq
<1>1. /\ DOMAIN u = 1 .. Len(s) - 1
      /\ \A l \in 1 .. Len(s) - 1 : u[l] = IF l < k THEN s[l] ELSE s[l + 1]
  BY RemovedAt
<1> HIDE DEF u
<1>2. SUFFICES ASSUME NEW l \in DOMAIN u, NEW m \in DOMAIN u, u[l] = u[m] PROVE l = m
  BY DEF OncePerTable, u
<1>3. \A n, p \in DOMAIN s : s[n] = s[p] => n = p
  BY <1>0 DEF OncePerTable
<1>4. u[l] = s[g(l)] /\ u[m] = s[g(m)] /\ g(l) \in DOMAIN s /\ g(m) \in DOMAIN s
  BY <1>0, <1>1
<1>5. g(l) = g(m)
  BY <1>2, <1>3, <1>4
<1> QED
  BY <1>0, <1>1, <1>5

LEMMA OnceStep ==
    ASSUME SafeInv, OncePerTable(assoc), OncePerTable(arr), [Next]_vars
    PROVE  OncePerTable(assoc') /\ OncePerTable(arr')
<1> USE DEF SafeInv
<1>0. assoc \in Seq(Device) /\ Len(assoc) \in Nat /\ DOMAIN assoc = 1 .. Len(assoc)
  BY LenProperties DEF TypeOK
<1>1. CASE AssocChange
  <2>1. ASSUME NEW d \in Device \ Range(assoc), NEW k \in 1 .. Len(assoc) + 1,
               assoc' = InsertAt(assoc, k, d)
        PROVE  OncePerTable(assoc')
    BY <1>0, <2>1, OnceInserted
  <2>2. ASSUME NEW k \in DOMAIN assoc, assoc' = RemoveAt(assoc, k)
        PROVE  OncePerTable(assoc')
    BY <1>0, <2>2, OnceRemoved
  <2>3. arr' = arr
    BY <1>1 DEF AssocChange
  <2> QED
    BY <1>1, <2>1, <2>2, <2>3 DEF AssocChange
<1>2. CASE arr' = << >> /\ assoc' = assoc
  BY <1>2 DEF OncePerTable
<1>3. CASE arr' = arr /\ assoc' = assoc
  BY <1>3
<1>4. CASE PollTable
  <2>1. CASE arr' = [k \in 1..ulCount |-> IF k <= Len(assoc) THEN assoc[k] ELSE Zero]
    <3>1. SUFFICES ASSUME NEW k \in 1 .. ulCount, NEW l \in 1 .. ulCount,
                          arr'[k] \in Device, arr'[k] = arr'[l]
                   PROVE  k = l
      BY <1>4, <2>1 DEF OncePerTable, PollTable
    <3>2. k <= Len(assoc) /\ l <= Len(assoc)
      BY <2>1, <3>1, ZeroAssumption
    <3>3. k \in DOMAIN assoc /\ l \in DOMAIN assoc /\ assoc[k] \in Device /\ assoc[k] = assoc[l]
      BY <1>0, <2>1, <3>1, <3>2 DEF TypeOK
    <3> QED
      BY <3>3 DEF OncePerTable
  <2>2. CASE arr' = arr
    BY <1>3, <1>4, <2>2 DEF PollTable
  <2> QED
    BY <1>4, <2>1, <2>2 DEF PollTable
<1>5. CASE PollCount \/ Restart
  BY <1>2, <1>5 DEF PollCount, Restart
<1>6. CASE SkipEntry \/ FindDeviceInMoCAList \/ AddDevice \/ UpdateDevice
  BY <1>3, <1>6 DEF SkipEntry, FindDeviceInMoCAList, AddDevice, UpdateDevice, Write
<1>7. CASE Set_MoCADevices_Status_Offline \/ CleanupMoCAList \/ Wake
  BY <1>3, <1>7 DEF Set_MoCADevices_Status_Offline, CleanupMoCAList, Wake
<1>8. CASE Send("sync") \/ Send("bus")
  BY <1>3, <1>8 DEF Send, SendLock, SendSkip, SendFormat, SendCall, SendAck, SendClear, SendEnd
<1>9. CASE PAMAnswers \/ HostSync \/ UNCHANGED vars
  BY <1>3, <1>9 DEF PAMAnswers, HostSync, vars
<1> QED
  BY <1>1, <1>4, <1>5, <1>6, <1>7, <1>8, <1>9
  DEF Next, SynchronizeMoCADevices, Environment

(* The walk over the array. *)
LEMMA AgreeWalk ==
    ASSUME LosslessInv, SafeInv',
           SkipEntry \/ FindDeviceInMoCAList \/ AddDevice \/ UpdateDevice
    PROVE  (KnownInv /\ PhaseInv /\ SentInv /\ EndInv)'
<1> USE DEF LosslessInv, SafeInv
<1>0. /\ pc["sync"] \in {"online"} \cup WritePc /\ i \in Nat \ {0}
      /\ Len(arr) = ulCount /\ DOMAIN arr = 1 .. Len(arr) /\ Len(arr) \in Nat
      /\ arr' = arr /\ lmlite' = lmlite
  <2>1. /\ pc["sync"] \in {"online"} \cup WritePc /\ arr' = arr /\ lmlite' = lmlite
    BY DEF SkipEntry, FindDeviceInMoCAList, AddDevice, UpdateDevice, Write
  <2> QED
    BY <2>1, LenProperties DEF ScanInv, TypeOK
<1>1. \A k \in DOMAIN mocaList : mocaList[k] \in Node /\ mocaList[k].deviceMac \in Device
  BY ListOfNodes DEF TypeOK
<1>2. \A k \in DOMAIN mocaList :
        \/ Reported(mocaList[k])
        \/ \E l \in DOMAIN arr : l < i /\ arr[l] = mocaList[k].deviceMac
        \/ k = device /\ pc["sync"] \in WritePc \ {"write"}
  BY <1>0 DEF AgreeInv, PhaseInv
<1>3. CASE SkipEntry
  <2>1. /\ mocaList' = mocaList /\ ulCount' = ulCount /\ pc["sync"] = "online"
        /\ \/ i <= ulCount /\ i' = i + 1 /\ pc'["sync"] = "online"
           \/ ~(i <= ulCount) /\ pc'["sync"] = "offline"
    BY <1>3 DEF SkipEntry, TypeOK
  <2>2. KnownInv'
    BY <1>0, <2>1 DEF AgreeInv, KnownInv
  <2>3. CASE i <= ulCount
    <3>1. \A l \in DOMAIN arr : l < i => l < i'
      BY <1>0, <2>1, <2>3
    <3>2. PhaseInv'
      BY <1>0, <1>2, <2>1, <2>3, <3>1 DEF PhaseInv
    <3> QED
      BY <2>1, <2>2, <2>3, <3>2 DEF SentInv, EndInv
  <2>4. CASE ~(i <= ulCount)
    <3>1. \A k \in DOMAIN mocaList :
            Reported(mocaList[k]) \/ mocaList[k].deviceMac \in Associated(arr)
      BY <1>1, <1>2, <2>1 DEF Associated
    <3>2. PhaseInv'
      BY <1>0, <2>1, <2>4, <3>1 DEF PhaseInv, Associated
    <3>3. ulCount = 0 => arr = << >>
      BY <1>0, EmptySeq DEF TypeOK
    <3> QED
      BY <1>0, <2>1, <2>2, <2>4, <3>2, <3>3 DEF SentInv, EndInv
  <2> QED
    BY <2>3, <2>4
<1>4. CASE FindDeviceInMoCAList
  <2>1. /\ mocaList' = mocaList /\ i' = i /\ pc["sync"] = "online" /\ pc'["sync"] = "write"
    BY <1>4 DEF FindDeviceInMoCAList, TypeOK
  <2>2. KnownInv'
    BY <1>0, <2>1 DEF AgreeInv, KnownInv
  <2>3. PhaseInv'
    BY <1>0, <1>2, <2>1 DEF PhaseInv
  <2> QED
    BY <2>1, <2>2, <2>3 DEF SentInv, EndInv
<1>5. CASE AddDevice
  <2> DEFINE n == Len(mocaList) + 1
  <2>1. /\ DOMAIN mocaList' = 1 .. n /\ DOMAIN mocaList = 1 .. Len(mocaList)
        /\ Len(mocaList) \in Nat
        /\ \A k \in DOMAIN mocaList : mocaList'[k] = mocaList[k]
        /\ mocaList'[n].deviceMac = arr[i] /\ mocaList'[n].StatusChange
    BY <1>5, AddAppends
  <2>2. i' = i + 1 /\ pc["sync"] = "write" /\ pc'["sync"] = "online"
    BY <1>5 DEF AddDevice, TypeOK
  <2>3. \A k \in DOMAIN mocaList' : k \in DOMAIN mocaList \/ k = n
    BY <2>1
  <2> HIDE DEF n
  <2>4. KnownInv'
    BY <1>0, <2>1, <2>2, <2>3 DEF AgreeInv, KnownInv
  <2>5. i \in DOMAIN arr /\ i < i' /\ \A l \in DOMAIN arr : l < i => l < i'
    BY <1>0, <2>2 DEF ScanInv
  <2>6. PhaseInv'
    BY <1>0, <1>2, <2>1, <2>2, <2>3, <2>5 DEF PhaseInv
  <2> QED
    BY <2>2, <2>4, <2>6 DEF SentInv, EndInv
<1>6. CASE UpdateDevice
  <2>0. NodeUpdated
    BY <1>6, UpdateEffect
  <2>1. /\ device \in DOMAIN mocaList /\ mocaList[device].deviceMac = arr[i]
        /\ mocaList[device] \in Node /\ DOMAIN mocaList' = DOMAIN mocaList
        /\ \A l \in DOMAIN mocaList : mocaList'[l].deviceMac = mocaList[l].deviceMac
        /\ \A l \in DOMAIN mocaList : l # device => mocaList'[l] = mocaList[l]
        /\ pc["sync"] \in WritePc
    BY <2>0 DEF NodeUpdated, FoundNodeLives
  <2>2. i \in DOMAIN arr /\ arr[i] \in Device
    BY <1>0, <2>1 DEF ScanInv
  <2>3. pc["sync"] = "write" => lmlite[arr[i]] = mocaList[device].Status
    <3>1. \A l \in DOMAIN arr : l < i => l # i
      BY <1>0
    <3>2. ~\E l \in DOMAIN arr : l < i /\ arr[l] = arr[i]
      BY <2>2, <3>1 DEF AgreeInv, OncePerTable
    <3> QED
      BY <1>2, <2>1, <3>2 DEF Reported, AgreeInv, KnownInv
  <2>4. ~mocaList'[device].StatusChange =>
            \/ lmlite[arr[i]] = mocaList'[device].Status
            \/ device' = device /\ pc'["sync"] \in {"updated", "changed"}
    <3>1. CASE pc["sync"] = "write"
      <4>1. mocaList'[device].Status = 1 /\ mocaList[device].Status \in {0, 1}
        BY <2>0, <2>1, <3>1 DEF NodeUpdated
      <4>2. pc'["sync"] = "updated" \/ mocaList[device].Status = 1
        BY <2>0, <3>1 DEF NodeUpdated, AfterWrite, TypeOK
      <4>3. device' = device
        BY <2>0, <3>1, UpdateMoves
      <4> QED
        BY <2>3, <3>1, <4>1, <4>2, <4>3
    <3>2. CASE pc["sync"] = "updated"
      BY <2>0, <3>2, UpdateMoves
    <3>3. CASE pc["sync"] = "changed"
      BY <2>0, <3>3 DEF NodeUpdated
    <3>4. CASE pc["sync"] \notin {"write", "updated", "changed"}
      <4>1. /\ mocaList'[device].Status = mocaList[device].Status
            /\ mocaList'[device].StatusChange = mocaList[device].StatusChange
        BY <2>0, <2>1, <3>4 DEF NodeUpdated
      <4> QED
        BY <2>1, <3>4, <4>1 DEF AgreeInv, KnownInv
    <3> QED
      BY <3>1, <3>2, <3>3, <3>4
  <2>5. KnownInv'
    <3>1. \A k \in DOMAIN mocaList : k # device /\ ~mocaList[k].StatusChange =>
                lmlite[mocaList[k].deviceMac] = mocaList[k].Status
      BY DEF AgreeInv, KnownInv
    <3> QED
      BY <1>0, <2>1, <2>4, <3>1 DEF KnownInv
  <2>6. PhaseInv'
    <3>1. CASE pc'["sync"] = "online"
      <4>1. i' = i + 1
        BY <2>0, <3>1, UpdateMoves
      <4>2. i < i' /\ \A l \in DOMAIN arr : l < i => l < i'
        BY <1>0, <4>1
      <4> QED
        BY <1>0, <1>2, <2>1, <2>2, <3>1, <4>2 DEF PhaseInv
    <3>2. CASE pc'["sync"] # "online"
      <4>1. i' = i /\ device' = device /\ pc'["sync"] \in WritePc \ {"write"}
        BY <2>0, <3>2, UpdateMoves
      <4> QED
        BY <1>0, <1>2, <2>1, <4>1 DEF PhaseInv
    <3> QED
      BY <3>1, <3>2
  <2>7. pc'["sync"] \in {"online"} \cup WritePc
    BY <2>0, UpdateMoves
  <2> QED
    BY <2>5, <2>6, <2>7 DEF SentInv, EndInv
<1> QED
  BY <1>3, <1>4, <1>5, <1>6

(* The offline pass and what follows it up to the next poll, Send apart. *)
LEMMA AgreeOffline ==
    ASSUME LosslessInv, Set_MoCADevices_Status_Offline
    PROVE  (KnownInv /\ PhaseInv /\ SentInv /\ EndInv)'
<1> USE DEF LosslessInv, SafeInv
<1>0. \A k \in DOMAIN mocaList : mocaList[k] \in Node /\ mocaList[k].deviceMac \in Device
  BY ListOfNodes DEF TypeOK
<1>1. /\ pc["sync"] = "offline" /\ pc'["sync"] = "lock" /\ arr' = arr /\ lmlite' = lmlite
      /\ ulCount' = ulCount
  BY DEF Set_MoCADevices_Status_Offline, TypeOK
<1>2. /\ DOMAIN mocaList' = DOMAIN mocaList
      /\ \A l \in DOMAIN mocaList :
           /\ mocaList'[l] = OfflineNode(mocaList[l])
           /\ mocaList'[l].deviceMac = mocaList[l].deviceMac
  BY OfflineKeeps
<1>3. \A k \in DOMAIN mocaList :
        /\ OfflineNode(mocaList[k]).StatusChange \/ OfflineNode(mocaList[k]) = mocaList[k]
        /\ OfflineNode(mocaList[k]).Status = 1 => ~Reported(mocaList[k])
  BY <1>0 DEF OfflineNode, Reported
<1>4. KnownInv'
  BY <1>1, <1>2, <1>3 DEF AgreeInv, KnownInv
<1>5. PhaseInv'
  BY <1>1, <1>2, <1>3 DEF AgreeInv, PhaseInv, Associated
<1> QED
  BY <1>1, <1>4, <1>5 DEF AgreeInv, SentInv, EndInv

LEMMA AgreeCleanup ==
    ASSUME LosslessInv, CleanupMoCAList \/ Wake
    PROVE  (KnownInv /\ PhaseInv /\ SentInv /\ EndInv)'
<1> USE DEF LosslessInv
<1>1. arr' = arr /\ lmlite' = lmlite
  BY DEF CleanupMoCAList, Wake
<1>2. CASE CleanupMoCAList
  <2>1. pc["sync"] = "cleanup" /\ pc'["sync"] = "sleep" /\ DOMAIN mocaList' = {}
    BY <1>2 DEF CleanupMoCAList, SafeInv, TypeOK
  <2> QED
    BY <1>1, <2>1 DEF AgreeInv, KnownInv, PhaseInv, SentInv, EndInv, ToldOnline, Associated
<1>3. CASE Wake
  <2>1. pc["sync"] = "sleep" /\ pc'["sync"] = "poll" /\ mocaList' = mocaList
    BY <1>3 DEF Wake, SafeInv, TypeOK
  <2> QED
    BY <1>1, <2>1 DEF AgreeInv, KnownInv, PhaseInv, SentInv, EndInv
<1> QED
  BY <1>2, <1>3

LEMMA AgreePoll ==
    ASSUME LosslessInv, PollCount \/ PollTable
    PROVE  (KnownInv /\ PhaseInv /\ SentInv /\ EndInv)'
<1> USE DEF LosslessInv
<1>1. /\ mocaList' = mocaList /\ lmlite' = lmlite /\ pc["sync"] \in {"poll", "table"}
  BY DEF PollCount, PollTable
<1>2. pc'["sync"] \in {"table", "online", "offline"}
  BY DEF PollCount, PollTable, SafeInv, TypeOK
<1>3. pc'["sync"] = "offline" => arr' = << >>
  BY DEF PollCount, PollTable, SafeInv, TypeOK, RoundInv
<1>4. \A k \in DOMAIN mocaList : Reported(mocaList[k])
  BY <1>1 DEF AgreeInv, CalmInv, CalmPhases
<1>5. KnownInv'
  BY <1>1 DEF AgreeInv, KnownInv
<1>6. PhaseInv'
  BY <1>1, <1>2, <1>4 DEF PhaseInv
<1> QED
  BY <1>2, <1>3, <1>5, <1>6 DEF SentInv, EndInv

(* Send, of the sync thread: what is passed over was told before, what is   *)
(* sent is told, and nothing else.                                          *)
LEMMA AgreeSend ==
    ASSUME Lossless, LosslessInv, Send("sync")
    PROVE  (KnownInv /\ PhaseInv /\ SentInv /\ EndInv)'
<1> USE DEF LosslessInv, SafeInv
<1> DEFINE c == cur["sync"]
<1>0. /\ DOMAIN mocaList = 1 .. Len(mocaList) /\ Len(mocaList) \in Nat
      /\ \A k \in DOMAIN mocaList : mocaList[k] \in Node
      /\ \A k \in DOMAIN mocaList : mocaList[k].deviceMac \in Device
      /\ c \in Nat
  BY ListOfNodes DEF TypeOK
<1>1. /\ arr' = arr /\ ulCount' = ulCount /\ device' = device
      /\ pc["sync"] \in {"lock"} \cup SendPc
      /\ pc'["sync"] \in SendPc \cup {"cleanup", "sleep"}
  BY SendMoves
<1>2. \A k \in DOMAIN mocaList :
        mocaList[k].Status = 1 => mocaList[k].deviceMac \in Associated(arr)
  BY <1>1 DEF AgreeInv, PhaseInv
<1>3. FlagsCleared("sync")
  BY SendEffect
<1>4. /\ DOMAIN mocaList' = DOMAIN mocaList
      /\ \A k \in DOMAIN mocaList :
           /\ mocaList'[k].deviceMac = mocaList[k].deviceMac
           /\ mocaList'[k].Status = mocaList[k].Status
           /\ k # c => mocaList'[k] = mocaList[k]
           /\ pc["sync"] # "clear" => mocaList'[k].StatusChange = mocaList[k].StatusChange
  BY <1>3 DEF FlagsCleared
<1>5. PhaseInv'
  BY <1>1, <1>2, <1>4 DEF PhaseInv, Associated
<1>6. ulCount = 0 => arr = << >>
  BY <1>1 DEF AgreeInv, EndInv
<1>7. pc'["sync"] \in SendPc => EndInv'
  BY <1>1, <1>6 DEF EndInv
<1>8. \A k \in DOMAIN mocaList : ~mocaList[k].StatusChange =>
            lmlite[mocaList[k].deviceMac] = mocaList[k].Status
  BY <1>1 DEF AgreeInv, KnownInv
<1>9. CASE SendCall("sync")
  <2> DEFINE mac == mocaList[c].deviceMac
  <2>1. /\ c \in DOMAIN mocaList /\ mac \in Device
        /\ \A d \in Device : d # mac => lmlite'[d] = lmlite[d]
        /\ lmlite'[mac] = line["sync"]
        /\ pc["sync"] = "format" /\ pc'["sync"] = "ack" /\ cur' = cur /\ mocaList' = mocaList
    BY <1>9, CallEffect, NoFaults
  <2>2. lmlite'[mac] = mocaList[c].Status
    BY <2>1 DEF LineInv
  <2>3. \A k \in DOMAIN mocaList : mocaList[k].deviceMac = mac => k = c
    BY <2>1 DEF UniqueMac
  <2> HIDE DEF mac
  <2>4. \A k \in DOMAIN mocaList : ~mocaList[k].StatusChange =>
            lmlite'[mocaList[k].deviceMac] = mocaList[k].Status
    <3>1. SUFFICES ASSUME NEW k \in DOMAIN mocaList, ~mocaList[k].StatusChange
                   PROVE  lmlite'[mocaList[k].deviceMac] = mocaList[k].Status
      OBVIOUS
    <3>2. CASE k = c
      BY <2>2, <3>2 DEF mac
    <3>3. CASE k # c
      <4>1. lmlite'[mocaList[k].deviceMac] = lmlite[mocaList[k].deviceMac]
        BY <1>0, <2>1, <2>3, <3>3
      <4> QED
        BY <1>8, <3>1, <4>1
    <3> QED
      BY <3>2, <3>3
  <2>5. KnownInv'
    BY <2>1, <2>4 DEF KnownInv
  <2>6. SentInv'
    BY <2>1, <2>2 DEF SentInv, mac
  <2> QED
    BY <1>5, <1>7, <2>1, <2>5, <2>6
<1>10. CASE SendAck("sync") \/ SendClear("sync")
  <2>1. lmlite' = lmlite /\ pc["sync"] \in {"ack", "clear"}
    BY <1>10 DEF SendAck, SendClear
  <2>2. lmlite[mocaList[c].deviceMac] = mocaList[c].Status
    BY <2>1 DEF AgreeInv, SentInv
  <2>3. c \in DOMAIN mocaList
    BY <1>0, <2>1, CursorLives
  <2>4. KnownInv'
    BY <1>4, <1>8, <2>1, <2>2 DEF KnownInv
  <2>5. pc'["sync"] = "send" \/ (pc'["sync"] = "clear" /\ cur' = cur)
    BY <1>10 DEF SendAck, SendClear, TypeOK
  <2>6. SentInv'
    BY <1>4, <2>1, <2>2, <2>3, <2>5 DEF SentInv
  <2> QED
    BY <1>5, <1>7, <2>4, <2>5, <2>6
<1>11. CASE SendLock("sync") \/ SendSkip("sync") \/ SendFormat("sync")
  <2>1. /\ lmlite' = lmlite /\ pc["sync"] # "clear" /\ pc'["sync"] \in {"send", "format"}
    BY <1>11 DEF SendLock, SendSkip, SendFormat, TypeOK
  <2>2. KnownInv'
    BY <1>4, <1>8, <2>1 DEF KnownInv
  <2> QED
    BY <1>5, <1>7, <2>1, <2>2 DEF SentInv
<1>12. CASE SendEnd("sync")
  <2>1. /\ mocaList' = mocaList /\ lmlite' = lmlite /\ pc["sync"] = "send" /\ c > Len(mocaList)
        /\ \/ pc'["sync"] = "cleanup" /\ ulCount = 0
           \/ pc'["sync"] = "sleep"
    BY <1>12 DEF SendEnd, AfterSend, TypeOK
  <2>2. \A k \in DOMAIN mocaList : k < c
    BY <1>0, <2>1
  <2>3. \A k \in DOMAIN mocaList : Reported(mocaList[k])
    BY <2>1, <2>2 DEF AgreeInv, CalmInv, CalmSend
  <2>4. \A k \in DOMAIN mocaList :
          lmlite[mocaList[k].deviceMac] = mocaList[k].Status
    BY <1>8, <2>3 DEF Reported
  <2>5. \A d \in Associated(arr) : Online(d)
    BY <2>1 DEF AgreeInv, RoundInv
  <2>6. ToldOnline = Associated(arr)
    <3>1. ASSUME NEW d \in Device, lmlite[d] = 1 PROVE d \in Associated(arr)
      <4>1. PICK k \in DOMAIN mocaList : mocaList[k].deviceMac = d
        BY <3>1 DEF AgreeInv, CalmInv, ListedInv
      <4> QED
        BY <1>2, <2>4, <3>1, <4>1
    <3>2. ASSUME NEW d \in Associated(arr) PROVE d \in Device /\ lmlite[d] = 1
      <4>1. PICK k \in DOMAIN mocaList : mocaList[k].deviceMac = d /\ mocaList[k].Status = 1
        BY <2>5 DEF Online
      <4> QED
        BY <2>4, <4>1 DEF Associated
    <3> QED
      BY <3>1, <3>2 DEF ToldOnline
  <2>7. KnownInv' /\ SentInv'
    BY <1>8, <2>1 DEF KnownInv, SentInv
  <2>8. EndInv'
    BY <1>1, <1>6, <2>1, <2>6 DEF EndInv, ToldOnline, Associated
  <2> QED
    BY <1>5, <2>7, <2>8
<1> QED
  BY <1>9, <1>10, <1>11, <1>12 DEF Send

(* A table that only shrank is covered by the number asked for before. *)
LEMMA GrewStep ==
    ASSUME LosslessInv, [Next]_vars
    PROVE  GrewInv'
<1> USE DEF LosslessInv, SafeInv
<1>0. assoc \in Seq(Device) /\ Len(assoc) \in Nat /\ DOMAIN assoc = 1 .. Len(assoc)
      /\ ulCount \in Nat
  BY LenProperties DEF TypeOK
<1>1. CASE PollCount
  BY <1>0, <1>1 DEF PollCount, GrewInv, TypeOK
<1>2. CASE AssocChange
  <2>1. pc' = pc /\ ulCount' = ulCount
    BY <1>2 DEF AssocChange
  <2>2. ASSUME NEW k \in DOMAIN assoc, assoc' = RemoveAt(assoc, k), grew' = grew
        PROVE  GrewInv'
    <3>1. Len(assoc') = Len(assoc) - 1
      BY <1>0, <2>2, RemovedAt
    <3>2. Len(assoc') \in Nat /\ Len(assoc') <= Len(assoc)
      <4>1. assoc' \in Seq(Device)
        BY <1>2, AssocTyped
      <4> HIDE DEF LosslessInv, SafeInv
      <4> QED
        BY <1>0, <3>1, <4>1, LenProperties
    <3>3. pc["sync"] = "table" /\ ~grew => Len(assoc) <= ulCount
      BY DEF AgreeInv, GrewInv
    <3>4. grew' = grew
      BY <2>2
    <3> HIDE DEF LosslessInv, SafeInv
    <3> QED
      BY <1>0, <2>1, <3>2, <3>3, <3>4 DEF GrewInv
  <2> QED
    BY <1>2, <2>2 DEF AssocChange, GrewInv
<1>3. CASE Restart
  BY <1>3 DEF Restart, InitialPc, GrewInv
<1>4. CASE UpdateDevice
  BY <1>4, UpdateEffect, UpdateMoves DEF GrewInv
<1>5. ASSUME NEW t \in Thread, Send(t) PROVE GrewInv'
  BY <1>5, SendMoves DEF AgreeInv, GrewInv
<1>6. CASE PollTable \/ SkipEntry \/ FindDeviceInMoCAList \/ AddDevice
           \/ Set_MoCADevices_Status_Offline \/ CleanupMoCAList \/ Wake
  BY <1>6 DEF PollTable, SkipEntry, FindDeviceInMoCAList, AddDevice,
              Set_MoCADevices_Status_Offline, CleanupMoCAList, Wake, GrewInv, TypeOK
<1>7. CASE PAMAnswers \/ HostSync \/ UNCHANGED vars
  <2>1. assoc' = assoc /\ grew' = grew /\ ulCount' = ulCount /\ pc'["sync"] = pc["sync"]
    BY <1>7 DEF PAMAnswers, HostSync, vars, TypeOK
  <2> QED
    BY <2>1 DEF AgreeInv, GrewInv
<1> QED
  BY <1>1, <1>2, <1>3, <1>4, <1>5, <1>6, <1>7
  DEF Next, SynchronizeMoCADevices, Environment

LEMMA AgreeStep ==
    ASSUME Lossless, LosslessInv, SafeInv', [Next]_vars
    PROVE  AgreeInv'
<1> USE DEF LosslessInv
<1>1. Silent' /\ Calm' /\ OncePerTable(assoc)' /\ OncePerTable(arr)' /\ GrewInv'
  BY QuietKept, OnceStep, GrewStep DEF AgreeInv
<1>2. ~HostSync /\ ~Restart
  BY NoFaults
<1>3. ~Send("bus")
  BY SendMoves DEF AgreeInv, RoundInv, SafeInv
<1>4. CASE SynchronizeMoCADevices
  BY <1>1, <1>4, AgreePoll, AgreeWalk, AgreeOffline, AgreeSend, AgreeCleanup
  DEF SynchronizeMoCADevices, AgreeInv
<1>5. CASE PAMAnswers \/ AssocChange \/ UNCHANGED vars
  <2>1. /\ mocaList' = mocaList /\ lmlite' = lmlite /\ pc' = pc /\ arr' = arr
        /\ ulCount' = ulCount /\ i' = i /\ cur' = cur /\ device' = device
    BY <1>5 DEF PAMAnswers, AssocChange, vars
  <2>2. KnownInv' /\ PhaseInv' /\ SentInv'
    BY <2>1 DEF AgreeInv, KnownInv, PhaseInv, SentInv, Associated
  <2>3. EndInv'
    BY <2>1 DEF AgreeInv, EndInv, ToldOnline, Associated
  <2> QED
    BY <1>1, <2>2, <2>3 DEF AgreeInv
<1> QED
  BY <1>2, <1>3, <1>4, <1>5 DEF Next, Environment

LEMMA AgreeInit ==
    ASSUME Init
    PROVE  AckInv /\ ToldInv /\ CalmInv /\ RoundInv /\ LineInv /\ AgreeInv
<1>1. /\ pc["sync"] = "poll" /\ mocaList = << >> /\ DOMAIN mocaList = {}
      /\ arr = << >> /\ assoc = << >> /\ \A f \in Fault : used[f] = 0
      /\ \A d \in Device : lmlite[d] = 0
      /\ \A t \in Thread : ~Held(t)
  BY DEF Init, InitialPc, Held
<1>2. AckInv /\ ToldInv /\ CalmInv /\ LineInv
  BY <1>1 DEF AckInv, ToldInv, CalmInv, ListedInv, CalmPhases, CalmSend, LineInv
<1>3. AgreeInv
  BY <1>1 DEF AgreeInv, Silent, Calm, OncePerTable, KnownInv, PhaseInv, SentInv, EndInv, GrewInv
<1> QED
  BY <1>2, <1>3, RoundInit

LEMMA AgreesAlways ==
    ASSUME Lossless
    PROVE  Spec => []LosslessInv
<1>1. Init => LosslessInv
  BY AgreeInit, SafeInit DEF LosslessInv
<1>2. LosslessInv /\ [Next]_vars => LosslessInv'
  <2>1. ASSUME LosslessInv, [Next]_vars PROVE LosslessInv'
    <3>1. SafeInv'
      BY <2>1, SafeStep DEF LosslessInv
    <3> QED
      BY <2>1, <3>1, AckStep, ToldStep, CalmStep, RoundStep, LineStep, AgreeStep
      DEF LosslessInv
  <2> QED
    BY <2>1
<1> QED
  BY <1>1, <1>2, PTL DEF Spec

(* As long as every report arrives, nobody asks for HostSync and the agent  *)
(* runs, LM Lite holds online at the end of each round exactly the devices  *)
(* of the table of that round, however devices come and go and polls fail.  *)
THEOREM RoundsAgree ==
    ASSUME Lossless
    PROVE  Spec => []RoundAgreement
<1>1. LosslessInv => RoundAgreement
  BY DEF LosslessInv, AgreeInv, EndInv, RoundAgreement
<1> QED
  BY <1>1, AgreesAlways, PTL

(* What a step that is none of AssocReport's leaves alone. *)
LEMMA ReportStutters ==
    ASSUME lmlite' = lmlite, arr' = arr, assoc' = assoc, grew' = grew,
           used'["halFail"] = used["halFail"],
           (pc'["sync"] \in {"poll", "table"}) = (pc["sync"] \in {"poll", "table"})
    PROVE  UNCHANGED Rounds!reportVars
<1>1. ToldOnline' = ToldOnline /\ Associated(arr)' = Associated(arr)
      /\ Associated(assoc)' = Associated(assoc)
  BY DEF ToldOnline, Associated
<1> QED
  BY <1>1 DEF Rounds!reportVars

(* A poll that finds devices asks for their number first. *)
LEMMA PollReports ==
    ASSUME LosslessInv, PollCount \/ PollTable
    PROVE  Rounds!BeginPoll \/ Rounds!Poll \/ Rounds!FailedPoll
<1> USE DEF LosslessInv, SafeInv
<1>1. /\ pc["sync"] \in {"poll", "table"} /\ ToldOnline' = ToldOnline
      /\ Associated(assoc)' = Associated(assoc) /\ assoc' = assoc
  BY DEF PollCount, PollTable, ToldOnline, Associated
<1>2. used["halFail"] \in Nat /\ grew \in BOOLEAN /\ ulCount \in Nat
      /\ DOMAIN assoc = 1 .. Len(assoc) /\ Len(assoc) \in Nat
      /\ \A k \in DOMAIN assoc : assoc[k] \in Device
  BY LenProperties, ElementOfSeq DEF TypeOK
<1>3. Associated(<< >>) = {}
  BY DEF Associated
<1>4. CASE PollCount /\ pc'["sync"] = "table"
  <2>1. grew' = FALSE /\ used' = used
    BY <1>4 DEF PollCount, TypeOK
  <2> QED
    BY <1>1, <1>4, <2>1 DEF Rounds!BeginPoll
<1>5. CASE PollCount /\ pc'["sync"] = "offline"
  <2>1. grew' = FALSE /\ Associated(arr)' = {}
    BY <1>3, <1>5 DEF PollCount, Associated
  <2>2. CASE assoc = << >>
    <3>1. used' = used /\ Associated(assoc) = {}
      BY <1>3, <1>5, <2>2 DEF PollCount, TypeOK
    <3> QED
      BY <1>1, <1>5, <2>1, <3>1 DEF Rounds!Poll
  <2>3. CASE assoc # << >>
    <3>1. used'["halFail"] = used["halFail"] + 1
      BY <1>2, <1>5, <2>3 DEF PollCount, Spend, TypeOK
    <3> QED
      BY <1>1, <1>5, <2>1, <3>1 DEF Rounds!FailedPoll
  <2> QED
    BY <2>2, <2>3
<1>6. CASE PollTable /\ pc'["sync"] = "online"
  <2>1. /\ arr' = [k \in 1 .. ulCount |-> IF k <= Len(assoc) THEN assoc[k] ELSE Zero]
        /\ grew' = grew /\ used' = used /\ pc["sync"] = "table"
    BY <1>6 DEF PollTable, TypeOK
  <2>2. Associated(arr)' \subseteq Associated(assoc)
    BY <1>2, <2>1, ZeroAssumption DEF Associated
  <2>3. ASSUME ~grew PROVE Associated(assoc) \subseteq Associated(arr)'
    <3>1. Len(assoc) <= ulCount
      BY <2>1, <2>3 DEF AgreeInv, GrewInv
    <3>2. \A k \in DOMAIN assoc : k \in 1 .. ulCount /\ arr'[k] = assoc[k]
      BY <1>2, <2>1, <3>1
    <3> QED
      BY <1>2, <2>1, <3>2 DEF Associated
  <2> QED
    BY <1>1, <1>6, <2>1, <2>2, <2>3 DEF Rounds!Poll
<1>7. CASE PollTable /\ pc'["sync"] = "offline"
  <2>1. arr' = << >>
    BY <1>7 DEF PollTable, TypeOK, RoundInv
  <2>2. grew' = grew /\ Associated(arr)' = {} /\ used'["halFail"] = used["halFail"] + 1
    BY <1>2, <1>3, <1>7, <2>1 DEF PollTable, Spend, TypeOK, Associated
  <2> QED
    BY <1>1, <1>7, <2>2 DEF Rounds!FailedPoll
<1>8. pc'["sync"] \in {"table", "offline"} \/ (PollTable /\ pc'["sync"] = "online")
  BY DEF PollCount, PollTable, TypeOK
<1>9. PollTable => pc'["sync"] # "table"
  BY DEF PollTable, TypeOK
<1> QED
  BY <1>4, <1>5, <1>6, <1>7, <1>8, <1>9

(* A report is of a join or a leave, or tells nothing new. *)
LEMMA CallReportsChange ==
    ASSUME Lossless, LosslessInv, SendCall("sync")
    PROVE  Rounds!Next \/ UNCHANGED Rounds!reportVars
<1> USE DEF LosslessInv, SafeInv
<1> DEFINE node == mocaList[cur["sync"]]
           d == node.deviceMac
<1>1. /\ cur["sync"] \in DOMAIN mocaList /\ node \in Node /\ d \in Device
      /\ \A e \in Device : e # d => lmlite'[e] = lmlite[e]
      /\ lmlite'[d] \in {lmlite[d], node.Status}
      /\ pc["sync"] = "format" /\ pc'["sync"] = "ack" /\ used' = used
  BY CallEffect, NoFaults DEF LineInv
<1>2. node.Status \in {0, 1} /\ lmlite[d] \in {0, 1}
  BY <1>1 DEF TypeOK
<1>3. arr' = arr /\ assoc' = assoc /\ grew' = grew
  BY DEF SendCall
<1>4. /\ Associated(arr)' = Associated(arr) /\ Associated(assoc)' = Associated(assoc)
      /\ used'["halFail"] = used["halFail"]
  BY <1>1, <1>3 DEF Associated
<1>5. node.Status = 1 => d \in Associated(arr)
  BY <1>1 DEF AgreeInv, PhaseInv
<1>6. node.Status = 0 => d \notin Associated(arr)
  BY <1>1, OfflineAbsent DEF AgreeInv
<1> HIDE DEF d, node
<1>7. CASE lmlite'[d] = lmlite[d]
  <2>1. ToldOnline' = ToldOnline
    BY <1>1, <1>7 DEF ToldOnline
  <2> QED
    BY <1>1, <1>3, <1>4, <2>1 DEF Rounds!reportVars
<1>8. CASE lmlite'[d] = 1 /\ lmlite[d] = 0
  <2>1. ToldOnline' = ToldOnline \cup {d} /\ d \notin ToldOnline
    BY <1>1, <1>8 DEF ToldOnline
  <2>2. d \in Associated(arr)
    BY <1>1, <1>5, <1>8
  <2>3. Rounds!Joined(d)
    BY <1>1, <1>3, <1>4, <2>1, <2>2 DEF Rounds!Joined
  <2> QED
    BY <1>1, <2>3 DEF Rounds!Next
<1>9. CASE lmlite'[d] = 0 /\ lmlite[d] = 1
  <2>1. ToldOnline' = ToldOnline \ {d} /\ d \in ToldOnline
    BY <1>1, <1>9 DEF ToldOnline
  <2>2. d \notin Associated(arr)
    BY <1>1, <1>6, <1>9
  <2>3. Rounds!Left(d)
    BY <1>1, <1>3, <1>4, <2>1, <2>2 DEF Rounds!Left
  <2> QED
    BY <1>1, <2>3 DEF Rounds!Next
<1> QED
  BY <1>1, <1>2, <1>7, <1>8, <1>9

LEMMA ChangeReports ==
    ASSUME LosslessInv, AssocChange
    PROVE  Rounds!Change
<1> USE DEF LosslessInv, SafeInv
<1>1. /\ ToldOnline' = ToldOnline /\ Associated(arr)' = Associated(arr) /\ pc' = pc
      /\ grew \in BOOLEAN
  BY DEF AssocChange, ToldOnline, Associated, TypeOK
<1>2. used'["halFail"] = used["halFail"]
  BY DEF AssocChange, Spend, TypeOK
<1>3. Associated(assoc)' \in SUBSET Device
  BY DEF Associated
<1>4. ASSUME NEW k \in DOMAIN assoc, assoc' = RemoveAt(assoc, k)
      PROVE  Associated(assoc)' \subseteq Associated(assoc)
  <2>0. assoc \in Seq(Device) /\ Len(assoc) \in Nat /\ DOMAIN assoc = 1 .. Len(assoc)
    BY LenProperties DEF TypeOK
  <2> DEFINE u == RemoveAt(assoc, k)
  <2>1. /\ DOMAIN u = 1 .. Len(assoc) - 1
        /\ \A l \in 1 .. Len(assoc) - 1 : u[l] = IF l < k THEN assoc[l] ELSE assoc[l + 1]
    BY <2>0, RemovedAt
  <2> HIDE DEF u
  <2>2. \A l \in DOMAIN u : \E m \in DOMAIN assoc : u[l] = assoc[m]
    BY <2>0, <2>1
  <2>3. Associated(u) \subseteq Associated(assoc)
    BY <2>2 DEF Associated
  <2>4. Associated(assoc)' = Associated(u)
    BY <1>4 DEF Associated, u
  <2> QED
    BY <2>3, <2>4
<1>5. \/ grew' = TRUE
      \/ grew' = grew /\ Associated(assoc)' \subseteq Associated(assoc)
  BY <1>4 DEF AssocChange
<1> QED
  BY <1>1, <1>2, <1>3, <1>5 DEF Rounds!Change

(* The other steps are stutters of AssocReport. *)
LEMMA OthersStutter ==
    ASSUME LosslessInv,
           \/ SkipEntry \/ FindDeviceInMoCAList \/ AddDevice \/ UpdateDevice
           \/ Set_MoCADevices_Status_Offline \/ CleanupMoCAList
           \/ Send("sync") /\ ~SendCall("sync")
           \/ PAMAnswers \/ UNCHANGED vars
    PROVE  UNCHANGED Rounds!reportVars
<1> USE DEF LosslessInv, SafeInv
<1>1. CASE UpdateDevice
  <2>1. NodeUpdated
    BY <1>1, UpdateEffect
  <2>2. pc["sync"] \in WritePc /\ pc'["sync"] \in {"online"} \cup WritePc
    BY <2>1, UpdateMoves DEF NodeUpdated
  <2> QED
    BY <2>1, <2>2, ReportStutters DEF NodeUpdated
<1>2. CASE Send("sync") /\ ~SendCall("sync")
  <2>1. lmlite' = lmlite /\ used' = used
    BY <1>2 DEF Send, SendLock, SendSkip, SendFormat, SendAck, SendClear, SendEnd
  <2>2. /\ arr' = arr /\ assoc' = assoc /\ grew' = grew
        /\ pc["sync"] \in {"lock"} \cup SendPc
        /\ pc'["sync"] \in SendPc \cup {"cleanup", "sleep"}
    BY <1>2, SendMoves
  <2> QED
    BY <2>1, <2>2, ReportStutters
<1>3. CASE SkipEntry \/ FindDeviceInMoCAList \/ AddDevice
           \/ Set_MoCADevices_Status_Offline \/ CleanupMoCAList
  <2>1. /\ UNCHANGED <<arr, envVars>>
        /\ pc["sync"] \notin {"poll", "table"} /\ pc'["sync"] \notin {"poll", "table"}
    BY <1>3 DEF SkipEntry, FindDeviceInMoCAList, AddDevice,
                Set_MoCADevices_Status_Offline, CleanupMoCAList, TypeOK
  <2> QED
    BY <2>1, ReportStutters
<1>4. CASE PAMAnswers \/ UNCHANGED vars
  <2>1. UNCHANGED <<arr, pc, envVars>>
    BY <1>4 DEF PAMAnswers, vars
  <2> QED
    BY <2>1, ReportStutters
<1> QED
  BY <1>1, <1>2, <1>3, <1>4

(* The next round begins with what LM Lite was told in this one. *)
LEMMA WakeStutters ==
    ASSUME LosslessInv, Wake
    PROVE  UNCHANGED Rounds!reportVars
<1>1. /\ pc["sync"] = "sleep" /\ pc'["sync"] = "poll" /\ UNCHANGED <<arr, envVars>>
  BY DEF Wake, LosslessInv, SafeInv, TypeOK
<1>2. ToldOnline = Associated(arr) /\ ToldOnline' = ToldOnline
      /\ Associated(assoc)' = Associated(assoc)
  BY <1>1 DEF LosslessInv, AgreeInv, EndInv, ToldOnline, Associated
<1> QED
  BY <1>1, <1>2 DEF Rounds!reportVars

(* Under the same conditions the rounds implement AssocReport, with the     *)
(* HAL's table for the network: each poll that does not fail takes the      *)
(* network, unless a device joins meanwhile, LM Lite is told the joins and  *)
(* leaves between two polls, each once, and nothing else, and the next poll *)
(* waits until all are told.  (That they are told at last rests on fairness *)
(* and is left to TLC.)                                                     *)
THEOREM RoundsImplementReports ==
    ASSUME Lossless
    PROVE  Spec => Rounds!Spec
<1>1. Init => Rounds!Init
  <2>1. ASSUME Init
        PROVE  /\ ToldOnline = {} /\ pc["sync"] = "poll" /\ Associated(assoc) = {}
               /\ grew = FALSE /\ used["halFail"] = 0
    BY <2>1 DEF Init, InitialPc, ToldOnline, Associated
  <2> QED
    BY <2>1 DEF Rounds!Init
<1>2. LosslessInv /\ [Next]_vars => [Rounds!Next]_(Rounds!reportVars)
  <2> SUFFICES ASSUME LosslessInv, [Next]_vars
               PROVE  Rounds!Next \/ UNCHANGED Rounds!reportVars
    OBVIOUS
  <2>1. ~HostSync /\ ~Restart
    BY NoFaults DEF LosslessInv
  <2>2. ~Send("bus")
    BY SendMoves DEF LosslessInv, AgreeInv, RoundInv, SafeInv
  <2>3. CASE PollCount \/ PollTable
    BY <2>3, PollReports DEF Rounds!Next
  <2>4. CASE AssocChange
    BY <2>4, ChangeReports DEF Rounds!Next
  <2>5. CASE SendCall("sync")
    BY <2>5, CallReportsChange
  <2>6. CASE Wake
    BY <2>6, WakeStutters
  <2> QED
    BY <2>1, <2>2, <2>3, <2>4, <2>5, <2>6, OthersStutter
    DEF Next, SynchronizeMoCADevices, Environment
<1> QED
  BY <1>1, <1>2, AgreesAlways, PTL DEF Spec, Rounds!Spec

=============================================================================
