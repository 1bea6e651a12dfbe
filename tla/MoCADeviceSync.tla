--------------------------- MODULE MoCADeviceSync ---------------------------
(***************************************************************************)
(* The device synchronisation of cosa_moca_network_info.c.                 *)
(*                                                                         *)
(* The thread SynchronizeMoCADevices ("sync") polls the association table  *)
(* of the MoCA HAL, merges it into the linked list mocaList and reports    *)
(* the nodes whose status changed to LM Lite.  The message-bus thread      *)
(* ("bus") reports the whole list when X_RDKCENTRAL-COM_MoCAHost_Sync is   *)
(* set.  mocaListMutex is held by Find, Add, Offline, Cleanup (one step    *)
(* each, nothing in them blocks) and, across the blocking bus calls, by    *)
(* Send_Update_to_LMLite, whose steps are therefore separate actions.      *)
(* A node that was found is written to after Find has released the mutex,  *)
(* and Send may be at that node: each write is an action, and so is each   *)
(* time Send reads or writes a node.                                       *)
(*                                                                         *)
(* The HAL, PAM (which knows this device's own MAC) and LM Lite are        *)
(* external.  The Max* constants bound how often the environment acts.     *)
(***************************************************************************)
EXTENDS Naturals, Sequences, SequencesExt

CONSTANTS
    Device,         \* MAC addresses of the MoCA nodes that may associate
    Zero,           \* the MAC 00:00:00:00:00:00 of an entry HAL left unwritten
    MaxChange,      \* bound: joins and leaves
    MaxHostSync,    \* bound: HostSync requests
    MaxLMRestart,   \* bound: HostSync requests of an LM Lite that restarted
    MaxSendFail,    \* bound: reports that are not acknowledged
    MaxHalFail,     \* bound: HAL calls that fail
    MaxRestart      \* bound: restarts of the agent

ASSUME ZeroAssumption == Zero \notin Device

ASSUME BoundAssumption ==
    /\ MaxChange \in Nat /\ MaxHostSync \in Nat /\ MaxLMRestart \in Nat
    /\ MaxSendFail \in Nat /\ MaxHalFail \in Nat /\ MaxRestart \in Nat

VARIABLES
    assoc,      \* the HAL's association table, in the HAL's order
    mocaList,   \* the linked list, << >> when mocaList is NULL
    mutex,      \* holder of mocaListMutex across steps: "none", "sync", "bus"
    pc,         \* control point of each thread
    ulCount,    \* the number of associated devices the HAL announced
    arr,        \* ppDeviceArray, the table this round works on
    i,          \* loop index of the sync thread over arr
    device,     \* device_info: position of the found node, 0 for NULL
    cur,        \* Send's cursor, per thread
    line,       \* the Status in the line that Send formats, per thread
    ret,        \* Send's result of the bus call, per thread
    deviceMAC,  \* whether this device's own MAC is known yet
    lmlite,     \* the Status that LM Lite holds of each device
    grew,       \* history: a device joined since the number was asked for
    used        \* how often each bounded environment action happened

syncVars == <<ulCount, arr, i, device>>
sendVars == <<cur, line, ret>>
envVars == <<assoc, grew, lmlite, used>>
vars == <<mocaList, mutex, pc, syncVars, sendVars, deviceMAC, envVars>>

-----------------------------------------------------------------------------
Thread == {"sync", "bus"}

Fault == {"change", "hostSync", "lmRestart", "sendFail", "halFail", "restart"}

Bound == [change |-> MaxChange, hostSync |-> MaxHostSync,
          lmRestart |-> MaxLMRestart, sendFail |-> MaxSendFail,
          halFail |-> MaxHalFail, restart |-> MaxRestart]

(* The strings of a node that are given back and allocated anew while it is *)
(* in the list.                                                             *)
String == {"AssociatedDevice", "ssidType"}

(* A node; freed are its strings that were given back and are not set yet.  *)
Node == [deviceMac : Device, Status : {0, 1}, Updated : BOOLEAN,
         StatusChange : BOOLEAN, freed : SUBSET String]

SendPc == {"send", "format", "ack", "clear"}    \* in Send, mutex held

WritePc == {"write", "confirm", "updated", "changed", "free", "path", "freeType",
            "type"}                             \* in Set_..._Online, after Find

SyncPc == {"poll", "table", "online", "offline", "lock", "cleanup", "sleep"}
          \cup WritePc \cup SendPc

BusPc == {"idle", "lock"} \cup SendPc

InitialPc == [t \in Thread |-> IF t = "sync" THEN "poll" ELSE "idle"]

(* Environment action f may happen once more. *)
Spend(f) == /\ used[f] < Bound[f]
            /\ used' = [used EXCEPT ![f] = @ + 1]

Goto(t, l) == pc' = [pc EXCEPT ![t] = l]

Held(t) == pc[t] \in SendPc

(* The nodes of the list for a MAC. *)
Positions(d) == {k \in DOMAIN mocaList : mocaList[k].deviceMac = d}

-----------------------------------------------------------------------------
TypeOK ==
    /\ assoc \in Seq(Device)
    /\ mocaList \in Seq(Node)
    /\ mutex \in Thread \cup {"none"}
    /\ pc \in [Thread -> SyncPc \cup BusPc]
    /\ pc["sync"] \in SyncPc /\ pc["bus"] \in BusPc
    /\ ulCount \in Nat
    /\ arr \in Seq(Device \cup {Zero})
    /\ i \in Nat
    /\ device \in Nat
    /\ cur \in [Thread -> Nat]
    /\ line \in [Thread -> {0, 1}]
    /\ ret \in [Thread -> BOOLEAN]
    /\ deviceMAC \in BOOLEAN
    /\ lmlite \in [Device -> {0, 1}]
    /\ grew \in BOOLEAN
    /\ used \in [Fault -> Nat]

Init ==
    /\ assoc = << >>
    /\ mocaList = << >>
    /\ mutex = "none"
    /\ pc = InitialPc
    /\ ulCount = 0
    /\ arr = << >>
    /\ i = 0
    /\ device = 0
    /\ cur = [t \in Thread |-> 0]
    /\ line = [t \in Thread |-> 0]
    /\ ret = [t \in Thread |-> FALSE]
    /\ deviceMAC = FALSE
    /\ lmlite = [d \in Device |-> 0]
    /\ grew = FALSE
    /\ used = [f \in Fault |-> 0]

-----------------------------------------------------------------------------
(* MocaIf_GetAssocDevices, first half: moca_GetMocaCPEs and                 *)
(* moca_GetNumAssociatedDevices.  A failure of either, or nobody            *)
(* associated, leaves no array.                                             *)
PollCount ==
    /\ pc["sync"] = "poll"
    /\ \/ /\ assoc # << >>
          /\ ulCount' = Len(assoc)
          /\ Goto("sync", "table")
          /\ UNCHANGED used
       \/ /\ IF assoc = << >> THEN UNCHANGED used ELSE Spend("halFail")
          /\ ulCount' = 0
          /\ Goto("sync", "offline")
    /\ arr' = << >>
    /\ grew' = FALSE
    /\ UNCHANGED <<mocaList, mutex, i, device, sendVars, deviceMAC, assoc, lmlite>>

(* Second half: moca_GetAssociatedDevices fills a zeroed array of which     *)
(* the ulCount entries announced before are used.                           *)
PollTable ==
    /\ pc["sync"] = "table"
    /\ \/ /\ arr' = [k \in 1..ulCount |->
                        IF k <= Len(assoc) THEN assoc[k] ELSE Zero]
          /\ i' = 1
          /\ Goto("sync", "online")
          /\ UNCHANGED <<ulCount, used>>
       \/ /\ Spend("halFail")
          /\ ulCount' = 0
          /\ Goto("sync", "offline")
          /\ UNCHANGED <<arr, i>>
    /\ UNCHANGED <<mocaList, mutex, device, sendVars, deviceMAC, assoc, grew, lmlite>>

(* An entry whose MAC is zero is passed over; after the last one the loop   *)
(* ends.                                                                    *)
SkipEntry ==
    /\ pc["sync"] = "online"
    /\ IF i <= ulCount
       THEN arr[i] = Zero /\ i' = i + 1 /\ UNCHANGED pc
       ELSE Goto("sync", "offline") /\ UNCHANGED i
    /\ UNCHANGED <<mocaList, mutex, ulCount, arr, device, sendVars, deviceMAC,
                   envVars>>

(* FindDeviceInMoCAList: the first node with this MAC, searched under the   *)
(* mutex, which is released before the pointer is returned.                 *)
FoundPrevious(mac) ==                                               \* mutant
    IF Positions(mac) = {} THEN 0 ELSE (CHOOSE k \in Positions(mac) : TRUE) - 1

Found(mac) ==
    IF Positions(mac) = {} THEN 0
    ELSE CHOOSE k \in Positions(mac) : \A l \in Positions(mac) : k <= l

FindDeviceInMoCAList ==
    /\ pc["sync"] = "online"
    /\ i <= ulCount
    /\ arr[i] # Zero
    /\ mutex = "none"
    /\ device' = Found(arr[i])
    /\ Goto("sync", "write")
    /\ UNCHANGED <<mocaList, mutex, ulCount, arr, i, sendVars, deviceMAC, envVars>>

(* getDeviceMac asks PAM in a loop that ends with the answer only. *)
PAMAnswers ==
    /\ pc["sync"] = "write"
    /\ device = 0
    /\ ~deviceMAC
    /\ deviceMAC' = TRUE
    /\ UNCHANGED <<mocaList, mutex, pc, syncVars, sendVars, envVars>>

(* Set_MoCADevices_Status_Online for a MAC that has no node, with           *)
(* add_to_moca_list, which appends under the mutex.                         *)
AddDevice ==
    /\ pc["sync"] = "write"
    /\ device = 0
    /\ deviceMAC
    /\ mutex = "none"
    /\ mocaList' = Append(mocaList,
            [deviceMac |-> arr[i], Status |-> 1, Updated |-> TRUE,
             StatusChange |-> TRUE, freed |-> {}])
    /\ i' = i + 1
    /\ Goto("sync", "online")
    /\ UNCHANGED <<mutex, ulCount, arr, device, sendVars, deviceMAC, envVars>>

(* Set_MoCADevices_Status_Online for a MAC that has a node: a node that was *)
(* online is confirmed, one that was offline comes back and gets its        *)
(* strings anew.  No mutex is taken.                                        *)
Write(from, node, to) ==
    /\ pc["sync"] = from
    /\ mocaList' = [mocaList EXCEPT ![device] = node]
    /\ IF to = "online" THEN i' = i + 1 /\ device' = 0 ELSE UNCHANGED <<i, device>>
    /\ Goto("sync", to)
    /\ UNCHANGED <<mutex, ulCount, arr, sendVars, deviceMAC, envVars>>

NotMarked(node) == node                                             \* mutant

Marked(node) == [node EXCEPT !.Updated = TRUE]

UpdateDevice ==
    /\ device # 0
    /\ LET node == mocaList[device]
       IN \/ /\ node.Status = 1
             /\ Write("write", [node EXCEPT !.StatusChange = FALSE], "confirm")
          \/ Write("confirm", Marked(node), "online")
          \/ /\ node.Status = 0
             /\ Write("write", [node EXCEPT !.Status = 1], "updated")
          \/ Write("updated", Marked(node), "changed")
          \/ Write("changed", [node EXCEPT !.StatusChange = TRUE], "free")
          \/ Write("free", [node EXCEPT !.freed = {"AssociatedDevice"}], "path")
          \/ Write("path", [node EXCEPT !.freed = {}], "freeType")
          \/ Write("freeType", [node EXCEPT !.freed = {"ssidType"}], "type")
          \/ Write("type", [node EXCEPT !.freed = {}], "online")

(* Set_MoCADevices_Status_Offline: a node that is online and was not        *)
(* updated since the last Send goes offline.                                *)
OfflineNode(node) ==
    IF ~node.Updated /\ node.Status = 1
    THEN [node EXCEPT !.Status = 0, !.Updated = TRUE, !.StatusChange = TRUE]
    ELSE node

Set_MoCADevices_Status_Offline ==
    /\ pc["sync"] = "offline"
    /\ mutex = "none"
    /\ mocaList' = [k \in DOMAIN mocaList |-> OfflineNode(mocaList[k])]
    /\ Goto("sync", "lock")
    /\ UNCHANGED <<mutex, syncVars, sendVars, deviceMAC, envVars>>

-----------------------------------------------------------------------------
(* Send_Update_to_LMLite, entry: take the mutex, start at the first node.   *)
SendLock(t) ==
    /\ pc[t] = "lock"
    /\ mutex = "none"
    /\ mutex' = t
    /\ cur' = [cur EXCEPT ![t] = 1]
    /\ Goto(t, "send")
    /\ UNCHANGED <<mocaList, syncVars, line, ret, deviceMAC, envVars>>

(* A node that has nothing to report is only marked for the next round. *)
PassedNode(node) == [node EXCEPT !.Updated = FALSE]

(* The report of a node is due: its status changed, or defaultSend, which   *)
(* is TRUE for the bus thread and FALSE for the sync thread.                *)
Due(t, node) == node.StatusChange \/ t = "bus"

(* cur = cur->next *)
SameNode(t) == cur[t]                                               \* mutant

NextNode(t) == cur[t] + 1

SendSkip(t) ==
    /\ pc[t] = "send"
    /\ cur[t] <= Len(mocaList)
    /\ ~Due(t, mocaList[cur[t]])
    /\ mocaList' = [mocaList EXCEPT ![cur[t]] = PassedNode(@)]
    /\ cur' = [cur EXCEPT ![t] = NextNode(t)]
    /\ UNCHANGED <<mutex, pc, syncVars, line, ret, deviceMAC, envVars>>

(* The line is formatted from the node: its Status is read, and its strings *)
(* are from now until the call.                                             *)
SendFormat(t) ==
    /\ pc[t] = "send"
    /\ cur[t] <= Len(mocaList)
    /\ Due(t, mocaList[cur[t]])
    /\ line' = [line EXCEPT ![t] = mocaList[cur[t]].Status]
    /\ Goto(t, "format")
    /\ UNCHANGED <<mocaList, mutex, syncVars, cur, ret, deviceMAC, envVars>>

(* The blocking bus call.  One that fails may still have reached LM Lite    *)
(* (its answer was lost).                                                   *)
SendCall(t) ==
    /\ pc[t] = "format"
    /\ \E delivered, acknowledged \in BOOLEAN :
        /\ acknowledged => delivered
        /\ IF acknowledged THEN UNCHANGED used ELSE Spend("sendFail")
        /\ lmlite' = IF delivered
                     THEN [lmlite EXCEPT ![mocaList[cur[t]].deviceMac] = line[t]]
                     ELSE lmlite
        /\ ret' = [ret EXCEPT ![t] = acknowledged]
    /\ Goto(t, "ack")
    /\ UNCHANGED <<mocaList, mutex, syncVars, cur, line, deviceMAC, assoc, grew>>

(* The call returned: on success the node's flags are cleared, Updated      *)
(* before StatusChange.                                                     *)
SuccessAlways(t) == TRUE                                            \* mutant

Success(t) == ret[t]

SendAck(t) ==
    /\ pc[t] = "ack"
    /\ IF Success(t)
       THEN /\ mocaList' = [mocaList EXCEPT ![cur[t]].Updated = FALSE]
            /\ Goto(t, "clear")
            /\ UNCHANGED cur
       ELSE /\ cur' = [cur EXCEPT ![t] = NextNode(t)]
            /\ Goto(t, "send")
            /\ UNCHANGED mocaList
    /\ ret' = [ret EXCEPT ![t] = FALSE]
    /\ line' = [line EXCEPT ![t] = 0]
    /\ UNCHANGED <<mutex, syncVars, deviceMAC, envVars>>

SendClear(t) ==
    /\ pc[t] = "clear"
    /\ mocaList' = [mocaList EXCEPT ![cur[t]].StatusChange = FALSE]
    /\ cur' = [cur EXCEPT ![t] = NextNode(t)]
    /\ Goto(t, "send")
    /\ UNCHANGED <<mutex, syncVars, line, ret, deviceMAC, envVars>>

(* Past the last node the mutex is released.  The sync thread then frees    *)
(* the list when this round had no array, and sleeps otherwise.             *)
AfterSendAlike(t) == IF ulCount = 0 THEN "cleanup" ELSE "sleep"     \* mutant

AfterSend(t) ==
    CASE t = "bus" -> "idle"
      [] t = "sync" /\ ulCount = 0 -> "cleanup"
      [] OTHER -> "sleep"

SendEnd(t) ==
    /\ pc[t] = "send"
    /\ cur[t] > Len(mocaList)
    /\ mutex' = "none"
    /\ cur' = [cur EXCEPT ![t] = 0]
    /\ Goto(t, AfterSend(t))
    /\ UNCHANGED <<mocaList, syncVars, line, ret, deviceMAC, envVars>>

CleanupWithoutMutex ==                                              \* mutant
    /\ pc["sync"] = "cleanup"
    /\ mocaList' = << >>
    /\ Goto("sync", "sleep")
    /\ UNCHANGED <<mutex, syncVars, sendVars, deviceMAC, envVars>>

CleanupMoCAList ==
    /\ pc["sync"] = "cleanup"
    /\ mutex = "none"
    /\ mocaList' = << >>
    /\ Goto("sync", "sleep")
    /\ UNCHANGED <<mutex, syncVars, sendVars, deviceMAC, envVars>>

(* sleep(MOCA_POLLINGINTERVAL) ends. *)
Wake ==
    /\ pc["sync"] = "sleep"
    /\ Goto("sync", "poll")
    /\ UNCHANGED <<mocaList, mutex, syncVars, sendVars, deviceMAC, envVars>>

-----------------------------------------------------------------------------
(* MoCA_SetParamBoolValue, X_RDKCENTRAL-COM_MoCAHost_Sync: the bus thread   *)
(* enters Send_Update_to_LMLite(TRUE).  LM Lite asks for it after it        *)
(* restarted with an empty host table, and may ask at any other time.       *)
HostSync ==
    /\ pc["bus"] = "idle"
    /\ \/ Spend("hostSync") /\ UNCHANGED lmlite
       \/ Spend("lmRestart") /\ lmlite' = [d \in Device |-> 0]
    /\ Goto("bus", "lock")
    /\ UNCHANGED <<mocaList, mutex, syncVars, sendVars, deviceMAC, assoc, grew>>

(* A device joins at, or leaves from, any place of the HAL's table. *)
AssocChange ==
    /\ Spend("change")
    /\ \/ /\ \E d \in Device \ Range(assoc), k \in 1 .. Len(assoc) + 1 :
                assoc' = InsertAt(assoc, k, d)
          /\ grew' = TRUE
       \/ /\ \E k \in DOMAIN assoc : assoc' = RemoveAt(assoc, k)
          /\ UNCHANGED grew
    /\ UNCHANGED <<mocaList, mutex, pc, syncVars, sendVars, deviceMAC, lmlite>>

(* The agent's process dies and is started again; the HAL and LM Lite keep  *)
(* their state.                                                             *)
Restart ==
    /\ Spend("restart")
    /\ mocaList' = << >>
    /\ mutex' = "none"
    /\ pc' = InitialPc
    /\ ulCount' = 0 /\ arr' = << >> /\ i' = 0 /\ device' = 0
    /\ cur' = [t \in Thread |-> 0]
    /\ line' = [t \in Thread |-> 0]
    /\ ret' = [t \in Thread |-> FALSE]
    /\ deviceMAC' = FALSE
    /\ UNCHANGED <<assoc, grew, lmlite>>

-----------------------------------------------------------------------------
Send(t) ==
    \/ SendLock(t) \/ SendSkip(t) \/ SendFormat(t) \/ SendCall(t) \/ SendAck(t)
    \/ SendClear(t) \/ SendEnd(t)

SynchronizeMoCADevices ==
    \/ PollCount \/ PollTable
    \/ SkipEntry \/ FindDeviceInMoCAList \/ AddDevice \/ UpdateDevice
    \/ Set_MoCADevices_Status_Offline
    \/ Send("sync")
    \/ CleanupMoCAList
    \/ Wake

Environment == PAMAnswers \/ HostSync \/ AssocChange \/ Restart

Next == SynchronizeMoCADevices \/ Send("bus") \/ Environment

(* Each thread keeps running.  A thread that waits for the mutex gets it:   *)
(* the sync thread leaves it free for its whole sleep, so the waiting bus   *)
(* thread is not overtaken for ever.                                        *)
ThreadFairness ==
    /\ WF_vars(SynchronizeMoCADevices)
    /\ WF_vars(Send("bus"))
    /\ SF_vars(SendLock("bus"))
    /\ SF_vars(SendLock("sync") \/ FindDeviceInMoCAList \/ AddDevice
               \/ Set_MoCADevices_Status_Offline \/ CleanupMoCAList)

Spec == Init /\ [][Next]_vars

(* PAM need not answer. *)
ThreadSpec == Spec /\ ThreadFairness

FairSpec == ThreadSpec /\ WF_vars(PAMAnswers)

-----------------------------------------------------------------------------
(* Properties. *)

Associated(table) == {table[k] : k \in DOMAIN table} \cap Device

(* The node list never holds two nodes for one MAC: what Find tells the     *)
(* sync thread is still true when Add appends, although the mutex was       *)
(* released in between and getDeviceMac may have blocked.                   *)
UniqueMac ==
    \A k, l \in DOMAIN mocaList :
        mocaList[k].deviceMac = mocaList[l].deviceMac => k = l

(* The pointer that FindDeviceInMoCAList returned is still a node of the    *)
(* list, and the node of this MAC, at each write that                       *)
(* Set_MoCADevices_Status_Online makes through it, whatever the bus thread  *)
(* did since the mutex was released.                                        *)
FoundNodeLives ==
    pc["sync"] \in WritePc /\ device # 0 =>
        device \in DOMAIN mocaList /\ mocaList[device].deviceMac = arr[i]

(* Send_Update_to_LMLite walks live nodes only: no node is freed between    *)
(* the bus call with its data and the update of its flags, and only the     *)
(* holder of the mutex is inside.                                           *)
SendWalksLiveNodes ==
    \A t \in Thread : Held(t) =>
        /\ mutex = t
        /\ cur[t] \in 1 .. Len(mocaList) + 1
        /\ pc[t] # "send" => cur[t] \in DOMAIN mocaList

(* While a line is formatted no string of the node is given back ...        *)
LiveStrings(t) == pc[t] = "format" => mocaList[cur[t]].freed = {}

(* ... unless the bus thread reports the very node whose strings the sync   *)
(* thread is replacing, because it has just come back.                      *)
StringsLiveUnlessBack ==
    \A t \in Thread :
        LiveStrings(t) \/ (t = "bus" /\ pc["sync"] \in {"path", "type"} /\ device = cur[t])

(* No pointer outlives what it points to, but those to the strings of a     *)
(* node that comes back.  (That one exception is against docs/README.md     *)
(* 730: "Thread-safe access to shared device tables using mutex             *)
(* protection".)                                                            *)
NodesLiveWhileUsed == FoundNodeLives /\ SendWalksLiveNodes /\ StringsLiveUnlessBack

(* A departure is not forgotten: each device that LM Lite holds online has  *)
(* a node that is online, or one whose change is still to be reported,      *)
(* whichever reports were lost and whoever sent them.  It may be without a  *)
(* node only if the agent was restarted, or if a report was not             *)
(* acknowledged and the list was then freed, as the table was empty.        *)
OfflineTold ==
    \A d \in Device : lmlite[d] = 1 =>
        \/ \E k \in Positions(d) : mocaList[k].Status = 1 \/ mocaList[k].StatusChange
        \/ Positions(d) = {} /\ (used["restart"] > 0 \/ used["sendFail"] > 0)

(* At the end of each round LM Lite holds online exactly the devices of the *)
(* table this round worked on.                                              *)
ToldOnline == {d \in Device : lmlite[d] = 1}

RoundAgreement == pc["sync"] = "sleep" => ToldOnline = Associated(arr)

(* LM Lite is told that a device left only in a round whose table does not  *)
(* hold it.  (docs/README.md: "only reporting actual topology changes to    *)
(* subscribers like LM Lite".)                                              *)
TurnsOffline(d) == lmlite[d] = 1 /\ lmlite'[d] = 0

OnlyDepartures == \A d \in Device : TurnsOffline(d) => d \notin Associated(arr)

OfflineTruth == [][OnlyDepartures]_lmlite

(* The same as long as no HostSync was asked for. *)
RoundTruth ==
    [][used'["hostSync"] = 0 /\ used'["lmRestart"] = 0 => OnlyDepartures]_lmlite

(* A HostSync request is answered even while PAM does not tell this         *)
(* device's MAC and the sync thread is stuck in getDeviceMac.               *)
HostSyncServed == pc["bus"] = "lock" ~> pc["bus"] = "idle"

(* Without lost reports and HostSync requests the rounds implement          *)
(* AssocReport, with the HAL's table for the network.                       *)
Rounds == INSTANCE AssocReport WITH
            network <- Associated(assoc),
            failures <- used["halFail"],
            snapshot <- IF pc["sync"] \in {"poll", "table"} THEN ToldOnline
                        ELSE Associated(arr),
            told <- ToldOnline

ReportsTopologyChanges == Rounds!FairSpec

=============================================================================
