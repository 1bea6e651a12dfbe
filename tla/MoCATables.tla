------------------------------ MODULE MoCATables ------------------------------
(***************************************************************************)
(* The four tables of an interface that the message bus reads through      *)
(* IsUpdated and Synchronize: AssociatedDevice, X_CISCO_COM_PeerTable,     *)
(* MeshTable and FlowStats.                                                *)
(*                                                                         *)
(* Before it reads a table the bus asks IsUpdated; if that is TRUE it      *)
(* calls Synchronize, which frees the table's array and fetches another    *)
(* from the MoCA HAL, and asks GetEntryCount and GetEntry anew.  The bus   *)
(* serves one request after the other.  The associated devices take three  *)
(* HAL calls, between which the network and the clock move on.             *)
(*                                                                         *)
(* The network, the HAL and the bus are external.  Budget and MaxTick bound *)
(* how often the environment acts.                                         *)
(***************************************************************************)
EXTENDS Integers, Sequences, SequencesExt

CONSTANTS
    Node,                   \* the MoCA nodes that may join the network
    Peer,                   \* g_MoCAPeer, the two constant rows of the peers
    Blank,                  \* a row that nothing was written to
    Wild,                   \* what is read through a handle to no row
    MOCA_REFRESH_INTERVAL,  \* how many seconds a fetched table is answered
    MaxTick,                \* bound: the clock
    Budget                  \* bound: the scenarios, each a number per Op

Table == {"AssociatedDevice", "PeerTable", "MeshTable", "FlowStats"}

(* What happens a bounded number of times. *)
Op == {"change", "changeInFetch", "cpeFails", "numFails", "devicesFail",
       "meshFails", "flowFails", "alloc", "disable"}

ASSUME TablesAssumption ==
    /\ Peer \in Seq(ToSet(Peer))
    /\ Blank \notin Node /\ Wild \notin Node /\ Blank # Wild
    /\ MOCA_REFRESH_INTERVAL \in Nat /\ MaxTick \in Nat
    /\ Budget \subseteq [Op -> Nat]

VARIABLES
    now,                \* AnscGetTickInSeconds()
    nodes,              \* the other nodes of the network, in the HAL's order
    enabled,            \* the hardware is equipped and moca_enable_db is on
    is_moca_available,  \* sticky: it was so once
    last_tick,          \* of each table: when it was last to be fetched
    count,              \* ulMoCA...Count of each table
    array,              \* pMoCA... of each table, << >> when NULL
    pc,                 \* "idle", or the next HAL call for AssociatedDevice
    past,               \* history: what it was of late, and when
    budget, used        \* the scenario, and what it has spent

tables == <<is_moca_available, last_tick, count, array, pc>>
vars == <<now, nodes, enabled, tables, past, budget, used>>

Moment(at, n, e) == [at |-> at, nodes |-> n, enabled |-> e]

Spend(op) == /\ used[op] < budget[op]
             /\ used' = [used EXCEPT ![op] = @ + 1]

(* An outcome of an external call: it fails, which is spent, or not. *)
Outcome(op, failed) == IF failed THEN Spend(op) ELSE UNCHANGED used

OnlyUsed(ops) == \A op \in Op \ ops : used[op] = 0

-----------------------------------------------------------------------------
Init ==
    /\ now = 0
    /\ nodes \in {<< >>} \union {<<n>> : n \in Node}
    /\ enabled \in BOOLEAN
    /\ is_moca_available = FALSE
    /\ last_tick = [t \in Table |-> 0]
    /\ count = [t \in Table |-> 0]
    /\ array = [t \in Table |-> << >>]
    /\ pc = "idle"
    /\ past = {Moment(0, nodes, enabled)}
    /\ budget \in Budget
    /\ used = [op \in Op |-> 0]

(* What the HAL would fill table t with when the network is n: a row per   *)
(* node, or per ordered pair of nodes, this one included, for the mesh.    *)
HalRows(t, n) ==
    CASE t = "AssociatedDevice" -> n
      [] t = "PeerTable" -> Peer
      [] t = "FlowStats" -> n
      [] t = "MeshTable" ->
            [k \in 1 .. (Len(n) + 1) * Len(n) |-> n[1 + ((k - 1) % Len(n))]]

-----------------------------------------------------------------------------
(* The environment. *)
Tick ==
    /\ now < MaxTick
    /\ now' = now + 1
    /\ past' = {Moment(now + 1, nodes, enabled)} \union
               {s \in past : s.at >= now + 1 - MOCA_REFRESH_INTERVAL}
    /\ UNCHANGED <<nodes, enabled, tables, budget, used>>

NetworkChanges ==
    /\ Spend(IF pc = "idle" THEN "change" ELSE "changeInFetch")
    /\ \/ \E n \in Node \ ToSet(nodes) : nodes' = Append(nodes, n)
       \/ \E k \in DOMAIN nodes : nodes' = RemoveAt(nodes, k)
    /\ past' = past \union {Moment(now, nodes', enabled)}
    /\ UNCHANGED <<now, enabled, tables, budget>>

(* MoCA is switched on or off in the data base. *)
EnableChanges ==
    /\ Spend("disable")
    /\ enabled' = ~enabled
    /\ past' = past \union {Moment(now, nodes, enabled')}
    /\ UNCHANGED <<now, nodes, tables, budget>>

-----------------------------------------------------------------------------
TIME_NO_NEGATIVE(x) == IF x < 0 THEN 0 ELSE x

(* The answer of IsUpdated for table t. *)
IsUpdated(t) ==
    \/ last_tick[t] = 0
    \/ last_tick[t] < TIME_NO_NEGATIVE(now - MOCA_REFRESH_INTERVAL)

KeepOneTick(t) == last_tick' = [s \in Table |-> now]                    \* mutant

KeepDeadline(t) ==                                                     \* mutant
    last_tick' = [last_tick EXCEPT ![t] = now + MOCA_REFRESH_INTERVAL]

(* The tick that IsUpdated keeps: of this table, each has its own. *)
KeepTick(t) == last_tick' = [last_tick EXCEPT ![t] = now]

JudgeHardwareNow == enabled                                            \* mutant

(* JUDGE_MOCA_HARDWARE_AVAILABLE: it is not asked again once it was TRUE. *)
JudgeHardware == is_moca_available \/ enabled

(* What stays as it is while table t is fetched. *)
Frame == UNCHANGED <<now, nodes, enabled, past, budget>>

(* Table t holds rows and announces n of them, and the request ends. *)
Store(t, n, rows) ==
    /\ count' = [count EXCEPT ![t] = n]
    /\ array' = [array EXCEPT ![t] = rows]
    /\ pc' = "idle"

(* The request to read table t begins: IsUpdated is TRUE. *)
BeginFetch(t) ==
    /\ pc = "idle"
    /\ IsUpdated(t)
    /\ KeepTick(t)
    /\ is_moca_available' = JudgeHardware

KeepCount(t) == count[t]                                               \* mutant

(* The count is reset only together with an array. *)
ResetCount(t) == IF array[t] # << >> THEN 0 ELSE count[t]

(* A fetch with one of the faults, and without. *)
Fault(ops) == JudgeHardware /\ \E op \in ops : Spend(op)
Unavailable == ~JudgeHardware /\ UNCHANGED used
Succeeds == JudgeHardware /\ UNCHANGED used

CosaDmlMocaIfPeerTableGetTable_fails == Unavailable \/ Fault({"alloc"})

X_CISCO_COM_PeerTable_Synchronize ==
    LET t == "PeerTable" IN
    /\ BeginFetch(t)
    /\ Frame
    /\ \/ CosaDmlMocaIfPeerTableGetTable_fails /\ Store(t, ResetCount(t), << >>)
       \/ Succeeds /\ Store(t, Len(Peer), Peer)

(* With the mesh the fetch itself stores the array and the count, and      *)
(* returns before both when there is no hardware.                          *)
CosaDmlMocaIfMeshTableGetTable ==
    LET t == "MeshTable"
        rows == HalRows(t, nodes)
    IN  \/ Unavailable /\ Store(t, count[t], << >>)
        \/ Fault({"alloc", "meshFails"}) /\ Store(t, 0, << >>)
        \/ Succeeds /\ Store(t, Len(rows), rows)

MeshTable_Synchronize ==
    /\ BeginFetch("MeshTable")
    /\ Frame
    /\ CosaDmlMocaIfMeshTableGetTable

CosaDmlMocaIfFlowTableGetTable_fails == Unavailable \/ Fault({"alloc", "flowFails"})

FlowStats_Synchronize ==
    LET t == "FlowStats"
        rows == HalRows(t, nodes)
    IN  /\ BeginFetch(t)
        /\ Frame
        /\ \/ CosaDmlMocaIfFlowTableGetTable_fails /\ Store(t, ResetCount(t), << >>)
           \/ Succeeds /\ Store(t, Len(rows), rows)

-----------------------------------------------------------------------------
(* AssociatedDevice: the array is freed first, the count is not reset. *)
AssociatedDevice_Synchronize ==
    LET t == "AssociatedDevice" IN
    /\ BeginFetch(t)
    /\ Frame
    /\ UNCHANGED used
    /\ IF JudgeHardware
       THEN /\ pc' = "cpes"
            /\ array' = [array EXCEPT ![t] = << >>]
            /\ UNCHANGED count
       ELSE Store(t, count[t], << >>)

(* moca_GetMocaCPEs: without any CPE nothing more is asked. *)
GetMocaCPEs ==
    LET t == "AssociatedDevice" IN
    /\ pc = "cpes"
    /\ \E fails \in BOOLEAN :
        /\ Outcome("cpeFails", fails)
        /\ IF ~fails /\ nodes # << >>
           THEN pc' = "num" /\ UNCHANGED <<count, array>>
           ELSE Store(t, count[t], << >>)
    /\ Frame
    /\ UNCHANGED <<is_moca_available, last_tick>>

(* moca_GetNumAssociatedDevices, whose status is not looked at, and the    *)
(* allocation of as many rows.                                             *)
GetNumAssociatedDevices ==
    LET t == "AssociatedDevice" IN
    /\ pc = "num"
    /\ \E fault \in {"none", "numFails", "alloc"} :
        LET n == IF fault = "numFails" THEN count[t] ELSE Len(nodes) IN
        /\ fault = "alloc" => n > 0
        /\ IF fault = "none" THEN UNCHANGED used ELSE Spend(fault)
        /\ IF n > 0 /\ fault # "alloc"
           THEN /\ pc' = "devices"
                /\ count' = [count EXCEPT ![t] = n]
                /\ array' = [array EXCEPT ![t] = [k \in 1 .. n |-> Blank]]
           ELSE Store(t, n, << >>)
    /\ Frame
    /\ UNCHANGED <<is_moca_available, last_tick>>

(* moca_GetAssociatedDevices, whose rows are copied into the array, as     *)
(* many as were announced.                                                 *)
GetAssociatedDevices ==
    LET t == "AssociatedDevice" IN
    /\ pc = "devices"
    /\ \E fails \in BOOLEAN :
        /\ Outcome("devicesFail", fails)
        /\ Store(t, count[t],
                 [k \in DOMAIN array[t] |->
                    IF ~fails /\ k <= Len(nodes) THEN nodes[k] ELSE Blank])
    /\ Frame
    /\ UNCHANGED <<is_moca_available, last_tick>>

-----------------------------------------------------------------------------
GetEntryCount(t) == count[t]

(* A request for table t that comes now is answered from its array: no     *)
(* variable changes, so a read is no action.                               *)
Kept(t) == pc = "idle" /\ ~IsUpdated(t)

(* What the bus reads through the handle of entry k, which counts from 0. *)
GetEntry(t, k) == IF k < Len(array[t]) THEN array[t][k + 1] ELSE Wild

Answer(t) == [k \in 1 .. GetEntryCount(t) |-> GetEntry(t, k - 1)]

-----------------------------------------------------------------------------
Next ==
    \/ Tick
    \/ NetworkChanges
    \/ EnableChanges
    \/ X_CISCO_COM_PeerTable_Synchronize
    \/ MeshTable_Synchronize
    \/ FlowStats_Synchronize
    \/ AssociatedDevice_Synchronize
    \/ GetMocaCPEs
    \/ GetNumAssociatedDevices
    \/ GetAssociatedDevices

Spec == Init /\ [][Next]_vars

-----------------------------------------------------------------------------
(* Every variable keeps to the values the code gives it. *)
TypeOK ==
    /\ now \in 0 .. MaxTick
    /\ enabled \in BOOLEAN /\ is_moca_available \in BOOLEAN
    /\ last_tick \in [Table -> 0 .. now]
    /\ count \in [Table -> Nat]
    /\ \A t \in Table : array[t] \in Seq(Node \union ToSet(Peer) \union {Blank})
    /\ pc \in {"idle", "cpes", "num", "devices"}
    /\ used \in [Op -> Nat] /\ budget \in Budget

(* The peers, the mesh and the flows announce exactly the rows they hold,  *)
(* whichever call of theirs failed and however often: the count is reset   *)
(* with the array (dml.c 2640, 5953) or by the fetch that fails (apis.c    *)
(* 1720, 1728, 1743).                                                      *)
RowsCounted ==
    \A t \in Table \ {"AssociatedDevice"} : count[t] = Len(array[t])

(* Every associated device that GetEntryCount announces has the row that   *)
(* GetEntry hands out, although the count outlives the array (dml.c 6350). *)
(* Excepted are a call that fails before the count is fetched and a        *)
(* network found empty: then the count of the fetch before stays, and      *)
(* GetEntry hands out entries of no array.                                 *)
AssociatedRowsExist ==
    LET t == "AssociatedDevice" IN
    Kept(t) =>
        \/ \A k \in DOMAIN Answer(t) : Answer(t)[k] # Wild
        \/ used["cpeFails"] + used["alloc"] > 0
        \/ \E s \in past : s.nodes = << >>

(* Every row that a table announces is there when it is asked for: the bus *)
(* goes through GetEntry up to GetEntryCount with no check of its own, and *)
(* each fetch frees the old rows before it may fail.                       *)
RowsAnnounced == RowsCounted /\ AssociatedRowsExist

(* Nothing is handed out: every entry that is announced is of no array. *)
HandsOutNothing(t) == \A k \in DOMAIN Answer(t) : Answer(t)[k] = Wild

(* Whatever the order of the requests, a table that is answered without a  *)
(* fetch shows the bus what the network was at one moment of the last      *)
(* MOCA_REFRESH_INTERVAL seconds, the clock of one table not holding back  *)
(* another: no row is older, lost, doubled or blank, and none is of no     *)
(* array.  Calls that fail and a network that changes between the calls of *)
(* a fetch are excepted; hardware that was not available leaves the table  *)
(* empty; and when the last associated device has left, the count stays    *)
(* (apis.c 1877) and the entries are of no array, never an older row.      *)
FreshRows ==
    \A t \in Table :
        Kept(t) /\ OnlyUsed({"change", "disable"}) =>
            \E s \in past :
                \/ Answer(t) = HalRows(t, s.nodes)
                \/ ~s.enabled /\ Answer(t) = << >>
                \/ t = "AssociatedDevice" /\ s.nodes = << >> /\ HandsOutNothing(t)

=============================================================================
