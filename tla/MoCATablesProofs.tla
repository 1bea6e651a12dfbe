-------------------------- MODULE MoCATablesProofs --------------------------
(***************************************************************************)
(* The tables announce the rows they hold and answer with rows that are    *)
(* there and fresh, whatever the nodes, the interval and the faults are.   *)
(*                                                                         *)
(* RowsCounted by itself is not inductive: when the hardware is not        *)
(* available the mesh table loses its array and keeps its count, which is  *)
(* harmless only because is_moca_available never falls back and nothing    *)
(* was fetched before it rose.  AssociatedRowsExist and FreshRows rest on  *)
(* what is remembered of the moment at which a table's tick was kept.      *)
(***************************************************************************)
EXTENDS MoCATables, SequenceTheorems, TLAPS

Counted == Table \ {"AssociatedDevice"}

(* Both arrays are indexed by the tables. *)
Indexed == DOMAIN count = Table /\ DOMAIN array = Table

(* Before the hardware was available no table announces a row. *)
NothingFetched == ~is_moca_available => \A t \in Counted : count[t] = 0

CountInv == Indexed /\ NothingFetched /\ RowsCounted

(* What a step does to the tables it is not about. *)
LEMMA OthersKeepRows ==
    ASSUME CountInv,
           NEW t \in Table, NEW n, NEW rows,
           Store(t, n, rows),
           is_moca_available' = JudgeHardware,
           t \in Counted => n = Len(rows),
           t \in Counted => n = 0 \/ JudgeHardware
    PROVE  CountInv'
<1>1. Indexed'
    BY DEF CountInv, Indexed, Store
<1>2. \A s \in Table : s # t => count'[s] = count[s] /\ array'[s] = array[s]
    BY DEF CountInv, Indexed, Store
<1>3. count'[t] = n /\ array'[t] = rows
    BY DEF CountInv, Indexed, Store
<1>4. NothingFetched'
    BY <1>2, <1>3 DEF CountInv, NothingFetched, Counted, JudgeHardware
<1>5. RowsCounted'
    BY <1>2, <1>3 DEF CountInv, RowsCounted, Counted
<1> QED
    BY <1>1, <1>4, <1>5 DEF CountInv

(* The associated devices are fetched without touching the other tables. *)
LEMMA AssociatedKeeps ==
    ASSUME CountInv,
           DOMAIN count' = Table, DOMAIN array' = Table,
           \A s \in Counted : count'[s] = count[s] /\ array'[s] = array[s],
           is_moca_available => is_moca_available'
    PROVE  CountInv'
BY DEF CountInv, Indexed, NothingFetched, RowsCounted, Counted

LEMMA ResetIsLength ==
    ASSUME CountInv, NEW t \in Counted
    PROVE  ResetCount(t) = 0
BY DEF CountInv, RowsCounted, ResetCount, Counted

LEMMA CountInit ==
    ASSUME Init
    PROVE  CountInv
<1>1. Len(<< >>) = 0
    OBVIOUS
<1> QED
    BY <1>1 DEF Init, CountInv, Indexed, NothingFetched, RowsCounted, Counted

LEMMA CountNext ==
    ASSUME CountInv, [Next]_vars
    PROVE  CountInv'
<1>0. Len(<< >>) = 0
    OBVIOUS
<1>1. CASE Tick \/ NetworkChanges \/ EnableChanges \/ UNCHANGED vars
    <2>1. UNCHANGED <<count, array, is_moca_available>>
        BY <1>1 DEF Tick, NetworkChanges, EnableChanges, tables, vars
    <2> QED
        BY <2>1 DEF CountInv, Indexed, NothingFetched, RowsCounted
<1>2. CASE X_CISCO_COM_PeerTable_Synchronize
    <2> DEFINE t == "PeerTable"
    <2>1. t \in Counted /\ t \in Table
        BY DEF Counted, Table
    <2>2. is_moca_available' = JudgeHardware
        BY <1>2 DEF X_CISCO_COM_PeerTable_Synchronize, BeginFetch
    <2>3. \/ Store(t, ResetCount(t), << >>)
          \/ JudgeHardware /\ Store(t, Len(Peer), Peer)
        BY <1>2 DEF X_CISCO_COM_PeerTable_Synchronize, Succeeds
    <2>4. ResetCount(t) = 0
        BY <2>1, ResetIsLength
    <2> QED
        BY <1>0, <2>1, <2>2, <2>3, <2>4, OthersKeepRows
<1>3. CASE MeshTable_Synchronize
    <2> DEFINE t == "MeshTable"
               rows == HalRows(t, nodes)
    <2>1. t \in Counted /\ t \in Table
        BY DEF Counted, Table
    <2>2. is_moca_available' = JudgeHardware
        BY <1>3 DEF MeshTable_Synchronize, BeginFetch
    <2>3. \/ ~JudgeHardware /\ Store(t, count[t], << >>)
          \/ JudgeHardware /\ Store(t, Len(rows), rows)
          \/ Store(t, 0, << >>)
        BY <1>3 DEF MeshTable_Synchronize, CosaDmlMocaIfMeshTableGetTable,
                     Unavailable, Succeeds
    <2>4. ~JudgeHardware => count[t] = 0
        BY <2>1 DEF CountInv, NothingFetched, JudgeHardware
    <2> HIDE DEF rows
    <2> QED
        BY <1>0, <2>1, <2>2, <2>3, <2>4, OthersKeepRows
<1>4. CASE FlowStats_Synchronize
    <2> DEFINE t == "FlowStats"
               rows == HalRows(t, nodes)
    <2>1. t \in Counted /\ t \in Table
        BY DEF Counted, Table
    <2>2. is_moca_available' = JudgeHardware
        BY <1>4 DEF FlowStats_Synchronize, BeginFetch
    <2>3. \/ Store(t, ResetCount(t), << >>)
          \/ JudgeHardware /\ Store(t, Len(rows), rows)
        BY <1>4 DEF FlowStats_Synchronize, Succeeds
    <2>4. ResetCount(t) = 0
        BY <2>1, ResetIsLength
    <2> HIDE DEF rows
    <2> QED
        BY <1>0, <2>1, <2>2, <2>3, <2>4, OthersKeepRows
<1>5. CASE AssociatedDevice_Synchronize
    <2>1. is_moca_available => is_moca_available'
        BY <1>5 DEF AssociatedDevice_Synchronize, BeginFetch, JudgeHardware
    <2>2. /\ DOMAIN count' = Table /\ DOMAIN array' = Table
          /\ \A s \in Counted : count'[s] = count[s] /\ array'[s] = array[s]
        BY <1>5 DEF AssociatedDevice_Synchronize, Store, CountInv, Indexed, Counted
    <2> QED
        BY <2>1, <2>2, AssociatedKeeps
<1>6. CASE GetMocaCPEs \/ GetNumAssociatedDevices \/ GetAssociatedDevices
    <2>1. is_moca_available' = is_moca_available
        BY <1>6 DEF GetMocaCPEs, GetNumAssociatedDevices, GetAssociatedDevices
    <2>2. CASE GetMocaCPEs
        BY <2>1, <2>2, AssociatedKeeps
        DEF GetMocaCPEs, Store, CountInv, Indexed, Counted
    <2>3. CASE GetNumAssociatedDevices
        <3>1. PICK n, rows :
                 /\ count' = [count EXCEPT !["AssociatedDevice"] = n]
                 /\ array' = [array EXCEPT !["AssociatedDevice"] = rows]
            BY <2>3 DEF GetNumAssociatedDevices, Store
        <3> QED
            BY <2>1, <3>1, AssociatedKeeps DEF CountInv, Indexed, Counted
    <2>4. CASE GetAssociatedDevices
        <3>1. PICK n, rows :
                 /\ count' = [count EXCEPT !["AssociatedDevice"] = n]
                 /\ array' = [array EXCEPT !["AssociatedDevice"] = rows]
            BY <2>4 DEF GetAssociatedDevices, Store
        <3> QED
            BY <2>1, <3>1, AssociatedKeeps DEF CountInv, Indexed, Counted
    <2> QED
        BY <1>6, <2>2, <2>3, <2>4
<1> QED
    BY <1>1, <1>2, <1>3, <1>4, <1>5, <1>6 DEF Next

(* The peers, the mesh and the flows announce exactly the rows they hold,  *)
(* in every run of dml.c 2623-2653, 3658-3690 and 5936-5966.               *)
LEMMA RowsAreCounted == Spec => []RowsCounted
<1>1. Init => CountInv
    BY CountInit
<1>2. CountInv /\ [Next]_vars => CountInv'
    BY CountNext
<1>3. CountInv => RowsCounted
    BY DEF CountInv
<1> QED
    BY <1>1, <1>2, <1>3, PTL DEF Spec

-----------------------------------------------------------------------------
(* The types.  HalRows gives rows whatever the network is. *)
Row == Node \union ToSet(Peer) \union {Blank}

Moments == [at : Nat, nodes : Seq(Node), enabled : BOOLEAN]

EnvType ==
    /\ now \in 0 .. MaxTick
    /\ nodes \in Seq(Node) /\ enabled \in BOOLEAN
    /\ past \subseteq Moments
    /\ Moment(now, nodes, enabled) \in past
    /\ used \in [Op -> Nat] /\ budget \in Budget

TableType ==
    /\ is_moca_available \in BOOLEAN
    /\ last_tick \in [Table -> Nat] /\ \A t \in Table : last_tick[t] <= now
    /\ count \in [Table -> Nat] /\ array \in [Table -> Seq(Row)]
    /\ pc \in {"idle", "cpes", "num", "devices"}

TypeInv == EnvType /\ TableType

LEMMA Numbers ==
    /\ MOCA_REFRESH_INTERVAL \in Nat /\ MaxTick \in Nat /\ Budget \subseteq [Op -> Nat]
BY TablesAssumption

(* What is spent only grows. *)
LEMMA SpendType ==
    ASSUME used \in [Op -> Nat], NEW op \in Op, Spend(op)
    PROVE  /\ used' \in [Op -> Nat]
           /\ \A o \in Op : used'[o] >= used[o]
           /\ used'[op] > 0
BY DEF Spend

Grows == used' \in [Op -> Nat] /\ \A o \in Op : used'[o] >= used[o]

LEMMA FaultType ==
    ASSUME used \in [Op -> Nat], NEW ops \in SUBSET Op, Fault(ops)
    PROVE  Grows /\ \E op \in ops : used'[op] > 0
<1>1. PICK op \in ops : Spend(op)
    BY DEF Fault
<1>2. op \in Op
    BY <1>1
<1> QED
    BY <1>1, <1>2, SpendType DEF Grows

LEMMA RowsType ==
    ASSUME NEW n \in Seq(Node), NEW t \in Table
    PROVE  HalRows(t, n) \in Seq(Row) /\ Len(HalRows(t, n)) \in Nat
<1>1. n \in Seq(Row)
    BY SeqMonotonic DEF Row
<1>2. Peer \in Seq(Row)
    BY TablesAssumption, SeqMonotonic DEF Row
<1>3. CASE t = "MeshTable"
    <2> DEFINE d == (Len(n) + 1) * Len(n)
    <2>1. Len(n) \in Nat
        BY LenProperties
    <2>2. d \in Nat
        BY <2>1
    <2>3. \A k \in 1 .. d : n[1 + ((k - 1) % Len(n))] \in Row
        <3> SUFFICES ASSUME NEW k \in 1 .. d PROVE n[1 + ((k - 1) % Len(n))] \in Row
            OBVIOUS
        <3>1. Len(n) # 0
            <4> SUFFICES ASSUME Len(n) = 0 PROVE FALSE
                OBVIOUS
            <4>1. d = 0
                OBVIOUS
            <4> QED
                BY <4>1
        <3>2. k - 1 \in Int
            BY <2>2
        <3>3. (k - 1) % Len(n) \in 0 .. Len(n) - 1
            BY <2>1, <3>1, <3>2
        <3>4. 1 + ((k - 1) % Len(n)) \in 1 .. Len(n)
            BY <2>1, <3>3
        <3> QED
            BY <3>4, ElementOfSeq, <1>1
    <2>4. [k \in 1 .. d |-> n[1 + ((k - 1) % Len(n))]] \in Seq(Row)
        <3> HIDE DEF d
        <3> QED
            BY <2>2, <2>3, IsASeq
    <2>5. HalRows(t, n) = [k \in 1 .. d |-> n[1 + ((k - 1) % Len(n))]]
        BY <1>3 DEF HalRows
    <2> QED
        BY <2>4, <2>5, LenProperties
<1>4. CASE t # "MeshTable"
    <2>1. HalRows(t, n) \in {n, Peer}
        BY <1>4 DEF HalRows, Table
    <2> QED
        BY <1>1, <1>2, <2>1, LenProperties
<1> QED
    BY <1>3, <1>4

(* A moment joins the others. *)
LEMMA ChangeType ==
    ASSUME EnvType, nodes' \in Seq(Node), enabled' \in BOOLEAN, now' = now, Grows,
           past' = past \union {Moment(now, nodes', enabled')}, UNCHANGED budget
    PROVE  EnvType'
BY Numbers DEF EnvType, Moment, Moments, Grows

LEMMA NetworkType ==
    ASSUME EnvType, NetworkChanges
    PROVE  EnvType' /\ Grows /\ (pc # "idle" => used'["changeInFetch"] > 0)
<1>1. Grows /\ (pc # "idle" => used'["changeInFetch"] > 0)
    BY SpendType DEF NetworkChanges, EnvType, Op, Grows
<1>2. nodes' \in Seq(Node)
    <2>1. CASE \E n \in Node \ ToSet(nodes) : nodes' = Append(nodes, n)
        BY <2>1, AppendProperties DEF EnvType
    <2>2. CASE \E k \in DOMAIN nodes : nodes' = RemoveAt(nodes, k)
        <3>1. PICK k \in 1 .. Len(nodes) : nodes' = RemoveAt(nodes, k)
            BY <2>2, LenProperties DEF EnvType
        <3>2. Len(nodes) \in Nat
            BY LenProperties DEF EnvType
        <3>3. SubSeq(nodes, 1, k - 1) \in Seq(Node) /\ SubSeq(nodes, k + 1, Len(nodes)) \in Seq(Node)
            BY <3>2 DEF EnvType
        <3> QED
            BY <3>1, <3>3, ConcatProperties DEF RemoveAt
    <2> QED
        BY <2>1, <2>2 DEF NetworkChanges
<1>3. enabled' = enabled /\ now' = now /\ UNCHANGED budget
      /\ past' = past \union {Moment(now, nodes', enabled')}
    BY DEF NetworkChanges
<1> QED
    BY <1>1, <1>2, <1>3, ChangeType DEF EnvType

LEMMA EnableType ==
    ASSUME EnvType, EnableChanges
    PROVE  EnvType' /\ Grows
<1>1. Grows
    BY SpendType DEF EnableChanges, EnvType, Op, Grows
<1> QED
    BY <1>1, ChangeType DEF EnableChanges, EnvType

LEMMA TickType ==
    ASSUME EnvType, Tick
    PROVE  /\ EnvType' /\ Grows
           /\ \A s \in past : s.at >= now' - MOCA_REFRESH_INTERVAL => s \in past'
<1>1. now' = now + 1 /\ now' \in 0 .. MaxTick
    BY Numbers DEF Tick, EnvType
<1>2. Moment(now', nodes', enabled') = Moment(now + 1, nodes, enabled) /\ UNCHANGED <<used, budget>>
    BY DEF Tick
<1>3. past' = {Moment(now + 1, nodes, enabled)} \union
              {s \in past : s.at >= now + 1 - MOCA_REFRESH_INTERVAL}
    BY DEF Tick
<1>4. Moment(now + 1, nodes, enabled) \in Moments
    BY DEF Moment, Moments, EnvType
<1>5. past' \subseteq Moments /\ Moment(now', nodes', enabled') \in past'
    BY <1>2, <1>3, <1>4 DEF EnvType
<1>6. UNCHANGED <<nodes, enabled>>
    BY DEF Tick
<1>7. Grows
    BY <1>2 DEF EnvType, Grows
<1>8. \A s \in past : s.at >= now' - MOCA_REFRESH_INTERVAL => s \in past'
    <2> SUFFICES ASSUME NEW s \in past, s.at >= now' - MOCA_REFRESH_INTERVAL
                 PROVE  s \in past'
        OBVIOUS
    <2>1. s.at >= now + 1 - MOCA_REFRESH_INTERVAL
        BY <1>1, Numbers DEF EnvType, Moments
    <2>2. s \in {r \in past : r.at >= now + 1 - MOCA_REFRESH_INTERVAL}
        BY <2>1
    <2> QED
        BY <1>3, <2>2
<1>9. EnvType'
    BY <1>1, <1>2, <1>5, <1>6 DEF EnvType
<1> QED
    BY <1>7, <1>8, <1>9


-----------------------------------------------------------------------------
LEMMA FrameType ==
    ASSUME EnvType, Frame, Grows
    PROVE  EnvType'
BY DEF EnvType, Frame, Grows

LEMMA StoreType ==
    ASSUME TypeInv, Frame, Grows,
           NEW t \in Table, NEW n \in Nat, NEW rows \in Seq(Row), Store(t, n, rows),
           \/ KeepTick(t) /\ is_moca_available' = JudgeHardware
           \/ UNCHANGED <<last_tick, is_moca_available>>
    PROVE  TypeInv'
<1>1. EnvType' /\ now' = now /\ now \in Nat
    BY Numbers, FrameType DEF TypeInv, EnvType, Frame
<1>2. is_moca_available' \in BOOLEAN
    BY DEF TypeInv, TableType, EnvType, JudgeHardware
<1>3. last_tick' \in [Table -> Nat] /\ \A s \in Table : last_tick'[s] <= now'
    <2>1. CASE last_tick' = last_tick
        BY <1>1, <2>1 DEF TypeInv, TableType
    <2>2. CASE KeepTick(t)
        <3>1. last_tick' = [last_tick EXCEPT ![t] = now]
            BY <2>2 DEF KeepTick
        <3> QED
            BY <1>1, <3>1 DEF TypeInv, TableType
    <2> QED
        BY <2>1, <2>2
<1>4. count' \in [Table -> Nat] /\ array' \in [Table -> Seq(Row)] /\ pc' = "idle"
    BY DEF TypeInv, TableType, Store
<1> QED
    BY <1>1, <1>2, <1>3, <1>4 DEF TypeInv, TableType

LEMMA NoRows == << >> \in Seq(Row) /\ Len(<< >>) = 0
BY EmptySeq

(* The faults that FreshRows excepts. *)
Disturbance == Op \ {"change", "disable"}

(* How the fetch of a table that takes one call ends. *)
Fetched(t) ==
    \E n \in Nat, rows \in Seq(Row) :
        /\ Store(t, n, rows)
        /\ \/ ~JudgeHardware /\ rows = << >>
           \/ JudgeHardware /\ rows = HalRows(t, nodes)
           \/ \E op \in Disturbance : used'[op] > 0

LEMMA FaultFetched ==
    ASSUME TypeInv, NEW t \in Table, NEW n \in Nat, Store(t, n, << >>),
           NEW ops \in SUBSET Disturbance, Unavailable \/ Fault(ops)
    PROVE  Grows /\ Fetched(t)
<1>1. used \in [Op -> Nat] /\ ops \subseteq Op
    BY DEF TypeInv, EnvType, Disturbance
<1>2. CASE Unavailable
    <2>1. ~JudgeHardware /\ Grows
        BY <1>1, <1>2 DEF Unavailable, Grows
    <2> QED
        BY <2>1, NoRows DEF Fetched
<1>3. CASE Fault(ops)
    <2>1. Grows /\ \E op \in ops : used'[op] > 0
        BY <1>1, <1>3, FaultType
    <2> QED
        BY <2>1, NoRows DEF Fetched
<1> QED
    BY <1>2, <1>3

LEMMA SuccessFetched ==
    ASSUME TypeInv, NEW t \in Table, Succeeds,
           Store(t, Len(HalRows(t, nodes)), HalRows(t, nodes))
    PROVE  Grows /\ Fetched(t)
<1>1. HalRows(t, nodes) \in Seq(Row) /\ Len(HalRows(t, nodes)) \in Nat
    BY RowsType DEF TypeInv, EnvType
<1>2. JudgeHardware /\ Grows
    BY DEF Succeeds, TypeInv, EnvType, Grows
<1> QED
    BY <1>1, <1>2 DEF Fetched

LEMMA CountsType ==
    ASSUME TypeInv, NEW t \in Table
    PROVE  count[t] \in Nat /\ ResetCount(t) \in Nat
BY DEF TypeInv, TableType, ResetCount

LEMMA SynchronizeFetches ==
    ASSUME TypeInv,
           \/ X_CISCO_COM_PeerTable_Synchronize
           \/ MeshTable_Synchronize
           \/ FlowStats_Synchronize
    PROVE  \E t \in Counted : BeginFetch(t) /\ Frame /\ Grows /\ Fetched(t)
<1>0. /\ "PeerTable" \in Counted /\ "MeshTable" \in Counted /\ "FlowStats" \in Counted
      /\ Counted \subseteq Table
    BY DEF Counted, Table
<1>1. CASE X_CISCO_COM_PeerTable_Synchronize
    <2> DEFINE t == "PeerTable"
    <2>1. BeginFetch(t) /\ Frame
        BY <1>1 DEF X_CISCO_COM_PeerTable_Synchronize
    <2>2. HalRows(t, nodes) = Peer
        BY DEF HalRows
    <2>3. {"alloc"} \subseteq Disturbance
        BY DEF Disturbance, Op
    <2>4. \/ (Unavailable \/ Fault({"alloc"})) /\ Store(t, ResetCount(t), << >>)
          \/ Succeeds /\ Store(t, Len(HalRows(t, nodes)), HalRows(t, nodes))
        BY <1>1, <2>2 DEF X_CISCO_COM_PeerTable_Synchronize, CosaDmlMocaIfPeerTableGetTable_fails
    <2>5. Grows /\ Fetched(t)
        BY <1>0, <2>3, <2>4, FaultFetched, SuccessFetched, CountsType
    <2> QED
        BY <1>0, <2>1, <2>5
<1>2. CASE MeshTable_Synchronize
    <2> DEFINE t == "MeshTable"
    <2>1. BeginFetch(t) /\ Frame
        BY <1>2 DEF MeshTable_Synchronize
    <2>3. {"alloc", "meshFails"} \subseteq Disturbance
        BY DEF Disturbance, Op
    <2>4. \/ Unavailable /\ Store(t, count[t], << >>)
          \/ Fault({"alloc", "meshFails"}) /\ Store(t, 0, << >>)
          \/ Succeeds /\ Store(t, Len(HalRows(t, nodes)), HalRows(t, nodes))
        BY <1>2 DEF MeshTable_Synchronize, CosaDmlMocaIfMeshTableGetTable
    <2>5. Grows /\ Fetched(t)
        BY <1>0, <2>3, <2>4, FaultFetched, SuccessFetched, CountsType
    <2> QED
        BY <1>0, <2>1, <2>5
<1>3. CASE FlowStats_Synchronize
    <2> DEFINE t == "FlowStats"
    <2>1. BeginFetch(t) /\ Frame
        BY <1>3 DEF FlowStats_Synchronize
    <2>3. {"alloc", "flowFails"} \subseteq Disturbance
        BY DEF Disturbance, Op
    <2>4. \/ (Unavailable \/ Fault({"alloc", "flowFails"})) /\ Store(t, ResetCount(t), << >>)
          \/ Succeeds /\ Store(t, Len(HalRows(t, nodes)), HalRows(t, nodes))
        BY <1>3 DEF FlowStats_Synchronize, CosaDmlMocaIfFlowTableGetTable_fails
    <2>5. Grows /\ Fetched(t)
        BY <1>0, <2>3, <2>4, FaultFetched, SuccessFetched, CountsType
    <2> QED
        BY <1>0, <2>1, <2>5
<1> QED
    BY <1>1, <1>2, <1>3

-----------------------------------------------------------------------------
(* The steps of the fetch of the associated devices, in terms of what they *)
(* do to its table, A for short.                                           *)
A == "AssociatedDevice"

Held == [k \in DOMAIN array[A] |-> Blank]

LEMMA AInTable == A \in Table /\ A \notin Counted
BY DEF A, Table, Counted

(* The frame of the last three steps. *)
Middle == Frame /\ Grows /\ UNCHANGED <<is_moca_available, last_tick>>

LEMMA BeginAssociated ==
    ASSUME TypeInv, AssociatedDevice_Synchronize
    PROVE  /\ Frame /\ Grows /\ BeginFetch(A)
           /\ \/ /\ JudgeHardware /\ pc' = "cpes" /\ UNCHANGED count
                 /\ array' = [array EXCEPT ![A] = << >>]
              \/ ~JudgeHardware /\ Store(A, count[A], << >>)
BY DEF AssociatedDevice_Synchronize, A, Grows, TypeInv, EnvType

LEMMA CpesAssociated ==
    ASSUME TypeInv, GetMocaCPEs
    PROVE  /\ Middle /\ pc = "cpes"
           /\ \/ nodes # << >> /\ pc' = "num" /\ UNCHANGED <<count, array>>
              \/ /\ Store(A, count[A], << >>)
                 /\ nodes = << >> \/ used'["cpeFails"] > 0
<1>1. PICK fails \in BOOLEAN :
        /\ Outcome("cpeFails", fails)
        /\ IF ~fails /\ nodes # << >>
           THEN pc' = "num" /\ UNCHANGED <<count, array>>
           ELSE Store(A, count[A], << >>)
    BY DEF GetMocaCPEs, A
<1>2. Grows /\ (fails => used'["cpeFails"] > 0)
    BY <1>1, SpendType DEF Outcome, Grows, TypeInv, EnvType, Op
<1> QED
    BY <1>1, <1>2 DEF GetMocaCPEs, Middle

LEMMA NumAssociated ==
    ASSUME TypeInv, GetNumAssociatedDevices
    PROVE  /\ Middle /\ pc = "num"
           /\ \E n \in Nat :
                /\ n = Len(nodes) \/ used'["numFails"] > 0
                /\ \/ /\ n > 0 /\ pc' = "devices"
                      /\ count' = [count EXCEPT ![A] = n]
                      /\ array' = [array EXCEPT ![A] = [k \in 1 .. n |-> Blank]]
                   \/ Store(A, n, << >>) /\ (n = 0 \/ used'["alloc"] > 0)
<1>1. PICK fault \in {"none", "numFails", "alloc"} :
        LET n == IF fault = "numFails" THEN count[A] ELSE Len(nodes) IN
        /\ IF fault = "none" THEN UNCHANGED used ELSE Spend(fault)
        /\ IF n > 0 /\ fault # "alloc"
           THEN /\ pc' = "devices"
                /\ count' = [count EXCEPT ![A] = n]
                /\ array' = [array EXCEPT ![A] = [k \in 1 .. n |-> Blank]]
           ELSE Store(A, n, << >>)
    BY DEF GetNumAssociatedDevices, A
<1> DEFINE n == IF fault = "numFails" THEN count[A] ELSE Len(nodes)
<1>2. Len(nodes) \in Nat /\ count[A] \in Nat
    BY LenProperties, AInTable, CountsType DEF TypeInv, EnvType
<1>3. n \in Nat
    BY <1>2
<1>4. Grows /\ (fault # "none" => used'[fault] > 0)
    BY <1>1, SpendType DEF Grows, TypeInv, EnvType, Op
<1>5. n = Len(nodes) \/ used'["numFails"] > 0
    BY <1>4
<1>6. \/ /\ n > 0 /\ pc' = "devices"
         /\ count' = [count EXCEPT ![A] = n]
         /\ array' = [array EXCEPT ![A] = [k \in 1 .. n |-> Blank]]
      \/ Store(A, n, << >>) /\ (n = 0 \/ used'["alloc"] > 0)
    <2>1. CASE n > 0 /\ fault # "alloc"
        BY <1>1, <2>1
    <2>2. CASE ~(n > 0 /\ fault # "alloc")
        BY <1>1, <1>3, <1>4, <2>2
    <2> QED
        BY <2>1, <2>2
<1>7. Middle /\ pc = "num"
    BY <1>4 DEF GetNumAssociatedDevices, Middle
<1> HIDE DEF n
<1> QED
    BY <1>3, <1>5, <1>6, <1>7

LEMMA DevicesAssociated ==
    ASSUME TypeInv, GetAssociatedDevices
    PROVE  /\ Middle /\ pc = "devices"
           /\ \E rows :
                /\ Store(A, count[A], rows)
                /\ \/ rows = [k \in DOMAIN array[A] |->
                                IF k <= Len(nodes) THEN nodes[k] ELSE Blank]
                   \/ rows = Held /\ used'["devicesFail"] > 0
<1>1. PICK fails \in BOOLEAN :
        /\ Outcome("devicesFail", fails)
        /\ Store(A, count[A],
                 [k \in DOMAIN array[A] |->
                    IF ~fails /\ k <= Len(nodes) THEN nodes[k] ELSE Blank])
    BY DEF GetAssociatedDevices, A
<1>2. Grows /\ (fails => used'["devicesFail"] > 0)
    BY <1>1, SpendType DEF Outcome, Grows, TypeInv, EnvType, Op
<1>3. CASE fails
    <2>1. [k \in DOMAIN array[A] |->
              IF ~fails /\ k <= Len(nodes) THEN nodes[k] ELSE Blank] = Held
        BY <1>3 DEF Held
    <2> QED
        BY <1>1, <1>2, <1>3, <2>1 DEF GetAssociatedDevices, Middle
<1>4. CASE ~fails
    BY <1>1, <1>2, <1>4 DEF GetAssociatedDevices, Middle
<1> QED
    BY <1>3, <1>4


(* The table of A holds n rows that are blank, or none. *)
LEMMA BlankRows ==
    ASSUME NEW n \in Nat
    PROVE  /\ [k \in 1 .. n |-> Blank] \in Seq(Node \union {Blank})
           /\ [k \in 1 .. n |-> Blank] \in Seq(Row)
           /\ Len([k \in 1 .. n |-> Blank]) = n
           /\ << >> \in Seq(Node \union {Blank}) /\ << >> \in Seq(Row)
<1>1. [k \in 1 .. n |-> Blank] \in Seq(Node \union {Blank})
    OBVIOUS
<1>2. [k \in 1 .. n |-> Blank] \in Seq(Row)
    BY DEF Row
<1> QED
    BY <1>1, <1>2

(* The rows that the last call fills, or leaves blank. *)
LEMMA RowsOfNodes ==
    ASSUME TypeInv
    PROVE  /\ Held \in Seq(Node \union {Blank}) /\ Len(Held) = Len(array[A])
           /\ LET rows == [k \in DOMAIN array[A] |->
                             IF k <= Len(nodes) THEN nodes[k] ELSE Blank]
              IN  rows \in Seq(Node \union {Blank}) /\ Len(rows) = Len(array[A])
<1> DEFINE d == Len(array[A])
           rows == [k \in 1 .. d |-> IF k <= Len(nodes) THEN nodes[k] ELSE Blank]
<1>1. array[A] \in Seq(Row)
    BY AInTable DEF TypeInv, TableType
<1>2. d \in Nat /\ DOMAIN array[A] = 1 .. d
    BY <1>1, LenProperties
<1>3. Len(nodes) \in Nat /\ \A k \in 1 .. Len(nodes) : nodes[k] \in Node
    BY LenProperties, ElementOfSeq DEF TypeInv, EnvType
<1>4. Held = [k \in 1 .. d |-> Blank]
    BY <1>2 DEF Held
<1> HIDE DEF d
<1>5. \A k \in 1 .. d : (IF k <= Len(nodes) THEN nodes[k] ELSE Blank) \in Node \union {Blank}
    BY <1>2, <1>3
<1>6. rows \in Seq(Node \union {Blank}) /\ Len(rows) = d
    BY <1>2, <1>5
<1> QED
    BY <1>2, <1>4, <1>6, BlankRows DEF d

LEMMA TypeNext ==
    ASSUME TypeInv, [Next]_vars,
           array[A] \in Seq(Node \union {Blank})
    PROVE  /\ TypeInv' /\ Grows
           /\ array'[A] \in Seq(Node \union {Blank})
<1>0. A \in Table /\ A \notin Counted /\ Counted \subseteq Table
      /\ array \in [Table -> Seq(Row)]
      /\ count \in [Table -> Nat]
    BY AInTable DEF Counted, TypeInv, TableType
<1>1. CASE Tick
    <2>1. EnvType' /\ Grows /\ UNCHANGED tables
        BY <1>1, TickType DEF TypeInv, Tick
    <2>2. now' = now + 1 /\ now \in Nat
        BY <1>1, Numbers DEF Tick, TypeInv, EnvType
    <2>3. \A t \in Table : last_tick'[t] <= now'
        BY <2>1, <2>2 DEF TypeInv, TableType, tables
    <2> QED
        BY <2>1, <2>3 DEF TypeInv, TableType, tables
<1>2. CASE NetworkChanges
    <2>1. EnvType' /\ Grows /\ UNCHANGED tables /\ now' = now
        BY <1>2, NetworkType DEF TypeInv, NetworkChanges
    <2> QED
        BY <2>1 DEF TypeInv, TableType, tables
<1>3. CASE EnableChanges
    <2>1. EnvType' /\ Grows /\ UNCHANGED tables /\ now' = now
        BY <1>3, EnableType DEF TypeInv, EnableChanges
    <2> QED
        BY <2>1 DEF TypeInv, TableType, tables
<1>4. CASE \/ X_CISCO_COM_PeerTable_Synchronize
           \/ MeshTable_Synchronize
           \/ FlowStats_Synchronize
    <2>1. PICK t \in Counted : BeginFetch(t) /\ Frame /\ Grows /\ Fetched(t)
        BY <1>4, SynchronizeFetches
    <2>2. PICK n \in Nat, rows \in Seq(Row) : Store(t, n, rows)
        BY <2>1 DEF Fetched
    <2>3. TypeInv'
        BY <1>0, <2>1, <2>2, StoreType DEF BeginFetch
    <2>4. array'[A] = array[A]
        BY <1>0, <2>2 DEF Store
    <2> QED
        BY <2>1, <2>3, <2>4
<1>5. CASE AssociatedDevice_Synchronize
    <2>1. Frame /\ Grows /\ BeginFetch(A)
        BY <1>5, BeginAssociated
    <2>2. CASE ~JudgeHardware /\ Store(A, count[A], << >>)
        <3>1. TypeInv'
            BY <1>0, <2>1, <2>2, BlankRows, StoreType DEF BeginFetch
        <3>2. array'[A] = << >>
            BY <1>0, <2>2 DEF Store
        <3> QED
            BY <2>1, <3>1, <3>2, BlankRows
    <2>3. CASE /\ JudgeHardware /\ pc' = "cpes" /\ UNCHANGED count
               /\ array' = [array EXCEPT ![A] = << >>]
        <3>1. EnvType' /\ now' = now /\ now \in Nat
            BY <2>1, Numbers, FrameType DEF TypeInv, EnvType, Frame
        <3>2. array' \in [Table -> Seq(Row)] /\ array'[A] = << >>
            BY <1>0, <2>3, BlankRows
        <3>3. last_tick' = [last_tick EXCEPT ![A] = now] /\ is_moca_available' \in BOOLEAN
            BY <2>1, <2>3 DEF BeginFetch, KeepTick
        <3>4. last_tick' \in [Table -> Nat] /\ \A s \in Table : last_tick'[s] <= now'
            BY <1>0, <3>1, <3>3 DEF TypeInv, TableType
        <3> QED
            BY <1>0, <2>1, <2>3, <3>1, <3>2, <3>3, <3>4, BlankRows DEF TypeInv, TableType
    <2> QED
        BY <1>5, <2>2, <2>3, BeginAssociated
<1>6. CASE GetMocaCPEs
    <2>1. Middle
        BY <1>6, CpesAssociated
    <2>2. CASE pc' = "num" /\ UNCHANGED <<count, array>>
        <3>1. EnvType' /\ now' = now
            BY <2>1, FrameType DEF TypeInv, Middle, Frame
        <3> QED
            BY <2>1, <2>2, <3>1 DEF TypeInv, TableType, Middle
    <2>3. CASE Store(A, count[A], << >>)
        <3>1. TypeInv'
            BY <1>0, <2>1, <2>3, BlankRows, StoreType DEF Middle
        <3>2. array'[A] = << >>
            BY <1>0, <2>3 DEF Store
        <3> QED
            BY <2>1, <3>1, <3>2, BlankRows DEF Middle
    <2> QED
        BY <1>6, <2>2, <2>3, CpesAssociated
<1>7. CASE GetNumAssociatedDevices
    <2>1. Middle
        BY <1>7, NumAssociated
    <2>2. PICK n \in Nat :
            \/ /\ n > 0 /\ pc' = "devices"
               /\ count' = [count EXCEPT ![A] = n]
               /\ array' = [array EXCEPT ![A] = [k \in 1 .. n |-> Blank]]
            \/ Store(A, n, << >>)
        BY <1>7, NumAssociated
    <2>3. CASE /\ n > 0 /\ pc' = "devices"
               /\ count' = [count EXCEPT ![A] = n]
               /\ array' = [array EXCEPT ![A] = [k \in 1 .. n |-> Blank]]
        <3>1. EnvType' /\ now' = now
            BY <2>1, FrameType DEF TypeInv, Middle, Frame
        <3> DEFINE rows == [k \in 1 .. n |-> Blank]
        <3>2. rows \in Seq(Row) /\ rows \in Seq(Node \union {Blank})
            BY BlankRows
        <3>3. array' = [array EXCEPT ![A] = rows]
            BY <2>3
        <3> HIDE DEF rows
        <3>4. array' \in [Table -> Seq(Row)] /\ array'[A] = rows
            BY <1>0, <3>2, <3>3
        <3>5. count' \in [Table -> Nat]
            BY <1>0, <2>3
        <3> QED
            BY <2>1, <2>3, <3>1, <3>2, <3>4, <3>5 DEF TypeInv, TableType, Middle
    <2>4. CASE Store(A, n, << >>)
        <3>1. TypeInv'
            BY <1>0, <2>1, <2>4, BlankRows, StoreType DEF Middle
        <3>2. array'[A] = << >>
            BY <1>0, <2>4 DEF Store
        <3> QED
            BY <2>1, <3>1, <3>2, BlankRows DEF Middle
    <2> QED
        BY <2>2, <2>3, <2>4
<1>8. CASE GetAssociatedDevices
    <2>1. Middle
        BY <1>8, DevicesAssociated
    <2>2. PICK rows :
            /\ Store(A, count[A], rows)
            /\ \/ rows = [k \in DOMAIN array[A] |->
                            IF k <= Len(nodes) THEN nodes[k] ELSE Blank]
               \/ rows = Held
        BY <1>8, DevicesAssociated
    <2>3. rows \in Seq(Node \union {Blank})
        BY <2>2, RowsOfNodes
    <2>4. rows \in Seq(Row)
        BY <2>3, SeqMonotonic DEF Row
    <2>5. TypeInv'
        BY <1>0, <2>1, <2>2, <2>4, StoreType DEF Middle
    <2>6. array'[A] = rows
        BY <1>0, <2>2 DEF Store
    <2> QED
        BY <2>1, <2>3, <2>5, <2>6 DEF Middle
<1>9. CASE UNCHANGED vars
    BY <1>9 DEF vars, tables, TypeInv, EnvType, TableType, Grows
<1> QED
    BY <1>1, <1>2, <1>3, <1>4, <1>5, <1>6, <1>7, <1>8, <1>9 DEF Next


-----------------------------------------------------------------------------
(***************************************************************************)
(* AssociatedRowsExist.  The count outlives the array only at a fetch that *)
(* failed early, or that found an empty network; then that moment is       *)
(* remembered for as long as the table is answered.                        *)
(***************************************************************************)
EmptySeen ==
    last_tick[A] >= now - MOCA_REFRESH_INTERVAL =>
        \E s \in past : s.nodes = << >> /\ s.at >= last_tick[A]

AssocInv ==
    /\ array[A] \in Seq(Node \union {Blank})
    /\ ~is_moca_available => count[A] = 0 /\ pc = "idle" /\ array[A] = << >>
    /\ pc = "devices" => count[A] = Len(array[A])
    /\ pc = "idle" =>
        \/ count[A] = Len(array[A])
        \/ array[A] = << >> /\ (used["cpeFails"] + used["alloc"] > 0 \/ EmptySeen)

(* What was seen stays seen while the table's tick stays. *)
LEMMA SeenKept ==
    ASSUME TypeInv, TypeInv', last_tick'[A] = last_tick[A],
           \/ UNCHANGED <<now, past>>
           \/ Tick \/ NetworkChanges \/ EnableChanges,
           EmptySeen
    PROVE  EmptySeen'
<1>1. SUFFICES ASSUME last_tick[A] >= now' - MOCA_REFRESH_INTERVAL
               PROVE  \E s \in past' : s.nodes = << >> /\ s.at >= last_tick[A]
    BY DEF EmptySeen
<1>2. last_tick[A] \in Nat /\ now \in Nat /\ now' \in Nat /\ now' >= now
    BY Numbers, AInTable DEF TypeInv, EnvType, TableType, Tick, NetworkChanges, EnableChanges
<1>3. last_tick[A] >= now - MOCA_REFRESH_INTERVAL
    BY <1>1, <1>2, Numbers
<1>4. PICK s \in past : s.nodes = << >> /\ s.at >= last_tick[A]
    BY <1>3 DEF EmptySeen
<1>5. s.at \in Nat
    BY <1>4 DEF TypeInv, EnvType, Moments
<1>6. s \in past'
    <2>1. CASE Tick
        <3>1. s.at >= now' - MOCA_REFRESH_INTERVAL
            BY <1>1, <1>2, <1>4, <1>5, Numbers
        <3> QED
            BY <2>1, <3>1, TickType DEF TypeInv
    <2>2. CASE past \subseteq past'
        BY <2>2
    <2> QED
        BY <2>1, <2>2 DEF NetworkChanges, EnableChanges
<1> QED
    BY <1>4, <1>6

LEMMA SpentStays ==
    ASSUME TypeInv, Grows, used["cpeFails"] + used["alloc"] > 0
    PROVE  used'["cpeFails"] + used'["alloc"] > 0
<1>1. "cpeFails" \in Op /\ "alloc" \in Op
    BY DEF Op
<1>2. \A op \in Op : used[op] \in Nat /\ used'[op] \in Nat /\ used'[op] >= used[op]
    BY DEF TypeInv, EnvType, Grows
<1> QED
    BY <1>1, <1>2

(* A step that leaves the table of A alone, between two requests or while   *)
(* its fetch is under way.                                                  *)
LEMMA AssocKept ==
    ASSUME TypeInv, TypeInv', AssocInv, Grows,
           count'[A] = count[A], array'[A] = array[A], last_tick'[A] = last_tick[A],
           pc' = pc, is_moca_available => is_moca_available',
           \/ UNCHANGED <<now, past>>
           \/ Tick \/ NetworkChanges \/ EnableChanges
    PROVE  AssocInv'
<1>1. EmptySeen => EmptySeen'
    BY SeenKept
<1>2. used["cpeFails"] + used["alloc"] > 0 => used'["cpeFails"] + used'["alloc"] > 0
    BY SpentStays
<1> QED
    BY <1>1, <1>2 DEF AssocInv

LEMMA AssocNext ==
    ASSUME TypeInv, AssocInv, [Next]_vars
    PROVE  AssocInv'
<1>0. TypeInv' /\ Grows /\ array'[A] \in Seq(Node \union {Blank})
    BY TypeNext DEF AssocInv
<1>1. /\ A \in Table /\ A \notin Counted
      /\ array \in [Table -> Seq(Row)] /\ count \in [Table -> Nat]
      /\ last_tick \in [Table -> Nat]
    BY AInTable DEF TypeInv, TableType
<1>2. CASE Tick \/ NetworkChanges \/ EnableChanges
    <2>1. UNCHANGED tables
        BY <1>2 DEF Tick, NetworkChanges, EnableChanges
    <2> QED
        BY <1>0, <1>2, <2>1, AssocKept DEF tables
<1>3. CASE \/ X_CISCO_COM_PeerTable_Synchronize
           \/ MeshTable_Synchronize
           \/ FlowStats_Synchronize
    <2>1. PICK t \in Counted : BeginFetch(t) /\ Frame /\ Fetched(t)
        BY <1>3, SynchronizeFetches
    <2>2. PICK n \in Nat, rows \in Seq(Row) : Store(t, n, rows)
        BY <2>1 DEF Fetched
    <2>3. count'[A] = count[A] /\ array'[A] = array[A] /\ pc' = "idle" /\ pc = "idle"
        BY <1>1, <2>1, <2>2 DEF Store, BeginFetch
    <2>4. last_tick'[A] = last_tick[A] /\ (is_moca_available => is_moca_available')
        BY <1>1, <2>1 DEF BeginFetch, KeepTick, JudgeHardware
    <2> QED
        BY <1>0, <2>1, <2>3, <2>4, AssocKept DEF Frame
<1>4. CASE AssociatedDevice_Synchronize
    <2>1. is_moca_available' = JudgeHardware /\ pc = "idle"
        BY <1>4, BeginAssociated DEF BeginFetch
    <2>2. CASE JudgeHardware /\ pc' = "cpes"
        BY <1>0, <2>1, <2>2 DEF AssocInv
    <2>3. CASE ~JudgeHardware /\ Store(A, count[A], << >>)
        <3>1. count[A] = 0
            BY <2>3 DEF JudgeHardware, AssocInv
        <3>2. count'[A] = 0 /\ array'[A] = << >> /\ pc' = "idle"
            BY <1>1, <2>3, <3>1 DEF Store
        <3> QED
            BY <1>0, <3>2, NoRows DEF AssocInv
    <2> QED
        BY <1>4, <2>2, <2>3, BeginAssociated
<1>5. CASE GetMocaCPEs
    <2>1. Middle /\ pc = "cpes" /\ is_moca_available'
        BY <1>5, CpesAssociated DEF Middle, AssocInv
    <2>2. CASE pc' = "num"
        BY <1>0, <2>1, <2>2 DEF AssocInv
    <2>3. CASE Store(A, count[A], << >>) /\ used'["cpeFails"] > 0
        <3>1. used'["cpeFails"] + used'["alloc"] > 0 /\ pc' = "idle" /\ array'[A] = << >>
            BY <1>0, <1>1, <2>3 DEF Store, Op, Grows
        <3> QED
            BY <1>0, <2>1, <3>1 DEF AssocInv
    <2>4. CASE Store(A, count[A], << >>) /\ nodes = << >>
        <3>1. Moment(now, nodes, enabled) \in past' /\ now' = now
            BY <2>1 DEF TypeInv, EnvType, Middle, Frame
        <3>2. now >= last_tick'[A]
            BY <1>1, <2>1 DEF TypeInv, TableType, Middle
        <3>3. EmptySeen'
            BY <2>4, <3>1, <3>2 DEF EmptySeen, Moment
        <3>4. pc' = "idle" /\ array'[A] = << >>
            BY <1>1, <2>4 DEF Store
        <3> QED
            BY <1>0, <2>1, <3>3, <3>4 DEF AssocInv
    <2> QED
        BY <1>5, <2>2, <2>3, <2>4, CpesAssociated
<1>6. CASE GetNumAssociatedDevices
    <2>1. Middle /\ pc = "num" /\ is_moca_available'
        BY <1>6, NumAssociated DEF Middle, AssocInv
    <2>2. PICK n \in Nat :
            \/ /\ n > 0 /\ pc' = "devices"
               /\ count' = [count EXCEPT ![A] = n]
               /\ array' = [array EXCEPT ![A] = [k \in 1 .. n |-> Blank]]
            \/ Store(A, n, << >>) /\ (n = 0 \/ used'["alloc"] > 0)
        BY <1>6, NumAssociated
    <2>3. CASE /\ n > 0 /\ pc' = "devices"
               /\ count' = [count EXCEPT ![A] = n]
               /\ array' = [array EXCEPT ![A] = [k \in 1 .. n |-> Blank]]
        <3>1. count'[A] = n /\ array'[A] = [k \in 1 .. n |-> Blank]
            BY <1>1, <2>3
        <3>2. Len(array'[A]) = n
            BY <3>1, BlankRows
        <3> QED
            BY <1>0, <2>1, <2>3, <3>1, <3>2 DEF AssocInv
    <2>4. CASE Store(A, n, << >>) /\ n = 0
        <3>1. count'[A] = 0 /\ array'[A] = << >> /\ pc' = "idle"
            BY <1>1, <2>4 DEF Store
        <3> QED
            BY <1>0, <2>1, <3>1, NoRows DEF AssocInv
    <2>5. CASE Store(A, n, << >>) /\ used'["alloc"] > 0
        <3>1. used'["cpeFails"] + used'["alloc"] > 0 /\ pc' = "idle" /\ array'[A] = << >>
            BY <1>0, <1>1, <2>5 DEF Store, Op, Grows
        <3> QED
            BY <1>0, <2>1, <3>1 DEF AssocInv
    <2> QED
        BY <2>2, <2>3, <2>4, <2>5
<1>7. CASE GetAssociatedDevices
    <2>1. Middle /\ pc = "devices" /\ is_moca_available'
        BY <1>7, DevicesAssociated DEF Middle, AssocInv
    <2>2. PICK rows :
            /\ Store(A, count[A], rows)
            /\ \/ rows = [k \in DOMAIN array[A] |->
                            IF k <= Len(nodes) THEN nodes[k] ELSE Blank]
               \/ rows = Held
        BY <1>7, DevicesAssociated
    <2>3. Len(rows) = Len(array[A])
        BY <2>2, RowsOfNodes
    <2>4. count'[A] = count[A] /\ array'[A] = rows /\ pc' = "idle"
        BY <1>1, <2>2 DEF Store
    <2>5. count'[A] = Len(array'[A])
        BY <2>1, <2>3, <2>4 DEF AssocInv
    <2> QED
        BY <1>0, <2>1, <2>4, <2>5 DEF AssocInv
<1>8. CASE UNCHANGED vars
    BY <1>0, <1>8, AssocKept DEF vars, tables
<1> QED
    BY <1>2, <1>3, <1>4, <1>5, <1>6, <1>7, <1>8 DEF Next


-----------------------------------------------------------------------------
(***************************************************************************)
(* FreshRows.  Without the excepted faults the rows of a table are those   *)
(* of the moment its tick was kept, and that moment is remembered until    *)
(* the tick is too old.  While the associated devices are fetched the      *)
(* network is what it was when their tick was kept.                        *)
(***************************************************************************)
Quiet == OnlyUsed({"change", "disable"})

(* Table t, were its rows r, shows the network of the moment s. *)
Shows(t, r, s) ==
    \/ r = HalRows(t, s.nodes)
    \/ ~s.enabled /\ r = << >>

Young(t) == last_tick[t] >= now - MOCA_REFRESH_INTERVAL

FreshTables ==
    \A t \in Table : (t = A => pc = "idle") /\ last_tick[t] # 0 /\ Young(t) =>
        \E s \in past : s.at = last_tick[t] /\ Shows(t, array[t], s)

FreshFetch ==
    /\ pc # "idle" /\ Young(A) => \E s \in past : s.at = last_tick[A] /\ s.nodes = nodes
    /\ pc = "devices" => Len(array[A]) = Len(nodes)

FreshInv == Quiet => FreshTables /\ FreshFetch

LEMMA QuietBefore ==
    ASSUME TypeInv, Grows, Quiet'
    PROVE  Quiet /\ \A op \in Disturbance : used'[op] = 0
BY DEF TypeInv, EnvType, Grows, Quiet, OnlyUsed, Disturbance

(* A moment stays remembered, with a table that stays young. *)
LEMMA MomentKept ==
    ASSUME TypeInv, TypeInv', Tick \/ NetworkChanges \/ EnableChanges,
           NEW t \in Table, NEW s \in past, s.at = last_tick[t], Young(t)'
    PROVE  s \in past' /\ Young(t)
<1>1. last_tick'[t] = last_tick[t]
    BY DEF Tick, NetworkChanges, EnableChanges, tables
<1>2. last_tick[t] \in Nat /\ now \in Nat /\ now' \in Nat /\ now' >= now
    BY Numbers DEF TypeInv, EnvType, TableType, Tick, NetworkChanges, EnableChanges
<1>3. last_tick[t] >= now' - MOCA_REFRESH_INTERVAL
    BY <1>1 DEF Young
<1>4. Young(t)
    BY <1>2, <1>3, Numbers DEF Young
<1>5. CASE Tick
    BY <1>3, <1>4, <1>5, TickType DEF TypeInv
<1>6. CASE NetworkChanges \/ EnableChanges
    BY <1>4, <1>6 DEF NetworkChanges, EnableChanges
<1> QED
    BY <1>5, <1>6

LEMMA YoungBefore ==
    ASSUME TypeInv, TypeInv', Tick \/ NetworkChanges \/ EnableChanges,
           NEW t \in Table, Young(t)'
    PROVE  Young(t)
<1>1. last_tick'[t] = last_tick[t]
    BY DEF Tick, NetworkChanges, EnableChanges, tables
<1>2. last_tick[t] \in Nat /\ now \in Nat /\ now' \in Nat /\ now' >= now
    BY Numbers DEF TypeInv, EnvType, TableType, Tick, NetworkChanges, EnableChanges
<1> QED
    BY <1>1, <1>2, Numbers DEF Young

LEMMA EnvironmentFresh ==
    ASSUME TypeInv, TypeInv', Grows, FreshInv, Tick \/ NetworkChanges \/ EnableChanges
    PROVE  FreshInv'
<1> SUFFICES ASSUME Quiet' PROVE FreshTables' /\ FreshFetch'
    BY DEF FreshInv
<1>1. Quiet /\ FreshTables /\ FreshFetch
    BY QuietBefore DEF FreshInv
<1>2. UNCHANGED <<last_tick, array, pc, count>>
    BY DEF Tick, NetworkChanges, EnableChanges, tables
<1>3. FreshTables'
    <2> SUFFICES ASSUME NEW t \in Table, t = A => pc' = "idle", last_tick'[t] # 0, Young(t)'
                 PROVE  \E s \in past' : s.at = last_tick'[t] /\ Shows(t, array'[t], s)
        BY DEF FreshTables, Shows
    <2>1. Young(t)
        BY YoungBefore
    <2>2. PICK s \in past : s.at = last_tick[t] /\ Shows(t, array[t], s)
        BY <1>1, <1>2, <2>1 DEF FreshTables
    <2>3. s \in past'
        BY <2>2, MomentKept
    <2> QED
        BY <1>2, <2>2, <2>3
<1>4. pc # "idle" => nodes' = nodes
    <2>1. CASE NetworkChanges
        <3>1. used'["changeInFetch"] = 0
            BY QuietBefore DEF Disturbance, Op
        <3>2. pc = "idle"
            BY <2>1, <3>1, NetworkType DEF TypeInv
        <3> QED
            BY <3>2
    <2> QED
        BY <2>1 DEF Tick, EnableChanges
<1>5. FreshFetch'
    <2>1. ASSUME pc' # "idle", Young(A)'
          PROVE  \E s \in past' : s.at = last_tick'[A] /\ s.nodes = nodes'
        <3>1. Young(A) /\ pc # "idle"
            BY <1>2, <2>1, YoungBefore, AInTable
        <3>2. PICK s \in past : s.at = last_tick[A] /\ s.nodes = nodes
            BY <1>1, <3>1 DEF FreshFetch
        <3>3. s \in past'
            BY <2>1, <3>2, MomentKept, AInTable
        <3> QED
            BY <1>2, <1>4, <3>1, <3>2, <3>3
    <2>2. pc' = "devices" => Len(array'[A]) = Len(nodes')
        BY <1>1, <1>2, <1>4 DEF FreshFetch
    <2> QED
        BY <2>1, <2>2 DEF FreshFetch
<1> QED
    BY <1>3, <1>5

(* A fetch that ends leaves the other tables as they are. *)
LEMMA FetchFresh ==
    ASSUME TypeInv, Frame, FreshTables, NEW t \in Table,
           last_tick' \in [Table -> Nat],
           \A u \in Table : u # t => last_tick'[u] = last_tick[u] /\ array'[u] = array[u],
           t # A => pc = "idle",
           pc' = "idle",
           last_tick'[t] # 0 /\ Young(t)' =>
                \E s \in past : s.at = last_tick'[t] /\ Shows(t, array'[t], s)
    PROVE  FreshTables' /\ FreshFetch'
<1>1. UNCHANGED <<now, past>>
    BY DEF Frame
<1>2. FreshTables'
    <2> SUFFICES ASSUME NEW u \in Table, last_tick'[u] # 0, Young(u)'
                 PROVE  \E s \in past' : s.at = last_tick'[u] /\ Shows(u, array'[u], s)
        BY DEF FreshTables, Shows
    <2>1. CASE u = t
        BY <1>1, <2>1
    <2>2. CASE u # t
        <3>1. Young(u) /\ last_tick[u] # 0
            BY <1>1, <2>2 DEF Young
        <3>2. u = A => pc = "idle"
            BY <2>2
        <3>3. \E s \in past : s.at = last_tick[u] /\ Shows(u, array[u], s)
            BY <3>1, <3>2 DEF FreshTables
        <3> QED
            BY <1>1, <2>2, <3>3
    <2> QED
        BY <2>1, <2>2
<1>3. FreshFetch'
    BY DEF FreshFetch
<1> QED
    BY <1>2, <1>3


LEMMA AssociatedRows ==
    ASSUME NEW n
    PROVE  HalRows(A, n) = n
BY DEF HalRows, A

(* A step of the fetch of A that goes on: the network did not move. *)
LEMMA FetchGoesOn ==
    ASSUME TypeInv, Middle, FreshTables, FreshFetch,
           pc # "idle", pc' # "idle",
           \A u \in Table : u # A => array'[u] = array[u],
           pc' = "devices" => Len(array'[A]) = Len(nodes)
    PROVE  FreshTables' /\ FreshFetch'
<1>1. UNCHANGED <<now, past, nodes, last_tick>>
    BY DEF Middle, Frame
<1>2. FreshTables'
    <2> SUFFICES ASSUME NEW u \in Table, u # A, last_tick'[u] # 0, Young(u)'
                 PROVE  \E s \in past' : s.at = last_tick'[u] /\ Shows(u, array'[u], s)
        BY DEF FreshTables, Shows
    <2>1. Young(u) /\ last_tick[u] # 0
        BY <1>1 DEF Young
    <2>2. \E s \in past : s.at = last_tick[u] /\ Shows(u, array[u], s)
        BY <2>1 DEF FreshTables
    <2> QED
        BY <1>1, <2>2
<1>3. FreshFetch'
    BY <1>1 DEF FreshFetch, Young
<1> QED
    BY <1>2, <1>3

(* A fetch of A that ends with the network in its array. *)
LEMMA FetchEnds ==
    ASSUME TypeInv, TypeInv', Middle, FreshTables, FreshFetch,
           pc # "idle", NEW n, Store(A, n, nodes)
    PROVE  FreshTables' /\ FreshFetch'
<1>1. /\ A \in Table /\ array \in [Table -> Seq(Row)] /\ last_tick' \in [Table -> Nat]
    BY AInTable DEF TypeInv, TableType
<1>2. array'[A] = nodes /\ pc' = "idle" /\ \A u \in Table : u # A => array'[u] = array[u]
    BY <1>1 DEF Store
<1>3. UNCHANGED <<last_tick, now>> /\ Frame
    BY DEF Middle, Frame
<1>4. ASSUME Young(A)' PROVE \E s \in past : s.at = last_tick'[A] /\ Shows(A, array'[A], s)
    <2>1. Young(A)
        BY <1>3, <1>4 DEF Young
    <2>2. PICK s \in past : s.at = last_tick[A] /\ s.nodes = nodes
        BY <2>1 DEF FreshFetch
    <2> QED
        BY <1>2, <1>3, <2>2, AssociatedRows DEF Shows
<1> QED
    BY <1>1, <1>2, <1>3, <1>4, FetchFresh

LEMMA FreshNext ==
    ASSUME TypeInv, TypeInv', Grows, FreshInv, [Next]_vars
    PROVE  FreshInv'
<1>0. /\ A \in Table /\ A \notin Counted /\ Counted \subseteq Table
      /\ array \in [Table -> Seq(Row)]
      /\ last_tick \in [Table -> Nat] /\ last_tick' \in [Table -> Nat]
      /\ Moment(now, nodes, enabled) \in past
    BY AInTable DEF Counted, TypeInv, TableType, EnvType
<1>1. CASE Tick \/ NetworkChanges \/ EnableChanges
    BY <1>1, EnvironmentFresh
<1> SUFFICES ASSUME Quiet', ~(Tick \/ NetworkChanges \/ EnableChanges)
             PROVE  FreshTables' /\ FreshFetch'
    BY <1>1 DEF FreshInv
<1>2. FreshTables /\ FreshFetch /\ \A op \in Disturbance : used'[op] = 0
    BY QuietBefore DEF FreshInv
<1>3. ~JudgeHardware => ~enabled
    BY DEF JudgeHardware
<1>4. CASE \/ X_CISCO_COM_PeerTable_Synchronize
           \/ MeshTable_Synchronize
           \/ FlowStats_Synchronize
    <2>1. PICK t \in Counted : BeginFetch(t) /\ Frame /\ Fetched(t)
        BY <1>4, SynchronizeFetches
    <2>2. PICK n \in Nat, rows \in Seq(Row) :
            /\ Store(t, n, rows)
            /\ \/ ~JudgeHardware /\ rows = << >>
               \/ JudgeHardware /\ rows = HalRows(t, nodes)
               \/ \E op \in Disturbance : used'[op] > 0
        BY <2>1 DEF Fetched
    <2>3. rows = HalRows(t, nodes) \/ (~enabled /\ rows = << >>)
        BY <1>2, <1>3, <2>2
    <2>4. /\ array'[t] = rows /\ pc' = "idle" /\ pc = "idle" /\ last_tick'[t] = now
          /\ \A u \in Table : u # t => last_tick'[u] = last_tick[u] /\ array'[u] = array[u]
        BY <1>0, <2>1, <2>2 DEF Store, BeginFetch, KeepTick
    <2>5. Shows(t, array'[t], Moment(now, nodes, enabled))
        BY <2>3, <2>4 DEF Shows, Moment
    <2>6. Moment(now, nodes, enabled).at = last_tick'[t]
        BY <2>4 DEF Moment
    <2> QED
        BY <1>0, <1>2, <2>1, <2>4, <2>5, <2>6, FetchFresh
<1>5. CASE AssociatedDevice_Synchronize
    <2>1. Frame /\ BeginFetch(A) /\ pc = "idle"
        BY <1>5, BeginAssociated DEF BeginFetch
    <2>2. last_tick'[A] = now /\ \A u \in Table : u # A => last_tick'[u] = last_tick[u]
        BY <1>0, <2>1 DEF BeginFetch, KeepTick
    <2>3. Moment(now, nodes, enabled).at = last_tick'[A]
        BY <2>2 DEF Moment
    <2>4. CASE ~JudgeHardware /\ Store(A, count[A], << >>)
        <3>1. array'[A] = << >> /\ pc' = "idle" /\ \A u \in Table : u # A => array'[u] = array[u]
            BY <1>0, <2>4 DEF Store
        <3>2. Shows(A, array'[A], Moment(now, nodes, enabled))
            BY <1>3, <2>4, <3>1 DEF Shows, Moment
        <3> QED
            BY <1>0, <1>2, <2>1, <2>2, <2>3, <3>1, <3>2, FetchFresh
    <2>5. CASE pc' = "cpes" /\ array' = [array EXCEPT ![A] = << >>]
        <3>1. UNCHANGED <<now, past, nodes>>
            BY <2>1 DEF Frame
        <3>2. \A u \in Table : u # A => array'[u] = array[u]
            BY <1>0, <2>5
        <3>3. FreshTables'
            <4> SUFFICES ASSUME NEW u \in Table, u # A, last_tick'[u] # 0, Young(u)'
                         PROVE  \E s \in past' : s.at = last_tick'[u] /\ Shows(u, array'[u], s)
                BY <2>5 DEF FreshTables, Shows
            <4>1. Young(u) /\ last_tick[u] # 0
                BY <2>2, <3>1 DEF Young
            <4>2. \E s \in past : s.at = last_tick[u] /\ Shows(u, array[u], s)
                BY <1>2, <4>1 DEF FreshTables
            <4> QED
                BY <2>2, <3>1, <3>2, <4>2
        <3>4. FreshFetch'
            <4>1. Moment(now, nodes, enabled).nodes = nodes'
                BY <3>1 DEF Moment
            <4> QED
                BY <1>0, <2>3, <2>5, <3>1, <4>1 DEF FreshFetch
        <3> QED
            BY <3>3, <3>4
    <2> QED
        BY <1>5, <2>4, <2>5, BeginAssociated
<1>6. CASE GetMocaCPEs
    <2>1. Middle /\ pc # "idle"
        BY <1>6, CpesAssociated
    <2>2. "cpeFails" \in Disturbance
        BY DEF Disturbance, Op
    <2>3. CASE pc' = "num" /\ UNCHANGED <<count, array>>
        BY <1>2, <2>1, <2>3, FetchGoesOn
    <2>4. CASE Store(A, count[A], << >>) /\ nodes = << >>
        BY <1>2, <2>1, <2>4, FetchEnds
    <2> QED
        BY <1>2, <1>6, <2>2, <2>3, <2>4, CpesAssociated
<1>7. CASE GetNumAssociatedDevices
    <2>1. Middle /\ pc # "idle"
        BY <1>7, NumAssociated
    <2>2. {"numFails", "alloc"} \subseteq Disturbance
        BY DEF Disturbance, Op
    <2>3. \/ /\ pc' = "devices"
             /\ array' = [array EXCEPT ![A] = [k \in 1 .. Len(nodes) |-> Blank]]
          \/ Store(A, 0, << >>) /\ Len(nodes) = 0
        BY <1>2, <1>7, <2>2, NumAssociated
    <2>4. CASE /\ pc' = "devices"
               /\ array' = [array EXCEPT ![A] = [k \in 1 .. Len(nodes) |-> Blank]]
        <3>1. Len(nodes) \in Nat
            BY LenProperties DEF TypeInv, EnvType
        <3>2. Len(array'[A]) = Len(nodes)
            BY <1>0, <2>4, <3>1, BlankRows
        <3>3. \A u \in Table : u # A => array'[u] = array[u]
            BY <1>0, <2>4
        <3> QED
            BY <1>2, <2>1, <2>4, <3>2, <3>3, FetchGoesOn
    <2>5. CASE Store(A, 0, << >>) /\ Len(nodes) = 0
        <3>1. nodes = << >>
            BY <2>5, EmptySeq DEF TypeInv, EnvType
        <3> QED
            BY <1>2, <2>1, <2>5, <3>1, FetchEnds
    <2> QED
        BY <2>3, <2>4, <2>5
<1>8. CASE GetAssociatedDevices
    <2>1. Middle /\ pc = "devices"
        BY <1>8, DevicesAssociated
    <2>2. "devicesFail" \in Disturbance
        BY DEF Disturbance, Op
    <2>3. Store(A, count[A], [k \in DOMAIN array[A] |->
                                IF k <= Len(nodes) THEN nodes[k] ELSE Blank])
        BY <1>2, <1>8, <2>2, DevicesAssociated
    <2>4. [k \in DOMAIN array[A] |-> IF k <= Len(nodes) THEN nodes[k] ELSE Blank] = nodes
        <3>1. Len(array[A]) = Len(nodes)
            BY <1>2, <2>1 DEF FreshFetch
        <3>2. array[A] \in Seq(Row)
            BY <1>0
        <3>3. DOMAIN array[A] = 1 .. Len(nodes)
            BY <3>1, <3>2, LenProperties
        <3>4. nodes \in Seq(Node)
            BY DEF TypeInv, EnvType
        <3>5. nodes = [k \in 1 .. Len(nodes) |-> nodes[k]] /\ Len(nodes) \in Nat
            BY <3>4, LenProperties
        <3>6. [k \in 1 .. Len(nodes) |-> IF k <= Len(nodes) THEN nodes[k] ELSE Blank]
                = [k \in 1 .. Len(nodes) |-> nodes[k]]
            BY <3>5
        <3> QED
            BY <3>3, <3>5, <3>6
    <2> QED
        BY <1>2, <2>1, <2>3, <2>4, FetchEnds
<1>9. CASE UNCHANGED vars
    BY <1>2, <1>9 DEF vars, tables, FreshTables, FreshFetch, Shows, Young
<1> QED
    BY <1>4, <1>5, <1>6, <1>7, <1>8, <1>9 DEF Next

-----------------------------------------------------------------------------
TablesInv == TypeInv /\ AssocInv /\ FreshInv

LEMMA TablesInit ==
    ASSUME Init
    PROVE  TablesInv
<1>1. nodes \in Seq(Node)
    <2>1. CASE nodes \in {<<n>> : n \in Node}
        <3>1. PICK n \in Node : nodes = <<n>>
            BY <2>1
        <3> QED
            BY <3>1
    <2> QED
        BY <2>1, EmptySeq DEF Init
<1>2. now = 0 /\ past = {Moment(0, nodes, enabled)}
    BY DEF Init
<1>3. EnvType
    BY <1>1, <1>2, Numbers DEF Init, EnvType, Moment, Moments
<1>4. /\ last_tick = [t \in Table |-> 0] /\ count = [t \in Table |-> 0]
      /\ array = [t \in Table |-> << >>]
      /\ is_moca_available = FALSE /\ pc = "idle"
    BY DEF Init
<1>5. TableType
    <2>1. last_tick \in [Table -> Nat] /\ \A t \in Table : last_tick[t] <= now
        BY <1>2, <1>4
    <2>2. count \in [Table -> Nat] /\ array \in [Table -> Seq(Row)]
        BY <1>4, NoRows
    <2> QED
        BY <1>4, <2>1, <2>2 DEF TableType
<1>6. AssocInv
    BY <1>4, AInTable, BlankRows, NoRows DEF AssocInv
<1>7. FreshInv
    BY <1>4 DEF FreshInv, FreshTables, FreshFetch
<1> QED
    BY <1>3, <1>5, <1>6, <1>7 DEF TypeInv, TablesInv

LEMMA TablesNext ==
    ASSUME TablesInv, [Next]_vars
    PROVE  TablesInv'
<1>1. TypeInv' /\ Grows
    BY TypeNext DEF TablesInv, AssocInv
<1>2. AssocInv'
    BY AssocNext DEF TablesInv
<1>3. FreshInv'
    BY <1>1, FreshNext DEF TablesInv
<1> QED
    BY <1>1, <1>2, <1>3 DEF TablesInv

LEMMA Invariance == Spec => []TablesInv
<1>1. Init => TablesInv
    BY TablesInit
<1>2. TablesInv /\ [Next]_vars => TablesInv'
    BY TablesNext
<1> QED
    BY <1>1, <1>2, PTL DEF Spec

(* Every variable of MoCATables keeps to its values. *)
THEOREM TypeCorrect == Spec => []TypeOK
<1>1. TablesInv => TypeOK
    <2> SUFFICES ASSUME TablesInv PROVE TypeOK
        OBVIOUS
    <2>1. now \in 0 .. MaxTick /\ now \in Nat /\ enabled \in BOOLEAN
          /\ used \in [Op -> Nat] /\ budget \in Budget
        BY Numbers DEF TablesInv, TypeInv, EnvType
    <2>2. last_tick \in [Table -> 0 .. now]
        BY <2>1 DEF TablesInv, TypeInv, TableType
    <2> QED
        BY <2>1, <2>2 DEF TablesInv, TypeInv, TableType, TypeOK, Row
<1> QED
    BY <1>1, Invariance, PTL

LEMMA KeptIsYoung ==
    ASSUME TypeInv, NEW t \in Table, Kept(t)
    PROVE  last_tick[t] # 0 /\ Young(t) /\ pc = "idle"
<1>1. last_tick[t] \in Nat /\ now \in Nat /\ MOCA_REFRESH_INTERVAL \in Nat
    BY Numbers DEF TypeInv, EnvType, TableType
<1> QED
    BY <1>1 DEF Kept, IsUpdated, TIME_NO_NEGATIVE, Young

(* A table that announces as many rows as its array has is answered with    *)
(* that array, entry for entry.                                             *)
LEMMA AnswerIsArray ==
    ASSUME NEW t \in Table, array[t] \in Seq(Row), count[t] = Len(array[t])
    PROVE  Answer(t) = array[t]
<1>1. Len(array[t]) \in Nat /\ array[t] = [k \in 1 .. Len(array[t]) |-> array[t][k]]
    BY LenProperties
<1>2. ASSUME NEW k \in 1 .. Len(array[t]) PROVE GetEntry(t, k - 1) = array[t][k]
    <2>1. k - 1 < Len(array[t]) /\ k - 1 + 1 = k
        BY <1>1
    <2> QED
        BY <2>1 DEF GetEntry
<1>3. Answer(t) = [k \in 1 .. Len(array[t]) |-> GetEntry(t, k - 1)]
    BY DEF Answer, GetEntryCount
<1> QED
    BY <1>1, <1>2, <1>3

(* Every associated device that is announced has its row, in every run of  *)
(* dml.c 6310-6365 and of the HAL calls in apis.c 1828-1925.               *)
LEMMA AssociatedRowsAreThere == Spec => []AssociatedRowsExist
<1>1. TablesInv => AssociatedRowsExist
    <2> SUFFICES ASSUME TablesInv, Kept(A),
                        ~(used["cpeFails"] + used["alloc"] > 0),
                        ~\E s \in past : s.nodes = << >>
                 PROVE  \A k \in DOMAIN Answer(A) : Answer(A)[k] # Wild
        BY DEF AssociatedRowsExist, A
    <2>1. Young(A) /\ pc = "idle"
        BY KeptIsYoung, AInTable DEF TablesInv
    <2>2. ~EmptySeen
        BY <2>1 DEF EmptySeen, Young
    <2>3. count[A] = Len(array[A]) /\ array[A] \in Seq(Node \union {Blank})
        BY <2>1, <2>2 DEF TablesInv, AssocInv
    <2>4. DOMAIN array[A] = 1 .. Len(array[A])
          /\ \A k \in 1 .. Len(array[A]) : array[A][k] \in Node \union {Blank}
        BY <2>3, LenProperties, ElementOfSeq
    <2>5. Answer(A) = array[A]
        BY <2>3, AInTable, AnswerIsArray DEF TablesInv, TypeInv, TableType
    <2>6. Wild \notin Node \union {Blank}
        BY TablesAssumption
    <2> QED
        BY <2>4, <2>5, <2>6
<1> QED
    BY <1>1, Invariance, PTL

(* Whatever a table announces it can hand out: the loop of the bus over     *)
(* GetEntryCount and GetEntry meets no row that is not there, for every     *)
(* network, refresh interval and order of failures.                         *)
THEOREM AnnouncedRowsAreThere == Spec => []RowsAnnounced
BY RowsAreCounted, AssociatedRowsAreThere, PTL DEF RowsAnnounced

(* What the bus reads from a table that is answered without a fetch is the   *)
(* network of one moment within the interval, whatever the nodes, the        *)
(* interval and the order of the requests are; only when no associated       *)
(* device was left are entries announced, and then all of no array.          *)
THEOREM RowsAreFresh == Spec => []FreshRows
<1>1. TablesInv /\ RowsCounted => FreshRows
    <2> SUFFICES ASSUME TablesInv, RowsCounted, NEW t \in Table, Kept(t), Quiet
                 PROVE  \E s \in past :
                            \/ Answer(t) = HalRows(t, s.nodes)
                            \/ ~s.enabled /\ Answer(t) = << >>
                            \/ t = A /\ s.nodes = << >> /\ HandsOutNothing(t)
        BY DEF FreshRows, Quiet, A
    <2>1. last_tick[t] # 0 /\ Young(t) /\ pc = "idle"
        BY KeptIsYoung DEF TablesInv
    <2>2. \E s \in past : Shows(t, array[t], s)
        BY <2>1 DEF TablesInv, FreshInv, FreshTables
    <2>3. array[t] \in Seq(Row)
        BY DEF TablesInv, TypeInv, TableType
    <2>4. CASE count[t] = Len(array[t])
        BY <2>2, <2>3, <2>4, AnswerIsArray DEF Shows
    <2>5. CASE count[t] # Len(array[t])
        <3>1. t = A
            BY <2>5 DEF RowsCounted, A
        <3>2. ~(used["cpeFails"] + used["alloc"] > 0)
            BY DEF Quiet, OnlyUsed, Op
        <3>3. array[A] = << >> /\ EmptySeen
            BY <2>1, <2>5, <3>1, <3>2 DEF TablesInv, AssocInv
        <3>4. PICK s \in past : s.nodes = << >>
            BY <2>1, <3>1, <3>3 DEF EmptySeen, Young
        <3>5. HandsOutNothing(t)
            <4>1. ASSUME NEW k \in 1 .. count[A] PROVE GetEntry(A, k - 1) = Wild
                <5>1. ~(k - 1 < Len(array[A]))
                    BY <3>3, NoRows
                <5> QED
                    BY <5>1 DEF GetEntry
            <4> QED
                BY <3>1, <4>1 DEF HandsOutNothing, Answer, GetEntryCount
        <3> QED
            BY <3>1, <3>4, <3>5
    <2> QED
        BY <2>4, <2>5
<1> QED
    BY <1>1, Invariance, RowsAreCounted, PTL

=============================================================================
