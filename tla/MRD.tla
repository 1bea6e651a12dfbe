-------------------------------- MODULE MRD --------------------------------
(***************************************************************************)
(* The multicast routing daemon, mrd.c: a process of its own that polls    *)
(* which multicast sources talk on the home bridge brlan0 ("lan") and on   *)
(* the MoCA bridge brlan10 ("wan"), tracks them in two tables of fixed     *)
(* size, and keeps a kernel route for each, on the MoCA side only for      *)
(* addresses that the white list holds.  The white list is shared memory   *)
(* that the xupnp service fills and MRD attaches, and attaches anew every  *)
(* MAX_SHMRCOUNT polls.                                                    *)
(*                                                                         *)
(* The kernel (multicast routes, neighbours, routing tables, shared        *)
(* memory) and xupnp are external.  The tables are the used prefixes of    *)
(* the C arrays.  ARP entries are not modelled: which of them "arp -d"     *)
(* removes is the tool's affair.                                           *)
(***************************************************************************)
EXTENDS Integers, Sequences, SequencesExt

CONSTANTS
    Addr,               \* IP addresses of multicast sources
    LinkLocal,          \* those that begin with "169."
    Matched,            \* those that "grep 169" finds: their line holds it somewhere
    OwnAddr,            \* those that "grep -v 169.254.30.1" leaves out
    ShmId,              \* what shmget returns for the white list's segment
    MAX_MCAST_ENTRIES,
    MAX_MLIFE,
    MAX_SHMRCOUNT,
    MaxLines,           \* bound: lines a script prints for one address
    Budget              \* bound: how often each environment action happens;
                        \* each member is one scenario

Side == {"lan", "wan"}

Fault == {"lanTalk", "wanTalk", "neighbour", "whitelist", "create", "replace",
          "remove", "shmat", "popen", "restart"}

ASSUME MRDAssumption ==
    /\ LinkLocal \subseteq Matched /\ Matched \subseteq Addr
    /\ OwnAddr \subseteq Addr
    /\ ShmId \in Nat
    /\ MAX_MCAST_ENTRIES \in Nat \ {0}
    /\ MAX_MLIFE \in Nat \ {0}
    /\ MAX_SHMRCOUNT \in Nat \ {0}
    /\ MaxLines \in Nat \ {0}
    /\ Budget \subseteq [Fault -> Nat]

VARIABLES
    LanMCastTable, WanMCastTable,   \* entries 0 .. count-1 of the arrays
    pc,                             \* control point of main()
    todo,                           \* lines of the script not read yet, per address
    i,                              \* index of the ageing loops
    wlist_stat,                     \* 0 once attached, -1 before
    mrd_wlist,                      \* the pointer to the white list
    shmid, shmrefreshCount, cnt,
    talking,        \* sources in the kernel's multicast routes, per side
    neighbour,      \* addresses with a neighbour entry that has not FAILED
    lanRoute,       \* routes "<address> dev brlan0"
    mocaRoute,      \* routes "<address> dev brlan10 table moca"
    segment,        \* whether xupnp's segment exists
    whitelist,      \* the addresses it holds
    view,           \* the addresses that MRD's mapping shows
    shared,         \* whether that is a mapping of the segment that exists
    maps,           \* number of mappings MRD holds
    used,           \* how often each bounded environment action happened
    age             \* history: ageing passes since an address was last read

tables == <<LanMCastTable, WanMCastTable>>
shmVars == <<wlist_stat, mrd_wlist, shmid, view, shared, maps>>
loopVars == <<todo, i, shmrefreshCount, cnt>>
routes == <<lanRoute, mocaRoute>>
netVars == <<talking, neighbour>>
xupnpVars == <<segment, whitelist>>
vars == <<tables, pc, loopVars, shmVars, routes, netVars, xupnpVars, used, age>>

-----------------------------------------------------------------------------
LanEntry == [ipAddr : Addr, mcastAliveCount : 1 .. MAX_MLIFE]

WanEntry == [ipAddr : Addr, mcastStatus : BOOLEAN, mcastAliveCount : 1 .. MAX_MLIFE]

Pc == {"start", "lanOpen", "lan", "wanOpen", "wan", "ageWan", "ageLan", "sleep",
       "refresh", "attach", "init", "exited"}

Pointer == {"NULL", "mapped", "failed", "detached"}

(* Environment action f may happen once more in some scenario. *)
Spend(f) == /\ used' = [used EXCEPT ![f] = @ + 1]
            /\ \E b \in Budget : \A g \in Fault : used'[g] <= b[g]

Without(faults) == \A f \in faults : used[f] = 0

Tracked(table) == {table[k].ipAddr : k \in DOMAIN table}

Slot(table, a) == CHOOSE k \in DOMAIN table : table[k].ipAddr = a

NoLines == [a \in Addr |-> 0]

TypeOK ==
    /\ LanMCastTable \in Seq(LanEntry) /\ WanMCastTable \in Seq(WanEntry)
    /\ pc \in Pc
    /\ todo \in [Addr -> Nat]
    /\ i \in Nat
    /\ wlist_stat \in {0, -1} /\ mrd_wlist \in Pointer
    /\ shmid \in {-1, 0, ShmId}
    /\ shmrefreshCount \in 1 .. MAX_SHMRCOUNT /\ cnt \in 0 .. 3
    /\ talking \in [Side -> SUBSET Addr] /\ neighbour \in [Side -> SUBSET Addr]
    /\ lanRoute \in SUBSET Addr /\ mocaRoute \in SUBSET Addr
    /\ segment \in BOOLEAN /\ whitelist \in SUBSET Addr
    /\ view \in SUBSET Addr /\ shared \in BOOLEAN /\ maps \in Nat
    /\ used \in [Fault -> Nat]
    /\ age \in [Addr -> Nat]

Init ==
    /\ LanMCastTable = << >> /\ WanMCastTable = << >>
    /\ pc = "start"
    /\ todo = NoLines
    /\ i = 0
    /\ wlist_stat = -1 /\ mrd_wlist = "NULL" /\ shmid = 0
    /\ shmrefreshCount = MAX_SHMRCOUNT /\ cnt = 0
    /\ view = {} /\ shared = FALSE /\ maps = 0
    /\ talking = [s \in Side |-> {}] /\ neighbour = [s \in Side |-> {}]
    /\ lanRoute = {} /\ mocaRoute = {}
    /\ segment \in BOOLEAN
    /\ whitelist \in SUBSET Addr /\ (~segment => whitelist = {})
    /\ used = [f \in Fault |-> 0]
    /\ age = NoLines

-----------------------------------------------------------------------------
(* mrd_shmattach: 0 or -1 is ret.  Without the key file or without the      *)
(* segment the pointer stays as it is.                                      *)
mrd_shmattach(ret) ==
    \/ /\ ret = 0 /\ segment
       /\ shmid' = ShmId /\ mrd_wlist' = "mapped"
       /\ view' = whitelist /\ shared' = TRUE /\ maps' = maps + 1
       /\ UNCHANGED used
    \/ /\ ret = -1 /\ segment /\ Spend("shmat")
       /\ shmid' = ShmId /\ mrd_wlist' = "failed"
       /\ UNCHANGED <<view, shared, maps>>
    \/ /\ ret = -1 /\ ~segment
       /\ shmid' \in {shmid, -1}
       /\ UNCHANGED <<mrd_wlist, view, shared, maps, used>>

(* mrd_wlistInit: once attached, the routes of the addresses in the table   *)
(* are deleted and the table is emptied.                                    *)
mrd_wlistInit ==
    \/ /\ mrd_shmattach(0)
       /\ wlist_stat' = 0
       /\ mocaRoute' = mocaRoute \ Tracked(WanMCastTable)
       /\ WanMCastTable' = << >>
    \/ /\ mrd_shmattach(-1)
       /\ wlist_stat' = -1
       /\ UNCHANGED <<WanMCastTable, mocaRoute>>

Start ==
    /\ pc = "start"
    /\ mrd_wlistInit
    /\ pc' = "lanOpen"
    /\ UNCHANGED <<LanMCastTable, loopVars, lanRoute, netVars, xupnpVars, age>>

(* v_secure_popen of moca_mroute.sh ("lan") or moca_mroute_ip.sh ("wan",    *)
(* which greps 169): the sources that talk on the bridge and have a         *)
(* neighbour entry, one line per entry that matches.                        *)
Polled(s) == IF s = "lan" THEN talking["lan"] ELSE talking["wan"] \cap Matched

Open(s) ==
    /\ todo' \in [Addr -> 0 .. MaxLines]
    /\ {a \in Addr : todo'[a] > 0} = Polled(s) \cap neighbour[s]
    /\ UNCHANGED <<tables, i, shmrefreshCount, cnt, shmVars, routes, netVars,
                   xupnpVars, used, age>>

LanOpen == pc = "lanOpen" /\ Open("lan") /\ pc' = "lan"

WanOpen == pc = "wanOpen" /\ Open("wan") /\ pc' = "wan"

(* The process ends; the kernel drops its mapping. *)
Die ==
    /\ pc' = "exited"
    /\ maps' = 0 /\ shared' = FALSE
    /\ UNCHANGED <<tables, loopVars, wlist_stat, mrd_wlist, shmid, view, routes,
                   netVars, xupnpVars, age>>

(* main() returns when a script cannot be started. *)
OpenFails == pc \in {"lanOpen", "wanOpen"} /\ Spend("popen") /\ Die

(* fgets: the next line holds a. *)
Read(a) == todo[a] > 0 /\ todo' = [todo EXCEPT ![a] = @ - 1]

AtEof == todo = NoLines

(* A line of the LAN script: a tracked address lives on, a new one is added *)
(* with its route if there is room.                                         *)
LanLine(a) ==
    /\ pc = "lan" /\ Read(a)
    /\ LET entry == [ipAddr |-> a, mcastAliveCount |-> MAX_MLIFE]
           room == Len(LanMCastTable) < MAX_MCAST_ENTRIES
       IN IF a \in Tracked(LanMCastTable)
          THEN /\ LanMCastTable' = [LanMCastTable EXCEPT ![Slot(LanMCastTable, a)] = entry]
               /\ UNCHANGED lanRoute
          ELSE /\ LanMCastTable' = IF room THEN Append(LanMCastTable, entry)
                                   ELSE LanMCastTable
               /\ lanRoute' = IF room THEN lanRoute \cup ({a} \cap LinkLocal)
                              ELSE lanRoute
    /\ UNCHANGED <<WanMCastTable, pc, i, shmrefreshCount, cnt, shmVars, mocaRoute,
                   netVars, xupnpVars, used, age>>

LanEof ==
    /\ pc = "lan" /\ AtEof
    /\ pc' = "wanOpen"
    /\ UNCHANGED <<tables, loopVars, shmVars, routes, netVars, xupnpVars, used, age>>

(* mrdnode_lookup: what the lookup of a may say.  After a failed shmat the  *)
(* pointer is -1 and nothing is found.  Memory that is not mapped any more  *)
(* may have been mapped to something else.                                  *)
mrdnode_lookup(a) ==
    CASE mrd_wlist = "mapped" -> {a \in view}
      [] mrd_wlist = "detached" -> BOOLEAN
      [] OTHER -> {FALSE}

mrd_flag(a) == IF wlist_stat = 0 THEN mrdnode_lookup(a) ELSE {FALSE}

(* A line of the WAN script, entered in the table: a tracked address gets   *)
(* the new status and lives on, a new one is added if there is room.        *)
WanEnteredAgain(a, flag) ==                                         \* mutant
    LET entry == [ipAddr |-> a, mcastStatus |-> flag, mcastAliveCount |-> MAX_MLIFE]
    IN IF Len(WanMCastTable) < MAX_MCAST_ENTRIES THEN Append(WanMCastTable, entry)
       ELSE WanMCastTable

WanEnteredNotRenewed(a, flag) ==                                    \* mutant
    LET entry == [ipAddr |-> a, mcastStatus |-> flag, mcastAliveCount |-> MAX_MLIFE]
    IN IF a \in Tracked(WanMCastTable)
       THEN [WanMCastTable EXCEPT ![Slot(WanMCastTable, a)].mcastStatus = flag]
       ELSE IF Len(WanMCastTable) < MAX_MCAST_ENTRIES
            THEN Append(WanMCastTable, entry)
            ELSE WanMCastTable

WanEntered(a, flag) ==
    LET entry == [ipAddr |-> a, mcastStatus |-> flag, mcastAliveCount |-> MAX_MLIFE]
    IN IF a \in Tracked(WanMCastTable)
       THEN [WanMCastTable EXCEPT ![Slot(WanMCastTable, a)] = entry]
       ELSE IF Len(WanMCastTable) < MAX_MCAST_ENTRIES
            THEN Append(WanMCastTable, entry)
            ELSE WanMCastTable

(* The route is set or deleted for an address that was not tracked (whether *)
(* or not there was room) and for one whose status changed.                 *)
NewsWhenNew(a, flag) == a \notin Tracked(WanMCastTable)             \* mutant

NewsOfNewIfListed(a, flag) ==                                       \* mutant
    IF a \in Tracked(WanMCastTable)
    THEN WanMCastTable[Slot(WanMCastTable, a)].mcastStatus # flag
    ELSE flag

News(a, flag) ==
    a \in Tracked(WanMCastTable) =>
        WanMCastTable[Slot(WanMCastTable, a)].mcastStatus # flag

WanLine(a) ==
    /\ pc = "wan" /\ Read(a)
    /\ \E flag \in mrd_flag(a) :
        /\ WanMCastTable' = WanEntered(a, flag)
        /\ mocaRoute' = IF ~News(a, flag) \/ a \notin LinkLocal THEN mocaRoute
                        ELSE IF flag THEN mocaRoute \cup {a} ELSE mocaRoute \ {a}
    /\ age' = [age EXCEPT ![a] = 0]
    /\ UNCHANGED <<LanMCastTable, pc, i, shmrefreshCount, cnt, shmVars, lanRoute,
                   netVars, xupnpVars, used>>

(* ... or the lookup faults: the memory behind mrd_wlist is gone. *)
LookupFaults ==
    /\ pc = "wan" /\ ~AtEof
    /\ wlist_stat = 0 /\ mrd_wlist = "detached"
    /\ Die
    /\ UNCHANGED used

WanEof ==
    /\ pc = "wan" /\ AtEof
    /\ pc' = "ageWan" /\ i' = 1
    /\ age' = [a \in Addr |-> IF a \in Tracked(WanMCastTable) THEN age[a] + 1 ELSE 0]
    /\ UNCHANGED <<tables, todo, shmrefreshCount, cnt, shmVars, routes, netVars,
                   xupnpVars, used>>

-----------------------------------------------------------------------------
(* mrd_updateMcastlistlifetime.  An entry whose life ends is overwritten by *)
(* the last one, which the loop then passes over.                           *)
WithoutSlotRenewed(table, k) ==                                     \* mutant
    SubSeq([table EXCEPT ![k] = [table[Len(table)] EXCEPT
                                    !.mcastAliveCount = MAX_MLIFE]],
           1, Len(table) - 1)

WithoutSlotStatus(table, k) ==                                      \* mutant
    SubSeq([table EXCEPT ![k].ipAddr = table[Len(table)].ipAddr,
                         ![k].mcastAliveCount = table[Len(table)].mcastAliveCount],
           1, Len(table) - 1)

WithoutSlot(table, k) ==
    SubSeq([table EXCEPT ![k] = table[Len(table)]], 1, Len(table) - 1)

AgedLate(table) ==                                                  \* mutant
    IF table[i].mcastAliveCount > 0
    THEN [table EXCEPT ![i].mcastAliveCount = @ - 1]
    ELSE WithoutSlot(table, i)

Aged(table) ==
    IF table[i].mcastAliveCount > 1
    THEN [table EXCEPT ![i].mcastAliveCount = @ - 1]
    ELSE WithoutSlot(table, i)

(* The address whose life ends now, and whose route is deleted. *)
EndedSilently(table) == {}                                          \* mutant

Ended(table) ==
    IF table[i].mcastAliveCount > 1 THEN {} ELSE {table[i].ipAddr}

AgeWan ==
    /\ pc = "ageWan"
    /\ IF i <= Len(WanMCastTable)
       THEN /\ WanMCastTable' = Aged(WanMCastTable)
            /\ mocaRoute' = mocaRoute \ Ended(WanMCastTable)
            /\ i' = i + 1
            /\ UNCHANGED pc
       ELSE /\ pc' = "ageLan" /\ i' = 1
            /\ UNCHANGED <<WanMCastTable, mocaRoute>>
    /\ UNCHANGED <<LanMCastTable, todo, shmrefreshCount, cnt, shmVars, lanRoute,
                   netVars, xupnpVars, used, age>>

AgeLan ==
    /\ pc = "ageLan"
    /\ IF i <= Len(LanMCastTable)
       THEN /\ LanMCastTable' = Aged(LanMCastTable)
            /\ lanRoute' = lanRoute \ Ended(LanMCastTable)
            /\ i' = i + 1
            /\ UNCHANGED pc
       ELSE /\ pc' = "sleep" /\ i' = 0
            /\ UNCHANGED <<LanMCastTable, lanRoute>>
    /\ UNCHANGED <<WanMCastTable, todo, shmrefreshCount, cnt, shmVars, mocaRoute,
                   netVars, xupnpVars, used, age>>

-----------------------------------------------------------------------------
(* send_pings, in the first poll and every third: a source that the filters *)
(* of the command let through and that is not tracked is pinged, which      *)
(* gives it a neighbour entry, unless the table is empty.                   *)
Pingable(s) == IF s = "lan" THEN talking["lan"] \cap Matched
               ELSE (talking["wan"] \cap Matched) \ OwnAddr

Pinged(s, table) ==
    IF table = << >> THEN {} ELSE Pingable(s) \ Tracked(table)

PingsDue == cnt \in {0, 3}

CountAfterOnce == IF cnt = 0 THEN 1 ELSE cnt                        \* mutant

CountAfter == IF PingsDue THEN 1 ELSE cnt + 1

(* sleep(10) and the rest of the loop up to the refresh. *)
Sleep ==
    /\ pc = "sleep"
    /\ neighbour' = IF PingsDue
                    THEN [lan |-> neighbour["lan"] \cup Pinged("lan", LanMCastTable),
                          wan |-> neighbour["wan"] \cup Pinged("wan", WanMCastTable)]
                    ELSE neighbour
    /\ cnt' = CountAfter
    /\ IF shmrefreshCount = 1
       THEN shmrefreshCount' = MAX_SHMRCOUNT /\ pc' = "refresh"
       ELSE shmrefreshCount' = shmrefreshCount - 1 /\ pc' = "init"
    /\ UNCHANGED <<tables, todo, i, shmVars, routes, talking, xupnpVars, used, age>>

(* shmdt, then sleep(5); a pointer of -1 maps nothing. *)
RefreshKeepsMapping ==                                              \* mutant
    /\ pc = "refresh"
    /\ shmid' = 0
    /\ pc' = "attach"
    /\ UNCHANGED <<tables, loopVars, wlist_stat, mrd_wlist, view, shared, maps,
                   routes, netVars, xupnpVars, used, age>>

Refresh ==
    /\ pc = "refresh"
    /\ IF mrd_wlist # "NULL" /\ shmid > 0
       THEN /\ shmid' = 0
            /\ IF mrd_wlist = "mapped"
               THEN /\ mrd_wlist' = "detached" /\ maps' = maps - 1
                    /\ view' = {} /\ shared' = FALSE
               ELSE UNCHANGED <<mrd_wlist, maps, view, shared>>
       ELSE UNCHANGED <<shmid, mrd_wlist, maps, view, shared>>
    /\ pc' = "attach"
    /\ UNCHANGED <<tables, loopVars, wlist_stat, routes, netVars, xupnpVars, used, age>>

(* mrd_shmattach again, its result ignored. *)
Attach ==
    /\ pc = "attach"
    /\ IF wlist_stat = 0 THEN \E ret \in {0, -1} : mrd_shmattach(ret)
       ELSE UNCHANGED <<shmid, mrd_wlist, view, shared, maps, used>>
    /\ pc' = "init"
    /\ UNCHANGED <<tables, loopVars, wlist_stat, routes, netVars, xupnpVars, age>>

(* mrd_wlistInit is tried again in each poll until it succeeds. *)
RetryInit ==
    /\ pc = "init"
    /\ IF wlist_stat # 0 THEN mrd_wlistInit
       ELSE UNCHANGED <<shmVars, WanMCastTable, mocaRoute, used>>
    /\ pc' = "lanOpen"
    /\ UNCHANGED <<LanMCastTable, loopVars, lanRoute, netVars, xupnpVars, age>>

-----------------------------------------------------------------------------
(* The kernel: a source begins to talk, ends, or its neighbour entry turns  *)
(* to FAILED.                                                               *)
Talk(s, a) ==
    /\ Spend(IF s = "lan" THEN "lanTalk" ELSE "wanTalk")
    /\ IF a \in talking[s]
       THEN talking' = [talking EXCEPT ![s] = @ \ {a}] /\ UNCHANGED neighbour
       ELSE /\ talking' = [talking EXCEPT ![s] = @ \cup {a}]
            /\ neighbour' = [neighbour EXCEPT ![s] = @ \cup {a}]
    /\ UNCHANGED <<tables, pc, loopVars, shmVars, routes, xupnpVars, age>>

NeighbourFails(s, a) ==
    /\ Spend("neighbour")
    /\ a \in neighbour[s]
    /\ neighbour' = [neighbour EXCEPT ![s] = @ \ {a}]
    /\ UNCHANGED <<tables, pc, loopVars, shmVars, routes, talking, xupnpVars, age>>

(* xupnp: edits the white list; creates its segment, replaces it by another *)
(* one, or goes away with it.                                               *)
WhitelistChange(a) ==
    /\ segment /\ Spend("whitelist")
    /\ whitelist' = IF a \in whitelist THEN whitelist \ {a} ELSE whitelist \cup {a}
    /\ view' = IF shared THEN whitelist' ELSE view
    /\ UNCHANGED <<tables, pc, loopVars, wlist_stat, mrd_wlist, shmid, shared, maps,
                   routes, netVars, segment, age>>

SegmentChange ==
    /\ \/ /\ ~segment /\ Spend("create")
          /\ segment' = TRUE /\ whitelist' \in SUBSET Addr
       \/ /\ segment /\ Spend("replace")
          /\ whitelist' \in SUBSET Addr /\ UNCHANGED segment
       \/ /\ segment /\ Spend("remove")
          /\ segment' = FALSE /\ whitelist' = {}
    /\ shared' = FALSE
    /\ UNCHANGED <<tables, pc, loopVars, wlist_stat, mrd_wlist, shmid, view, maps,
                   routes, netVars, age>>

(* MoCA_isolation.sh: killall MRD, then MRD again. *)
Restart ==
    /\ Spend("restart")
    /\ LanMCastTable' = << >> /\ WanMCastTable' = << >>
    /\ pc' = "start"
    /\ todo' = NoLines /\ i' = 0
    /\ wlist_stat' = -1 /\ mrd_wlist' = "NULL" /\ shmid' = 0
    /\ shmrefreshCount' = MAX_SHMRCOUNT /\ cnt' = 0
    /\ view' = {} /\ shared' = FALSE /\ maps' = 0
    /\ age' = NoLines
    /\ UNCHANGED <<routes, netVars, xupnpVars>>

-----------------------------------------------------------------------------
Loop ==
    \/ Start \/ LanOpen \/ LanEof \/ WanOpen \/ WanEof
    \/ \E a \in Addr : LanLine(a) \/ WanLine(a)
    \/ AgeWan \/ AgeLan \/ Sleep \/ Refresh \/ Attach \/ RetryInit

Environment ==
    \/ \E s \in Side, a \in Addr : Talk(s, a) \/ NeighbourFails(s, a)
    \/ \E a \in Addr : WhitelistChange(a)
    \/ SegmentChange
    \/ Restart

Next == Loop \/ OpenFails \/ LookupFaults \/ Environment

Spec == Init /\ [][Next]_vars

(* The process keeps running. *)
FairSpec == Spec /\ WF_vars(Loop)

-----------------------------------------------------------------------------
(* Properties. *)

(* No address is tracked twice, so that the life time and the status of an  *)
(* address mean something, although a deleted entry is overwritten by       *)
(* another one while the table is walked.                                   *)
UniqueEntries ==
    /\ \A k, l \in DOMAIN LanMCastTable :
        LanMCastTable[k].ipAddr = LanMCastTable[l].ipAddr => k = l
    /\ \A k, l \in DOMAIN WanMCastTable :
        WanMCastTable[k].ipAddr = WanMCastTable[l].ipAddr => k = l

(* An entry that says the address is routed is right: the kernel has the    *)
(* route.  Otherwise it would never be set again, since only a change of    *)
(* the status sets it.                                                      *)
Listed == {WanMCastTable[k].ipAddr :
               k \in {l \in DOMAIN WanMCastTable : WanMCastTable[l].mcastStatus}}

ListedRouted == Listed \cap LinkLocal \subseteq mocaRoute

(* While the tables suffice for all sources that ever came and the process  *)
(* is not restarted, every route belongs to an entry, so that ageing will   *)
(* delete it.  (A source that finds the table full gets a route that        *)
(* nothing deletes, and so do those of a killed daemon.)                    *)
RoutesListed ==
    (/\ Without({"restart"})
     /\ used["lanTalk"] <= MAX_MCAST_ENTRIES
     /\ used["wanTalk"] <= MAX_MCAST_ENTRIES) =>
    /\ mocaRoute \subseteq Listed \cap LinkLocal
    /\ lanRoute = Tracked(LanMCastTable) \cap LinkLocal

(* An entry outlives the last line with its address by fewer ageing passes  *)
(* than its life time and the size of the table together: an entry that is  *)
(* moved into a freed slot is passed over in that pass, but each move       *)
(* brings it closer to the front.                                           *)
StaleBound ==
    \A k \in DOMAIN WanMCastTable :
        age[WanMCastTable[k].ipAddr] < MAX_MLIFE + MAX_MCAST_ENTRIES

(* A route of table moca is taken away only from an address that no line    *)
(* named for MAX_MLIFE ageing passes, or whose own line was just read and   *)
(* the white list denies it, or when the white list is attached for the     *)
(* first time.  Entries change their place while the table is walked, and   *)
(* none may lose two lives in one pass or inherit the life of another.      *)
ReadDenied(a) == pc = "wan" /\ todo'[a] < todo[a] /\ FALSE \in mrd_flag(a)

FirstAttached == wlist_stat = -1 /\ wlist_stat' = 0

RouteMayGo(a) ==
    (pc = "ageWan" /\ age[a] >= MAX_MLIFE) \/ ReadDenied(a) \/ FirstAttached

KeptForLife == [][\A a \in mocaRoute \ mocaRoute' : RouteMayGo(a)]_vars

(* For each bridge the daemon implements MulticastRoutes: tables whose      *)
(* entries move, and routes that are touched only when an entry is new or   *)
(* its status changes, do what acting on each line at once would do.        *)
Moca == INSTANCE MulticastRoutes WITH
            known <- Tracked(WanMCastTable), admitted <- Listed, routes <- mocaRoute

Lan == INSTANCE MulticastRoutes WITH
           known <- Tracked(LanMCastTable), admitted <- Tracked(LanMCastTable),
           routes <- lanRoute

RoutesFollowLines == Moca!Spec /\ Lan!Spec

(* MRD holds at most one mapping of the white list, however often it is     *)
(* attached anew (a segment whose identifier is 0 is never detached).       *)
SingleMapping == ShmId > 0 => maps <= 1

(* Each lookup reads the white list or finds no memory attached, although   *)
(* attaching anew may fail, unless xupnp's segment goes away: then the      *)
(* pointer to the memory just detached is kept.  (mrd.c: "mrd service       *)
(* access the white list".)                                                 *)
LookupMapped ==
    (Without({"remove"}) /\ pc = "wan" /\ wlist_stat = 0) => mrd_wlist # "detached"

(* The mapping is neither leaked nor used after it was given back, while    *)
(* every refresh detaches and attaches and each attaching may fail.         *)
SegmentMapped == SingleMapping /\ LookupMapped

(* After the last change, table moca has for good a route for each source   *)
(* that talks, can be reached and is on the white list, and no other.       *)
RoutesConverge ==
    <>[](segment => mocaRoute = talking["wan"] \cap neighbour["wan"]
                                    \cap whitelist \cap LinkLocal)

(* A source that talks and has lost its neighbour entry gets one again, if  *)
(* the filters of the ping command let it through, as long as the table is  *)
(* not empty again and again.                                               *)
PingsResolve ==
    []<>(WanMCastTable = << >>) \/ <>[](Pingable("wan") \subseteq neighbour["wan"])

=============================================================================
