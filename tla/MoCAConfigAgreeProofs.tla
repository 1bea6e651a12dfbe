----------------------- MODULE MoCAConfigAgreeProofs -----------------------
(***************************************************************************)
(* What holds when the routines of MoCAConfig are done, for any number of  *)
(* operations: cache, driver and syscfg agree, through transactions that   *)
(* are refused, changes of mode and kills at any point; a forced interface *)
(* stays on; a transaction or a document is applied wholly or not at all.  *)
(***************************************************************************)
EXTENDS MoCAConfigProofs, MoCADocProofs

(***************************************************************************)
(* Agree.  Only the bus thread works; what it still owes is told by its    *)
(* place.  When it reads the driver or is about to write it, nothing is    *)
(* known of the cache: either way it makes the three agree.                *)
(***************************************************************************)
AgreeAllowed == {"txn", "set", "enable", "key", "get", "restart", "bridge", "split", "equip"}

Level == CacheIs(hal) /\ db.moca_enabled = hal.bEnabled

BusAlone ==
    /\ \A t \in Thread \ {"bus"} : pc[t] = "idle"
    /\ events = 0
    /\ ~cfg.bSnmpUpdate /\ ~cfg.X_CISCO_COM_Reset
    /\ touched \subseteq {"Interface"}

Done ==
    \/ pc["bus"] \in {"idle", "bootCheck", "bootForce"}
    \/ pc["bus"] \in {"open", "rollback"} /\ touched = {}

Owed ==
    /\ Done /\ is_moca_available => Level
    /\ pc["bus"] = "setHal" => CacheIs(mocaCfg["bus"])
    /\ pc["bus"] = "setDb" => CacheIs(hal)
    /\ pc["bus"] = "setSeed" => Level
    /\ pc["bus"] \in {"getHal", "putHal"} => moca_enable_db = db.moca_enabled
    /\ pc["bus"] # "putDb"

AgreeInv == OnlyUsed(AgreeAllowed) => BusAlone /\ Owed

(* Which of Op happened before a step that has not left the scenario. *)
LEMMA SpentOf ==
    ASSUME TypeOK, NEW S, NEW ops, SpendAll(ops), OnlyUsed(S)'
    PROVE  OnlyUsed(S) /\ ops \cap Op \subseteq S
<1>1. ASSUME NEW o \in Op \ S PROVE used[o] = 0 /\ o \notin ops
  <2>1. used'[o] = 0 /\ used[o] \in Nat
    BY <1>1 DEF OnlyUsed, TypeOK
  <2>2. used'[o] = IF o \in ops THEN used[o] + 1 ELSE used[o]
    BY <1>1 DEF SpendAll
  <2> QED
    BY <2>1, <2>2
<1> QED
  BY <1>1 DEF OnlyUsed

LEMMA SpentOneOf ==
    ASSUME TypeOK, NEW S, NEW o \in Op, Spend(o), OnlyUsed(S)'
    PROVE  OnlyUsed(S) /\ o \in S
BY SpentOf DEF Spend

LEMMA NothingSpentOf ==
    ASSUME NEW S, used' = used, OnlyUsed(S)'
    PROVE  OnlyUsed(S)
BY DEF OnlyUsed

(* What a step has not used was not used before it. *)
LEMMA Backwards ==
    ASSUME TypeOK, [Next]_vars, NEW S, OnlyUsed(S)'
    PROVE  OnlyUsed(S)
<1>1. CASE UNCHANGED vars
  BY <1>1, NothingSpentOf DEF vars
<1>2. ASSUME NEW t \in {"bus", "sys"}, CosaDmlMocaIfSetCfg(t) \/ CosaDmlMocaIfGetCfg(t)
      PROVE  OnlyUsed(S)
  BY <1>2, NothingSpentOf, SpentOneOf DEF CosaDmlMocaIfSetCfg, SetCfg, SetHal, SetDb, SetSeed,
     CosaDmlMocaIfGetCfg, GetCfg, GetHal, PutHal, PutDb, Op
<1>3. CASE Boot \/ BootCheck \/ BootForce \/ Rollback \/ Event \/ Notify \/ Finish
  BY <1>3, NothingSpentOf, SpentOneOf DEF Boot, BootCheck, BootForce, Rollback, Event, Notify,
     Finish, Op
<1>4. CASE Process_Moca_WebConfigRequest
  BY <1>4, NothingSpentOf, SpentOf, SpentOneOf DEF Process_Moca_WebConfigRequest, Backup,
     Check, Apply, WebHal, WebDb, rollback_moca_conf, RollHal, RollDb, Op
<1>5. ASSUME NEW r \in Resetter, Reset(r) \/ CosaDmlMocaIfReset(r) PROVE OnlyUsed(S)
  BY <1>5, NothingSpentOf, SpentOneOf DEF Reset, CosaDmlMocaIfReset, ResetStart, Snapshot,
     ResetHal, ResetDb, Delay, Op
<1>6. CASE TxnOpen \/ Get \/ SetProvisioning
  BY <1>6, SpentOneOf, SpentOf DEF TxnOpen, Get, SetProvisioning, Op
<1>7. ASSUME NEW v, SetEnable(v) \/ SetNumber(v) \/ SetDefault(v) \/ SetForce(v) \/ SetKey(v)
      PROVE  OnlyUsed(S)
  BY <1>7, SpentOf DEF SetEnable, SetNumber, SetDefault, SetForce, SetKey
<1>8. ASSUME NEW b, WebRequest(b) PROVE OnlyUsed(S)
  BY <1>8, SpentOneOf DEF WebRequest, Op
<1>9. CASE Environment
  BY <1>9, SpentOneOf DEF Environment, Snmp, ModeChange, Restart, Op
<1> QED
  BY <1>1, <1>2, <1>3, <1>4, <1>5, <1>6, <1>7, <1>8, <1>9 DEF Next, Work, Ask

(* What is not done in a scenario where it is not used. *)
LEMMA Excluded ==
    ASSUME TypeOK, NEW S, OnlyUsed(S)'
    PROVE  /\ "number" \notin S => \A v : ~SetNumber(v)
           /\ "default" \notin S => \A v : ~SetDefault(v)
           /\ "force" \notin S => \A v : ~SetForce(v)
           /\ "provision" \notin S => ~SetProvisioning
           /\ "key" \notin S => \A k : ~SetKey(k)
           /\ "get" \notin S => ~Get
           /\ "web" \notin S => \A b : ~WebRequest(b)
           /\ "reset" \notin S => \A r : ~Reset(r)
           /\ "snmp" \notin S => ~Snmp
           /\ S \cap {"bridge", "split", "equip"} = {} => ~ModeChange
           /\ "restart" \notin S => ~Restart
<1>a. ASSUME NEW o \in Op \ S, NEW ops, o \in ops, SpendAll(ops) PROVE FALSE
  BY <1>a, SpentOf
<1>1. {"number", "default", "force", "provision", "key", "get", "web", "reset", "snmp",
       "bridge", "split", "equip", "restart"} \subseteq Op
  BY DEF Op
<1>2. "number" \notin S => \A v : ~SetNumber(v)
  BY <1>a, <1>1 DEF SetNumber
<1>3. "default" \notin S => \A v : ~SetDefault(v)
  BY <1>a, <1>1 DEF SetDefault
<1>4. "force" \notin S => \A v : ~SetForce(v)
  BY <1>a, <1>1 DEF SetForce
<1>5. "provision" \notin S => ~SetProvisioning
  BY <1>a, <1>1 DEF SetProvisioning
<1>6. "key" \notin S => \A k : ~SetKey(k)
  BY <1>a, <1>1 DEF SetKey
<1>7. "get" \notin S => ~Get
  BY <1>a, <1>1 DEF Get, Spend
<1>8. ASSUME NEW b, WebRequest(b) PROVE "web" \in S
  <2>1. SpendAll({"web"})
    BY <1>8 DEF WebRequest, Spend
  <2> QED
    BY <1>a, <1>1, <2>1
<1>9. "reset" \notin S => \A r : ~Reset(r)
  BY <1>a, <1>1 DEF Reset, Spend
<1>10. "snmp" \notin S => ~Snmp
  BY <1>a, <1>1 DEF Snmp, Spend
<1>11. S \cap {"bridge", "split", "equip"} = {} => ~ModeChange
  BY <1>a, <1>1 DEF ModeChange, Spend
<1>12. "restart" \notin S => ~Restart
  BY <1>a, <1>1 DEF Restart, Spend
<1> QED
  BY <1>2, <1>3, <1>4, <1>5, <1>6, <1>7, <1>8, <1>9, <1>10, <1>11, <1>12

(* Threads that are idle, and a thread to which nothing was notified. *)
LEMMA NothingToDo ==
    ASSUME TRUE
    PROVE  /\ pc["sys"] = "idle" => ~CosaDmlMocaIfSetCfg("sys") /\ ~CosaDmlMocaIfGetCfg("sys")
           /\ pc["web"] = "idle" => ~Process_Moca_WebConfigRequest
           /\ events = 0 => ~Event
           /\ pc["snmp"] = "idle" => ~Notify
           /\ \A r \in Resetter : pc[r] = "idle" => ~CosaDmlMocaIfReset(r)
<1>1. pc["sys"] = "idle" => ~CosaDmlMocaIfSetCfg("sys") /\ ~CosaDmlMocaIfGetCfg("sys")
  BY DEF CosaDmlMocaIfSetCfg, SetCfg, SetHal, SetDb, SetSeed,
     CosaDmlMocaIfGetCfg, GetCfg, GetHal, PutHal, PutDb
<1>2. pc["web"] = "idle" => ~Process_Moca_WebConfigRequest
  BY DEF Process_Moca_WebConfigRequest, Backup, Check, Apply, WebHal, WebDb,
     rollback_moca_conf, RollHal, RollDb
<1>3. events = 0 => ~Event
  BY DEF Event
<1>4. pc["snmp"] = "idle" => ~Notify
  BY DEF Notify
<1>5. \A r \in Resetter : pc[r] = "idle" => ~CosaDmlMocaIfReset(r)
  BY DEF CosaDmlMocaIfReset, ResetStart, Snapshot, ResetHal, ResetDb, Delay
<1> QED
  BY <1>1, <1>2, <1>3, <1>4, <1>5

(* A return to where agreement is owed. *)
LEMMA ReturnAgreed ==
    ASSUME TypeOK, BusAlone, NEW ok \in BOOLEAN, Return("bus", ok),
           UNCHANGED <<events, touched>>, ~cfg'.bSnmpUpdate, ~cfg'.X_CISCO_COM_Reset,
           is_moca_available' => Level'
    PROVE  (BusAlone /\ Owed)'
<1>1. /\ pc'["bus"] \in {"getCfg", "bootCheck", "bootForce", "open", "idle"}
      /\ \A u \in Thread \ {"bus"} : pc'[u] = pc[u]
  BY Returned
<1> QED
  BY <1>1 DEF BusAlone, Owed, Done

LEMMA GotoAlone ==
    ASSUME TypeOK, BusAlone, NEW p, Goto("bus", p),
           UNCHANGED <<events, touched>>, ~cfg'.bSnmpUpdate, ~cfg'.X_CISCO_COM_Reset
    PROVE  BusAlone' /\ pc'["bus"] = p
BY Gone, Threads DEF BusAlone

LEMMA CallAlone ==
    ASSUME TypeOK, BusAlone, NEW p, NEW c, Call("bus", p, c),
           UNCHANGED <<events, touched>>, ~cfg'.bSnmpUpdate, ~cfg'.X_CISCO_COM_Reset
    PROVE  BusAlone' /\ pc'["bus"] = p
BY Called, Threads DEF BusAlone

LEMMA AgreeSet ==
    ASSUME TypeOK, BusAlone, Owed, OnlyUsed(AgreeAllowed)', CosaDmlMocaIfSetCfg("bus")
    PROVE  (BusAlone /\ Owed)'
<1>0. ~Spend("halSet") /\ ~Spend("syscfg")
  BY SpentOneOf DEF Op, AgreeAllowed
<1>1. ~cfg.bSnmpUpdate /\ ~cfg.X_CISCO_COM_Reset /\ "bus" \in Thread
  BY Threads DEF BusAlone
<1>2. CASE SetCfg("bus")
  <2>1. ~cfg'.bSnmpUpdate /\ ~cfg'.X_CISCO_COM_Reset /\ UNCHANGED <<events, touched>>
    BY <1>1, <1>2 DEF SetCfg, TypeOK, Cfg
  <2>2. CASE Available
    <3>1. /\ mocaCfg' = [mocaCfg EXCEPT !["bus"] = Build]
          /\ cfg' = [cfg EXCEPT !.bEnabled = @ /\ Routing]
          /\ Goto("bus", "setHal")
      BY <1>1, <1>2, <2>2 DEF SetCfg
    <3>2. CacheIs(mocaCfg["bus"])'
      BY <1>1, <3>1 DEF CacheIs, Build, TypeOK, Cfg
    <3> QED
      BY <2>1, <3>1, <3>2, GotoAlone DEF Owed, Done
  <2>3. CASE ~Available
    BY <1>2, <2>1, <2>3, ReturnAgreed DEF SetCfg, Judge
  <2> QED
    BY <2>2, <2>3
<1>3. CASE SetHal("bus")
  <2>1. /\ hal' = mocaCfg["bus"] /\ Goto("bus", "setDb")
        /\ UNCHANGED <<cfg, events, touched>> /\ pc["bus"] = "setHal"
    BY <1>0, <1>3 DEF SetHal, agentVars
  <2>2. CacheIs(hal)'
    BY <2>1 DEF Owed, Done, CacheIs
  <2> QED
    BY <1>1, <2>1, <2>2, GotoAlone DEF Owed, Done
<1>4. CASE SetDb("bus")
  <2>1. /\ db' = [db EXCEPT !.moca_enabled = cfg.bEnabled] /\ Goto("bus", "setSeed")
        /\ UNCHANGED <<cfg, hal, events, touched>> /\ pc["bus"] = "setDb"
    BY <1>0, <1>4 DEF SetDb, agentVars
  <2>2. Level'
    BY <2>1 DEF Owed, Done, Level, CacheIs, TypeOK, Db
  <2> QED
    BY <1>1, <2>1, <2>2, GotoAlone DEF Owed, Done
<1>5. CASE SetSeed("bus")
  <2>1. /\ Return("bus", TRUE) /\ db'.moca_enabled = db.moca_enabled
        /\ UNCHANGED <<cfg, hal, events, touched>> /\ pc["bus"] = "setSeed"
    BY <1>0, <1>5 DEF SetSeed, agentVars, TypeOK, Db
  <2>2. Level'
    BY <2>1 DEF Owed, Done, Level, CacheIs
  <2> QED
    BY <1>1, <2>1, <2>2, ReturnAgreed
<1> QED
  BY <1>2, <1>3, <1>4, <1>5 DEF CosaDmlMocaIfSetCfg

LEMMA AgreeGet ==
    ASSUME TypeOK, BusAlone, Owed, OnlyUsed(AgreeAllowed)', CosaDmlMocaIfGetCfg("bus")
    PROVE  (BusAlone /\ Owed)'
<1>0. ~Spend("halSet") /\ ~Spend("halGet") /\ ~Spend("syscfgGet") /\ pc["bus"] # "putDb"
  BY SpentOneOf DEF Op, AgreeAllowed, Owed, Done
<1>1. ~cfg.bSnmpUpdate /\ ~cfg.X_CISCO_COM_Reset /\ "bus" \in Thread
  BY Threads DEF BusAlone
<1>c. ASSUME NEW h \in HalCfg, cfg' = Copied(h)
      PROVE  /\ cfg'.bEnabled = h.bEnabled /\ cfg'.KeyPassphrase = h.KeyPassphrase
             /\ ~cfg'.bSnmpUpdate /\ ~cfg'.X_CISCO_COM_Reset
  BY <1>1, <1>c DEF Copied, TypeOK, Cfg
<1>2. CASE GetCfg("bus")
  <2>1. UNCHANGED <<cfg, db, events, touched>>
    BY <1>2 DEF GetCfg
  <2>2. CASE Available
    <3>1. moca_enable_db' = db.moca_enabled /\ Goto("bus", "getHal")
      BY <1>0, <1>2, <2>2 DEF GetCfg
    <3> QED
      BY <1>1, <2>1, <3>1, GotoAlone DEF Owed, Done
  <2>3. CASE ~Available
    BY <1>1, <1>2, <2>1, <2>3, ReturnAgreed DEF GetCfg, Judge
  <2> QED
    BY <2>2, <2>3
<1>3. CASE GetHal("bus")
  <2>1. UNCHANGED <<hal, db, moca_enable_db, events, touched>> /\ moca_enable_db = db.moca_enabled
    BY <1>3 DEF GetHal, Owed, Done
  <2>2. CASE moca_enable_db = hal.bEnabled
    <3>1. cfg' = Copied(hal) /\ Return("bus", TRUE)
      BY <1>0, <1>3, <2>2 DEF GetHal
    <3>2. Level' /\ ~cfg'.bSnmpUpdate /\ ~cfg'.X_CISCO_COM_Reset
      BY <1>c, <2>1, <2>2, <3>1 DEF Level, CacheIs, TypeOK
    <3> QED
      BY <2>1, <3>1, <3>2, ReturnAgreed
  <2>3. CASE moca_enable_db # hal.bEnabled
    <3>1. cfg' = [cfg EXCEPT !.bEnabled = hal.bEnabled] /\ Goto("bus", "putHal")
      BY <1>0, <1>1, <1>3, <2>3 DEF GetHal
    <3>2. ~cfg'.bSnmpUpdate /\ ~cfg'.X_CISCO_COM_Reset
      BY <1>1, <3>1 DEF TypeOK, Cfg
    <3> QED
      BY <2>1, <3>1, <3>2, GotoAlone DEF Owed, Done
  <2> QED
    BY <2>2, <2>3
<1>4. CASE PutHal("bus")
  <2> DEFINE put == [mocaCfg["bus"] EXCEPT !.bEnabled = moca_enable_db]
  <2>1. /\ hal' = put /\ cfg' = Copied(put) /\ Return("bus", TRUE)
        /\ UNCHANGED <<db, events, touched>> /\ moca_enable_db = db.moca_enabled
    BY <1>0, <1>4 DEF PutHal, Owed, Done
  <2>2. put \in HalCfg /\ put.bEnabled = db.moca_enabled
    BY <1>1, <2>1 DEF TypeOK, HalCfg
  <2> HIDE DEF put
  <2>3. Level' /\ ~cfg'.bSnmpUpdate /\ ~cfg'.X_CISCO_COM_Reset
    BY <1>c, <2>1, <2>2 DEF Level, CacheIs
  <2> QED
    BY <2>1, <2>3, ReturnAgreed
<1> QED
  BY <1>0, <1>2, <1>3, <1>4 DEF CosaDmlMocaIfGetCfg, PutDb

LEMMA AgreeBoot ==
    ASSUME TypeOK, BusAlone, Owed, Boot \/ BootCheck \/ BootForce
    PROVE  (BusAlone /\ Owed)'
<1>1. /\ UNCHANGED <<events, touched, hal, db>> /\ ~cfg'.bSnmpUpdate /\ ~cfg'.X_CISCO_COM_Reset
  BY DEF Boot, BootCheck, BootForce, CfgZeroed, BusAlone, agentVars
<1>c. ASSUME NEW p \in {"getCfg", "setCfg"}, NEW c, Call("bus", p, c) PROVE (BusAlone /\ Owed)'
  BY <1>1, <1>c, CallAlone DEF Owed, Done
<1>g. ASSUME NEW p \in {"bootForce", "idle"}, Goto("bus", p), is_moca_available' => Level'
      PROVE  (BusAlone /\ Owed)'
  BY <1>1, <1>g, GotoAlone DEF Owed, Done
<1>2. CASE Boot
  BY <1>2, <1>c, <1>g DEF Boot, CosaDmlMocaInit
<1>3. CASE BootCheck \/ BootForce
  <2>1. is_moca_available' => Level'
    BY <1>1, <1>3 DEF BootCheck, BootForce, agentVars, Owed, Done, Level, CacheIs
  <2> QED
    BY <1>3, <1>c, <1>g, <2>1 DEF BootCheck, BootForce
<1> QED
  BY <1>2, <1>3

(* A transaction, or a read, of the bus. *)
LEMMA AgreeTxn ==
    ASSUME TypeOK, BusAlone, Owed,
           \/ TxnOpen \/ Finish \/ Rollback \/ Get
           \/ \E v \in BOOLEAN : SetEnable(v)
           \/ \E k \in Key : SetKey(k)
    PROVE  (BusAlone /\ Owed)'
<1>1. /\ UNCHANGED <<events, hal, db, moca_enable_db>> /\ "bus" \in Thread
      /\ cfg'.bSnmpUpdate = cfg.bSnmpUpdate /\ cfg'.X_CISCO_COM_Reset = cfg.X_CISCO_COM_Reset
      /\ touched' \subseteq {"Interface"}
  <2>1. touched \subseteq {"Interface"} /\ "bus" \in Thread
    BY Threads DEF BusAlone
  <2>2. CASE TxnOpen \/ Finish \/ Rollback \/ Get
    BY <2>1, <2>2 DEF TxnOpen, Finish, Rollback, Get, agentVars
  <2>3. ASSUME NEW v \in BOOLEAN, SetEnable(v)
        PROVE  /\ UNCHANGED <<events, hal, db, moca_enable_db>>
               /\ cfg' = [cfg EXCEPT !.bEnabled = v] \/ cfg' = cfg
               /\ touched' = touched \/ touched' = touched \cup {"Interface"}
    BY <2>3 DEF SetEnable
  <2>4. ASSUME NEW k \in Key, SetKey(k)
        PROVE  /\ UNCHANGED <<events, hal, db, moca_enable_db>>
               /\ cfg' = [cfg EXCEPT !.KeyPassphrase = k]
               /\ touched' = touched \cup {"Interface"}
    BY <2>4 DEF SetKey
  <2> QED
    BY <2>1, <2>2, <2>3, <2>4 DEF TypeOK, Cfg
<1>a. ASSUME \A u \in Thread \ {"bus"} : pc'[u] = pc[u] PROVE BusAlone'
  BY <1>1, <1>a DEF BusAlone
<1>c. ASSUME NEW p \in {"getCfg", "setCfg"}, NEW c, Call("bus", p, c) PROVE (BusAlone /\ Owed)'
  BY <1>1, <1>a, <1>c, Called DEF Owed, Done
<1>g. ASSUME NEW p \in {"open", "idle", "rollback"}, Goto("bus", p),
             is_moca_available' /\ (p = "idle" \/ touched' = {}) => Level'
      PROVE  (BusAlone /\ Owed)'
  BY <1>1, <1>a, <1>g, Gone DEF Owed, Done
<1>2. CASE TxnOpen
  <2>1. is_moca_available' => Level'
    BY <1>1, <1>2 DEF TxnOpen, agentVars, Owed, Done, Level, CacheIs
  <2> QED
    BY <1>2, <1>g, <2>1 DEF TxnOpen
<1>3. CASE Finish
  <2>1. touched = {"Interface"} /\ touched' = touched
    BY <1>3 DEF Finish, BusAlone
  <2> QED
    BY <1>3, <1>c, <1>g, <2>1 DEF Finish
<1>4. CASE Rollback
  <2>1. CASE "Interface" \in touched
    BY <1>4, <1>c, <2>1 DEF Rollback
  <2>2. CASE "Interface" \notin touched
    <3>1. touched = {} /\ pc["bus"] = "rollback"
      BY <1>4, <2>2 DEF Rollback, BusAlone
    <3>2. is_moca_available' => Level'
      BY <1>1, <1>4, <3>1 DEF Rollback, Owed, Done, Level, CacheIs
    <3> QED
      BY <1>4, <1>g, <2>2, <3>2 DEF Rollback
  <2> QED
    BY <2>1, <2>2
<1>5. CASE Get
  BY <1>5, <1>c DEF Get
<1>6. ASSUME NEW v \in BOOLEAN, SetEnable(v) PROVE (BusAlone /\ Owed)'
  <2>1. CASE Goto("bus", "rollback") /\ UNCHANGED <<cfg, touched>>
    <3>1. is_moca_available' /\ touched' = {} => Level'
      BY <1>1, <1>6, <2>1 DEF SetEnable, Owed, Done, Level, CacheIs
    <3> QED
      BY <1>g, <2>1, <3>1
  <2>2. CASE pc' = pc /\ touched' = touched \cup {"Interface"}
    BY <1>1, <1>6, <1>a, <2>2 DEF SetEnable, Owed, Done
  <2> QED
    BY <1>6, <2>1, <2>2 DEF SetEnable
<1>7. ASSUME NEW k \in Key, SetKey(k) PROVE (BusAlone /\ Owed)'
  <2>1. pc' = pc /\ pc["bus"] = "open" /\ touched' # {}
    BY <1>7 DEF SetKey
  <2> QED
    BY <1>1, <1>a, <2>1 DEF Owed, Done
<1> QED
  BY <1>2, <1>3, <1>4, <1>5, <1>6, <1>7

LEMMA AgreeStep == TypeOK /\ AgreeInv /\ [Next]_vars => AgreeInv'
<1> SUFFICES ASSUME TypeOK, AgreeInv, [Next]_vars, OnlyUsed(AgreeAllowed)'
             PROVE  (BusAlone /\ Owed)'
  BY DEF AgreeInv
<1>1. OnlyUsed(AgreeAllowed)
  BY Backwards
<1>2. BusAlone /\ Owed
  BY <1>1 DEF AgreeInv
<1>3. \A t \in {"sys", "web", "snmp"} \cup Resetter : pc[t] = "idle"
  BY <1>2, Threads, MoCAConfigAssumption DEF BusAlone
<1>4. CASE UNCHANGED vars
  BY <1>2, <1>4 DEF vars, agentVars, ctlVars, BusAlone, Owed, Done, Level, CacheIs
<1>5. /\ ~CosaDmlMocaIfSetCfg("sys") /\ ~CosaDmlMocaIfGetCfg("sys")
      /\ ~Process_Moca_WebConfigRequest /\ ~Event /\ ~Notify
      /\ \A r \in Resetter : ~CosaDmlMocaIfReset(r)
  BY <1>2, <1>3, NothingToDo, Threads DEF BusAlone
<1>6. /\ \A v : ~SetNumber(v) /\ ~SetDefault(v) /\ ~SetForce(v) /\ ~WebRequest(v)
      /\ ~SetProvisioning /\ ~Snmp /\ \A r : ~Reset(r)
  BY Excluded DEF AgreeAllowed
<1>9. CASE ModeChange
  BY <1>2, <1>9 DEF ModeChange, agentVars, ctlVars, BusAlone, Owed, Done, Level, CacheIs
<1>10. CASE Restart
  <2>1. /\ pc'["bus"] = "boot" /\ \A t \in Thread \ {"bus"} : pc'[t] = "idle"
        /\ cfg' = CfgZeroed /\ touched' = {} /\ events' = 0
    BY <1>3, <1>10, Threads DEF Restart
  <2> QED
    BY <2>1 DEF BusAlone, Owed, Done, CfgZeroed
<1> QED
  BY <1>2, <1>4, <1>5, <1>6, <1>9, <1>10, AgreeSet, AgreeGet, AgreeBoot, AgreeTxn
  DEF Next, Work, Ask, Environment

LEMMA AgreeInit == Init => AgreeInv
<1> SUFFICES ASSUME Init PROVE BusAlone /\ Owed
  BY DEF AgreeInv
<1>1. pc["bus"] = "boot" /\ \A t \in Thread \ {"bus"} : pc[t] = "idle"
  BY Threads DEF Init
<1> QED
  BY <1>1 DEF Init, BusAlone, Owed, Done, CfgZeroed

(* When the agent has nothing to do, cache, driver and syscfg agree,        *)
(* whatever they held when it was started or killed, however many           *)
(* transactions were refused and modes changed in between.                  *)
THEOREM AllAgree == Spec => []Agree
<1>1. AgreeInv => Agree
  BY Threads DEF AgreeInv, Owed, Done, Level, AgreeAllowed, Agree, Quiet
<1> QED
  BY <1>1, AgreeInit, TypeCorrect, AgreeStep, PTL DEF Spec

-----------------------------------------------------------------------------
(***************************************************************************)
(* ForceHonoured.  From the first look at the driver on, a forced          *)
(* interface is on in cache and driver; until then syscfg says so, and no  *)
(* document is taken before the flag is in memory.                         *)
(***************************************************************************)
ForceAllowed == {"txn", "set", "enable", "key", "number", "web", "restart"}

Forced == equipped /\ db.ForceEnable /\ Routing

Starting == pc["bus"] = "boot" \/ (pc["bus"] \in GetPc /\ back["bus"] = "bootGet")

BusForced ==
    /\ db.moca_enabled
    /\ ~cfg.bSnmpUpdate /\ "MoCA" \notin touched
    /\ pc["bus"] = "boot" \/ is_moca_available
    /\ pc["bus"] \in {"getHal", "putHal"} => moca_enable_db
    /\ pc["bus"] # "putDb"
    /\ Starting \/ (hal.bEnabled /\ cfg.bEnabled)
    /\ pc["bus"] = "setHal" => mocaCfg["bus"].bEnabled
    /\ Booted => bForceEnabled
    /\ pc["bus"] \in SetPc \cup GetPc \/ back["bus"] \notin {"bootGet", "bootSet"}

OthersForced ==
    /\ \A t \in {"sys", "snmp"} \cup Resetter : pc[t] = "idle"
    /\ events = 0
    /\ ~Booted => pc["web"] = "idle"
    /\ pc["web"] \in {"idle", "backup", "check", "apply", "rollback"}
    /\ pc["web"] = "apply" => doc
    /\ pc["web"] \in {"check", "apply", "rollback"} => g_bMocaEnable_bkup

ForcedInv == OnlyUsed(ForceAllowed) /\ Forced => BusForced /\ OthersForced

LEMMA ForcedBefore ==
    ASSUME TypeOK, [Next]_vars, OnlyUsed(ForceAllowed)', Forced'
    PROVE  Forced
<1> SUFFICES UNCHANGED <<equipped, bridge, split>> /\ db'.ForceEnable = db.ForceEnable
  BY DEF Forced, Routing
<1>a. /\ \A e : [db EXCEPT !.moca_enabled = e].ForceEnable = db.ForceEnable
      /\ \A k : [db EXCEPT !.moca_password_seed = k].ForceEnable = db.ForceEnable
  BY DEF TypeOK, Db
<1>b. ~ModeChange /\ \A v : ~SetForce(v)
  BY Excluded DEF ForceAllowed
<1>1. CASE UNCHANGED vars
  BY <1>1 DEF vars, envVars
<1>2. ASSUME NEW t \in {"bus", "sys"}, CosaDmlMocaIfSetCfg(t) \/ CosaDmlMocaIfGetCfg(t)
      PROVE  UNCHANGED <<equipped, bridge, split>> /\ db'.ForceEnable = db.ForceEnable
  BY <1>2, <1>a DEF CosaDmlMocaIfSetCfg, SetCfg, SetHal, SetDb, SetSeed,
     CosaDmlMocaIfGetCfg, GetCfg, GetHal, PutHal, PutDb, envVars
<1>3. CASE Boot \/ BootCheck \/ BootForce \/ Rollback \/ Event \/ Notify
  BY <1>3 DEF Boot, BootCheck, BootForce, Rollback, Event, Notify, envVars
<1>4. CASE Process_Moca_WebConfigRequest
  BY <1>4, <1>a DEF Process_Moca_WebConfigRequest, Backup, Check, Apply, WebHal, WebDb,
     rollback_moca_conf, RollHal, RollDb, envVars
<1>5. ASSUME NEW r \in Resetter, Reset(r) \/ CosaDmlMocaIfReset(r)
      PROVE  UNCHANGED <<equipped, bridge, split>> /\ db'.ForceEnable = db.ForceEnable
  BY <1>5, <1>a DEF Reset, CosaDmlMocaIfReset, ResetStart, Snapshot, ResetHal, ResetDb, Delay,
     envVars
<1>6. CASE TxnOpen \/ Finish \/ Get \/ SetProvisioning
  BY <1>6 DEF TxnOpen, Finish, Get, SetProvisioning, envVars
<1>7. ASSUME NEW v, SetEnable(v) \/ SetNumber(v) \/ SetDefault(v) \/ SetKey(v) \/ WebRequest(v)
      PROVE  UNCHANGED <<equipped, bridge, split>> /\ db'.ForceEnable = db.ForceEnable
  BY <1>7 DEF SetEnable, SetNumber, SetDefault, SetKey, WebRequest, envVars
<1>8. CASE Snmp \/ Restart
  BY <1>8 DEF Snmp, Restart, envVars
<1> QED
  BY <1>b, <1>1, <1>2, <1>3, <1>4, <1>5, <1>6, <1>7, <1>8 DEF Next, Work, Ask, Environment

(* A step of the bus thread: what has to be shown of it. *)
LEMMA BusStepForced ==
    ASSUME OthersForced, BusForced', \A u \in Thread \ {"bus"} : pc'[u] = pc[u],
           UNCHANGED <<events, doc, g_bMocaEnable_bkup>>, ~Booted' => ~Booted
    PROVE  (BusForced /\ OthersForced)'
<1>1. \A u \in {"sys", "snmp", "web"} \cup Resetter : pc'[u] = pc[u]
  BY Threads, MoCAConfigAssumption
<1> QED
  BY <1>1 DEF OthersForced

(* A return of the routines, after the start or within it. *)
LEMMA ReturnForced ==
    ASSUME TypeOK, OthersForced, BusForced, NEW ok \in BOOLEAN, Return("bus", ok),
           UNCHANGED <<events, doc, g_bMocaEnable_bkup, bForceEnabled, touched>>,
           pc["bus"] \in SetPc \cup GetPc,
           db'.moca_enabled, is_moca_available', ~cfg'.bSnmpUpdate,
           hal'.bEnabled /\ cfg'.bEnabled
    PROVE  (BusForced /\ OthersForced)'
<1>1. /\ back["bus"] = "bootGet" => pc'["bus"] = "bootCheck"
      /\ back["bus"] = "bootSet" => pc'["bus"] = "bootForce"
      /\ back["bus"] \notin {"bootGet", "bootSet"} => pc'["bus"] \in {"getCfg", "open", "idle"}
      /\ back'["bus"] \in {"none", "discard"}
      /\ \A u \in Thread \ {"bus"} : pc'[u] = pc[u]
  <2>1. "bus" \in Thread
    BY Threads
  <2>2. CASE back["bus"] = "commit" /\ ~ok
    <3>1. pc' = [pc EXCEPT !["bus"] = "getCfg"] /\ back' = [back EXCEPT !["bus"] = "discard"]
      BY <2>2 DEF Return, Call, Goto
    <3> QED
      BY <2>1, <2>2, <3>1 DEF TypeOK
  <2>3. CASE ~(back["bus"] = "commit" /\ ~ok)
    <3>1. back' = [back EXCEPT !["bus"] = "none"]
      BY <2>3 DEF Return
    <3>2. \E p \in {"bootCheck", "bootForce", "open", "idle"} :
            /\ pc' = [pc EXCEPT !["bus"] = p]
            /\ back["bus"] = "bootGet" => p = "bootCheck"
            /\ back["bus"] = "bootSet" => p = "bootForce"
            /\ back["bus"] \notin {"bootGet", "bootSet"} => p \in {"open", "idle"}
      BY <2>3 DEF Return, Goto
    <3> QED
      BY <2>1, <3>1, <3>2 DEF TypeOK
  <2> QED
    BY <2>2, <2>3
<1>2. BusForced'
  BY <1>1 DEF BusForced, Starting, Booted, BootPc, SetPc, GetPc
<1>3. ~Booted' => ~Booted
  BY <1>1 DEF Booted, BootPc
<1> QED
  BY <1>1, <1>2, <1>3, BusStepForced

LEMMA ForcedSet ==
    ASSUME TypeOK, BusForced, OthersForced, Forced, OnlyUsed(ForceAllowed)',
           CosaDmlMocaIfSetCfg("bus")
    PROVE  (BusForced /\ OthersForced)'
<1>0. ~Spend("halSet") /\ ~Spend("syscfg")
  BY SpentOneOf DEF Op, ForceAllowed
<1>1. /\ UNCHANGED <<events, doc, g_bMocaEnable_bkup, bForceEnabled, touched>>
      /\ pc["bus"] \in SetPc /\ ~Starting /\ "bus" \in Thread
      /\ is_moca_available /\ is_moca_available' /\ hal.bEnabled /\ cfg.bEnabled
      /\ db.moca_enabled /\ ~cfg.bSnmpUpdate
  BY Threads DEF CosaDmlMocaIfSetCfg, SetCfg, SetHal, SetDb, SetSeed, agentVars, webVars,
     SetPc, Starting, GetPc, BusForced, Judge, Available
<1>g. ASSUME NEW p \in {"setHal", "setDb", "setSeed"}, Goto("bus", p), back' = back,
             db'.moca_enabled, ~cfg'.bSnmpUpdate, hal'.bEnabled /\ cfg'.bEnabled,
             p = "setHal" => mocaCfg'["bus"].bEnabled
      PROVE  (BusForced /\ OthersForced)'
  <2>1. pc'["bus"] = p /\ \A u \in Thread \ {"bus"} : pc'[u] = pc[u]
    BY <1>1, <1>g, Gone
  <2>2. Booted' = Booted
    BY <1>1, <1>g, <2>1 DEF Booted, BootPc, SetPc
  <2>3. BusForced'
    BY <1>1, <1>g, <2>1, <2>2 DEF BusForced, SetPc, GetPc
  <2> QED
    BY <1>1, <2>1, <2>2, <2>3, BusStepForced
<1>2. CASE SetCfg("bus")
  <2>1. Available
    BY <1>1 DEF Available
  <2>2. /\ mocaCfg' = [mocaCfg EXCEPT !["bus"] = Build] /\ Goto("bus", "setHal")
        /\ cfg' = cfg \/ cfg' = [cfg EXCEPT !.bEnabled = @ /\ Routing]
        /\ UNCHANGED <<hal, db, back>>
    BY <1>2, <2>1 DEF SetCfg
  <2>3. mocaCfg'["bus"].bEnabled /\ ~cfg'.bSnmpUpdate /\ cfg'.bEnabled
    BY <1>1, <2>2 DEF Build, Forced, TypeOK, Cfg
  <2> QED
    BY <1>1, <1>g, <2>2, <2>3
<1>3. CASE SetHal("bus")
  <2>1. hal' = mocaCfg["bus"] /\ Goto("bus", "setDb") /\ UNCHANGED <<cfg, db, back>>
        /\ pc["bus"] = "setHal"
    BY <1>0, <1>3 DEF SetHal, agentVars
  <2> QED
    BY <1>1, <1>g, <2>1 DEF BusForced
<1>4. CASE SetDb("bus")
  <2>1. /\ db' = [db EXCEPT !.moca_enabled = cfg.bEnabled] /\ Goto("bus", "setSeed")
        /\ UNCHANGED <<cfg, hal, back>>
    BY <1>0, <1>4 DEF SetDb, agentVars
  <2>2. db'.moca_enabled
    BY <1>1, <2>1 DEF TypeOK, Db
  <2> QED
    BY <1>1, <1>g, <2>1, <2>2
<1>5. CASE SetSeed("bus")
  <2>1. Return("bus", TRUE) /\ UNCHANGED <<cfg, hal>> /\ db'.moca_enabled = db.moca_enabled
    BY <1>0, <1>5 DEF SetSeed, agentVars, TypeOK, Db
  <2> QED
    BY <1>1, <2>1, ReturnForced
<1> QED
  BY <1>2, <1>3, <1>4, <1>5 DEF CosaDmlMocaIfSetCfg

LEMMA ForcedGet ==
    ASSUME TypeOK, BusForced, OthersForced, Forced, OnlyUsed(ForceAllowed)',
           CosaDmlMocaIfGetCfg("bus")
    PROVE  (BusForced /\ OthersForced)'
<1>0. ~Spend("halSet") /\ ~Spend("halGet") /\ ~Spend("syscfgGet") /\ pc["bus"] # "putDb"
  BY SpentOneOf DEF Op, ForceAllowed, BusForced
<1>1. /\ UNCHANGED <<events, doc, g_bMocaEnable_bkup, bForceEnabled, touched, db>>
      /\ pc["bus"] \in GetPc /\ "bus" \in Thread
      /\ is_moca_available /\ is_moca_available' /\ db.moca_enabled /\ ~cfg.bSnmpUpdate
  BY <1>0, Threads DEF CosaDmlMocaIfGetCfg, GetCfg, GetHal, PutHal, PutDb, webVars,
     GetPc, BusForced, Judge, Available
<1>g. ASSUME NEW p \in {"getHal", "putHal"}, Goto("bus", p), back' = back, moca_enable_db',
             ~cfg'.bSnmpUpdate, Starting \/ (hal'.bEnabled /\ cfg'.bEnabled)
      PROVE  (BusForced /\ OthersForced)'
  <2>1. pc'["bus"] = p /\ \A u \in Thread \ {"bus"} : pc'[u] = pc[u]
    BY <1>1, <1>g, Gone
  <2>2. Booted' = Booted /\ Starting' = Starting
    BY <1>1, <1>g, <2>1 DEF Booted, BootPc, GetPc, Starting
  <2>3. BusForced'
    BY <1>1, <1>g, <2>1, <2>2 DEF BusForced, SetPc, GetPc
  <2> QED
    BY <1>1, <2>1, <2>2, <2>3, BusStepForced
<1>c. ASSUME NEW h \in HalCfg, cfg' = Copied(h)
      PROVE  cfg'.bEnabled = h.bEnabled /\ ~cfg'.bSnmpUpdate
  BY <1>1, <1>c DEF Copied, TypeOK, Cfg
<1>2. CASE GetCfg("bus")
  <2>1. Available
    BY <1>1 DEF Available
  <2>2. moca_enable_db' = db.moca_enabled /\ Goto("bus", "getHal") /\ UNCHANGED <<cfg, hal, back>>
    BY <1>0, <1>2, <2>1 DEF GetCfg
  <2> QED
    BY <1>1, <1>g, <2>2 DEF BusForced
<1>3. CASE GetHal("bus")
  <2>0. moca_enable_db = TRUE /\ UNCHANGED <<hal, moca_enable_db>>
    BY <1>3 DEF GetHal, BusForced, TypeOK
  <2>1. CASE hal.bEnabled
    <3>1. cfg' = Copied(hal) /\ Return("bus", TRUE)
      BY <1>0, <1>3, <2>0, <2>1 DEF GetHal, TypeOK, HalCfg
    <3>2. cfg'.bEnabled /\ ~cfg'.bSnmpUpdate
      BY <1>c, <2>1, <3>1 DEF TypeOK
    <3> QED
      BY <1>1, <2>0, <2>1, <3>1, <3>2, ReturnForced
  <2>2. CASE ~hal.bEnabled
    <3>1. Starting
      BY <2>2 DEF BusForced
    <3>2. /\ cfg' = [cfg EXCEPT !.bEnabled = hal.bEnabled]
          /\ Goto("bus", "putHal") /\ back' = back
      BY <1>0, <1>1, <1>3, <2>0, <2>2 DEF GetHal
    <3>3. ~cfg'.bSnmpUpdate
      BY <1>1, <3>2 DEF TypeOK, Cfg
    <3> QED
      BY <1>g, <2>0, <3>1, <3>2, <3>3
  <2> QED
    BY <2>1, <2>2
<1>4. CASE PutHal("bus")
  <2> DEFINE put == [mocaCfg["bus"] EXCEPT !.bEnabled = moca_enable_db]
  <2>1. hal' = put /\ cfg' = Copied(put) /\ Return("bus", TRUE) /\ moca_enable_db
    BY <1>0, <1>4 DEF PutHal, BusForced
  <2>2. put \in HalCfg /\ put.bEnabled
    BY <1>1, <2>1 DEF TypeOK, HalCfg
  <2> HIDE DEF put
  <2>3. cfg'.bEnabled /\ hal'.bEnabled /\ ~cfg'.bSnmpUpdate
    BY <1>c, <2>1, <2>2
  <2> QED
    BY <1>1, <2>1, <2>3, ReturnForced
<1> QED
  BY <1>0, <1>2, <1>3, <1>4 DEF CosaDmlMocaIfGetCfg, PutDb

LEMMA ForcedBoot ==
    ASSUME TypeOK, BusForced, OthersForced, Forced, OnlyUsed(ForceAllowed)',
           Boot \/ BootCheck \/ BootForce
    PROVE  (BusForced /\ OthersForced)'
<1>0. ~Spend("syscfgGet")
  BY SpentOneOf DEF Op, ForceAllowed
<1>1. /\ UNCHANGED <<events, doc, g_bMocaEnable_bkup, touched, db, hal>>
      /\ pc["bus"] \in BootPc /\ ~Booted /\ "bus" \in Thread
      /\ db.moca_enabled /\ ~cfg'.bSnmpUpdate
  BY Threads DEF Boot, BootCheck, BootForce, agentVars, webVars, BootPc, Booted, BusForced,
     CfgZeroed
<1>2. CASE Boot
  <2>1. Call("bus", "getCfg", "bootGet") /\ is_moca_available'
    BY <1>2 DEF Boot, Forced, CosaDmlMocaInit
  <2>2. /\ pc'["bus"] = "getCfg" /\ back'["bus"] = "bootGet"
        /\ \A u \in Thread \ {"bus"} : pc'[u] = pc[u]
    BY <1>1, <2>1, Called
  <2>3. BusForced'
    BY <1>1, <2>1, <2>2 DEF BusForced, Starting, GetPc, Booted
  <2> QED
    BY <1>1, <2>2, <2>3, BusStepForced
<1>3. CASE BootCheck
  <2>1. Goto("bus", "bootForce") /\ UNCHANGED <<agentVars, back>>
    BY <1>3 DEF BootCheck, Forced
  <2>2. pc'["bus"] = "bootForce" /\ \A u \in Thread \ {"bus"} : pc'[u] = pc[u]
    BY <1>1, <2>1, Gone
  <2>3. hal.bEnabled /\ cfg.bEnabled /\ is_moca_available
    BY <1>3 DEF BootCheck, BusForced, Starting, GetPc
  <2>4. BusForced' /\ ~Booted'
    BY <1>1, <2>1, <2>2, <2>3 DEF BusForced, Booted, BootPc, SetPc, GetPc, agentVars
  <2> QED
    BY <1>1, <2>2, <2>4, BusStepForced
<1>4. CASE BootForce
  <2>1. Goto("bus", "idle") /\ bForceEnabled' /\ UNCHANGED <<cfg, is_moca_available, back>>
        /\ pc["bus"] = "bootForce"
    BY <1>0, <1>4 DEF BootForce, Forced
  <2>2. pc'["bus"] = "idle" /\ \A u \in Thread \ {"bus"} : pc'[u] = pc[u]
    BY <1>1, <2>1, Gone
  <2>3. hal.bEnabled /\ cfg.bEnabled /\ is_moca_available
    BY <1>4 DEF BootForce, BusForced, Starting, GetPc
  <2>4. BusForced'
    BY <1>1, <2>1, <2>2, <2>3 DEF BusForced, BootPc, SetPc, GetPc
  <2> QED
    BY <1>1, <2>2, <2>4, BusStepForced
<1> QED
  BY <1>2, <1>3, <1>4

(* A transaction may hold anything but that MoCA be off. *)
LEMMA ForcedTxn ==
    ASSUME TypeOK, BusForced, OthersForced, Forced, OnlyUsed(ForceAllowed)',
           \/ TxnOpen \/ Finish \/ Rollback
           \/ \E v \in BOOLEAN : SetEnable(v) \/ SetNumber(v)
           \/ \E k \in Key : SetKey(k)
    PROVE  (BusForced /\ OthersForced)'
<1>1. /\ pc["bus"] \in {"idle", "open", "rollback"} /\ ~Starting /\ "bus" \in Thread
      /\ UNCHANGED <<events, doc, g_bMocaEnable_bkup, db, hal>>
      /\ db.moca_enabled /\ hal.bEnabled /\ cfg.bEnabled /\ is_moca_available
      /\ ~cfg.bSnmpUpdate /\ "MoCA" \notin touched
  BY Threads DEF TxnOpen, Finish, Rollback, SetEnable, SetNumber, SetKey, webVars, agentVars,
     BusForced, Starting, GetPc
<1>b. ASSUME \A u \in Thread \ {"bus"} : pc'[u] = pc[u],
             pc'["bus"] \in {"idle", "open", "rollback", "getCfg", "setCfg"},
             back' = back \/ back'["bus"] \notin {"bootGet", "bootSet"},
             cfg'.bEnabled /\ ~cfg'.bSnmpUpdate, is_moca_available', "MoCA" \notin touched',
             bForceEnabled' = bForceEnabled
      PROVE  (BusForced /\ OthersForced)'
  <2>1. ~Starting' \/ hal'.bEnabled
    BY <1>1
  <2>2. Booted' => bForceEnabled'
    BY <1>1, <1>b DEF BusForced, Booted, BootPc, SetPc, GetPc
  <2>3. ~Booted' => ~Booted
    BY <1>1, <1>b DEF BusForced, Booted, BootPc, SetPc, GetPc
  <2>4. BusForced'
    BY <1>1, <1>b, <2>2 DEF BusForced, SetPc, GetPc
  <2> QED
    BY <1>1, <1>b, <2>3, <2>4, BusStepForced
<1>2. CASE TxnOpen \/ Finish \/ Rollback
  <2>1. UNCHANGED <<cfg, bForceEnabled>> /\ is_moca_available' /\ "MoCA" \notin touched'
    BY <1>1, <1>2 DEF TxnOpen, Finish, Rollback, agentVars, CosaDmlMocaSetCfg, Judge, Available
  <2>2. \/ \E p \in {"open", "idle", "rollback"} : Goto("bus", p) /\ back' = back
        \/ Call("bus", "setCfg", "commit") \/ Call("bus", "getCfg", "undo")
    BY <1>2 DEF TxnOpen, Finish, Rollback
  <2> QED
    BY <1>1, <1>b, <2>1, <2>2, Gone, Called
<1>3. ASSUME NEW v \in BOOLEAN, SetEnable(v) PROVE (BusForced /\ OthersForced)'
  <2>0. bForceEnabled \/ ~Booted
    BY DEF BusForced
  <2>1. PICK router \in BOOLEAN :
            /\ LanModeRouter(router)
            /\ SpendAll({"set", "enable"} \cup Misled(router))
            /\ IF EnableRefused(v, router)
               THEN Goto("bus", "rollback") /\ UNCHANGED <<cfg, touched, txn>>
               ELSE /\ cfg' = [cfg EXCEPT !.bEnabled = v]
                    /\ touched' = touched \cup {"Interface"}
                    /\ UNCHANGED pc
    BY <1>3 DEF SetEnable
  <2>2. "lanMode" \notin Misled(router)
    BY <2>1, SpentOf DEF Op, ForceAllowed
  <2>3. router
    BY <2>2 DEF Misled, Forced, Routing
  <2>4. UNCHANGED <<back, bForceEnabled, is_moca_available>>
    BY <1>3 DEF SetEnable
  <2>5. CASE Goto("bus", "rollback") /\ UNCHANGED <<cfg, touched>>
    BY <1>1, <1>b, <2>4, <2>5, Gone
  <2>6. CASE ~EnableRefused(v, router)
    <3>1. cfg' = [cfg EXCEPT !.bEnabled = v] /\ touched' = touched \cup {"Interface"} /\ pc' = pc
      BY <2>1, <2>6
    <3>2. CASE v
      <4>1. cfg'.bEnabled /\ ~cfg'.bSnmpUpdate
        BY <1>1, <3>1, <3>2 DEF TypeOK, Cfg
      <4> QED
        BY <1>1, <1>b, <2>4, <3>1, <4>1
    <3>3. CASE ~v
      <4>1. ~Booted
        BY <2>0, <2>3, <2>6, <3>3 DEF EnableRefused, Forced, Routing
      <4> QED
        BY <1>1, <4>1 DEF Booted, BootPc, BusForced, SetPc, GetPc
    <3> QED
      BY <3>2, <3>3
  <2> QED
    BY <2>1, <2>5, <2>6
<1>4. ASSUME NEW v \in BOOLEAN, SetNumber(v) PROVE (BusForced /\ OthersForced)'
  <2>1. /\ UNCHANGED <<agentVars, back>> /\ pc["bus"] = "open"
        /\ Goto("bus", "rollback") \/ pc' = pc
        /\ touched' = touched \/ touched' = touched \cup {"Interface"}
    BY <1>4 DEF SetNumber
  <2> QED
    BY <1>1, <1>b, <2>1, Gone DEF agentVars
<1>5. ASSUME NEW k \in Key, SetKey(k) PROVE (BusForced /\ OthersForced)'
  <2>1. /\ UNCHANGED <<pc, back, bForceEnabled, is_moca_available>>
        /\ cfg' = [cfg EXCEPT !.KeyPassphrase = k] /\ touched' = touched \cup {"Interface"}
    BY <1>5 DEF SetKey
  <2>2. cfg'.bEnabled /\ ~cfg'.bSnmpUpdate
    BY <1>1, <2>1 DEF TypeOK, Cfg
  <2> QED
    BY <1>1, <1>b, <2>1, <2>2
<1> QED
  BY <1>2, <1>3, <1>4, <1>5

(* Documents: one that switches MoCA off is refused, and nothing is left    *)
(* for the rollback to do.                                                  *)
LEMMA ForcedWeb ==
    ASSUME TypeOK, BusForced, OthersForced, Forced, OnlyUsed(ForceAllowed)',
           Process_Moca_WebConfigRequest \/ \E blob \in Blob : WebRequest(blob)
    PROVE  (BusForced /\ OthersForced)'
<1>0. ~Spend("syscfgGet") /\ ~Spend("halGet") /\ "web" \in Thread
  BY SpentOneOf, Threads DEF Op, ForceAllowed
<1>1. Booted /\ bForceEnabled
  <2>1. Booted
    BY NothingToDo DEF OthersForced, WebRequest
  <2> QED
    BY <2>1 DEF BusForced
<1>2. /\ hal.bEnabled /\ cfg.bEnabled /\ db.moca_enabled /\ ~Starting
  BY <1>1 DEF BusForced, Starting, Booted, BootPc
<1>k. ASSUME NEW p \in {"idle", "backup", "check", "apply", "rollback"},
             Goto("web", p),
             UNCHANGED <<hal, db, bForceEnabled, moca_enable_db, is_moca_available, events,
                         back, mocaCfg["bus"], touched>>,
             cfg' = cfg \/ (cfg'.bEnabled /\ ~cfg'.bSnmpUpdate),
             p = "apply" => doc',
             p \in {"check", "apply", "rollback"} => g_bMocaEnable_bkup'
      PROVE  (BusForced /\ OthersForced)'
  <2>1. pc'["web"] = p /\ \A u \in Thread \ {"web"} : pc'[u] = pc[u]
    BY <1>0, <1>k, Gone
  <2>2. \A u \in {"bus", "sys", "snmp"} \cup Resetter : pc'[u] = pc[u]
    BY <2>1, Threads, MoCAConfigAssumption
  <2>3. Booted' /\ ~Starting' /\ bForceEnabled'
    BY <1>1, <1>2, <1>k, <2>2 DEF Booted, Starting
  <2>4. BusForced'
    BY <1>2, <1>k, <2>2, <2>3 DEF BusForced
  <2>5. OthersForced'
    BY <1>k, <2>1, <2>2, <2>3 DEF OthersForced
  <2> QED
    BY <2>4, <2>5
<1>3. ASSUME NEW blob \in Blob, WebRequest(blob) PROVE (BusForced /\ OthersForced)'
  <2>1. /\ Goto("web", "backup")
        /\ UNCHANGED <<cfg, hal, db, bForceEnabled, moca_enable_db, is_moca_available, events,
                       back, mocaCfg, touched>>
    BY <1>3 DEF WebRequest, agentVars
  <2> QED
    BY <1>k, <2>1
<1>4. CASE Backup
  <2>1. /\ Goto("web", "check") /\ g_bMocaEnable_bkup' = db.moca_enabled
        /\ UNCHANGED <<cfg, hal, db, bForceEnabled, moca_enable_db, is_moca_available, events,
                       back, mocaCfg, touched>>
    BY <1>0, <1>4 DEF Backup, agentVars
  <2> QED
    BY <1>2, <1>k, <2>1
<1>5. CASE Check
  <2>1. PICK router \in BOOLEAN :
            /\ LanModeRouter(router)
            /\ SpendAll(Misled(router))
            /\ Goto("web", IF DocRefused(router) THEN "rollback" ELSE "apply")
    BY <1>5 DEF Check
  <2>2. "lanMode" \notin Misled(router)
    BY <2>1, SpentOf DEF Op, ForceAllowed
  <2>3. ~doc => DocRefused(router)
    BY <1>1, <2>2 DEF Misled, Forced, Routing, DocRefused
  <2>4. /\ UNCHANGED <<cfg, hal, db, bForceEnabled, moca_enable_db, is_moca_available, events,
                       back, mocaCfg, touched, doc, g_bMocaEnable_bkup>>
        /\ g_bMocaEnable_bkup
    BY <1>5 DEF Check, agentVars, webVars, OthersForced
  <2>5. CASE DocRefused(router)
    BY <1>k, <2>1, <2>4, <2>5
  <2>6. CASE ~DocRefused(router)
    BY <1>k, <2>1, <2>3, <2>4, <2>6
  <2> QED
    BY <2>5, <2>6
<1>6. CASE Apply
  <2>1. doc = TRUE /\ cfg.bEnabled = TRUE /\ ~bridge
    BY <1>2, <1>6 DEF Apply, OthersForced, TypeOK, Cfg, Forced, Routing
  <2>2. /\ Goto("web", "idle") /\ cfg' = [cfg EXCEPT !.bEnabled = doc /\ ~bridge]
        /\ mocaCfg' = [mocaCfg EXCEPT !["web"] = [bEnabled |-> doc /\ ~bridge,
                                                  KeyPassphrase |-> cfg.KeyPassphrase]]
        /\ UNCHANGED <<hal, db, bForceEnabled, moca_enable_db, is_moca_available, events,
                       back, touched>>
    BY <1>6, <2>1 DEF Apply
  <2>3. cfg'.bEnabled /\ ~cfg'.bSnmpUpdate /\ mocaCfg'["bus"] = mocaCfg["bus"]
    BY <2>1, <2>2, Threads DEF TypeOK, Cfg, BusForced
  <2> QED
    BY <1>k, <2>2, <2>3
<1>7. CASE rollback_moca_conf
  <2>1. g_bMocaEnable_bkup = hal.bEnabled
    BY <1>2, <1>7 DEF rollback_moca_conf, OthersForced, TypeOK, HalCfg
  <2>2. /\ Goto("web", "idle")
        /\ mocaCfg' = [mocaCfg EXCEPT !["web"] = [hal EXCEPT !.bEnabled = g_bMocaEnable_bkup]]
        /\ UNCHANGED <<cfg, hal, db, bForceEnabled, moca_enable_db, is_moca_available, events,
                       back, touched>>
    BY <1>0, <1>7, <2>1 DEF rollback_moca_conf, agentVars
  <2>3. mocaCfg'["bus"] = mocaCfg["bus"]
    BY <2>2, Threads DEF TypeOK
  <2> QED
    BY <1>k, <2>2, <2>3
<1>8. ~WebHal /\ ~WebDb /\ ~RollHal /\ ~RollDb
  BY DEF OthersForced, WebHal, WebDb, RollHal, RollDb
<1> QED
  BY <1>3, <1>4, <1>5, <1>6, <1>7, <1>8 DEF Process_Moca_WebConfigRequest

LEMMA ForcedStep == TypeOK /\ ForcedInv /\ [Next]_vars => ForcedInv'
<1> SUFFICES ASSUME TypeOK, ForcedInv, [Next]_vars, OnlyUsed(ForceAllowed)', Forced'
             PROVE  (BusForced /\ OthersForced)'
  BY DEF ForcedInv
<1>1. BusForced /\ OthersForced /\ Forced
  BY Backwards, ForcedBefore DEF ForcedInv
<1>2. /\ ~CosaDmlMocaIfSetCfg("sys") /\ ~CosaDmlMocaIfGetCfg("sys") /\ ~Event /\ ~Notify
      /\ \A r \in Resetter : ~CosaDmlMocaIfReset(r)
  BY <1>1, NothingToDo DEF OthersForced
<1>3. /\ \A v : ~SetDefault(v) /\ ~SetForce(v)
      /\ ~SetProvisioning /\ ~Snmp /\ ~Get /\ ~ModeChange /\ \A r : ~Reset(r)
  BY Excluded DEF ForceAllowed
<1>4. CASE UNCHANGED vars
  BY <1>1, <1>4 DEF vars, agentVars, webVars, ctlVars, BusForced, OthersForced, Starting, Booted
<1>5. CASE Restart
  <2>1. /\ pc'["bus"] = "boot" /\ \A t \in Thread \ {"bus", "snmp"} : pc'[t] = "idle"
        /\ pc'["snmp"] = pc["snmp"] /\ back'["bus"] = "none"
        /\ cfg' = CfgZeroed /\ touched' = {} /\ events' = 0 /\ db' = db
    BY <1>5, Threads DEF Restart
  <2>2. pc'["web"] = "idle" /\ \A t \in {"sys", "snmp"} \cup Resetter : pc'[t] = "idle"
    BY <1>1, <2>1, Threads, MoCAConfigAssumption DEF OthersForced
  <2> QED
    BY <1>1, <2>1, <2>2 DEF BusForced, OthersForced, CfgZeroed, Starting, Booted, BootPc
<1> QED
  BY <1>1, <1>2, <1>3, <1>4, <1>5, ForcedSet, ForcedGet, ForcedBoot, ForcedTxn, ForcedWeb
  DEF Next, Work, Ask, Environment

LEMMA ForcedInit == Init => ForcedInv
<1> SUFFICES ASSUME Init, Forced PROVE BusForced /\ OthersForced
  BY DEF ForcedInv
<1>1. /\ pc["bus"] = "boot" /\ back["bus"] = "none"
      /\ \A t \in Thread \ {"bus"} : pc[t] = "idle"
  BY Threads DEF Init
<1>2. \A t \in {"sys", "snmp", "web"} \cup Resetter : pc[t] = "idle"
  BY <1>1, Threads, MoCAConfigAssumption
<1> QED
  BY <1>1, <1>2 DEF Init, BusForced, OthersForced, Forced, CfgZeroed, Starting, Booted, BootPc

(* No transaction, document or restart switches off a MoCA interface that   *)
(* syscfg says is forced on, whatever the driver held before the start.     *)
THEOREM ForceIsHonoured == Spec => []ForceHonoured
<1>1. ForcedInv => ForceHonoured
  BY Threads DEF ForcedInv, Forced, BusForced, Starting, GetPc, ForceAllowed, ForceHonoured,
     ForceKept, Quiet
<1> QED
  BY <1>1, ForcedInit, TypeCorrect, ForcedStep, PTL DEF Spec

-----------------------------------------------------------------------------
(***************************************************************************)
(* AllOrNothing.  At each place of a transaction it is known what driver   *)
(* and syscfg hold: up to moca_SetIfConfig what they held before, from     *)
(* then on what is wanted.  A failure is answered only after the driver,   *)
(* which has not changed, was read into the cache.  Where syscfg may fail, *)
(* what it holds is one of the two, and a read may bring the driver in     *)
(* line with it.                                                           *)
(***************************************************************************)
AtomicAllowed ==
    {"txn", "set", "enable", "key", "number", "provision", "get", "restart",
     "halSet", "lanMode"}

UnstoredAllowed == {"txn", "set", "enable", "get", "restart", "syscfg"}

BothAllowed == AtomicAllowed \cup UnstoredAllowed

X == txn["bus"]

Order ==
    /\ \A t \in Thread \ {"bus"} : pc[t] = "idle"
    /\ events = 0
    /\ ~cfg.bSnmpUpdate /\ ~cfg.X_CISCO_COM_Reset
    /\ equipped /\ (pc["bus"] = "boot" \/ is_moca_available)
    /\ pc["bus"] \in {"getHal", "putHal"} => moca_enable_db = db.moca_enabled
    /\ pc["bus"] \in {"idle", "open", "rollback"} \cup BootPc \cup SetPc \cup GetPc
    /\ pc["bus"] # "putDb"
    /\ pc["bus"] \in BootPc => back["bus"] = "none" /\ X.result = "none"
    /\ pc["bus"] \in {"open", "rollback"} => back["bus"] = "none" /\ X.result = "pending"
    /\ pc["bus"] = "idle" => back["bus"] = "none" /\ X.result # "pending"
    /\ pc["bus"] \in SetPc =>
        \/ back["bus"] = "bootSet" /\ X.result = "none"
        \/ back["bus"] = "commit" /\ X.result = "pending" /\ "Interface" \in touched
    /\ pc["bus"] \in GetPc =>
        \/ back["bus"] = "bootGet" /\ X.result = "none"
        \/ back["bus"] \in {"discard", "undo"} /\ X.result = "pending"
        \/ back["bus"] = "get" /\ X.result # "pending"

Target == Wanted(X)

LevelDb == db.moca_enabled = hal.bEnabled /\ db.moca_password_seed = hal.KeyPassphrase

Held == hal = X.hal /\ db = X.db /\ LevelDb

Untouched == "Interface" \notin touched => CacheIs(hal)

AtomicAt ==
    /\ pc["bus"] = "open" => Held /\ CacheIs(X.want) /\ Untouched
    /\ pc["bus"] = "rollback" => Held /\ Untouched
    /\ pc["bus"] = "setCfg" => Held /\ CacheIs(X.want) /\ cfg.KeyPassphrase # NoKey
    /\ pc["bus"] = "setHal" => Held /\ mocaCfg["bus"] = Target
    /\ pc["bus"] \in {"setHal", "setDb", "setSeed"} =>
        CacheIs(Target) /\ cfg.KeyPassphrase # NoKey
    /\ pc["bus"] \in {"setDb", "setSeed"} =>
        hal = Target /\ db.moca_password_seed = X.db.moca_password_seed
    /\ pc["bus"] = "setDb" => db.moca_enabled = X.db.moca_enabled
    /\ pc["bus"] = "setSeed" => db.moca_enabled = hal.bEnabled
    /\ pc["bus"] \in GetPc => LevelDb /\ pc["bus"] # "putHal"
    /\ pc["bus"] \in GetPc /\ X.result = "pending" => Held
    /\ X.result = "failed" => Held /\ CacheIs(hal)
    /\ X.result = "done" => hal = Target /\ LevelDb /\ CacheIs(hal)

Atomic == X.result # "none" /\ X.level => AtomicAt

UnstoredAt ==
    /\ pc["bus"] \in {"open", "setCfg", "setHal", "setDb"} => db.moca_enabled = X.db.moca_enabled
    /\ pc["bus"] \in {"open", "setCfg"} => cfg.bEnabled = X.want.bEnabled
    /\ pc["bus"] = "setHal" =>
        CacheIs(mocaCfg["bus"]) /\ mocaCfg["bus"].bEnabled = Target.bEnabled
    /\ pc["bus"] \in {"setDb", "setSeed"} => CacheIs(hal) /\ hal.bEnabled = Target.bEnabled
    /\ pc["bus"] = "setSeed" \/ X.result = "done" =>
        db.moca_enabled \in {Target.bEnabled, X.db.moca_enabled}
    /\ X.result = "done" =>
        /\ hal.bEnabled = Target.bEnabled
           \/ (hal.bEnabled = db.moca_enabled /\ db.moca_enabled = X.db.moca_enabled)
        /\ pc["bus"] = "putHal" \/ CacheIs(hal)

Unstored == "MoCA" \notin touched /\ (X.result # "none" /\ X.level => UnstoredAt)

(* What is kept by a step, in both scenarios. *)
AllKept ==
    /\ Order'
    /\ OnlyUsed(AtomicAllowed)' /\ Atomic => Atomic'
    /\ OnlyUsed(UnstoredAllowed)' /\ Unstored => Unstored'

LEMMA EnvKept ==
    ASSUME [Next]_vars, ~ModeChange
    PROVE  UNCHANGED <<equipped, bridge, split>>
<1>1. CASE UNCHANGED vars
  BY <1>1 DEF vars, envVars
<1>2. ASSUME NEW t \in {"bus", "sys"}, CosaDmlMocaIfSetCfg(t) \/ CosaDmlMocaIfGetCfg(t)
      PROVE  UNCHANGED <<equipped, bridge, split>>
  BY <1>2 DEF CosaDmlMocaIfSetCfg, SetCfg, SetHal, SetDb, SetSeed,
     CosaDmlMocaIfGetCfg, GetCfg, GetHal, PutHal, PutDb, envVars
<1>3. CASE Boot \/ BootCheck \/ BootForce \/ Rollback \/ Event \/ Notify
  BY <1>3 DEF Boot, BootCheck, BootForce, Rollback, Event, Notify, envVars
<1>4. CASE Process_Moca_WebConfigRequest
  BY <1>4 DEF Process_Moca_WebConfigRequest, Backup, Check, Apply, WebHal, WebDb,
     rollback_moca_conf, RollHal, RollDb, envVars
<1>5. ASSUME NEW r \in Resetter, Reset(r) \/ CosaDmlMocaIfReset(r)
      PROVE  UNCHANGED <<equipped, bridge, split>>
  BY <1>5 DEF Reset, CosaDmlMocaIfReset, ResetStart, Snapshot, ResetHal, ResetDb, Delay, envVars
<1>6. CASE TxnOpen \/ Finish \/ Get \/ SetProvisioning
  BY <1>6 DEF TxnOpen, Finish, Get, SetProvisioning, envVars
<1>7. ASSUME NEW v, \/ SetEnable(v) \/ SetNumber(v) \/ SetDefault(v) \/ SetKey(v)
                    \/ SetForce(v) \/ WebRequest(v)
      PROVE  UNCHANGED <<equipped, bridge, split>>
  BY <1>7 DEF SetEnable, SetNumber, SetDefault, SetKey, SetForce, WebRequest, envVars
<1>8. CASE Snmp \/ Restart
  BY <1>8 DEF Snmp, Restart, envVars
<1> QED
  BY <1>1, <1>2, <1>3, <1>4, <1>5, <1>6, <1>7, <1>8 DEF Next, Work, Ask, Environment

Moved(p, c) == pc'["bus"] = p /\ back'["bus"] = c

OthersIdle == \A t \in Thread \ {"bus"} : pc'[t] = pc[t]

LEMMA GotoMoved ==
    ASSUME TypeOK, NEW p, Goto("bus", p), back' = back
    PROVE  Moved(p, back["bus"]) /\ OthersIdle
BY Gone, Threads DEF Moved, OthersIdle

LEMMA CallMoved ==
    ASSUME TypeOK, NEW p, NEW c, Call("bus", p, c)
    PROVE  Moved(p, c) /\ OthersIdle
BY Called, Threads DEF Moved, OthersIdle

LEMMA Answered ==
    ASSUME TypeOK, NEW r, Reply("bus", r)
    PROVE  X' = [X EXCEPT !.result = r]
BY DEF TypeOK, Reply, X

(* Where a routine of the bus thread returns to, and what it answers. *)
LEMMA ReturnMoved ==
    ASSUME TypeOK, Order, pc["bus"] \in SetPc \cup GetPc, NEW ok \in BOOLEAN, Return("bus", ok)
    PROVE  /\ OthersIdle
           /\ \/ back["bus"] = "bootGet" /\ Moved("bootCheck", "none") /\ X' = X
              \/ back["bus"] = "bootSet" /\ Moved("bootForce", "none") /\ X' = X
              \/ /\ back["bus"] = "commit" /\ ok /\ Moved("idle", "none")
                 /\ X' = [X EXCEPT !.result = "done"]
              \/ back["bus"] = "commit" /\ ~ok /\ Moved("getCfg", "discard") /\ X' = X
              \/ /\ back["bus"] \in {"discard", "undo"} /\ Moved("idle", "none")
                 /\ X' = [X EXCEPT !.result = "failed"]
              \/ back["bus"] = "get" /\ Moved("idle", "none") /\ X' = X
<1>0. "bus" \in Thread
  BY Threads
<1>1. CASE back["bus"] = "commit" /\ ~ok
  <2>1. Call("bus", "getCfg", "discard") /\ txn' = txn
    BY <1>1 DEF Return
  <2> QED
    BY <1>1, <2>1, CallMoved DEF X
<1>2. CASE ~(back["bus"] = "commit" /\ ~ok)
  <2>0. back["bus"] \in {"bootGet", "bootSet", "commit", "discard", "undo", "get"}
    BY DEF Order
  <2>1. back' = [back EXCEPT !["bus"] = "none"]
    BY <1>2 DEF Return
  <2>2. back'["bus"] = "none"
    BY <1>0, <2>1 DEF TypeOK
  <2>3. CASE back["bus"] = "bootGet"
    <3>1. Goto("bus", "bootCheck") /\ txn' = txn
      BY <1>2, <2>3 DEF Return
    <3> QED
      BY <1>0, <2>2, <2>3, <3>1, Gone DEF Moved, OthersIdle, X
  <2>4. CASE back["bus"] = "bootSet"
    <3>1. Goto("bus", "bootForce") /\ txn' = txn
      BY <1>2, <2>4 DEF Return
    <3> QED
      BY <1>0, <2>2, <2>4, <3>1, Gone DEF Moved, OthersIdle, X
  <2>5. CASE back["bus"] = "commit"
    <3>1. Goto("bus", "idle") /\ Reply("bus", "done")
      BY <1>2, <2>5 DEF Return
    <3> QED
      BY <1>0, <1>2, <2>2, <2>5, <3>1, Gone, Answered DEF Moved, OthersIdle
  <2>6. CASE back["bus"] \in {"discard", "undo"}
    <3>1. Goto("bus", "idle") /\ Reply("bus", "failed")
      BY <1>2, <2>6 DEF Return
    <3> QED
      BY <1>0, <2>2, <2>6, <3>1, Gone, Answered DEF Moved, OthersIdle
  <2>7. CASE back["bus"] = "get"
    <3>1. Goto("bus", "idle") /\ txn' = txn
      BY <1>2, <2>7 DEF Return
    <3> QED
      BY <1>0, <2>2, <2>7, <3>1, Gone DEF Moved, OthersIdle, X
  <2> QED
    BY <2>0, <2>3, <2>4, <2>5, <2>6, <2>7
<1> QED
  BY <1>1, <1>2

(* The part of Order that does not depend on where the bus thread is. *)
Calm ==
    /\ OthersIdle /\ UNCHANGED <<events, equipped, bridge, split>>
    /\ ~cfg'.bSnmpUpdate /\ ~cfg'.X_CISCO_COM_Reset /\ is_moca_available'

LEMMA ReturnOrder ==
    ASSUME TypeOK, Order, pc["bus"] \in SetPc \cup GetPc, NEW ok \in BOOLEAN, Return("bus", ok),
           Calm
    PROVE  Order'
<1>1. X.result \in {"none", "pending", "done", "failed"} /\ X \in Txn
  BY DEF TypeOK, Txn, X
<1> DEFINE p == pc'["bus"]
           c == back'["bus"]
           r == X'.result
<1>2. \/ p \in {"bootCheck", "bootForce"} /\ c = "none" /\ r = "none"
      \/ p = "idle" /\ c = "none" /\ r # "pending"
      \/ p = "getCfg" /\ c = "discard" /\ r = "pending"
  BY <1>1, ReturnMoved DEF Order, Moved, Txn, SetPc, GetPc
<1>3. \A t \in Thread \ {"bus"} : pc'[t] = "idle"
  BY DEF Order, Calm, OthersIdle
<1> HIDE DEF p, c, r
<1> QED
  BY <1>2, <1>3 DEF p, c, r, Order, Calm, BootPc, SetPc, GetPc

(* What a step leaves of each scenario is shown under what it assumes. *)
LEMMA SetCfgKept ==
    ASSUME TypeOK, Order, SetCfg("bus")
    PROVE  AllKept
<1>0. "bus" \in Thread /\ pc["bus"] = "setCfg" /\ Available
  BY Threads DEF SetCfg, Order, Available, BootPc
<1>1. /\ mocaCfg'["bus"] = Build /\ cfg' \in {cfg, [cfg EXCEPT !.bEnabled = @ /\ Routing]}
      /\ cfg' = [cfg EXCEPT !.bEnabled = @ /\ Routing]
      /\ Goto("bus", "setHal") /\ is_moca_available'
      /\ UNCHANGED <<back, txn, hal, db, equipped, bridge, split, events, touched>>
  BY <1>0 DEF SetCfg, Judge, TypeOK, Order, envVars
<1>2. /\ Moved("setHal", back["bus"]) /\ OthersIdle /\ X' = X
      /\ cfg'.bEnabled = (cfg.bEnabled /\ Routing) /\ cfg'.KeyPassphrase = cfg.KeyPassphrase
      /\ cfg'.bSnmpUpdate = cfg.bSnmpUpdate /\ cfg'.X_CISCO_COM_Reset = cfg.X_CISCO_COM_Reset
  BY <1>1, GotoMoved DEF TypeOK, Cfg, X
<1>3. Calm
  BY <1>1, <1>2 DEF Calm, Order
<1>4. Order'
  BY <1>0, <1>1, <1>2, <1>3 DEF Order, Calm, Moved, OthersIdle, SetPc, GetPc, BootPc
<1>5. ASSUME X'.result # "none" PROVE "Interface" \in touched'
  BY <1>0, <1>1, <1>2, <1>5 DEF Order, SetPc
<1>6. Target' = Target /\ Routing' = Routing
  BY <1>1, <1>2 DEF Target, Wanted, Routing
<1>7. ASSUME Atomic PROVE Atomic'
  <2> SUFFICES ASSUME X.result # "none", X.level PROVE AtomicAt'
    BY <1>2 DEF Atomic
  <2>1. Held /\ CacheIs(X.want) /\ cfg.KeyPassphrase # NoKey
    BY <1>0, <1>7 DEF Atomic, AtomicAt
  <2>2. Target.bEnabled = (cfg.bEnabled /\ Routing) /\ Target.KeyPassphrase = cfg.KeyPassphrase
    BY <1>1, <1>2, <1>5, <2>1 DEF Target, Wanted, CacheIs
  <2>3. Build = Target
    BY <1>1, <1>2, <1>5, <2>1 DEF Build, Target, Wanted, CacheIs, Order
  <2>4. Held' /\ CacheIs(Target)' /\ mocaCfg'["bus"] = Target'
    BY <1>1, <1>2, <1>6, <2>1, <2>2, <2>3 DEF Held, LevelDb, CacheIs
  <2>5. X'.result = "pending"
    BY <1>0, <1>2 DEF Order, SetPc
  <2> QED
    BY <1>2, <2>1, <2>4, <2>5 DEF AtomicAt, Moved, GetPc
<1>8. ASSUME Unstored PROVE Unstored'
  <2> SUFFICES ASSUME X.result # "none", X.level PROVE UnstoredAt'
    BY <1>1, <1>2, <1>8 DEF Unstored
  <2>1. db.moca_enabled = X.db.moca_enabled /\ cfg.bEnabled = X.want.bEnabled
    BY <1>0, <1>8 DEF Unstored, UnstoredAt
  <2>2. CacheIs(mocaCfg["bus"])' /\ mocaCfg'["bus"].bEnabled = Target'.bEnabled
    BY <1>1, <1>2, <1>5, <1>6, <2>1 DEF Build, Target, Wanted, CacheIs, Order
  <2>5. X'.result = "pending"
    BY <1>0, <1>2 DEF Order, SetPc
  <2> QED
    BY <1>1, <1>2, <2>1, <2>2, <2>5 DEF UnstoredAt, Moved
<1> QED
  BY <1>4, <1>7, <1>8 DEF AllKept

LEMMA SetHalKept ==
    ASSUME TypeOK, Order, SetHal("bus")
    PROVE  AllKept
<1>0. "bus" \in Thread /\ pc["bus"] = "setHal" /\ is_moca_available
      /\ UNCHANGED <<cfg, is_moca_available, db, events, equipped, bridge, split, mocaCfg, touched>>
  BY Threads DEF SetHal, Order, BootPc, agentVars, envVars
<1>a. X \in Txn
  BY DEF X, TypeOK
<1>1. CASE hal' = mocaCfg["bus"] /\ Goto("bus", "setDb") /\ UNCHANGED <<back, txn>>
  <2>1. Moved("setDb", back["bus"]) /\ OthersIdle /\ X' = X
    BY <1>1, GotoMoved DEF X
  <2>2. Order'
    BY <1>0, <2>1 DEF Order, Moved, OthersIdle, SetPc, GetPc, BootPc
  <2>3. Target' = Target
    BY <1>0, <2>1 DEF Target, Wanted, Routing
  <2>4. X.result = "none" \/ X.result = "pending"
    BY <1>0 DEF Order, SetPc
  <2>5. ASSUME Atomic PROVE Atomic'
    <3> SUFFICES ASSUME X.result # "none", X.level PROVE AtomicAt'
      BY <2>1 DEF Atomic
    <3>1. /\ mocaCfg["bus"] = Target /\ CacheIs(Target) /\ cfg.KeyPassphrase # NoKey
          /\ db = X.db
      BY <1>0, <2>5 DEF Atomic, AtomicAt, Held
    <3>2. hal' = Target' /\ CacheIs(Target)'
      BY <1>0, <1>1, <2>3, <3>1 DEF CacheIs
    <3> QED
      BY <1>0, <2>1, <2>4, <3>1, <3>2 DEF AtomicAt, Moved, GetPc
  <2>6. ASSUME Unstored PROVE Unstored'
    <3> SUFFICES ASSUME X.result # "none", X.level PROVE UnstoredAt'
      BY <1>0, <2>1, <2>6 DEF Unstored
    <3>1. /\ CacheIs(mocaCfg["bus"]) /\ mocaCfg["bus"].bEnabled = Target.bEnabled
          /\ db.moca_enabled = X.db.moca_enabled
      BY <1>0, <2>6 DEF Unstored, UnstoredAt
    <3>2. CacheIs(hal)' /\ hal'.bEnabled = Target'.bEnabled /\ db' = db
      BY <1>0, <1>1, <2>3, <3>1 DEF CacheIs
    <3> QED
      BY <2>1, <2>4, <3>1, <3>2 DEF UnstoredAt, Moved
  <2> QED
    BY <2>2, <2>5, <2>6 DEF AllKept
<1>2. CASE Spend("halSet") /\ Return("bus", FALSE) /\ UNCHANGED hal
  <2>1. /\ OthersIdle
        /\ \/ back["bus"] = "bootSet" /\ Moved("bootForce", "none") /\ X' = X
           \/ back["bus"] = "commit" /\ Moved("getCfg", "discard") /\ X' = X
    BY <1>0, <1>2, ReturnMoved DEF Order, SetPc, GetPc
  <2>2. Order'
    BY <1>0, <1>2, <2>1, ReturnOrder DEF Order, Calm, SetPc
  <2>3. ~OnlyUsed(UnstoredAllowed)'
    BY <1>2, SpentOneOf DEF Op, UnstoredAllowed
  <2>4. ASSUME Atomic PROVE Atomic'
    <3> SUFFICES ASSUME X.result # "none", X.level PROVE AtomicAt'
      BY <2>1 DEF Atomic
    <3>1. Held
      BY <1>0, <2>4 DEF Atomic, AtomicAt
    <3>2. Moved("getCfg", "discard") /\ X' = X /\ X.result = "pending"
      BY <1>0, <2>1 DEF Order, SetPc
    <3>3. Held'
      BY <1>0, <1>2, <3>1, <3>2 DEF Held, LevelDb
    <3> QED
      BY <3>2, <3>3 DEF AtomicAt, Moved, Held
  <2> QED
    BY <2>2, <2>3, <2>4 DEF AllKept
<1> QED
  BY <1>1, <1>2 DEF SetHal

LEMMA SetDbKept ==
    ASSUME TypeOK, Order, SetDb("bus")
    PROVE  AllKept
<1>0. /\ "bus" \in Thread /\ pc["bus"] = "setDb" /\ is_moca_available
      /\ UNCHANGED <<cfg, is_moca_available, hal, events, equipped, bridge, split, back,
                     mocaCfg, touched, txn>>
      /\ Goto("bus", "setSeed")
  BY Threads DEF SetDb, Order, BootPc, agentVars, envVars
<1>1. Moved("setSeed", back["bus"]) /\ OthersIdle /\ X' = X
  BY <1>0, GotoMoved DEF X
<1>2. Order'
  BY <1>0, <1>1 DEF Order, Moved, OthersIdle, SetPc, GetPc, BootPc
<1>3. Target' = Target
  BY <1>0, <1>1 DEF Target, Wanted, Routing
<1>4. X.result = "none" \/ X.result = "pending"
  BY <1>0 DEF Order, SetPc
<1>5. /\ db'.moca_password_seed = db.moca_password_seed
      /\ db'.moca_enabled = cfg.bEnabled \/ (db' = db /\ Spend("syscfg"))
  BY DEF SetDb, TypeOK, Db
<1>6. ASSUME OnlyUsed(AtomicAllowed)', Atomic PROVE Atomic'
  <2> SUFFICES ASSUME X.result # "none", X.level PROVE AtomicAt'
    BY <1>1 DEF Atomic
  <2>1. /\ hal = Target /\ CacheIs(Target) /\ cfg.KeyPassphrase # NoKey
        /\ db'.moca_password_seed = X.db.moca_password_seed
    BY <1>0, <1>5, <1>6 DEF Atomic, AtomicAt
  <2>2. db'.moca_enabled = cfg.bEnabled
    BY <1>5, <1>6, SpentOneOf DEF Op, AtomicAllowed
  <2>3. hal' = Target' /\ CacheIs(Target)' /\ db'.moca_enabled = hal'.bEnabled
    BY <1>0, <1>3, <2>1, <2>2 DEF CacheIs
  <2> QED
    BY <1>0, <1>1, <1>4, <2>1, <2>3 DEF AtomicAt, Moved, GetPc
<1>7. ASSUME Unstored PROVE Unstored'
  <2> SUFFICES ASSUME X.result # "none", X.level PROVE UnstoredAt'
    BY <1>0, <1>1, <1>7 DEF Unstored
  <2>1. /\ CacheIs(hal) /\ hal.bEnabled = Target.bEnabled
        /\ db.moca_enabled = X.db.moca_enabled
    BY <1>0, <1>7 DEF Unstored, UnstoredAt
  <2>2. CacheIs(hal)' /\ hal'.bEnabled = Target'.bEnabled
    BY <1>0, <1>3, <2>1 DEF CacheIs
  <2>3. db'.moca_enabled \in {Target'.bEnabled, X'.db.moca_enabled}
    BY <1>0, <1>1, <1>3, <1>5, <2>1 DEF CacheIs
  <2> QED
    BY <1>1, <1>4, <2>2, <2>3 DEF UnstoredAt, Moved
<1> QED
  BY <1>2, <1>6, <1>7 DEF AllKept

LEMMA SetSeedKept ==
    ASSUME TypeOK, Order, SetSeed("bus")
    PROVE  AllKept
<1>0. /\ "bus" \in Thread /\ pc["bus"] = "setSeed" /\ is_moca_available
      /\ UNCHANGED <<cfg, is_moca_available, hal, events, equipped, bridge, split,
                     mocaCfg, touched>>
      /\ Return("bus", TRUE)
  BY Threads DEF SetSeed, Order, BootPc, agentVars, envVars
<1>1. /\ OthersIdle
      /\ \/ back["bus"] = "bootSet" /\ Moved("bootForce", "none") /\ X' = X
         \/ /\ back["bus"] = "commit" /\ Moved("idle", "none")
            /\ X' = [X EXCEPT !.result = "done"]
  BY <1>0, ReturnMoved DEF Order, SetPc, GetPc
<1>2. Order'
  BY <1>0, <1>1, ReturnOrder DEF Order, Calm, SetPc
<1>a. X \in Txn
  BY DEF X, TypeOK
<1>3. Target' = Target
  BY <1>0, <1>1, <1>a DEF Target, Wanted, Routing, Txn
<1>4. X.result = "pending" => Moved("idle", "none") /\ X' = [X EXCEPT !.result = "done"]
  BY <1>0, <1>1 DEF Order, SetPc
<1>5. X.result = "none" => X' = X
  BY <1>0, <1>1 DEF Order, SetPc
<1>6. X.result \in {"none", "pending"}
  BY <1>0 DEF Order, SetPc
<1>7. /\ db'.moca_enabled = db.moca_enabled
      /\ \/ cfg.KeyPassphrase # NoKey => db'.moca_password_seed = cfg.KeyPassphrase
         \/ Spend("syscfg")
  BY DEF SetSeed, TypeOK, Db
<1>8. ASSUME OnlyUsed(AtomicAllowed)', Atomic PROVE Atomic'
  <2> SUFFICES ASSUME X.result = "pending", X.level PROVE AtomicAt'
    BY <1>1, <1>5, <1>6, <1>a DEF Atomic, Txn
  <2>1. /\ hal = Target /\ CacheIs(Target) /\ cfg.KeyPassphrase # NoKey
        /\ db.moca_enabled = hal.bEnabled
    BY <1>0, <1>8 DEF Atomic, AtomicAt
  <2>2. db'.moca_password_seed = cfg.KeyPassphrase
    BY <1>7, <1>8, <2>1, SpentOneOf DEF Op, AtomicAllowed
  <2>3. hal' = Target' /\ CacheIs(hal)' /\ LevelDb'
    BY <1>0, <1>3, <1>7, <2>1, <2>2 DEF CacheIs, LevelDb
  <2>4. X'.result = "done" /\ pc'["bus"] = "idle"
    BY <1>4, <1>a DEF Moved, Txn
  <2> QED
    BY <2>3, <2>4 DEF AtomicAt, GetPc
<1>9. ASSUME Unstored PROVE Unstored'
  <2> SUFFICES ASSUME X.result = "pending", X.level PROVE UnstoredAt'
    BY <1>0, <1>1, <1>5, <1>6, <1>9, <1>a DEF Unstored, Txn
  <2>1. /\ CacheIs(hal) /\ hal.bEnabled = Target.bEnabled
        /\ db.moca_enabled \in {Target.bEnabled, X.db.moca_enabled}
    BY <1>0, <1>9 DEF Unstored, UnstoredAt
  <2>2. CacheIs(hal)' /\ hal'.bEnabled = Target'.bEnabled
    BY <1>0, <1>3, <2>1 DEF CacheIs
  <2>4. X'.result = "done" /\ pc'["bus"] = "idle" /\ X'.db = X.db
    BY <1>4, <1>a DEF Moved, Txn
  <2>3. db'.moca_enabled \in {Target'.bEnabled, X'.db.moca_enabled}
    BY <1>3, <1>7, <2>1, <2>4
  <2> QED
    BY <2>2, <2>3, <2>4 DEF UnstoredAt
<1> QED
  BY <1>2, <1>8, <1>9 DEF AllKept


LEMMA GetCfgKept ==
    ASSUME TypeOK, Order, OnlyUsed(BothAllowed)', GetCfg("bus")
    PROVE  AllKept
<1>r. ~Spend("syscfgGet")
  BY SpentOneOf DEF Op, BothAllowed, AtomicAllowed, UnstoredAllowed
<1>0. /\ "bus" \in Thread /\ pc["bus"] = "getCfg" /\ is_moca_available'
      /\ moca_enable_db' = db.moca_enabled /\ Goto("bus", "getHal")
      /\ UNCHANGED <<cfg, hal, db, events, equipped, bridge, split, back, mocaCfg,
                     touched, txn>>
  BY <1>r, Threads DEF GetCfg, Judge, Available, Order, BootPc, envVars
<1>1. Moved("getHal", back["bus"]) /\ OthersIdle /\ X' = X
  BY <1>0, GotoMoved DEF X
<1>2. Order'
  BY <1>0, <1>1 DEF Order, Moved, OthersIdle, SetPc, GetPc, BootPc
<1>3. Target' = Target /\ (Held => Held') /\ (LevelDb => LevelDb')
      /\ (CacheIs(hal) => CacheIs(hal)')
  BY <1>0, <1>1 DEF Target, Wanted, Routing, Held, LevelDb, CacheIs
<1>4. ASSUME Atomic PROVE Atomic'
  BY <1>0, <1>1, <1>3, <1>4 DEF Atomic, AtomicAt, Moved, GetPc
<1>5. ASSUME Unstored PROVE Unstored'
  BY <1>0, <1>1, <1>3, <1>5 DEF Unstored, UnstoredAt, Moved
<1> QED
  BY <1>2, <1>4, <1>5 DEF AllKept

(* How a read ends. *)
LEMMA GetEnds ==
    ASSUME TypeOK, Order, pc["bus"] \in GetPc, NEW ok \in BOOLEAN, Return("bus", ok)
    PROVE  /\ OthersIdle
           /\ pc'["bus"] \in {"idle", "bootCheck"} /\ back'["bus"] = "none"
           /\ \/ X.result # "pending" /\ X' = X
              \/ X.result = "pending" /\ X' = [X EXCEPT !.result = "failed"]
BY ReturnMoved DEF Order, Moved, SetPc, GetPc

LEMMA GetHalKept ==
    ASSUME TypeOK, Order, OnlyUsed(BothAllowed)', GetHal("bus")
    PROVE  AllKept
<1>0. /\ "bus" \in Thread /\ pc["bus"] = "getHal" /\ is_moca_available
      /\ moca_enable_db = db.moca_enabled
      /\ UNCHANGED <<hal, db, moca_enable_db, is_moca_available, events, equipped, bridge,
                     split, touched>>
  BY Threads DEF GetHal, Order, BootPc, envVars
<1>a. X \in Txn /\ hal \in HalCfg /\ cfg \in Cfg
  BY DEF X, TypeOK
<1>1. ~Spend("halGet")
  BY SpentOneOf DEF Op, BothAllowed, AtomicAllowed, UnstoredAllowed
<1>2. CASE moca_enable_db = hal.bEnabled
  <2>1. cfg' = Copied(hal) /\ Return("bus", TRUE)
    BY <1>1, <1>2 DEF GetHal
  <2>2. /\ CacheIs(hal)' /\ cfg'.bSnmpUpdate = cfg.bSnmpUpdate /\ ~cfg'.X_CISCO_COM_Reset
    BY <1>0, <1>a, <2>1 DEF Copied, CacheIs, Cfg
  <2>3. /\ OthersIdle
        /\ pc'["bus"] \in {"idle", "bootCheck"} /\ back'["bus"] = "none"
        /\ \/ X.result # "pending" /\ X' = X
           \/ X.result = "pending" /\ X' = [X EXCEPT !.result = "failed"]
    BY <1>0, <2>1, GetEnds DEF GetPc
  <2>4. Order'
    BY <1>0, <2>1, <2>2, <2>3, ReturnOrder DEF Order, Calm, GetPc
  <2>5. Target' = Target /\ (Held => Held') /\ (LevelDb => LevelDb')
        /\ X'.level = X.level /\ X'.db = X.db
    BY <1>0, <1>a, <2>3 DEF Target, Wanted, Routing, Held, LevelDb, Txn
  <2>6. X'.result = "none" => X.result = "none"
    BY <2>3, <1>a DEF Txn
  <2>7. /\ X'.result = "failed" => X.result \in {"failed", "pending"}
        /\ X'.result = "done" => X.result = "done"
        /\ X'.result # "pending"
    BY <2>3, <1>a DEF Txn
  <2>8. ASSUME Atomic PROVE Atomic'
    <3> SUFFICES ASSUME X.result # "none", X.level PROVE AtomicAt'
      BY <2>3, <2>5 DEF Atomic
    <3>1. X.result \in {"failed", "pending"} => Held
      BY <1>0, <2>8 DEF Atomic, AtomicAt, GetPc
    <3>2. X.result = "done" => hal = Target /\ LevelDb
      BY <1>0, <2>8 DEF Atomic, AtomicAt, GetPc
    <3> QED
      BY <1>0, <2>2, <2>3, <2>5, <2>7, <3>1, <3>2 DEF AtomicAt, GetPc
  <2>9. ASSUME Unstored PROVE Unstored'
    <3> SUFFICES ASSUME X.result # "none", X.level PROVE UnstoredAt'
      BY <1>0, <2>3, <2>5, <2>9 DEF Unstored
    <3>1. X.result = "done" =>
            /\ db.moca_enabled \in {Target.bEnabled, X.db.moca_enabled}
            /\ hal.bEnabled = Target.bEnabled
               \/ (hal.bEnabled = db.moca_enabled /\ db.moca_enabled = X.db.moca_enabled)
      BY <1>0, <2>9 DEF Unstored, UnstoredAt
    <3> QED
      BY <1>0, <2>2, <2>3, <2>5, <2>7, <3>1 DEF UnstoredAt
  <2> QED
    BY <2>4, <2>8, <2>9 DEF AllKept
<1>3. CASE moca_enable_db # hal.bEnabled
  <2>1. Goto("bus", "putHal") /\ UNCHANGED <<back, txn>>
        /\ cfg' = [cfg EXCEPT !.bEnabled = hal.bEnabled]
    BY <1>1, <1>3 DEF GetHal, Order
  <2>2. cfg'.bSnmpUpdate = cfg.bSnmpUpdate /\ cfg'.X_CISCO_COM_Reset = cfg.X_CISCO_COM_Reset
    BY <1>a, <2>1 DEF Cfg
  <2>3. Moved("putHal", back["bus"]) /\ OthersIdle /\ X' = X
    BY <2>1, GotoMoved DEF X
  <2>4. Order'
    BY <1>0, <2>2, <2>3 DEF Order, Moved, OthersIdle, SetPc, GetPc, BootPc
  <2>5. Target' = Target
    BY <1>0, <2>3 DEF Target, Wanted, Routing
  <2>6. ASSUME Atomic PROVE Atomic'
    <3> SUFFICES ASSUME X.result # "none", X.level PROVE FALSE
      BY <2>3 DEF Atomic
    <3> QED
      BY <1>0, <1>3, <2>6 DEF Atomic, AtomicAt, GetPc, LevelDb
  <2>7. ASSUME Unstored PROVE Unstored'
    BY <1>0, <2>3, <2>5, <2>7 DEF Unstored, UnstoredAt, Moved
  <2> QED
    BY <2>4, <2>6, <2>7 DEF AllKept
<1> QED
  BY <1>2, <1>3

LEMMA PutHalKept ==
    ASSUME TypeOK, Order, PutHal("bus")
    PROVE  AllKept
<1>0. /\ "bus" \in Thread /\ pc["bus"] = "putHal" /\ is_moca_available
      /\ moca_enable_db = db.moca_enabled
      /\ UNCHANGED <<db, moca_enable_db, is_moca_available, events, equipped, bridge,
                     split, touched>>
  BY Threads DEF PutHal, Order, BootPc, envVars
<1>a. X \in Txn /\ mocaCfg["bus"] \in HalCfg /\ cfg \in Cfg
  BY <1>0 DEF X, TypeOK
<1> DEFINE put == [mocaCfg["bus"] EXCEPT !.bEnabled = moca_enable_db]
<1>1. /\ \E ok \in BOOLEAN : Return("bus", ok)
      /\ (hal' = put /\ cfg' = Copied(put)) \/ (Spend("halSet") /\ UNCHANGED <<hal, cfg>>)
  BY DEF PutHal
<1>2. /\ cfg'.bSnmpUpdate = cfg.bSnmpUpdate /\ ~cfg'.X_CISCO_COM_Reset
  BY <1>1, <1>a DEF Copied, Cfg, Order
<1>3. /\ OthersIdle
      /\ pc'["bus"] \in {"idle", "bootCheck"} /\ back'["bus"] = "none"
      /\ \/ X.result # "pending" /\ X' = X
         \/ X.result = "pending" /\ X' = [X EXCEPT !.result = "failed"]
  BY <1>0, <1>1, GetEnds DEF GetPc
<1>4. Order'
  BY <1>0, <1>1, <1>2, <1>3, ReturnOrder DEF Order, Calm, GetPc
<1>5. Target' = Target /\ X'.level = X.level /\ X'.db = X.db
  BY <1>0, <1>a, <1>3 DEF Target, Wanted, Routing, Txn
<1>6. ASSUME Atomic PROVE Atomic'
  <2> SUFFICES ASSUME X.result # "none", X.level PROVE FALSE
    BY <1>3, <1>5 DEF Atomic
  <2> QED
    BY <1>0, <1>6 DEF Atomic, AtomicAt, GetPc
<1>7. ASSUME OnlyUsed(UnstoredAllowed)', Unstored PROVE Unstored'
  <2> SUFFICES ASSUME X.result # "none", X.level PROVE UnstoredAt'
    BY <1>0, <1>3, <1>5, <1>7 DEF Unstored
  <2>1. hal' = put /\ cfg' = Copied(put)
    BY <1>1, <1>7, SpentOneOf DEF Op, UnstoredAllowed
  <2>2. hal'.bEnabled = db.moca_enabled /\ CacheIs(hal)'
    BY <1>0, <1>a, <2>1 DEF Copied, CacheIs, Cfg, HalCfg
  <2>3. X'.result = "done" => X.result = "done"
    BY <1>3, <1>a DEF Txn
  <2>4. X.result = "done" => db.moca_enabled \in {Target.bEnabled, X.db.moca_enabled}
    BY <1>7 DEF Unstored, UnstoredAt
  <2> QED
    BY <1>0, <1>3, <1>5, <2>2, <2>3, <2>4 DEF UnstoredAt
<1> QED
  BY <1>4, <1>6, <1>7 DEF AllKept

LEMMA BootKept ==
    ASSUME TypeOK, Order, Boot \/ BootCheck \/ BootForce
    PROVE  AllKept
<1>0. /\ "bus" \in Thread /\ pc["bus"] \in BootPc /\ X.result = "none" /\ is_moca_available'
      /\ UNCHANGED <<hal, db, events, equipped, bridge, split, touched, txn>>
  BY Threads DEF Boot, BootCheck, BootForce, CosaDmlMocaInit, Order, BootPc, agentVars, envVars
<1>1. X' = X
  BY <1>0 DEF X
<1>2. ~cfg'.bSnmpUpdate /\ ~cfg'.X_CISCO_COM_Reset
  BY DEF Boot, BootCheck, BootForce, CfgZeroed, Order, agentVars
<1>3. /\ OthersIdle
      /\ \/ Moved("getCfg", "bootGet") \/ Moved("setCfg", "bootSet")
         \/ Moved("bootForce", back["bus"]) \/ Moved("idle", back["bus"])
  BY GotoMoved, CallMoved DEF Boot, BootCheck, BootForce
<1>4. Order'
  BY <1>0, <1>1, <1>2, <1>3 DEF Order, Moved, OthersIdle, SetPc, GetPc, BootPc
<1> QED
  BY <1>0, <1>1, <1>4 DEF AllKept, Atomic, Unstored


(* A request of the transaction. *)
LEMMA OpenKept ==
    ASSUME TypeOK, Order, TxnOpen
    PROVE  AllKept
<1>0. /\ "bus" \in Thread /\ pc["bus"] = "idle" /\ is_moca_available
      /\ Goto("bus", "open") /\ touched' = {}
      /\ UNCHANGED <<cfg, hal, db, events, equipped, bridge, split, back, is_moca_available>>
  BY Threads DEF TxnOpen, Order, BootPc, agentVars, envVars
<1>1. X' = [NoTxn EXCEPT !.result = "pending"]
  BY DEF TxnOpen, TypeOK, X
<1>2. /\ X'.result = "pending" /\ X'.hal = hal /\ X'.db = db /\ X'.want = hal
      /\ X'.level => CacheIs(hal) /\ LevelDb
  BY <1>1 DEF NoTxn, LevelDb
<1>3. Moved("open", back["bus"]) /\ OthersIdle
  BY <1>0, GotoMoved
<1>4. Order'
  BY <1>0, <1>2, <1>3 DEF Order, Moved, OthersIdle, SetPc, GetPc, BootPc
<1>5. ASSUME X'.level PROVE AtomicAt'
  <2>1. CacheIs(hal) /\ LevelDb
    BY <1>2, <1>5
  <2>2. Held' /\ CacheIs(hal)' /\ CacheIs(X.want)'
    BY <1>0, <1>2, <2>1 DEF Held, LevelDb, CacheIs
  <2> QED
    BY <1>2, <1>3, <2>2 DEF AtomicAt, Moved, Untouched, GetPc
<1>6. ASSUME X'.level PROVE UnstoredAt'
  BY <1>0, <1>2, <1>3, <1>6 DEF UnstoredAt, Moved, CacheIs
<1> QED
  BY <1>0, <1>4, <1>5, <1>6 DEF AllKept, Atomic, Unstored

(* Values are set, or refused. *)
LEMMA SetEnableKept ==
    ASSUME TypeOK, Order, NEW v \in BOOLEAN, SetEnable(v)
    PROVE  AllKept
<1>0. /\ "bus" \in Thread /\ pc["bus"] = "open" /\ is_moca_available
      /\ back["bus"] = "none" /\ X.result = "pending" /\ X \in Txn
      /\ UNCHANGED <<is_moca_available, hal, db, events, equipped, bridge, split, back>>
  BY Threads DEF SetEnable, Order, BootPc, envVars, X, TypeOK
<1>1. CASE Goto("bus", "rollback") /\ UNCHANGED <<cfg, touched, txn>>
  <2>1. Moved("rollback", "none") /\ OthersIdle /\ X' = X
    BY <1>0, <1>1, GotoMoved DEF X
  <2>2. Order'
    BY <1>0, <1>1, <2>1 DEF Order, Moved, OthersIdle, SetPc, GetPc, BootPc
  <2>3. (Held => Held') /\ (Untouched => Untouched')
    BY <1>0, <1>1, <2>1 DEF Held, LevelDb, Untouched, CacheIs
  <2>4. ASSUME Atomic PROVE Atomic'
    BY <1>0, <2>1, <2>3, <2>4 DEF Atomic, AtomicAt, Moved, GetPc
  <2>5. ASSUME Unstored PROVE Unstored'
    BY <1>0, <1>1, <2>1, <2>5 DEF Unstored, UnstoredAt, Moved
  <2> QED
    BY <2>2, <2>4, <2>5 DEF AllKept
<1>2. CASE /\ cfg' = [cfg EXCEPT !.bEnabled = v]
           /\ touched' = touched \cup {"Interface"}
           /\ txn' = [txn EXCEPT !["bus"].want.bEnabled = v]
           /\ UNCHANGED pc
  <2>1. X' = [X EXCEPT !.want.bEnabled = v]
    BY <1>2 DEF TypeOK, X
  <2>2. /\ X'.result = "pending" /\ X'.hal = X.hal /\ X'.db = X.db /\ X'.level = X.level
        /\ X'.want.bEnabled = v /\ X'.want.KeyPassphrase = X.want.KeyPassphrase
    BY <1>0, <2>1 DEF Txn, HalCfg
  <2>3. /\ cfg'.bEnabled = v /\ cfg'.KeyPassphrase = cfg.KeyPassphrase
        /\ cfg'.bSnmpUpdate = cfg.bSnmpUpdate /\ cfg'.X_CISCO_COM_Reset = cfg.X_CISCO_COM_Reset
    BY <1>2 DEF TypeOK, Cfg
  <2>4. Order'
    BY <1>0, <1>2, <2>2, <2>3 DEF Order, SetPc, GetPc, BootPc
  <2>5. Held => Held'
    BY <1>0, <2>2 DEF Held, LevelDb
  <2>6. ASSUME Atomic PROVE Atomic'
    <3> SUFFICES ASSUME X.level PROVE AtomicAt'
      BY <2>2 DEF Atomic
    <3>1. Held /\ CacheIs(X.want)
      BY <1>0, <2>6 DEF Atomic, AtomicAt
    <3>2. CacheIs(X.want)'
      BY <2>2, <2>3, <3>1 DEF CacheIs
    <3> QED
      BY <1>0, <1>2, <2>2, <2>5, <3>1, <3>2 DEF AtomicAt, Untouched, GetPc
  <2>7. ASSUME Unstored PROVE Unstored'
    BY <1>0, <1>2, <2>2, <2>3, <2>7 DEF Unstored, UnstoredAt
  <2> QED
    BY <2>4, <2>6, <2>7 DEF AllKept
<1> QED
  BY <1>1, <1>2 DEF SetEnable

LEMMA SetKeyKept ==
    ASSUME TypeOK, Order, NEW k \in Key, SetKey(k)
    PROVE  AllKept
<1>0. /\ "bus" \in Thread /\ pc["bus"] = "open" /\ is_moca_available
      /\ X.result = "pending" /\ X \in Txn
      /\ touched' = touched \cup {"Interface"}
      /\ UNCHANGED <<is_moca_available, hal, db, events, equipped, bridge, split, back, pc>>
  BY Threads DEF SetKey, Order, BootPc, envVars, X, TypeOK
<1>1. X' = [X EXCEPT !.want.KeyPassphrase = k]
  BY DEF SetKey, TypeOK, X
<1>2. /\ X'.result = "pending" /\ X'.hal = X.hal /\ X'.db = X.db /\ X'.level = X.level
      /\ X'.want.bEnabled = X.want.bEnabled /\ X'.want.KeyPassphrase = k
  BY <1>0, <1>1 DEF Txn, HalCfg
<1>3. /\ cfg'.KeyPassphrase = k /\ cfg'.bEnabled = cfg.bEnabled
      /\ cfg'.bSnmpUpdate = cfg.bSnmpUpdate /\ cfg'.X_CISCO_COM_Reset = cfg.X_CISCO_COM_Reset
  BY DEF SetKey, TypeOK, Cfg
<1>4. Order'
  BY <1>0, <1>2, <1>3 DEF Order, SetPc, GetPc, BootPc
<1>5. ASSUME Atomic PROVE Atomic'
  <2> SUFFICES ASSUME X.level PROVE AtomicAt'
    BY <1>2 DEF Atomic
  <2>1. Held /\ CacheIs(X.want)
    BY <1>0, <1>5 DEF Atomic, AtomicAt
  <2>2. Held' /\ CacheIs(X.want)'
    BY <1>0, <1>2, <1>3, <2>1 DEF Held, LevelDb, CacheIs
  <2> QED
    BY <1>0, <1>2, <2>2 DEF AtomicAt, Untouched, GetPc
<1>6. ~OnlyUsed(UnstoredAllowed)'
  BY Excluded DEF UnstoredAllowed
<1> QED
  BY <1>4, <1>5, <1>6 DEF AllKept

LEMMA SetNumberKept ==
    ASSUME TypeOK, Order, NEW v \in BOOLEAN, SetNumber(v) \/ SetProvisioning
    PROVE  AllKept
<1>0. /\ "bus" \in Thread /\ pc["bus"] = "open" /\ is_moca_available
      /\ X.result = "pending" /\ X' = X /\ back["bus"] = "none"
      /\ UNCHANGED <<cfg, is_moca_available, hal, db, events, equipped, bridge, split, back>>
  BY Threads DEF SetNumber, SetProvisioning, Order, BootPc, agentVars, envVars, X
<1>1. ~OnlyUsed(UnstoredAllowed)'
  BY Excluded DEF UnstoredAllowed
<1>2. /\ OthersIdle /\ pc'["bus"] \in {"open", "rollback"}
      /\ touched' \in {touched, touched \cup {"Interface"}, touched \cup {"MoCA"}}
  BY <1>0, GotoMoved DEF SetNumber, SetProvisioning, Moved, OthersIdle
<1>3. Order'
  BY <1>0, <1>2 DEF Order, OthersIdle, SetPc, GetPc, BootPc
<1>4. (Held => Held') /\ (Untouched => Untouched') /\ (CacheIs(X.want) => CacheIs(X.want)')
  BY <1>0, <1>2 DEF Held, LevelDb, Untouched, CacheIs
<1>5. ASSUME Atomic PROVE Atomic'
  BY <1>0, <1>2, <1>4, <1>5 DEF Atomic, AtomicAt, GetPc
<1> QED
  BY <1>1, <1>3, <1>5 DEF AllKept

(* The transaction is committed, rolled back, or over. *)
LEMMA FinishKept ==
    ASSUME TypeOK, Order, Finish
    PROVE  AllKept
<1>0. /\ "bus" \in Thread /\ pc["bus"] = "open" /\ is_moca_available'
      /\ X.result = "pending" /\ back["bus"] = "none" /\ X \in Txn
      /\ UNCHANGED <<cfg, hal, db, events, equipped, bridge, split, touched>>
      /\ touched # {} /\ touched \subseteq Object
  BY Threads DEF Finish, CosaDmlMocaSetCfg, Judge, Available, Order, BootPc, envVars, X, TypeOK
<1>1. CASE "Interface" \in touched /\ cfg.KeyPassphrase \notin ValidKey
  <2>1. Moved("rollback", "none") /\ OthersIdle /\ X' = X
    BY <1>0, <1>1, GotoMoved DEF Finish, X
  <2>2. Order'
    BY <1>0, <2>1 DEF Order, Moved, OthersIdle, SetPc, GetPc, BootPc
  <2>3. (Held => Held') /\ (Untouched => Untouched')
    BY <1>0, <2>1 DEF Held, LevelDb, Untouched, CacheIs
  <2>4. ASSUME Atomic PROVE Atomic'
    BY <1>0, <2>1, <2>3, <2>4 DEF Atomic, AtomicAt, Moved, GetPc
  <2>5. ASSUME Unstored PROVE Unstored'
    BY <1>0, <2>1, <2>5 DEF Unstored, UnstoredAt, Moved
  <2> QED
    BY <2>2, <2>4, <2>5 DEF AllKept
<1>2. CASE "Interface" \in touched /\ cfg.KeyPassphrase \in ValidKey
  <2>1. Moved("setCfg", "commit") /\ OthersIdle /\ X' = X
    BY <1>2, CallMoved DEF Finish, X
  <2>2. Order'
    BY <1>0, <1>2, <2>1 DEF Order, Moved, OthersIdle, SetPc, GetPc, BootPc
  <2>3. (Held => Held') /\ (CacheIs(X.want) => CacheIs(X.want)')
    BY <1>0, <2>1 DEF Held, LevelDb, CacheIs
  <2>4. cfg'.KeyPassphrase # NoKey
    BY <1>0, <1>2, MoCAConfigAssumption
  <2>5. ASSUME Atomic PROVE Atomic'
    BY <1>0, <2>1, <2>3, <2>4, <2>5 DEF Atomic, AtomicAt, Moved, GetPc
  <2>6. ASSUME Unstored PROVE Unstored'
    BY <1>0, <2>1, <2>6 DEF Unstored, UnstoredAt, Moved
  <2> QED
    BY <2>2, <2>5, <2>6 DEF AllKept
<1>3. CASE "Interface" \notin touched
  <2>1. /\ Moved("idle", "none") /\ OthersIdle /\ X' = [X EXCEPT !.result = "done"]
    BY <1>0, <1>3, GotoMoved, Answered DEF Finish
  <2>2. /\ X'.result = "done" /\ X'.level = X.level /\ X'.want = X.want
    BY <1>0, <2>1 DEF Txn
  <2>3. Order'
    BY <1>0, <2>1, <2>2 DEF Order, Moved, OthersIdle, SetPc, GetPc, BootPc
  <2>4. ASSUME Atomic PROVE Atomic'
    <3> SUFFICES ASSUME X.level PROVE AtomicAt'
      BY <2>2 DEF Atomic
    <3>1. Held /\ CacheIs(X.want) /\ CacheIs(hal)
      BY <1>0, <1>3, <2>4 DEF Atomic, AtomicAt, Untouched
    <3>2. hal \in HalCfg /\ X.want \in HalCfg
      BY <1>0 DEF TypeOK, Txn
    <3>3. Target'.bEnabled = X.want.bEnabled /\ Target'.KeyPassphrase = X.want.KeyPassphrase
      BY <1>0, <1>3, <2>2, <3>2 DEF Target, Wanted, HalCfg
    <3>4. hal' = Target'
      <4>1. Target' = [bEnabled |-> X.want.bEnabled, KeyPassphrase |-> X.want.KeyPassphrase]
        BY <1>0, <1>3, <2>2, <3>2 DEF Target, Wanted, HalCfg
      <4>2. hal = [bEnabled |-> hal.bEnabled, KeyPassphrase |-> hal.KeyPassphrase]
        BY <3>2 DEF HalCfg
      <4>3. hal.bEnabled = X.want.bEnabled /\ hal.KeyPassphrase = X.want.KeyPassphrase
        BY <3>1 DEF CacheIs
      <4> QED
        BY <1>0, <4>1, <4>2, <4>3
    <3>5. LevelDb' /\ CacheIs(hal)'
      BY <1>0, <3>1 DEF Held, LevelDb, CacheIs
    <3> QED
      BY <2>1, <2>2, <3>4, <3>5 DEF AtomicAt, Moved, GetPc
  <2>5. ~Unstored
    BY <1>0, <1>3 DEF Unstored, Object
  <2> QED
    BY <2>3, <2>4, <2>5 DEF AllKept
<1> QED
  BY <1>1, <1>2, <1>3

LEMMA RollbackKept ==
    ASSUME TypeOK, Order, Rollback
    PROVE  AllKept
<1>0. /\ "bus" \in Thread /\ pc["bus"] = "rollback" /\ is_moca_available'
      /\ X.result = "pending" /\ back["bus"] = "none" /\ X \in Txn
      /\ UNCHANGED <<cfg, hal, db, events, equipped, bridge, split, touched>>
  BY Threads DEF Rollback, CosaDmlMocaGetCfg, Judge, Available, Order, BootPc, envVars, X, TypeOK
<1>1. CASE "Interface" \in touched
  <2>1. Moved("getCfg", "undo") /\ OthersIdle /\ X' = X
    BY <1>1, CallMoved DEF Rollback, X
  <2>2. Order'
    BY <1>0, <2>1 DEF Order, Moved, OthersIdle, SetPc, GetPc, BootPc
  <2>3. Held => Held' /\ LevelDb'
    BY <1>0, <2>1 DEF Held, LevelDb
  <2>4. ASSUME Atomic PROVE Atomic'
    BY <1>0, <2>1, <2>3, <2>4 DEF Atomic, AtomicAt, Moved
  <2>5. ASSUME Unstored PROVE Unstored'
    BY <1>0, <2>1, <2>5 DEF Unstored, UnstoredAt, Moved
  <2> QED
    BY <2>2, <2>4, <2>5 DEF AllKept
<1>2. CASE "Interface" \notin touched
  <2>1. Moved("idle", "none") /\ OthersIdle /\ X' = [X EXCEPT !.result = "failed"]
    BY <1>0, <1>2, GotoMoved, Answered DEF Rollback
  <2>2. /\ X'.result = "failed" /\ X'.level = X.level /\ X'.hal = X.hal /\ X'.db = X.db
    BY <1>0, <2>1 DEF Txn
  <2>3. Order'
    BY <1>0, <2>1, <2>2 DEF Order, Moved, OthersIdle, SetPc, GetPc, BootPc
  <2>4. ASSUME Atomic PROVE Atomic'
    <3> SUFFICES ASSUME X.level PROVE AtomicAt'
      BY <2>2 DEF Atomic
    <3>1. Held /\ CacheIs(hal)
      BY <1>0, <1>2, <2>4 DEF Atomic, AtomicAt, Untouched
    <3>2. Held' /\ CacheIs(hal)'
      BY <1>0, <2>2, <3>1 DEF Held, LevelDb, CacheIs
    <3> QED
      BY <2>1, <2>2, <3>2 DEF AtomicAt, Moved, GetPc
  <2>5. ASSUME Unstored PROVE Unstored'
    BY <1>0, <2>1, <2>2, <2>5 DEF Unstored, UnstoredAt, Moved
  <2> QED
    BY <2>3, <2>4, <2>5 DEF AllKept
<1> QED
  BY <1>1, <1>2

(* Enable is read. *)
LEMMA ReadKept ==
    ASSUME TypeOK, Order, Get
    PROVE  AllKept
<1>0. /\ "bus" \in Thread /\ pc["bus"] = "idle" /\ is_moca_available
      /\ X.result # "pending" /\ X \in Txn
      /\ Moved("getCfg", "get") /\ OthersIdle /\ X' = X
      /\ UNCHANGED <<cfg, is_moca_available, hal, db, events, equipped, bridge, split, touched>>
  BY Threads, CallMoved DEF Get, Order, BootPc, agentVars, envVars, X, TypeOK
<1>1. Order'
  BY <1>0 DEF Order, Moved, OthersIdle, SetPc, GetPc, BootPc
<1>2. Target' = Target /\ (Held => Held' /\ LevelDb') /\ (LevelDb => LevelDb')
      /\ (CacheIs(hal) => CacheIs(hal)')
  BY <1>0 DEF Target, Wanted, Routing, Held, LevelDb, CacheIs
<1>3. ASSUME Atomic PROVE Atomic'
  BY <1>0, <1>2, <1>3 DEF Atomic, AtomicAt, Moved, Txn
<1>4. ASSUME Unstored PROVE Unstored'
  BY <1>0, <1>2, <1>4 DEF Unstored, UnstoredAt, Moved
<1> QED
  BY <1>1, <1>3, <1>4 DEF AllKept

(* The agent is killed: no transaction is under way, and nothing is held of   *)
(* the one that was.                                                         *)
LEMMA KillKept ==
    ASSUME TypeOK, Order, Restart
    PROVE  AllKept
<1>1. /\ pc'["bus"] = "boot" /\ back'["bus"] = "none" /\ X'.result = "none"
      /\ \A t \in Thread \ {"bus"} : pc'[t] = "idle"
  BY Threads DEF Restart, Order, X, NoTxn
<1>2. /\ events' = 0 /\ ~cfg'.bSnmpUpdate /\ ~cfg'.X_CISCO_COM_Reset /\ equipped'
      /\ touched' = {}
  BY DEF Restart, CfgZeroed, Order, envVars
<1>3. Order'
  BY <1>1, <1>2 DEF Order, BootPc, SetPc, GetPc
<1> QED
  BY <1>1, <1>2, <1>3 DEF AllKept, Atomic, Unstored

WholeInv ==
    equipped =>
        /\ OnlyUsed(BothAllowed) => Order
        /\ OnlyUsed(AtomicAllowed) => Atomic
        /\ OnlyUsed(UnstoredAllowed) => Unstored

LEMMA WholeStep == TypeOK /\ WholeInv /\ [Next]_vars => WholeInv'
<1>a. ASSUME NEW S, OnlyUsed(S), S \subseteq BothAllowed PROVE OnlyUsed(BothAllowed)
  BY <1>a DEF OnlyUsed
<1>b. ASSUME NEW S, OnlyUsed(S)', S \subseteq BothAllowed PROVE OnlyUsed(BothAllowed)'
  BY <1>b DEF OnlyUsed
<1> SUFFICES ASSUME TypeOK, WholeInv, [Next]_vars, equipped', OnlyUsed(BothAllowed)'
             PROVE  AllKept
  <2>1. AtomicAllowed \subseteq BothAllowed /\ UnstoredAllowed \subseteq BothAllowed
    BY DEF BothAllowed
  <2>2. ASSUME TypeOK, WholeInv, [Next]_vars, equipped', OnlyUsed(BothAllowed)', AllKept
        PROVE  WholeInv'
    <3>1. equipped
      <4>1. ~ModeChange
        BY <2>2, Excluded DEF BothAllowed, AtomicAllowed, UnstoredAllowed
      <4> QED
        BY <2>2, <4>1, EnvKept
    <3>2. OnlyUsed(AtomicAllowed)' => Atomic
      BY <2>2, <3>1, Backwards DEF WholeInv
    <3>3. OnlyUsed(UnstoredAllowed)' => Unstored
      BY <2>2, <3>1, Backwards DEF WholeInv
    <3> QED
      BY <2>2, <3>2, <3>3 DEF AllKept, WholeInv
  <2> QED
    BY <1>b, <2>1, <2>2 DEF WholeInv
<1>1. ~ModeChange /\ ~Snmp
      /\ \A v : ~SetDefault(v) /\ ~SetForce(v) /\ ~WebRequest(v) /\ ~Reset(v)
  BY Excluded DEF BothAllowed, AtomicAllowed, UnstoredAllowed
<1>2. Order
  BY <1>1, Backwards, EnvKept DEF WholeInv
<1>3. \A t \in {"sys", "web", "snmp"} \cup Resetter : pc[t] = "idle"
  BY <1>2, Threads, MoCAConfigAssumption DEF Order
<1>4. /\ ~CosaDmlMocaIfSetCfg("sys") /\ ~CosaDmlMocaIfGetCfg("sys")
      /\ ~Process_Moca_WebConfigRequest /\ ~Event /\ ~Notify
      /\ \A r \in Resetter : ~CosaDmlMocaIfReset(r)
  BY <1>2, <1>3, NothingToDo, Threads DEF Order
<1>5. CASE UNCHANGED vars
  <2>1. UNCHANGED <<cfg, is_moca_available, moca_enable_db, hal, db, equipped, bridge, split,
                    events, pc, back, mocaCfg, touched, txn>>
    BY <1>5 DEF vars, agentVars, envVars, ctlVars
  <2>2. Order' /\ (Atomic => Atomic') /\ (Unstored => Unstored')
    BY <1>2, <2>1 DEF Order, Atomic, AtomicAt, Unstored, UnstoredAt, Held, Untouched,
       Target, Wanted, Routing, LevelDb, CacheIs, X
  <2> QED
    BY <2>2 DEF AllKept
<1>6. CASE CosaDmlMocaIfSetCfg("bus") \/ CosaDmlMocaIfGetCfg("bus")
  <2>1. ~PutDb("bus")
    BY <1>2 DEF PutDb, Order, BootPc, SetPc, GetPc
  <2> QED
    BY <1>2, <1>6, <2>1, SetCfgKept, SetHalKept, SetDbKept, SetSeedKept, GetCfgKept, GetHalKept,
       PutHalKept DEF CosaDmlMocaIfSetCfg, CosaDmlMocaIfGetCfg
<1>7. CASE Boot \/ BootCheck \/ BootForce \/ Rollback \/ TxnOpen \/ Finish \/ Get
           \/ SetProvisioning
  BY <1>2, <1>7, BootKept, RollbackKept, OpenKept, FinishKept, ReadKept, SetNumberKept
<1>8. ASSUME NEW v \in BOOLEAN, SetEnable(v) \/ SetNumber(v) PROVE AllKept
  BY <1>2, <1>8, SetEnableKept, SetNumberKept
<1>9. ASSUME NEW k \in Key, SetKey(k) PROVE AllKept
  BY <1>2, <1>9, SetKeyKept
<1>10. CASE Restart
  BY <1>2, <1>10, KillKept
<1> QED
  BY <1>1, <1>4, <1>5, <1>6, <1>7, <1>8, <1>9, <1>10 DEF Next, Work, Ask, Environment

LEMMA WholeInit == Init => WholeInv
<1> SUFFICES ASSUME Init, equipped PROVE Order /\ Atomic /\ Unstored
  BY DEF WholeInv
<1>1. /\ pc["bus"] = "boot" /\ back["bus"] = "none" /\ X.result = "none"
      /\ \A t \in Thread \ {"bus"} : pc[t] = "idle"
  BY Threads DEF Init, X, NoTxn
<1> QED
  BY <1>1 DEF Init, Order, Atomic, Unstored, CfgZeroed, BootPc, SetPc, GetPc

(* A transaction that is answered with a failure changes neither cache nor   *)
(* driver nor syscfg, one that is answered with success changes what it was  *)
(* asked to change and nothing else, and wherever in between the agent is    *)
(* killed, the driver has all or nothing of it and syscfg no more than the   *)
(* driver, for any number of transactions, values, reads, restarts and       *)
(* failures of the driver and of the bus; where syscfg failed, the           *)
(* driver has what was asked for or what syscfg holds, and the cache says so *)
(* (cosa_moca_dml.c: "either all of the value changes are applied together,  *)
(* or none of the changes are applied at all").                              *)
THEOREM TransactionsAreWhole == Spec => []AllOrNothing
<1>1. Init => TypeOK /\ WholeInv
  BY TypeInit, WholeInit
<1>2. TypeOK /\ WholeInv /\ [Next]_vars => TypeOK' /\ WholeInv'
  BY TypeStep, WholeStep
<1>3. TypeOK /\ WholeInv => AllOrNothing
  <2> SUFFICES ASSUME TypeOK, WholeInv, X.level, equipped
               PROVE  /\ OnlyUsed(AtomicAllowed) =>
                           /\ X.result = "pending" => Underway(X)
                           /\ pc["bus"] = "idle" /\ X.result = "failed" =>
                               hal = X.hal /\ db = X.db /\ CacheIs(hal)
                           /\ pc["bus"] = "idle" /\ X.result = "done" =>
                               hal = Target /\ LevelDb /\ CacheIs(hal)
                      /\ OnlyUsed(UnstoredAllowed) /\ pc["bus"] = "idle" /\ X.result = "done" =>
                           /\ CacheIs(hal)
                           /\ \/ hal.bEnabled = Target.bEnabled
                              \/ hal.bEnabled = db.moca_enabled
                                 /\ db.moca_enabled = X.db.moca_enabled
    <3>1. AtomicAllowed = {"txn", "set", "enable", "key", "number", "provision", "get", "restart"}
                          \cup {"halSet", "lanMode"}
      BY DEF AtomicAllowed
    <3> QED
      BY <3>1 DEF AllOrNothing, X, Target, LevelDb, UnstoredAllowed
  <2>0. OnlyUsed(AtomicAllowed) => OnlyUsed(BothAllowed)
    BY DEF OnlyUsed, BothAllowed
  <2>1. ASSUME OnlyUsed(AtomicAllowed), X.result = "pending" PROVE Underway(X)
    <3>1. Order /\ AtomicAt
      BY <2>1, <2>0 DEF WholeInv, Atomic
    <3>2. pc["bus"] \in {"open", "rollback"} \cup SetPc \cup GetPc
      BY <2>1, <3>1 DEF Order, BootPc, SetPc, GetPc
    <3>3. CASE pc["bus"] \in {"open", "rollback", "setCfg", "setHal"} \cup GetPc
      BY <2>1, <3>1, <3>3 DEF AtomicAt, Held, Underway
    <3>4. CASE pc["bus"] \in {"setDb", "setSeed"}
      BY <3>1, <3>4 DEF AtomicAt, Underway, Target
    <3> QED
      BY <3>2, <3>3, <3>4 DEF SetPc
  <2> QED
    BY <2>1 DEF WholeInv, Atomic, AtomicAt, Unstored, UnstoredAt, Held
<1> QED
  BY <1>1, <1>2, <1>3, PTL DEF Spec

-----------------------------------------------------------------------------
(***************************************************************************)
(* DocAllOrNothing.  Up to the entry in the cache nothing has changed; from *)
(* there on DocAt says what cache, driver and syscfg have of the document.  *)
(* The rollback meets a changed driver only where syscfg failed before it:  *)
(* in bridge mode, where every document is rolled back, the start has       *)
(* switched MoCA off (OffInBridge), unless syscfg failed in the start.  So  *)
(* a syscfg that fails once does not fail in the rollback.                  *)
(***************************************************************************)
DocAllowed == {"web", "syscfg", "lanMode"}

OneFailure == OnlyUsed(DocAllowed) /\ used["syscfg"] <= 1

D == txn["web"]

(* Who is at work, and for whom. *)
DocOrder ==
    /\ \A t \in Thread \ {"bus", "web"} : pc[t] = "idle"
    /\ events = 0
    /\ ~cfg.bSnmpUpdate /\ ~cfg.X_CISCO_COM_Reset
    /\ pc["bus"] \in {"idle"} \cup BootPc \cup SetPc \cup (GetPc \ {"putDb"})
    /\ pc["web"] \in {"idle"} \cup WebPc
    /\ D.result = "pending" <=> pc["web"] # "idle"
    /\ pc["bus"] \in {"idle"} \cup BootPc => back["bus"] = "none"
    /\ pc["bus"] \in SetPc => back["bus"] = "bootSet"
    /\ pc["bus"] \in GetPc => back["bus"] = "bootGet"
    /\ pc["bus"] # "idle" => pc["web"] = "idle" /\ D.result = "none"
    /\ pc["bus"] \in SetPc \cup GetPc \cup {"bootCheck"} => is_moca_available
    /\ db.moca_password_seed # NoKey

Off == ~cfg.bEnabled /\ ~hal.bEnabled /\ ~db.moca_enabled

(* The start, up to the first document. *)
BootLevel ==
    pc["bus"] # "idle" =>
        /\ hal.KeyPassphrase = db.moca_password_seed
        /\ pc["bus"] \in {"getHal", "putHal"} => moca_enable_db = db.moca_enabled
        /\ pc["bus"] = "putHal" => mocaCfg["bus"].KeyPassphrase = hal.KeyPassphrase
        /\ pc["bus"] = "bootCheck" => CacheIs(hal) /\ db.moca_enabled = hal.bEnabled
        /\ pc["bus"] \in SetPc => ~Routing /\ cfg.KeyPassphrase = hal.KeyPassphrase
        /\ pc["bus"] = "setHal" =>
            /\ ~mocaCfg["bus"].bEnabled
            /\ mocaCfg["bus"].KeyPassphrase = hal.KeyPassphrase
        /\ pc["bus"] \in {"setHal", "setDb", "setSeed"} => ~cfg.bEnabled
        /\ pc["bus"] \in {"setDb", "setSeed"} => ~hal.bEnabled
        /\ pc["bus"] = "setSeed" /\ used["syscfg"] = 0 => ~db.moca_enabled

(* Without a key the cache was never loaded, and a document that comes then *)
(* has not found the three in line.                                         *)
OffInBridge ==
    /\ used["syscfg"] = 0 /\ bridge /\ cfg.KeyPassphrase # NoKey
    /\ pc["bus"] \in {"bootForce", "idle"}
    => /\ Off
       /\ pc["web"] \in {"idle", "backup", "check", "apply", "rollback"}
       /\ pc["web"] \in {"check", "apply", "rollback"} => ~g_bMocaEnable_bkup

Same == hal = D.hal /\ db = D.db /\ CacheIs(hal)

(* At each point of a document that found cache, driver and syscfg in line. *)
DocAt ==
    /\ D.db.moca_enabled = D.hal.bEnabled
    /\ D.want.KeyPassphrase = D.hal.KeyPassphrase
    /\ hal.KeyPassphrase = D.hal.KeyPassphrase /\ cfg.KeyPassphrase = hal.KeyPassphrase
    /\ cfg.KeyPassphrase # NoKey
    /\ db = [D.db EXCEPT !.moca_enabled = db.moca_enabled]
    /\ pc["web"] \in {"backup", "check", "apply"} => Same /\ doc = D.want.bEnabled
    /\ pc["web"] \in WebPc \ {"backup"} => g_bMocaEnable_bkup = D.hal.bEnabled
    /\ pc["web"] \in {"webHal", "webDb"} =>
        /\ db = D.db
        /\ cfg.bEnabled # D.hal.bEnabled
        /\ bBridge = bridge /\ (bBridge \/ cfg.bEnabled = D.want.bEnabled)
    /\ pc["web"] = "webHal" => hal = D.hal /\ CacheIs(mocaCfg["web"])
    /\ pc["web"] \in {"webDb", "rollback", "rollDb"} => CacheIs(hal)
    /\ pc["web"] = "rollback" =>
        IF hal = D.hal THEN db = D.db ELSE used["syscfg"] = 1
    /\ pc["web"] \in {"rollHal", "rollDb"} => used["syscfg"] = 1
    /\ pc["web"] = "rollHal" => mocaCfg["web"] = D.hal
    /\ pc["web"] = "rollDb" => hal = D.hal
    /\ D.result = "failed" => Same
    /\ D.result = "done" =>
        hal = D.want /\ CacheIs(hal) /\ db.moca_enabled = D.want.bEnabled

DocLevel == D.result # "none" /\ D.level => DocAt

DocInv == OneFailure => DocOrder /\ BootLevel /\ OffInBridge /\ DocLevel

DocParts == DocOrder /\ BootLevel /\ OffInBridge /\ DocLevel

(* Nothing is taken back. *)
LEMMA Counted ==
    ASSUME TypeOK, [Next]_vars
    PROVE  \A o \in Op : used[o] \in Nat /\ used'[o] \in Nat /\ used[o] <= used'[o]
<1>a. ASSUME NEW ops, SpendAll(ops) PROVE \A o \in Op : used'[o] \in Nat /\ used[o] <= used'[o]
  <2> TAKE o \in Op
  <2>1. used[o] \in Nat /\ used'[o] = IF o \in ops THEN used[o] + 1 ELSE used[o]
    BY <1>a DEF SpendAll, TypeOK
  <2> QED
    BY <2>1
<1>b. ASSUME NEW o, Spend(o) PROVE \A q \in Op : used'[q] \in Nat /\ used[q] <= used'[q]
  BY <1>a, <1>b DEF Spend
<1>c. ASSUME used' = used PROVE \A q \in Op : used'[q] \in Nat /\ used[q] <= used'[q]
  BY <1>c DEF TypeOK
<1> SUFFICES \A q \in Op : used'[q] \in Nat /\ used[q] <= used'[q]
  BY DEF TypeOK
<1>1. CASE UNCHANGED vars
  BY <1>1, <1>c DEF vars
<1>2. ASSUME NEW t \in {"bus", "sys"}, CosaDmlMocaIfSetCfg(t) \/ CosaDmlMocaIfGetCfg(t)
      PROVE  \A q \in Op : used'[q] \in Nat /\ used[q] <= used'[q]
  BY <1>2, <1>b, <1>c DEF CosaDmlMocaIfSetCfg, SetCfg, SetHal, SetDb, SetSeed,
     CosaDmlMocaIfGetCfg, GetCfg, GetHal, PutHal, PutDb
<1>3. CASE Boot \/ BootCheck \/ BootForce \/ Rollback \/ Event \/ Notify \/ Finish
  BY <1>3, <1>b, <1>c DEF Boot, BootCheck, BootForce, Rollback, Event, Notify, Finish
<1>4. CASE Process_Moca_WebConfigRequest
  BY <1>4, <1>a, <1>b, <1>c DEF Process_Moca_WebConfigRequest, Backup,
     Check, Apply, WebHal, WebDb, rollback_moca_conf, RollHal, RollDb
<1>5. ASSUME NEW r \in Resetter, Reset(r) \/ CosaDmlMocaIfReset(r)
      PROVE  \A q \in Op : used'[q] \in Nat /\ used[q] <= used'[q]
  BY <1>5, <1>b, <1>c DEF Reset, CosaDmlMocaIfReset, ResetStart, Snapshot, ResetHal, ResetDb,
     Delay
<1>6. CASE TxnOpen \/ Get \/ SetProvisioning
  BY <1>6, <1>a, <1>b DEF TxnOpen, Get, SetProvisioning
<1>7. ASSUME NEW v, SetEnable(v) \/ SetNumber(v) \/ SetDefault(v) \/ SetForce(v) \/ SetKey(v)
      PROVE  \A q \in Op : used'[q] \in Nat /\ used[q] <= used'[q]
  BY <1>7, <1>a DEF SetEnable, SetNumber, SetDefault, SetForce, SetKey
<1>8. ASSUME NEW b, WebRequest(b) PROVE \A q \in Op : used'[q] \in Nat /\ used[q] <= used'[q]
  BY <1>8, <1>b DEF WebRequest
<1>9. CASE Environment
  BY <1>9, <1>b DEF Environment, Snmp, ModeChange, Restart
<1> QED
  BY <1>1, <1>2, <1>3, <1>4, <1>5, <1>6, <1>7, <1>8, <1>9 DEF Next, Work, Ask

(* A failure of syscfg that stays the only one is the first one. *)
LEMMA FirstFailure ==
    ASSUME TypeOK, OneFailure', Spend("syscfg")
    PROVE  used["syscfg"] = 0 /\ used'["syscfg"] = 1
BY DEF TypeOK, OneFailure, Spend, SpendAll, Op

LEMMA OneOrNone ==
    ASSUME TypeOK, OneFailure', [Next]_vars
    PROVE  used'["syscfg"] \in {0, 1} /\ used["syscfg"] \in {0, 1}
BY Counted DEF OneFailure, Op

(* What does not happen in this scenario. *)
LEMMA NoOtherFailure ==
    ASSUME TypeOK, OneFailure'
    PROVE  ~Spend("halSet") /\ ~Spend("halGet") /\ ~Spend("syscfgGet")
BY SpentOneOf DEF OneFailure, DocAllowed, Op

(* A step of the start. *)
LEMMA DocBootStep ==
    ASSUME DocParts, pc["bus"] # "idle", OthersIdle, UNCHANGED <<events, txn>>,
           ~cfg'.bSnmpUpdate, ~cfg'.X_CISCO_COM_Reset, db'.moca_password_seed # NoKey,
           NEW p, NEW c, Moved(p, c),
           \/ p \in {"idle", "bootForce"} /\ c = "none"
           \/ p = "bootCheck" /\ c = "none" /\ is_moca_available'
           \/ p \in SetPc /\ c = "bootSet" /\ is_moca_available'
           \/ p \in GetPc \ {"putDb"} /\ c = "bootGet" /\ is_moca_available',
           BootLevel',
           /\ used'["syscfg"] = 0 /\ bridge' /\ cfg'.KeyPassphrase # NoKey
           /\ p \in {"bootForce", "idle"}
           => Off'
    PROVE  DocParts'
<1>1. pc["web"] = "idle" /\ D.result = "none"
  BY DEF DocParts, DocOrder
<1>2. pc'["web"] = "idle" /\ D'.result = "none" /\ \A t \in Thread \ {"bus", "web"} : pc'[t] = "idle"
  BY <1>1, Threads DEF DocParts, DocOrder, OthersIdle, D
<1>3. p # "putDb" /\ p # "boot"
  BY DEF SetPc, GetPc
<1>4. DocOrder'
  BY <1>2, <1>3 DEF DocParts, DocOrder, Moved, BootPc, SetPc, GetPc
<1>5. OffInBridge' /\ DocLevel'
  BY <1>2 DEF OffInBridge, Moved, DocLevel
<1> QED
  BY <1>4, <1>5 DEF DocParts

(* The routines return to the start. *)
LEMMA ReturnToBoot ==
    ASSUME TypeOK, NEW ok \in BOOLEAN, Return("bus", ok)
    PROVE  /\ back["bus"] = "bootGet" => Moved("bootCheck", "none") /\ OthersIdle /\ txn' = txn
           /\ back["bus"] = "bootSet" => Moved("bootForce", "none") /\ OthersIdle /\ txn' = txn
<1>1. CASE back["bus"] = "bootGet"
  <2>1. Goto("bus", "bootCheck") /\ txn' = txn /\ back' = [back EXCEPT !["bus"] = "none"]
    BY <1>1 DEF Return
  <2> QED
    BY <1>1, <2>1, Threads, Gone DEF Moved, OthersIdle, TypeOK
<1>2. CASE back["bus"] = "bootSet"
  <2>1. Goto("bus", "bootForce") /\ txn' = txn /\ back' = [back EXCEPT !["bus"] = "none"]
    BY <1>2 DEF Return
  <2> QED
    BY <1>2, <2>1, Threads, Gone DEF Moved, OthersIdle, TypeOK
<1> QED
  BY <1>1, <1>2

(* The first look at the driver, from which the three agree, ... *)
LEMMA DocBootGet ==
    ASSUME TypeOK, OneFailure', DocParts, [Next]_vars, CosaDmlMocaIfGetCfg("bus")
    PROVE  DocParts'
<1>0. /\ pc["bus"] \in GetPc \ {"putDb"} /\ back["bus"] = "bootGet" /\ is_moca_available
      /\ ~cfg.bSnmpUpdate /\ ~cfg.X_CISCO_COM_Reset /\ db.moca_password_seed # NoKey
      /\ pc["bus"] # "idle" /\ hal.KeyPassphrase = db.moca_password_seed
      /\ UNCHANGED <<events, db>>
  BY DEF CosaDmlMocaIfGetCfg, GetCfg, GetHal, PutHal, PutDb, DocParts, DocOrder, BootLevel,
     GetPc, BootPc, SetPc
<1>1. ~Spend("halSet") /\ ~Spend("halGet") /\ ~Spend("syscfgGet")
  BY NoOtherFailure
<1>2. CASE GetCfg("bus")
  <2>1. /\ moca_enable_db' = db.moca_enabled /\ Goto("bus", "getHal") /\ is_moca_available'
        /\ UNCHANGED <<back, txn, cfg, hal, db, events>>
    BY <1>0, <1>1, <1>2 DEF GetCfg, Judge, Available
  <2>2. Moved("getHal", "bootGet") /\ OthersIdle
    BY <1>0, <2>1, GotoMoved
  <2>3. BootLevel'
    BY <1>0, <2>1, <2>2 DEF BootLevel, Moved, SetPc
  <2> QED
    BY <1>0, <2>1, <2>2, <2>3, DocBootStep DEF GetPc
<1>3. CASE GetHal("bus")
  <2>1. moca_enable_db = db.moca_enabled
    BY <1>0, <1>3 DEF GetHal, DocParts, BootLevel
  <2>2. CASE moca_enable_db = hal.bEnabled
    <3>1. /\ cfg' = Copied(hal) /\ Return("bus", TRUE)
          /\ UNCHANGED <<is_moca_available, hal, db, events>>
      BY <1>1, <1>3, <2>2 DEF GetHal
    <3>2. Moved("bootCheck", "none") /\ OthersIdle /\ txn' = txn
      BY <1>0, <3>1, ReturnToBoot
    <3>3. /\ cfg'.bEnabled = hal.bEnabled /\ cfg'.KeyPassphrase = hal.KeyPassphrase
          /\ ~cfg'.bSnmpUpdate /\ ~cfg'.X_CISCO_COM_Reset
      BY <1>0, <3>1 DEF Copied, TypeOK, Cfg
    <3>4. BootLevel'
      BY <1>0, <2>1, <2>2, <3>1, <3>2, <3>3 DEF BootLevel, Moved, SetPc, CacheIs
    <3> QED
      BY <1>0, <3>1, <3>2, <3>3, <3>4, DocBootStep
  <2>3. CASE moca_enable_db # hal.bEnabled
    <3>1. /\ mocaCfg' = [mocaCfg EXCEPT !["bus"] = hal]
          /\ cfg' = [cfg EXCEPT !.bEnabled = hal.bEnabled]
          /\ Goto("bus", "putHal")
          /\ UNCHANGED <<is_moca_available, moca_enable_db, hal, db, events, back, txn>>
      BY <1>0, <1>1, <1>3, <2>3 DEF GetHal
    <3>2. Moved("putHal", "bootGet") /\ OthersIdle
      BY <1>0, <3>1, GotoMoved
    <3>3. ~cfg'.bSnmpUpdate /\ ~cfg'.X_CISCO_COM_Reset /\ mocaCfg'["bus"] = hal
      BY <1>0, <3>1, Threads DEF TypeOK, Cfg
    <3>4. BootLevel'
      BY <1>0, <2>1, <3>1, <3>2, <3>3 DEF BootLevel, Moved, SetPc
    <3> QED
      BY <1>0, <3>1, <3>2, <3>3, <3>4, DocBootStep DEF GetPc
  <2> QED
    BY <2>2, <2>3
<1>4. CASE PutHal("bus")
  <2>1. /\ moca_enable_db = db.moca_enabled
        /\ mocaCfg["bus"].KeyPassphrase = hal.KeyPassphrase
    BY <1>0, <1>4 DEF PutHal, DocParts, BootLevel
  <2>2. /\ hal' = [mocaCfg["bus"] EXCEPT !.bEnabled = moca_enable_db]
        /\ cfg' = Copied([mocaCfg["bus"] EXCEPT !.bEnabled = moca_enable_db])
        /\ Return("bus", TRUE)
        /\ UNCHANGED <<is_moca_available, db, events>>
    BY <1>1, <1>4 DEF PutHal
  <2>3. Moved("bootCheck", "none") /\ OthersIdle /\ txn' = txn
    BY <1>0, <2>2, ReturnToBoot
  <2>4. hal'.bEnabled = moca_enable_db /\ hal'.KeyPassphrase = hal.KeyPassphrase
    BY <2>1, <2>2, Threads DEF TypeOK, HalCfg
  <2>5. /\ cfg'.bEnabled = hal'.bEnabled /\ cfg'.KeyPassphrase = hal'.KeyPassphrase
        /\ ~cfg'.bSnmpUpdate /\ ~cfg'.X_CISCO_COM_Reset
    BY <1>0, <2>2 DEF Copied, TypeOK, Cfg
  <2>6. BootLevel'
    BY <1>0, <2>1, <2>2, <2>3, <2>4, <2>5 DEF BootLevel, Moved, SetPc, CacheIs
  <2> QED
    BY <1>0, <2>2, <2>3, <2>5, <2>6, DocBootStep
<1>5. ~PutDb("bus")
  BY <1>0 DEF PutDb
<1> QED
  BY <1>2, <1>3, <1>4, <1>5 DEF CosaDmlMocaIfGetCfg

(* ... and MoCA is switched off where the device does not route. *)
LEMMA DocBootSet ==
    ASSUME TypeOK, OneFailure', DocParts, CosaDmlMocaIfSetCfg("bus"),
           UNCHANGED <<bridge, split>>
    PROVE  DocParts'
<1>0. /\ pc["bus"] \in SetPc /\ back["bus"] = "bootSet" /\ is_moca_available
      /\ ~cfg.bSnmpUpdate /\ ~cfg.X_CISCO_COM_Reset /\ db.moca_password_seed # NoKey
      /\ pc["bus"] # "idle" /\ hal.KeyPassphrase = db.moca_password_seed
      /\ ~Routing /\ ~Routing' /\ cfg.KeyPassphrase = hal.KeyPassphrase
      /\ UNCHANGED events
  BY DEF CosaDmlMocaIfSetCfg, SetCfg, SetHal, SetDb, SetSeed, DocParts, DocOrder, BootLevel,
     GetPc, BootPc, SetPc, Routing
<1>1. ~Spend("halSet")
  BY NoOtherFailure
<1>2. CASE SetCfg("bus")
  <2>1. /\ mocaCfg'["bus"] = Build
        /\ cfg' = [cfg EXCEPT !.bEnabled = @ /\ Routing]
        /\ Goto("bus", "setHal") /\ is_moca_available'
        /\ UNCHANGED <<back, txn, hal, db>>
    BY <1>0, <1>2, Threads DEF SetCfg, Judge, Available, TypeOK
  <2>2. Moved("setHal", "bootSet") /\ OthersIdle
    BY <1>0, <2>1, GotoMoved
  <2>3. /\ ~cfg'.bEnabled /\ cfg'.KeyPassphrase = cfg.KeyPassphrase
        /\ ~cfg'.bSnmpUpdate /\ ~cfg'.X_CISCO_COM_Reset
        /\ ~mocaCfg'["bus"].bEnabled /\ mocaCfg'["bus"].KeyPassphrase = cfg.KeyPassphrase
    BY <1>0, <2>1 DEF Build, TypeOK, Cfg
  <2>4. BootLevel'
    BY <1>0, <2>1, <2>2, <2>3 DEF BootLevel, Moved
  <2> QED
    BY <1>0, <2>1, <2>2, <2>3, <2>4, DocBootStep DEF SetPc
<1>3. CASE SetHal("bus")
  <2>1. /\ ~mocaCfg["bus"].bEnabled /\ mocaCfg["bus"].KeyPassphrase = hal.KeyPassphrase
        /\ ~cfg.bEnabled
    BY <1>0, <1>3 DEF SetHal, DocParts, BootLevel
  <2>2. /\ hal' = mocaCfg["bus"] /\ Goto("bus", "setDb")
        /\ UNCHANGED <<back, txn, cfg, db, is_moca_available>>
    BY <1>1, <1>3 DEF SetHal, agentVars
  <2>3. Moved("setDb", "bootSet") /\ OthersIdle
    BY <1>0, <2>2, GotoMoved
  <2>4. BootLevel'
    BY <1>0, <2>1, <2>2, <2>3 DEF BootLevel, Moved
  <2> QED
    BY <1>0, <2>2, <2>3, <2>4, DocBootStep DEF SetPc
<1>4. CASE SetDb("bus")
  <2>1. ~cfg.bEnabled /\ ~hal.bEnabled
    BY <1>0, <1>4 DEF SetDb, DocParts, BootLevel
  <2>2. /\ \/ db' = [db EXCEPT !.moca_enabled = cfg.bEnabled] /\ used' = used
           \/ Spend("syscfg") /\ db' = db
        /\ Goto("bus", "setSeed")
        /\ UNCHANGED <<back, txn, cfg, hal, is_moca_available>>
    BY <1>4 DEF SetDb, agentVars
  <2>3. Moved("setSeed", "bootSet") /\ OthersIdle
    BY <1>0, <2>2, GotoMoved
  <2>4. /\ db'.moca_password_seed = db.moca_password_seed
        /\ used'["syscfg"] = 0 => ~db'.moca_enabled
    BY <2>1, <2>2, FirstFailure DEF TypeOK, Db
  <2>5. BootLevel'
    BY <1>0, <2>1, <2>2, <2>3, <2>4 DEF BootLevel, Moved
  <2> QED
    BY <1>0, <2>2, <2>3, <2>4, <2>5, DocBootStep DEF SetPc
<1>5. CASE SetSeed("bus")
  <2>1. ~cfg.bEnabled /\ ~hal.bEnabled /\ (used["syscfg"] = 0 => ~db.moca_enabled)
    BY <1>0, <1>5 DEF SetSeed, DocParts, BootLevel
  <2>2. /\ \/ /\ db' = [db EXCEPT !.moca_password_seed = cfg.KeyPassphrase]
              /\ used' = used
           \/ Spend("syscfg") /\ db' = db
        /\ Return("bus", TRUE)
        /\ UNCHANGED <<cfg, hal, is_moca_available>>
    BY <1>0, <1>5 DEF SetSeed, agentVars
  <2>3. Moved("bootForce", "none") /\ OthersIdle /\ txn' = txn
    BY <1>0, <2>2, ReturnToBoot
  <2>4. /\ db'.moca_password_seed = db.moca_password_seed
        /\ used'["syscfg"] = 0 => ~db'.moca_enabled
    BY <1>0, <2>1, <2>2, FirstFailure DEF TypeOK, Db
  <2>5. BootLevel'
    BY <1>0, <2>1, <2>2, <2>3, <2>4 DEF BootLevel, Moved, SetPc
  <2> QED
    BY <1>0, <2>1, <2>2, <2>3, <2>4, <2>5, DocBootStep DEF Off
<1> QED
  BY <1>2, <1>3, <1>4, <1>5 DEF CosaDmlMocaIfSetCfg

LEMMA DocBootRest ==
    ASSUME TypeOK, OneFailure', DocParts, Boot \/ BootCheck \/ BootForce,
           UNCHANGED <<bridge, split>>
    PROVE  DocParts'
<1>r. ~Spend("syscfgGet")
  BY NoOtherFailure
<1>0. /\ pc["bus"] \in BootPc /\ back["bus"] = "none" /\ pc["bus"] # "idle"
      /\ ~cfg'.bSnmpUpdate /\ ~cfg'.X_CISCO_COM_Reset /\ db.moca_password_seed # NoKey
      /\ hal.KeyPassphrase = db.moca_password_seed
      /\ UNCHANGED <<events, txn, hal, db, used>>
  BY <1>r DEF Boot, BootCheck, BootForce, DocParts, DocOrder, BootLevel, BootPc, agentVars,
     CfgZeroed
<1>1. CASE Boot /\ equipped
  <2>1. Call("bus", "getCfg", "bootGet") /\ is_moca_available'
    BY <1>1 DEF Boot, CosaDmlMocaInit
  <2>2. Moved("getCfg", "bootGet") /\ OthersIdle
    BY <2>1, CallMoved
  <2>3. BootLevel'
    BY <1>0, <2>1, <2>2 DEF BootLevel, Moved, SetPc
  <2> QED
    BY <1>0, <2>1, <2>2, <2>3, DocBootStep DEF GetPc
<1>2. CASE Boot /\ ~equipped
  <2>1. Goto("bus", "bootForce") /\ cfg'.KeyPassphrase = NoKey /\ UNCHANGED back
    BY <1>2 DEF Boot, CfgZeroed
  <2>2. Moved("bootForce", "none") /\ OthersIdle
    BY <1>0, <2>1, GotoMoved
  <2>3. BootLevel'
    BY <1>0, <2>1, <2>2 DEF BootLevel, Moved, SetPc
  <2> QED
    BY <1>0, <2>1, <2>2, <2>3, DocBootStep
<1>3. CASE BootCheck
  <2>0. /\ UNCHANGED <<cfg, is_moca_available>> /\ is_moca_available
        /\ CacheIs(hal) /\ db.moca_enabled = hal.bEnabled
    BY <1>3 DEF BootCheck, agentVars, DocParts, DocOrder, BootLevel
  <2>1. CASE cfg.bEnabled /\ ~Routing
    <3>1. Call("bus", "setCfg", "bootSet")
      BY <1>3, <2>1 DEF BootCheck
    <3>2. Moved("setCfg", "bootSet") /\ OthersIdle
      BY <3>1, CallMoved
    <3>3. BootLevel'
      BY <1>0, <2>0, <2>1, <3>2 DEF BootLevel, Moved, CacheIs, Routing
    <3> QED
      BY <1>0, <2>0, <3>2, <3>3, DocBootStep DEF SetPc
  <2>2. CASE ~(cfg.bEnabled /\ ~Routing)
    <3>1. Goto("bus", "bootForce") /\ UNCHANGED back
      BY <1>3, <2>2 DEF BootCheck
    <3>2. Moved("bootForce", "none") /\ OthersIdle
      BY <1>0, <3>1, GotoMoved
    <3>3. BootLevel'
      BY <1>0, <3>2 DEF BootLevel, Moved, SetPc
    <3>4. bridge => Off'
      BY <1>0, <2>0, <2>2 DEF Off, CacheIs, Routing
    <3> QED
      BY <1>0, <3>2, <3>3, <3>4, DocBootStep
  <2> QED
    BY <2>1, <2>2
<1>4. CASE BootForce
  <2>1. Goto("bus", "idle") /\ UNCHANGED <<back, cfg>> /\ pc["bus"] = "bootForce"
    BY <1>4 DEF BootForce
  <2>2. Moved("idle", "none") /\ OthersIdle
    BY <1>0, <2>1, GotoMoved
  <2>3. BootLevel'
    BY <2>2 DEF BootLevel, Moved
  <2>4. used["syscfg"] = 0 /\ bridge /\ cfg.KeyPassphrase # NoKey => Off
    BY <2>1 DEF DocParts, OffInBridge
  <2> QED
    BY <1>0, <2>1, <2>2, <2>3, <2>4, DocBootStep DEF Off
<1> QED
  BY <1>1, <1>2, <1>3, <1>4

(* A document says one thing of Enable. *)
LEMMA SaysOnce ==
    ASSUME NEW blob \in Blob, NEW a \in Says(blob), NEW b \in Says(blob)
    PROVE  a = b
<1>1. blob.unpacks
  BY DEF Says
<1> DEFINE map == blob.map
<1>2. PICK k \in DOMAIN map :
        /\ map[k].key = "moca"
        /\ \E l \in DOMAIN map[k].map :
            map[k].map[l] = [key |-> "Enable", type |-> "boolean", val |-> a]
  BY DEF Says
<1>3. PICK l \in DOMAIN map[k].map :
        map[k].map[l] = [key |-> "Enable", type |-> "boolean", val |-> a]
  BY <1>2
<1>4. PICK n \in DOMAIN map :
        /\ map[n].key = "moca"
        /\ \E m \in DOMAIN map[n].map :
            map[n].map[m] = [key |-> "Enable", type |-> "boolean", val |-> b]
  BY DEF Says
<1>5. PICK m \in DOMAIN map[n].map :
        map[n].map[m] = [key |-> "Enable", type |-> "boolean", val |-> b]
  BY <1>4
<1>6. n = k
  BY <1>1, <1>2, <1>4, Shape DEF Distinct
<1>7. map[k].map[l].key = map[k].map[m].key
  BY <1>3, <1>5, <1>6
<1>8. l = m
  BY <1>1, <1>5, <1>6, <1>7, Shape DEF Distinct
<1> QED
  BY <1>3, <1>5, <1>6, <1>8

(* Records that are the same but for one field. *)
LEMMA HalFields ==
    ASSUME NEW h \in HalCfg
    PROVE  /\ \A k \in HalCfg :
                h = k <=> h.bEnabled = k.bEnabled /\ h.KeyPassphrase = k.KeyPassphrase
           /\ \A e \in BOOLEAN :
                /\ [h EXCEPT !.bEnabled = e].bEnabled = e
                /\ [h EXCEPT !.bEnabled = e].KeyPassphrase = h.KeyPassphrase
                /\ [h EXCEPT !.bEnabled = e] \in HalCfg
BY DEF HalCfg

LEMMA DbFields ==
    ASSUME NEW d \in Db, NEW e \in BOOLEAN
    PROVE  /\ [d EXCEPT !.moca_enabled = e].moca_enabled = e
           /\ [d EXCEPT !.moca_enabled = e].moca_password_seed = d.moca_password_seed
           /\ d.moca_enabled = e => [d EXCEPT !.moca_enabled = e] = d
           /\ \A c \in Db : d = [c EXCEPT !.moca_enabled = d.moca_enabled]
                => [d EXCEPT !.moca_enabled = e] = [c EXCEPT !.moca_enabled = e]
<1>1. /\ [d EXCEPT !.moca_enabled = e].moca_enabled = e
      /\ [d EXCEPT !.moca_enabled = e].moca_password_seed = d.moca_password_seed
  BY DEF Db
<1>2. d.moca_enabled = e => [d EXCEPT !.moca_enabled = e] = d
  BY DEF Db
<1>3. ASSUME NEW c \in Db, d = [c EXCEPT !.moca_enabled = d.moca_enabled]
      PROVE  [d EXCEPT !.moca_enabled = e] = [c EXCEPT !.moca_enabled = e]
  BY <1>3 DEF Db
<1> QED
  BY <1>1, <1>2, <1>3

(* A step of the document: what has to be shown of it. *)
LEMMA DocWebStep ==
    ASSUME TypeOK, DocParts, pc["bus"] = "idle", UNCHANGED <<events, back>>,
           ~cfg'.bSnmpUpdate, ~cfg'.X_CISCO_COM_Reset, db'.moca_password_seed # NoKey,
           NEW p \in {"idle"} \cup WebPc, Goto("web", p), D'.result = "pending" <=> p # "idle",
           /\ used'["syscfg"] = 0 /\ bridge' /\ cfg'.KeyPassphrase # NoKey
           => /\ Off'
              /\ p \in {"idle", "backup", "check", "apply", "rollback"}
              /\ p \in {"check", "apply", "rollback"} => ~g_bMocaEnable_bkup',
           DocLevel'
    PROVE  DocParts'
<1>1. pc'["web"] = p /\ pc'["bus"] = "idle" /\ \A t \in Thread \ {"bus", "web"} : pc'[t] = "idle"
  BY Gone, Threads DEF DocParts, DocOrder
<1>2. DocOrder'
  BY <1>1 DEF DocParts, DocOrder, BootPc, SetPc, GetPc
<1>3. BootLevel' /\ OffInBridge'
  BY <1>1 DEF BootLevel, OffInBridge
<1> QED
  BY <1>2, <1>3 DEF DocParts

LEMMA DocRequest ==
    ASSUME TypeOK, DocParts, [Next]_vars, NEW blob \in Blob, WebRequest(blob),
           UNCHANGED <<bridge, split>>
    PROVE  DocParts'
<1>1. /\ pc["bus"] = "idle" /\ UNCHANGED <<events, back, cfg, hal, db, g_bMocaEnable_bkup>>
      /\ ~cfg.bSnmpUpdate /\ ~cfg.X_CISCO_COM_Reset /\ db.moca_password_seed # NoKey
      /\ Goto("web", "backup") /\ "backup" \in WebPc
  BY DEF WebRequest, Booted, DocParts, DocOrder, agentVars, WebPc
<1>2. PICK want \in Asked(blob) :
        txn' = [txn EXCEPT !["web"] = [NoTxn EXCEPT !.want.bEnabled = want, !.result = "pending"]]
  BY DEF WebRequest
<1>3. doc' = want /\ want \in BOOLEAN
  <2>1. PICK enable \in BOOLEAN : CosaDmlmocaUnpack(blob, enable) /\ doc' = enable
    BY DEF WebRequest
  <2>2. enable \in Says(blob)
    BY <2>1, DecodingIsRight
  <2>3. want \in Says(blob)
    BY <2>2 DEF Asked
  <2> QED
    BY <2>1, <2>2, <2>3, SaysOnce
<1>4. /\ D'.hal = hal /\ D'.db = db /\ D'.want.bEnabled = want
      /\ D'.want.KeyPassphrase = hal.KeyPassphrase /\ D'.result = "pending"
      /\ D'.level => /\ CacheIs(hal) /\ db.moca_enabled = hal.bEnabled
                     /\ db.moca_password_seed = hal.KeyPassphrase
  BY <1>2 DEF D, NoTxn, TypeOK, HalCfg
<1>5. pc'["web"] = "backup"
  BY <1>1, Gone, Threads
<1>6. DocLevel'
  <2> SUFFICES ASSUME D'.level PROVE DocAt'
    BY DEF DocLevel
  <2>1. Same'
    BY <1>1, <1>4 DEF Same, CacheIs
  <2>2. db' = [D'.db EXCEPT !.moca_enabled = db'.moca_enabled]
    BY <1>1, <1>4, DbFields DEF TypeOK, Db
  <2> QED
    BY <1>1, <1>3, <1>4, <1>5, <2>1, <2>2 DEF DocAt, CacheIs
<1>7. used["syscfg"] = used'["syscfg"]
  BY DEF WebRequest, Spend, SpendAll, Op, TypeOK
<1>8. used'["syscfg"] = 0 /\ bridge' /\ cfg'.KeyPassphrase # NoKey => Off'
  BY <1>1, <1>7 DEF DocParts, OffInBridge, Off
<1> QED
  BY <1>1, <1>4, <1>6, <1>8, DocWebStep

(* What every step of the document starts from. *)
LEMMA DocWebBefore ==
    ASSUME TypeOK, OneFailure', DocParts, [Next]_vars, UNCHANGED <<bridge, split>>,
           pc["web"] # "idle"
    PROVE  /\ pc["bus"] = "idle"
           /\ ~cfg.bSnmpUpdate /\ ~cfg.X_CISCO_COM_Reset /\ db.moca_password_seed # NoKey
           /\ D \in Txn /\ D.result = "pending" /\ (D.level => DocAt)
           /\ used'["syscfg"] = 0 /\ bridge' /\ cfg.KeyPassphrase # NoKey
              => /\ Off
                 /\ pc["web"] \in {"backup", "check", "apply", "rollback"}
                 /\ pc["web"] \in {"check", "apply", "rollback"} => ~g_bMocaEnable_bkup
<1>1. used'["syscfg"] = 0 => used["syscfg"] = 0
  BY Counted DEF Op
<1> QED
  BY <1>1 DEF DocParts, DocOrder, OffInBridge, DocLevel, TypeOK, D

LEMMA DocReply ==
    ASSUME TypeOK, NEW r, Reply("web", r)
    PROVE  /\ D'.hal = D.hal /\ D'.db = D.db /\ D'.want = D.want /\ D'.level = D.level
           /\ D'.result = r
BY DEF TypeOK, Reply, D, Txn

(* Up to the entry in the cache the document has changed nothing. *)
LEMMA DocBackup ==
    ASSUME TypeOK, OneFailure', DocParts, [Next]_vars, UNCHANGED <<bridge, split>>, Backup
    PROVE  DocParts'
<1>1. pc["web"] = "backup" /\ ~Spend("syscfgGet")
  BY NoOtherFailure DEF Backup
<1>2. /\ pc["bus"] = "idle"
      /\ ~cfg.bSnmpUpdate /\ ~cfg.X_CISCO_COM_Reset /\ db.moca_password_seed # NoKey
      /\ D \in Txn /\ D.result = "pending" /\ (D.level => DocAt)
      /\ used'["syscfg"] = 0 /\ bridge' /\ cfg.KeyPassphrase # NoKey => Off
  BY <1>1, DocWebBefore
<1>3. /\ g_bMocaEnable_bkup' = db.moca_enabled /\ Goto("web", "check")
      /\ UNCHANGED <<cfg, doc, bBridge, hal, db, events, back, txn>> /\ D' = D
  BY <1>1 DEF Backup, agentVars, D
<1>4. pc'["web"] = "check"
  BY <1>3, Gone, Threads
<1>5. DocLevel'
  BY <1>1, <1>2, <1>3, <1>4 DEF DocLevel, DocAt, Same, CacheIs, WebPc
<1>6. used'["syscfg"] = 0 /\ bridge' /\ cfg'.KeyPassphrase # NoKey
      => Off' /\ ~g_bMocaEnable_bkup'
  BY <1>2, <1>3 DEF Off
<1> QED
  BY <1>2, <1>3, <1>5, <1>6, DocWebStep DEF WebPc

LEMMA DocCheck ==
    ASSUME TypeOK, OneFailure', DocParts, [Next]_vars, UNCHANGED <<bridge, split>>, Check
    PROVE  DocParts'
<1>1. pc["web"] = "check"
  BY DEF Check
<1>2. /\ pc["bus"] = "idle"
      /\ ~cfg.bSnmpUpdate /\ ~cfg.X_CISCO_COM_Reset /\ db.moca_password_seed # NoKey
      /\ D \in Txn /\ D.result = "pending" /\ (D.level => DocAt)
      /\ used'["syscfg"] = 0 /\ bridge' /\ cfg.KeyPassphrase # NoKey
         => Off /\ ~g_bMocaEnable_bkup
  BY <1>1, DocWebBefore
<1>3. PICK p \in {"rollback", "apply"} : Goto("web", p)
  BY DEF Check
<1>4. UNCHANGED <<cfg, webVars, hal, db, events, back, txn>> /\ D' = D
  BY DEF Check, agentVars, D
<1>5. pc'["web"] = p
  BY <1>3, Gone, Threads
<1>6. DocLevel'
  BY <1>1, <1>2, <1>3, <1>4, <1>5 DEF DocLevel, DocAt, Same, CacheIs, WebPc, webVars
<1>7. used'["syscfg"] = 0 /\ bridge' /\ cfg'.KeyPassphrase # NoKey
      => Off' /\ ~g_bMocaEnable_bkup'
  BY <1>2, <1>4 DEF Off, webVars
<1> QED
  BY <1>2, <1>3, <1>4, <1>6, <1>7, DocWebStep DEF WebPc

(* It is entered in the cache; in bridge mode that switches MoCA off. *)
LEMMA DocApply ==
    ASSUME TypeOK, OneFailure', DocParts, [Next]_vars, UNCHANGED <<bridge, split>>, Apply
    PROVE  DocParts'
<1>1. pc["web"] = "apply"
  BY DEF Apply
<1>2. /\ pc["bus"] = "idle"
      /\ ~cfg.bSnmpUpdate /\ ~cfg.X_CISCO_COM_Reset /\ db.moca_password_seed # NoKey
      /\ D \in Txn /\ D.result = "pending" /\ (D.level => DocAt)
      /\ used'["syscfg"] = 0 /\ bridge' /\ cfg.KeyPassphrase # NoKey
         => Off /\ ~g_bMocaEnable_bkup
  BY <1>1, DocWebBefore
<1>3. /\ bBridge' = bridge /\ bBridge' = bridge'
      /\ cfg'.bEnabled = (doc /\ ~bridge) /\ cfg'.KeyPassphrase = cfg.KeyPassphrase
      /\ ~cfg'.bSnmpUpdate /\ ~cfg'.X_CISCO_COM_Reset
      /\ mocaCfg'["web"].bEnabled = (doc /\ ~bridge)
      /\ mocaCfg'["web"].KeyPassphrase = cfg.KeyPassphrase
      /\ UNCHANGED <<doc, g_bMocaEnable_bkup, hal, db, events, back>>
  BY <1>2, Threads DEF Apply, TypeOK, Cfg
<1>4. D.level => /\ D.db.moca_enabled = D.hal.bEnabled
                 /\ D.want.KeyPassphrase = D.hal.KeyPassphrase
                 /\ hal.KeyPassphrase = D.hal.KeyPassphrase
                 /\ cfg.KeyPassphrase = hal.KeyPassphrase /\ cfg.KeyPassphrase # NoKey
                 /\ db = [D.db EXCEPT !.moca_enabled = db.moca_enabled]
                 /\ hal = D.hal /\ db = D.db /\ cfg.bEnabled = hal.bEnabled
                 /\ doc = D.want.bEnabled /\ g_bMocaEnable_bkup = D.hal.bEnabled
  BY <1>1, <1>2 DEF DocAt, WebPc, Same, CacheIs
<1>b. /\ cfg.bEnabled \in BOOLEAN /\ cfg'.bEnabled \in BOOLEAN /\ doc \in BOOLEAN
      /\ bridge \in BOOLEAN
  BY <1>3 DEF TypeOK, Cfg
<1>5. CASE bridge
  <2>1. PICK p \in {"webHal", "rollback"} :
            Goto("web", p) /\ (p = "webHal" <=> cfg.bEnabled) /\ UNCHANGED txn
    BY <1>5 DEF Apply
  <2>2. pc'["web"] = p /\ D' = D
    BY <2>1, Gone, Threads DEF D
  <2>3. ~cfg'.bEnabled /\ ~mocaCfg'["web"].bEnabled
    BY <1>3, <1>5
  <2>4. CASE p = "webHal"
    <3>1. DocLevel'
      BY <1>2, <1>3, <1>4, <1>b, <1>5, <2>1, <2>2, <2>3, <2>4 DEF DocLevel, DocAt, CacheIs, WebPc
    <3>2. ~(used'["syscfg"] = 0 /\ bridge' /\ cfg'.KeyPassphrase # NoKey)
      BY <1>2, <1>3, <2>1, <2>4 DEF Off
    <3> QED
      BY <1>2, <1>3, <2>1, <2>2, <2>4, <3>1, <3>2, DocWebStep DEF WebPc
  <2>5. CASE p = "rollback"
    <3>1. cfg'.bEnabled = cfg.bEnabled
      BY <1>b, <2>1, <2>3, <2>5
    <3>2. DocLevel'
      BY <1>2, <1>3, <1>4, <2>2, <2>5, <3>1 DEF DocLevel, DocAt, CacheIs, WebPc
    <3>3. used'["syscfg"] = 0 /\ bridge' /\ cfg'.KeyPassphrase # NoKey
          => Off' /\ ~g_bMocaEnable_bkup'
      BY <1>2, <1>3, <3>1 DEF Off
    <3> QED
      BY <1>2, <1>3, <2>1, <2>2, <2>5, <3>2, <3>3, DocWebStep DEF WebPc
  <2> QED
    BY <2>4, <2>5
<1>6. CASE ~bridge /\ cfg.bEnabled = doc
  <2>1. Goto("web", "idle") /\ Reply("web", "done")
    BY <1>6 DEF Apply
  <2>2. pc'["web"] = "idle"
    BY <2>1, Gone, Threads
  <2>3. /\ D'.hal = D.hal /\ D'.db = D.db /\ D'.want = D.want /\ D'.level = D.level
        /\ D'.result = "done"
    BY <2>1, DocReply
  <2>4. D.level => hal = D.want
    BY <1>2, <1>4, <1>6, HalFields DEF TypeOK, Txn
  <2>5. cfg'.bEnabled = cfg.bEnabled
    BY <1>3, <1>b, <1>6
  <2>6. DocLevel'
    BY <1>2, <1>3, <1>4, <2>2, <2>3, <2>4, <2>5 DEF DocLevel, DocAt, CacheIs, WebPc
  <2> QED
    BY <1>2, <1>3, <1>6, <2>1, <2>3, <2>6, DocWebStep
<1>7. CASE ~bridge /\ cfg.bEnabled # doc
  <2>1. Goto("web", "webHal") /\ UNCHANGED txn
    BY <1>7 DEF Apply
  <2>2. pc'["web"] = "webHal" /\ D' = D
    BY <2>1, Gone, Threads DEF D
  <2>3. cfg'.bEnabled = doc /\ mocaCfg'["web"].bEnabled = doc
    BY <1>3, <1>b, <1>7
  <2>4. DocLevel'
    BY <1>2, <1>3, <1>4, <1>7, <2>2, <2>3 DEF DocLevel, DocAt, CacheIs, WebPc
  <2> QED
    BY <1>2, <1>3, <1>7, <2>1, <2>2, <2>4, DocWebStep DEF WebPc
<1> QED
  BY <1>5, <1>6, <1>7

(* The driver has it, ... *)
LEMMA DocWebHal ==
    ASSUME TypeOK, OneFailure', DocParts, [Next]_vars, UNCHANGED <<bridge, split>>, WebHal
    PROVE  DocParts'
<1>1. pc["web"] = "webHal" /\ ~Spend("halSet")
  BY NoOtherFailure DEF WebHal
<1>2. /\ pc["bus"] = "idle"
      /\ ~cfg.bSnmpUpdate /\ ~cfg.X_CISCO_COM_Reset /\ db.moca_password_seed # NoKey
      /\ D \in Txn /\ D.result = "pending" /\ (D.level => DocAt)
      /\ ~(used'["syscfg"] = 0 /\ bridge' /\ cfg.KeyPassphrase # NoKey)
  BY <1>1, DocWebBefore
<1>3. /\ hal' = mocaCfg["web"] /\ Goto("web", "webDb")
      /\ UNCHANGED <<cfg, webVars, db, events, back, txn>> /\ D' = D
  BY <1>1 DEF WebHal, agentVars, D
<1>4. pc'["web"] = "webDb"
  BY <1>3, Gone, Threads
<1>5. DocLevel'
  BY <1>1, <1>2, <1>3, <1>4 DEF DocLevel, DocAt, Same, CacheIs, WebPc, webVars
<1> QED
  BY <1>2, <1>3, <1>5, DocWebStep DEF WebPc

(* ... and syscfg, or the failure of syscfg is the first one.  In bridge    *)
(* mode without such a failure MoCA was off before.                         *)
LEMMA DocWebDb ==
    ASSUME TypeOK, OneFailure', DocParts, [Next]_vars, UNCHANGED <<bridge, split>>, WebDb
    PROVE  DocParts'
<1>1. pc["web"] = "webDb"
  BY DEF WebDb
<1>2. /\ pc["bus"] = "idle"
      /\ ~cfg.bSnmpUpdate /\ ~cfg.X_CISCO_COM_Reset /\ db.moca_password_seed # NoKey
      /\ D \in Txn /\ D.result = "pending" /\ (D.level => DocAt)
      /\ ~(used'["syscfg"] = 0 /\ bridge' /\ cfg.KeyPassphrase # NoKey)
  BY <1>1, DocWebBefore
<1>3. UNCHANGED <<cfg, webVars, hal, events, back>>
  BY DEF WebDb, agentVars
<1>4. D.level => /\ D.db.moca_enabled = D.hal.bEnabled
                 /\ D.want.KeyPassphrase = D.hal.KeyPassphrase
                 /\ cfg.KeyPassphrase # NoKey /\ hal.KeyPassphrase = D.hal.KeyPassphrase
                 /\ CacheIs(hal) /\ db = D.db /\ cfg.bEnabled # D.hal.bEnabled
                 /\ g_bMocaEnable_bkup = D.hal.bEnabled
                 /\ bBridge = bridge /\ (bBridge \/ cfg.bEnabled = D.want.bEnabled)
                 /\ db = [D.db EXCEPT !.moca_enabled = db.moca_enabled]
  BY <1>1, <1>2 DEF DocAt, WebPc
<1>5. /\ cfg.bEnabled \in BOOLEAN /\ hal \in HalCfg /\ db \in Db /\ bBridge \in BOOLEAN
      /\ bridge \in BOOLEAN /\ D.hal \in HalCfg /\ D.want \in HalCfg /\ D.db \in Db
  BY <1>2 DEF TypeOK, Cfg, Txn
<1>6. CASE /\ db' = [db EXCEPT !.moca_enabled = cfg.bEnabled] /\ bBridge
           /\ Goto("web", "rollback") /\ UNCHANGED <<used, txn>>
  <2>1. pc'["web"] = "rollback" /\ D' = D
    BY <1>6, Gone, Threads DEF D
  <2>2. D.level => used'["syscfg"] = 1
    BY <1>2, <1>4, <1>6, OneOrNone
  <2>3. D.level => db' = [D.db EXCEPT !.moca_enabled = db'.moca_enabled]
    BY <1>4, <1>5, <1>6, DbFields
  <2>4. DocLevel'
    BY <1>2, <1>3, <1>4, <2>1, <2>2, <2>3 DEF DocLevel, DocAt, CacheIs, WebPc, webVars
  <2>5. db'.moca_password_seed = db.moca_password_seed
    BY <1>5, <1>6, DbFields
  <2> QED
    BY <1>2, <1>3, <1>6, <2>1, <2>4, <2>5, DocWebStep DEF WebPc
<1>7. CASE /\ db' = [db EXCEPT !.moca_enabled = cfg.bEnabled] /\ ~bBridge
           /\ Goto("web", "idle") /\ Reply("web", "done")
  <2>1. pc'["web"] = "idle"
    BY <1>7, Gone, Threads
  <2>2. /\ D'.hal = D.hal /\ D'.db = D.db /\ D'.want = D.want /\ D'.level = D.level
        /\ D'.result = "done"
    BY <1>7, DocReply
  <2>3. D.level => hal = D.want
    BY <1>4, <1>5, <1>7, HalFields DEF CacheIs
  <2>4. D.level => db' = [D.db EXCEPT !.moca_enabled = db'.moca_enabled]
    BY <1>4, <1>5, <1>7, DbFields
  <2>5. db'.moca_password_seed = db.moca_password_seed /\ db'.moca_enabled = cfg.bEnabled
    BY <1>5, <1>7, DbFields
  <2>6. DocLevel'
    BY <1>2, <1>3, <1>4, <1>7, <2>1, <2>2, <2>3, <2>4, <2>5
    DEF DocLevel, DocAt, CacheIs, WebPc, webVars
  <2> QED
    BY <1>2, <1>3, <1>7, <2>2, <2>5, <2>6, DocWebStep
<1>8. CASE Spend("syscfg") /\ Goto("web", "rollback") /\ UNCHANGED <<db, txn>>
  <2>1. pc'["web"] = "rollback" /\ D' = D
    BY <1>8, Gone, Threads DEF D
  <2>2. used'["syscfg"] = 1
    BY <1>8, FirstFailure
  <2>3. DocLevel'
    BY <1>2, <1>3, <1>4, <1>8, <2>1, <2>2 DEF DocLevel, DocAt, CacheIs, WebPc, webVars
  <2> QED
    BY <1>2, <1>3, <1>8, <2>1, <2>2, <2>3, DocWebStep DEF WebPc
<1> QED
  BY <1>6, <1>7, <1>8 DEF WebDb

(* The rollback changes only what a failure of syscfg has left. *)
LEMMA DocRollback ==
    ASSUME TypeOK, OneFailure', DocParts, [Next]_vars, UNCHANGED <<bridge, split>>,
           rollback_moca_conf
    PROVE  DocParts'
<1>1. pc["web"] = "rollback" /\ ~Spend("halGet")
  BY NoOtherFailure DEF rollback_moca_conf
<1>2. /\ pc["bus"] = "idle"
      /\ ~cfg.bSnmpUpdate /\ ~cfg.X_CISCO_COM_Reset /\ db.moca_password_seed # NoKey
      /\ D \in Txn /\ D.result = "pending" /\ (D.level => DocAt)
      /\ used'["syscfg"] = 0 /\ bridge' /\ cfg.KeyPassphrase # NoKey
         => Off /\ ~g_bMocaEnable_bkup
  BY <1>1, DocWebBefore
<1>3. /\ UNCHANGED <<cfg, webVars, hal, db, used, events, back>>
      /\ mocaCfg'["web"] = [hal EXCEPT !.bEnabled = g_bMocaEnable_bkup]
  BY <1>1, Threads DEF rollback_moca_conf, agentVars, TypeOK
<1>4. D.level => /\ D.db.moca_enabled = D.hal.bEnabled
                 /\ D.want.KeyPassphrase = D.hal.KeyPassphrase
                 /\ cfg.KeyPassphrase # NoKey /\ hal.KeyPassphrase = D.hal.KeyPassphrase
                 /\ CacheIs(hal) /\ g_bMocaEnable_bkup = D.hal.bEnabled
                 /\ IF hal = D.hal THEN db = D.db ELSE used["syscfg"] = 1
                 /\ db = [D.db EXCEPT !.moca_enabled = db.moca_enabled]
  BY <1>1, <1>2 DEF DocAt, WebPc
<1>5. /\ hal \in HalCfg /\ D.hal \in HalCfg /\ g_bMocaEnable_bkup \in BOOLEAN
  BY <1>2 DEF TypeOK, Txn
<1>6. CASE g_bMocaEnable_bkup = hal.bEnabled
  <2>1. Goto("web", "idle") /\ Reply("web", "failed")
    BY <1>1, <1>6 DEF rollback_moca_conf
  <2>2. pc'["web"] = "idle"
    BY <2>1, Gone, Threads
  <2>3. /\ D'.hal = D.hal /\ D'.db = D.db /\ D'.want = D.want /\ D'.level = D.level
        /\ D'.result = "failed"
    BY <2>1, DocReply
  <2>4. D.level => hal = D.hal /\ db = D.db
    BY <1>4, <1>5, <1>6, HalFields
  <2>5. DocLevel'
    <3> SUFFICES ASSUME D.level PROVE DocAt'
      BY <2>3 DEF DocLevel
    <3>1. hal' = D.hal /\ db' = D.db /\ CacheIs(hal)'
      BY <1>3, <1>4, <2>4 DEF CacheIs
    <3> QED
      BY <1>3, <1>4, <2>2, <2>3, <3>1 DEF DocAt, Same, CacheIs, WebPc
  <2>6. used'["syscfg"] = 0 /\ bridge' /\ cfg'.KeyPassphrase # NoKey => Off'
    BY <1>2, <1>3 DEF Off
  <2> QED
    BY <1>2, <1>3, <2>1, <2>3, <2>5, <2>6, DocWebStep
<1>7. CASE g_bMocaEnable_bkup # hal.bEnabled
  <2>1. Goto("web", "rollHal") /\ UNCHANGED txn
    BY <1>1, <1>7 DEF rollback_moca_conf
  <2>2. pc'["web"] = "rollHal" /\ D' = D
    BY <2>1, Gone, Threads DEF D
  <2>3. D.level => used["syscfg"] = 1 /\ mocaCfg'["web"] = D.hal
    <3> SUFFICES ASSUME D.level PROVE used["syscfg"] = 1 /\ mocaCfg'["web"] = D.hal
      OBVIOUS
    <3>1. used["syscfg"] = 1
      BY <1>4, <1>7
    <3>2. /\ mocaCfg'["web"] \in HalCfg /\ mocaCfg'["web"].bEnabled = D.hal.bEnabled
          /\ mocaCfg'["web"].KeyPassphrase = D.hal.KeyPassphrase
      BY <1>3, <1>4, <1>5, HalFields
    <3> QED
      BY <1>5, <3>1, <3>2, HalFields
  <2>4. DocLevel'
    <3> SUFFICES ASSUME D.level PROVE DocAt'
      BY <2>2 DEF DocLevel
    <3>1. UNCHANGED <<db, hal, used, g_bMocaEnable_bkup>> /\ CacheIs(hal)' /\ D.result = "pending"
      BY <1>2, <1>3, <1>4 DEF CacheIs, webVars
    <3> QED
      BY <1>3, <1>4, <2>2, <2>3, <3>1 DEF DocAt, CacheIs, WebPc
  <2>5. ~(used'["syscfg"] = 0 /\ bridge' /\ cfg'.KeyPassphrase # NoKey)
    BY <1>2, <1>3, <1>5, <1>7 DEF Off, HalCfg
  <2> QED
    BY <1>2, <1>3, <2>1, <2>2, <2>4, <2>5, DocWebStep DEF WebPc
<1> QED
  BY <1>6, <1>7

LEMMA DocRollHal ==
    ASSUME TypeOK, OneFailure', DocParts, [Next]_vars, UNCHANGED <<bridge, split>>, RollHal
    PROVE  DocParts'
<1>1. pc["web"] = "rollHal" /\ ~Spend("halSet")
  BY NoOtherFailure DEF RollHal
<1>2. /\ pc["bus"] = "idle"
      /\ ~cfg.bSnmpUpdate /\ ~cfg.X_CISCO_COM_Reset /\ db.moca_password_seed # NoKey
      /\ D \in Txn /\ D.result = "pending" /\ (D.level => DocAt)
      /\ ~(used'["syscfg"] = 0 /\ bridge' /\ cfg.KeyPassphrase # NoKey)
  BY <1>1, DocWebBefore
<1>3. /\ hal' = mocaCfg["web"] /\ cfg' = [cfg EXCEPT !.bEnabled = g_bMocaEnable_bkup]
      /\ Goto("web", "rollDb")
      /\ UNCHANGED <<webVars, db, used, events, back, txn>> /\ D' = D
  BY <1>1 DEF RollHal, D
<1>4. /\ cfg'.bEnabled = g_bMocaEnable_bkup /\ cfg'.KeyPassphrase = cfg.KeyPassphrase
      /\ ~cfg'.bSnmpUpdate /\ ~cfg'.X_CISCO_COM_Reset
  BY <1>2, <1>3 DEF TypeOK, Cfg
<1>5. pc'["web"] = "rollDb"
  BY <1>3, Gone, Threads
<1>6. D.level => /\ D.db.moca_enabled = D.hal.bEnabled
                 /\ D.want.KeyPassphrase = D.hal.KeyPassphrase
                 /\ cfg.KeyPassphrase # NoKey /\ cfg.KeyPassphrase = D.hal.KeyPassphrase
                 /\ g_bMocaEnable_bkup = D.hal.bEnabled /\ hal' = D.hal /\ used["syscfg"] = 1
                 /\ db = [D.db EXCEPT !.moca_enabled = db.moca_enabled]
  BY <1>1, <1>2, <1>3 DEF DocAt, WebPc
<1>7. DocLevel'
  BY <1>2, <1>3, <1>4, <1>5, <1>6 DEF DocLevel, DocAt, CacheIs, WebPc, webVars
<1> QED
  BY <1>2, <1>3, <1>4, <1>7, DocWebStep DEF WebPc

LEMMA DocRollDb ==
    ASSUME TypeOK, OneFailure', DocParts, [Next]_vars, UNCHANGED <<bridge, split>>, RollDb
    PROVE  DocParts'
<1>1. pc["web"] = "rollDb"
  BY DEF RollDb
<1>2. /\ pc["bus"] = "idle"
      /\ ~cfg.bSnmpUpdate /\ ~cfg.X_CISCO_COM_Reset /\ db.moca_password_seed # NoKey
      /\ D \in Txn /\ D.result = "pending" /\ (D.level => DocAt)
      /\ ~(used'["syscfg"] = 0 /\ bridge' /\ cfg.KeyPassphrase # NoKey)
  BY <1>1, DocWebBefore
<1>3. /\ \/ db' = [db EXCEPT !.moca_enabled = cfg.bEnabled]
         \/ Spend("syscfg") /\ db' = db
      /\ Goto("web", "idle") /\ Reply("web", "failed")
      /\ UNCHANGED <<cfg, webVars, hal, events, back>>
  BY DEF RollDb, agentVars
<1>4. pc'["web"] = "idle"
  BY <1>3, Gone, Threads
<1>5. /\ D'.hal = D.hal /\ D'.db = D.db /\ D'.want = D.want /\ D'.level = D.level
      /\ D'.result = "failed"
  BY <1>3, DocReply
<1>6. /\ cfg.bEnabled \in BOOLEAN /\ db \in Db /\ D.db \in Db
  BY <1>2 DEF TypeOK, Cfg, Txn
<1>7. D.level => /\ D.db.moca_enabled = D.hal.bEnabled
                 /\ D.want.KeyPassphrase = D.hal.KeyPassphrase
                 /\ cfg.KeyPassphrase # NoKey /\ hal = D.hal /\ CacheIs(hal)
                 /\ db = [D.db EXCEPT !.moca_enabled = db.moca_enabled] /\ used["syscfg"] = 1
  BY <1>1, <1>2 DEF DocAt, WebPc
<1>8. D.level => db' = D.db
  <2> SUFFICES ASSUME D.level PROVE db' = D.db
    OBVIOUS
  <2>1. ~Spend("syscfg")
    BY <1>7, FirstFailure
  <2>2. db' = [D.db EXCEPT !.moca_enabled = cfg.bEnabled]
    BY <1>3, <1>6, <1>7, <2>1, DbFields
  <2> QED
    BY <1>6, <1>7, <2>2, DbFields DEF CacheIs
<1>9. DocLevel'
  <2>1. D.level => db' = [D.db EXCEPT !.moca_enabled = db'.moca_enabled]
    BY <1>6, <1>8, DbFields DEF Db
  <2> QED
    BY <1>2, <1>3, <1>4, <1>5, <1>7, <1>8, <2>1
    DEF DocLevel, DocAt, Same, CacheIs, WebPc, webVars
<1>10. db'.moca_password_seed = db.moca_password_seed
  BY <1>3, <1>6 DEF Db
<1> QED
  BY <1>2, <1>3, <1>5, <1>9, <1>10, DocWebStep

LEMMA DocStutter == DocParts /\ UNCHANGED vars => DocParts'
<1> SUFFICES ASSUME DocParts, UNCHANGED vars PROVE DocParts'
  OBVIOUS
<1>1. UNCHANGED <<cfg, is_moca_available, moca_enable_db, hal, db, bridge, split, events, pc, back,
                  mocaCfg, doc, bBridge, g_bMocaEnable_bkup, used, txn>>
  BY DEF vars, agentVars, envVars, ctlVars, webVars
<1>2. DocOrder' /\ BootLevel' /\ OffInBridge'
  BY <1>1 DEF DocParts, DocOrder, BootLevel, OffInBridge, Off, Routing, CacheIs, D
<1>3. DocLevel'
  BY <1>1 DEF DocParts, DocLevel, DocAt, Same, CacheIs, D
<1> QED
  BY <1>2, <1>3 DEF DocParts

LEMMA DocStep == TypeOK /\ DocInv /\ [Next]_vars => DocInv'
<1> SUFFICES ASSUME TypeOK, DocInv, [Next]_vars, OneFailure' PROVE DocParts'
  BY DEF DocInv, DocParts
<1>1. DocParts
  <2>1. used["syscfg"] <= 1
    BY OneOrNone
  <2> QED
    BY <2>1, Backwards DEF OneFailure, DocInv, DocParts
<1>2. OnlyUsed(DocAllowed)'
  BY DEF OneFailure
<1>3. /\ ~ModeChange /\ ~Restart /\ ~Snmp /\ ~Get /\ ~SetProvisioning
      /\ \A v : ~SetDefault(v) /\ ~SetForce(v) /\ ~SetKey(v) /\ ~SetNumber(v) /\ ~Reset(v)
  BY <1>2, Excluded DEF DocAllowed
<1>4. UNCHANGED <<bridge, split>>
  BY <1>3, EnvKept
<1>5. \A t \in {"sys", "snmp"} \cup Resetter : pc[t] = "idle"
  BY <1>1, Threads, MoCAConfigAssumption DEF DocParts, DocOrder
<1>6. /\ ~CosaDmlMocaIfSetCfg("sys") /\ ~CosaDmlMocaIfGetCfg("sys") /\ ~Event /\ ~Notify
      /\ \A r \in Resetter : ~CosaDmlMocaIfReset(r)
  BY <1>1, <1>5, NothingToDo, Threads DEF DocParts, DocOrder
<1>7. ~TxnOpen
  BY <1>2, SpentOneOf DEF TxnOpen, DocAllowed, Op
<1>8. /\ ~Finish /\ ~Rollback /\ \A v : ~SetEnable(v)
  BY <1>1 DEF Finish, Rollback, SetEnable, DocParts, DocOrder, BootPc, SetPc, GetPc
<1>9. CASE Boot \/ BootCheck \/ BootForce \/ CosaDmlMocaIfSetCfg("bus") \/ CosaDmlMocaIfGetCfg("bus")
  BY <1>1, <1>4, <1>9, DocBootRest, DocBootSet, DocBootGet
<1>10. ASSUME NEW blob \in Blob, WebRequest(blob) PROVE DocParts'
  BY <1>1, <1>4, <1>10, DocRequest
<1>11. CASE Process_Moca_WebConfigRequest
  BY <1>1, <1>4, <1>11, DocBackup, DocCheck, DocApply, DocWebHal, DocWebDb, DocRollback,
     DocRollHal, DocRollDb DEF Process_Moca_WebConfigRequest
<1> QED
  BY <1>1, <1>3, <1>6, <1>7, <1>8, <1>9, <1>10, <1>11, DocStutter DEF Next, Work, Ask, Environment

LEMMA DocInit == Init => DocInv
<1> SUFFICES ASSUME Init PROVE DocParts
  BY DEF DocInv, DocParts
<1>1. /\ pc["bus"] = "boot" /\ back["bus"] = "none" /\ D.result = "none" /\ pc["web"] = "idle"
      /\ \A t \in Thread \ {"bus"} : pc[t] = "idle"
  BY Threads DEF Init, D, NoTxn
<1>2. db.moca_password_seed # NoKey /\ hal.KeyPassphrase = db.moca_password_seed
  BY MoCAConfigAssumption DEF Init
<1> QED
  BY <1>1, <1>2 DEF Init, DocParts, DocOrder, BootLevel, OffInBridge, DocLevel, CfgZeroed, BootPc,
     SetPc, GetPc

(* A document that is answered with a failure has changed neither cache nor *)
(* driver nor syscfg, and one that is answered with success has changed what *)
(* it says, for any number of documents of any shape, in bridge mode and     *)
(* high split, whatever the bus says of the mode, if syscfg fails at most    *)
(* once (README.md: "atomic configuration updates", "Supports rollback on    *)
(* partial failure").                                                        *)
THEOREM DocumentsAreWhole == Spec => []DocAllOrNothing
<1>1. Init => TypeOK /\ DocInv
  BY TypeInit, DocInit
<1>2. TypeOK /\ DocInv /\ [Next]_vars => TypeOK' /\ DocInv'
  BY TypeStep, DocStep
<1>3. DocInv => DocAllOrNothing
  BY DEF DocInv, DocLevel, DocAt, Same, D, OneFailure, DocAllowed, DocAllOrNothing
<1> QED
  BY <1>1, <1>2, <1>3, PTL DEF Spec

=============================================================================
