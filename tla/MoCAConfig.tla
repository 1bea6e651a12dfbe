----------------------------- MODULE MoCAConfig -----------------------------
(***************************************************************************)
(* The configuration of the MoCA interface: the agent's cached Cfg, the    *)
(* driver behind the HAL, and syscfg.  Four kinds of thread work on them   *)
(* without a lock: the message bus thread (TR-181 transactions, reads),    *)
(* the WebConfig thread (one document at a time), threads that reset the   *)
(* interface, and the sysevent thread that learns of changes made over     *)
(* SNMP.                                                                   *)
(*                                                                         *)
(* Of the parameters two are kept, bEnabled and KeyPassphrase: the first   *)
(* is guarded, reconciled and rolled back, the second stands for all that  *)
(* are only copied.  A step is what a thread does from one call of the     *)
(* HAL, of syscfg or of the bus to the next.                               *)
(***************************************************************************)
EXTENDS Naturals, FiniteSets, MoCADoc

CONSTANTS
    Key,        \* key passphrases
    ValidKey,   \* those that Interface1_Validate lets pass
    NoKey,      \* the empty string
    Resetter,   \* threads that MoCAReset may have running
    Budget      \* bound: how often each of Op happens; a member is a scenario

(* What others ask of the agent, and what may fail: of syscfg a write       *)
(* ("syscfg") or the read of a value ("syscfgGet").                         *)
Op == {"txn", "set", "enable", "key", "number", "default", "force", "provision", "get",
       "reset", "web",
       "snmp", "bridge", "split", "equip", "restart",
       "halSet", "halGet", "syscfg", "syscfgGet", "lanMode"}

ASSUME MoCAConfigAssumption ==
    /\ ValidKey \subseteq Key /\ ValidKey # {}
    /\ NoKey \in Key \ ValidKey
    /\ Resetter \cap {"bus", "web", "sys", "snmp"} = {}
    /\ Budget \subseteq [Op -> Nat]

Thread == {"bus", "web", "sys", "snmp"} \cup Resetter

VARIABLES
    cfg,                \* MoCAIfFullTable[0].MoCAIfFull.Cfg
    bForceEnabled,      \* in MoCACfg
    moca_enable_db,     \* moca_enabled as last read
    is_moca_available,
    g_bMocaEnable_bkup,
    hal,                \* the driver's configuration
    db,                 \* syscfg
    equipped, bridge, split, video,     \* the hardware, bridge_mode,
                        \* cm_diplexer_mode is high_split, VIDEOSERVICE is on
    events,             \* notifications of moca_updated not received yet
    pc, back,           \* per thread: control point, caller of the routine
    mocaCfg,            \* per thread: the local moca_cfg_t
    touched,            \* objects with a value set in the transaction
    doc, bBridge,       \* of set_moca_conf
    used,               \* how often each of Op happened
    txn,                \* history: state before, values asked for, and result
    wish                \* history: what was last set over SNMP

agentVars == <<cfg, bForceEnabled, moca_enable_db, is_moca_available>>
envVars == <<equipped, bridge, split, video>>
webVars == <<doc, bBridge, g_bMocaEnable_bkup>>
ctlVars == <<pc, back, mocaCfg, touched>>
vars == <<agentVars, webVars, hal, db, envVars, events, ctlVars, used, txn, wish>>

-----------------------------------------------------------------------------
HalCfg == [bEnabled : BOOLEAN, KeyPassphrase : Key]

Cfg == [bEnabled : BOOLEAN, KeyPassphrase : Key, X_CISCO_COM_Reset : BOOLEAN,
        bSnmpUpdate : BOOLEAN]

Db == [moca_enabled : BOOLEAN, moca_password_seed : Key, ForceEnable : BOOLEAN]

Object == {"MoCA", "Interface"}

BootPc == {"boot", "bootCheck", "bootForce"}

SetPc == {"setCfg", "setHal", "setDb", "setSeed"}

GetPc == {"getCfg", "getHal", "putHal", "putDb"}

WebPc == {"backup", "check", "apply", "webHal", "webDb", "rollback", "rollHal", "rollDb"}

ResetPc == {"start", "snapshot", "offHal", "offDb", "delay", "onHal", "onDb"}

Pc == {"idle", "open", "notify"} \cup BootPc \cup SetPc \cup GetPc \cup WebPc \cup ResetPc

Caller == {"none", "bootGet", "bootSet", "commit", "force", "discard", "undo", "get",
           "event"}

Txn == [hal : HalCfg, db : Db, want : HalCfg, level : BOOLEAN,
        result : {"none", "pending", "done", "failed"}]

TypeOK ==
    /\ cfg \in Cfg /\ hal \in HalCfg /\ db \in Db
    /\ bForceEnabled \in BOOLEAN /\ moca_enable_db \in BOOLEAN
    /\ is_moca_available \in BOOLEAN
    /\ equipped \in BOOLEAN /\ bridge \in BOOLEAN /\ split \in BOOLEAN /\ video \in BOOLEAN
    /\ events \in Nat
    /\ pc \in [Thread -> Pc] /\ back \in [Thread -> Caller]
    /\ mocaCfg \in [Thread -> HalCfg]
    /\ touched \in SUBSET Object
    /\ doc \in BOOLEAN /\ bBridge \in BOOLEAN /\ g_bMocaEnable_bkup \in BOOLEAN
    /\ used \in [Op -> Nat]
    /\ txn \in [{"bus", "web"} -> Txn]
    /\ wish \in BOOLEAN

Zeroed == [bEnabled |-> FALSE, KeyPassphrase |-> NoKey]

CfgZeroed == [bEnabled |-> FALSE, KeyPassphrase |-> NoKey, X_CISCO_COM_Reset |-> FALSE,
              bSnmpUpdate |-> FALSE]

CacheIs(h) == cfg.bEnabled = h.bEnabled /\ cfg.KeyPassphrase = h.KeyPassphrase

NoTxn == [hal |-> hal, db |-> db, want |-> hal,
          level |-> CacheIs(hal) /\ db.moca_enabled = hal.bEnabled
                    /\ db.moca_password_seed = hal.KeyPassphrase,
          result |-> "none"]

Init ==
    /\ cfg = CfgZeroed
    /\ bForceEnabled = FALSE /\ moca_enable_db = FALSE /\ is_moca_available = FALSE
    /\ g_bMocaEnable_bkup = FALSE
    /\ db \in Db /\ db.moca_password_seed \in ValidKey
    /\ db.ForceEnable => db.moca_enabled
    /\ hal \in [bEnabled : BOOLEAN, KeyPassphrase : {db.moca_password_seed}]
    /\ equipped \in BOOLEAN /\ ((\A b \in Budget : b["equip"] = 0) => equipped)
    /\ bridge \in BOOLEAN /\ split \in BOOLEAN /\ video \in BOOLEAN
    /\ events = 0
    /\ pc = [t \in Thread |-> IF t = "bus" THEN "boot" ELSE "idle"]
    /\ back = [t \in Thread |-> "none"]
    /\ mocaCfg = [t \in Thread |-> Zeroed]
    /\ touched = {}
    /\ doc = FALSE /\ bBridge = FALSE
    /\ used = [o \in Op |-> 0]
    /\ txn = [t \in {"bus", "web"} |-> NoTxn]
    /\ wish = hal.bEnabled

-----------------------------------------------------------------------------
SpendAll(ops) ==
    /\ used' = [o \in Op |-> IF o \in ops THEN used[o] + 1 ELSE used[o]]
    /\ \E b \in Budget : \A o \in Op : used'[o] <= b[o]

Spend(o) == SpendAll({o})

OnlyUsed(ops) == \A o \in Op \ ops : used[o] = 0

Goto(t, p) == pc' = [pc EXCEPT ![t] = p]

Booted == pc["bus"] \notin BootPc /\ back["bus"] \notin {"bootGet", "bootSet"}

Routing == ~bridge /\ ~split

(* JUDGE_MOCA_HARDWARE_AVAILABLE: the hardware is looked for again only     *)
(* while moca_enable_db says that MoCA is enabled.                          *)
Available == is_moca_available \/ (moca_enable_db /\ equipped)

Judge == is_moca_available' = Available

(* A thread calls CosaDmlMocaIfSetCfg or CosaDmlMocaIfGetCfg. *)
Call(t, routine, caller) ==
    Goto(t, routine) /\ back' = [back EXCEPT ![t] = caller]

Reply(t, result) == txn' = [txn EXCEPT ![t].result = result]

(* The routine returns to its caller.  Interface1_Commit rolls back when    *)
(* CosaDmlMocaIfSetCfg fails; MoCA_SetForceEnable and the others ignore it. *)
NoDiscard(t, ok) ==                                                 \* mutant
    /\ back' = [back EXCEPT ![t] = "none"]
    /\ CASE back[t] = "bootGet" -> Goto(t, "bootCheck") /\ UNCHANGED txn
         [] back[t] = "bootSet" -> Goto(t, "bootForce") /\ UNCHANGED txn
         [] back[t] = "force" -> Goto(t, "open") /\ UNCHANGED txn
         [] back[t] = "commit" -> /\ Goto(t, "idle")
                                  /\ Reply(t, IF ok THEN "done" ELSE "failed")
         [] back[t] \in {"discard", "undo"} -> Goto(t, "idle") /\ Reply(t, "failed")
         [] OTHER -> Goto(t, "idle") /\ UNCHANGED txn

Return(t, ok) ==
    IF back[t] = "commit" /\ ~ok
    THEN Call(t, "getCfg", "discard") /\ UNCHANGED txn
    ELSE /\ back' = [back EXCEPT ![t] = "none"]
         /\ CASE back[t] = "bootGet" -> Goto(t, "bootCheck") /\ UNCHANGED txn
              [] back[t] = "bootSet" -> Goto(t, "bootForce") /\ UNCHANGED txn
              [] back[t] = "force" -> Goto(t, "open") /\ UNCHANGED txn
              [] back[t] = "commit" -> Goto(t, "idle") /\ Reply(t, "done")
              [] back[t] \in {"discard", "undo"} -> Goto(t, "idle") /\ Reply(t, "failed")
              [] OTHER -> Goto(t, "idle") /\ UNCHANGED txn

-----------------------------------------------------------------------------
(* CosaDmlMocaIfSetCfg: what is put together from pCfg for the driver.  A   *)
(* reset to defaults enables MoCA whatever pCfg and the bridge mode say.    *)
Build ==
    [bEnabled |-> cfg.X_CISCO_COM_Reset \/ (cfg.bEnabled /\ Routing),
     KeyPassphrase |-> cfg.KeyPassphrase]

SetCfg(t) ==
    /\ pc[t] = "setCfg"
    /\ Judge
    /\ IF Available
       THEN /\ mocaCfg' = [mocaCfg EXCEPT ![t] = Build]
            /\ cfg' = IF cfg.X_CISCO_COM_Reset THEN cfg
                      ELSE [cfg EXCEPT !.bEnabled = @ /\ Routing]
            /\ Goto(t, "setHal")
            /\ UNCHANGED <<back, txn>>
       ELSE Return(t, FALSE) /\ UNCHANGED <<cfg, mocaCfg>>
    /\ UNCHANGED <<bForceEnabled, moca_enable_db, webVars, hal, db, envVars, events,
                   touched, used, wish>>

(* moca_SetIfConfig *)
SetHal(t) ==
    /\ pc[t] = "setHal"
    /\ \/ /\ hal' = mocaCfg[t]
          /\ Goto(t, "setDb")
          /\ UNCHANGED <<used, back, txn>>
       \/ /\ Spend("halSet")
          /\ Return(t, FALSE)
          /\ UNCHANGED hal
    /\ UNCHANGED <<agentVars, webVars, db, envVars, events, mocaCfg, touched, wish>>

(* moca_enabled is written from pCfg, as it is now; failures are logged. *)
SetDb(t) ==
    /\ pc[t] = "setDb"
    /\ \/ db' = [db EXCEPT !.moca_enabled = cfg.bEnabled] /\ UNCHANGED used
       \/ Spend("syscfg") /\ UNCHANGED db
    /\ Goto(t, "setSeed")
    /\ UNCHANGED <<agentVars, webVars, hal, envVars, events, back, mocaCfg, touched,
                   txn, wish>>

SetSeed(t) ==
    /\ pc[t] = "setSeed"
    /\ \/ /\ db' = IF cfg.KeyPassphrase = NoKey THEN db
                   ELSE [db EXCEPT !.moca_password_seed = cfg.KeyPassphrase]
          /\ UNCHANGED used
       \/ cfg.KeyPassphrase # NoKey /\ Spend("syscfg") /\ UNCHANGED db
    /\ Return(t, TRUE)
    /\ UNCHANGED <<agentVars, webVars, hal, envVars, events, mocaCfg, touched, wish>>

CosaDmlMocaIfSetCfg(t) == SetCfg(t) \/ SetHal(t) \/ SetDb(t) \/ SetSeed(t)

-----------------------------------------------------------------------------
(* CosaDmlMocaIfGetCfg.  If moca_enabled cannot be read, moca_enable_db     *)
(* stays what it was at the last read.                                      *)
GetCfg(t) ==
    /\ pc[t] = "getCfg"
    /\ Judge
    /\ IF Available
       THEN /\ \/ moca_enable_db' = db.moca_enabled /\ UNCHANGED used
               \/ Spend("syscfgGet") /\ UNCHANGED moca_enable_db
            /\ Goto(t, "getHal")
            /\ UNCHANGED <<back, txn>>
       ELSE Return(t, FALSE) /\ UNCHANGED <<moca_enable_db, used>>
    /\ UNCHANGED <<cfg, bForceEnabled, webVars, hal, db, envVars, events, mocaCfg,
                   touched, wish>>

(* The driver's values, copied at the end; no driver has Reset pending. *)
Copied(h) ==
    [cfg EXCEPT !.bEnabled = h.bEnabled, !.KeyPassphrase = h.KeyPassphrase,
                !.X_CISCO_COM_Reset = FALSE]

(* moca_GetIfConfig, and the comparison of the driver with syscfg. *)
GetHalTrusted(t) ==                                                 \* mutant
    /\ pc[t] = "getHal"
    /\ mocaCfg' = [mocaCfg EXCEPT ![t] = hal]
    /\ cfg' = Copied(hal) /\ Return(t, TRUE)
    /\ UNCHANGED <<bForceEnabled, moca_enable_db, is_moca_available, webVars, hal, db,
                   envVars, events, touched, used, wish>>

GetHal(t) ==
    /\ pc[t] = "getHal"
    /\ \/ /\ mocaCfg' = [mocaCfg EXCEPT ![t] = hal]
          /\ IF moca_enable_db = hal.bEnabled
             THEN cfg' = Copied(hal) /\ Return(t, TRUE)
             ELSE /\ cfg' = [cfg EXCEPT !.bEnabled = hal.bEnabled]
                  /\ Goto(t, IF cfg.bSnmpUpdate THEN "putDb" ELSE "putHal")
                  /\ UNCHANGED <<back, txn>>
          /\ UNCHANGED used
       \/ /\ Spend("halGet")
          /\ Return(t, FALSE)
          /\ UNCHANGED <<cfg, mocaCfg>>
    /\ UNCHANGED <<bForceEnabled, moca_enable_db, is_moca_available, webVars, hal, db,
                   envVars, events, touched, wish>>

(* "syscfg db and moca driver value are not in sync": what was last read of *)
(* syscfg wins.                                                             *)
PutHal(t) ==
    /\ pc[t] = "putHal"
    /\ LET put == [mocaCfg[t] EXCEPT !.bEnabled = moca_enable_db]
       IN \/ /\ hal' = put /\ cfg' = Copied(put)
             /\ Return(t, TRUE)
             /\ UNCHANGED used
          \/ /\ Spend("halSet")
             /\ Return(t, FALSE)
             /\ UNCHANGED <<hal, cfg>>
    /\ UNCHANGED <<bForceEnabled, moca_enable_db, is_moca_available, webVars, db,
                   envVars, events, mocaCfg, touched, wish>>

(* After an update over SNMP the driver wins. *)
PutDb(t) ==
    /\ pc[t] = "putDb"
    /\ \/ db' = [db EXCEPT !.moca_enabled = cfg.bEnabled] /\ UNCHANGED used
       \/ Spend("syscfg") /\ UNCHANGED db
    /\ cfg' = [cfg EXCEPT !.KeyPassphrase = mocaCfg[t].KeyPassphrase,
                          !.X_CISCO_COM_Reset = FALSE, !.bSnmpUpdate = FALSE]
    /\ Return(t, TRUE)
    /\ UNCHANGED <<bForceEnabled, moca_enable_db, is_moca_available, webVars, hal,
                   envVars, events, mocaCfg, touched, wish>>

CosaDmlMocaIfGetCfg(t) == GetCfg(t) \/ GetHal(t) \/ PutHal(t) \/ PutDb(t)

-----------------------------------------------------------------------------
(* The hardware is looked for, and moca_enabled is read for the first time: *)
(* before, moca_enable_db is 0xFF, which counts as FALSE.                   *)
CosaDmlMocaInit ==
    is_moca_available' = equipped /\ moca_enable_db' = db.moca_enabled

(* CosaMoCAInitialize, on the thread that will serve the bus. *)
Boot ==
    /\ pc["bus"] = "boot"
    /\ CosaDmlMocaInit
    /\ cfg' = CfgZeroed
    /\ IF equipped THEN Call("bus", "getCfg", "bootGet")
       ELSE Goto("bus", "bootForce") /\ UNCHANGED back
    /\ UNCHANGED <<bForceEnabled, webVars, hal, db, envVars, events, mocaCfg, touched,
                   used, txn, wish>>

(* MoCA is switched off in bridge mode and in high split. *)
BootCheck ==
    /\ pc["bus"] = "bootCheck"
    /\ IF cfg.bEnabled /\ ~Routing THEN Call("bus", "setCfg", "bootSet")
       ELSE Goto("bus", "bootForce") /\ UNCHANGED back
    /\ UNCHANGED <<agentVars, webVars, hal, db, envVars, events, mocaCfg, touched,
                   used, txn, wish>>

(* CosaMoCAGetForceEnable: not forced, if that cannot be read. *)
BootForce ==
    /\ pc["bus"] = "bootForce"
    /\ \/ bForceEnabled' = db.ForceEnable /\ UNCHANGED used
       \/ Spend("syscfgGet") /\ bForceEnabled' = FALSE
    /\ Goto("bus", "idle")
    /\ UNCHANGED <<cfg, moca_enable_db, is_moca_available, webVars, hal, db, envVars,
                   events, back, mocaCfg, touched, txn, wish>>

-----------------------------------------------------------------------------
(* A transaction: values are set one by one, then the objects that had any  *)
(* are validated and committed; if a value is refused or a validation fails *)
(* they are rolled back.                                                    *)
TxnOpen ==
    /\ pc["bus"] = "idle" /\ Spend("txn")
    /\ Goto("bus", "open")
    /\ touched' = {}
    /\ txn' = [txn EXCEPT !["bus"] = [NoTxn EXCEPT !.result = "pending"]]
    /\ UNCHANGED <<agentVars, webVars, hal, db, envVars, events, back, mocaCfg, wish>>

(* is_usg_in_bridge_mode says that the device routes; the call may fail. *)
LanModeRouter(says) == says = ~bridge \/ ~says

Misled(says) == IF says = ~bridge THEN {} ELSE {"lanMode"}

(* Interface1_SetParamBoolValue, Enable: refused or held in the cache. *)
EnableUnguarded(v, router) == (v /\ split) \/ (~v /\ ~split /\ video) \* mutant

EnableRefused(v, router) ==
    \/ v /\ split
    \/ ~v /\ ~split /\ video
    \/ ~v /\ ~split /\ bForceEnabled /\ router

SetEnable(v) ==
    /\ pc["bus"] = "open"
    /\ \E router \in BOOLEAN :
        /\ LanModeRouter(router)
        /\ SpendAll({"set", "enable"} \cup Misled(router))
        /\ IF EnableRefused(v, router)
           THEN Goto("bus", "rollback") /\ UNCHANGED <<cfg, touched, txn>>
           ELSE /\ cfg' = [cfg EXCEPT !.bEnabled = v]
                /\ touched' = touched \cup {"Interface"}
                /\ txn' = [txn EXCEPT !["bus"].want.bEnabled = v]
                /\ UNCHANGED pc
    /\ UNCHANGED <<bForceEnabled, moca_enable_db, is_moca_available, webVars, hal, db,
                   envVars, events, back, mocaCfg, wish>>

(* Interface1_SetParamStringValue *)
SetKey(k) ==
    /\ pc["bus"] = "open" /\ SpendAll({"set", "key"})
    /\ cfg' = [cfg EXCEPT !.KeyPassphrase = k]
    /\ touched' = touched \cup {"Interface"}
    /\ txn' = [txn EXCEPT !["bus"].want.KeyPassphrase = k]
    /\ UNCHANGED <<bForceEnabled, moca_enable_db, is_moca_available, webVars, hal, db,
                   envVars, events, pc, back, mocaCfg, wish>>

(* Interface1_SetParamUlongValue and Interface1_SetParamIntValue: numbers   *)
(* are copied, unless BeaconPowerLimit is refused; none is kept here.       *)
SetNumber(accepted) ==
    /\ pc["bus"] = "open" /\ SpendAll({"set", "number"})
    /\ IF accepted THEN touched' = touched \cup {"Interface"} /\ UNCHANGED pc
       ELSE Goto("bus", "rollback") /\ UNCHANGED touched
    /\ UNCHANGED <<agentVars, webVars, hal, db, envVars, events, back, mocaCfg, txn, wish>>

(* X_CISCO_COM_Reset: the interface shall have its defaults at the commit. *)
SetDefault(v) ==
    /\ pc["bus"] = "open" /\ SpendAll({"set", "default"})
    /\ cfg' = [cfg EXCEPT !.X_CISCO_COM_Reset = v]
    /\ touched' = touched \cup {"Interface"}
    /\ UNCHANGED <<bForceEnabled, moca_enable_db, is_moca_available, webVars, hal, db,
                   envVars, events, pc, back, mocaCfg, txn, wish>>

(* MoCA_SetParamUlongValue and MoCA_SetParamStringValue: where provisioning *)
(* is found is held beside bForceEnabled, and nothing reads it.             *)
SetProvisioning ==
    /\ pc["bus"] = "open" /\ SpendAll({"set", "provision"})
    /\ touched' = touched \cup {"MoCA"}
    /\ UNCHANGED <<agentVars, webVars, hal, db, envVars, events, pc, back, mocaCfg,
                   txn, wish>>

(* MoCA_SetForceEnable: not held back, but stored and applied at once. *)
ForceFirst(v) ==                                                    \* mutant
    /\ pc["bus"] = "open"
    /\ bForceEnabled' = v
    /\ \/ /\ db' = [db EXCEPT !.ForceEnable = v]
          /\ SpendAll({"set", "force"})
       \/ /\ SpendAll({"set", "force", "syscfg"})
          /\ UNCHANGED db
    /\ touched' = touched \cup {"MoCA"}
    /\ UNCHANGED <<cfg, moca_enable_db, is_moca_available, webVars, hal, envVars, events,
                   pc, back, mocaCfg, txn, wish>>

SetForce(v) ==
    /\ pc["bus"] = "open"
    /\ \/ /\ bForceEnabled = v
          /\ SpendAll({"set", "force"})
          /\ touched' = touched \cup {"MoCA"}
          /\ UNCHANGED <<cfg, bForceEnabled, db, pc, back, txn>>
       \/ /\ bForceEnabled # v
          /\ SpendAll({"set", "force"})
          /\ touched' = touched \cup {"MoCA"}
          /\ db' = [db EXCEPT !.ForceEnable = v]
          /\ bForceEnabled' = v
          /\ IF v /\ ~cfg.bEnabled
             THEN /\ cfg' = [cfg EXCEPT !.bEnabled = TRUE]
                  /\ Call("bus", "setCfg", "force")
                  /\ txn' = [txn EXCEPT !["bus"].want.bEnabled = TRUE]
             ELSE UNCHANGED <<cfg, pc, back, txn>>
       \/ /\ bForceEnabled # v
          /\ SpendAll({"set", "force", "syscfg"})
          /\ Goto("bus", "rollback")
          /\ UNCHANGED <<cfg, bForceEnabled, db, back, touched, txn>>
    /\ UNCHANGED <<moca_enable_db, is_moca_available, webVars, hal, envVars, events,
                   mocaCfg, wish>>

(* The commit of MoCA stores nothing, but looks for the hardware. *)
CosaDmlMocaSetCfg == Judge

(* Interface1_Validate, and the commit. *)
FinishUnchecked ==                                                  \* mutant
    /\ pc["bus"] = "open" /\ touched # {}
    /\ Call("bus", "setCfg", "commit")
    /\ UNCHANGED <<agentVars, webVars, hal, db, envVars, events, mocaCfg, touched,
                   used, txn, wish>>

Finish ==
    /\ pc["bus"] = "open" /\ touched # {}
    /\ IF "Interface" \in touched /\ cfg.KeyPassphrase \notin ValidKey
       THEN Goto("bus", "rollback") /\ UNCHANGED <<is_moca_available, back, txn>>
       ELSE /\ IF "MoCA" \in touched THEN CosaDmlMocaSetCfg
               ELSE UNCHANGED is_moca_available
            /\ IF "Interface" \in touched
               THEN Call("bus", "setCfg", "commit") /\ UNCHANGED txn
               ELSE Goto("bus", "idle") /\ Reply("bus", "done") /\ UNCHANGED back
    /\ UNCHANGED <<cfg, bForceEnabled, moca_enable_db, webVars, hal, db, envVars,
                   events, mocaCfg, touched, used, wish>>

(* MoCACfg gets the defaults of the program. *)
CosaDmlMocaGetCfg ==
    /\ Judge
    /\ IF Available THEN bForceEnabled' = FALSE ELSE UNCHANGED bForceEnabled

(* MoCA_Rollback, and Interface1_Rollback, which reads the driver. *)
Rollback ==
    /\ pc["bus"] = "rollback"
    /\ IF "MoCA" \in touched THEN CosaDmlMocaGetCfg
       ELSE UNCHANGED <<is_moca_available, bForceEnabled>>
    /\ IF "Interface" \in touched THEN Call("bus", "getCfg", "undo") /\ UNCHANGED txn
       ELSE Goto("bus", "idle") /\ Reply("bus", "failed") /\ UNCHANGED back
    /\ UNCHANGED <<cfg, moca_enable_db, webVars, hal, db, envVars, events, mocaCfg,
                   touched, used, wish>>

(* Interface1_GetParamBoolValue and the like on the XB6. *)
Get ==
    /\ pc["bus"] = "idle" /\ Spend("get")
    /\ Call("bus", "getCfg", "get")
    /\ UNCHANGED <<agentVars, webVars, hal, db, envVars, events, mocaCfg, touched,
                   txn, wish>>

-----------------------------------------------------------------------------
(* MoCAReset_SetParamBoolValue starts a thread, MoCA_Interface_Reset. *)
Reset(r) ==
    /\ pc["bus"] = "idle" /\ pc[r] = "idle" /\ Spend("reset")
    /\ Goto(r, "start")
    /\ UNCHANGED <<agentVars, webVars, hal, db, envVars, events, back, mocaCfg,
                   touched, txn, wish>>

(* CosaDmlMocaIfReset, up to moca_IfGetDynamicInfo ... *)
ResetStart(r) ==
    /\ pc[r] = "start"
    /\ Judge
    /\ Goto(r, IF Available /\ cfg.bEnabled THEN "snapshot" ELSE "idle")
    /\ UNCHANGED <<cfg, bForceEnabled, moca_enable_db, webVars, hal, db, envVars,
                   events, back, mocaCfg, touched, used, txn, wish>>

(* ... moca_GetIfConfig ... *)
Snapshot(r) ==
    /\ pc[r] = "snapshot"
    /\ \/ /\ mocaCfg' = [mocaCfg EXCEPT ![r] = [hal EXCEPT !.bEnabled = FALSE]]
          /\ cfg' = [cfg EXCEPT !.bEnabled = FALSE]
          /\ Goto(r, "offHal")
          /\ UNCHANGED used
       \/ Spend("halGet") /\ Goto(r, "idle") /\ UNCHANGED <<cfg, mocaCfg>>
    /\ UNCHANGED <<bForceEnabled, moca_enable_db, is_moca_available, webVars, hal, db,
                   envVars, events, back, touched, txn, wish>>

(* ... and off and, after the delay, on: first the driver, then syscfg. *)
ResetHal(r, now, next) ==
    /\ pc[r] = now
    /\ \/ hal' = mocaCfg[r] /\ Goto(r, next) /\ UNCHANGED used
       \/ Spend("halSet") /\ Goto(r, "idle") /\ UNCHANGED hal
    /\ UNCHANGED <<agentVars, webVars, db, envVars, events, back, mocaCfg, touched,
                   txn, wish>>

ResetDb(r, now, next, on) ==
    /\ pc[r] = now
    /\ \/ db' = [db EXCEPT !.moca_enabled = on] /\ UNCHANGED used
       \/ Spend("syscfg") /\ UNCHANGED db
    /\ Goto(r, next)
    /\ UNCHANGED <<agentVars, webVars, hal, envVars, events, back, mocaCfg, touched,
                   txn, wish>>

StayOff(r) ==                                                       \* mutant
    /\ pc[r] = "delay"
    /\ mocaCfg' = [mocaCfg EXCEPT ![r].bEnabled = cfg.bEnabled]
    /\ Goto(r, "onHal")
    /\ UNCHANGED <<agentVars, webVars, hal, db, envVars, events, back, touched, used,
                   txn, wish>>

Delay(r) ==
    /\ pc[r] = "delay"
    /\ cfg' = [cfg EXCEPT !.bEnabled = TRUE]
    /\ mocaCfg' = [mocaCfg EXCEPT ![r].bEnabled = TRUE]
    /\ Goto(r, "onHal")
    /\ UNCHANGED <<bForceEnabled, moca_enable_db, is_moca_available, webVars, hal, db,
                   envVars, events, back, touched, used, txn, wish>>

CosaDmlMocaIfReset(r) ==
    \/ ResetStart(r) \/ Snapshot(r)
    \/ ResetHal(r, "offHal", "offDb") \/ ResetDb(r, "offDb", "delay", FALSE)
    \/ Delay(r)
    \/ ResetHal(r, "onHal", "onDb") \/ ResetDb(r, "onDb", "idle", TRUE)

-----------------------------------------------------------------------------
(* What a document asks for; one that says nothing, for what there is.      *)
Asked(blob) == IF Says(blob) = {} THEN {hal.bEnabled} ELSE Says(blob)

(* A document comes over the bus, and CosaDmlmocaUnpack hands what it made  *)
(* of it to the WebConfig thread.                                           *)
WebRequest(blob) ==
    /\ Booted /\ pc["web"] = "idle" /\ Spend("web")
    /\ \E enable \in BOOLEAN : CosaDmlmocaUnpack(blob, enable) /\ doc' = enable
    /\ Goto("web", "backup")
    /\ \E want \in Asked(blob) :
        txn' = [txn EXCEPT !["web"] =
                    [NoTxn EXCEPT !.want.bEnabled = want, !.result = "pending"]]
    /\ UNCHANGED <<agentVars, bBridge, g_bMocaEnable_bkup, hal, db, envVars, events,
                   back, mocaCfg, touched, wish>>

(* backup_mocavalue.  Every failure leads to the rollback. *)
Backup ==
    /\ pc["web"] = "backup"
    /\ \/ g_bMocaEnable_bkup' = db.moca_enabled /\ Goto("web", "check") /\ UNCHANGED used
       \/ Spend("syscfgGet") /\ Goto("web", "rollback") /\ UNCHANGED g_bMocaEnable_bkup
    /\ UNCHANGED <<agentVars, doc, bBridge, hal, db, envVars, events, back, mocaCfg,
                   touched, txn, wish>>

(* set_moca_conf: the document is refused ... *)
DocRefused(router) ==
    \/ doc /\ split
    \/ ~doc /\ video
    \/ ~doc /\ bForceEnabled /\ router

Check ==
    /\ pc["web"] = "check"
    /\ \E router \in BOOLEAN :
        /\ LanModeRouter(router)
        /\ SpendAll(Misled(router))
        /\ Goto("web", IF DocRefused(router) THEN "rollback" ELSE "apply")
    /\ UNCHANGED <<agentVars, webVars, hal, db, envVars, events, back, mocaCfg,
                   touched, txn, wish>>

(* ... or entered in the cache; in bridge mode MoCA is switched off ... *)
Apply ==
    /\ pc["web"] = "apply"
    /\ bBridge' = bridge
    /\ IF bridge
       THEN /\ Goto("web", IF cfg.bEnabled THEN "webHal" ELSE "rollback")
            /\ UNCHANGED txn
       ELSE IF cfg.bEnabled = doc THEN Goto("web", "idle") /\ Reply("web", "done")
            ELSE Goto("web", "webHal") /\ UNCHANGED txn
    /\ cfg' = [cfg EXCEPT !.bEnabled = doc /\ ~bridge]
    /\ mocaCfg' = [mocaCfg EXCEPT !["web"] = [bEnabled |-> doc /\ ~bridge,
                                              KeyPassphrase |-> cfg.KeyPassphrase]]
    /\ UNCHANGED <<bForceEnabled, moca_enable_db, is_moca_available, doc,
                   g_bMocaEnable_bkup, hal, db, envVars, events, back, touched, used,
                   wish>>

(* ... and given to the driver and to syscfg. *)
WebHal ==
    /\ pc["web"] = "webHal"
    /\ \/ hal' = mocaCfg["web"] /\ Goto("web", "webDb") /\ UNCHANGED used
       \/ Spend("halSet") /\ Goto("web", "rollback") /\ UNCHANGED hal
    /\ UNCHANGED <<agentVars, webVars, db, envVars, events, back, mocaCfg, touched,
                   txn, wish>>

WebDb ==
    /\ pc["web"] = "webDb"
    /\ \/ /\ db' = [db EXCEPT !.moca_enabled = cfg.bEnabled]
          /\ IF bBridge THEN Goto("web", "rollback") /\ UNCHANGED txn
             ELSE Goto("web", "idle") /\ Reply("web", "done")
          /\ UNCHANGED used
       \/ Spend("syscfg") /\ Goto("web", "rollback") /\ UNCHANGED <<db, txn>>
    /\ UNCHANGED <<agentVars, webVars, hal, envVars, events, back, mocaCfg, touched, wish>>

(* rollback_moca_conf: if the driver has not the value backed up. *)
rollback_moca_conf ==
    /\ pc["web"] = "rollback"
    /\ \/ /\ mocaCfg' = [mocaCfg EXCEPT !["web"] = [hal EXCEPT !.bEnabled = g_bMocaEnable_bkup]]
          /\ IF g_bMocaEnable_bkup = hal.bEnabled
             THEN Goto("web", "idle") /\ Reply("web", "failed")
             ELSE Goto("web", "rollHal") /\ UNCHANGED txn
          /\ UNCHANGED used
       \/ /\ Spend("halGet")
          /\ Goto("web", "idle") /\ Reply("web", "failed")
          /\ UNCHANGED mocaCfg
    /\ UNCHANGED <<agentVars, webVars, hal, db, envVars, events, back, touched, wish>>

RollHalOnly ==                                                      \* mutant
    /\ pc["web"] = "rollHal"
    /\ hal' = mocaCfg["web"]
    /\ Goto("web", "idle") /\ Reply("web", "failed")
    /\ UNCHANGED <<agentVars, webVars, db, envVars, events, back, mocaCfg, touched,
                   used, wish>>

RollHal ==
    /\ pc["web"] = "rollHal"
    /\ \/ /\ hal' = mocaCfg["web"]
          /\ cfg' = [cfg EXCEPT !.bEnabled = g_bMocaEnable_bkup]
          /\ Goto("web", "rollDb")
          /\ UNCHANGED <<used, txn>>
       \/ /\ Spend("halSet")
          /\ Goto("web", "idle") /\ Reply("web", "failed")
          /\ UNCHANGED <<hal, cfg>>
    /\ UNCHANGED <<bForceEnabled, moca_enable_db, is_moca_available, webVars, db,
                   envVars, events, back, mocaCfg, touched, wish>>

RollDb ==
    /\ pc["web"] = "rollDb"
    /\ \/ db' = [db EXCEPT !.moca_enabled = cfg.bEnabled] /\ UNCHANGED used
       \/ Spend("syscfg") /\ UNCHANGED db
    /\ Goto("web", "idle") /\ Reply("web", "failed")
    /\ UNCHANGED <<agentVars, webVars, hal, envVars, events, back, mocaCfg, touched, wish>>

Process_Moca_WebConfigRequest ==
    Backup \/ Check \/ Apply \/ WebHal \/ WebDb \/ rollback_moca_conf \/ RollHal \/ RollDb

-----------------------------------------------------------------------------
(* Moca_sysevent_handler *)
EventSpurious ==                                                    \* mutant
    /\ Booted /\ pc["sys"] = "idle"
    /\ events' = events - 1
    /\ cfg' = [cfg EXCEPT !.bSnmpUpdate = TRUE]
    /\ Call("sys", "getCfg", "event")
    /\ UNCHANGED <<bForceEnabled, moca_enable_db, is_moca_available, webVars, hal, db,
                   envVars, mocaCfg, touched, used, txn, wish>>

EventUnmarked ==                                                    \* mutant
    /\ Booted /\ pc["sys"] = "idle" /\ events > 0
    /\ events' = events - 1
    /\ Call("sys", "getCfg", "event")
    /\ UNCHANGED <<agentVars, webVars, hal, db, envVars, mocaCfg, touched, used, txn, wish>>

Event ==
    /\ Booted /\ pc["sys"] = "idle" /\ events > 0
    /\ events' = events - 1
    /\ cfg' = [cfg EXCEPT !.bSnmpUpdate = TRUE]
    /\ Call("sys", "getCfg", "event")
    /\ UNCHANGED <<bForceEnabled, moca_enable_db, is_moca_available, webVars, hal, db,
                   envVars, mocaCfg, touched, used, txn, wish>>

(* The SNMP agent sets the driver, once this agent runs, and then says so. *)
Snmp ==
    /\ Booted /\ pc["snmp"] = "idle" /\ Spend("snmp")
    /\ hal' = [hal EXCEPT !.bEnabled = ~@]
    /\ wish' = hal'.bEnabled
    /\ Goto("snmp", "notify")
    /\ UNCHANGED <<agentVars, webVars, db, envVars, events, back, mocaCfg, touched, txn>>

Notify ==
    /\ pc["snmp"] = "notify"
    /\ events' = events + 1
    /\ Goto("snmp", "idle")
    /\ UNCHANGED <<agentVars, webVars, hal, db, envVars, back, mocaCfg, touched, used,
                   txn, wish>>

(* The modes of the device, and hardware that comes late. *)
ModeChange ==
    /\ \/ Spend("bridge") /\ bridge' = ~bridge /\ UNCHANGED <<split, equipped>>
       \/ Spend("split") /\ split' = ~split /\ UNCHANGED <<bridge, equipped>>
       \/ ~equipped /\ Spend("equip") /\ equipped' = TRUE /\ UNCHANGED <<bridge, split>>
    /\ UNCHANGED <<agentVars, webVars, hal, db, video, events, ctlVars, txn, wish>>

(* The agent is killed and started again.  Driver and syscfg keep what they *)
(* have; notifications are lost.                                            *)
Restart ==
    /\ Spend("restart")
    /\ pc' = [t \in Thread |-> CASE t = "bus" -> "boot" [] t = "snmp" -> pc[t]
                                 [] OTHER -> "idle"]
    /\ back' = [t \in Thread |-> "none"]
    /\ mocaCfg' = [t \in Thread |-> Zeroed]
    /\ cfg' = CfgZeroed
    /\ bForceEnabled' = FALSE /\ moca_enable_db' = FALSE /\ is_moca_available' = FALSE
    /\ g_bMocaEnable_bkup' = FALSE /\ doc' = FALSE /\ bBridge' = FALSE
    /\ touched' = {} /\ events' = 0
    /\ txn' = [t \in {"bus", "web"} |-> NoTxn]
    /\ UNCHANGED <<hal, db, envVars, wish>>

-----------------------------------------------------------------------------
(* What a thread does once it was asked. *)
Work ==
    \/ Boot \/ BootCheck \/ BootForce \/ Rollback
    \/ \E t \in {"bus", "sys"} : CosaDmlMocaIfSetCfg(t) \/ CosaDmlMocaIfGetCfg(t)
    \/ Process_Moca_WebConfigRequest
    \/ \E r \in Resetter : CosaDmlMocaIfReset(r)
    \/ Event \/ Notify

Ask ==
    \/ TxnOpen \/ Finish \/ Get \/ SetProvisioning
    \/ \E v \in BOOLEAN : SetEnable(v) \/ SetNumber(v) \/ SetDefault(v) \/ SetForce(v)
    \/ \E blob \in Blob : WebRequest(blob)
    \/ \E k \in Key : SetKey(k)
    \/ \E r \in Resetter : Reset(r)

Environment == Snmp \/ ModeChange \/ Restart

Next == Work \/ Ask \/ Environment

Spec == Init /\ [][Next]_vars

(* Threads that have work do it, and a transaction is finished. *)
FairSpec == Spec /\ WF_vars(Work) /\ WF_vars(Finish)

-----------------------------------------------------------------------------
(* Properties.  Most are about some of what may happen together: what else   *)
(* would break them is said in the README.                                   *)

Quiet == \A t \in Thread : pc[t] = "idle"

(* When no thread is at work and the hardware was found, the cache, the     *)
(* driver and syscfg agree, whatever they held and in whatever mode the     *)
(* agent was started or killed, transactions in progress included, unless   *)
(* the driver or syscfg fails or another thread writes.  (Nothing brings    *)
(* moca_password_seed in line.)                                             *)
Agree ==
    OnlyUsed({"txn", "set", "enable", "key", "get", "restart", "bridge", "split", "equip"}) =>
        (Quiet /\ is_moca_available =>
            CacheIs(hal) /\ db.moca_enabled = hal.bEnabled)

(* What a transaction asks the driver for. *)
Wanted(x) ==
    [bEnabled |-> x.want.bEnabled /\ (Routing \/ "Interface" \notin touched),
     KeyPassphrase |-> x.want.KeyPassphrase]

(* A transaction that is not answered yet: nothing was written, or the      *)
(* driver was and syscfg, which is written after it, may lag behind.        *)
Underway(x) ==
    \/ hal = x.hal /\ db = x.db
    \/ /\ hal = Wanted(x)
       /\ db.moca_enabled \in {x.db.moca_enabled, hal.bEnabled}
       /\ db.moca_password_seed = x.db.moca_password_seed

(* If cache, driver and syscfg agreed before it and the hardware is there,  *)
(* a transaction that is answered with a failure changes none of them;      *)
(* one that is answered with success changes what it was asked to change    *)
(* and nothing else, but that in bridge mode and high split the interface   *)
(* is switched off with whatever is written to it.                          *)
(* (cosa_moca_dml.c: "either all of the value changes are applied together, *)
(* or none of the changes are applied at all".)  At each point before that  *)
(* answer, where the agent may be killed, the driver has all of it or none, *)
(* and syscfg never runs ahead of the driver.  A failing driver and a       *)
(* failing bus do not matter; the force flag, a reset to defaults and other *)
(* threads do.  Where writing syscfg failed, the transaction is answered    *)
(* with success all the same; then what the driver has is what was asked    *)
(* for, or what syscfg still holds, once that was read again, and the cache *)
(* says so.  A syscfg that cannot be read is excepted: reading a parameter  *)
(* then gives the driver the value that was read before.                    *)
AllOrNothing ==
    LET x == txn["bus"]
        changes == {"txn", "set", "enable", "key", "number", "provision", "get", "restart"}
        Ends(result) == pc["bus"] = "idle" /\ x.result = result
    IN x.level /\ equipped =>
        /\ OnlyUsed(changes \cup {"halSet", "lanMode"}) =>
            /\ x.result = "pending" => Underway(x)
            /\ Ends("failed") => hal = x.hal /\ db = x.db /\ CacheIs(hal)
            /\ Ends("done") =>
                /\ hal = Wanted(x) /\ CacheIs(hal)
                /\ db.moca_enabled = hal.bEnabled
                /\ db.moca_password_seed = hal.KeyPassphrase
        /\ OnlyUsed({"txn", "set", "enable", "get", "restart", "syscfg"}) /\ Ends("done") =>
            /\ CacheIs(hal)
            /\ \/ hal.bEnabled = Wanted(x).bEnabled
               \/ hal.bEnabled = db.moca_enabled /\ db.moca_enabled = x.db.moca_enabled

(* The same for a document, with a syscfg that refuses at most one write.   *)
(* (README.md: "atomic configuration updates", "Supports rollback on        *)
(* partial failure".)                                                       *)
DocAllOrNothing ==
    OnlyUsed({"web", "syscfg", "lanMode"}) /\ used["syscfg"] <= 1 =>
        LET x == txn["web"]
        IN pc["web"] = "idle" /\ x.level =>
            /\ x.result = "failed" => hal = x.hal /\ db = x.db /\ CacheIs(hal)
            /\ x.result = "done" => /\ hal = x.want /\ CacheIs(hal)
                                    /\ db.moca_enabled = x.want.bEnabled

(* The driver never holds a key passphrase that was not validated, though   *)
(* transactions hold it in the cache that resets and notifications use.     *)
(* (README.md: "two-phase commit (validate then apply)".)                   *)
OnlyValidated ==
    OnlyUsed({"txn", "set", "enable", "key", "default", "reset", "snmp"}) =>
        hal.KeyPassphrase \in ValidKey

(* MoCA is not switched off while syscfg says that it is forced on ...      *)
ForceKept == Quiet /\ equipped /\ db.ForceEnable /\ Routing => hal.bEnabled

(* ... by transactions, documents and restarts, if the force flag is not    *)
(* itself in a transaction.                                                 *)
ForceHonoured ==
    OnlyUsed({"txn", "set", "enable", "key", "number", "web", "restart"}) => ForceKept

(* What the agent takes for forced is stored, whatever fails and whenever   *)
(* the agent is killed.                                                     *)
ForceStored == bForceEnabled => db.ForceEnable

(* What was last set over SNMP is kept and reaches syscfg, if nothing else  *)
(* is going on.                                                             *)
SnmpKept ==
    <>[](OnlyUsed({"snmp"}) /\ used["snmp"] > 0 =>
            hal.bEnabled = wish /\ db.moca_enabled = wish)

(* An interface that is enabled is enabled again after resets, however they *)
(* overlap, if nothing else is going on.                                    *)
ResetReturns ==
    db.moca_enabled /\ Routing =>
        <>[](OnlyUsed({"reset"}) => cfg.bEnabled /\ hal.bEnabled /\ db.moca_enabled)

=============================================================================
