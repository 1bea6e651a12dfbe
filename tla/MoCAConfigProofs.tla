-------------------------- MODULE MoCAConfigProofs --------------------------
(***************************************************************************)
(* What holds of MoCAConfig for any passphrases, any number of threads     *)
(* that reset the interface, and any number of transactions, documents,    *)
(* mode changes, faults and restarts.                                      *)
(***************************************************************************)
EXTENDS MoCAConfig, TLAPS

(* The threads that run CosaDmlMocaIfSetCfg and CosaDmlMocaIfGetCfg. *)
LEMMA Threads == {"bus", "web", "sys", "snmp"} \subseteq Thread /\ Resetter \subseteq Thread
BY DEF Thread

(* Typing of what a returning routine does to the control state. *)
LEMMA ReturnTyped ==
    ASSUME TypeOK, NEW t \in {"bus", "sys"}, NEW ok \in BOOLEAN, Return(t, ok)
    PROVE  /\ pc' \in [Thread -> Pc]
           /\ back' \in [Thread -> Caller]
           /\ txn' \in [{"bus", "web"} -> Txn]
<1>1. t \in Thread
  BY Threads
<1>2. CASE back[t] = "commit" /\ ~ok
  <2>1. pc' = [pc EXCEPT ![t] = "getCfg"] /\ back' = [back EXCEPT ![t] = "discard"]
        /\ txn' = txn
    BY <1>2 DEF Return, Call, Goto
  <2> QED
    BY <1>1, <2>1 DEF TypeOK, Pc, GetPc, Caller
<1>3. CASE ~(back[t] = "commit" /\ ~ok)
  <2>1. back' = [back EXCEPT ![t] = "none"]
    BY <1>3 DEF Return
  <2>2. \E p \in {"bootCheck", "bootForce", "open", "idle"} : pc' = [pc EXCEPT ![t] = p]
    BY <1>3 DEF Return, Goto
  <2>3. \/ txn' = txn
        \/ \E r \in {"done", "failed"} : txn' = [txn EXCEPT ![t].result = r]
    BY <1>3 DEF Return, Reply
  <2>4. pc' \in [Thread -> Pc] /\ back' \in [Thread -> Caller]
    BY <1>1, <2>1, <2>2 DEF TypeOK, Pc, BootPc, Caller
  <2>5. txn' \in [{"bus", "web"} -> Txn]
    BY <2>3 DEF TypeOK, Txn
  <2> QED
    BY <2>4, <2>5
<1> QED
  BY <1>2, <1>3

(* Init *)
LEMMA TypeInit == Init => TypeOK
<1> SUFFICES ASSUME Init PROVE TypeOK
  OBVIOUS
<1>1. CfgZeroed \in Cfg /\ Zeroed \in HalCfg
  BY MoCAConfigAssumption DEF CfgZeroed, Zeroed, Cfg, HalCfg
<1>2. db \in Db /\ hal \in HalCfg
  BY DEF Init, Db, HalCfg
<1>3. NoTxn \in Txn
  BY <1>2 DEF NoTxn, Txn
<1>4. used \in [Op -> Nat]
  BY DEF Init
<1>5. pc \in [Thread -> Pc] /\ back \in [Thread -> Caller]
  BY DEF Init, Pc, BootPc, Caller
<1> QED
  BY <1>1, <1>2, <1>3, <1>4, <1>5 DEF Init, TypeOK

(* Counting an operation, and going to a control point. *)
LEMMA SpendAllTyped ==
    ASSUME TypeOK, NEW ops, SpendAll(ops)
    PROVE  used' \in [Op -> Nat]
BY DEF TypeOK, SpendAll

LEMMA SpendTyped ==
    ASSUME TypeOK, NEW o, Spend(o)
    PROVE  used' \in [Op -> Nat]
BY SpendAllTyped DEF Spend

(* Going to a control point ... *)
LEMMA GotoTyped ==
    ASSUME TypeOK, NEW t \in Thread, NEW p \in Pc, Goto(t, p)
    PROVE  pc' \in [Thread -> Pc]
BY DEF TypeOK, Goto

(* ... calling a routine ... *)
LEMMA CallTyped ==
    ASSUME TypeOK, NEW t \in Thread, NEW p \in Pc, NEW c \in Caller, Call(t, p, c)
    PROVE  pc' \in [Thread -> Pc] /\ back' \in [Thread -> Caller]
BY DEF TypeOK, Call, Goto

(* ... and answering a request keep the types. *)
LEMMA ReplyTyped ==
    ASSUME TypeOK, NEW t \in {"bus", "web"}, NEW r \in {"done", "failed"}, Reply(t, r)
    PROVE  txn' \in [{"bus", "web"} -> Txn]
BY DEF TypeOK, Reply, Txn

(* CosaDmlMocaIfSetCfg *)
LEMMA SetTyped ==
    ASSUME TypeOK, NEW t \in {"bus", "sys"}, CosaDmlMocaIfSetCfg(t)
    PROVE  TypeOK'
<1>0. t \in Thread
  BY Threads
<1>1. CASE SetCfg(t)
  <2>1. is_moca_available' \in BOOLEAN
    BY <1>1 DEF SetCfg, Judge, Available, TypeOK
  <2>2. mocaCfg' \in [Thread -> HalCfg] /\ cfg' \in Cfg
    <3>1. Build \in HalCfg
      BY DEF Build, Routing, TypeOK, HalCfg, Cfg
    <3> QED
      BY <1>0, <1>1, <3>1 DEF SetCfg, TypeOK, Cfg, Routing
  <2>3. pc' \in [Thread -> Pc] /\ back' \in [Thread -> Caller] /\ txn' \in [{"bus", "web"} -> Txn]
    <3>1. CASE Available
      BY <1>0, <1>1, <3>1, GotoTyped DEF SetCfg, TypeOK, Pc, SetPc
    <3>2. CASE ~Available
      BY <1>1, <3>2, ReturnTyped DEF SetCfg
    <3> QED
      BY <3>1, <3>2
  <2> QED
    BY <1>1, <2>1, <2>2, <2>3 DEF SetCfg, TypeOK, webVars, envVars
<1>2. CASE SetHal(t)
  <2>1. CASE hal' = mocaCfg[t] /\ Goto(t, "setDb") /\ UNCHANGED <<used, back, txn>>
    <3>1. pc' \in [Thread -> Pc] /\ hal' \in HalCfg
      BY <1>0, <2>1, GotoTyped DEF Pc, SetPc, TypeOK
    <3> QED
      BY <1>2, <2>1, <3>1 DEF SetHal, TypeOK, agentVars, webVars, envVars
  <2>2. CASE Spend("halSet") /\ Return(t, FALSE) /\ UNCHANGED hal
    <3>1. used' \in [Op -> Nat]
      BY <2>2, SpendTyped DEF Op
    <3>2. /\ pc' \in [Thread -> Pc] /\ back' \in [Thread -> Caller]
          /\ txn' \in [{"bus", "web"} -> Txn]
      BY <2>2, ReturnTyped
    <3>3. UNCHANGED <<agentVars, webVars, hal, db, envVars, events, mocaCfg, touched, wish>>
      BY <1>2, <2>2 DEF SetHal
    <3> QED
      BY <3>1, <3>2, <3>3 DEF TypeOK, agentVars, webVars, envVars
  <2> QED
    BY <1>2, <2>1, <2>2 DEF SetHal
<1>3. CASE SetDb(t)
  <2>1. db' \in Db /\ used' \in [Op -> Nat]
    BY <1>3, SpendTyped DEF SetDb, TypeOK, Db, Cfg, Op
  <2>2. pc' \in [Thread -> Pc]
    BY <1>0, <1>3, GotoTyped DEF SetDb, Pc, SetPc
  <2> QED
    BY <1>3, <2>1, <2>2 DEF SetDb, TypeOK, agentVars, webVars, envVars
<1>4. CASE SetSeed(t)
  <2>1. db' \in Db /\ used' \in [Op -> Nat]
    BY <1>4, SpendTyped DEF SetSeed, TypeOK, Db, Cfg, Op
  <2>2. /\ pc' \in [Thread -> Pc] /\ back' \in [Thread -> Caller]
        /\ txn' \in [{"bus", "web"} -> Txn]
    BY <1>4, ReturnTyped DEF SetSeed
  <2>3. UNCHANGED <<agentVars, webVars, hal, envVars, events, mocaCfg, touched, wish>>
    BY <1>4 DEF SetSeed
  <2> QED
    BY <2>1, <2>2, <2>3 DEF TypeOK, agentVars, webVars, envVars
<1> QED
  BY <1>1, <1>2, <1>3, <1>4 DEF CosaDmlMocaIfSetCfg

(* CosaDmlMocaIfGetCfg *)
LEMMA GetTyped ==
    ASSUME TypeOK, NEW t \in {"bus", "sys"}, CosaDmlMocaIfGetCfg(t)
    PROVE  TypeOK'
<1>0. t \in Thread
  BY Threads
<1>c. ASSUME NEW h \in HalCfg PROVE Copied(h) \in Cfg
  BY DEF Copied, TypeOK, Cfg, HalCfg
<1>1. CASE GetCfg(t)
  <2>1. is_moca_available' \in BOOLEAN /\ moca_enable_db' \in BOOLEAN
    BY <1>1 DEF GetCfg, Judge, Available, TypeOK, Db
  <2>3. used' \in [Op -> Nat]
    BY <1>1, SpendTyped DEF GetCfg, TypeOK, Op
  <2>2. pc' \in [Thread -> Pc] /\ back' \in [Thread -> Caller] /\ txn' \in [{"bus", "web"} -> Txn]
    <3>1. CASE Available
      BY <1>0, <1>1, <3>1, GotoTyped DEF GetCfg, TypeOK, Pc, GetPc
    <3>2. CASE ~Available
      BY <1>1, <3>2, ReturnTyped DEF GetCfg
    <3> QED
      BY <3>1, <3>2
  <2> QED
    BY <1>1, <2>1, <2>2, <2>3 DEF GetCfg, TypeOK, webVars, envVars
<1>2. CASE GetHal(t)
  <2>a. UNCHANGED <<bForceEnabled, moca_enable_db, is_moca_available, webVars, hal, db,
                    envVars, events, touched, wish>>
    BY <1>2 DEF GetHal
  <2>1. CASE Spend("halGet") /\ Return(t, FALSE) /\ UNCHANGED <<cfg, mocaCfg>>
    <3>1. used' \in [Op -> Nat]
      BY <2>1, SpendTyped DEF Op
    <3>2. /\ pc' \in [Thread -> Pc] /\ back' \in [Thread -> Caller]
          /\ txn' \in [{"bus", "web"} -> Txn]
      BY <2>1, ReturnTyped
    <3>3. UNCHANGED <<cfg, mocaCfg>>
      BY <2>1
    <3> QED
      BY <2>a, <3>1, <3>2, <3>3 DEF TypeOK, webVars, envVars
  <2>2. CASE ~(Spend("halGet") /\ Return(t, FALSE) /\ UNCHANGED <<cfg, mocaCfg>>)
    <3>1. mocaCfg' \in [Thread -> HalCfg] /\ used' = used
      BY <1>0, <1>2, <2>2 DEF GetHal, TypeOK
    <3>2. CASE moca_enable_db = hal.bEnabled
      <4>1. cfg' = Copied(hal) /\ Return(t, TRUE)
        BY <1>2, <2>2, <3>2 DEF GetHal
      <4>2. cfg' \in Cfg
        BY <1>c, <4>1 DEF TypeOK
      <4>3. /\ pc' \in [Thread -> Pc] /\ back' \in [Thread -> Caller]
            /\ txn' \in [{"bus", "web"} -> Txn]
        BY <4>1, ReturnTyped
      <4> QED
        BY <2>a, <3>1, <4>2, <4>3 DEF TypeOK, webVars, envVars
    <3>3. CASE moca_enable_db # hal.bEnabled
      <4>1. cfg' \in Cfg
        BY <1>2, <2>2, <3>3 DEF GetHal, TypeOK, Cfg, HalCfg
      <4>2. pc' \in [Thread -> Pc] /\ back' = back /\ txn' = txn
        BY <1>0, <1>2, <2>2, <3>3, GotoTyped DEF GetHal, Pc, GetPc
      <4> QED
        BY <2>a, <3>1, <4>1, <4>2 DEF TypeOK, webVars, envVars
    <3> QED
      BY <3>2, <3>3
  <2> QED
    BY <2>1, <2>2
<1>3. CASE PutHal(t)
  <2> DEFINE put == [mocaCfg[t] EXCEPT !.bEnabled = moca_enable_db]
  <2>0. put \in HalCfg
    BY <1>0 DEF TypeOK, HalCfg
  <2>a. UNCHANGED <<bForceEnabled, moca_enable_db, is_moca_available, webVars, db, envVars,
                    events, mocaCfg, touched, wish>>
    BY <1>3 DEF PutHal
  <2> HIDE DEF put
  <2>1. CASE hal' = put /\ cfg' = Copied(put) /\ Return(t, TRUE) /\ UNCHANGED used
    <3>1. cfg' \in Cfg /\ hal' \in HalCfg
      BY <1>c, <2>0, <2>1
    <3>2. /\ pc' \in [Thread -> Pc] /\ back' \in [Thread -> Caller]
          /\ txn' \in [{"bus", "web"} -> Txn]
      BY <2>1, ReturnTyped
    <3>3. used' = used
      BY <2>1
    <3> QED
      BY <2>a, <3>1, <3>2, <3>3 DEF TypeOK, webVars, envVars
  <2>2. CASE Spend("halSet") /\ Return(t, FALSE) /\ UNCHANGED <<hal, cfg>>
    <3>1. used' \in [Op -> Nat]
      BY <2>2, SpendTyped DEF Op
    <3> QED
      <4>1. pc' \in [Thread -> Pc] /\ back' \in [Thread -> Caller]
            /\ txn' \in [{"bus", "web"} -> Txn]
        BY <2>2, ReturnTyped
      <4> QED
        BY <2>a, <2>2, <3>1, <4>1 DEF TypeOK, webVars, envVars
  <2> QED
    BY <1>3, <2>1, <2>2 DEF PutHal, put
<1>4. CASE PutDb(t)
  <2>1. db' \in Db /\ used' \in [Op -> Nat]
    BY <1>4, SpendTyped DEF PutDb, TypeOK, Db, Cfg, Op
  <2>2. cfg' \in Cfg
    BY <1>0, <1>4 DEF PutDb, TypeOK, Cfg, HalCfg
  <2>3. /\ pc' \in [Thread -> Pc] /\ back' \in [Thread -> Caller]
        /\ txn' \in [{"bus", "web"} -> Txn]
    BY <1>4, ReturnTyped DEF PutDb
  <2>4. UNCHANGED <<bForceEnabled, moca_enable_db, is_moca_available, webVars, hal,
                    envVars, events, mocaCfg, touched, wish>>
    BY <1>4 DEF PutDb
  <2> QED
    BY <2>1, <2>2, <2>3, <2>4 DEF TypeOK, webVars, envVars
<1> QED
  BY <1>1, <1>2, <1>3, <1>4 DEF CosaDmlMocaIfGetCfg

(* CosaMoCAInitialize *)
LEMMA BootTyped ==
    ASSUME TypeOK, Boot \/ BootCheck \/ BootForce
    PROVE  TypeOK'
<1>0. "bus" \in Thread
  BY Threads
<1>1. CASE Boot
  <2>1. cfg' \in Cfg
    BY <1>1, MoCAConfigAssumption DEF Boot, CfgZeroed, Cfg
  <2>2. pc' \in [Thread -> Pc] /\ back' \in [Thread -> Caller]
    <3>1. CASE equipped
      BY <1>0, <1>1, <3>1, CallTyped DEF Boot, Pc, GetPc, Caller
    <3>2. CASE ~equipped
      BY <1>0, <1>1, <3>2, GotoTyped DEF Boot, Pc, BootPc, TypeOK
    <3> QED
      BY <3>1, <3>2
  <2> QED
    BY <1>1, <2>1, <2>2 DEF Boot, CosaDmlMocaInit, TypeOK, Db, webVars, envVars
<1>2. CASE BootCheck
  <2>1. pc' \in [Thread -> Pc] /\ back' \in [Thread -> Caller]
    <3>1. CASE cfg.bEnabled /\ ~Routing
      BY <1>0, <1>2, <3>1, CallTyped DEF BootCheck, Pc, SetPc, Caller
    <3>2. CASE ~(cfg.bEnabled /\ ~Routing)
      BY <1>0, <1>2, <3>2, GotoTyped DEF BootCheck, Pc, BootPc, TypeOK
    <3> QED
      BY <3>1, <3>2
  <2> QED
    BY <1>2, <2>1 DEF BootCheck, TypeOK, agentVars, webVars, envVars
<1>3. CASE BootForce
  <2>1. pc' \in [Thread -> Pc]
    BY <1>0, <1>3, GotoTyped DEF BootForce, Pc
  <2>2. used' \in [Op -> Nat]
    BY <1>3, SpendTyped DEF BootForce, TypeOK, Op
  <2>3. bForceEnabled' \in BOOLEAN
    BY <1>3 DEF BootForce, TypeOK, Db
  <2>4. UNCHANGED <<cfg, moca_enable_db, is_moca_available, webVars, hal, db, envVars,
                    events, back, mocaCfg, touched, txn, wish>>
    BY <1>3 DEF BootForce
  <2> QED
    BY <2>1, <2>2, <2>3, <2>4 DEF TypeOK, webVars, envVars
<1> QED
  BY <1>1, <1>2, <1>3

(* What a transaction is to set. *)
LEMMA WantTyped ==
    ASSUME TypeOK
    PROVE  /\ \A v \in BOOLEAN :
                [txn EXCEPT !["bus"].want.bEnabled = v] \in [{"bus", "web"} -> Txn]
           /\ \A k \in Key :
                [txn EXCEPT !["bus"].want.KeyPassphrase = k] \in [{"bus", "web"} -> Txn]
<1>1. txn["bus"] \in Txn /\ txn \in [{"bus", "web"} -> Txn]
  BY DEF TypeOK
<1>2. ASSUME NEW v \in BOOLEAN
      PROVE  [txn EXCEPT !["bus"].want.bEnabled = v] \in [{"bus", "web"} -> Txn]
  <2>1. [txn["bus"] EXCEPT !.want.bEnabled = v] \in Txn
    <3>1. txn["bus"].want \in HalCfg
      BY <1>1 DEF Txn
    <3>2. [txn["bus"].want EXCEPT !.bEnabled = v] \in HalCfg
      BY <3>1 DEF HalCfg
    <3> QED
      BY <1>1, <3>2 DEF Txn
  <2> QED
    BY <1>1, <2>1
<1>3. ASSUME NEW k \in Key
      PROVE  [txn EXCEPT !["bus"].want.KeyPassphrase = k] \in [{"bus", "web"} -> Txn]
  <2>1. [txn["bus"] EXCEPT !.want.KeyPassphrase = k] \in Txn
    <3>1. txn["bus"].want \in HalCfg
      BY <1>1 DEF Txn
    <3>2. [txn["bus"].want EXCEPT !.KeyPassphrase = k] \in HalCfg
      BY <3>1 DEF HalCfg
    <3> QED
      BY <1>1, <3>2 DEF Txn
  <2> QED
    BY <1>1, <2>1
<1> QED
  BY <1>2, <1>3

(* A transaction *)
LEMMA TxnTyped ==
    ASSUME TypeOK,
           \/ TxnOpen \/ Finish \/ Rollback \/ Get \/ SetProvisioning
           \/ \E v \in BOOLEAN : SetEnable(v) \/ SetNumber(v) \/ SetDefault(v) \/ SetForce(v)
           \/ \E k \in Key : SetKey(k)
    PROVE  TypeOK'
<1>0. "bus" \in Thread
  BY Threads
<1>1. CASE TxnOpen
  <2>1. used' \in [Op -> Nat] /\ pc' \in [Thread -> Pc]
    BY <1>0, <1>1, SpendTyped, GotoTyped DEF TxnOpen, Op, Pc
  <2>2. [NoTxn EXCEPT !.result = "pending"] \in Txn
    BY DEF NoTxn, Txn, TypeOK
  <2>3. txn' \in [{"bus", "web"} -> Txn]
    BY <1>1, <2>2 DEF TxnOpen, TypeOK
  <2> QED
    BY <1>1, <2>1, <2>3 DEF TxnOpen, TypeOK, agentVars, webVars, envVars
<1>2. CASE Finish
  <2>1. is_moca_available' \in BOOLEAN
    BY <1>2 DEF Finish, CosaDmlMocaSetCfg, Judge, Available, TypeOK
  <2>2. \/ Goto("bus", "rollback") /\ UNCHANGED <<back, txn>>
        \/ Call("bus", "setCfg", "commit") /\ UNCHANGED txn
        \/ Goto("bus", "idle") /\ Reply("bus", "done") /\ UNCHANGED back
    BY <1>2 DEF Finish
  <2>3. pc' \in [Thread -> Pc] /\ back' \in [Thread -> Caller]
        /\ txn' \in [{"bus", "web"} -> Txn]
    <3>1. CASE Goto("bus", "rollback") /\ UNCHANGED <<back, txn>>
      BY <1>0, <3>1, GotoTyped DEF Pc, WebPc, TypeOK
    <3>2. CASE Call("bus", "setCfg", "commit") /\ UNCHANGED txn
      BY <1>0, <3>2, CallTyped DEF Pc, SetPc, Caller, TypeOK
    <3>3. CASE Goto("bus", "idle") /\ Reply("bus", "done") /\ UNCHANGED back
      BY <1>0, <3>3, GotoTyped, ReplyTyped DEF Pc, TypeOK
    <3> QED
      BY <2>2, <3>1, <3>2, <3>3
  <2> QED
    BY <1>2, <2>1, <2>3 DEF Finish, TypeOK, webVars, envVars
<1>3. CASE Rollback
  <2>1. bForceEnabled' \in BOOLEAN /\ is_moca_available' \in BOOLEAN
    BY <1>3 DEF Rollback, CosaDmlMocaGetCfg, Judge, Available, TypeOK
  <2>2. CASE "Interface" \in touched
    <3>1. pc' \in [Thread -> Pc] /\ back' \in [Thread -> Caller] /\ txn' = txn
      BY <1>0, <1>3, <2>2, CallTyped DEF Rollback, Pc, GetPc, Caller
    <3> QED
      BY <1>3, <2>1, <3>1 DEF Rollback, TypeOK, webVars, envVars
  <2>3. CASE "Interface" \notin touched
    <3>1. pc' \in [Thread -> Pc] /\ txn' \in [{"bus", "web"} -> Txn] /\ back' = back
      BY <1>0, <1>3, <2>3, GotoTyped, ReplyTyped DEF Rollback, Pc
    <3> QED
      BY <1>3, <2>1, <3>1 DEF Rollback, TypeOK, webVars, envVars
  <2> QED
    BY <2>2, <2>3
<1>4. CASE Get
  <2>1. used' \in [Op -> Nat] /\ pc' \in [Thread -> Pc] /\ back' \in [Thread -> Caller]
    BY <1>0, <1>4, SpendTyped, CallTyped DEF Get, Op, Pc, GetPc, Caller
  <2> QED
    BY <1>4, <2>1 DEF Get, TypeOK, agentVars, webVars, envVars
<1>5. ASSUME NEW v \in BOOLEAN, SetEnable(v) PROVE TypeOK'
  <2>1. used' \in [Op -> Nat]
    BY <1>5, SpendAllTyped DEF SetEnable
  <2>2. \/ /\ pc' = [pc EXCEPT !["bus"] = "rollback"]
           /\ UNCHANGED <<cfg, touched, txn>>
        \/ /\ cfg' = [cfg EXCEPT !.bEnabled = v]
           /\ touched' = touched \cup {"Interface"}
           /\ txn' = [txn EXCEPT !["bus"].want.bEnabled = v]
           /\ UNCHANGED pc
    BY <1>5 DEF SetEnable, Goto
  <2>3. pc' \in [Thread -> Pc] /\ cfg' \in Cfg /\ touched' \in SUBSET Object
    BY <1>0, <2>2 DEF Pc, WebPc, TypeOK, Cfg, Object
  <2>4. txn' \in [{"bus", "web"} -> Txn]
    BY <2>2, WantTyped DEF TypeOK
  <2> QED
    BY <1>5, <2>1, <2>3, <2>4 DEF SetEnable, TypeOK, webVars, envVars
<1>6. ASSUME NEW v \in BOOLEAN, SetDefault(v) PROVE TypeOK'
  <2>1. used' \in [Op -> Nat] /\ cfg' \in Cfg /\ touched' \in SUBSET Object
    BY <1>6, SpendAllTyped DEF SetDefault, TypeOK, Cfg, Object
  <2> QED
    BY <1>6, <2>1 DEF SetDefault, TypeOK, webVars, envVars
<1>7. ASSUME NEW v \in BOOLEAN, SetForce(v) PROVE TypeOK'
  <2>1. used' \in [Op -> Nat]
    BY <1>7, SpendAllTyped DEF SetForce
  <2>2. cfg' \in Cfg
    <3>1. cfg' = cfg \/ cfg' = [cfg EXCEPT !.bEnabled = TRUE]
      BY <1>7 DEF SetForce
    <3> QED
      BY <3>1 DEF TypeOK, Cfg
  <2>3. db' \in Db /\ bForceEnabled' \in BOOLEAN /\ touched' \in SUBSET Object
    <3>1. db' = db \/ db' = [db EXCEPT !.ForceEnable = v]
      BY <1>7 DEF SetForce
    <3>2. bForceEnabled' = bForceEnabled \/ bForceEnabled' = v
      BY <1>7 DEF SetForce
    <3>3. touched' = touched \/ touched' = touched \cup {"MoCA"}
      BY <1>7 DEF SetForce
    <3> QED
      BY <3>1, <3>2, <3>3 DEF TypeOK, Db, Object
  <2>4. pc' \in [Thread -> Pc] /\ back' \in [Thread -> Caller]
    <3>1. \/ pc' = pc /\ back' = back
          \/ pc' = [pc EXCEPT !["bus"] = "setCfg"] /\ back' = [back EXCEPT !["bus"] = "force"]
          \/ pc' = [pc EXCEPT !["bus"] = "rollback"] /\ back' = back
      BY <1>7 DEF SetForce, Call, Goto
    <3> QED
      BY <1>0, <3>1 DEF TypeOK, Pc, SetPc, WebPc, Caller
  <2>5. txn' \in [{"bus", "web"} -> Txn]
    <3>1. txn' = txn \/ txn' = [txn EXCEPT !["bus"].want.bEnabled = TRUE]
      BY <1>7 DEF SetForce
    <3> QED
      BY <3>1, WantTyped DEF TypeOK
  <2> QED
    BY <1>7, <2>1, <2>2, <2>3, <2>4, <2>5 DEF SetForce, TypeOK, webVars, envVars
<1>8. ASSUME NEW k \in Key, SetKey(k) PROVE TypeOK'
  <2>1. used' \in [Op -> Nat] /\ cfg' \in Cfg /\ touched' \in SUBSET Object
    BY <1>8, SpendAllTyped DEF SetKey, TypeOK, Cfg, Object
  <2>2. txn' \in [{"bus", "web"} -> Txn]
    BY <1>8, WantTyped DEF SetKey
  <2> QED
    BY <1>8, <2>1, <2>2 DEF SetKey, TypeOK, webVars, envVars
<1>9. ASSUME NEW v \in BOOLEAN, SetNumber(v) PROVE TypeOK'
  <2>1. used' \in [Op -> Nat]
    BY <1>9, SpendAllTyped DEF SetNumber
  <2>2. pc' = pc \/ pc' = [pc EXCEPT !["bus"] = "rollback"]
    BY <1>9 DEF SetNumber, Goto
  <2>3. touched' = touched \/ touched' = touched \cup {"Interface"}
    BY <1>9 DEF SetNumber
  <2>4. pc' \in [Thread -> Pc] /\ touched' \in SUBSET Object
    BY <1>0, <2>2, <2>3 DEF Pc, WebPc, TypeOK, Object
  <2> QED
    BY <1>9, <2>1, <2>4 DEF SetNumber, TypeOK, agentVars, webVars, envVars
<1>10. CASE SetProvisioning
  <2>1. used' \in [Op -> Nat] /\ touched' \in SUBSET Object
    BY <1>10, SpendAllTyped DEF SetProvisioning, TypeOK, Object
  <2> QED
    BY <1>10, <2>1 DEF SetProvisioning, TypeOK, agentVars, webVars, envVars
<1> QED
  BY <1>1, <1>2, <1>3, <1>4, <1>5, <1>6, <1>7, <1>8, <1>9, <1>10

(* A reset *)
LEMMA ResetTyped ==
    ASSUME TypeOK, NEW r \in Resetter, Reset(r) \/ CosaDmlMocaIfReset(r)
    PROVE  TypeOK'
<1>0. r \in Thread
  BY Threads
<1>1. CASE Reset(r)
  <2>1. used' \in [Op -> Nat] /\ pc' \in [Thread -> Pc]
    BY <1>0, <1>1, SpendTyped, GotoTyped DEF Reset, Op, Pc, ResetPc
  <2> QED
    BY <1>1, <2>1 DEF Reset, TypeOK, agentVars, webVars, envVars
<1>2. CASE ResetStart(r)
  <2>1. pc' \in [Thread -> Pc]
    BY <1>0, <1>2, GotoTyped DEF ResetStart, Pc, ResetPc
  <2> QED
    BY <1>2, <2>1 DEF ResetStart, Judge, Available, TypeOK, webVars, envVars
<1>3. CASE Snapshot(r)
  <2>1. pc' \in [Thread -> Pc]
    BY <1>0, <1>3, GotoTyped DEF Snapshot, Pc, ResetPc
  <2>2. used' \in [Op -> Nat]
    BY <1>3, SpendTyped DEF Snapshot, Op, TypeOK
  <2>3. mocaCfg' \in [Thread -> HalCfg] /\ cfg' \in Cfg
    <3>1. [hal EXCEPT !.bEnabled = FALSE] \in HalCfg /\ [cfg EXCEPT !.bEnabled = FALSE] \in Cfg
      BY DEF TypeOK, HalCfg, Cfg
    <3> QED
      BY <1>0, <1>3, <3>1 DEF Snapshot, TypeOK
  <2> QED
    BY <1>3, <2>1, <2>2, <2>3 DEF Snapshot, TypeOK, webVars, envVars
<1>4. ASSUME NEW now, NEW next \in Pc, ResetHal(r, now, next) PROVE TypeOK'
  <2>1. pc' \in [Thread -> Pc]
    BY <1>0, <1>4, GotoTyped DEF ResetHal, Pc
  <2>2. used' \in [Op -> Nat] /\ hal' \in HalCfg
    BY <1>0, <1>4, SpendTyped DEF ResetHal, Op, TypeOK
  <2> QED
    BY <1>4, <2>1, <2>2 DEF ResetHal, TypeOK, agentVars, webVars, envVars
<1>5. ASSUME NEW now, NEW next \in Pc, NEW on \in BOOLEAN, ResetDb(r, now, next, on)
      PROVE  TypeOK'
  <2>1. pc' \in [Thread -> Pc]
    BY <1>0, <1>5, GotoTyped DEF ResetDb
  <2>2. used' \in [Op -> Nat] /\ db' \in Db
    BY <1>5, SpendTyped DEF ResetDb, Op, TypeOK, Db
  <2> QED
    BY <1>5, <2>1, <2>2 DEF ResetDb, TypeOK, agentVars, webVars, envVars
<1>6. CASE Delay(r)
  <2>1. pc' \in [Thread -> Pc]
    BY <1>0, <1>6, GotoTyped DEF Delay, Pc, ResetPc
  <2>2. mocaCfg' \in [Thread -> HalCfg] /\ cfg' \in Cfg
    BY <1>0, <1>6 DEF Delay, TypeOK, HalCfg, Cfg
  <2> QED
    BY <1>6, <2>1, <2>2 DEF Delay, TypeOK, webVars, envVars
<1>7. {"offDb", "delay", "onDb", "idle"} \subseteq Pc
  BY DEF Pc, ResetPc
<1> QED
  BY <1>1, <1>2, <1>3, <1>4, <1>5, <1>6, <1>7 DEF CosaDmlMocaIfReset

(* A document *)
LEMMA WebTyped ==
    ASSUME TypeOK, Process_Moca_WebConfigRequest \/ \E blob \in Blob : WebRequest(blob)
    PROVE  TypeOK'
<1>0. "web" \in Thread /\ WebPc \cup {"idle"} \subseteq Pc
  BY Threads DEF Pc
<1>g. ASSUME NEW p \in WebPc \cup {"idle"}, Goto("web", p) PROVE pc' \in [Thread -> Pc]
  BY <1>0, <1>g, GotoTyped
<1>1. ASSUME NEW blob \in Blob, WebRequest(blob) PROVE TypeOK'
  <2>1. used' \in [Op -> Nat] /\ pc' \in [Thread -> Pc]
    BY <1>1, <1>g, SpendTyped DEF WebRequest, Op, WebPc
  <2>2. PICK want \in Asked(blob) :
            txn' = [txn EXCEPT !["web"] =
                        [NoTxn EXCEPT !.want.bEnabled = want, !.result = "pending"]]
    BY <1>1 DEF WebRequest
  <2>3. txn' \in [{"bus", "web"} -> Txn]
    <3>1. want \in BOOLEAN
      BY DEF Asked, Says, TypeOK, HalCfg
    <3>2. NoTxn \in Txn /\ NoTxn.want \in HalCfg
      BY DEF NoTxn, Txn, TypeOK
    <3>3. [NoTxn.want EXCEPT !.bEnabled = want] \in HalCfg
      BY <3>1, <3>2 DEF HalCfg
    <3>4. [NoTxn EXCEPT !.want.bEnabled = want, !.result = "pending"] \in Txn
      BY <3>2, <3>3 DEF Txn
    <3> QED
      BY <2>2, <3>4 DEF TypeOK
  <2>4. /\ UNCHANGED <<agentVars, bBridge, g_bMocaEnable_bkup, hal, db, envVars, events,
                       back, mocaCfg, touched, wish>>
        /\ doc' \in BOOLEAN
    BY <1>1 DEF WebRequest
  <2> QED
    BY <2>1, <2>3, <2>4 DEF TypeOK, agentVars, envVars
<1>2. CASE Backup
  <2>1. pc' \in [Thread -> Pc] /\ used' \in [Op -> Nat]
    BY <1>2, <1>g, SpendTyped DEF Backup, WebPc, Op, TypeOK
  <2>2. g_bMocaEnable_bkup' \in BOOLEAN
    BY <1>2 DEF Backup, TypeOK, Db
  <2> QED
    BY <1>2, <2>1, <2>2 DEF Backup, TypeOK, agentVars, envVars
<1>3. CASE Check
  <2>1. pc' \in [Thread -> Pc]
    BY <1>3, <1>g DEF Check, WebPc
  <2>2. used' \in [Op -> Nat]
    BY <1>3, SpendAllTyped DEF Check
  <2> QED
    BY <1>3, <2>1, <2>2 DEF Check, TypeOK, agentVars, webVars, envVars
<1>4. CASE Apply
  <2>1. pc' \in [Thread -> Pc]
    BY <1>4, <1>g DEF Apply, WebPc
  <2>2. txn' \in [{"bus", "web"} -> Txn]
    BY <1>4, ReplyTyped DEF Apply, TypeOK
  <2>3. cfg' \in Cfg /\ mocaCfg' \in [Thread -> HalCfg] /\ bBridge' \in BOOLEAN
    BY <1>0, <1>4 DEF Apply, TypeOK, Cfg, HalCfg
  <2> QED
    BY <1>4, <2>1, <2>2, <2>3 DEF Apply, TypeOK, envVars
<1>5. CASE WebHal
  <2>1. pc' \in [Thread -> Pc] /\ used' \in [Op -> Nat]
    BY <1>5, <1>g, SpendTyped DEF WebHal, WebPc, Op, TypeOK
  <2>2. hal' \in HalCfg
    BY <1>0, <1>5 DEF WebHal, TypeOK
  <2> QED
    BY <1>5, <2>1, <2>2 DEF WebHal, TypeOK, agentVars, webVars, envVars
<1>6. CASE WebDb
  <2>1. pc' \in [Thread -> Pc] /\ used' \in [Op -> Nat]
    BY <1>6, <1>g, SpendTyped DEF WebDb, WebPc, Op, TypeOK
  <2>2. db' \in Db /\ txn' \in [{"bus", "web"} -> Txn]
    BY <1>6, ReplyTyped DEF WebDb, TypeOK, Db, Cfg
  <2> QED
    BY <1>6, <2>1, <2>2 DEF WebDb, TypeOK, agentVars, webVars, envVars
<1>7. CASE rollback_moca_conf
  <2>1. pc' \in [Thread -> Pc] /\ used' \in [Op -> Nat]
    BY <1>7, <1>g, SpendTyped DEF rollback_moca_conf, WebPc, Op, TypeOK
  <2>2. mocaCfg' \in [Thread -> HalCfg]
    BY <1>0, <1>7 DEF rollback_moca_conf, TypeOK, HalCfg
  <2>3. txn' \in [{"bus", "web"} -> Txn]
    BY <1>7, ReplyTyped DEF rollback_moca_conf, TypeOK
  <2> QED
    BY <1>7, <2>1, <2>2, <2>3 DEF rollback_moca_conf, TypeOK, agentVars, webVars, envVars
<1>8. CASE RollHal
  <2>1. pc' \in [Thread -> Pc] /\ used' \in [Op -> Nat]
    BY <1>8, <1>g, SpendTyped DEF RollHal, WebPc, Op, TypeOK
  <2>2. hal' \in HalCfg /\ cfg' \in Cfg
    BY <1>0, <1>8 DEF RollHal, TypeOK, Cfg
  <2>3. txn' \in [{"bus", "web"} -> Txn]
    BY <1>8, ReplyTyped DEF RollHal, TypeOK
  <2> QED
    BY <1>8, <2>1, <2>2, <2>3 DEF RollHal, TypeOK, webVars, envVars
<1>9. CASE RollDb
  <2>1. pc' \in [Thread -> Pc] /\ used' \in [Op -> Nat]
    BY <1>9, <1>g, SpendTyped DEF RollDb, WebPc, Op, TypeOK
  <2>2. db' \in Db /\ txn' \in [{"bus", "web"} -> Txn]
    BY <1>9, ReplyTyped DEF RollDb, TypeOK, Db, Cfg
  <2> QED
    BY <1>9, <2>1, <2>2 DEF RollDb, TypeOK, agentVars, webVars, envVars
<1> QED
  BY <1>1, <1>2, <1>3, <1>4, <1>5, <1>6, <1>7, <1>8, <1>9
  DEF Process_Moca_WebConfigRequest

(* Notifications and the environment *)
LEMMA EnvTyped ==
    ASSUME TypeOK, Event \/ Notify \/ Environment
    PROVE  TypeOK'
<1>0. "sys" \in Thread /\ "snmp" \in Thread
  BY Threads
<1>1. CASE Event
  <2>1. pc' \in [Thread -> Pc] /\ back' \in [Thread -> Caller]
    BY <1>0, <1>1, CallTyped DEF Event, Pc, GetPc, Caller
  <2>2. events' \in Nat
    BY <1>1 DEF Event, TypeOK
  <2>3. cfg' \in Cfg
    BY <1>1 DEF Event, TypeOK, Cfg
  <2> QED
    BY <1>1, <2>1, <2>2, <2>3 DEF Event, TypeOK, webVars, envVars
<1>2. CASE Notify
  <2>1. pc' \in [Thread -> Pc]
    BY <1>0, <1>2, GotoTyped DEF Notify, Pc
  <2> QED
    BY <1>2, <2>1 DEF Notify, TypeOK, agentVars, webVars, envVars
<1>3. CASE Snmp
  <2>1. pc' \in [Thread -> Pc] /\ used' \in [Op -> Nat]
    BY <1>0, <1>3, GotoTyped, SpendTyped DEF Snmp, Pc, Op
  <2>2. hal' \in HalCfg /\ wish' \in BOOLEAN
    BY <1>3 DEF Snmp, TypeOK, HalCfg
  <2> QED
    BY <1>3, <2>1, <2>2 DEF Snmp, TypeOK, agentVars, webVars, envVars
<1>4. CASE ModeChange
  <2>1. used' \in [Op -> Nat]
    BY <1>4, SpendTyped DEF ModeChange, Op
  <2>2. bridge' \in BOOLEAN /\ split' \in BOOLEAN /\ equipped' \in BOOLEAN
    BY <1>4 DEF ModeChange, TypeOK
  <2> QED
    BY <1>4, <2>1, <2>2 DEF ModeChange, TypeOK, agentVars, webVars, ctlVars
<1>5. CASE Restart
  <2>1. used' \in [Op -> Nat]
    BY <1>5, SpendTyped DEF Restart, Op
  <2>2. pc' \in [Thread -> Pc] /\ back' \in [Thread -> Caller]
    BY <1>5 DEF Restart, TypeOK, Pc, BootPc, Caller
  <2>3. cfg' \in Cfg /\ mocaCfg' \in [Thread -> HalCfg]
    BY <1>5, MoCAConfigAssumption DEF Restart, CfgZeroed, Cfg, Zeroed, HalCfg
  <2>4. NoTxn \in Txn
    BY DEF NoTxn, Txn, TypeOK
  <2>5. txn' \in [{"bus", "web"} -> Txn]
    BY <1>5, <2>4 DEF Restart
  <2> QED
    BY <1>5, <2>1, <2>2, <2>3, <2>5 DEF Restart, TypeOK, envVars
<1> QED
  BY <1>1, <1>2, <1>3, <1>4, <1>5 DEF Environment

(* Every step keeps the types. *)
LEMMA TypeStep == TypeOK /\ [Next]_vars => TypeOK'
<1> SUFFICES ASSUME TypeOK, [Next]_vars PROVE TypeOK'
  OBVIOUS
<1>1. CASE UNCHANGED vars
  BY <1>1 DEF TypeOK, vars, agentVars, webVars, envVars, ctlVars
<1>2. CASE Next
  BY <1>2, SetTyped, GetTyped, BootTyped, TxnTyped, ResetTyped, WebTyped, EnvTyped
  DEF Next, Work, Ask
<1> QED
  BY <1>1, <1>2

(* Types are kept: the cache, the driver and syscfg hold configurations,    *)
(* every thread is at a point of the routine it runs and knows its caller.  *)
THEOREM TypeCorrect == Spec => []TypeOK
BY TypeInit, TypeStep, PTL DEF Spec

(* ForceEnable in syscfg, and the flag in memory, change only together in   *)
(* MoCA_SetForceEnable, which stores first; MoCA_Rollback and a start only  *)
(* clear the flag or read what is stored.                                   *)
LEMMA ForceStep == TypeOK /\ ForceStored /\ [Next]_vars => ForceStored'
<1> SUFFICES ASSUME TypeOK, ForceStored, [Next]_vars PROVE ForceStored'
  OBVIOUS
<1>a. ASSUME bForceEnabled' = bForceEnabled, db'.ForceEnable = db.ForceEnable
      PROVE  ForceStored'
  BY <1>a DEF ForceStored
<1>b. /\ \A e : [db EXCEPT !.moca_enabled = e].ForceEnable = db.ForceEnable
      /\ \A k : [db EXCEPT !.moca_password_seed = k].ForceEnable = db.ForceEnable
  BY DEF TypeOK, Db
<1>1. CASE UNCHANGED vars
  BY <1>1, <1>a DEF vars, agentVars
<1>2. ASSUME NEW t \in {"bus", "sys"}, CosaDmlMocaIfSetCfg(t) \/ CosaDmlMocaIfGetCfg(t)
      PROVE  ForceStored'
  BY <1>2, <1>a, <1>b DEF CosaDmlMocaIfSetCfg, SetCfg, SetHal, SetDb, SetSeed,
     CosaDmlMocaIfGetCfg, GetCfg, GetHal, PutHal, PutDb, agentVars
<1>3. CASE Boot \/ BootCheck
  BY <1>3, <1>a DEF Boot, BootCheck, agentVars
<1>4. CASE BootForce
  BY <1>4 DEF BootForce, ForceStored
<1>5. CASE Rollback
  BY <1>5 DEF Rollback, CosaDmlMocaGetCfg, ForceStored
<1>6. ASSUME NEW v \in BOOLEAN, SetForce(v) PROVE ForceStored'
  <2>1. CASE UNCHANGED <<bForceEnabled, db>>
    BY <2>1, <1>a
  <2>2. CASE bForceEnabled' = v /\ db' = [db EXCEPT !.ForceEnable = v]
    BY <2>2 DEF ForceStored, TypeOK, Db
  <2> QED
    BY <1>6, <2>1, <2>2 DEF SetForce
<1>7. CASE TxnOpen \/ Finish \/ Get \/ SetProvisioning
  BY <1>7, <1>a DEF TxnOpen, Finish, Get, SetProvisioning, agentVars
<1>8. ASSUME NEW v \in BOOLEAN,
             SetEnable(v) \/ SetNumber(v) \/ SetDefault(v)
      PROVE  ForceStored'
  BY <1>8, <1>a DEF SetEnable, SetNumber, SetDefault, agentVars
<1>14. ASSUME NEW blob \in Blob, WebRequest(blob) PROVE ForceStored'
  BY <1>14, <1>a DEF WebRequest, agentVars
<1>9. ASSUME NEW k \in Key, SetKey(k) PROVE ForceStored'
  BY <1>9, <1>a DEF SetKey
<1>10. CASE Process_Moca_WebConfigRequest
  BY <1>10, <1>a, <1>b DEF Process_Moca_WebConfigRequest, Backup, Check, Apply, WebHal, WebDb,
     rollback_moca_conf, RollHal, RollDb, agentVars
<1>11. ASSUME NEW r \in Resetter, Reset(r) \/ CosaDmlMocaIfReset(r) PROVE ForceStored'
  BY <1>11, <1>a, <1>b DEF Reset, CosaDmlMocaIfReset, ResetStart, Snapshot, ResetHal, ResetDb,
     Delay, agentVars
<1>12. CASE Event \/ Notify \/ Snmp \/ ModeChange
  BY <1>12, <1>a DEF Event, Notify, Snmp, ModeChange, agentVars
<1>13. CASE Restart
  BY <1>13 DEF Restart, ForceStored
<1> QED
  BY <1>1, <1>2, <1>3, <1>4, <1>5, <1>6, <1>7, <1>8, <1>9, <1>10, <1>11, <1>12,
     <1>13, <1>14 DEF Next, Work, Ask, Environment

(* What the agent takes for forced is stored: neither a failing syscfg nor  *)
(* a rollback, a restart or another thread makes the agent refuse to switch *)
(* MoCA off for a flag that syscfg does not hold.                           *)
THEOREM ForceIsStored == Spec => []ForceStored
<1>1. Init => ForceStored
  BY DEF Init, ForceStored
<1> QED
  BY <1>1, TypeCorrect, ForceStep, PTL DEF Spec

-----------------------------------------------------------------------------
(***************************************************************************)
(* OnlyValidated.  A key that was not validated is in the cache and        *)
(* nowhere else while a transaction is open: a thread that holds values    *)
(* for the driver has them from the driver or from a cache that was        *)
(* validated, and from the validation to the moment the bus thread copies  *)
(* the cache, the other threads only bring keys of the driver into it.     *)
(* Early is the time up to the first look at the driver, when the cache is *)
(* empty: then no other thread is at work, and MoCA is off in the cache.   *)
(***************************************************************************)
Allowed == {"txn", "set", "enable", "key", "default", "reset", "snmp"}

Undisturbed == OnlyUsed(Allowed)

HoldsKey == {"setHal", "putHal", "putDb", "offHal", "offDb", "delay", "onHal"}

KeysValid ==
    /\ hal.KeyPassphrase \in ValidKey
    /\ \A t \in Thread : pc[t] \in HoldsKey => mocaCfg[t].KeyPassphrase \in ValidKey
    /\ pc["bus"] = "setCfg" => cfg.KeyPassphrase \in ValidKey

Places ==
    /\ pc["bus"] \in SetPc => back["bus"] # "bootGet"
    /\ pc["web"] = "idle"
    /\ pc["sys"] \in {"idle"} \cup GetPc
    /\ back["sys"] \in {"none", "event"}

Early ==
    \/ pc["bus"] \in {"boot", "bootCheck"}
    \/ pc["bus"] \in GetPc /\ back["bus"] = "bootGet"

EarlyOff ==
    pc["bus"] \in {"getCfg", "bootCheck"} =>
        cfg.KeyPassphrase \in ValidKey \/ ~cfg.bEnabled

EarlyInv ==
    Early => EarlyOff /\ pc["sys"] = "idle" /\ \A r \in Resetter : pc[r] = "idle"

KeyParts == KeysValid /\ Places /\ EarlyInv

KeyInv == Undisturbed => KeyParts

(* What happened does not become undone. *)
LEMMA Spent ==
    ASSUME TypeOK, NEW ops, SpendAll(ops), Undisturbed'
    PROVE  Undisturbed /\ ops \cap Op \subseteq Allowed
<1>1. ASSUME NEW o \in Op \ Allowed PROVE used[o] = 0 /\ o \notin ops
  <2>1. used'[o] = 0 /\ used[o] \in Nat
    BY <1>1 DEF Undisturbed, OnlyUsed, TypeOK
  <2>2. used'[o] = IF o \in ops THEN used[o] + 1 ELSE used[o]
    BY <1>1 DEF SpendAll
  <2> QED
    BY <2>1, <2>2
<1> QED
  BY <1>1 DEF Undisturbed, OnlyUsed

LEMMA SpentOne ==
    ASSUME TypeOK, NEW o \in Op, Spend(o), Undisturbed'
    PROVE  Undisturbed /\ o \in Allowed
BY Spent DEF Spend

LEMMA NothingSpent ==
    ASSUME used' = used, Undisturbed'
    PROVE  Undisturbed
BY DEF Undisturbed, OnlyUsed

(* A step of one thread: what has to be shown of it. *)
OthersStay(t) ==
    \A u \in Thread \ {t} :
        pc'[u] = pc[u] /\ back'[u] = back[u] /\ mocaCfg'[u] = mocaCfg[u]

LEMMA KeyKept ==
    ASSUME KeyParts, NEW t \in Thread, OthersStay(t),
           hal'.KeyPassphrase \in ValidKey,
           pc'[t] \in HoldsKey => mocaCfg'[t].KeyPassphrase \in ValidKey
    PROVE  /\ \A u \in Thread : pc'[u] \in HoldsKey => mocaCfg'[u].KeyPassphrase \in ValidKey
           /\ hal'.KeyPassphrase \in ValidKey
BY DEF KeyParts, KeysValid, OthersStay

(* The bus thread. *)
LEMMA BusKept ==
    ASSUME KeyParts, OthersStay("bus"),
           hal'.KeyPassphrase \in ValidKey,
           pc'["bus"] \in HoldsKey => mocaCfg'["bus"].KeyPassphrase \in ValidKey,
           pc'["bus"] = "setCfg" => cfg'.KeyPassphrase \in ValidKey,
           pc'["bus"] \in SetPc => back'["bus"] # "bootGet",
           Early' => Early /\ EarlyOff'
    PROVE  KeyParts'
<1>1. /\ pc'["web"] = pc["web"] /\ pc'["sys"] = pc["sys"] /\ back'["sys"] = back["sys"]
      /\ \A r \in Resetter : pc'[r] = pc[r]
  BY Threads, MoCAConfigAssumption DEF OthersStay
<1>2. KeysValid'
  BY KeyKept, Threads DEF KeysValid
<1>3. Places'
  BY <1>1 DEF Places, KeyParts
<1>4. EarlyInv'
  BY <1>1 DEF EarlyInv, KeyParts
<1> QED
  BY <1>2, <1>3, <1>4 DEF KeyParts

(* The threads that reset, and that of the notifications. *)
LEMMA OtherKept ==
    ASSUME KeyParts, NEW t \in Resetter \cup {"sys"}, OthersStay(t), ~Early,
           hal'.KeyPassphrase \in ValidKey,
           pc'[t] \in HoldsKey => mocaCfg'[t].KeyPassphrase \in ValidKey,
           cfg'.KeyPassphrase \in ValidKey \cup {cfg.KeyPassphrase},
           t = "sys" => pc'[t] \in {"idle"} \cup GetPc /\ back'[t] \in {"none", "event"}
    PROVE  KeyParts'
<1>0. t \in Thread /\ t # "bus" /\ t # "web"
  BY Threads, MoCAConfigAssumption
<1>1. /\ pc'["web"] = pc["web"] /\ pc'["bus"] = pc["bus"] /\ back'["bus"] = back["bus"]
      /\ t # "sys" => pc'["sys"] = pc["sys"] /\ back'["sys"] = back["sys"]
  BY <1>0, Threads DEF OthersStay
<1>2. KeysValid'
  <2>1. pc'["bus"] = "setCfg" => cfg'.KeyPassphrase \in ValidKey
    BY <1>1 DEF KeyParts, KeysValid
  <2> QED
    BY <1>0, <2>1, KeyKept DEF KeysValid
<1>3. Places'
  BY <1>1 DEF Places, KeyParts
<1>4. ~Early'
  BY <1>1 DEF Early
<1> QED
  BY <1>2, <1>3, <1>4 DEF KeyParts, EarlyInv

(* Where a routine returns to. *)
LEMMA Returned ==
    ASSUME TypeOK, NEW t \in {"bus", "sys"}, NEW ok \in BOOLEAN, Return(t, ok)
    PROVE  /\ pc'[t] \in {"getCfg", "bootCheck", "bootForce", "open", "idle"}
           /\ pc'[t] = "bootCheck" => back[t] = "bootGet"
           /\ pc'[t] = "getCfg" => back'[t] = "discard"
           /\ back[t] \in {"none", "event"} => pc'[t] = "idle" /\ back'[t] = "none"
           /\ \A u \in Thread \ {t} : pc'[u] = pc[u] /\ back'[u] = back[u]
<1>1. t \in Thread
  BY Threads
<1>2. CASE back[t] = "commit" /\ ~ok
  <2>1. pc' = [pc EXCEPT ![t] = "getCfg"] /\ back' = [back EXCEPT ![t] = "discard"]
    BY <1>2 DEF Return, Call, Goto
  <2> QED
    BY <1>1, <1>2, <2>1 DEF TypeOK
<1>3. CASE ~(back[t] = "commit" /\ ~ok)
  <2>1. back' = [back EXCEPT ![t] = "none"]
    BY <1>3 DEF Return
  <2>2. \E p \in {"bootCheck", "bootForce", "open", "idle"} :
            /\ pc' = [pc EXCEPT ![t] = p]
            /\ p = "bootCheck" => back[t] = "bootGet"
            /\ back[t] \in {"none", "event"} => p = "idle"
    BY <1>3 DEF Return, Goto
  <2> QED
    BY <1>1, <2>1, <2>2 DEF TypeOK
<1> QED
  BY <1>2, <1>3

(* A thread that goes on without a call. *)
LEMMA Gone ==
    ASSUME TypeOK, NEW t \in Thread, NEW p, Goto(t, p)
    PROVE  pc'[t] = p /\ \A u \in Thread \ {t} : pc'[u] = pc[u]
BY DEF TypeOK, Goto

LEMMA Called ==
    ASSUME TypeOK, NEW t \in Thread, NEW p, NEW c, Call(t, p, c)
    PROVE  /\ pc'[t] = p /\ back'[t] = c
           /\ \A u \in Thread \ {t} : pc'[u] = pc[u] /\ back'[u] = back[u]
BY DEF TypeOK, Call, Goto

(* CosaDmlMocaIfSetCfg is called for validated values. *)
LEMMA SetKeeps ==
    ASSUME TypeOK, Undisturbed', KeyInv, NEW t \in {"bus", "sys"}, CosaDmlMocaIfSetCfg(t)
    PROVE  KeyParts'
<1>1. KeyParts
  BY NothingSpent, SpentOne DEF CosaDmlMocaIfSetCfg, SetCfg, SetHal, SetDb, SetSeed, Op, KeyInv
<1>2. t = "bus" /\ t \in Thread /\ pc["bus"] \in SetPc /\ back["bus"] # "bootGet" /\ ~Early
  BY <1>1, Threads DEF CosaDmlMocaIfSetCfg, SetCfg, SetHal, SetDb, SetSeed, SetPc, GetPc,
     KeyParts, Places, Early
<1>r. ASSUME NEW ok \in BOOLEAN, Return("bus", ok), mocaCfg' = mocaCfg, hal' = hal
      PROVE  KeyParts'
  <2>1. pc'["bus"] \notin HoldsKey \cup SetPc /\ OthersStay("bus") /\ ~Early'
    BY <1>2, <1>r, Returned DEF HoldsKey, SetPc, OthersStay, Early, GetPc
  <2> QED
    BY <1>1, <1>r, <2>1, BusKept DEF KeyParts, KeysValid, SetPc
<1>g. ASSUME NEW p \in {"setHal", "setDb", "setSeed"}, Goto("bus", p), back' = back,
             \A u \in Thread \ {"bus"} : mocaCfg'[u] = mocaCfg[u],
             hal'.KeyPassphrase \in ValidKey,
             p = "setHal" => mocaCfg'["bus"].KeyPassphrase \in ValidKey
      PROVE  KeyParts'
  <2>1. pc'["bus"] = p /\ OthersStay("bus")
    BY <1>2, <1>g, Gone DEF OthersStay
  <2> QED
    BY <1>1, <1>2, <1>g, <2>1, BusKept DEF HoldsKey, Early, GetPc
<1>3. CASE SetCfg(t)
  <2>1. CASE Available
    <3>1. Build.KeyPassphrase = cfg.KeyPassphrase /\ cfg.KeyPassphrase \in ValidKey
      BY <1>1, <1>2, <1>3 DEF Build, SetCfg, KeyParts, KeysValid
    <3>2. mocaCfg' = [mocaCfg EXCEPT !["bus"] = Build]
          /\ Goto("bus", "setHal") /\ back' = back /\ hal' = hal
      BY <1>2, <1>3, <2>1 DEF SetCfg
    <3>3. mocaCfg'["bus"] = Build /\ \A u \in Thread \ {"bus"} : mocaCfg'[u] = mocaCfg[u]
      BY <1>2, <3>2 DEF TypeOK
    <3> QED
      BY <1>1, <1>g, <3>1, <3>2, <3>3 DEF KeyParts, KeysValid
  <2>2. CASE ~Available
    BY <1>2, <1>3, <1>r, <2>2 DEF SetCfg
  <2> QED
    BY <2>1, <2>2
<1>4. CASE SetHal(t)
  <2>1. mocaCfg[t].KeyPassphrase \in ValidKey
    BY <1>1, <1>2, <1>4 DEF SetHal, KeyParts, KeysValid, HoldsKey
  <2>2. CASE Return(t, FALSE) /\ hal' = hal
    BY <1>2, <1>4, <1>r, <2>2 DEF SetHal
  <2>3. CASE hal' = mocaCfg[t] /\ Goto(t, "setDb") /\ back' = back
    BY <1>2, <1>4, <1>g, <2>1, <2>3 DEF SetHal
  <2> QED
    BY <1>4, <2>2, <2>3 DEF SetHal
<1>5. CASE SetDb(t)
  <2>1. Goto("bus", "setSeed") /\ back' = back /\ mocaCfg' = mocaCfg /\ hal' = hal
    BY <1>2, <1>5 DEF SetDb
  <2> QED
    BY <1>1, <1>g, <2>1 DEF KeyParts, KeysValid
<1>6. CASE SetSeed(t)
  BY <1>2, <1>6, <1>r DEF SetSeed
<1> QED
  BY <1>3, <1>4, <1>5, <1>6 DEF CosaDmlMocaIfSetCfg

(* CosaDmlMocaIfGetCfg brings keys of the driver only. *)
LEMMA GetMoves ==
    ASSUME TypeOK, KeyParts, NEW t \in {"bus", "sys"}, pc[t] \in GetPc,
           hal'.KeyPassphrase \in ValidKey,
           mocaCfg'[t].KeyPassphrase \in ValidKey \/ pc'[t] \notin HoldsKey,
           cfg'.KeyPassphrase \in ValidKey \cup {cfg.KeyPassphrase},
           \A u \in Thread \ {t} : mocaCfg'[u] = mocaCfg[u],
           \/ \E ok \in BOOLEAN : Return(t, ok)
           \/ \E p \in GetPc \ {"getCfg"} : Goto(t, p) /\ back' = back,
           pc'["bus"] = "bootCheck" => EarlyOff'
    PROVE  KeyParts'
<1>1. t \in Thread /\ OthersStay(t)
  BY Threads, Returned, Gone DEF OthersStay
<1>2. CASE t = "bus"
  <2>1. pc'["bus"] \notin SetPc
    BY <1>1, <1>2, Returned, Gone DEF SetPc, GetPc
  <2>2. Early' => Early /\ (pc'["bus"] = "bootCheck" \/ pc'["bus"] \in GetPc \ {"getCfg"})
    <3>1. CASE \E ok \in BOOLEAN : Return("bus", ok)
      BY <1>2, <3>1, Returned DEF Early, GetPc
    <3>2. CASE \E p \in GetPc \ {"getCfg"} : Goto("bus", p) /\ back' = back
      BY <1>1, <1>2, <3>2, Gone DEF Early, GetPc
    <3> QED
      BY <1>2, <3>1, <3>2
  <2>3. Early' => Early /\ EarlyOff'
    BY <2>2 DEF EarlyOff, GetPc
  <2> QED
    BY <1>1, <1>2, <2>1, <2>3, BusKept DEF SetPc
<1>3. CASE t = "sys"
  <2>1. ~Early /\ back["sys"] \in {"none", "event"}
    BY <1>3 DEF KeyParts, Places, EarlyInv, GetPc
  <2>2. pc'["sys"] \in {"idle"} \cup GetPc /\ back'["sys"] \in {"none", "event"}
    <3>1. CASE \E ok \in BOOLEAN : Return("sys", ok)
      BY <1>3, <2>1, <3>1, Returned
    <3>2. CASE \E p \in GetPc \ {"getCfg"} : Goto("sys", p) /\ back' = back
      BY <1>1, <1>3, <2>1, <3>2, Gone
    <3> QED
      BY <1>3, <3>1, <3>2
  <2> QED
    BY <1>1, <1>3, <2>1, <2>2, OtherKept
<1> QED
  BY <1>2, <1>3

LEMMA GetKeeps ==
    ASSUME TypeOK, Undisturbed', KeyInv, NEW t \in {"bus", "sys"}, CosaDmlMocaIfGetCfg(t)
    PROVE  KeyParts'
<1>1. KeyParts
  BY NothingSpent, SpentOne DEF CosaDmlMocaIfGetCfg, GetCfg, GetHal, PutHal, PutDb, Op, KeyInv
<1>2. ~Spend("halGet") /\ ~Spend("halSet") /\ ~Spend("syscfg")
  BY SpentOne DEF Op, Allowed
<1>3. t \in Thread /\ hal.KeyPassphrase \in ValidKey /\ pc[t] \in GetPc
  BY <1>1, Threads DEF KeyParts, KeysValid, CosaDmlMocaIfGetCfg, GetCfg, GetHal, PutHal, PutDb,
     GetPc
<1>c. ASSUME NEW h \in HalCfg PROVE Copied(h).KeyPassphrase = h.KeyPassphrase
  BY DEF Copied, TypeOK, Cfg
<1>o. ASSUME cfg'.KeyPassphrase \in ValidKey PROVE EarlyOff'
  BY <1>o DEF EarlyOff
<1>4. CASE GetCfg(t)
  <2>0. UNCHANGED <<cfg, hal, mocaCfg>> /\ pc[t] = "getCfg"
    BY <1>4 DEF GetCfg
  <2>1. CASE Available
    <3>1. Goto(t, "getHal") /\ back' = back
      BY <1>4, <2>1 DEF GetCfg
    <3>2. pc'[t] = "getHal" /\ \A u \in Thread \ {t} : pc'[u] = pc[u]
      BY <1>3, <3>1, Gone
    <3>3. pc'["bus"] = "bootCheck" => EarlyOff'
      BY <2>0, <3>1, <3>2, <1>1, Threads DEF EarlyOff, KeyParts, EarlyInv, Early
    <3> QED
      BY <1>1, <1>3, <2>0, <3>1, <3>2, <3>3, GetMoves DEF GetPc, HoldsKey
  <2>2. CASE ~Available
    <3>1. Return(t, FALSE)
      BY <1>4, <2>2 DEF GetCfg
    <3>2. pc'[t] \notin HoldsKey
      BY <3>1, Returned DEF HoldsKey
    <3>3. pc'["bus"] = "bootCheck" => EarlyOff'
      <4>1. CASE t = "bus"
        BY <1>1, <2>0, <3>1, <4>1, Returned DEF EarlyOff, KeyParts, EarlyInv, Early, GetPc
      <4>2. CASE t = "sys"
        BY <1>1, <2>0, <3>1, <4>2, Returned, Threads DEF EarlyOff, KeyParts, EarlyInv, Early
      <4> QED
        BY <4>1, <4>2
    <3> QED
      BY <1>1, <1>3, <2>0, <3>1, <3>2, <3>3, GetMoves
  <2> QED
    BY <2>1, <2>2
<1>5. CASE GetHal(t)
  <2>1. /\ mocaCfg' = [mocaCfg EXCEPT ![t] = hal] /\ hal' = hal
        /\ \/ cfg' = Copied(hal) /\ Return(t, TRUE)
           \/ /\ cfg' = [cfg EXCEPT !.bEnabled = hal.bEnabled]
              /\ \E p \in {"putHal", "putDb"} : Goto(t, p) /\ back' = back
    BY <1>2, <1>5 DEF GetHal
  <2>2. mocaCfg'[t].KeyPassphrase \in ValidKey /\ \A u \in Thread \ {t} : mocaCfg'[u] = mocaCfg[u]
    BY <1>3, <2>1 DEF TypeOK
  <2>3. CASE cfg' = Copied(hal) /\ Return(t, TRUE)
    <3>1. cfg'.KeyPassphrase \in ValidKey
      BY <1>3, <1>c, <2>3 DEF TypeOK
    <3> QED
      BY <1>1, <1>3, <1>o, <2>1, <2>2, <2>3, <3>1, GetMoves
  <2>4. CASE /\ cfg' = [cfg EXCEPT !.bEnabled = hal.bEnabled]
             /\ \E p \in {"putHal", "putDb"} : Goto(t, p) /\ back' = back
    <3>1. cfg'.KeyPassphrase = cfg.KeyPassphrase
      BY <2>4 DEF TypeOK, Cfg
    <3>2. pc'[t] \in {"putHal", "putDb"} /\ \A u \in Thread \ {t} : pc'[u] = pc[u]
      BY <1>3, <2>4, Gone
    <3>3. pc'["bus"] # "bootCheck"
      <4>1. CASE t = "bus"
        BY <3>2, <4>1
      <4>2. CASE t = "sys"
        BY <1>1, <1>3, <3>2, <4>2, Threads DEF KeyParts, EarlyInv, Early, GetPc
      <4> QED
        BY <4>1, <4>2
    <3> QED
      BY <1>1, <1>3, <2>1, <2>2, <2>4, <3>1, <3>3, GetMoves DEF GetPc
  <2> QED
    BY <2>1, <2>3, <2>4
<1>6. CASE PutHal(t)
  <2> DEFINE put == [mocaCfg[t] EXCEPT !.bEnabled = moca_enable_db]
  <2>1. put \in HalCfg /\ put.KeyPassphrase \in ValidKey
    BY <1>1, <1>3, <1>6 DEF TypeOK, HalCfg, PutHal, KeyParts, KeysValid, HoldsKey
  <2>2. hal' = put /\ cfg' = Copied(put) /\ Return(t, TRUE) /\ mocaCfg' = mocaCfg
    BY <1>2, <1>6 DEF PutHal
  <2> HIDE DEF put
  <2>3. cfg'.KeyPassphrase \in ValidKey /\ hal'.KeyPassphrase \in ValidKey
    BY <1>c, <2>1, <2>2
  <2>4. pc'[t] \notin HoldsKey
    BY <2>2, Returned DEF HoldsKey
  <2> QED
    BY <1>1, <1>3, <1>o, <2>2, <2>3, <2>4, GetMoves
<1>7. CASE PutDb(t)
  <2>1. mocaCfg[t].KeyPassphrase \in ValidKey
    BY <1>1, <1>3, <1>7 DEF PutDb, KeyParts, KeysValid, HoldsKey
  <2>2. Return(t, TRUE) /\ hal' = hal /\ mocaCfg' = mocaCfg
        /\ cfg'.KeyPassphrase = mocaCfg[t].KeyPassphrase
    BY <1>7 DEF PutDb, TypeOK, Cfg
  <2>3. pc'[t] \notin HoldsKey
    BY <2>2, Returned DEF HoldsKey
  <2> QED
    BY <1>1, <1>3, <1>o, <2>1, <2>2, <2>3, GetMoves
<1> QED
  BY <1>4, <1>5, <1>6, <1>7 DEF CosaDmlMocaIfGetCfg

(* The start.  The driver is looked at before anything is given to it. *)
LEMMA BootKeeps ==
    ASSUME TypeOK, Undisturbed', KeyInv, Boot \/ BootCheck \/ BootForce
    PROVE  KeyParts'
<1>1. KeyParts /\ UNCHANGED <<hal, mocaCfg>>
  BY NothingSpent, SpentOne DEF Boot, BootCheck, BootForce, KeyInv, Op
<1>2. Early \/ pc["bus"] = "bootForce"
  BY DEF Boot, BootCheck, BootForce, Early
<1>b. ASSUME OthersStay("bus"), pc'["bus"] \notin HoldsKey,
             pc'["bus"] = "setCfg" => cfg'.KeyPassphrase \in ValidKey,
             pc'["bus"] \in SetPc => back'["bus"] # "bootGet",
             Early' => Early /\ EarlyOff'
      PROVE  KeyParts'
  BY <1>1, <1>b, BusKept DEF KeyParts, KeysValid
<1>g. ASSUME NEW p \in {"bootForce", "idle"}, Goto("bus", p), back' = back
      PROVE  KeyParts'
  <2>1. pc'["bus"] = p /\ OthersStay("bus")
    BY <1>1, <1>g, Gone, Threads DEF OthersStay
  <2> QED
    BY <1>b, <2>1 DEF HoldsKey, SetPc, Early, GetPc
<1>3. CASE Boot
  <2>1. CASE equipped
    <3>1. Call("bus", "getCfg", "bootGet") /\ cfg' = CfgZeroed /\ Early
      BY <1>3, <2>1 DEF Boot, Early
    <3>2. OthersStay("bus") /\ pc'["bus"] = "getCfg"
      BY <1>1, <3>1, Called, Threads DEF OthersStay
    <3>3. EarlyOff'
      BY <3>1 DEF EarlyOff, CfgZeroed
    <3> QED
      BY <1>b, <3>1, <3>2, <3>3 DEF HoldsKey, SetPc
  <2>2. CASE ~equipped
    BY <1>3, <1>g, <2>2 DEF Boot
  <2> QED
    BY <2>1, <2>2
<1>4. CASE BootCheck
  <2>1. CASE cfg.bEnabled /\ ~Routing
    <3>1. Call("bus", "setCfg", "bootSet") /\ cfg' = cfg
      BY <1>4, <2>1 DEF BootCheck, agentVars
    <3>2. OthersStay("bus") /\ pc'["bus"] = "setCfg" /\ back'["bus"] = "bootSet"
      BY <1>1, <3>1, Called, Threads DEF OthersStay
    <3>3. cfg'.KeyPassphrase \in ValidKey
      BY <1>1, <1>4, <2>1, <3>1 DEF BootCheck, KeyParts, EarlyInv, Early, EarlyOff
    <3> QED
      BY <1>b, <3>2, <3>3 DEF HoldsKey, Early, GetPc
  <2>2. CASE ~(cfg.bEnabled /\ ~Routing)
    BY <1>4, <1>g, <2>2 DEF BootCheck
  <2> QED
    BY <2>1, <2>2
<1>5. CASE BootForce
  BY <1>5, <1>g DEF BootForce
<1> QED
  BY <1>3, <1>4, <1>5

(* A transaction: the commit calls CosaDmlMocaIfSetCfg for what was         *)
(* validated and for nothing else.                                          *)
LEMMA TxnKeeps ==
    ASSUME TypeOK, Undisturbed', KeyInv,
           \/ TxnOpen \/ Finish \/ Rollback \/ Get
           \/ \E v \in BOOLEAN : SetEnable(v) \/ SetDefault(v)
           \/ \E k \in Key : SetKey(k)
    PROVE  KeyParts'
<1>0. ~Spend("get")
  BY SpentOne DEF Op, Allowed
<1>1. KeyParts
  <2>1. ASSUME NEW v, SetEnable(v) PROVE Undisturbed
    BY <2>1, Spent DEF SetEnable
  <2>2. ASSUME NEW v, SetDefault(v) \/ SetKey(v) PROVE Undisturbed
    BY <2>2, Spent DEF SetDefault, SetKey
  <2> QED
    BY <1>0, <2>1, <2>2, NothingSpent, SpentOne DEF TxnOpen, Finish, Rollback, Get, Op, KeyInv
<1>2. UNCHANGED <<hal, mocaCfg>> /\ pc["bus"] \in {"idle", "open", "rollback"} /\ ~Early
  BY DEF TxnOpen, Finish, Rollback, Get, SetEnable, SetDefault, SetKey, Early, GetPc
<1>b. ASSUME OthersStay("bus"), pc'["bus"] \notin HoldsKey,
             pc'["bus"] = "setCfg" => cfg'.KeyPassphrase \in ValidKey,
             pc'["bus"] \in SetPc => back'["bus"] # "bootGet",
             pc'["bus"] \notin BootPc, pc'["bus"] \in GetPc => back'["bus"] # "bootGet"
      PROVE  KeyParts'
  BY <1>1, <1>2, <1>b, BusKept DEF KeyParts, KeysValid, Early, BootPc
<1>g. ASSUME NEW p \in {"idle", "open", "rollback"}, back' = back,
             Goto("bus", p) \/ (pc' = pc /\ p = pc["bus"])
      PROVE  KeyParts'
  <2>1. pc'["bus"] = p /\ OthersStay("bus")
    BY <1>2, <1>g, Gone, Threads DEF OthersStay
  <2> QED
    BY <1>b, <2>1 DEF HoldsKey, SetPc, BootPc, GetPc
<1>c. ASSUME NEW c \in {"undo", "get"}, Call("bus", "getCfg", c) PROVE KeyParts'
  <2>1. pc'["bus"] = "getCfg" /\ back'["bus"] = c /\ OthersStay("bus")
    BY <1>2, <1>c, Called, Threads DEF OthersStay
  <2> QED
    BY <1>b, <2>1 DEF HoldsKey, SetPc, BootPc
<1>3. CASE TxnOpen
  BY <1>3, <1>g DEF TxnOpen
<1>4. CASE Finish
  <2>1. CASE "Interface" \in touched /\ cfg.KeyPassphrase \notin ValidKey
    BY <1>4, <1>g, <2>1 DEF Finish
  <2>2. CASE "Interface" \in touched /\ cfg.KeyPassphrase \in ValidKey
    <3>1. Call("bus", "setCfg", "commit") /\ cfg' = cfg
      BY <1>4, <2>2 DEF Finish
    <3>2. pc'["bus"] = "setCfg" /\ back'["bus"] = "commit" /\ OthersStay("bus")
      BY <1>2, <3>1, Called, Threads DEF OthersStay
    <3> QED
      BY <1>b, <2>2, <3>1, <3>2 DEF HoldsKey, BootPc, GetPc
  <2>3. CASE "Interface" \notin touched
    BY <1>4, <1>g, <2>3 DEF Finish
  <2> QED
    BY <2>1, <2>2, <2>3
<1>5. CASE Rollback
  BY <1>5, <1>c, <1>g DEF Rollback
<1>6. CASE Get
  BY <1>6, <1>0 DEF Get
<1>7. ASSUME NEW v \in BOOLEAN, SetEnable(v) PROVE KeyParts'
  <2>1. /\ pc["bus"] = "open" /\ back' = back
        /\ Goto("bus", "rollback") \/ pc' = pc
    BY <1>7 DEF SetEnable
  <2> QED
    BY <1>g, <2>1
<1>8. ASSUME NEW v, SetDefault(v) \/ SetKey(v) PROVE KeyParts'
  <2>1. pc["bus"] = "open" /\ back' = back /\ pc' = pc
    BY <1>8 DEF SetDefault, SetKey
  <2> QED
    BY <1>g, <2>1
<1> QED
  BY <1>3, <1>4, <1>5, <1>6, <1>7, <1>8

(* A reset gives the driver what the driver had. *)
LEMMA ResetKeeps ==
    ASSUME TypeOK, Undisturbed', KeyInv, NEW r \in Resetter, Reset(r) \/ CosaDmlMocaIfReset(r)
    PROVE  KeyParts'
<1>0. r \in Thread
  BY Threads
<1>1. KeyParts /\ back' = back
  BY NothingSpent, SpentOne DEF Reset, CosaDmlMocaIfReset, ResetStart, Snapshot, ResetHal,
     ResetDb, Delay, Op, KeyInv
<1>2. ~Spend("halGet") /\ ~Spend("halSet") /\ ~Spend("syscfg")
  BY SpentOne DEF Op, Allowed
<1>3. ~Early
  BY <1>1 DEF Reset, CosaDmlMocaIfReset, ResetStart, Snapshot, ResetHal, ResetDb, Delay,
     Early, KeyParts, EarlyInv, GetPc
<1>k. ASSUME NEW p, Goto(r, p), hal'.KeyPassphrase \in ValidKey,
             p \in HoldsKey => mocaCfg'[r].KeyPassphrase \in ValidKey,
             \A u \in Thread \ {r} : mocaCfg'[u] = mocaCfg[u],
             cfg'.KeyPassphrase = cfg.KeyPassphrase
      PROVE  KeyParts'
  <2>1. pc'[r] = p /\ OthersStay(r)
    BY <1>0, <1>1, <1>k, Gone DEF OthersStay
  <2> QED
    BY <1>1, <1>3, <1>k, <2>1, OtherKept, MoCAConfigAssumption
<1>h. hal.KeyPassphrase \in ValidKey
  BY <1>1 DEF KeyParts, KeysValid
<1>m. ASSUME pc[r] \in HoldsKey PROVE mocaCfg[r].KeyPassphrase \in ValidKey
  BY <1>0, <1>1, <1>m DEF KeyParts, KeysValid
<1>4. CASE Reset(r)
  BY <1>4, <1>h, <1>k DEF Reset, agentVars, HoldsKey
<1>5. CASE ResetStart(r)
  BY <1>5, <1>h, <1>k DEF ResetStart, HoldsKey
<1>6. CASE Snapshot(r)
  <2>1. /\ mocaCfg' = [mocaCfg EXCEPT ![r] = [hal EXCEPT !.bEnabled = FALSE]]
        /\ cfg' = [cfg EXCEPT !.bEnabled = FALSE]
        /\ Goto(r, "offHal") /\ hal' = hal
    BY <1>2, <1>6 DEF Snapshot
  <2>2. /\ mocaCfg'[r].KeyPassphrase = hal.KeyPassphrase
        /\ \A u \in Thread \ {r} : mocaCfg'[u] = mocaCfg[u]
        /\ cfg'.KeyPassphrase = cfg.KeyPassphrase
    BY <1>0, <2>1 DEF TypeOK, HalCfg, Cfg
  <2> QED
    BY <1>h, <1>k, <2>1, <2>2
<1>7. ASSUME NEW now \in {"offHal", "onHal"}, NEW next \in {"offDb", "onDb"},
             ResetHal(r, now, next)
      PROVE  KeyParts'
  <2>1. hal' = mocaCfg[r] /\ Goto(r, next) /\ UNCHANGED <<cfg, mocaCfg>> /\ pc[r] = now
    BY <1>2, <1>7 DEF ResetHal, agentVars
  <2> QED
    BY <1>k, <1>m, <2>1 DEF HoldsKey
<1>8. CASE ResetDb(r, "offDb", "delay", FALSE)
  BY <1>8, <1>h, <1>k, <1>m DEF ResetDb, agentVars, HoldsKey
<1>9. CASE ResetDb(r, "onDb", "idle", TRUE)
  BY <1>9, <1>h, <1>k DEF ResetDb, agentVars, HoldsKey
<1>10. CASE Delay(r)
  <2>1. /\ mocaCfg' = [mocaCfg EXCEPT ![r].bEnabled = TRUE]
        /\ cfg' = [cfg EXCEPT !.bEnabled = TRUE]
        /\ Goto(r, "onHal") /\ hal' = hal /\ pc[r] = "delay"
    BY <1>10 DEF Delay
  <2>2. /\ mocaCfg'[r].KeyPassphrase = mocaCfg[r].KeyPassphrase
        /\ \A u \in Thread \ {r} : mocaCfg'[u] = mocaCfg[u]
        /\ cfg'.KeyPassphrase = cfg.KeyPassphrase
    BY <1>0, <2>1 DEF TypeOK, HalCfg, Cfg
  <2> QED
    BY <1>h, <1>k, <1>m, <2>1, <2>2 DEF HoldsKey
<1> QED
  BY <1>4, <1>5, <1>6, <1>7, <1>8, <1>9, <1>10 DEF CosaDmlMocaIfReset

(* The SNMP agent sets the driver, but no key; the notification of it is    *)
(* taken once the start is over.                                            *)
LEMMA EventKeeps ==
    ASSUME TypeOK, Undisturbed', KeyInv, Event \/ Notify \/ Snmp
    PROVE  KeyParts'
<1>1. KeyParts /\ mocaCfg' = mocaCfg
  BY NothingSpent, SpentOne DEF Event, Notify, Snmp, Op, KeyInv
<1>2. CASE Event
  <2>1. Call("sys", "getCfg", "event") /\ hal' = hal /\ ~Early
    BY <1>2 DEF Event, Booted, BootPc, Early
  <2>2. pc'["sys"] = "getCfg" /\ back'["sys"] = "event" /\ OthersStay("sys")
    BY <1>1, <2>1, Called, Threads DEF OthersStay
  <2>3. cfg'.KeyPassphrase = cfg.KeyPassphrase
    BY <1>2 DEF Event, TypeOK, Cfg
  <2> QED
    BY <1>1, <2>1, <2>2, <2>3, OtherKept DEF HoldsKey, GetPc, KeyParts, KeysValid
<1>3. CASE Notify \/ Snmp
  <2>1. hal'.KeyPassphrase = hal.KeyPassphrase /\ cfg' = cfg /\ back' = back
    BY <1>3 DEF Notify, Snmp, TypeOK, HalCfg, agentVars
  <2>2. pc'["snmp"] \in {"notify", "idle"} /\ \A u \in Thread \ {"snmp"} : pc'[u] = pc[u]
    BY <1>3, Gone, Threads DEF Notify, Snmp
  <2>3. /\ pc'["bus"] = pc["bus"] /\ pc'["web"] = pc["web"] /\ pc'["sys"] = pc["sys"]
        /\ \A r \in Resetter : pc'[r] = pc[r]
    BY <2>2, Threads, MoCAConfigAssumption
  <2>4. \A u \in Thread : pc'[u] \in HoldsKey => pc'[u] = pc[u]
    BY <2>2 DEF HoldsKey
  <2> QED
    BY <1>1, <2>1, <2>3, <2>4 DEF KeyParts, KeysValid, Places, EarlyInv, Early, EarlyOff
<1> QED
  BY <1>2, <1>3

LEMMA KeyStep == TypeOK /\ KeyInv /\ [Next]_vars => KeyInv'
<1> SUFFICES ASSUME TypeOK, KeyInv, [Next]_vars, Undisturbed' PROVE KeyParts'
  BY DEF KeyInv
<1>1. CASE UNCHANGED vars
  <2>1. KeyParts
    BY <1>1, NothingSpent DEF vars, KeyInv
  <2> QED
    BY <1>1, <2>1 DEF vars, agentVars, ctlVars, KeyParts, KeysValid, Places, EarlyInv, Early,
       EarlyOff
<1>2. ASSUME NEW v, SetProvisioning \/ SetNumber(v) PROVE FALSE
  BY <1>2, Spent DEF SetProvisioning, SetNumber, Op, Allowed
<1>3. ASSUME NEW v, SetForce(v) PROVE FALSE
  BY <1>3, Spent DEF SetForce, Op, Allowed
<1>4. ASSUME NEW blob \in Blob, WebRequest(blob) PROVE FALSE
  BY <1>4, SpentOne DEF WebRequest, Op, Allowed
<1>5. CASE ModeChange \/ Restart
  BY <1>5, SpentOne DEF ModeChange, Restart, Op, Allowed
<1>6. CASE Process_Moca_WebConfigRequest
  <2>1. Undisturbed
    BY <1>6, NothingSpent, Spent, SpentOne DEF Process_Moca_WebConfigRequest, Backup, Check,
       Apply, WebHal, WebDb, rollback_moca_conf, RollHal, RollDb, Op
  <2> QED
    BY <1>6, <2>1 DEF KeyInv, KeyParts, Places, Process_Moca_WebConfigRequest, Backup, Check,
       Apply, WebHal, WebDb, rollback_moca_conf, RollHal, RollDb
<1> QED
  BY <1>1, <1>2, <1>3, <1>4, <1>5, <1>6, SetKeeps, GetKeeps, BootKeeps, TxnKeeps, ResetKeeps,
     EventKeeps DEF Next, Work, Ask, Environment

LEMMA KeyInit == Init => KeyInv
<1> SUFFICES ASSUME Init PROVE KeyParts
  BY DEF KeyInv
<1>1. hal.KeyPassphrase \in ValidKey
  BY DEF Init
<1>2. /\ pc["bus"] = "boot" /\ \A t \in Thread : t # "bus" => pc[t] = "idle"
      /\ back["sys"] = "none"
  BY Threads DEF Init
<1>3. pc["web"] = "idle" /\ pc["sys"] = "idle" /\ \A r \in Resetter : pc[r] = "idle"
  BY <1>2, Threads, MoCAConfigAssumption
<1> QED
  BY <1>1, <1>2, <1>3
  DEF KeyParts, KeysValid, Places, EarlyInv, EarlyOff, HoldsKey, SetPc

(* The driver never gets a key passphrase that Interface1_Validate did not  *)
(* let pass, while transactions hold any keys in the cache that any number  *)
(* of resets and notifications work with at the same time.                  *)
THEOREM KeysAreValidated == Spec => []OnlyValidated
<1>1. KeyInv => OnlyValidated
  BY DEF KeyInv, KeyParts, KeysValid, Undisturbed, Allowed, OnlyValidated
<1> QED
  BY <1>1, KeyInit, TypeCorrect, KeyStep, PTL DEF Spec

=============================================================================
