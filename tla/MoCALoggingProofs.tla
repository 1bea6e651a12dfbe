------------------------- MODULE MoCALoggingProofs -------------------------
(***************************************************************************)
(* For every set of periods, every length of a nap and any number of sets  *)
(* and of calls that fail: the logger keeps time, the three copies of the  *)
(* settings agree wherever no write and no event is under way, and the     *)
(* telemetry thread waits for the interval that was read last.             *)
(*                                                                         *)
(* LoggerKeepsTime speaks of a sleeping logger; what makes it inductive    *)
(* is what holds at the head of its loop, where timeleft and the time      *)
(* slept make up the period in force.  The copies need what is true while  *)
(* they differ: which of the bus, the event thread and the telemetry       *)
(* thread has still to carry a change on, told by its place (CopyInv,      *)
(* WaitInv).                                                               *)
(***************************************************************************)
EXTENDS MoCALogging, TLAPS

LoggerPc == {"log", "loop", "sleep"}

(* The part of the types the argument needs. *)
LoggerType ==
    /\ syscfg \in [enabled : BOOLEAN \union {Missing}, period : Nat \union {Missing}]
    /\ LogStatus \in Setting
    /\ DOMAIN pc = {"bus", "logger", "event", "telemetry"}
    /\ pc["logger"] \in LoggerPc
    /\ timeleft \in Int /\ Log_Period_old \in Nat /\ slept \in Nat

(* At the head of the loop nothing of the period was lost. *)
AtHead == At("logger", "loop") /\ ~skewed => timeleft + slept = LogStatus.period

Asleep ==
    At("logger", "sleep") /\ ~skewed =>
        timeleft + slept = Log_Period_old /\ timeleft > 0

LoggerInv == LoggerType /\ AtHead /\ Asleep

LEMMA EffectiveType ==
    ASSUME NEW s \in [enabled : BOOLEAN \union {Missing}, period : Nat \union {Missing}]
    PROVE  Effective(s) \in Setting
BY LoggingAssumption DEF Effective, Setting

LEMMA LoggerInit ==
    ASSUME Init
    PROVE  LoggerInv
<1>1. syscfg \in [enabled : BOOLEAN \union {Missing}, period : Nat \union {Missing}]
    BY LoggingAssumption DEF Init
<1>2. LogStatus \in Setting
    BY <1>1, EffectiveType DEF Init, Started
<1>3. /\ pc = InitialPc
      /\ timeleft = 0 /\ Log_Period_old = 0 /\ slept = 0
    BY DEF Init, Started
<1> QED
    BY <1>1, <1>2, <1>3
    DEF LoggerInv, LoggerType, AtHead, Asleep, InitialPc, LoggerPc, At

(* Steps that leave the logger and its settings alone. *)
LEMMA OthersKeep ==
    ASSUME LoggerInv,
           UNCHANGED <<syscfg, LogStatus, loggerVars>>,
           DOMAIN pc' = DOMAIN pc, pc'["logger"] = pc["logger"]
    PROVE  LoggerInv'
BY DEF LoggerInv, LoggerType, AtHead, Asleep, At, loggerVars

LEMMA SetKeeps ==
    ASSUME LoggerInv,
           NEW field \in {"enabled", "period"},
           NEW v \in IF field = "enabled" THEN BOOLEAN ELSE Period,
           Logging_SetParam(field, v)
    PROVE  LoggerInv'
<1>1. /\ syscfg' = [syscfg EXCEPT ![field] = v]
      /\ LogStatus' = [LogStatus EXCEPT ![field] = v]
      /\ pc' = [pc EXCEPT !["bus"] = "open"]
      /\ skewed' = (skewed \/ (field = "period" /\ At("logger", "loop")))
      /\ UNCHANGED <<timeleft, Log_Period_old, slept>>
    BY DEF Logging_SetParam, Advance, Goto, Set
<1>2. pc'["logger"] = pc["logger"] /\ DOMAIN pc' = DOMAIN pc
    BY <1>1 DEF LoggerInv, LoggerType
<1>3. CASE field = "enabled"
    <2>1. v \in BOOLEAN
        BY <1>3
    <2>2. LogStatus'.period = LogStatus.period
        BY <1>1, <1>3 DEF LoggerInv, LoggerType, Setting
    <2>3. LogStatus' \in Setting
        BY <1>1, <1>3, <2>1 DEF LoggerInv, LoggerType, Setting
    <2>4. syscfg' \in [enabled : BOOLEAN \union {Missing}, period : Nat \union {Missing}]
        BY <1>1, <1>3, <2>1 DEF LoggerInv, LoggerType
    <2>5. skewed' => skewed \/ ~At("logger", "loop")
        BY <1>1, <1>3
    <2>6. skewed => skewed'
        BY <1>1
    <2> QED
        BY <1>1, <1>2, <2>2, <2>3, <2>4, <2>5, <2>6
        DEF LoggerInv, LoggerType, AtHead, Asleep, At
<1>4. CASE field = "period"
    <2>1. v \in Nat
        BY <1>4, LoggingAssumption
    <2>2. LogStatus' \in Setting
        BY <1>1, <1>4, <2>1 DEF LoggerInv, LoggerType, Setting
    <2>3. syscfg' \in [enabled : BOOLEAN \union {Missing}, period : Nat \union {Missing}]
        BY <1>1, <1>4, <2>1 DEF LoggerInv, LoggerType
    <2>4. At("logger", "loop") => skewed'
        BY <1>1, <1>4
    <2>5. skewed => skewed'
        BY <1>1
    <2> QED
        BY <1>1, <1>2, <2>2, <2>3, <2>4, <2>5
        DEF LoggerInv, LoggerType, AtHead, Asleep, At
<1> QED
    BY <1>3, <1>4

LEMMA LoggerStepKeeps ==
    ASSUME LoggerInv, Logger
    PROVE  LoggerInv'
<1>0. UNCHANGED <<syscfg, LogStatus>>
    BY DEF Logger, StartCycle, FallAsleep, EndCycle, WakeUp, LoggerIdle
<1>1. LogStatus.period \in Nat /\ Nap \in Nat
    BY LoggingAssumption DEF LoggerInv, LoggerType, Setting
<1>2. CASE StartCycle
    <2>1. /\ pc'["logger"] = "loop" /\ DOMAIN pc' = DOMAIN pc
          /\ timeleft' = LogStatus.period /\ slept' = 0
          /\ UNCHANGED Log_Period_old
        BY <1>2 DEF StartCycle, Advance, Goto, LoggerInv, LoggerType
    <2> QED
        BY <1>0, <1>1, <2>1 DEF LoggerInv, LoggerType, AtHead, Asleep, At, LoggerPc
<1>3. CASE FallAsleep
    <2>1. /\ pc["logger"] = "loop"
          /\ pc'["logger"] = "sleep" /\ DOMAIN pc' = DOMAIN pc
          /\ timeleft > 0 /\ Log_Period_old' = LogStatus.period
          /\ UNCHANGED <<timeleft, slept, skewed>>
        BY <1>3 DEF FallAsleep, Advance, At, Goto, LoggerInv, LoggerType
    <2> QED
        BY <1>0, <1>1, <2>1 DEF LoggerInv, LoggerType, AtHead, Asleep, At, LoggerPc
<1>4. CASE EndCycle
    <2>1. /\ pc'["logger"] = "log" /\ DOMAIN pc' = DOMAIN pc
          /\ UNCHANGED <<timeleft, slept, skewed, Log_Period_old>>
        BY <1>4 DEF EndCycle, Advance, Goto, loggerVars, LoggerInv, LoggerType
    <2> QED
        BY <1>0, <2>1 DEF LoggerInv, LoggerType, AtHead, Asleep, At, LoggerPc
<1>5. CASE WakeUp
    <2>1. /\ pc["logger"] = "sleep"
          /\ pc'["logger"] = "loop" /\ DOMAIN pc' = DOMAIN pc
          /\ timeleft' = timeleft - Nap + LogStatus.period - Log_Period_old
          /\ slept' = slept + Nap
          /\ UNCHANGED <<Log_Period_old, skewed>>
        BY <1>5 DEF WakeUp, Left, Advance, At, Goto, LoggerInv, LoggerType
    <2>2. timeleft' \in Int /\ slept' \in Nat
        BY <1>1, <2>1 DEF LoggerInv, LoggerType
    <2>3. ~skewed => timeleft' + slept' = LogStatus.period
        BY <1>1, <2>1 DEF LoggerInv, LoggerType, Asleep, At
    <2> QED
        BY <1>0, <2>1, <2>2, <2>3 DEF LoggerInv, LoggerType, AtHead, Asleep, At, LoggerPc
<1> QED
    BY <1>2, <1>3, <1>4, <1>5 DEF Logger

LEMMA LoggerNext ==
    ASSUME LoggerInv, [Next]_vars
    PROVE  LoggerInv'
<1>1. CASE Logging_SetParamBoolValue \/ Logging_SetParamUlongValue
    <2>1. CASE Logging_SetParamBoolValue
        <3>1. PICK v \in BOOLEAN : Logging_SetParam("enabled", v)
            BY <2>1 DEF Logging_SetParamBoolValue
        <3> QED
            BY <3>1, SetKeeps
    <2>2. CASE Logging_SetParamUlongValue
        <3>1. PICK v \in Period : Logging_SetParam("period", v)
            BY <2>2 DEF Logging_SetParamUlongValue
        <3> QED
            BY <3>1, SetKeeps
    <2> QED
        BY <1>1, <2>1, <2>2
<1>2. CASE BusStep
    <2>1. /\ UNCHANGED <<syscfg, LogStatus, loggerVars>>
          /\ DOMAIN pc' = DOMAIN pc /\ pc'["logger"] = pc["logger"]
        BY <1>2 DEF BusStep, OpenFile, WriteFile, Advance, Goto, LoggerInv, LoggerType
    <2> QED
        BY <2>1, OthersKeep
<1>3. CASE Event
    <2>1. UNCHANGED <<syscfg, LogStatus, loggerVars>>
        BY <1>3 DEF Event, WaitForFile, FirstRead, AddWatch, TakeEvent, Reread,
                    Signal, EventIdle
    <2>2. DOMAIN pc' = DOMAIN pc /\ pc'["logger"] = pc["logger"]
        BY <1>3 DEF Event, WaitForFile, FirstRead, AddWatch, TakeEvent, Reread,
                    Signal, Advance, Goto, LoggerInv, LoggerType
    <2> QED
        BY <2>1, <2>2, OthersKeep
<1>4. CASE Telemetry
    <2>1. /\ UNCHANGED <<syscfg, LogStatus, loggerVars>>
          /\ DOMAIN pc' = DOMAIN pc /\ pc'["logger"] = pc["logger"]
        BY <1>4 DEF Telemetry, Arm, EnterWait, TimeOut, MocaTelemetryPush,
                    TelemetryIdle, Advance, Goto, LoggerInv, LoggerType
    <2> QED
        BY <2>1, OthersKeep
<1>5. CASE Logger
    BY <1>5, LoggerStepKeeps
<1>6. CASE Restart
    <2>1. /\ syscfg' = syscfg /\ LogStatus' = Effective(syscfg) /\ pc' = InitialPc
          /\ timeleft' = 0 /\ Log_Period_old' = 0 /\ slept' = 0
        BY <1>6 DEF Restart
    <2>2. LogStatus' \in Setting
        BY <2>1, EffectiveType DEF LoggerInv, LoggerType
    <2> QED
        BY <2>1, <2>2
        DEF LoggerInv, LoggerType, AtHead, Asleep, InitialPc, LoggerPc, At
<1>7. CASE UNCHANGED vars
    <2>1. UNCHANGED <<syscfg, LogStatus, loggerVars, pc>>
        BY <1>7 DEF vars
    <2> QED
        BY <2>1, OthersKeep
<1> QED
    BY <1>1, <1>2, <1>3, <1>4, <1>5, <1>6, <1>7 DEF Next

LEMMA LoggerInvImplies ==
    ASSUME LoggerInv
    PROVE  LoggerKeepsTime
BY DEF LoggerInv, LoggerType, Asleep, LoggerKeepsTime

(* In every run of Logger_Thread (cosa_moca_internal.c 317-329) the naps   *)
(* and what is left make up the period, whenever and however often it is   *)
(* set while the thread sleeps.                                            *)
THEOREM LoggerIsOnTime == Spec => []LoggerKeepsTime
<1>1. Init => LoggerInv
    BY LoggerInit
<1>2. LoggerInv /\ [Next]_vars => LoggerInv'
    BY LoggerNext
<1>3. LoggerInv => LoggerKeepsTime
    BY LoggerInvImplies
<1> QED
    BY <1>1, <1>2, <1>3, PTL DEF Spec


-----------------------------------------------------------------------------
(***************************************************************************)
(* The types, SettingsAgree and WaitsNewInterval.  Every thread but the    *)
(* logger moves along the same three copies: what syscfg holds, the file,  *)
(* and the settings of the telemetry threads.                              *)
(***************************************************************************)
Stored == [enabled : BOOLEAN \union {Missing}, period : Nat \union {Missing}]

PcType == [bus : {"idle", "open", "write"},
           event : {"exists", "read", "watch", "wait", "reread", "signal"},
           telemetry : {"arm", "enter", "wait", "push"},
           logger : {"log", "loop", "sleep"}]

CopyType ==
    /\ syscfg \in Stored
    /\ settings \in Setting /\ file \in Setting \union {Absent, Truncated}
    /\ modified \in BOOLEAN /\ missed \in BOOLEAN
    /\ lost \in BOOLEAN /\ skewed \in BOOLEAN
    /\ pc \in PcType
    /\ armed \in Nat
    /\ budget \in Budget /\ used \in [Op -> Nat]

(* What the event thread read last, unless the file was empty. *)
HasRead == settings = file \/ file \in {Absent, Truncated}

(* Between two sets the file holds what syscfg does, and what is not read   *)
(* from the file yet has an event pending, or was missed.                   *)
CopyInv ==
    /\ LogStatus = Effective(syscfg)
    /\ At("bus", "idle") /\ FileWritten => file = Effective(syscfg)
    /\ At("event", "watch") /\ ~missed => HasRead
    /\ pc["event"] \in {"wait", "signal"} /\ ~modified /\ ~missed => HasRead

(* A deadline comes from the settings in force, but for the event thread    *)
(* being about to signal, and for the time before it has read any.          *)
WaitInv ==
    /\ pc["event"] \in {"exists", "read"} => settings = NoSettings /\ armed = 0
    /\ pc["event"] # "signal" /\ pc["telemetry"] \in {"enter", "wait"} /\ ~lost /\ armed # 0
       => armed = settings.period

LoggingInv == CopyType /\ CopyInv /\ WaitInv

(* pc after a thread has moved. *)
LEMMA PcMoves ==
    ASSUME pc \in PcType, NEW thread, NEW from, NEW to, Advance(thread, from, to),
           \/ thread = "bus" /\ to \in {"idle", "open", "write"}
           \/ /\ thread = "event"
              /\ to \in {"exists", "read", "watch", "wait", "reread", "signal"}
           \/ thread = "telemetry" /\ to \in {"arm", "enter", "wait", "push"}
           \/ thread = "logger" /\ to \in {"log", "loop", "sleep"}
    PROVE  /\ pc' \in PcType /\ pc[thread] = from /\ pc'[thread] = to
           /\ \A o \in {"bus", "event", "telemetry", "logger"} : o # thread => pc'[o] = pc[o]
BY DEF PcType, Advance, At, Goto

LEMMA EffectiveOf ==
    ASSUME NEW s \in Stored
    PROVE  /\ Effective(s) \in Setting
           /\ Effective(s).enabled = (s.enabled = TRUE)
           /\ Effective(s).period = IF s.period = Missing THEN DefaultPeriod ELSE s.period
BY LoggingAssumption DEF Effective, Setting, Stored

LEMMA SpendGrows ==
    ASSUME used \in [Op -> Nat], NEW op \in Op, Spend(op)
    PROVE  /\ used' \in [Op -> Nat] /\ used'[op] > 0
           /\ \A o \in Op : o # op => used'[o] = used[o]
BY DEF Spend

(* The file is written to: what is read is outdated, and said to be so. *)
LEMMA ModifyKeeps ==
    ASSUME LoggingInv, NEW content \in Setting \union {Absent, Truncated}, Modify(content),
           pc'["event"] = pc["event"], UNCHANGED settings
    PROVE  /\ file' \in Setting \union {Absent, Truncated}
           /\ modified' \in BOOLEAN /\ missed' \in BOOLEAN
           /\ At("event", "watch")' /\ ~missed' => HasRead'
           /\ pc'["event"] \in {"wait", "signal"} /\ ~modified' /\ ~missed' => HasRead'
<1>1. file' = content
    BY DEF Modify
<1>2. modified' = (modified \/ pc["event"] \in {"wait", "reread", "signal"})
    BY DEF Modify
<1>3. missed' = (missed \/ At("event", "watch"))
    BY DEF Modify
<1>4. modified' \in BOOLEAN /\ missed' \in BOOLEAN
    BY <1>2, <1>3 DEF LoggingInv, CopyType
<1>5. At("event", "watch")' => missed'
    BY <1>3 DEF At
<1>6. pc'["event"] \in {"wait", "signal"} => modified'
    BY <1>2
<1> QED
    BY <1>1, <1>4, <1>5, <1>6

LEMMA LoggingSet ==
    ASSUME LoggingInv, Logging_SetParamBoolValue \/ Logging_SetParamUlongValue
    PROVE  LoggingInv'
<1>1. PICK field \in {"enabled", "period"}, v \in BOOLEAN \union Period :
        /\ Logging_SetParam(field, v)
        /\ field = "enabled" => v \in BOOLEAN
        /\ field = "period" => v \in Nat
    BY LoggingAssumption DEF Logging_SetParamBoolValue, Logging_SetParamUlongValue
<1>2. /\ pc' \in PcType /\ pc'["bus"] = "open"
      /\ pc'["event"] = pc["event"] /\ pc'["telemetry"] = pc["telemetry"]
    BY <1>1, PcMoves DEF Logging_SetParam, LoggingInv, CopyType
<1>3. /\ syscfg' = [syscfg EXCEPT ![field] = v]
      /\ LogStatus' = [LogStatus EXCEPT ![field] = v]
      /\ UNCHANGED <<file, settings, modified, missed, armed, lost, budget>>
    BY <1>1 DEF Logging_SetParam, Set, eventVars, telemetryVars
<1>4. used' \in [Op -> Nat]
    BY <1>1, SpendGrows DEF Logging_SetParam, LoggingInv, CopyType, Op
<1>5. skewed' \in BOOLEAN
    BY <1>1 DEF Logging_SetParam, LoggingInv, CopyType
<1>6. syscfg' \in Stored /\ syscfg \in Stored
    BY <1>1, <1>3 DEF LoggingInv, CopyType, Stored
<1>7. LogStatus' = Effective(syscfg')
    <2>1. LogStatus = Effective(syscfg)
        BY DEF LoggingInv, CopyInv
    <2>2. CASE field = "enabled"
        BY <1>1, <1>3, <1>6, <2>1, <2>2 DEF Effective, Stored
    <2>3. CASE field = "period"
        <3>1. v # Missing /\ v \in Nat
            BY <1>1, <2>3, LoggingAssumption
        <3> QED
            BY <1>1, <1>3, <1>6, <2>1, <2>3, <3>1 DEF Effective, Stored
    <2> QED
        BY <2>2, <2>3
<1>8. CopyType'
    BY <1>2, <1>3, <1>4, <1>5, <1>6 DEF LoggingInv, CopyType
<1>9. CopyInv'
    BY <1>2, <1>3, <1>7 DEF LoggingInv, CopyInv, At, HasRead
<1>10. WaitInv'
    BY <1>2, <1>3 DEF LoggingInv, WaitInv
<1> QED
    BY <1>8, <1>9, <1>10 DEF LoggingInv


LEMMA LoggingBus ==
    ASSUME LoggingInv, BusStep
    PROVE  LoggingInv'
<1>0. /\ UNCHANGED <<syscfg, LogStatus, settings, armed, lost, skewed, budget>>
      /\ syscfg \in Stored /\ Effective(syscfg) \in Setting /\ pc \in PcType
      /\ used \in [Op -> Nat]
    BY EffectiveOf DEF BusStep, OpenFile, WriteFile, telemetryVars, loggerVars, LoggingInv, CopyType
<1>1. CASE OpenFile /\ Advance("bus", "open", "write")
    <2>1. /\ pc' \in PcType /\ pc'["bus"] = "write"
          /\ pc'["event"] = pc["event"] /\ pc'["telemetry"] = pc["telemetry"]
        BY <1>0, <1>1, PcMoves
    <2>2. Modify(Truncated) /\ UNCHANGED used
        <3>1. ~Advance("bus", "open", "idle")
            BY <1>0, <2>1, PcMoves
        <3> QED
            BY <1>1, <3>1 DEF OpenFile
    <2>3. /\ file' \in Setting \union {Absent, Truncated}
          /\ modified' \in BOOLEAN /\ missed' \in BOOLEAN
          /\ At("event", "watch")' /\ ~missed' => HasRead'
          /\ pc'["event"] \in {"wait", "signal"} /\ ~modified' /\ ~missed' => HasRead'
        BY <1>0, <2>1, <2>2, ModifyKeeps
    <2>4. CopyType'
        BY <1>0, <2>1, <2>2, <2>3 DEF LoggingInv, CopyType
    <2>5. CopyInv'
        BY <1>0, <2>1, <2>3 DEF LoggingInv, CopyInv, At
    <2>6. WaitInv'
        BY <1>0, <2>1 DEF LoggingInv, WaitInv
    <2> QED
        BY <2>4, <2>5, <2>6 DEF LoggingInv
<1>2. CASE OpenFile /\ Advance("bus", "open", "idle")
    <2>1. /\ pc' \in PcType /\ pc'["bus"] = "idle"
          /\ pc'["event"] = pc["event"] /\ pc'["telemetry"] = pc["telemetry"]
        BY <1>0, <1>2, PcMoves
    <2>2. Spend("openFails") /\ UNCHANGED <<file, modified, missed>>
        <3>1. ~Advance("bus", "open", "write")
            BY <1>0, <2>1, PcMoves
        <3> QED
            BY <1>2, <3>1 DEF OpenFile
    <2>3. used' \in [Op -> Nat] /\ ~FileWritten'
        BY <1>0, <2>2, SpendGrows DEF Op, FileWritten
    <2>4. CopyType'
        BY <1>0, <2>1, <2>2, <2>3 DEF LoggingInv, CopyType
    <2>5. CopyInv'
        BY <1>0, <2>1, <2>2, <2>3 DEF LoggingInv, CopyInv, At, HasRead
    <2>6. WaitInv'
        BY <1>0, <2>1 DEF LoggingInv, WaitInv
    <2> QED
        BY <2>4, <2>5, <2>6 DEF LoggingInv
<1>3. CASE WriteFile
    <2>1. /\ pc' \in PcType /\ pc'["bus"] = "idle"
          /\ pc'["event"] = pc["event"] /\ pc'["telemetry"] = pc["telemetry"]
        BY <1>0, <1>3, PcMoves DEF WriteFile
    <2>2. PICK content \in Setting :
            /\ Modify(content) /\ used' \in [Op -> Nat]
            /\ content = Effective(syscfg) \/ ~FileWritten'
        <3>1. CASE Modify(Effective(syscfg)) /\ UNCHANGED used
            BY <1>0, <3>1
        <3>2. CASE /\ Spend("getFails")
                   /\ \E f \in {"enabled", "period"} :
                        Modify(Effective([syscfg EXCEPT ![f] = Missing]))
            <4>1. PICK f \in {"enabled", "period"} :
                        Modify(Effective([syscfg EXCEPT ![f] = Missing]))
                BY <3>2
            <4>2. [syscfg EXCEPT ![f] = Missing] \in Stored
                BY <1>0 DEF Stored
            <4>3. Effective([syscfg EXCEPT ![f] = Missing]) \in Setting
                BY <4>2, EffectiveOf
            <4>4. used' \in [Op -> Nat] /\ ~FileWritten'
                BY <1>0, <3>2, SpendGrows DEF Op, FileWritten
            <4> QED
                BY <4>1, <4>3, <4>4
        <3> QED
            BY <1>3, <3>1, <3>2 DEF WriteFile
    <2>3. /\ file' \in Setting \union {Absent, Truncated}
          /\ modified' \in BOOLEAN /\ missed' \in BOOLEAN
          /\ At("event", "watch")' /\ ~missed' => HasRead'
          /\ pc'["event"] \in {"wait", "signal"} /\ ~modified' /\ ~missed' => HasRead'
        BY <1>0, <2>1, <2>2, ModifyKeeps
    <2>4. FileWritten' => file' = Effective(syscfg')
        BY <1>0, <2>2 DEF Modify
    <2>5. CopyType'
        BY <1>0, <2>1, <2>2, <2>3 DEF LoggingInv, CopyType
    <2>6. CopyInv'
        BY <1>0, <2>3, <2>4 DEF LoggingInv, CopyInv
    <2>7. WaitInv'
        BY <1>0, <2>1 DEF LoggingInv, WaitInv
    <2> QED
        BY <2>5, <2>6, <2>7 DEF LoggingInv
<1> QED
    BY <1>1, <1>2, <1>3 DEF BusStep, OpenFile

(* The settings after a read of the file. *)
LEMMA ReadKeeps ==
    ASSUME LoggingInv, read_updated_log_interval, UNCHANGED file
    PROVE  settings' \in Setting /\ HasRead'
BY DEF LoggingInv, CopyType, read_updated_log_interval, HasRead

LEMMA LoggingEvent ==
    ASSUME LoggingInv, Event
    PROVE  LoggingInv'
<1>0. /\ UNCHANGED <<syscfg, LogStatus, file, skewed, budget, used>>
      /\ pc \in PcType
    BY DEF Event, WaitForFile, FirstRead, AddWatch, TakeEvent, Reread, Signal,
           EventIdle, loggerVars, LoggingInv, CopyType
<1>1. CASE WaitForFile
    <2>1. /\ pc' \in PcType /\ pc["event"] = "exists" /\ pc'["event"] = "read"
          /\ pc'["bus"] = pc["bus"] /\ pc'["telemetry"] = pc["telemetry"]
        BY <1>0, <1>1, PcMoves DEF WaitForFile
    <2>2. UNCHANGED <<settings, modified, missed, armed, lost>>
        BY <1>1 DEF WaitForFile, eventVars, telemetryVars
    <2> QED
        BY <1>0, <2>1, <2>2
        DEF LoggingInv, CopyType, CopyInv, WaitInv, At, FileWritten, HasRead
<1>2. CASE FirstRead
    <2>1. /\ pc' \in PcType /\ pc["event"] = "read" /\ pc'["event"] = "watch"
          /\ pc'["bus"] = pc["bus"] /\ pc'["telemetry"] = pc["telemetry"]
        BY <1>0, <1>2, PcMoves DEF FirstRead
    <2>2. UNCHANGED <<modified, missed, armed, lost>> /\ read_updated_log_interval
        BY <1>2 DEF FirstRead, telemetryVars
    <2>3. settings' \in Setting /\ HasRead'
        BY <1>0, <2>2, ReadKeeps
    <2>4. armed' = 0
        BY <2>1, <2>2 DEF LoggingInv, WaitInv
    <2>5. CopyType'
        BY <1>0, <2>1, <2>2, <2>3 DEF LoggingInv, CopyType
    <2>6. CopyInv'
        BY <1>0, <2>1, <2>2, <2>3 DEF LoggingInv, CopyInv, At, FileWritten
    <2>7. WaitInv'
        BY <2>1, <2>4 DEF WaitInv
    <2> QED
        BY <2>5, <2>6, <2>7 DEF LoggingInv
<1>3. CASE AddWatch
    <2>1. /\ pc' \in PcType /\ pc["event"] = "watch" /\ pc'["event"] = "wait"
          /\ pc'["bus"] = pc["bus"] /\ pc'["telemetry"] = pc["telemetry"]
        BY <1>0, <1>3, PcMoves DEF AddWatch
    <2>2. UNCHANGED <<settings, modified, missed, armed, lost>>
        BY <1>3 DEF AddWatch, eventVars, telemetryVars
    <2> QED
        BY <1>0, <2>1, <2>2
        DEF LoggingInv, CopyType, CopyInv, WaitInv, At, FileWritten, HasRead
<1>4. CASE TakeEvent
    <2>1. /\ pc' \in PcType /\ pc["event"] = "wait" /\ pc'["event"] = "reread"
          /\ pc'["bus"] = pc["bus"] /\ pc'["telemetry"] = pc["telemetry"]
        BY <1>0, <1>4, PcMoves DEF TakeEvent
    <2>2. UNCHANGED <<settings, missed, armed, lost>> /\ modified' = FALSE
        BY <1>4 DEF TakeEvent, telemetryVars
    <2> QED
        BY <1>0, <2>1, <2>2
        DEF LoggingInv, CopyType, CopyInv, WaitInv, At, FileWritten, HasRead
<1>5. CASE Reread
    <2>1. /\ pc' \in PcType /\ pc["event"] = "reread" /\ pc'["event"] = "signal"
          /\ pc'["bus"] = pc["bus"] /\ pc'["telemetry"] = pc["telemetry"]
        BY <1>0, <1>5, PcMoves DEF Reread
    <2>2. UNCHANGED <<modified, armed, lost>> /\ missed' = FALSE /\ read_updated_log_interval
        BY <1>5 DEF Reread, telemetryVars
    <2>3. settings' \in Setting /\ HasRead'
        BY <1>0, <2>2, ReadKeeps
    <2>4. CopyType'
        BY <1>0, <2>1, <2>2, <2>3 DEF LoggingInv, CopyType
    <2>5. CopyInv'
        BY <1>0, <2>1, <2>2, <2>3 DEF LoggingInv, CopyInv, At, FileWritten
    <2>6. WaitInv'
        BY <2>1 DEF WaitInv
    <2> QED
        BY <2>4, <2>5, <2>6 DEF LoggingInv
<1>6. CASE Signal
    <2>1. /\ pc["event"] = "signal"
          /\ pc' = [pc EXCEPT !["event"] = "wait",
                              !["telemetry"] = IF @ = "wait" THEN "arm" ELSE @]
          /\ lost' = (lost \/ pc["telemetry"] = "enter")
          /\ UNCHANGED <<settings, modified, missed, armed>>
        BY <1>6 DEF Signal, At, eventVars
    <2>2. /\ pc' \in PcType /\ pc'["event"] = "wait" /\ pc'["bus"] = pc["bus"]
          /\ pc'["telemetry"] = IF pc["telemetry"] = "wait" THEN "arm" ELSE pc["telemetry"]
        BY <1>0, <2>1 DEF PcType
    <2>3. CopyType'
        BY <1>0, <2>1, <2>2 DEF LoggingInv, CopyType
    <2>4. CopyInv'
        BY <1>0, <2>1, <2>2 DEF LoggingInv, CopyInv, At, FileWritten, HasRead
    <2>5. WaitInv'
        <3>1. pc'["telemetry"] # "wait"
            BY <2>2
        <3>2. ASSUME pc'["telemetry"] = "enter" PROVE lost'
            <4>1. pc["telemetry"] = "enter"
                BY <2>2, <3>2
            <4> QED
                BY <2>1, <4>1, Zenon
        <3> QED
            BY <2>2, <3>1, <3>2 DEF WaitInv
    <2> QED
        BY <2>3, <2>4, <2>5 DEF LoggingInv
<1> QED
    BY <1>1, <1>2, <1>3, <1>4, <1>5, <1>6 DEF Event

LEMMA LoggingTelemetry ==
    ASSUME LoggingInv, Telemetry
    PROVE  LoggingInv'
<1>0. /\ UNCHANGED <<syscfg, LogStatus, file, settings, modified, missed, skewed, budget, used>>
      /\ pc \in PcType
    BY DEF Telemetry, Arm, EnterWait, TimeOut, MocaTelemetryPush, TelemetryIdle,
           eventVars, loggerVars, LoggingInv, CopyType
<1>1. /\ pc' \in PcType /\ pc'["event"] = pc["event"] /\ pc'["bus"] = pc["bus"]
      /\ \/ pc["telemetry"] = "arm" /\ armed' = settings.period /\ lost' = FALSE
         \/ /\ UNCHANGED <<armed, lost>>
            /\ \/ pc["telemetry"] = "enter" /\ pc'["telemetry"] = "wait"
               \/ pc'["telemetry"] \in {"arm", "push"}
    <2>1. CASE Arm
        BY <1>0, <2>1, PcMoves DEF Arm
    <2>2. CASE EnterWait
        BY <1>0, <2>2, PcMoves DEF EnterWait, telemetryVars
    <2>3. CASE TimeOut
        <3>1. PICK to \in {"arm", "push"} : Advance("telemetry", "wait", to)
            BY <2>3 DEF TimeOut
        <3> QED
            BY <1>0, <2>3, <3>1, PcMoves DEF TimeOut, telemetryVars
    <2>4. CASE MocaTelemetryPush
        BY <1>0, <2>4, PcMoves DEF MocaTelemetryPush, telemetryVars
    <2> QED
        BY <2>1, <2>2, <2>3, <2>4 DEF Telemetry
<1>2. settings.period \in Nat
    BY DEF LoggingInv, CopyType, Setting
<1>3. CopyType'
    BY <1>0, <1>1, <1>2 DEF LoggingInv, CopyType
<1>4. CopyInv'
    BY <1>0, <1>1 DEF LoggingInv, CopyInv, At, FileWritten, HasRead
<1>5. WaitInv'
    BY <1>0, <1>1 DEF LoggingInv, WaitInv, NoSettings
<1> QED
    BY <1>3, <1>4, <1>5 DEF LoggingInv


LEMMA LoggingLogger ==
    ASSUME LoggingInv, Logger
    PROVE  LoggingInv'
<1>0. /\ UNCHANGED <<syscfg, LogStatus, file, settings, modified, missed, armed, lost,
                      budget, used>>
      /\ pc \in PcType
    BY DEF Logger, StartCycle, FallAsleep, EndCycle, WakeUp, LoggerIdle,
           eventVars, telemetryVars, LoggingInv, CopyType
<1>1. PICK from, to \in {"log", "loop", "sleep"} : Advance("logger", from, to)
    BY DEF Logger, StartCycle, FallAsleep, EndCycle, WakeUp
<1>2. /\ pc' \in PcType
      /\ pc'["event"] = pc["event"] /\ pc'["bus"] = pc["bus"]
      /\ pc'["telemetry"] = pc["telemetry"]
    BY <1>0, <1>1, PcMoves
<1>3. skewed' \in BOOLEAN
    BY DEF Logger, StartCycle, FallAsleep, EndCycle, WakeUp, loggerVars, LoggingInv, CopyType
<1>4. CopyType'
    BY <1>0, <1>2, <1>3 DEF LoggingInv, CopyType
<1>5. CopyInv'
    BY <1>0, <1>2 DEF LoggingInv, CopyInv, At, FileWritten, HasRead
<1>6. WaitInv'
    BY <1>0, <1>2 DEF LoggingInv, WaitInv
<1> QED
    BY <1>4, <1>5, <1>6 DEF LoggingInv

(* A process that starts. *)
LEMMA StartedPc ==
    /\ InitialPc \in PcType
    /\ InitialPc["bus"] = "idle" /\ InitialPc["event"] = "exists"
    /\ InitialPc["telemetry"] = "arm"
    /\ NoSettings \in Setting
BY DEF InitialPc, PcType, NoSettings, Setting

LEMMA LoggingRestart ==
    ASSUME LoggingInv, Restart
    PROVE  LoggingInv'
<1>1. /\ UNCHANGED <<syscfg, budget>>
      /\ file' = Effective(syscfg) /\ LogStatus' = Effective(syscfg)
      /\ settings' = NoSettings /\ modified' = FALSE /\ pc' = InitialPc
      /\ armed' = 0 /\ missed' = FALSE /\ lost' = FALSE /\ skewed' = FALSE
    BY DEF Restart
<1>2. used' \in [Op -> Nat]
    BY SpendGrows DEF Restart, LoggingInv, CopyType, Op
<1>3. Effective(syscfg) \in Setting
    BY EffectiveOf DEF LoggingInv, CopyType
<1>4. CopyType'
    BY <1>1, <1>2, <1>3, StartedPc DEF LoggingInv, CopyType
<1>5. CopyInv'
    BY <1>1, StartedPc DEF CopyInv, At
<1>6. WaitInv'
    BY <1>1, StartedPc DEF WaitInv
<1> QED
    BY <1>4, <1>5, <1>6 DEF LoggingInv

LEMMA LoggingInit ==
    ASSUME Init
    PROVE  LoggingInv
<1>1. /\ LogStatus = Effective(syscfg)
      /\ settings = NoSettings /\ modified = FALSE /\ pc = InitialPc
      /\ armed = 0 /\ missed = FALSE /\ lost = FALSE /\ skewed = FALSE
    BY DEF Init, Started
<1>2. syscfg \in Stored /\ budget \in Budget
    BY LoggingAssumption DEF Init, Stored
<1>3. Effective(syscfg) \in Setting
    BY <1>2, EffectiveOf
<1>4. \/ file = Effective(syscfg)
      \/ file = Absent /\ used = [op \in Op |-> IF op = "openFails" THEN 1 ELSE 0]
    BY DEF Init
<1>5. used \in [Op -> Nat]
    BY DEF Init
<1>6. CopyType
    BY <1>1, <1>2, <1>3, <1>4, <1>5, StartedPc DEF CopyType
<1>7. FileWritten => file = Effective(syscfg)
    BY <1>4 DEF FileWritten, Op
<1>8. CopyInv
    BY <1>1, <1>7, StartedPc DEF CopyInv, At
<1>9. WaitInv
    BY <1>1, StartedPc DEF WaitInv
<1> QED
    BY <1>6, <1>8, <1>9 DEF LoggingInv

LEMMA LoggingNext ==
    ASSUME LoggingInv, [Next]_vars
    PROVE  LoggingInv'
<1>1. CASE Logging_SetParamBoolValue \/ Logging_SetParamUlongValue
    BY <1>1, LoggingSet
<1>2. CASE BusStep
    BY <1>2, LoggingBus
<1>3. CASE Event
    BY <1>3, LoggingEvent
<1>4. CASE Telemetry
    BY <1>4, LoggingTelemetry
<1>5. CASE Logger
    BY <1>5, LoggingLogger
<1>6. CASE Restart
    BY <1>6, LoggingRestart
<1>7. CASE UNCHANGED vars
    <2>1. UNCHANGED <<syscfg, LogStatus, file, settings, modified, missed, armed, lost,
                      skewed, pc, budget, used>>
        BY <1>7 DEF vars, loggerVars, eventVars, telemetryVars
    <2> QED
        BY <2>1
        DEF LoggingInv, CopyType, CopyInv, WaitInv, At, FileWritten, HasRead
<1> QED
    BY <1>1, <1>2, <1>3, <1>4, <1>5, <1>6, <1>7 DEF Next

LEMMA Invariance == Spec => [](LoggingInv /\ LoggerInv)
<1>1. Init => LoggingInv /\ LoggerInv
    BY LoggingInit, LoggerInit
<1>2. LoggingInv /\ LoggerInv /\ [Next]_vars => (LoggingInv /\ LoggerInv)'
    BY LoggingNext, LoggerNext
<1> QED
    BY <1>1, <1>2, PTL DEF Spec

(* Every variable of MoCALogging keeps to its values. *)
THEOREM TypeCorrect == Spec => []TypeOK
<1>1. LoggingInv /\ LoggerInv => TypeOK
    BY DEF LoggingInv, CopyType, PcType, LoggerInv, LoggerType, TypeOK
<1> QED
    BY <1>1, Invariance, PTL

(* The copies of the settings agree once nothing is under way, in every run *)
(* of dml.c 6960-7060, apis.c 356-398 and cosa_moca_internal.c 470-555.     *)
THEOREM SettingsAreAgreed == Spec => []SettingsAgree
<1>1. LoggingInv => SettingsAgree
    <2> SUFFICES ASSUME LoggingInv,
                        At("bus", "idle"), At("event", "wait"), ~modified,
                        FileWritten, ~missed
                 PROVE  settings = Effective(syscfg) /\ LogStatus = Effective(syscfg)
        BY DEF SettingsAgree
    <2>1. file = Effective(syscfg) /\ HasRead
        BY DEF LoggingInv, CopyInv, At
    <2>2. Effective(syscfg) \in Setting
        BY EffectiveOf DEF LoggingInv, CopyType
    <2>3. file \notin {Absent, Truncated}
        BY <2>1, <2>2, LoggingAssumption DEF Setting
    <2> QED
        BY <2>1, <2>3 DEF LoggingInv, CopyInv, HasRead
<1> QED
    BY <1>1, Invariance, PTL

(* The telemetry thread waits by the interval in force, whatever the        *)
(* periods are and however often they are set.                              *)
THEOREM WaitsAreCurrent == Spec => []WaitsNewInterval
<1>1. LoggingInv => WaitsNewInterval
    BY DEF LoggingInv, WaitInv, WaitsNewInterval, At
<1> QED
    BY <1>1, Invariance, PTL

=============================================================================
