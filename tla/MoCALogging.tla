----------------------------- MODULE MoCALogging -----------------------------
(***************************************************************************)
(* The periodic logging of the MoCA network, and how its two settings      *)
(* xOpsDMMoCALogEnabled and xOpsDMMoCALogPeriod reach the three threads    *)
(* that use them.                                                          *)
(*                                                                         *)
(*   bus        stores a setting in syscfg and LogStatus, then writes both *)
(*              to MOCA_LOG_FILE, which truncates the file first;          *)
(*   logger     Logger_Thread: logs, then naps until Log_Period has passed *)
(*              and follows a period that changes meanwhile;               *)
(*   event      watches the file by inotify, reads it into gMoCALogInterval*)
(*              and gMoCALogEnable and signals the condition variable;     *)
(*   telemetry  waits for the condition or for the interval, and pushes    *)
(*              when the interval has passed.                              *)
(*                                                                         *)
(* No clock is modelled: a wait of the telemetry thread may time out at    *)
(* any time, a nap of the logger takes Nap seconds of its own period.      *)
(* inotify merges equal events, so one event is pending or none.  syscfg,  *)
(* the file system and the process are external.                           *)
(***************************************************************************)
EXTENDS Integers

CONSTANTS
    Period,         \* what may be set as the period, in seconds
    DefaultPeriod,  \* 3600
    Nap,            \* the 60 seconds of sleep() in Logger_Thread
    Missing,        \* a setting syscfg does not hold
    Absent,         \* there is no MOCA_LOG_FILE
    Truncated,      \* the file is empty
    Budget          \* bound: the scenarios, each a number per Op

(* What happens a bounded number of times: a set, two faults, a restart. *)
Op == {"set", "openFails", "getFails", "restart"}

ASSUME LoggingAssumption ==
    /\ Period \subseteq Nat /\ DefaultPeriod \in Nat
    /\ Nap \in Nat \ {0}
    /\ Missing \notin Nat /\ Missing \notin BOOLEAN
    /\ {Absent, Truncated} \intersect [enabled : BOOLEAN, period : Nat] = {}
    /\ Budget \subseteq [Op -> Nat]

VARIABLES
    syscfg,         \* [enabled, period]: the stored settings
    LogStatus,      \* [enabled, period]: Log_Enable and Log_Period
    file,           \* what MOCA_LOG_FILE holds
    modified,       \* an IN_MODIFY event is pending
    settings,       \* gMoCALogEnable and gMoCALogInterval
    pc,             \* control point of each thread
    timeleft,       \* of the logger
    Log_Period_old, \* of the logger
    slept,          \* history: how long the logger slept in this cycle
    skewed,         \* history: a period was set between its two reads of it
    armed,          \* the interval the telemetry thread's deadline comes from
    lost,           \* history: a signal came before the thread waited for it
    missed,         \* history: the file changed between first read and watch
    budget, used    \* the scenario, and what it has spent

loggerVars == <<timeleft, Log_Period_old, slept, skewed>>
telemetryVars == <<armed, lost>>
eventVars == <<settings, modified, missed>>
vars == <<syscfg, LogStatus, file, pc, loggerVars, telemetryVars, eventVars, budget, used>>

Spend(op) == /\ used[op] < budget[op]
             /\ used' = [used EXCEPT ![op] = @ + 1]

At(thread, p) == pc[thread] = p
Goto(thread, p) == pc' = [pc EXCEPT ![thread] = p]
Advance(thread, from, to) == At(thread, from) /\ Goto(thread, to)

-----------------------------------------------------------------------------
EffectiveRaw(s) == [enabled |-> s.enabled = TRUE, period |-> s.period]   \* mutant

(* What the code takes for stored settings s, its defaults included. *)
Effective(s) ==
    [enabled |-> s.enabled = TRUE,
     period |-> IF s.period = Missing THEN DefaultPeriod ELSE s.period]

InitialPc == [bus |-> "idle", logger |-> "log", event |-> "exists", telemetry |-> "arm"]

NoSettings == [enabled |-> FALSE, period |-> 0]

(* CosaMoCAInitialize has read syscfg and made the threads. *)
Started ==
    /\ LogStatus = Effective(syscfg)
    /\ settings = NoSettings
    /\ modified = FALSE
    /\ pc = InitialPc
    /\ timeleft = 0 /\ Log_Period_old = 0 /\ slept = 0 /\ armed = 0
    /\ missed = FALSE /\ lost = FALSE /\ skewed = FALSE

Init ==
    /\ syscfg \in [enabled : BOOLEAN \union {Missing}, period : Period \union {Missing}]
    /\ Started
    /\ budget \in Budget
    /\ \/ /\ file = Effective(syscfg)
          /\ used = [op \in Op |-> 0]
       \/ /\ file = Absent /\ budget["openFails"] > 0
          /\ used = [op \in Op |-> IF op = "openFails" THEN 1 ELSE 0]

-----------------------------------------------------------------------------
(* The bus. *)
Set(field, v) == [syscfg EXCEPT ![field] = v]

(* A set that syscfg refuses changes nothing and is no action. *)
Logging_SetParam(field, v) ==
    /\ Spend("set")
    /\ Advance("bus", "idle", "open")
    /\ syscfg' = Set(field, v)
    /\ LogStatus' = [LogStatus EXCEPT ![field] = v]
    /\ skewed' = (skewed \/ (field = "period" /\ At("logger", "loop")))
    /\ UNCHANGED <<file, eventVars, telemetryVars, timeleft, Log_Period_old, slept, budget>>

Logging_SetParamBoolValue == \E v \in BOOLEAN : Logging_SetParam("enabled", v)
Logging_SetParamUlongValue == \E v \in Period : Logging_SetParam("period", v)

(* The file changes, and inotify tells it once there is a watch. *)
Modify(content) ==
    /\ file' = content
    /\ modified' = (modified \/ pc.event \in {"wait", "reread", "signal"})
    /\ missed' = (missed \/ At("event", "watch"))

(* CosaMocaTelemetryxOpsLogSettingsSync opens the file, *)
OpenFile ==
    /\ \/ /\ Advance("bus", "open", "write")
          /\ Modify(Truncated)
          /\ UNCHANGED used
       \/ /\ Advance("bus", "open", "idle")
          /\ Spend("openFails")
          /\ UNCHANGED <<file, modified, missed>>
    /\ UNCHANGED <<syscfg, LogStatus, settings, telemetryVars, loggerVars, budget>>

(* and writes what syscfg holds, a default for what it does not tell. *)
WriteFile ==
    /\ Advance("bus", "write", "idle")
    /\ \/ /\ Modify(Effective(syscfg))
          /\ UNCHANGED used
       \/ /\ Spend("getFails")
          /\ \E f \in {"enabled", "period"} :
                Modify(Effective([syscfg EXCEPT ![f] = Missing]))
    /\ UNCHANGED <<syscfg, LogStatus, settings, telemetryVars, loggerVars, budget>>

-----------------------------------------------------------------------------
(* MocaTelemetryxOpsLogSettingsEventThread. *)

(* read_updated_log_interval: an empty file leaves the settings alone. *)
read_updated_log_interval ==
    settings' = IF file \in {Absent, Truncated} THEN settings ELSE file

EventIdle == UNCHANGED <<syscfg, LogStatus, file, loggerVars, budget, used>>

WaitForFile ==
    /\ Advance("event", "exists", "read")
    /\ file # Absent
    /\ EventIdle
    /\ UNCHANGED <<eventVars, telemetryVars>>

FirstRead ==
    /\ Advance("event", "read", "watch")
    /\ read_updated_log_interval
    /\ EventIdle
    /\ UNCHANGED <<modified, missed, telemetryVars>>

AddWatch ==
    /\ Advance("event", "watch", "wait")
    /\ EventIdle
    /\ UNCHANGED <<eventVars, telemetryVars>>

TakeEvent ==
    /\ Advance("event", "wait", "reread")
    /\ modified
    /\ modified' = FALSE
    /\ EventIdle
    /\ UNCHANGED <<settings, missed, telemetryVars>>

Reread ==
    /\ Advance("event", "reread", "signal")
    /\ read_updated_log_interval
    /\ missed' = FALSE
    /\ EventIdle
    /\ UNCHANGED <<modified, telemetryVars>>

SignalKeepsDeadline ==                                                 \* mutant
    /\ Advance("event", "signal", "wait")
    /\ lost' = (lost \/ At("telemetry", "enter"))
    /\ EventIdle
    /\ UNCHANGED <<eventVars, armed>>

SignalDraining ==                                                      \* mutant
    /\ At("event", "signal")
    /\ pc' = [pc EXCEPT !["event"] = "wait",
                        !["telemetry"] = IF @ = "wait" THEN "arm" ELSE @]
    /\ lost' = (lost \/ At("telemetry", "enter"))
    /\ modified' = FALSE
    /\ EventIdle
    /\ UNCHANGED <<settings, missed, armed>>

(* pthread_cond_signal, without the mutex: it wakes the telemetry thread   *)
(* if that waits, and is lost if that has its deadline but does not wait.  *)
Signal ==
    /\ At("event", "signal")
    /\ pc' = [pc EXCEPT !["event"] = "wait",
                        !["telemetry"] = IF @ = "wait" THEN "arm" ELSE @]
    /\ lost' = (lost \/ At("telemetry", "enter"))
    /\ EventIdle
    /\ UNCHANGED <<eventVars, armed>>

-----------------------------------------------------------------------------
(* MocaTelemetryLoggingThread. *)
TelemetryIdle ==
    UNCHANGED <<syscfg, LogStatus, file, loggerVars, eventVars, budget, used>>

Arm ==
    /\ Advance("telemetry", "arm", "enter")
    /\ armed' = settings.period
    /\ lost' = FALSE
    /\ TelemetryIdle

EnterWait ==
    /\ Advance("telemetry", "enter", "wait")
    /\ TelemetryIdle
    /\ UNCHANGED telemetryVars

TimeOut ==
    /\ Advance("telemetry", "wait", IF settings.enabled THEN "push" ELSE "arm")
    /\ TelemetryIdle
    /\ UNCHANGED telemetryVars

MocaTelemetryPush ==
    /\ Advance("telemetry", "push", "arm")
    /\ TelemetryIdle
    /\ UNCHANGED telemetryVars

-----------------------------------------------------------------------------
(* Logger_Thread. *)
LoggerIdle ==
    UNCHANGED <<syscfg, LogStatus, file, telemetryVars, eventVars, budget, used>>

(* MoCA_Log if it is enabled, and a new cycle. *)
StartCycle ==
    /\ Advance("logger", "log", "loop")
    /\ timeleft' = LogStatus.period
    /\ slept' = 0
    /\ skewed' = FALSE
    /\ LoggerIdle
    /\ UNCHANGED Log_Period_old

FallAsleep ==
    /\ Advance("logger", "loop", "sleep")
    /\ timeleft > 0
    /\ Log_Period_old' = LogStatus.period
    /\ LoggerIdle
    /\ UNCHANGED <<timeleft, slept, skewed>>

EndCycle ==
    /\ Advance("logger", "loop", "log")
    /\ timeleft <= 0
    /\ LoggerIdle
    /\ UNCHANGED loggerVars

LeftOfOld == timeleft - Nap                                            \* mutant

(* What is left after a nap in which the period may have changed. *)
Left == timeleft - Nap + LogStatus.period - Log_Period_old

WakeUp ==
    /\ Advance("logger", "sleep", "loop")
    /\ timeleft' = Left
    /\ slept' = slept + Nap
    /\ LoggerIdle
    /\ UNCHANGED <<Log_Period_old, skewed>>

-----------------------------------------------------------------------------
(* The agent dies and is started again: CosaMoCAInitialize writes the file. *)
Restart ==
    /\ Spend("restart")
    /\ UNCHANGED <<syscfg, budget>>
    /\ file' = Effective(syscfg)
    /\ LogStatus' = Effective(syscfg)
    /\ settings' = NoSettings
    /\ modified' = FALSE
    /\ pc' = InitialPc
    /\ timeleft' = 0 /\ Log_Period_old' = 0 /\ slept' = 0 /\ armed' = 0
    /\ missed' = FALSE /\ lost' = FALSE /\ skewed' = FALSE

Event == WaitForFile \/ FirstRead \/ AddWatch \/ TakeEvent \/ Reread \/ Signal
Telemetry == Arm \/ EnterWait \/ TimeOut \/ MocaTelemetryPush
Logger == StartCycle \/ FallAsleep \/ EndCycle \/ WakeUp
BusStep == OpenFile \/ WriteFile

Next ==
    \/ Logging_SetParamBoolValue
    \/ Logging_SetParamUlongValue
    \/ BusStep
    \/ Event
    \/ Telemetry
    \/ Logger
    \/ Restart

Spec == Init /\ [][Next]_vars

(* Every thread goes on when it can: the scheduler runs them, sleep ends.  *)
FairSpec == Spec /\ WF_vars(BusStep) /\ WF_vars(Event) /\ WF_vars(Logger)

-----------------------------------------------------------------------------
(* Every variable keeps to the values the code gives it. *)
Setting == [enabled : BOOLEAN, period : Nat]

TypeOK ==
    /\ LogStatus \in Setting /\ settings \in Setting
    /\ file \in Setting \union {Absent, Truncated}
    /\ modified \in BOOLEAN /\ missed \in BOOLEAN
    /\ lost \in BOOLEAN /\ skewed \in BOOLEAN
    /\ pc \in [bus : {"idle", "open", "write"},
               event : {"exists", "read", "watch", "wait", "reread", "signal"},
               telemetry : {"arm", "enter", "wait", "push"},
               logger : {"log", "loop", "sleep"}]
    /\ timeleft \in Int /\ Log_Period_old \in Nat /\ slept \in Nat
    /\ armed \in Nat
    /\ budget \in Budget /\ used \in [Op -> Nat]

(* No fault kept the file from what syscfg holds. *)
FileWritten == used["openFails"] = 0 /\ used["getFails"] = 0

(* Whenever nothing is under way, syscfg, LogStatus and the settings of    *)
(* the telemetry threads are the same, though the file is empty between    *)
(* two writes and is read without a lock, and though the agent may die     *)
(* between a store and the file.  A change between the first read and the  *)
(* watch (cosa_moca_internal.c 512-515) is excepted: it is missed.         *)
SettingsAgree ==
    /\ At("bus", "idle") /\ At("event", "wait") /\ ~modified
    /\ FileWritten /\ ~missed
    => settings = Effective(syscfg) /\ LogStatus = Effective(syscfg)

(* The telemetry thread waits for an interval that is in force: whenever   *)
(* the event thread is done with a change, the deadline comes from the     *)
(* changed interval.  A signal that comes after the deadline was computed  *)
(* and before the thread waits (551-553) is excepted, and the interval 0   *)
(* from before the first read, which times out at once.                    *)
WaitsNewInterval ==
    At("telemetry", "wait") /\ At("event", "wait") /\ ~lost /\ armed # 0
    => armed = settings.period

(* However often the period changes while the logger naps, it logs again   *)
(* as soon as it has slept for the period now in force, and the naps are   *)
(* neither lost nor counted twice.  A period set between the two reads of  *)
(* it (322 and 325) is excepted.                                           *)
LoggerKeepsTime ==
    At("logger", "sleep") /\ ~skewed =>
        /\ timeleft + slept = Log_Period_old
        /\ slept < Log_Period_old

(* A setting that is stored reaches the telemetry threads in the end. *)
SettingsAdopted ==
    <>[](FileWritten /\ ~missed => settings = Effective(syscfg))

=============================================================================
