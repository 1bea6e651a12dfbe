------------------------------ MODULE MoCAStart ------------------------------
(***************************************************************************)
(* The life of the process CcspMoCA: its start, the threads it makes, the  *)
(* requests that take it down again, its end and the next start.           *)
(*                                                                         *)
(*   main     connects to the message bus, makes the objects that all      *)
(*            share, registers the data model at the component registrar   *)
(*            and leaves two files behind; then it sleeps, or serves the   *)
(*            console;                                                     *)
(*   bus      serves the bus from the moment its callbacks are set, long   *)
(*            before main is through: what it frees main may still use;    *)
(*   workers  are made by CosaMoCAInitialize, before the object that it    *)
(*            initializes is in g_MoCAObject.                              *)
(*                                                                         *)
(* A pointer that is NULL when it is used ends the process, and so does a  *)
(* signal.  The files are kept until the device is booted.  The libraries  *)
(* of the bus and of the data model, the registrar, who starts the process *)
(* and the device are external.                                            *)
(***************************************************************************)
EXTENDS Integers

CONSTANTS
    Level,          \* trace levels, CCSP_TRACE_LEVEL_EMERGENCY = 0 the lowest
    INVALID_LEVEL,  \* CCSP_TRACE_INVALID_LEVEL: nothing is traced
    FirstLevel,     \* what g_iTraceLevel is when a process starts
    NULL,
    Budget          \* bound: the scenarios, each a number per Op

(* What happens a bounded number of times. *)
Op == {"start", "reboot", "signal", "engage", "consoleCancel", "quit", "cancel", "log",
       "daemonFails", "busFails", "alloc", "threadFails", "registerFails", "cdmFails",
       "fileFails"}

Health == {"Red", "Yellow", "Green"}

Common == [Health : Health, LogEnable : BOOLEAN, LogLevel : Level]

ASSUME StartAssumption ==
    /\ NULL \notin Common
    /\ Level \subseteq Nat /\ 0 \in Level /\ FirstLevel \in Level
    /\ INVALID_LEVEL \in Int /\ INVALID_LEVEL < 0
    /\ Budget \subseteq [Op -> Nat]

VARIABLES
    main, bus,      \* control points of the two threads
    console,        \* the process was started with -c
    callbacks,      \* the bus is connected and calls back
    common,         \* g_pComponent_COMMON_moca
    controller,     \* pDslhCpeController
    registered,     \* the registrar knows the component
    g_iTraceLevel,
    g_MoCAObject,   \* the number of the object, 0 for NULL
    created,        \* the number of the last object that was allocated
    workers,        \* the threads CosaMoCAInitialize made
    complete,       \* main got through the start
    recovering,     \* Webconfig was told that this start follows a crash
    initialized,    \* there is /tmp/moca_initialized
    bootup,         \* there is MOCA_INIT_FILE_BOOTUP
    moca_init,      \* sysevent says moca_init completed
    crashed,        \* history: a process ended whose start was complete
    early,          \* history: a cancel came while main was engaging
    muted,          \* history: common was made anew while nothing was traced
    fault,          \* history: the NULL pointer that ended a process
    budget, used    \* the scenario, and what it has spent

busVars == <<bus, callbacks, registered>>
objectVars == <<g_MoCAObject, created, workers>>
traceVars == <<g_iTraceLevel, muted>>
fileVars == <<initialized, bootup, moca_init, recovering, complete>>
historyVars == <<crashed, early, fault>>
vars == <<main, console, common, controller, busVars, objectVars, traceVars, fileVars,
          historyVars, budget, used>>

Spend(op) == /\ used[op] < budget[op]
             /\ used' = [used EXCEPT ![op] = @ + 1]

(* The handlers wait for g_MoCAObject and keep it; the others do not.      *)
Handler == {"Moca_sysevent_handler", "Logger_Thread"}
Kind == Handler \union {"SynchronizeMoCADevices", "MocaTelemetryLoggingThread"}

(* Where main is between ssp_Mbi_MessageBusEngage and the end of ssp_engage. *)
Making == Kind \union {"create", "assign"}
Engaging == Making \union {"connect", "callbacks", "common", "controller", "yellow",
                           "interfaces", "register", "green"}
Starting == {"start", "cdm", "check", "creat", "tell", "creatBootup"}
MainPc == Engaging \union Starting \union {"run", "console", "release", "quit", "down"}

-----------------------------------------------------------------------------
(* A process that runs no more: nothing is left of its memory. *)
NoProcess ==
    /\ main' = "down" /\ bus' = "idle"
    /\ callbacks' = FALSE /\ registered' = FALSE
    /\ common' = NULL /\ controller' = "null"
    /\ g_MoCAObject' = 0 /\ created' = 0 /\ workers' = {}
    /\ g_iTraceLevel' = FirstLevel /\ muted' = FALSE
    /\ complete' = FALSE /\ recovering' = FALSE
    /\ UNCHANGED <<console, budget, early>>

(* exit(), by whichever thread.  sig_handler exits with a SIGSEGV too. *)
Exit ==
    /\ NoProcess
    /\ crashed' = (crashed \/ complete)
    /\ UNCHANGED <<initialized, bootup, moca_init>>

Stops == Exit /\ UNCHANGED fault

(* Pointer p is NULL where it is used. *)
Fault(p) == Exit /\ fault' = p /\ UNCHANGED used

Init ==
    /\ main = "start" /\ bus = "idle"
    /\ console \in BOOLEAN
    /\ callbacks = FALSE /\ registered = FALSE
    /\ common = NULL /\ controller = "null"
    /\ g_MoCAObject = 0 /\ created = 0 /\ workers = {}
    /\ g_iTraceLevel = FirstLevel /\ muted = FALSE
    /\ complete = FALSE /\ recovering = FALSE /\ early = FALSE
    /\ initialized = FALSE /\ bootup = FALSE /\ moca_init = FALSE
    /\ crashed = FALSE /\ fault = "none"
    /\ budget \in Budget /\ used = [op \in Op |-> 0]

-----------------------------------------------------------------------------
(* main goes from one control point to another. *)
Advance(from, to) == main = from /\ main' = to

Same == UNCHANGED <<console, budget>>
Quietly == Same /\ UNCHANGED used

(* main(): the arguments, drop_root, whose failure is logged, daemonize. *)
Daemonize ==
    \/ /\ Advance("start", "connect")
       /\ Quietly
       /\ UNCHANGED <<common, controller, busVars, objectVars, traceVars, fileVars, historyVars>>
    \/ main = "start" /\ ~console /\ Spend("daemonFails") /\ Stops

(* ssp_Mbi_MessageBusEngage, whose result is not looked at: connects, *)
Connect ==
    /\ \/ Advance("connect", "callbacks") /\ UNCHANGED used
       \/ Advance("connect", "common") /\ Spend("busFails")
    /\ Same
    /\ UNCHANGED <<common, controller, busVars, objectVars, traceVars, fileVars, historyVars>>

(* and sets the callbacks. *)
SetCallbacks ==
    /\ Advance("callbacks", "common")
    /\ callbacks' = TRUE
    /\ Quietly
    /\ UNCHANGED <<common, controller, bus, registered, objectVars, traceVars, fileVars,
                   historyVars>>

CommonUntested ==                                                      \* mutant
    [Health |-> "Red", LogEnable |-> TRUE, LogLevel |-> g_iTraceLevel]

(* ComponentCommonDmInit, in memory that is zero. *)
ComponentCommonDmInit ==
    [Health |-> "Red", LogEnable |-> TRUE,
     LogLevel |-> IF g_iTraceLevel >= 0 THEN g_iTraceLevel ELSE 0]

(* ssp_create, whose result is not looked at: makes the common object, *)
CreateCommon ==
    /\ \/ /\ Advance("common", "controller")
          /\ common' = ComponentCommonDmInit
          /\ muted' = (g_iTraceLevel < 0)
          /\ UNCHANGED used
       \/ /\ Advance("common", "yellow")
          /\ common' = NULL
          /\ Spend("alloc")
          /\ UNCHANGED muted
    /\ Same
    /\ UNCHANGED <<controller, busVars, objectVars, g_iTraceLevel, fileVars, historyVars>>

(* the interfaces and the controller. *)
CreateController ==
    /\ Advance("controller", "yellow")
    /\ \/ controller' = "made" /\ UNCHANGED used
       \/ controller' = "null" /\ Spend("alloc")
    /\ Same
    /\ UNCHANGED <<common, busVars, objectVars, traceVars, fileVars, historyVars>>

ssp_create == CreateCommon \/ CreateController

-----------------------------------------------------------------------------
(* ssp_engage. *)
SetHealth(h) == common' = [common EXCEPT !.Health = h]

EngageYellow ==
    IF common = NULL
    THEN main = "yellow" /\ Fault("common")
    ELSE /\ Advance("yellow", "interfaces")
         /\ SetHealth("Yellow")
         /\ Quietly
         /\ UNCHANGED <<controller, busVars, objectVars, traceVars, fileVars, historyVars>>

AddInterfaces ==
    IF controller = "null"
    THEN main = "interfaces" /\ Fault("controller")
    ELSE /\ Advance("interfaces", "create")
         /\ Quietly
         /\ UNCHANGED <<common, controller, busVars, objectVars, traceVars, fileVars, historyVars>>

(* COSA_Init and CosaMoCACreate, which the controller calls. *)
CosaMoCACreate ==
    /\ \/ /\ Advance("create", "Moca_sysevent_handler")
          /\ created' = created + 1
          /\ UNCHANGED <<g_MoCAObject, used>>
       \/ /\ Advance("create", "register")
          /\ g_MoCAObject' = 0
          /\ Spend("alloc")
          /\ UNCHANGED created
    /\ Same
    /\ UNCHANGED <<common, controller, busVars, workers, traceVars, fileVars, historyVars>>

(* A thread that works for object `of`, and the object it holds. *)
Worker(kind) == [kind |-> kind, of |-> created, holds |-> 0]

(* CosaMoCAInitialize makes a thread and goes on to the next one.  One that *)
(* cannot be made is missed, but that without SynchronizeMoCADevices there  *)
(* is no telemetry either.                                                  *)
Make(kind, next, otherwise) ==
    /\ \/ /\ Advance(kind, next)
          /\ workers' = workers \union {Worker(kind)}
          /\ UNCHANGED used
       \/ /\ Advance(kind, otherwise)
          /\ Spend("threadFails")
          /\ UNCHANGED workers
    /\ Same
    /\ UNCHANGED <<common, controller, busVars, g_MoCAObject, created, traceVars, fileVars,
                   historyVars>>

CosaMoCAUpdate == Make("Moca_sysevent_handler", "Logger_Thread", "Logger_Thread")
CosaMoCALogger == Make("Logger_Thread", "SynchronizeMoCADevices", "SynchronizeMoCADevices")
CosaMoCASync == Make("SynchronizeMoCADevices", "MocaTelemetryLoggingThread", "assign")
CosaMoCATelemetryInit == Make("MocaTelemetryLoggingThread", "assign", "assign")

CosaMoCAInitialize ==
    CosaMoCAUpdate \/ CosaMoCALogger \/ CosaMoCASync \/ CosaMoCATelemetryInit

AssignLost ==                                                          \* mutant
    /\ Advance("assign", "register")
    /\ Quietly
    /\ UNCHANGED <<common, controller, busVars, objectVars, traceVars, fileVars, historyVars>>

(* webConfigFrameworkInit, and CosaMoCACreate returns to COSA_Init.  If the *)
(* controller was freed meanwhile, the return may already fail.             *)
AssignObject ==
    \/ /\ Advance("assign", "register")
       /\ g_MoCAObject' = created
       /\ Quietly
       /\ UNCHANGED <<common, controller, busVars, created, workers, traceVars, fileVars,
                      historyVars>>
    \/ main = "assign" /\ controller = "null" /\ Fault("controller")

(* cmd_dispatch returns to main() or to the console. *)
Dispatched == IF complete THEN "console" ELSE "cdm"

RegisterAnyway ==                                                      \* mutant
    IF controller = "null"
    THEN main = "register" /\ Fault("controller")
    ELSE /\ Advance("register", "green")
         /\ controller' = "engaged"
         /\ \/ callbacks /\ registered' = TRUE /\ UNCHANGED used
            \/ callbacks /\ Spend("registerFails") /\ UNCHANGED registered
            \/ ~callbacks /\ UNCHANGED <<registered, used>>
         /\ Same
         /\ UNCHANGED <<common, bus, callbacks, objectVars, traceVars, fileVars, historyVars>>

(* RegisterCcspDataModel2, for which the bus is needed. *)
Register ==
    IF controller = "null"
    THEN main = "register" /\ Fault("controller")
    ELSE /\ controller' = "engaged"
         /\ \/ /\ Advance("register", "green")
               /\ callbacks
               /\ registered' = TRUE
               /\ UNCHANGED used
            \/ /\ Advance("register", Dispatched)
               /\ IF callbacks THEN Spend("registerFails") ELSE UNCHANGED used
               /\ UNCHANGED registered
         /\ Same
         /\ UNCHANGED <<common, bus, callbacks, objectVars, traceVars, fileVars, historyVars>>

EngageGreen ==
    IF common = NULL
    THEN main = "green" /\ Fault("common")
    ELSE /\ Advance("green", Dispatched)
         /\ SetHealth("Green")
         /\ Quietly
         /\ UNCHANGED <<controller, busVars, objectVars, traceVars, fileVars, historyVars>>

ssp_engage ==
    EngageYellow \/ AddInterfaces \/ CosaMoCACreate \/ CosaMoCAInitialize \/ AssignObject
        \/ Register \/ EngageGreen

-----------------------------------------------------------------------------
(* What main() does after the first engagement. *)
FileStep == UNCHANGED <<common, controller, busVars, objectVars, traceVars, historyVars>>

CdmInit ==
    \/ Advance("cdm", "check") /\ Quietly /\ UNCHANGED fileVars /\ FileStep
    \/ main = "cdm" /\ Spend("cdmFails") /\ Stops

CheckInitialized ==                                                    \* mutant
    /\ Advance("check", "creat")
    /\ recovering' = initialized
    /\ Quietly /\ FileStep
    /\ UNCHANGED <<initialized, bootup, moca_init, complete>>

(* Webconfig is told of a crash if the file of an earlier process is there. *)
check_component_crash ==
    /\ Advance("check", "creat")
    /\ recovering' = bootup
    /\ Quietly /\ FileStep
    /\ UNCHANGED <<initialized, bootup, moca_init, complete>>

CreateInitialized ==
    \/ /\ Advance("creat", "tell")
       /\ initialized' = TRUE
       /\ Quietly /\ FileStep
       /\ UNCHANGED <<bootup, moca_init, recovering, complete>>
    \/ main = "creat" /\ Spend("fileFails") /\ Stops

TellInitialized ==
    /\ Advance("tell", "creatBootup")
    /\ moca_init' = TRUE
    /\ Quietly /\ FileStep
    /\ UNCHANGED <<initialized, bootup, recovering, complete>>

CreateBootup ==
    \/ /\ Advance("creatBootup", IF console THEN "console" ELSE "run")
       /\ bootup' = TRUE
       /\ complete' = TRUE
       /\ Quietly /\ FileStep
       /\ UNCHANGED <<initialized, moca_init, recovering>>
    \/ main = "creatBootup" /\ Spend("fileFails") /\ Stops

Start ==
    \/ Daemonize \/ Connect \/ SetCallbacks \/ ssp_create \/ ssp_engage
    \/ CdmInit \/ check_component_crash \/ CreateInitialized \/ TellInitialized
    \/ CreateBootup

-----------------------------------------------------------------------------
(* ssp_cancel, on the bus thread for Finalize and for FreeResources of high *)
(* priority, or on main for the console: it unregisters, *)
Unregister ==
    /\ registered' = FALSE
    /\ UNCHANGED <<common, controller, callbacks, objectVars, traceVars, fileVars, crashed, fault>>

CancelAnyway ==                                                        \* mutant
    /\ callbacks /\ bus = "idle"
    /\ Spend("cancel") /\ Same
    /\ bus' = "release"
    /\ Unregister
    /\ early' = (early \/ main \in Engaging \union {"release", "quit"})
    /\ UNCHANGED main

(* without a common object it does nothing and is no action; *)
BusCancel ==
    /\ callbacks /\ bus = "idle" /\ common # NULL
    /\ Spend("cancel") /\ Same
    /\ bus' = "release"
    /\ Unregister
    /\ early' = (early \/ main \in Engaging \union {"release", "quit"})
    /\ UNCHANGED main

(* then it frees what ssp_create made. *)
Release(released) ==
    IF controller = "null"
    THEN Fault("controller")
    ELSE /\ released
         /\ common' = NULL /\ controller' = "null"
         /\ Quietly
         /\ UNCHANGED <<callbacks, registered, objectVars, traceVars, fileVars, crashed, fault>>

BusRelease ==
    /\ bus = "release"
    /\ Release(bus' = "idle" /\ UNCHANGED main /\ early' = (early \/ main \in Engaging))

(* The console. *)
ConsoleEngage ==
    /\ Advance("console", "connect")
    /\ Spend("engage") /\ Same
    /\ early' = (early \/ bus = "release")
    /\ UNCHANGED <<common, controller, busVars, objectVars, traceVars, fileVars, crashed, fault>>

ConsoleCancel ==
    /\ Advance("console", "release")
    /\ common # NULL
    /\ Spend("consoleCancel") /\ Same
    /\ Unregister
    /\ early' = (early \/ bus = "release")
    /\ UNCHANGED bus

MainRelease ==
    /\ main = "release"
    /\ Release(main' = "console" /\ UNCHANGED <<bus, early>>)

(* Cdm_Term, ssp_cancel and the end of the process. *)
Quit ==
    \/ main = "console" /\ Spend("quit") /\ common = NULL /\ Stops
    \/ main = "console" /\ Spend("cdmFails") /\ Stops
    \/ /\ Advance("console", "quit")
       /\ Spend("quit") /\ Same
       /\ common # NULL
       /\ Unregister
       /\ early' = (early \/ bus = "release")
       /\ UNCHANGED bus
    \/ main = "quit" /\ controller = "null" /\ Fault("controller")
    \/ main = "quit" /\ controller # "null" /\ Stops /\ UNCHANGED used

Cancels == BusCancel \/ BusRelease \/ ConsoleCancel \/ MainRelease

-----------------------------------------------------------------------------
(* What the bus asks of the data model once it is engaged. *)
Served == callbacks /\ bus = "idle" /\ controller = "engaged"

(* A read changes nothing, but it needs what it reads from: the parameters  *)
(* every component has, *)
ReadCommon == Served /\ common = NULL /\ Fault("common")

(* or those of MoCA. *)
ReadObject == Served /\ g_MoCAObject = 0 /\ Fault("object")

SetTrace(l) == g_iTraceLevel' = l /\ muted' = FALSE

LogStep ==
    /\ Same
    /\ UNCHANGED <<main, controller, busVars, objectVars, fileVars, historyVars>>

ssp_CcdIfSetLoggingEnabled(bEnabled) ==
    /\ Served /\ common # NULL
    /\ common.LogEnable # bEnabled
    /\ Spend("log")
    /\ common' = [common EXCEPT !.LogEnable = bEnabled]
    /\ SetTrace(IF bEnabled THEN common.LogLevel ELSE INVALID_LEVEL)
    /\ LogStep

LevelUnguarded(LogLevel) ==                                            \* mutant
    /\ Served /\ common # NULL
    /\ common.LogLevel # LogLevel
    /\ Spend("log")
    /\ common' = [common EXCEPT !.LogLevel = LogLevel]
    /\ SetTrace(LogLevel)
    /\ LogStep

ssp_CcdIfSetLoggingLevel(LogLevel) ==
    /\ Served /\ common # NULL
    /\ common.LogLevel # LogLevel
    /\ Spend("log")
    /\ common' = [common EXCEPT !.LogLevel = LogLevel]
    /\ IF common.LogEnable THEN SetTrace(LogLevel) ELSE UNCHANGED traceVars
    /\ LogStep

Bus ==
    \/ ReadCommon \/ ReadObject
    \/ \E b \in BOOLEAN : ssp_CcdIfSetLoggingEnabled(b)
    \/ \E l \in Level : ssp_CcdIfSetLoggingLevel(l)

-----------------------------------------------------------------------------
(* Moca_sysevent_handler and Logger_Thread wait for the object and keep it. *)
HandlerBegins ==
    \E w \in workers :
        /\ w.kind \in Handler /\ w.holds = 0
        /\ g_MoCAObject # 0
        /\ workers' = (workers \ {w}) \union {[w EXCEPT !.holds = g_MoCAObject]}
        /\ Quietly
        /\ UNCHANGED <<main, common, controller, busVars, g_MoCAObject, created, traceVars,
                       fileVars, historyVars>>

(* MocaTelemetryPush does not wait: until the settings are read the         *)
(* interval is 0 and the wait times out at once, so that the first push     *)
(* comes as soon as the enabling is read.  With an object nothing changes.  *)
MocaTelemetryPush ==
    /\ \E w \in workers : w.kind = "MocaTelemetryLoggingThread"
    /\ g_MoCAObject = 0
    /\ Fault("telemetry")

-----------------------------------------------------------------------------
(* The environment: a signal, a next process, a boot of the device. *)
Signal == main # "down" /\ Spend("signal") /\ Stops

NextProcess ==
    /\ Advance("down", "start")
    /\ console' \in BOOLEAN
    /\ Spend("start")
    /\ UNCHANGED <<common, controller, busVars, objectVars, traceVars, fileVars, historyVars,
                   budget>>

Reboot ==
    /\ Spend("reboot")
    /\ NoProcess
    /\ initialized' = FALSE /\ bootup' = FALSE /\ moca_init' = FALSE
    /\ crashed' = FALSE /\ fault' = "none"

Next ==
    \/ Start
    \/ ConsoleEngage \/ Quit
    \/ Cancels
    \/ Bus
    \/ HandlerBegins
    \/ MocaTelemetryPush
    \/ Signal \/ NextProcess \/ Reboot

Spec == Init /\ [][Next]_vars

(* main and the handlers go on when they can. *)
FairSpec == Spec /\ WF_vars(Start) /\ WF_vars(HandlerBegins)

-----------------------------------------------------------------------------
(* Every variable keeps to the values the code gives it. *)
TypeOK ==
    /\ main \in MainPc /\ bus \in {"idle", "release"}
    /\ console \in BOOLEAN /\ callbacks \in BOOLEAN /\ registered \in BOOLEAN
    /\ common \in Common \union {NULL}
    /\ controller \in {"null", "made", "engaged"}
    /\ g_iTraceLevel \in Level \union {INVALID_LEVEL}
    /\ created \in Nat /\ g_MoCAObject \in 0 .. created
    /\ workers \subseteq [kind : Kind, of : Nat, holds : Nat]
    /\ complete \in BOOLEAN /\ recovering \in BOOLEAN
    /\ initialized \in BOOLEAN /\ bootup \in BOOLEAN /\ moca_init \in BOOLEAN
    /\ crashed \in BOOLEAN /\ early \in BOOLEAN /\ muted \in BOOLEAN
    /\ fault \in {"none", "common", "controller", "object", "telemetry"}
    /\ budget \in Budget /\ used \in [Op -> Nat]

(* However the bus thread, main and the workers interleave, no pointer is   *)
(* NULL where it is used, but in three cases: an allocation failed and was  *)
(* ignored; a cancel came while main was still making, or itself freeing,   *)
(* what the cancel frees; or the telemetry thread pushed before COSA_Init   *)
(* had stored the object.  A second cancel, a read after a cancel and the   *)
(* handlers of events do no harm.                                           *)
FaultsExplained ==
    \/ fault \in {"none", "telemetry"}
    \/ used["alloc"] > 0
    \/ fault = "controller" /\ early
    \/ fault = "common" /\ early

(* Who finds the component in good health can use it: it is registered, its *)
(* data model is engaged and the object is there, whatever failed on the    *)
(* way, though nobody looks at what failed.  A component about to be freed  *)
(* is excepted, and one whose object could not be allocated.                *)
GreenIsServed ==
    common # NULL /\ common.Health = "Green" =>
        /\ controller = "engaged" /\ callbacks
        /\ registered \/ bus = "release" \/ main \in {"release", "quit"}
        /\ g_MoCAObject # 0 \/ used["alloc"] > 0

(* Webconfig is told of a crash exactly if, since the device was booted, a  *)
(* process ended that had completed its start, whatever ended it and        *)
(* however many processes came and went in between: neither the first one   *)
(* nor one after aborted starts is taken for a crash.  (ssp_main.c 45: "to  *)
(* determine if component is coming after crashed to sync values from       *)
(* server".)                                                                *)
CrashNoticed ==
    main \in {"creat", "tell", "creatBootup"} \/ complete => recovering = crashed

(* What is traced is what the bus was told last, though three variables     *)
(* hold it and two functions write them.  A common object made anew while   *)
(* nothing is traced is excepted: it says that logging is enabled.          *)
LevelFollows ==
    common # NULL /\ ~muted =>
        g_iTraceLevel = IF common.LogEnable THEN common.LogLevel ELSE INVALID_LEVEL

(* What may keep a start from its end. *)
Disturbed ==
    \E op \in {"busFails", "alloc", "threadFails", "registerFails", "cancel", "consoleCancel"} :
        used[op] > 0

Ready ==
    /\ complete
    /\ common # NULL /\ common.Health = "Green"
    /\ {w.kind : w \in workers} = Kind
    /\ \A w \in workers : w.kind \in Handler => w.holds # 0

(* A start that nothing disturbs ends with a component in good health, all  *)
(* four threads at work and both handlers holding the object, or with the   *)
(* end of the process.                                                      *)
BecomesReady == main = "start" ~> Ready \/ main = "down" \/ Disturbed

=============================================================================
