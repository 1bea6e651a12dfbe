--------------------------- MODULE MoCAStartProofs ---------------------------
(***************************************************************************)
(* Proofs about MoCAStart, for all trace levels and every scenario.        *)
(***************************************************************************)
EXTENDS MoCAStart, TLAPS

WorkerType == [kind : Kind, of : Nat, holds : Nat]

(* Groups of types. *)
TypeValues ==
    /\ bus \in {"idle", "release"}
    /\ controller \in {"null", "made", "engaged"}
    /\ g_iTraceLevel \in Level \union {INVALID_LEVEL}
    /\ created \in Nat /\ g_MoCAObject \in 0 .. created
    /\ fault \in {"none", "common", "controller", "object", "telemetry"}

TypeSystemFlags ==
    /\ console \in BOOLEAN /\ callbacks \in BOOLEAN /\ registered \in BOOLEAN
    /\ complete \in BOOLEAN /\ crashed \in BOOLEAN

TypeFileFlags ==
    /\ initialized \in BOOLEAN /\ bootup \in BOOLEAN /\ moca_init \in BOOLEAN
    /\ recovering \in BOOLEAN /\ early \in BOOLEAN /\ muted \in BOOLEAN

(* Before and after the steps of main that a cancel may disturb. *)
Before == {"start", "down", "connect", "callbacks", "common"}
Resting == {"cdm", "check", "creat", "tell", "creatBootup", "run", "console"}

(* The file of an earlier start is there exactly if one was completed. *)
CrashInv ==
    /\ bootup <=> crashed \/ complete
    /\ main \in {"creat", "tell", "creatBootup"} \/ complete => recovering = crashed
    /\ main \in {"start", "down", "cdm", "check", "creat", "tell", "creatBootup"} => ~complete

(* A common object is green only behind what green promises. *)
ObjectThere == g_MoCAObject # 0 \/ used["alloc"] > 0

Backed ==
    /\ controller = "engaged" /\ callbacks
    /\ registered \/ bus = "release" \/ main \in {"release", "quit"}
    /\ ObjectThere

GreenInv ==
    /\ common # NULL =>
        /\ main \in {"controller", "yellow"} => common.Health = "Red"
        /\ main \in Making \union {"interfaces", "register", "green"} => common.Health = "Yellow"
        /\ common.Health = "Green" \/ main = "green" => Backed
    /\ main \in Kind \union {"assign"} => created # 0
    /\ main \in {"register", "green"} \/ controller = "engaged" => ObjectThere

(* What is NULL although it is about to be used is excused. *)
Excused == used["alloc"] > 0 \/ early

Paired ==
    /\ common = NULL <=> controller = "null" /\ main # "controller"
    /\ controller = "null" =>
            bus = "idle" /\ main \in Before \union Resting \union {"controller"}
    /\ bus = "release" => main \notin Engaging \union {"release", "quit"}
    /\ main \in {"start", "down"} => controller = "null"

FaultInv == FaultsExplained /\ (Excused \/ Paired)

-----------------------------------------------------------------------------
(* A common object is never NULL, and keeps its type when it is written to. *)
LEMMA CommonKept ==
    ASSUME TypeOK
    PROVE  /\ NULL \notin Common
           /\ ComponentCommonDmInit \in Common
           /\ common # NULL =>
                /\ \A h \in Health : [common EXCEPT !.Health = h] \in Common
                /\ \A b \in BOOLEAN : [common EXCEPT !.LogEnable = b] \in Common
                /\ \A l \in Level : [common EXCEPT !.LogLevel = l] \in Common
BY StartAssumption DEF TypeOK, Common, Health, ComponentCommonDmInit

(* A common object made anew: whether anything is traced is told, *)
LEMMA MutedIsTold ==
    ASSUME TypeOK, CreateCommon
    PROVE  muted' \in BOOLEAN
<1>1. g_iTraceLevel \in Int /\ muted \in BOOLEAN
  BY StartAssumption DEF TypeOK
<1>2. (g_iTraceLevel < 0) \in BOOLEAN
  BY <1>1
<1> QED
  BY <1>1, <1>2, Zenon DEF CreateCommon

(* and what is traced is what the object says. *)
LEMMA MadeLevelFollows ==
    ASSUME TypeOK, LevelFollows, CreateCommon
    PROVE  LevelFollows'
<1>1. g_iTraceLevel \in Int /\ muted \in BOOLEAN
  BY StartAssumption DEF TypeOK
<1>2. CASE common' = NULL
  BY <1>2 DEF LevelFollows
<1>3. CASE common' = ComponentCommonDmInit /\ muted' = (g_iTraceLevel < 0)
  <2>1. CASE g_iTraceLevel < 0
    <3>1. muted'
      BY <1>3, <2>1
    <3> QED BY <3>1 DEF LevelFollows
  <2>2. CASE g_iTraceLevel >= 0
    <3>1. common'.LogEnable /\ common'.LogLevel = g_iTraceLevel
      BY <1>3, <2>2 DEF ComponentCommonDmInit
    <3>2. g_iTraceLevel' = g_iTraceLevel
      BY DEF CreateCommon
    <3> QED BY <3>1, <3>2 DEF LevelFollows
  <2> QED BY <1>1, <2>1, <2>2
<1> QED
  BY <1>2, <1>3, Zenon DEF CreateCommon

(* What was spent stays spent. *)
LEMMA UsedStep ==
    ASSUME used \in [Op -> Nat], budget \in Budget, Next
    PROVE  used' \in [Op -> Nat] /\ budget' \in Budget /\ used["alloc"] <= used'["alloc"]
<1> USE StartAssumption DEF Op, Advance, Quietly, Same, Spend, FileStep,
              Stops, Fault, Exit, NoProcess, vars, busVars, objectVars,
              traceVars, fileVars, historyVars
<1>1. CASE Daemonize
  BY <1>1 DEF Daemonize
<1>2. CASE Connect
  BY <1>2 DEF Connect
<1>3. CASE SetCallbacks
  BY <1>3 DEF SetCallbacks
<1>4. CASE CreateCommon
  BY <1>4 DEF CreateCommon
<1>5. CASE CreateController
  BY <1>5 DEF CreateController
<1>6. CASE EngageYellow
  BY <1>6 DEF EngageYellow
<1>7. CASE AddInterfaces
  BY <1>7 DEF AddInterfaces
<1>8. CASE CosaMoCACreate
  BY <1>8 DEF CosaMoCACreate
<1>9. CASE CosaMoCAInitialize
  BY <1>9 DEF CosaMoCAInitialize, CosaMoCAUpdate, CosaMoCALogger,
     CosaMoCASync, CosaMoCATelemetryInit, Make
<1>10. CASE AssignObject
  BY <1>10 DEF AssignObject
<1>11. CASE Register
  BY <1>11 DEF Register, Dispatched
<1>12. CASE EngageGreen
  BY <1>12 DEF EngageGreen, Dispatched
<1>13. CASE CdmInit
  BY <1>13 DEF CdmInit
<1>14. CASE check_component_crash
  BY <1>14 DEF check_component_crash
<1>15. CASE CreateInitialized
  BY <1>15 DEF CreateInitialized
<1>16. CASE TellInitialized
  BY <1>16 DEF TellInitialized
<1>17. CASE CreateBootup
  BY <1>17 DEF CreateBootup
<1>18. CASE BusCancel
  BY <1>18 DEF BusCancel, Unregister
<1>19. CASE BusRelease
  BY <1>19 DEF BusRelease, Release
<1>20. CASE ConsoleCancel
  BY <1>20 DEF ConsoleCancel, Unregister
<1>21. CASE MainRelease
  BY <1>21 DEF MainRelease, Release
<1>22. CASE ConsoleEngage
  BY <1>22 DEF ConsoleEngage
<1>23. CASE Quit
  BY <1>23 DEF Quit, Unregister
<1>24. CASE ReadCommon
  BY <1>24 DEF ReadCommon, Served
<1>25. CASE ReadObject
  BY <1>25 DEF ReadObject, Served
<1>26. CASE \E b \in BOOLEAN : ssp_CcdIfSetLoggingEnabled(b)
  BY <1>26 DEF ssp_CcdIfSetLoggingEnabled, Served, LogStep
<1>27. CASE \E l \in Level : ssp_CcdIfSetLoggingLevel(l)
  BY <1>27 DEF ssp_CcdIfSetLoggingLevel, Served, LogStep
<1>28. CASE HandlerBegins
  BY <1>28 DEF HandlerBegins
<1>29. CASE MocaTelemetryPush
  BY <1>29 DEF MocaTelemetryPush
<1>30. CASE Signal
  BY <1>30 DEF Signal
<1>31. CASE NextProcess
  BY <1>31 DEF NextProcess
<1>32. CASE Reboot
  BY <1>32 DEF Reboot
<1> QED
  BY <1>1, <1>2, <1>3, <1>4, <1>5, <1>6, <1>7, <1>8, <1>9, <1>10, <1>11,
     <1>12, <1>13, <1>14, <1>15, <1>16, <1>17, <1>18, <1>19, <1>20, <1>21,
     <1>22, <1>23, <1>24, <1>25, <1>26, <1>27, <1>28, <1>29, <1>30, <1>31,
     <1>32 DEF Next, Start, ssp_create, ssp_engage, Cancels, Bus

(* The common object keeps its type. *)
LEMMA CommonStep ==
    ASSUME TypeOK, common \in Common \union {NULL}, Next
    PROVE  (common \in Common \union {NULL})'
<1> USE StartAssumption DEF Health, Advance, Quietly, Same, Spend, FileStep,
              Stops, Fault, Exit, NoProcess, vars, busVars, objectVars,
              traceVars, fileVars, historyVars
<1>1. CASE Daemonize
  BY <1>1 DEF Daemonize
<1>2. CASE Connect
  BY <1>2 DEF Connect
<1>3. CASE SetCallbacks
  BY <1>3 DEF SetCallbacks
<1>4. CASE CreateCommon
  BY <1>4, CommonKept DEF CreateCommon
<1>5. CASE CreateController
  BY <1>5 DEF CreateController
<1>6. CASE EngageYellow
  BY <1>6, CommonKept DEF EngageYellow, SetHealth
<1>7. CASE AddInterfaces
  BY <1>7 DEF AddInterfaces
<1>8. CASE CosaMoCACreate
  BY <1>8 DEF CosaMoCACreate
<1>9. CASE CosaMoCAInitialize
  BY <1>9 DEF CosaMoCAInitialize, CosaMoCAUpdate, CosaMoCALogger,
     CosaMoCASync, CosaMoCATelemetryInit, Make, Worker
<1>10. CASE AssignObject
  BY <1>10 DEF AssignObject
<1>11. CASE Register
  BY <1>11 DEF Register, Dispatched
<1>12. CASE EngageGreen
  BY <1>12, CommonKept DEF EngageGreen, SetHealth, Dispatched
<1>13. CASE CdmInit
  BY <1>13 DEF CdmInit
<1>14. CASE check_component_crash
  BY <1>14 DEF check_component_crash
<1>15. CASE CreateInitialized
  BY <1>15 DEF CreateInitialized
<1>16. CASE TellInitialized
  BY <1>16 DEF TellInitialized
<1>17. CASE CreateBootup
  BY <1>17 DEF CreateBootup
<1>18. CASE BusCancel
  BY <1>18 DEF BusCancel, Unregister
<1>19. CASE BusRelease
  BY <1>19 DEF BusRelease, Release
<1>20. CASE ConsoleCancel
  BY <1>20 DEF ConsoleCancel, Unregister
<1>21. CASE MainRelease
  BY <1>21 DEF MainRelease, Release
<1>22. CASE ConsoleEngage
  BY <1>22 DEF ConsoleEngage
<1>23. CASE Quit
  BY <1>23 DEF Quit, Unregister
<1>24. CASE ReadCommon
  BY <1>24 DEF ReadCommon, Served
<1>25. CASE ReadObject
  BY <1>25 DEF ReadObject, Served
<1>26. CASE \E b \in BOOLEAN : ssp_CcdIfSetLoggingEnabled(b)
  BY <1>26, CommonKept DEF ssp_CcdIfSetLoggingEnabled, Served, SetTrace,
     LogStep
<1>27. CASE \E l \in Level : ssp_CcdIfSetLoggingLevel(l)
  BY <1>27, CommonKept DEF ssp_CcdIfSetLoggingLevel, Served, SetTrace, LogStep
<1>28. CASE HandlerBegins
  BY <1>28 DEF HandlerBegins
<1>29. CASE MocaTelemetryPush
  BY <1>29 DEF MocaTelemetryPush
<1>30. CASE Signal
  BY <1>30 DEF Signal
<1>31. CASE NextProcess
  BY <1>31 DEF NextProcess
<1>32. CASE Reboot
  BY <1>32 DEF Reboot
<1> QED
  BY <1>1, <1>2, <1>3, <1>4, <1>5, <1>6, <1>7, <1>8, <1>9, <1>10, <1>11,
     <1>12, <1>13, <1>14, <1>15, <1>16, <1>17, <1>18, <1>19, <1>20, <1>21,
     <1>22, <1>23, <1>24, <1>25, <1>26, <1>27, <1>28, <1>29, <1>30, <1>31,
     <1>32 DEF Next, Start, ssp_create, ssp_engage, Cancels, Bus

(* main goes to its own control points. *)
LEMMA MainStep ==
    ASSUME main \in MainPc, Next
    PROVE  (main \in MainPc)'
<1> USE StartAssumption DEF MainPc, Engaging, Making, Starting, Kind, Handler,
              Advance, Quietly, Same, Spend, FileStep, Stops, Fault, Exit,
              NoProcess, vars, busVars, objectVars, traceVars, fileVars,
              historyVars
<1>1. CASE Daemonize
  BY <1>1 DEF Daemonize
<1>2. CASE Connect
  BY <1>2 DEF Connect
<1>3. CASE SetCallbacks
  BY <1>3 DEF SetCallbacks
<1>4. CASE CreateCommon
  BY <1>4 DEF CreateCommon
<1>5. CASE CreateController
  BY <1>5 DEF CreateController
<1>6. CASE EngageYellow
  BY <1>6 DEF EngageYellow
<1>7. CASE AddInterfaces
  BY <1>7 DEF AddInterfaces
<1>8. CASE CosaMoCACreate
  BY <1>8 DEF CosaMoCACreate
<1>9. CASE CosaMoCAInitialize
  BY <1>9 DEF CosaMoCAInitialize, CosaMoCAUpdate, CosaMoCALogger,
     CosaMoCASync, CosaMoCATelemetryInit, Make
<1>10. CASE AssignObject
  BY <1>10 DEF AssignObject
<1>11. CASE Register
  BY <1>11 DEF Register, Dispatched
<1>12. CASE EngageGreen
  BY <1>12 DEF EngageGreen, Dispatched
<1>13. CASE CdmInit
  BY <1>13 DEF CdmInit
<1>14. CASE check_component_crash
  BY <1>14 DEF check_component_crash
<1>15. CASE CreateInitialized
  BY <1>15 DEF CreateInitialized
<1>16. CASE TellInitialized
  BY <1>16 DEF TellInitialized
<1>17. CASE CreateBootup
  BY <1>17 DEF CreateBootup
<1>18. CASE BusCancel
  BY <1>18 DEF BusCancel, Unregister
<1>19. CASE BusRelease
  BY <1>19 DEF BusRelease, Release
<1>20. CASE ConsoleCancel
  BY <1>20 DEF ConsoleCancel, Unregister
<1>21. CASE MainRelease
  BY <1>21 DEF MainRelease, Release
<1>22. CASE ConsoleEngage
  BY <1>22 DEF ConsoleEngage
<1>23. CASE Quit
  BY <1>23 DEF Quit, Unregister
<1>24. CASE ReadCommon
  BY <1>24 DEF ReadCommon, Served
<1>25. CASE ReadObject
  BY <1>25 DEF ReadObject, Served
<1>26. CASE \E b \in BOOLEAN : ssp_CcdIfSetLoggingEnabled(b)
  BY <1>26 DEF ssp_CcdIfSetLoggingEnabled, Served, LogStep
<1>27. CASE \E l \in Level : ssp_CcdIfSetLoggingLevel(l)
  BY <1>27 DEF ssp_CcdIfSetLoggingLevel, Served, LogStep
<1>28. CASE HandlerBegins
  BY <1>28 DEF HandlerBegins
<1>29. CASE MocaTelemetryPush
  BY <1>29 DEF MocaTelemetryPush
<1>30. CASE Signal
  BY <1>30 DEF Signal
<1>31. CASE NextProcess
  BY <1>31 DEF NextProcess
<1>32. CASE Reboot
  BY <1>32 DEF Reboot
<1> QED
  BY <1>1, <1>2, <1>3, <1>4, <1>5, <1>6, <1>7, <1>8, <1>9, <1>10, <1>11,
     <1>12, <1>13, <1>14, <1>15, <1>16, <1>17, <1>18, <1>19, <1>20, <1>21,
     <1>22, <1>23, <1>24, <1>25, <1>26, <1>27, <1>28, <1>29, <1>30, <1>31,
     <1>32 DEF Next, Start, ssp_create, ssp_engage, Cancels, Bus

(* The workers keep their types. *)
LEMMA WorkersStep ==
    ASSUME workers \in SUBSET WorkerType, created \in Nat, g_MoCAObject \in Nat, Next
    PROVE  (workers \in SUBSET WorkerType)'
<1> USE StartAssumption DEF WorkerType, Kind, Handler, Advance, Quietly, Same,
              Spend, FileStep, Stops, Fault, Exit, NoProcess, vars, busVars,
              objectVars, traceVars, fileVars, historyVars
<1>1. CASE Daemonize
  BY <1>1 DEF Daemonize
<1>2. CASE Connect
  BY <1>2 DEF Connect
<1>3. CASE SetCallbacks
  BY <1>3 DEF SetCallbacks
<1>4. CASE CreateCommon
  BY <1>4 DEF CreateCommon
<1>5. CASE CreateController
  BY <1>5 DEF CreateController
<1>6. CASE EngageYellow
  BY <1>6 DEF EngageYellow
<1>7. CASE AddInterfaces
  BY <1>7 DEF AddInterfaces
<1>8. CASE CosaMoCACreate
  BY <1>8 DEF CosaMoCACreate
<1>9. CASE CosaMoCAInitialize
  BY <1>9 DEF CosaMoCAInitialize, CosaMoCAUpdate, CosaMoCALogger,
     CosaMoCASync, CosaMoCATelemetryInit, Make, Worker
<1>10. CASE AssignObject
  BY <1>10 DEF AssignObject
<1>11. CASE Register
  BY <1>11 DEF Register, Dispatched
<1>12. CASE EngageGreen
  BY <1>12 DEF EngageGreen, Dispatched
<1>13. CASE CdmInit
  BY <1>13 DEF CdmInit
<1>14. CASE check_component_crash
  BY <1>14 DEF check_component_crash
<1>15. CASE CreateInitialized
  BY <1>15 DEF CreateInitialized
<1>16. CASE TellInitialized
  BY <1>16 DEF TellInitialized
<1>17. CASE CreateBootup
  BY <1>17 DEF CreateBootup
<1>18. CASE BusCancel
  BY <1>18 DEF BusCancel, Unregister
<1>19. CASE BusRelease
  BY <1>19 DEF BusRelease, Release
<1>20. CASE ConsoleCancel
  BY <1>20 DEF ConsoleCancel, Unregister
<1>21. CASE MainRelease
  BY <1>21 DEF MainRelease, Release
<1>22. CASE ConsoleEngage
  BY <1>22 DEF ConsoleEngage
<1>23. CASE Quit
  BY <1>23 DEF Quit, Unregister
<1>24. CASE ReadCommon
  BY <1>24 DEF ReadCommon, Served
<1>25. CASE ReadObject
  BY <1>25 DEF ReadObject, Served
<1>26. CASE \E b \in BOOLEAN : ssp_CcdIfSetLoggingEnabled(b)
  BY <1>26 DEF ssp_CcdIfSetLoggingEnabled, Served, LogStep
<1>27. CASE \E l \in Level : ssp_CcdIfSetLoggingLevel(l)
  BY <1>27 DEF ssp_CcdIfSetLoggingLevel, Served, LogStep
<1>28. CASE HandlerBegins
  BY <1>28 DEF HandlerBegins
<1>29. CASE MocaTelemetryPush
  BY <1>29 DEF MocaTelemetryPush
<1>30. CASE Signal
  BY <1>30 DEF Signal
<1>31. CASE NextProcess
  BY <1>31 DEF NextProcess
<1>32. CASE Reboot
  BY <1>32 DEF Reboot
<1> QED
  BY <1>1, <1>2, <1>3, <1>4, <1>5, <1>6, <1>7, <1>8, <1>9, <1>10, <1>11,
     <1>12, <1>13, <1>14, <1>15, <1>16, <1>17, <1>18, <1>19, <1>20, <1>21,
     <1>22, <1>23, <1>24, <1>25, <1>26, <1>27, <1>28, <1>29, <1>30, <1>31,
     <1>32 DEF Next, Start, ssp_create, ssp_engage, Cancels, Bus

(* Control points, numbers and levels keep their types. *)
LEMMA ValuesStep ==
    ASSUME TypeValues, common \in Common \union {NULL}, Next
    PROVE  TypeValues'
<1> USE StartAssumption DEF TypeValues, Common, Advance, Quietly, Same, Spend,
              FileStep, Stops, Fault, Exit, NoProcess, vars, busVars,
              objectVars, traceVars, fileVars, historyVars
<1>1. CASE Daemonize
  BY <1>1 DEF Daemonize
<1>2. CASE Connect
  BY <1>2 DEF Connect
<1>3. CASE SetCallbacks
  BY <1>3 DEF SetCallbacks
<1>4. CASE CreateCommon
  BY <1>4 DEF CreateCommon
<1>5. CASE CreateController
  BY <1>5 DEF CreateController
<1>6. CASE EngageYellow
  BY <1>6 DEF EngageYellow
<1>7. CASE AddInterfaces
  BY <1>7 DEF AddInterfaces
<1>8. CASE CosaMoCACreate
  BY <1>8 DEF CosaMoCACreate
<1>9. CASE CosaMoCAInitialize
  BY <1>9 DEF CosaMoCAInitialize, CosaMoCAUpdate, CosaMoCALogger,
     CosaMoCASync, CosaMoCATelemetryInit, Make
<1>10. CASE AssignObject
  BY <1>10 DEF AssignObject
<1>11. CASE Register
  BY <1>11 DEF Register, Dispatched
<1>12. CASE EngageGreen
  BY <1>12 DEF EngageGreen, Dispatched
<1>13. CASE CdmInit
  BY <1>13 DEF CdmInit
<1>14. CASE check_component_crash
  BY <1>14 DEF check_component_crash
<1>15. CASE CreateInitialized
  BY <1>15 DEF CreateInitialized
<1>16. CASE TellInitialized
  BY <1>16 DEF TellInitialized
<1>17. CASE CreateBootup
  BY <1>17 DEF CreateBootup
<1>18. CASE BusCancel
  BY <1>18 DEF BusCancel, Unregister
<1>19. CASE BusRelease
  BY <1>19 DEF BusRelease, Release
<1>20. CASE ConsoleCancel
  BY <1>20 DEF ConsoleCancel, Unregister
<1>21. CASE MainRelease
  BY <1>21 DEF MainRelease, Release
<1>22. CASE ConsoleEngage
  BY <1>22 DEF ConsoleEngage
<1>23. CASE Quit
  BY <1>23 DEF Quit, Unregister
<1>24. CASE ReadCommon
  BY <1>24 DEF ReadCommon, Served
<1>25. CASE ReadObject
  BY <1>25 DEF ReadObject, Served
<1>26. CASE \E b \in BOOLEAN : ssp_CcdIfSetLoggingEnabled(b)
  BY <1>26 DEF ssp_CcdIfSetLoggingEnabled, Served, SetTrace, LogStep
<1>27. CASE \E l \in Level : ssp_CcdIfSetLoggingLevel(l)
  BY <1>27 DEF ssp_CcdIfSetLoggingLevel, Served, SetTrace, LogStep
<1>28. CASE HandlerBegins
  BY <1>28 DEF HandlerBegins
<1>29. CASE MocaTelemetryPush
  BY <1>29 DEF MocaTelemetryPush
<1>30. CASE Signal
  BY <1>30 DEF Signal
<1>31. CASE NextProcess
  BY <1>31 DEF NextProcess
<1>32. CASE Reboot
  BY <1>32 DEF Reboot
<1> QED
  BY <1>1, <1>2, <1>3, <1>4, <1>5, <1>6, <1>7, <1>8, <1>9, <1>10, <1>11,
     <1>12, <1>13, <1>14, <1>15, <1>16, <1>17, <1>18, <1>19, <1>20, <1>21,
     <1>22, <1>23, <1>24, <1>25, <1>26, <1>27, <1>28, <1>29, <1>30, <1>31,
     <1>32 DEF Next, Start, ssp_create, ssp_engage, Cancels, Bus

(* What main and the bus say of themselves is true or false. *)
LEMMA SystemFlagsStep ==
    ASSUME TypeSystemFlags, Next
    PROVE  TypeSystemFlags'
<1> USE StartAssumption DEF TypeSystemFlags, Advance, Quietly, Same, Spend,
              FileStep, Stops, Fault, Exit, NoProcess, vars, busVars,
              objectVars, traceVars, fileVars, historyVars
<1>1. CASE Daemonize
  BY <1>1 DEF Daemonize
<1>2. CASE Connect
  BY <1>2 DEF Connect
<1>3. CASE SetCallbacks
  BY <1>3 DEF SetCallbacks
<1>4. CASE CreateCommon
  BY <1>4 DEF CreateCommon
<1>5. CASE CreateController
  BY <1>5 DEF CreateController
<1>6. CASE EngageYellow
  BY <1>6 DEF EngageYellow
<1>7. CASE AddInterfaces
  BY <1>7 DEF AddInterfaces
<1>8. CASE CosaMoCACreate
  BY <1>8 DEF CosaMoCACreate
<1>9. CASE CosaMoCAInitialize
  BY <1>9 DEF CosaMoCAInitialize, CosaMoCAUpdate, CosaMoCALogger,
     CosaMoCASync, CosaMoCATelemetryInit, Make
<1>10. CASE AssignObject
  BY <1>10 DEF AssignObject
<1>11. CASE Register
  BY <1>11 DEF Register, Dispatched
<1>12. CASE EngageGreen
  BY <1>12 DEF EngageGreen, Dispatched
<1>13. CASE CdmInit
  BY <1>13 DEF CdmInit
<1>14. CASE check_component_crash
  BY <1>14 DEF check_component_crash
<1>15. CASE CreateInitialized
  BY <1>15 DEF CreateInitialized
<1>16. CASE TellInitialized
  BY <1>16 DEF TellInitialized
<1>17. CASE CreateBootup
  BY <1>17 DEF CreateBootup
<1>18. CASE BusCancel
  BY <1>18 DEF BusCancel, Unregister
<1>19. CASE BusRelease
  BY <1>19 DEF BusRelease, Release
<1>20. CASE ConsoleCancel
  BY <1>20 DEF ConsoleCancel, Unregister
<1>21. CASE MainRelease
  BY <1>21 DEF MainRelease, Release
<1>22. CASE ConsoleEngage
  BY <1>22 DEF ConsoleEngage
<1>23. CASE Quit
  BY <1>23 DEF Quit, Unregister
<1>24. CASE ReadCommon
  BY <1>24 DEF ReadCommon, Served
<1>25. CASE ReadObject
  BY <1>25 DEF ReadObject, Served
<1>26. CASE \E b \in BOOLEAN : ssp_CcdIfSetLoggingEnabled(b)
  BY <1>26 DEF ssp_CcdIfSetLoggingEnabled, Served, LogStep
<1>27. CASE \E l \in Level : ssp_CcdIfSetLoggingLevel(l)
  BY <1>27 DEF ssp_CcdIfSetLoggingLevel, Served, LogStep
<1>28. CASE HandlerBegins
  BY <1>28 DEF HandlerBegins
<1>29. CASE MocaTelemetryPush
  BY <1>29 DEF MocaTelemetryPush
<1>30. CASE Signal
  BY <1>30 DEF Signal
<1>31. CASE NextProcess
  BY <1>31 DEF NextProcess
<1>32. CASE Reboot
  BY <1>32 DEF Reboot
<1> QED
  BY <1>1, <1>2, <1>3, <1>4, <1>5, <1>6, <1>7, <1>8, <1>9, <1>10, <1>11,
     <1>12, <1>13, <1>14, <1>15, <1>16, <1>17, <1>18, <1>19, <1>20, <1>21,
     <1>22, <1>23, <1>24, <1>25, <1>26, <1>27, <1>28, <1>29, <1>30, <1>31,
     <1>32 DEF Next, Start, ssp_create, ssp_engage, Cancels, Bus

(* And so is what is said of the files and of the past. *)
LEMMA FileFlagsStep ==
    ASSUME TypeOK, TypeFileFlags, Next
    PROVE  TypeFileFlags'
<1> USE StartAssumption DEF TypeFileFlags, Advance, Quietly, Same, Spend,
              FileStep, Stops, Fault, Exit, NoProcess, vars, busVars,
              objectVars, traceVars, fileVars, historyVars
<1>1. CASE Daemonize
  BY <1>1 DEF Daemonize
<1>2. CASE Connect
  BY <1>2 DEF Connect
<1>3. CASE SetCallbacks
  BY <1>3 DEF SetCallbacks
<1>4. CASE CreateCommon
  BY <1>4, MutedIsTold DEF CreateCommon
<1>5. CASE CreateController
  BY <1>5 DEF CreateController
<1>6. CASE EngageYellow
  BY <1>6 DEF EngageYellow
<1>7. CASE AddInterfaces
  BY <1>7 DEF AddInterfaces
<1>8. CASE CosaMoCACreate
  BY <1>8 DEF CosaMoCACreate
<1>9. CASE CosaMoCAInitialize
  BY <1>9 DEF CosaMoCAInitialize, CosaMoCAUpdate, CosaMoCALogger,
     CosaMoCASync, CosaMoCATelemetryInit, Make
<1>10. CASE AssignObject
  BY <1>10 DEF AssignObject
<1>11. CASE Register
  BY <1>11 DEF Register, Dispatched
<1>12. CASE EngageGreen
  BY <1>12 DEF EngageGreen, Dispatched
<1>13. CASE CdmInit
  BY <1>13 DEF CdmInit
<1>14. CASE check_component_crash
  BY <1>14 DEF check_component_crash
<1>15. CASE CreateInitialized
  BY <1>15 DEF CreateInitialized
<1>16. CASE TellInitialized
  BY <1>16 DEF TellInitialized
<1>17. CASE CreateBootup
  BY <1>17 DEF CreateBootup
<1>18. CASE BusCancel
  BY <1>18 DEF BusCancel, Unregister
<1>19. CASE BusRelease
  BY <1>19 DEF BusRelease, Release
<1>20. CASE ConsoleCancel
  BY <1>20 DEF ConsoleCancel, Unregister
<1>21. CASE MainRelease
  BY <1>21 DEF MainRelease, Release
<1>22. CASE ConsoleEngage
  BY <1>22 DEF ConsoleEngage
<1>23. CASE Quit
  BY <1>23 DEF Quit, Unregister
<1>24. CASE ReadCommon
  BY <1>24 DEF ReadCommon, Served
<1>25. CASE ReadObject
  BY <1>25 DEF ReadObject, Served
<1>26. CASE \E b \in BOOLEAN : ssp_CcdIfSetLoggingEnabled(b)
  BY <1>26 DEF ssp_CcdIfSetLoggingEnabled, Served, SetTrace, LogStep
<1>27. CASE \E l \in Level : ssp_CcdIfSetLoggingLevel(l)
  BY <1>27 DEF ssp_CcdIfSetLoggingLevel, Served, SetTrace, LogStep
<1>28. CASE HandlerBegins
  BY <1>28 DEF HandlerBegins
<1>29. CASE MocaTelemetryPush
  BY <1>29 DEF MocaTelemetryPush
<1>30. CASE Signal
  BY <1>30 DEF Signal
<1>31. CASE NextProcess
  BY <1>31 DEF NextProcess
<1>32. CASE Reboot
  BY <1>32 DEF Reboot
<1> QED
  BY <1>1, <1>2, <1>3, <1>4, <1>5, <1>6, <1>7, <1>8, <1>9, <1>10, <1>11,
     <1>12, <1>13, <1>14, <1>15, <1>16, <1>17, <1>18, <1>19, <1>20, <1>21,
     <1>22, <1>23, <1>24, <1>25, <1>26, <1>27, <1>28, <1>29, <1>30, <1>31,
     <1>32 DEF Next, Start, ssp_create, ssp_engage, Cancels, Bus

(* Every step keeps the files and the history of crashes in line. *)
LEMMA CrashStep ==
    ASSUME TypeOK, CrashInv, Next
    PROVE  CrashInv'
<1> USE StartAssumption DEF CrashInv, TypeOK, MainPc, Engaging, Making,
              Starting, Kind, Handler, Advance, Quietly, Same, Spend,
              FileStep, Stops, Fault, Exit, NoProcess, vars, busVars,
              objectVars, traceVars, fileVars, historyVars
<1>1. CASE Daemonize
  BY <1>1 DEF Daemonize
<1>2. CASE Connect
  BY <1>2 DEF Connect
<1>3. CASE SetCallbacks
  BY <1>3 DEF SetCallbacks
<1>4. CASE CreateCommon
  BY <1>4 DEF CreateCommon
<1>5. CASE CreateController
  BY <1>5 DEF CreateController
<1>6. CASE EngageYellow
  BY <1>6 DEF EngageYellow
<1>7. CASE AddInterfaces
  BY <1>7 DEF AddInterfaces
<1>8. CASE CosaMoCACreate
  BY <1>8 DEF CosaMoCACreate
<1>9. CASE CosaMoCAInitialize
  BY <1>9 DEF CosaMoCAInitialize, CosaMoCAUpdate, CosaMoCALogger,
     CosaMoCASync, CosaMoCATelemetryInit, Make
<1>10. CASE AssignObject
  BY <1>10 DEF AssignObject
<1>11. CASE Register
  BY <1>11 DEF Register, Dispatched
<1>12. CASE EngageGreen
  BY <1>12 DEF EngageGreen, Dispatched
<1>13. CASE CdmInit
  BY <1>13 DEF CdmInit
<1>14. CASE check_component_crash
  BY <1>14 DEF check_component_crash
<1>15. CASE CreateInitialized
  BY <1>15 DEF CreateInitialized
<1>16. CASE TellInitialized
  BY <1>16 DEF TellInitialized
<1>17. CASE CreateBootup
  BY <1>17 DEF CreateBootup
<1>18. CASE BusCancel
  BY <1>18 DEF BusCancel, Unregister
<1>19. CASE BusRelease
  BY <1>19 DEF BusRelease, Release
<1>20. CASE ConsoleCancel
  BY <1>20 DEF ConsoleCancel, Unregister
<1>21. CASE MainRelease
  BY <1>21 DEF MainRelease, Release
<1>22. CASE ConsoleEngage
  BY <1>22 DEF ConsoleEngage
<1>23. CASE Quit
  BY <1>23 DEF Quit, Unregister
<1>24. CASE ReadCommon
  BY <1>24 DEF ReadCommon, Served
<1>25. CASE ReadObject
  BY <1>25 DEF ReadObject, Served
<1>26. CASE \E b \in BOOLEAN : ssp_CcdIfSetLoggingEnabled(b)
  BY <1>26 DEF ssp_CcdIfSetLoggingEnabled, Served, LogStep
<1>27. CASE \E l \in Level : ssp_CcdIfSetLoggingLevel(l)
  BY <1>27 DEF ssp_CcdIfSetLoggingLevel, Served, LogStep
<1>28. CASE HandlerBegins
  BY <1>28 DEF HandlerBegins
<1>29. CASE MocaTelemetryPush
  BY <1>29 DEF MocaTelemetryPush
<1>30. CASE Signal
  BY <1>30 DEF Signal
<1>31. CASE NextProcess
  BY <1>31 DEF NextProcess
<1>32. CASE Reboot
  BY <1>32 DEF Reboot
<1> QED
  BY <1>1, <1>2, <1>3, <1>4, <1>5, <1>6, <1>7, <1>8, <1>9, <1>10, <1>11,
     <1>12, <1>13, <1>14, <1>15, <1>16, <1>17, <1>18, <1>19, <1>20, <1>21,
     <1>22, <1>23, <1>24, <1>25, <1>26, <1>27, <1>28, <1>29, <1>30, <1>31,
     <1>32 DEF Next, Start, ssp_create, ssp_engage, Cancels, Bus

(* Every step keeps what is traced. *)
LEMMA LevelStep ==
    ASSUME TypeOK, LevelFollows, Next
    PROVE  LevelFollows'
<1> USE StartAssumption DEF LevelFollows, TypeOK, Common, Health, Advance,
              Quietly, Same, Spend, FileStep, Stops, Fault, Exit, NoProcess,
              vars, busVars, objectVars, traceVars, fileVars, historyVars
<1>1. CASE Daemonize
  BY <1>1 DEF Daemonize
<1>2. CASE Connect
  BY <1>2 DEF Connect
<1>3. CASE SetCallbacks
  BY <1>3 DEF SetCallbacks
<1>4. CASE CreateCommon
  BY <1>4, MadeLevelFollows
<1>5. CASE CreateController
  BY <1>5 DEF CreateController
<1>6. CASE EngageYellow
  BY <1>6 DEF EngageYellow, SetHealth
<1>7. CASE AddInterfaces
  BY <1>7 DEF AddInterfaces
<1>8. CASE CosaMoCACreate
  BY <1>8 DEF CosaMoCACreate
<1>9. CASE CosaMoCAInitialize
  BY <1>9 DEF CosaMoCAInitialize, CosaMoCAUpdate, CosaMoCALogger,
     CosaMoCASync, CosaMoCATelemetryInit, Make
<1>10. CASE AssignObject
  BY <1>10 DEF AssignObject
<1>11. CASE Register
  BY <1>11 DEF Register, Dispatched
<1>12. CASE EngageGreen
  BY <1>12 DEF EngageGreen, SetHealth, Dispatched
<1>13. CASE CdmInit
  BY <1>13 DEF CdmInit
<1>14. CASE check_component_crash
  BY <1>14 DEF check_component_crash
<1>15. CASE CreateInitialized
  BY <1>15 DEF CreateInitialized
<1>16. CASE TellInitialized
  BY <1>16 DEF TellInitialized
<1>17. CASE CreateBootup
  BY <1>17 DEF CreateBootup
<1>18. CASE BusCancel
  BY <1>18 DEF BusCancel, Unregister
<1>19. CASE BusRelease
  BY <1>19 DEF BusRelease, Release
<1>20. CASE ConsoleCancel
  BY <1>20 DEF ConsoleCancel, Unregister
<1>21. CASE MainRelease
  BY <1>21 DEF MainRelease, Release
<1>22. CASE ConsoleEngage
  BY <1>22 DEF ConsoleEngage
<1>23. CASE Quit
  BY <1>23 DEF Quit, Unregister
<1>24. CASE ReadCommon
  BY <1>24 DEF ReadCommon, Served
<1>25. CASE ReadObject
  BY <1>25 DEF ReadObject, Served
<1>26. CASE \E b \in BOOLEAN : ssp_CcdIfSetLoggingEnabled(b)
  BY <1>26 DEF ssp_CcdIfSetLoggingEnabled, Served, SetTrace, LogStep
<1>27. CASE \E l \in Level : ssp_CcdIfSetLoggingLevel(l)
  BY <1>27 DEF ssp_CcdIfSetLoggingLevel, Served, SetTrace, LogStep
<1>28. CASE HandlerBegins
  BY <1>28 DEF HandlerBegins
<1>29. CASE MocaTelemetryPush
  BY <1>29 DEF MocaTelemetryPush
<1>30. CASE Signal
  BY <1>30 DEF Signal
<1>31. CASE NextProcess
  BY <1>31 DEF NextProcess
<1>32. CASE Reboot
  BY <1>32 DEF Reboot
<1> QED
  BY <1>1, <1>2, <1>3, <1>4, <1>5, <1>6, <1>7, <1>8, <1>9, <1>10, <1>11,
     <1>12, <1>13, <1>14, <1>15, <1>16, <1>17, <1>18, <1>19, <1>20, <1>21,
     <1>22, <1>23, <1>24, <1>25, <1>26, <1>27, <1>28, <1>29, <1>30, <1>31,
     <1>32 DEF Next, Start, ssp_create, ssp_engage, Cancels, Bus

(* Every step keeps what a green component promises. *)
LEMMA GreenStep ==
    ASSUME TypeOK, GreenInv, Next
    PROVE  GreenInv'
<1> USE StartAssumption DEF GreenInv, Backed, ObjectThere, TypeOK, Common,
              Health, Op, MainPc, Engaging, Making, Starting, Kind, Handler,
              Advance, Quietly, Same, Spend, FileStep, Stops, Fault, Exit,
              NoProcess, vars, busVars, objectVars, traceVars, fileVars,
              historyVars
<1>1. CASE Daemonize
  BY <1>1 DEF Daemonize
<1>2. CASE Connect
  BY <1>2 DEF Connect
<1>3. CASE SetCallbacks
  BY <1>3 DEF SetCallbacks
<1>4. CASE CreateCommon
  BY <1>4 DEF CreateCommon, ComponentCommonDmInit
<1>5. CASE CreateController
  BY <1>5 DEF CreateController
<1>6. CASE EngageYellow
  BY <1>6 DEF EngageYellow, SetHealth
<1>7. CASE AddInterfaces
  BY <1>7 DEF AddInterfaces
<1>8. CASE CosaMoCACreate
  BY <1>8 DEF CosaMoCACreate
<1>9. CASE CosaMoCAInitialize
  BY <1>9 DEF CosaMoCAInitialize, CosaMoCAUpdate, CosaMoCALogger,
     CosaMoCASync, CosaMoCATelemetryInit, Make, Worker
<1>10. CASE AssignObject
  BY <1>10 DEF AssignObject
<1>11. CASE Register
  BY <1>11 DEF Register, Dispatched
<1>12. CASE EngageGreen
  BY <1>12 DEF EngageGreen, SetHealth, Dispatched
<1>13. CASE CdmInit
  BY <1>13 DEF CdmInit
<1>14. CASE check_component_crash
  BY <1>14 DEF check_component_crash
<1>15. CASE CreateInitialized
  BY <1>15 DEF CreateInitialized
<1>16. CASE TellInitialized
  BY <1>16 DEF TellInitialized
<1>17. CASE CreateBootup
  BY <1>17 DEF CreateBootup
<1>18. CASE BusCancel
  BY <1>18 DEF BusCancel, Unregister
<1>19. CASE BusRelease
  BY <1>19 DEF BusRelease, Release
<1>20. CASE ConsoleCancel
  BY <1>20 DEF ConsoleCancel, Unregister
<1>21. CASE MainRelease
  BY <1>21 DEF MainRelease, Release
<1>22. CASE ConsoleEngage
  BY <1>22 DEF ConsoleEngage
<1>23. CASE Quit
  BY <1>23 DEF Quit, Unregister
<1>24. CASE ReadCommon
  BY <1>24 DEF ReadCommon, Served
<1>25. CASE ReadObject
  BY <1>25 DEF ReadObject, Served
<1>26. CASE \E b \in BOOLEAN : ssp_CcdIfSetLoggingEnabled(b)
  BY <1>26 DEF ssp_CcdIfSetLoggingEnabled, Served, SetTrace, LogStep
<1>27. CASE \E l \in Level : ssp_CcdIfSetLoggingLevel(l)
  BY <1>27 DEF ssp_CcdIfSetLoggingLevel, Served, SetTrace, LogStep
<1>28. CASE HandlerBegins
  BY <1>28 DEF HandlerBegins
<1>29. CASE MocaTelemetryPush
  BY <1>29 DEF MocaTelemetryPush
<1>30. CASE Signal
  BY <1>30 DEF Signal
<1>31. CASE NextProcess
  BY <1>31 DEF NextProcess
<1>32. CASE Reboot
  BY <1>32 DEF Reboot
<1> QED
  BY <1>1, <1>2, <1>3, <1>4, <1>5, <1>6, <1>7, <1>8, <1>9, <1>10, <1>11,
     <1>12, <1>13, <1>14, <1>15, <1>16, <1>17, <1>18, <1>19, <1>20, <1>21,
     <1>22, <1>23, <1>24, <1>25, <1>26, <1>27, <1>28, <1>29, <1>30, <1>31,
     <1>32 DEF Next, Start, ssp_create, ssp_engage, Cancels, Bus

(* Every step keeps what is NULL excused. *)
LEMMA FaultStep ==
    ASSUME TypeOK, GreenInv, FaultInv, Next
    PROVE  FaultInv'
<1> USE StartAssumption DEF FaultInv, FaultsExplained, Excused, Paired,
              Before, Resting, GreenInv, ObjectThere, TypeOK, Health, Op,
              MainPc, Engaging, Making, Starting, Kind, Handler, Advance,
              Quietly, Same, Spend, FileStep, Stops, Fault, Exit, NoProcess,
              vars, busVars, objectVars, traceVars, fileVars, historyVars
<1>1. CASE Daemonize
  BY <1>1 DEF Daemonize
<1>2. CASE Connect
  BY <1>2 DEF Connect
<1>3. CASE SetCallbacks
  BY <1>3 DEF SetCallbacks
<1>4. CASE CreateCommon
  BY <1>4, CommonKept DEF CreateCommon
<1>5. CASE CreateController
  BY <1>5 DEF CreateController
<1>6. CASE EngageYellow
  BY <1>6, CommonKept DEF EngageYellow, SetHealth
<1>7. CASE AddInterfaces
  BY <1>7 DEF AddInterfaces
<1>8. CASE CosaMoCACreate
  BY <1>8 DEF CosaMoCACreate
<1>9. CASE CosaMoCAInitialize
  BY <1>9 DEF CosaMoCAInitialize, CosaMoCAUpdate, CosaMoCALogger,
     CosaMoCASync, CosaMoCATelemetryInit, Make
<1>10. CASE AssignObject
  BY <1>10 DEF AssignObject
<1>11. CASE Register
  BY <1>11 DEF Register, Dispatched
<1>12. CASE EngageGreen
  BY <1>12, CommonKept DEF EngageGreen, SetHealth, Dispatched
<1>13. CASE CdmInit
  BY <1>13 DEF CdmInit
<1>14. CASE check_component_crash
  BY <1>14 DEF check_component_crash
<1>15. CASE CreateInitialized
  BY <1>15 DEF CreateInitialized
<1>16. CASE TellInitialized
  BY <1>16 DEF TellInitialized
<1>17. CASE CreateBootup
  BY <1>17 DEF CreateBootup
<1>18. CASE BusCancel
  BY <1>18 DEF BusCancel, Unregister
<1>19. CASE BusRelease
  BY <1>19 DEF BusRelease, Release
<1>20. CASE ConsoleCancel
  BY <1>20 DEF ConsoleCancel, Unregister
<1>21. CASE MainRelease
  BY <1>21 DEF MainRelease, Release
<1>22. CASE ConsoleEngage
  BY <1>22 DEF ConsoleEngage
<1>23. CASE Quit
  BY <1>23 DEF Quit, Unregister
<1>24. CASE ReadCommon
  BY <1>24 DEF ReadCommon, Served
<1>25. CASE ReadObject
  BY <1>25 DEF ReadObject, Served
<1>26. CASE \E b \in BOOLEAN : ssp_CcdIfSetLoggingEnabled(b)
  BY <1>26, CommonKept DEF ssp_CcdIfSetLoggingEnabled, Served, SetTrace,
     LogStep
<1>27. CASE \E l \in Level : ssp_CcdIfSetLoggingLevel(l)
  BY <1>27, CommonKept DEF ssp_CcdIfSetLoggingLevel, Served, SetTrace, LogStep
<1>28. CASE HandlerBegins
  BY <1>28 DEF HandlerBegins
<1>29. CASE MocaTelemetryPush
  BY <1>29 DEF MocaTelemetryPush
<1>30. CASE Signal
  BY <1>30 DEF Signal
<1>31. CASE NextProcess
  BY <1>31 DEF NextProcess
<1>32. CASE Reboot
  BY <1>32 DEF Reboot
<1> QED
  BY <1>1, <1>2, <1>3, <1>4, <1>5, <1>6, <1>7, <1>8, <1>9, <1>10, <1>11,
     <1>12, <1>13, <1>14, <1>15, <1>16, <1>17, <1>18, <1>19, <1>20, <1>21,
     <1>22, <1>23, <1>24, <1>25, <1>26, <1>27, <1>28, <1>29, <1>30, <1>31,
     <1>32 DEF Next, Start, ssp_create, ssp_engage, Cancels, Bus

(* The parts of the type invariant. *)
LEMMA TypeStep ==
    ASSUME TypeOK, Next
    PROVE  TypeOK'
<1>1. /\ TypeValues /\ TypeSystemFlags /\ TypeFileFlags
      /\ workers \in SUBSET WorkerType /\ created \in Nat /\ g_MoCAObject \in Nat
      /\ common \in Common \union {NULL} /\ main \in MainPc
      /\ used \in [Op -> Nat] /\ budget \in Budget
  BY DEF TypeOK, TypeValues, TypeSystemFlags, TypeFileFlags, WorkerType
<1>2. TypeValues'
  BY <1>1, ValuesStep
<1>3. TypeSystemFlags' /\ TypeFileFlags'
  BY <1>1, SystemFlagsStep, FileFlagsStep
<1>4. (workers \in SUBSET WorkerType)' /\ (common \in Common \union {NULL})'
  BY <1>1, WorkersStep, CommonStep
<1>5. (main \in MainPc)' /\ used' \in [Op -> Nat] /\ budget' \in Budget
  BY <1>1, MainStep, UsedStep
<1> QED
  BY <1>2, <1>3, <1>4, <1>5
     DEF TypeOK, TypeValues, TypeSystemFlags, TypeFileFlags, WorkerType

-----------------------------------------------------------------------------
(* The inductive invariant.  None of the three properties below is kept by  *)
(* every step on its own: that the crash is noticed rests on what the file  *)
(* says between two processes, that green is served on what main has done   *)
(* before it says green, and that a fault is explained on which pointers    *)
(* are NULL together, and when.                                             *)
IInv == TypeOK /\ CrashInv /\ GreenInv /\ FaultInv /\ LevelFollows

LEMMA Initially ==
    Init => IInv
<1> SUFFICES ASSUME Init PROVE IInv
  OBVIOUS
<1>1. TypeOK
  <2>1. TypeValues /\ main \in MainPc
    BY StartAssumption DEF Init, TypeValues, MainPc, Starting
  <2>2. TypeSystemFlags /\ TypeFileFlags
    BY DEF Init, TypeSystemFlags, TypeFileFlags
  <2>3. workers \in SUBSET WorkerType /\ common \in Common \union {NULL}
    BY DEF Init
  <2>4. used \in [Op -> Nat] /\ budget \in Budget
    BY DEF Init
  <2> QED
    BY <2>1, <2>2, <2>3, <2>4 DEF TypeOK, TypeValues, TypeSystemFlags, TypeFileFlags, WorkerType
<1>2. CrashInv
  BY DEF Init, CrashInv
<1>3. GreenInv
  BY DEF Init, GreenInv, Kind, Handler
<1>4. FaultInv
  BY DEF Init, FaultInv, FaultsExplained, Paired, Excused, Before, Resting, Engaging, Making,
     Kind, Handler
<1>5. LevelFollows
  BY DEF Init, LevelFollows
<1> QED
  BY <1>1, <1>2, <1>3, <1>4, <1>5 DEF IInv

LEMMA Inductive ==
    IInv /\ [Next]_vars => IInv'
<1> SUFFICES ASSUME IInv, [Next]_vars PROVE IInv'
  OBVIOUS
<1>1. CASE Next
  BY <1>1, TypeStep, CrashStep, GreenStep, FaultStep, LevelStep DEF IInv
<1>2. CASE UNCHANGED vars
  <2> USE <1>2 DEF IInv, vars, busVars, objectVars, traceVars, fileVars, historyVars
  <2>1. TypeOK'
    BY DEF TypeOK
  <2>2. CrashInv'
    BY DEF CrashInv
  <2>3. GreenInv' /\ FaultInv'
    BY DEF GreenInv, Backed, ObjectThere, FaultInv, FaultsExplained, Excused, Paired
  <2>4. LevelFollows'
    BY DEF LevelFollows
  <2> QED
    BY <2>1, <2>2, <2>3, <2>4
<1> QED
  BY <1>1, <1>2

LEMMA Always == Spec => []IInv
  BY Initially, Inductive, PTL DEF Spec

(* Every variable keeps to its type. *)
THEOREM TypeCorrect == Spec => []TypeOK
<1>1. IInv => TypeOK
  BY DEF IInv
<1> QED
  BY <1>1, Always, PTL

(* Webconfig is told of a crash exactly if a completed start has ended      *)
(* since the device was booted, whatever signals, failures and restarts.    *)
THEOREM CrashesAreNoticed == Spec => []CrashNoticed
<1>1. IInv => CrashNoticed
  BY DEF IInv, CrashInv, CrashNoticed
<1> QED
  BY <1>1, Always, PTL

(* What is traced is what the bus was told last. *)
THEOREM LevelIsFollowed == Spec => []LevelFollows
<1>1. IInv => LevelFollows
  BY DEF IInv
<1> QED
  BY <1>1, Always, PTL

(* A component in good health is registered, engaged and has its object. *)
THEOREM GreenIsBacked == Spec => []GreenIsServed
<1>1. IInv => GreenIsServed
  BY DEF IInv, GreenInv, Backed, ObjectThere, GreenIsServed
<1> QED
  BY <1>1, Always, PTL

(* No pointer is NULL where it is used but for a failed allocation, a       *)
(* cancel that came early, or the first push of telemetry.                  *)
THEOREM FaultsAreExplained == Spec => []FaultsExplained
<1>1. IInv => FaultsExplained
  BY DEF IInv, FaultInv
<1> QED
  BY <1>1, Always, PTL

=============================================================================
