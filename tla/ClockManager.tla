---------------------------- MODULE ClockManager ----------------------------
(***************************************************************************)
(* The main loop of the sysmodule (sysmodule/src/clock_manager.cpp): every *)
(* tick it refreshes its picture of the console (power state, settings,    *)
(* application, performance configuration, ReverseNX mode, clocks) and,    *)
(* when something changed, sets the CPU, GPU and memory clocks.            *)
(*                                                                         *)
(* The tick thread is a program counter over the calls of Tick(),          *)
(* RefreshContext() and WaitForNextTick() that read something another      *)
(* actor may change.  Between any two of its steps the IPC thread runs     *)
(* request handlers, the system (apm, the user, the charger) changes the   *)
(* console, and the governor's threads move the clocks they own.           *)
(*                                                                         *)
(* Left out: logging, the CSV file, temperatures, which no decision reads. *)
(***************************************************************************)
EXTENDS Config

CONSTANTS
    PowerStates,       \* <<docked, charger>> pairs the console may be in
    ApmConfs,          \* performance configurations the system may choose
    ChargeLevels,      \* battery percentages
    RTModes,           \* modes ReverseNX-RT may send
    ToolMode,          \* per application, the mode ReverseNX-Tool's patches force
    IpcExit,           \* TRUE when a client may ask the sysmodule to exit
    ForceDisable,      \* TRUE when the user may toggle "Force Disable Charging"
    SlowCalls,         \* TRUE: others may get between SetHz and its read-back, and
                       \* between ResetToStock's question to apm and its SetHz
    HeapWords          \* what an uninitialised word of a new object may hold

ReverseNXModes == {"NotFound", "Handheld", "Docked"}

ASSUME EnvironmentAssumption ==
    /\ PowerStates \subseteq BOOLEAN \X ChargerTypes
    /\ ApmConfs \subseteq ApmConfigurations
    /\ ChargeLevels \subseteq 0..100
    /\ RTModes \subseteq ReverseNXModes
    /\ ToolMode \in [Apps -> ReverseNXModes]
    /\ IpcExit \in BOOLEAN
    /\ ForceDisable \in BOOLEAN
    /\ SlowCalls \in BOOLEAN
    /\ HeapWords \subseteq Nat

VARIABLES
    \* the console
    power,          \* <<apm performance mode, psm charger type>>
    runningApp,     \* the application pm reports
    apmConf,        \* apm's current performance configuration
    hw,             \* the clock rates pcv reports
    chargeNow,      \* battery percentage
    chargeEnabled,  \* psm's battery charging switch
    \* ReverseNXSync
    m_rt_mode, m_tool_mode, m_sync_enabled,
    \* Clocks
    allowUnsafe,
    \* Governor, as seen by the clock manager
    govConfig,      \* the modules it handles
    govLate,        \* modules its thread may yet set although they are no longer its
    govMin, govMax, \* the range it was given
    govBoost,       \* CpuGovernor's boost_hz and auto_boost
    \* SysClkContext
    applicationId, profile, ctxEnabled, freqs, ctxOverrides, perfConfId,
    \* SysClkOcExtra
    systemCoreBoostCPU, batteryChargingDisabledOverride, realProfile,
    \* the tick thread
    running,        \* this->running
    pc,             \* the call it is about to make
    module,         \* the loop variable of the two loops over the modules
    hasChanged,     \* RefreshContext's local
    confId          \* ResetToStock's local, "none" outside it

consoleVars == <<power, runningApp, apmConf, hw, chargeNow, chargeEnabled>>
rnxVars     == <<m_rt_mode, m_tool_mode, m_sync_enabled>>
govVars     == <<govConfig, govLate, govMin, govMax, govBoost>>
contextVars == <<applicationId, profile, ctxEnabled, freqs, ctxOverrides, perfConfId>>
ocVars      == <<systemCoreBoostCPU, batteryChargingDisabledOverride, realProfile>>
threadVars  == <<pc, module, hasChanged, confId>>
vars == <<configVars, consoleVars, rnxVars, allowUnsafe, govVars, contextVars,
          ocVars, running, threadVars>>

PCs == {"charging", "profile", "config", "sync", "unsafe", "boost", "enabled", "app",
        "governor", "perfConf", "nominal", "reset", "stock", "clocks", "drop",
        "apply", "readback", "wait", "measure", "exited"}

ConsoleTypeOK ==
    /\ power \in BOOLEAN \X ChargerTypes
    /\ runningApp \in Apps
    /\ apmConf \in ApmConfigurations
    /\ hw \in [Modules -> Nat]
    /\ chargeNow \in 0..100
    /\ chargeEnabled \in BOOLEAN

RnxTypeOK ==
    /\ m_rt_mode \in ReverseNXModes
    /\ m_tool_mode \in ReverseNXModes
    /\ m_sync_enabled \in BOOLEAN

GovTypeOK ==
    /\ govConfig \in SUBSET {"CPU", "GPU"}
    /\ govLate \in SUBSET {"CPU", "GPU"}
    /\ govMin \in [{"CPU", "GPU"} -> Nat]
    /\ govMax \in [{"CPU", "GPU"} -> Nat]
    /\ govBoost \in [hz : Nat, auto : BOOLEAN]

ContextTypeOK ==
    /\ applicationId \in Apps \cup {"none"}
    /\ profile \in Profiles
    /\ ctxEnabled \in BOOLEAN
    /\ freqs \in [Modules -> Nat]
    /\ ctxOverrides \in [Modules -> Nat]
    /\ perfConfId \in ApmConfigurations \cup {"none"}

OcTypeOK ==
    /\ systemCoreBoostCPU \in BOOLEAN
    /\ batteryChargingDisabledOverride \in BOOLEAN
    /\ realProfile \in Profiles

ThreadTypeOK ==
    /\ pc \in PCs
    /\ module \in Modules
    /\ hasChanged \in BOOLEAN
    /\ confId \in ApmConfigurations \cup {"none"}

TypeOK ==
    /\ ConfigTypeOK /\ ConsoleTypeOK /\ RnxTypeOK /\ allowUnsafe \in BOOLEAN
    /\ GovTypeOK /\ ContextTypeOK /\ OcTypeOK /\ running \in BOOLEAN /\ ThreadTypeOK
-----------------------------------------------------------------------------
(* ReverseNXSync::GetMode: ReverseNX-RT's word before ReverseNX-Tool's.    *)
GetMode ==
    IF ~m_sync_enabled THEN "NotFound"
    ELSE IF m_rt_mode # "NotFound" THEN m_rt_mode ELSE m_tool_mode

(* ReverseNXSync::GetProfile *)
GetProfile(real) ==
    CASE GetMode = "Docked" -> "Docked"
      [] GetMode = "Handheld" /\ real = "Docked" -> "HandheldChargingOfficial"
      [] OTHER -> real

(* ClockManager::GetHz, the user's wish: a temporary override before the   *)
(* application's profile, that before the global one, then the preset of a *)
(* forced ReverseNX mode; 0 when nothing is asked for.                     *)
Preset(m) ==
    IF GetMode = "NotFound" THEN 0
    ELSE [CPU |-> 10200,
          GPU |-> IF GetMode = "Docked" \/ realProfile = "Docked" THEN 7680 ELSE 4608,
          MEM |-> MEM_CLOCK_DOCK][m]

RequestedHz(m) ==
    FirstSet(<<ctxOverrides[m],
               GetAutoClockHz(applicationId, m, profile),
               GetAutoClockHz(GLOBAL_TID, m, profile),
               Preset(m)>>)

(* Mutant of CappedHz: the cap of the most generous power state.           *)
HzCappedAsDocked(m) ==
    IF RequestedHz(m) = 0 THEN 0 ELSE GetNearestHz(m, "Docked", RequestedHz(m), allowUnsafe)

(* The wish capped by what the real power state allows.                    *)
CappedHz(m) ==
    IF RequestedHz(m) = 0 THEN 0
    ELSE GetNearestHz(m, realProfile, RequestedHz(m), allowUnsafe)

(* ClockManager::GetHz: the CPU always has a target, the others may not.   *)
TargetHz(m, boost) ==
    IF m # "CPU" THEN CappedHz(m)
    ELSE IF boost /\ CappedHz(m) < boostCpuFreq THEN boostCpuFreq
    ELSE IF CappedHz(m) = 0 THEN 10200
    ELSE CappedHz(m)

GetHz(m) == TargetHz(m, systemCoreBoostCPU)

(* Tick: clocks that are left to the system while an application loads.    *)
SkipBoost(m) ==
    /\ IsBoostMode(perfConfId)
    /\ (m = "CPU" /\ GetHz(m) <= boostCpuFreq) \/ m = "GPU"

(* Mutant of IsHandledByGovernor: the GPU only.                            *)
OnlyGpuHandled(m) == m = "GPU" /\ m \in govConfig

IsHandledByGovernor(m) == m \in govConfig

StockClocks(conf) == [m \in Modules |-> GetStockClock(conf, m)]
-----------------------------------------------------------------------------
(* ClockManager::ClockManager, Clocks::Initialize; the fields of the       *)
(* governors and m_sync_enabled start with whatever the heap held.         *)
Init ==
    /\ ConfigInit
    /\ power \in PowerStates
    /\ runningApp \in Apps
    /\ apmConf \in ApmConfs
    /\ hw = StockClocks(apmConf)
    /\ chargeNow \in ChargeLevels
    /\ chargeEnabled = TRUE
    /\ m_rt_mode = "NotFound"
    /\ m_tool_mode = "NotFound"
    /\ m_sync_enabled \in BOOLEAN
    /\ allowUnsafe = FALSE
    /\ govConfig = {}
    /\ govLate = {}
    /\ \E w \in HeapWords :
          /\ govMin = [m \in {"CPU", "GPU"} |-> IF m = "CPU" THEN w ELSE 1536]
          /\ govMax = [m \in {"CPU", "GPU"} |-> w]
    /\ govBoost = [hz |-> boostCpuFreq, auto |-> FALSE]
    /\ applicationId = "none"
    /\ profile = "Handheld"
    /\ ctxEnabled = FALSE
    /\ freqs = [m \in Modules |-> 0]
    /\ ctxOverrides = [m \in Modules |-> 0]
    /\ perfConfId = "none"
    /\ systemCoreBoostCPU = FALSE
    /\ batteryChargingDisabledOverride = FALSE
    /\ realProfile = "Handheld"
    /\ running = TRUE
    /\ pc = "charging"
    /\ module = "CPU"
    /\ hasChanged = FALSE
    /\ confId = "none"
-----------------------------------------------------------------------------
Goto(next) == pc' = next /\ UNCHANGED <<module, confId>>

(* Mutant of ChargingHandler: charging goes on at the limit itself.        *)
ChargeAtLimit ==
    LET isCharging == power[2] # "Unconnected" /\ chargeEnabled
        limit      == configValues.ChargingLimitPercentage
    IN  /\ pc = "charging"
        /\ chargeEnabled' =
              \/ chargeEnabled /\ ~(isCharging /\ (batteryChargingDisabledOverride \/ limit < chargeNow))
              \/ power[2] # "Unconnected" /\ ~isCharging /\ limit > chargeNow
        /\ Goto("profile")
        /\ UNCHANGED <<configVars, power, runningApp, apmConf, hw, chargeNow, rnxVars,
                       allowUnsafe, govVars, contextVars, ocVars, running, hasChanged>>

(* PsmExt::ChargingHandler.  Both tests look at the state read before the  *)
(* first of them acts.                                                     *)
ChargingHandler ==
    LET connected  == power[2] # "Unconnected"
        limit      == configValues.ChargingLimitPercentage
        isCharging == connected /\ chargeEnabled
    IN  /\ pc = "charging"
        /\ chargeEnabled' =
              \/ /\ chargeEnabled
                 /\ ~(isCharging /\ (batteryChargingDisabledOverride \/ limit <= chargeNow))
              \/ connected /\ ~isCharging /\ limit > chargeNow
        /\ Goto("profile")
        /\ UNCHANGED <<configVars, power, runningApp, apmConf, hw, chargeNow, rnxVars,
                       allowUnsafe, govVars, contextVars, ocVars, running, hasChanged>>

(* The real profile.  The hasChanged this part sets is overwritten by the  *)
(* next statement of RefreshContext, before anything reads it.             *)
RefreshProfile ==
    LET current == GetCurrentProfile(power[1], power[2])
    IN  /\ pc = "profile"
        /\ realProfile' = current
        /\ batteryChargingDisabledOverride' =
              (batteryChargingDisabledOverride /\ current = realProfile)
        /\ hasChanged' = (current # realProfile)
        /\ Goto("config")
        /\ UNCHANGED <<configVars, consoleVars, rnxVars, allowUnsafe, govVars,
                       contextVars, systemCoreBoostCPU, running>>

RefreshConfig ==
    /\ pc = "config"
    /\ Refresh
    /\ hasChanged' = NeedsLoad
    /\ Goto(IF NeedsLoad THEN "sync" ELSE "enabled")
    /\ UNCHANGED <<consoleVars, rnxVars, allowUnsafe, govVars, contextVars, ocVars, running>>

(* The settings the tick thread keeps a copy of, one locked read each.     *)
ToggleSync ==
    /\ pc = "sync"
    /\ m_sync_enabled' = configValues.SyncReverseNXMode
    /\ Goto("unsafe")
    /\ UNCHANGED <<configVars, consoleVars, m_rt_mode, m_tool_mode, allowUnsafe, govVars,
                   contextVars, ocVars, running, hasChanged>>

SetAllowUnsafe ==
    /\ pc = "unsafe"
    /\ allowUnsafe' = configValues.AllowUnsafeFrequencies
    /\ Goto("boost")
    /\ UNCHANGED <<configVars, consoleVars, rnxVars, govVars, contextVars, ocVars, running,
                   hasChanged>>

(* Governor::SetAutoCPUBoost and SetCPUBoostHz.                            *)
SetGovernorBoost ==
    /\ pc = "boost"
    /\ govBoost' = [auto |-> configValues.AutoCPUBoost,
                    hz |-> GetNearestHz("CPU", realProfile, boostCpuFreq, allowUnsafe)]
    /\ Goto("enabled")
    /\ UNCHANGED <<configVars, consoleVars, rnxVars, allowUnsafe, govConfig, govLate, govMin,
                   govMax, contextVars, ocVars, running, hasChanged>>

RefreshEnabled ==
    /\ pc = "enabled"
    /\ ctxEnabled' = enabled
    /\ hasChanged' = (hasChanged \/ enabled # ctxEnabled)
    /\ Goto("app")
    /\ UNCHANGED <<configVars, consoleVars, rnxVars, allowUnsafe, govVars, applicationId,
                   profile, freqs, ctxOverrides, perfConfId, ocVars, running>>

(* Mutant of RefreshApplication: ReverseNX-Tool's patches are not read.    *)
NewApplication ==
    /\ pc = "app"
    /\ applicationId' = runningApp
    /\ m_rt_mode' = IF runningApp # applicationId THEN "NotFound" ELSE m_rt_mode
    /\ hasChanged' = (hasChanged \/ runningApp # applicationId)
    /\ Goto("governor")
    /\ UNCHANGED <<configVars, consoleVars, m_tool_mode, m_sync_enabled, allowUnsafe, govVars,
                   profile, ctxEnabled, freqs, ctxOverrides, perfConfId, ocVars, running>>

(* A new application forgets the mode ReverseNX-RT had sent.               *)
RefreshApplication ==
    /\ pc = "app"
    /\ applicationId' = runningApp
    /\ IF runningApp # applicationId
       THEN /\ m_rt_mode' = "NotFound"
            /\ m_tool_mode' = ToolMode[runningApp]
            /\ hasChanged' = TRUE
       ELSE UNCHANGED <<m_rt_mode, m_tool_mode, hasChanged>>
    /\ Goto("governor")
    /\ UNCHANGED <<configVars, consoleVars, m_sync_enabled, allowUnsafe, govVars,
                   profile, ctxEnabled, freqs, ctxOverrides, perfConfId, ocVars, running>>

(* Governor::SetConfig.  Stopping the last module joins every thread of    *)
(* the governor; otherwise its manager thread goes on, and may be about to *)
(* set a clock it looked up before it lost the module.                     *)
SetGovernorConfig ==
    /\ pc = "governor"
    /\ govConfig' =
          IF /\ configValues.GovernorExperimental
             /\ ~(configValues.GovernorHandheldOnly /\ realProfile # "Handheld")
          THEN GetTitleGovernorConfig(applicationId) ELSE {}
    /\ govLate' = IF govConfig' = {} THEN {} ELSE (govLate \cup govConfig) \ govConfig'
    /\ Goto("perfConf")
    /\ UNCHANGED <<configVars, consoleVars, rnxVars, allowUnsafe, govMin, govMax, govBoost,
                   contextVars, ocVars, running, hasChanged>>

RefreshPerfConf ==
    /\ pc = "perfConf"
    /\ perfConfId' = apmConf
    /\ hasChanged' = (hasChanged \/ apmConf # perfConfId)
    /\ Goto("nominal")
    /\ UNCHANGED <<configVars, consoleVars, rnxVars, allowUnsafe, govVars, applicationId,
                   profile, ctxEnabled, freqs, ctxOverrides, ocVars, running>>

(* Mutant of RefreshNominalProfile: another profile is no change.          *)
ProfileUnnoticed ==
    /\ pc = "nominal"
    /\ profile' = GetProfile(realProfile)
    /\ Goto("reset")
    /\ UNCHANGED <<configVars, consoleVars, rnxVars, allowUnsafe, govVars, applicationId,
                   ctxEnabled, freqs, ctxOverrides, perfConfId, ocVars, running, hasChanged>>

RefreshNominalProfile ==
    /\ pc = "nominal"
    /\ profile' = GetProfile(realProfile)
    /\ hasChanged' = (hasChanged \/ profile' # profile)
    /\ Goto("reset")
    /\ UNCHANGED <<configVars, consoleVars, rnxVars, allowUnsafe, govVars, applicationId,
                   ctxEnabled, freqs, ctxOverrides, perfConfId, ocVars, running>>

(* Clocks::ResetToStock asks apm again rather than using perfConfId, then  *)
(* sets the three clocks.                                                  *)
ResetToStock ==
    /\ pc = "reset"
    /\ module' = "CPU"
    /\ IF hasChanged /\ ~IsBoostMode(perfConfId)
       THEN pc' = "stock" /\ confId' = apmConf
       ELSE pc' = "clocks" /\ UNCHANGED confId
    /\ UNCHANGED <<configVars, consoleVars, rnxVars, allowUnsafe, govVars, contextVars, ocVars,
                   running, hasChanged>>

SetStock ==
    /\ pc = "stock"
    /\ hw' = StockClocks(confId)
    /\ pc' = "clocks"
    /\ confId' = "none"
    /\ UNCHANGED <<configVars, power, runningApp, apmConf, chargeNow, chargeEnabled, rnxVars,
                   allowUnsafe, govVars, contextVars, ocVars, running, module, hasChanged>>

(* The next round of a loop over the modules, or what follows the loop.    *)
NextModule(body, after) ==
    IF module = "MEM" THEN pc' = after /\ module' = "CPU"
    ELSE pc' = body /\ module' = IF module = "CPU" THEN "GPU" ELSE "MEM"

(* The loop of RefreshContext over the modules ends in the loop of Tick.   *)
NextRefresh(changed) ==
    NextModule("clocks", IF changed /\ ctxEnabled THEN "apply" ELSE "wait")

(* Mutant of ClockMoved: nobody looks at what the clocks are.              *)
NeverMoved(m) == FALSE

(* RefreshContext: somebody else has set this clock.                       *)
ClockMoved(m) == hw[m] # 0 /\ hw[m] # freqs[m]

(* Mutant of OverrideMoved: an override is noticed only when it is dropped.*)
OverrideDropped(m) == overrideFreqs[m] # ctxOverrides[m] /\ overrideFreqs[m] = 0

OverrideMoved(m) == overrideFreqs[m] # ctxOverrides[m]

(* The loop of RefreshContext.  Dropping an override resets the clock, but *)
(* freqs keeps the value read before that.                                 *)
RefreshClock ==
    LET m    == module
        drop == OverrideMoved(m) /\ overrideFreqs[m] = 0
    IN  /\ pc = "clocks"
        /\ freqs' = IF ClockMoved(m) THEN [freqs EXCEPT ![m] = hw[m]] ELSE freqs
        /\ ctxOverrides' = [ctxOverrides EXCEPT ![m] = overrideFreqs[m]]
        /\ hasChanged' = \/ hasChanged
                         \/ ClockMoved(m) /\ ~IsHandledByGovernor(m)
                         \/ OverrideMoved(m)
        /\ confId' = IF drop THEN apmConf ELSE confId
        /\ IF drop THEN pc' = "drop" /\ UNCHANGED module ELSE NextRefresh(hasChanged')
        /\ UNCHANGED <<configVars, consoleVars, rnxVars, allowUnsafe, govVars, applicationId,
                       profile, ctxEnabled, perfConfId, ocVars, running>>

(* Clocks::ResetToStock of one module.                                     *)
DropOverride ==
    /\ pc = "drop"
    /\ hw' = [hw EXCEPT ![module] = GetStockClock(confId, module)]
    /\ confId' = "none"
    /\ NextRefresh(hasChanged)
    /\ UNCHANGED <<configVars, power, runningApp, apmConf, chargeNow, chargeEnabled, rnxVars,
                   allowUnsafe, govVars, contextVars, ocVars, running, hasChanged>>

(* The loop of Tick: tell the governor its range, set what it does not own.*)
Apply ==
    LET m     == module
        hz    == GetHz(m)
        range == IF hz = 0 THEN GetStockClock(perfConfId, m) ELSE hz
    IN  /\ pc = "apply"
        /\ govMax' = IF m = "MEM" THEN govMax ELSE [govMax EXCEPT ![m] = range]
        /\ govMin' = IF m = "MEM" THEN govMin ELSE [govMin EXCEPT ![m] =
                IF m = "CPU" THEN IF isMariko /\ hz > 10200 THEN 10200 ELSE freqTable["CPU"][1]
                ELSE IF range <= 1536 THEN range ELSE 1536]
        /\ IF hz # 0 /\ hz # freqs[m] /\ ~IsHandledByGovernor(m) /\ ~SkipBoost(m)
           THEN hw' = [hw EXCEPT ![m] = hz] /\ pc' = "readback" /\ UNCHANGED module
           ELSE UNCHANGED hw /\ NextModule("apply", "wait")
        /\ UNCHANGED <<configVars, power, runningApp, apmConf, chargeNow, chargeEnabled,
                       rnxVars, allowUnsafe, govConfig, govLate, govBoost, contextVars,
                       ocVars, running, hasChanged, confId>>

(* The clock is read back after it was set.                                *)
ReadBack ==
    /\ pc = "readback"
    /\ freqs' = [freqs EXCEPT ![module] = hw[module]]
    /\ NextModule("apply", "wait")
    /\ UNCHANGED <<configVars, consoleVars, rnxVars, allowUnsafe, govVars, applicationId, profile,
                   ctxEnabled, ctxOverrides, perfConfId, ocVars, running, hasChanged, confId>>

(* The test of main's loop ends every WaitForNextTick.                     *)
EndOfTick == Goto(IF running THEN "charging" ELSE "exited")

(* Mutant of BoostOK: nobody asks for the charger.                         *)
BoostOnBattery ==
    configValues.AutoCPUBoost /\ ctxEnabled /\ freqs["CPU"] <= boostCpuFreq

BoostOK ==
    /\ configValues.AutoCPUBoost
    /\ ctxEnabled
    /\ realProfile # "Handheld"
    /\ freqs["CPU"] <= boostCpuFreq

(* WaitForNextTick without a measurement: a boost that is no longer        *)
(* wanted is taken back to whatever GetHz says.                            *)
WaitForNextTick ==
    LET dropBoost == ~IsHandledByGovernor("CPU") /\ ~BoostOK /\ systemCoreBoostCPU
    IN  /\ pc = "wait"
        /\ IF ~IsHandledByGovernor("CPU") /\ BoostOK THEN Goto("measure") ELSE EndOfTick
        /\ systemCoreBoostCPU' = (systemCoreBoostCPU /\ ~dropBoost)
        /\ hw' = IF dropBoost THEN [hw EXCEPT !["CPU"] = TargetHz("CPU", FALSE)] ELSE hw
        /\ UNCHANGED <<configVars, power, runningApp, apmConf, chargeNow, chargeEnabled,
                       rnxVars, allowUnsafe, govVars, contextVars,
                       batteryChargingDisabledOverride, realProfile, running, hasChanged>>

(* WaitForNextTick after its sleep: busy says whether core 3's             *)
(* utilisation reached BOOST_THRESHOLD.                                    *)
MeasureCore3(busy) ==
    /\ pc = "measure"
    /\ systemCoreBoostCPU' = busy
    /\ hw' = IF systemCoreBoostCPU = busy THEN hw
             ELSE [hw EXCEPT !["CPU"] = IF busy THEN boostCpuFreq ELSE TargetHz("CPU", FALSE)]
    /\ EndOfTick
    /\ UNCHANGED <<configVars, power, runningApp, apmConf, chargeNow, chargeEnabled,
                   rnxVars, allowUnsafe, govVars, contextVars,
                   batteryChargingDisabledOverride, realProfile, running, hasChanged>>

TickThread ==
    \/ ChargingHandler \/ RefreshProfile \/ RefreshConfig \/ ToggleSync \/ SetAllowUnsafe
    \/ SetGovernorBoost \/ RefreshEnabled \/ RefreshApplication \/ SetGovernorConfig \/ RefreshPerfConf
    \/ RefreshNominalProfile \/ ResetToStock \/ SetStock \/ RefreshClock \/ DropOverride
    \/ Apply \/ ReadBack \/ WaitForNextTick
    \/ \E busy \in BOOLEAN : MeasureCore3(busy)
-----------------------------------------------------------------------------
(* The IPC thread.  A handler runs at any point of a tick: only            *)
(* GetCurrentContext takes the mutex Tick holds.                           *)
managerVars == <<rnxVars, allowUnsafe, govVars, contextVars, ocVars, running, threadVars>>

IpcSettings ==
    /\ \/ \E t \in Tids, l \in ProfileLists : SetProfiles(t, l)
       \/ \E v \in ValueLists : SetConfigValues(v)
       \/ \E on \in BOOLEAN : SetEnabled(on)
       \/ \E m \in Modules, hz \in OverrideFreqs : SetOverride(m, hz)
    /\ UNCHANGED <<consoleVars, managerVars>>

(* IpcService::SetReverseNXRTMode *)
SetRNXRTMode ==
    /\ m_rt_mode' \in RTModes
    /\ UNCHANGED <<configVars, consoleVars, m_tool_mode, m_sync_enabled, allowUnsafe, govVars,
                   contextVars, ocVars, running, threadVars>>

(* IpcService::SetBatteryChargingDisabledOverride *)
SetBatteryChargingDisabledOverride ==
    /\ ForceDisable
    /\ batteryChargingDisabledOverride' \in BOOLEAN
    /\ UNCHANGED <<configVars, consoleVars, rnxVars, allowUnsafe, govVars, contextVars,
                   systemCoreBoostCPU, realProfile, running, threadVars>>

(* IpcService::Exit *)
Exit ==
    /\ IpcExit
    /\ running' = FALSE
    /\ UNCHANGED <<configVars, consoleVars, rnxVars, allowUnsafe, govVars, contextVars,
                   ocVars, threadVars>>

Ipc == pc # "exited"
       /\ (IpcSettings \/ SetRNXRTMode \/ SetBatteryChargingDisabledOverride \/ Exit)
-----------------------------------------------------------------------------
(* The rest of the console.  psm and apm report the power state; apm moves *)
(* the clocks to those of the configuration it chooses; the user starts    *)
(* applications and may edit the file on the SD card.                      *)
PowerChange ==
    /\ power' \in PowerStates
    /\ UNCHANGED <<configVars, runningApp, apmConf, hw, chargeNow, chargeEnabled, managerVars>>

ApplicationChange ==
    /\ runningApp' \in Apps
    /\ UNCHANGED <<configVars, power, apmConf, hw, chargeNow, chargeEnabled, managerVars>>

ApmChange ==
    /\ pc \in {"stock", "drop", "readback"} => SlowCalls
    /\ apmConf' \in ApmConfs
    /\ hw' = StockClocks(apmConf')
    /\ UNCHANGED <<configVars, power, runningApp, chargeNow, chargeEnabled, managerVars>>

BatteryChange ==
    /\ chargeNow' \in ChargeLevels
    /\ UNCHANGED <<configVars, power, runningApp, apmConf, hw, chargeEnabled, managerVars>>

EditFile ==
    /\ \E t \in Tids, l \in ProfileLists : file' = [file EXCEPT !.profiles[t] = l]
    /\ Touch
    /\ UNCHANGED <<loaded, profiles, configValues, enabled, overrideFreqs, consoleVars,
                   managerVars>>

Console == PowerChange \/ ApplicationChange \/ ApmChange \/ BatteryChange \/ EditFile

(* The governor's threads, seen from outside: they set the clock of a      *)
(* module they own to an end of its range, to a table entry or to a boost  *)
(* clock.  They found it before the call, in the range and under the       *)
(* configuration of that moment.                                           *)
GovernorTargets(m) ==
    {govMin[m], govMax[m]} \cup HeapWords
    \cup {freqTable[m][i] : i \in DOMAIN freqTable[m]}
    \cup {GetStockClock(c, m) : c \in ApmConfs}
    \cup IF m = "CPU" THEN {govBoost.hz, boostCpuFreq} ELSE {1536, 768}

GovernorStep ==
    /\ pc # "exited"
    /\ \E m \in govConfig : \E hz \in GovernorTargets(m) \ {0} : hw' = [hw EXCEPT ![m] = hz]
    /\ UNCHANGED <<configVars, power, runningApp, apmConf, chargeNow, chargeEnabled, managerVars>>

(* The same for a module the governor has just lost: one call may be under *)
(* way.                                                                    *)
LateGovernorStep ==
    /\ pc # "exited"
    /\ pc = "readback" => SlowCalls
    /\ \E m \in govLate : \E hz \in GovernorTargets(m) \ {0} : hw' = [hw EXCEPT ![m] = hz]
    /\ govLate' = {}
    /\ UNCHANGED <<configVars, power, runningApp, apmConf, chargeNow, chargeEnabled, rnxVars,
                   allowUnsafe, govConfig, govMin, govMax, govBoost, contextVars, ocVars,
                   running, threadVars>>

GovernorThreads == GovernorStep \/ LateGovernorStep

(* After main's loop the process ends.                                     *)
Terminated == pc = "exited" /\ UNCHANGED vars

Next == TickThread \/ Ipc \/ Console \/ GovernorThreads \/ Terminated

(* A step of the tick thread is recognised by the move of its program      *)
(* counter, or of the loop variable; no other actor moves either.          *)
TickStep == <<pc, module>>' # <<pc, module>>

(* The tick thread is a thread of its own that only ever waits for locks   *)
(* held for a short time; nobody else is obliged to act.                   *)
Spec == Init /\ [][Next]_vars /\ WF_vars(TickThread)
-----------------------------------------------------------------------------
NoReverseNX == RTModes \subseteq {"NotFound"} /\ \A a \in Apps : ToolMode[a] = "NotFound"
NoGovernor  == \A v \in ValueLists : ~v.GovernorExperimental

(* The clocks a module may be left at while the console is in a given      *)
(* power state: anything up to the cap, what some performance              *)
(* configuration of the system asks for, and the CPU's fixed clocks.       *)
FixedHz(m) == IF m = "CPU" THEN {10200, boostCpuFreq} ELSE {}

Allowed(m) ==
    {hz \in Nat : hz <= maxHz(m, realProfile, allowUnsafe)}
    \cup {GetStockClock(c, m) : c \in ApmConfigurations}
    \cup FixedHz(m)

CapsHold == \A m \in Modules : hw[m] \in Allowed(m)

(* README "Capping": whatever was requested and whenever the console was   *)
(* docked, undocked or plugged in, a finished tick leaves every clock      *)
(* within the cap of the power state it saw.                               *)
CapHeld == pc = "wait" /\ ~IsBoostMode(perfConfId) => CapsHold

(* The comment on WaitForNextTick: no automatic CPU boost "at higher CPU   *)
(* freq or without charger".  Between two ticks the boost is on only while *)
(* all of that was seen to hold.                                           *)
BoostNeedsCharger ==
    pc = "charging" /\ systemCoreBoostCPU
    => realProfile # "Handheld" /\ ctxEnabled /\ freqs["CPU"] <= boostCpuFreq

(* The steps in which the tick thread sets clocks the user asked for.      *)
SetHzStep == pc \in {"apply", "wait", "measure"} /\ TickStep

(* Tick and WaitForNextTick: no call of SetHz outside a reset passes a     *)
(* clock above the cap, except for the fixed CPU clocks, in whatever mode  *)
(* the console is.                                                         *)
SetWithinCap ==
    [][\A m \in Modules :
          SetHzStep /\ hw'[m] # hw[m]
          => hw'[m] <= maxHz(m, realProfile, allowUnsafe) \/ hw'[m] \in FixedHz(m)]_vars
-----------------------------------------------------------------------------
(* What the user and the README ask for, computed from the console and the *)
(* file alone: a temporary override before the application's profile       *)
(* before the global profile, with the fallbacks of the charging profiles, *)
(* then the preset of ReverseNX's mode, cut to the cap of the power state; *)
(* otherwise stock clocks, 1020 MHz for the CPU.                           *)
AtRest == <>[][TickStep]_vars     \* nobody but the tick thread acts any more

SavedValues  == ValidValues(file.values)
PowerProfile == GetCurrentProfile(power[1], power[2])

WantedMode ==
    IF ~SavedValues.SyncReverseNXMode THEN "NotFound"
    ELSE IF m_rt_mode # "NotFound" THEN m_rt_mode ELSE ToolMode[runningApp]

NominalProfile(mode) ==
    CASE mode = "Docked" -> "Docked"
      [] mode = "Handheld" /\ PowerProfile = "Docked" -> "HandheldChargingOfficial"
      [] OTHER -> PowerProfile

WantedProfile == NominalProfile(WantedMode)

WantedPreset ==
    [mode \in ReverseNXModes |->
        CASE mode = "NotFound" -> [CPU |-> 0, GPU |-> 0, MEM |-> 0]
          [] mode = "Docked" \/ (mode = "Handheld" /\ PowerProfile = "Docked") ->
                [CPU |-> 10200, GPU |-> 7680, MEM |-> 16000]
          [] OTHER -> [CPU |-> 10200, GPU |-> 4608, MEM |-> 16000]]

SavedHz(tid, m) ==
    LET order == Fallbacks(WantedProfile)
        saved == ParseProfiles(file.profiles[tid]).mhzMap
    IN  10 * FirstSet([i \in DOMAIN order |-> saved[order[i]][m]])

NamedHz(m) ==
    FirstSet(<<overrideFreqs[m], SavedHz(runningApp, m), SavedHz(GLOBAL_TID, m)>>)

WantedHz(m) == FirstSet(<<NamedHz(m), WantedPreset[WantedMode][m]>>)

Expected(m) ==
    CASE WantedHz(m) # 0 -> GetNearestHz(m, PowerProfile, WantedHz(m),
                                         SavedValues.AllowUnsafeFrequencies)
      [] WantedHz(m) = 0 /\ m = "CPU" -> 10200
      [] WantedHz(m) = 0 /\ m # "CPU" -> GetStockClock(apmConf, m)

(* The preset clock of a mode ReverseNX-RT sends: RefreshContext only      *)
(* notices such a mode when it changes the nominal profile, and one that   *)
(* agrees with the power state does not.                                   *)
UnnoticedPreset(m) ==
    /\ SavedValues.SyncReverseNXMode
    /\ m_rt_mode # "NotFound"
    /\ NominalProfile(m_rt_mode) = PowerProfile
    /\ NamedHz(m) = 0

Settled ==
    \A m \in Modules \ govConfig :
        IF enabled
        THEN \/ hw[m] = Expected(m)
             \/ m = "CPU" /\ systemCoreBoostCPU /\ hw[m] = boostCpuFreq
             \/ UnnoticedPreset(m)
        ELSE hw[m] = GetStockClock(apmConf, m)

(* Whatever happened before, once the outside world comes to rest (outside *)
(* a loading screen) the clocks nobody else governs settle on what was     *)
(* asked for: no interleaving of requests and ticks loses one, except for  *)
(* the preset of a mode ReverseNX-RT sends (UnnoticedPreset).              *)
SettlesOnRequest == AtRest => <>[](IsBoostMode(apmConf) \/ Settled \/ pc = "exited")

(* The range the governor works in settles too: its upper end is then the  *)
(* clock that would be set without a governor.  Config changes that the    *)
(* tick notices in the middle of RefreshContext start it with an old range.*)
GovernorRangeSettles ==
    AtRest => <>[](ctxEnabled /\ ~IsBoostMode(apmConf) /\ pc # "exited"
                   => \A m \in govConfig :
                         /\ govMin[m] <= govMax[m]
                         /\ govMax[m] = Expected(m) \/ UnnoticedPreset(m))

(* IsHandledByGovernor: a clock has one owner.  While the governor owns it *)
(* the tick thread moves it only by resetting it to stock.                 *)
OneOwner ==
    [][\A m \in govConfig : SetHzStep => hw'[m] = hw[m]]_vars

(* Config::Refresh: a change of the settings reaches the tick thread, with *)
(* its own copies of them, through the modification time of the file and   *)
(* nothing else, be the change saved by the IPC thread in the middle of a  *)
(* tick or made on the SD card.  Once the file is known, what is used is   *)
(* what the file says.                                                     *)
SettingsCurrent ==
    loaded /\ ~fileNewer =>
        /\ profiles = [t \in Tids |-> ParseProfiles(file.profiles[t])]
        /\ configValues = ValidValues(file.values)
        /\ pc # "sync" => m_sync_enabled = configValues.SyncReverseNXMode
        /\ pc \notin {"sync", "unsafe"} => allowUnsafe = configValues.AllowUnsafeFrequencies
        /\ pc \notin {"sync", "unsafe", "boost"} => govBoost.auto = configValues.AutoCPUBoost

(* The charging limit: with a charger connected and the battery at the     *)
(* limit for good, charging ends up switched off, and switched on again    *)
(* when it is below.                                                       *)
ChargeLimitHolds ==
    AtRest => <>[](power[2] # "Unconnected" /\ pc # "exited"
                   => IF SavedValues.ChargingLimitPercentage <= chargeNow
                      THEN ~chargeEnabled
                      ELSE chargeEnabled \/ batteryChargingDisabledOverride)

(* "Force Disable Charging" (overlay, misc_gui.cpp): with the override set *)
(* and a charger connected, charging ends up switched off.                 *)
ForceDisableHolds ==
    AtRest => <>[](batteryChargingDisabledOverride /\ power[2] # "Unconnected"
                   => ~chargeEnabled \/ pc = "exited")
=============================================================================
