------------------------------ MODULE Governor ------------------------------
(***************************************************************************)
(* The governor (sysmodule/src/oc_extra.cpp and oc_extra.h): it moves the  *)
(* CPU and the GPU clock with their utilisation, 200 times a second, while *)
(* the clock manager only tells it which modules it owns and in which      *)
(* range.                                                                  *)
(*                                                                         *)
(* Three kinds of threads share its fields without a lock.  The setter is  *)
(* the tick thread inside Governor::SetConfig or the destructor: it starts *)
(* threads, tells them to stop and waits for them.  The manager thread     *)
(* applies the utilisation to the modules the governor owns.  One worker   *)
(* thread per core measures that core, and raises the CPU clock on its own *)
(* when it finds another core late.                                        *)
(*                                                                         *)
(* ApplyTargetFreq is two steps everywhere, the store of m_target_hz and   *)
(* the call of Clocks::SetHz: another thread may come in between.  The     *)
(* utilisation filters (PeltUtil, MaxWindow) are abstracted to the sample  *)
(* they end up at under a steady load.                                     *)
(***************************************************************************)
EXTENDS Clocks

CONSTANTS
    Cores, SysCore,   \* the CPU's cores; SysCore runs the system's services
    UpdateRate,       \* loops of the manager thread between two refreshes
    Utils,            \* the raw utilisation a core or the GPU may have, per mille
    MaxHzs,           \* per module, the upper ends the tick thread may give
    MinHzs,           \* the lower ends of the CPU's range it may give
    BoostHzs,         \* the boost clocks it may give
    PerfConfs,        \* the performance configurations it may tell
    HeapFlags,        \* what an uninitialised bool of a new object may hold
    HeapHz            \* what an uninitialised word of it may hold

Governable == {"CPU", "GPU"}
UTIL_MAX == 1000
GpuMin   == 1536
GpuBoost == 768

ASSUME GovernorAssumption ==
    /\ SysCore \in Cores
    /\ UpdateRate \in Nat \ {0}
    /\ Utils \subseteq 0..UTIL_MAX
    /\ MaxHzs \in [Governable -> SUBSET Nat]
    /\ MinHzs \subseteq Nat \ {0}
    /\ BoostHzs \subseteq Nat \ {0}
    /\ PerfConfs \subseteq ApmConfigurations
    /\ HeapFlags \subseteq BOOLEAN
    /\ HeapHz \subseteq Nat

VARIABLES
    \* the console
    hw,             \* the clocks of the CPU and the GPU
    load,           \* their raw utilisation
    asleep,         \* TRUE while the GPU clock reads 0
    \* fields the tick thread writes
    m_config,       \* the modules the governor owns
    m_perf_conf_id,
    min_hz, max_hz, boost_hz, auto_boost,
    \* fields the threads share
    m_target_hz,    \* the clock each module is believed to have
    util,           \* per core, the normalised utilisation of its last sample
    \* the threads
    setter,         \* where SetConfig or the destructor is
    workerRunning, managerRunning,    \* the flags the threads look at
    worker, workerHz,                 \* where a worker is, the clock it is about to set
    manager, managerCall,             \* where the manager is, the call it is about to make
    update_ticks, cpuBoosted, gpuThrottled   \* locals of the manager thread

console      == <<hw, load, asleep>>
tickFields   == <<m_config, m_perf_conf_id, min_hz, max_hz, boost_hz, auto_boost>>
flags        == <<workerRunning, managerRunning>>
workerVars   == <<worker, workerHz, util>>
managerLocal == <<update_ticks, cpuBoosted, gpuThrottled>>
managerVars  == <<manager, managerCall, managerLocal>>
vars == <<console, tickFields, m_target_hz, setter, flags, workerVars, managerVars>>

NoCall == [module |-> "none", hz |-> 0]
Calls  == [module : Governable, hz : Nat]

SetterPCs  == {"idle", "workers", "joinWorkers", "manager", "joinManager",
               "exitManager", "exitWorkers", "deleted"}
WorkerPCs  == {"dead", "sampling", "set"}
ManagerPCs == {"dead", "top", "refresh", "boostGPU", "boostCPU", "GPU", "CPU"}

TypeOK ==
    /\ hw \in [Governable -> Nat]
    /\ load \in [Governable -> Utils]
    /\ asleep \in BOOLEAN
    /\ m_config \in SUBSET Governable
    /\ m_perf_conf_id \in ApmConfigurations \cup {"none"}
    /\ min_hz \in [Governable -> Nat]
    /\ max_hz \in [Governable -> Nat]
    /\ boost_hz \in Nat
    /\ auto_boost \in BOOLEAN
    /\ m_target_hz \in [Governable -> Nat]
    /\ util \in [Cores -> Nat]
    /\ setter \in SetterPCs
    /\ workerRunning \in BOOLEAN
    /\ managerRunning \in BOOLEAN
    /\ worker \in [Cores -> WorkerPCs]
    /\ workerHz \in [Cores -> Nat]
    /\ manager \in ManagerPCs
    /\ managerCall \in Calls \cup {NoCall}
    /\ update_ticks \in 0..UpdateRate
    /\ cpuBoosted \in BOOLEAN
    /\ gpuThrottled \in BOOLEAN
-----------------------------------------------------------------------------
(* BaseGovernor::CalcNormalizedUtil: the share of max_hz the work would    *)
(* need.  The AArch64 division gives 0 for the max_hz of 0 a new governor  *)
(* may have.                                                               *)
CalcNormalizedUtil(m, raw) ==
    IF max_hz[m] = 0 THEN 0 ELSE (raw * m_target_hz[m]) \div max_hz[m]

(* The lambda of ApplyNewFreqFromNormUtil: the first entry that is not     *)
(* below hz, the last one when there is none; hz is in units of 1/2000.    *)
FindHzInTable(m, hz) ==
    LET fit == {i \in DOMAIN freqTable[m] : hz <= 2000 * freqTable[m][i]}
    IN  IF fit = {} THEN freqTable[m][last(m)]
        ELSE freqTable[m][CHOOSE i \in fit : \A j \in fit : i <= j]

(* BaseGovernor::ApplyNewFreqFromNormUtil: 1.5 times the clock the work    *)
(* would need, within the range.                                           *)
NewHz(m, normUtil) ==
    LET next_freq == 3 * max_hz[m] * normUtil
    IN  IF next_freq >= 2000 * max_hz[m] THEN max_hz[m]
        ELSE IF next_freq <= 2000 * min_hz[m] THEN min_hz[m]
        ELSE FindHzInTable(m, next_freq)

(* CpuGovernor::ApplyBoost *)
CpuBoost == IF max_hz["CPU"] > boost_hz THEN max_hz["CPU"] ELSE boost_hz

IsHandledByGovernor(m) == m \in m_config

StockHz(conf) == [m \in Governable |-> GetStockClock(conf, m)]
-----------------------------------------------------------------------------
(* Governor::Governor.  The objects come from new: what the constructors   *)
(* leave out holds whatever the heap held, CpuGovernor's worker flag too.  *)
Init ==
    /\ \E c \in PerfConfs : hw = StockHz(c)
    /\ load \in [Governable -> Utils]
    /\ asleep = FALSE
    /\ m_config = {}
    /\ m_perf_conf_id \in PerfConfs \cup {"none"}
    /\ \E w \in HeapHz :
          /\ min_hz = [m \in Governable |-> IF m = "CPU" THEN w ELSE GpuMin]
          /\ max_hz = [m \in Governable |-> w]
          /\ m_target_hz = [m \in Governable |-> w]
    /\ boost_hz = boostCpuFreq
    /\ auto_boost \in HeapFlags
    /\ util = [c \in Cores |-> 0]
    /\ setter = "idle"
    /\ workerRunning \in HeapFlags
    /\ managerRunning = FALSE
    /\ worker = [c \in Cores |-> "dead"]
    /\ workerHz = [c \in Cores |-> 0]
    /\ manager = "dead"
    /\ managerCall = NoCall
    /\ update_ticks = UpdateRate
    /\ cpuBoosted = FALSE
    /\ gpuThrottled = FALSE
-----------------------------------------------------------------------------
(* Governor::SetConfig, called once in every tick.                         *)
SetConfig(config) ==
    /\ setter = "idle"
    /\ config # m_config
    /\ m_config' = config
    /\ setter' = "workers"
    /\ UNCHANGED <<console, m_perf_conf_id, min_hz, max_hz, boost_hz, auto_boost,
                   m_target_hz, flags, workerVars, managerVars>>

(* GovernorWorker::Start and the first half of Stop.                       *)
StartWorkers ==
    /\ workerRunning' = TRUE
    /\ worker' = [c \in Cores |-> "sampling"]
    /\ setter' = "manager"

(* Mutant of StopWorkers: the flag the workers look at stays set.          *)
StopUnsignalled == setter' = "joinWorkers" /\ UNCHANGED <<workerRunning, worker>>

StopWorkers ==
    /\ workerRunning' = FALSE
    /\ setter' = "joinWorkers"
    /\ UNCHANGED worker

(* GovernorWorker::onConfigUpdated *)
UpdateWorkers ==
    /\ setter = "workers"
    /\ CASE IsHandledByGovernor("CPU") /\ ~workerRunning -> StartWorkers
         [] ~IsHandledByGovernor("CPU") /\ workerRunning -> StopWorkers
         [] OTHER -> setter' = "manager" /\ UNCHANGED <<workerRunning, worker>>
    /\ UNCHANGED <<console, tickFields, m_target_hz, managerRunning, workerHz, util, managerVars>>

(* Mutant of JoinWorkers: nobody waits.                                    *)
WorkersDetached ==
    /\ setter \in {"joinWorkers", "exitWorkers"}
    /\ setter' = IF setter = "joinWorkers" THEN "manager" ELSE "deleted"
    /\ UNCHANGED <<console, tickFields, m_target_hz, flags, workerVars, managerVars>>

(* GovernorWorker::Stop waits for every worker.                            *)
JoinWorkers ==
    /\ setter \in {"joinWorkers", "exitWorkers"}
    /\ \A c \in Cores : worker[c] = "dead"
    /\ setter' = IF setter = "joinWorkers" THEN "manager" ELSE "deleted"
    /\ UNCHANGED <<console, tickFields, m_target_hz, flags, workerVars, managerVars>>

(* GovernorManager::onConfigUpdated: Start, or the first half of Stop.     *)
UpdateManager ==
    /\ setter = "manager"
    /\ managerRunning' = (m_config # {})
    /\ IF m_config # {} /\ ~managerRunning
       THEN /\ manager' = "top"
            /\ update_ticks' = UpdateRate
            /\ cpuBoosted' = FALSE
            /\ gpuThrottled' = FALSE
       ELSE UNCHANGED <<manager, managerLocal>>
    /\ setter' = IF m_config = {} /\ managerRunning THEN "joinManager" ELSE "idle"
    /\ UNCHANGED <<console, tickFields, m_target_hz, workerRunning, workerVars, managerCall>>

(* GovernorManager::Stop waits for the manager thread; in the destructor   *)
(* ~CpuGovernor stops the workers after that.                              *)
JoinManager ==
    /\ setter \in {"joinManager", "exitManager"}
    /\ manager = "dead"
    /\ IF setter = "joinManager"
       THEN setter' = "idle" /\ UNCHANGED workerRunning
       ELSE /\ setter' = IF workerRunning THEN "exitWorkers" ELSE "deleted"
            /\ workerRunning' = FALSE
    /\ UNCHANGED <<console, tickFields, m_target_hz, managerRunning, workerVars, managerVars>>

(* Governor::~Governor; stopping a manager that does not run is a no-op.   *)
Delete ==
    /\ setter = "idle"
    /\ managerRunning' = FALSE
    /\ setter' = "exitManager"
    /\ UNCHANGED <<console, tickFields, m_target_hz, workerRunning, workerVars, managerVars>>

(* What SetConfig and the destructor do once they have been called.        *)
Setter == UpdateWorkers \/ JoinWorkers \/ UpdateManager \/ JoinManager
-----------------------------------------------------------------------------
(* The rest of a tick: the performance configuration, the settings, the    *)
(* ranges.  A clock of 0 stands for the stock clock, as in Clocks.         *)
SetPerfConf ==
    /\ m_perf_conf_id' \in PerfConfs
    /\ UNCHANGED <<m_config, min_hz, max_hz, boost_hz, auto_boost>>

SetMaxHz ==
    /\ \E m \in Governable : \E hz \in MaxHzs[m] :
          /\ max_hz' = [max_hz EXCEPT ![m] = hz]
          /\ min_hz' = IF m = "CPU" THEN min_hz
                       ELSE [min_hz EXCEPT ![m] = IF hz <= GpuMin THEN hz ELSE GpuMin]
    /\ UNCHANGED <<m_config, m_perf_conf_id, boost_hz, auto_boost>>

SetMinHz ==
    /\ \E hz \in MinHzs : min_hz' = [min_hz EXCEPT !["CPU"] = hz]
    /\ UNCHANGED <<m_config, m_perf_conf_id, max_hz, boost_hz, auto_boost>>

SetCPUBoost ==
    /\ auto_boost' \in BOOLEAN
    /\ boost_hz' \in BoostHzs
    /\ UNCHANGED <<m_config, m_perf_conf_id, min_hz, max_hz>>

TickThread ==
    /\ setter = "idle"
    /\ SetPerfConf \/ SetMaxHz \/ SetMinHz \/ SetCPUBoost
    /\ UNCHANGED <<console, m_target_hz, setter, flags, workerVars, managerVars>>
-----------------------------------------------------------------------------
(* WorkerContext::Loop of core c measures the core for a tick and then     *)
(* looks at the clock, the other cores and, at its end, at its flag.       *)
NextLoop(c) ==
    worker' = [worker EXCEPT ![c] = IF workerRunning THEN "sampling" ELSE "dead"]

Sample(c) == util' = [util EXCEPT ![c] = CalcNormalizedUtil("CPU", load["CPU"])]

(* All cores are on time, or the system has boosted the CPU itself.        *)
WorkerSample(c) ==
    /\ worker[c] = "sampling"
    /\ Sample(c)
    /\ NextLoop(c)
    /\ UNCHANGED <<console, tickFields, m_target_hz, setter, flags, workerHz, managerVars>>

(* The sample of core id is overdue: the boost clock when it is the system *)
(* core and the boost is on, the highest clock otherwise.                  *)
LateHz(id) == IF id = SysCore /\ auto_boost THEN CpuBoost ELSE max_hz["CPU"]

WorkerLate(c, id) ==
    /\ worker[c] = "sampling"
    /\ id # c
    /\ ~IsCPUBoosted(m_perf_conf_id)
    /\ Sample(c)
    /\ workerHz' = [workerHz EXCEPT ![c] = LateHz(id)]
    /\ IF LateHz(id) = 0
       THEN NextLoop(c) /\ UNCHANGED m_target_hz
       ELSE /\ worker' = [worker EXCEPT ![c] = "set"]
            /\ m_target_hz' = [m_target_hz EXCEPT !["CPU"] = LateHz(id)]
    /\ UNCHANGED <<console, tickFields, setter, flags, managerVars>>

(* The second half of ApplyTargetFreq.                                     *)
WorkerSetHz(c) ==
    /\ worker[c] = "set"
    /\ hw' = [hw EXCEPT !["CPU"] = workerHz[c]]
    /\ workerHz' = [workerHz EXCEPT ![c] = 0]
    /\ NextLoop(c)
    /\ UNCHANGED <<load, asleep, tickFields, m_target_hz, setter, flags, util, managerVars>>

Worker(c) == WorkerSample(c) \/ WorkerSetHz(c)
-----------------------------------------------------------------------------
(* GovernorManager::ContextManager.                                        *)
ManagerTop ==
    /\ manager = "top" /\ managerCall = NoCall
    /\ IF ~managerRunning
       THEN manager' = "dead" /\ UNCHANGED update_ticks
       ELSE IF update_ticks + 1 >= UpdateRate
       THEN manager' = "refresh" /\ update_ticks' = 0
       ELSE manager' = "GPU" /\ update_ticks' = update_ticks + 1
    /\ UNCHANGED <<console, tickFields, m_target_hz, setter, flags, workerVars, managerCall,
                   cpuBoosted, gpuThrottled>>

(* Mutant of ManagerRefresh: the clock is looked at and not kept.          *)
RefreshForgotten ==
    /\ manager = "refresh"
    /\ manager' = IF asleep THEN "refresh" ELSE "boostGPU"
    /\ UNCHANGED <<console, tickFields, m_target_hz, setter, flags, workerVars, managerCall,
                   managerLocal>>

(* BaseGovernor::RefreshContext of the GPU, again and again while the      *)
(* console sleeps.                                                         *)
ManagerRefresh ==
    /\ manager = "refresh"
    /\ m_target_hz' = [m_target_hz EXCEPT !["GPU"] = IF asleep THEN 0 ELSE hw["GPU"]]
    /\ manager' = IF m_target_hz'["GPU"] = 0 THEN "refresh" ELSE "boostGPU"
    /\ UNCHANGED <<console, tickFields, setter, flags, workerVars, managerCall, managerLocal>>

(* Mutant of ManagerApply: nobody asks whose the module is.                *)
ApplyUnasked(m, wanted, hz, next) ==
    /\ manager' = next
    /\ IF wanted /\ hz # 0
       THEN /\ managerCall' = [module |-> m, hz |-> hz]
            /\ m_target_hz' = [m_target_hz EXCEPT ![m] = hz]
       ELSE UNCHANGED <<managerCall, m_target_hz>>

(* ApplyTargetFreq(hz) when the module is the governor's, and on to next.  *)
ManagerApply(m, wanted, hz, next) ==
    /\ manager' = next
    /\ IF wanted /\ IsHandledByGovernor(m) /\ hz # 0
       THEN /\ managerCall' = [module |-> m, hz |-> hz]
            /\ m_target_hz' = [m_target_hz EXCEPT ![m] = hz]
       ELSE UNCHANGED <<managerCall, m_target_hz>>

ManagerBoostGPU ==
    /\ manager = "boostGPU"
    /\ gpuThrottled' = IsBoostMode(m_perf_conf_id)
    /\ cpuBoosted' = IsCPUBoosted(m_perf_conf_id)
    /\ ManagerApply("GPU", gpuThrottled', GpuBoost, "boostCPU")
    /\ UNCHANGED <<console, tickFields, setter, flags, workerVars, update_ticks>>

(* Mutant of ManagerBoostCPU: no boost when the clock is believed to be it.*)
BoostOnce ==
    /\ manager = "boostCPU" /\ managerCall = NoCall
    /\ ManagerApply("CPU", cpuBoosted /\ m_target_hz["CPU"] # CpuBoost, CpuBoost, "GPU")
    /\ UNCHANGED <<console, tickFields, setter, flags, workerVars, managerLocal>>

ManagerBoostCPU ==
    /\ manager = "boostCPU" /\ managerCall = NoCall
    /\ ManagerApply("CPU", cpuBoosted, CpuBoost, "GPU")
    /\ UNCHANGED <<console, tickFields, setter, flags, workerVars, managerLocal>>

(* GpuGovernor::Apply: nothing to do when the clock is what it believes.   *)
ManagerGPU ==
    LET hz == NewHz("GPU", CalcNormalizedUtil("GPU", load["GPU"]))
    IN  /\ manager = "GPU" /\ managerCall = NoCall
        /\ ManagerApply("GPU", ~gpuThrottled /\ hz # m_target_hz["GPU"], hz, "CPU")
        /\ UNCHANGED <<console, tickFields, setter, flags, workerVars, managerLocal>>

(* CpuGovernor::Apply: the busiest core counts, and a busy system core     *)
(* boosts without a look at the clock.                                     *)
CoreUtil == CHOOSE u \in {util[c] : c \in Cores} : \A c \in Cores : util[c] <= u

BOOST_THRESHOLD == 950

ManagerCPU ==
    LET boost == auto_boost /\ util[SysCore] > BOOST_THRESHOLD
        hz    == IF boost THEN CpuBoost ELSE NewHz("CPU", CoreUtil)
    IN  /\ manager = "CPU" /\ managerCall = NoCall
        /\ ManagerApply("CPU", ~cpuBoosted /\ (boost \/ hz # m_target_hz["CPU"]), hz, "top")
        /\ UNCHANGED <<console, tickFields, setter, flags, workerVars, managerLocal>>

(* The second half of ApplyTargetFreq.                                     *)
ManagerSetHz ==
    /\ managerCall # NoCall
    /\ hw' = [hw EXCEPT ![managerCall.module] = managerCall.hz]
    /\ managerCall' = NoCall
    /\ UNCHANGED <<load, asleep, tickFields, m_target_hz, setter, flags, workerVars,
                   manager, managerLocal>>

Manager ==
    \/ ManagerTop \/ ManagerRefresh \/ ManagerBoostGPU \/ ManagerBoostCPU
    \/ ManagerGPU \/ ManagerCPU \/ ManagerSetHz
-----------------------------------------------------------------------------
(* The rest of the console: ResetToStock of the tick thread or of apm, the *)
(* load, sleep.                                                            *)
others == <<tickFields, m_target_hz, setter, flags, workerVars, managerVars>>

Reset ==
    /\ \E m \in Governable, c \in PerfConfs : hw' = [hw EXCEPT ![m] = GetStockClock(c, m)]
    /\ UNCHANGED <<load, asleep, others>>

LoadChange ==
    /\ load' \in [Governable -> Utils]
    /\ UNCHANGED <<hw, asleep, others>>

Sleep == ~asleep /\ asleep' = TRUE /\ UNCHANGED <<hw, load, others>>
Wake  == asleep /\ asleep' = FALSE /\ UNCHANGED <<hw, load, others>>

Environment ==
    \/ \E config \in SUBSET Governable : SetConfig(config)
    \/ Delete \/ TickThread \/ Reset \/ LoadChange \/ Sleep
    \/ \E c, id \in Cores : WorkerLate(c, id)

Threads == Setter \/ Manager \/ Wake \/ \E c \in Cores : Worker(c)

Next == Threads \/ Environment

(* Every thread is scheduled (one per core, and svcSleepThread yields),    *)
(* and the console does not sleep for ever.                                *)
Fairness ==
    /\ WF_vars(Setter)
    /\ WF_vars(Manager)
    /\ WF_vars(Wake)
    /\ \A c \in Cores : WF_vars(Worker(c))

Spec == Init /\ [][Next]_vars /\ Fairness
-----------------------------------------------------------------------------
(* SetConfig and the destructor: once they return no thread is left that   *)
(* they were to stop.  A thread that outlived the object would use freed   *)
(* memory, a worker that outlived the loss of the CPU would go on setting  *)
(* its clock.                                                              *)
NoThreadLeft ==
    /\ setter = "idle" =>
          /\ \A c \in Cores : worker[c] # "dead" => "CPU" \in m_config
          /\ manager # "dead" => m_config # {}
    /\ setter = "deleted" =>
          manager = "dead" /\ managerCall = NoCall /\ \A c \in Cores : worker[c] = "dead"

(* GovernorManager::Stop and GovernorWorker::Stop wait for threads that    *)
(* look at their flag only now and then, the manager not at all while the  *)
(* console sleeps: the tick thread always gets out of them.                *)
SetConfigReturns == setter # "idle" ~> setter \in {"idle", "deleted"}

AtRest == <>[][Threads]_vars     \* nobody asks for anything any more

(* The clock the utilisation finally calls for: the lower end of the range *)
(* for an idle module, the upper end for a busy one.                       *)
CalledFor(m) == IF load[m] = 0 THEN min_hz[m] ELSE max_hz[m]

(* RefreshContext: the GPU clock follows the load, whoever moved it in     *)
(* between and whatever the governor took it for.                          *)
GpuFollowsLoad ==
    AtRest => <>[](/\ setter = "idle" /\ "GPU" \in m_config /\ max_hz["GPU"] # 0
                   /\ ~IsBoostMode(m_perf_conf_id)
                   => hw["GPU"] = CalledFor("GPU"))

(* The same for the CPU, whose clock is never read again: "target_freq =   *)
(* C * max_freq * util / max" (the comment on ApplyNewFreqFromNormUtil).   *)
CpuFollowsLoad ==
    AtRest => <>[](/\ setter = "idle" /\ "CPU" \in m_config
                   /\ max_hz["CPU"] # 0 /\ min_hz["CPU"] # 0
                   /\ ~auto_boost /\ ~IsCPUBoosted(m_perf_conf_id)
                   => hw["CPU"] = CalledFor("CPU"))

(* apmExtIsBoostMode, apmExtIsCPUBoosted: while an application loads, the  *)
(* governor keeps the GPU at its lowest clock and the CPU at the boost     *)
(* clock or above, although everyone else may reset them.                  *)
BoostSettles ==
    AtRest => <>[](setter = "idle" =>
        /\ IsBoostMode(m_perf_conf_id) /\ "GPU" \in m_config => hw["GPU"] = GpuBoost
        /\ IsCPUBoosted(m_perf_conf_id) /\ "CPU" \in m_config => hw["CPU"] = CpuBoost)
-----------------------------------------------------------------------------
(* What of this the clock manager sees: which modules the threads decide   *)
(* on, and the call that is under way for another.                         *)
exiting == setter \in {"exitManager", "exitWorkers", "deleted"}

configNow == IF exiting THEN {} ELSE m_config

ownedNow ==
    (IF exiting /\ manager = "dead" THEN {} ELSE m_config)
    \cup (IF \E c \in Cores : worker[c] # "dead" THEN {"CPU"} ELSE {})

lateNow == IF managerCall = NoCall THEN {} ELSE {managerCall.module} \ ownedNow

(* The clocks that a table, a range or a boost names, and what a field     *)
(* holds that nobody has written yet.                                      *)
Named ==
    [m \in Governable |->
        {freqTable[m][i] : i \in DOMAIN freqTable[m]} \cup MaxHzs[m] \cup HeapHz
        \cup IF m = "CPU" THEN MinHzs \cup BoostHzs \cup {boostCpuFreq} ELSE {GpuMin, GpuBoost}]

Owner == INSTANCE ClockOwner WITH
    Targets <- Named,
    StockClocks <- [m \in Governable |-> {GetStockClock(c, m) : c \in PerfConfs}],
    config <- configNow,
    busy <- setter \notin {"idle", "deleted"},
    owned <- ownedNow,
    late <- lateNow

(* Governor::SetConfig and IsHandledByGovernor: whatever the threads do    *)
(* with the fields they share, the clocks they set are those of the        *)
(* modules the governor was given last; one call of the manager thread may *)
(* come late, and none when the last module or the governor has gone.      *)
OwnsItsClocks == Owner!Spec
=============================================================================
