--------------------------- MODULE GovernorProofs ---------------------------
(***************************************************************************)
(* Theorems of Governor, for every number of cores, every table and every  *)
(* range: the type invariant; that the threads SetConfig and the           *)
(* destructor stop are gone when they return; and that the threads         *)
(* together implement the abstract owner of ClockOwner.                    *)
(***************************************************************************)
EXTENDS Governor, TLAPS, SequenceTheorems, WellFoundedInduction

(* Every non-empty set of naturals has a least element.                    *)
LEMMA LeastElement ==
    ASSUME NEW T \in SUBSET Nat, T # {}
    PROVE  \E x \in T : \A y \in T : x <= y
<1>1. PICK x \in T : \A y \in T : <<y, x>> \notin OpToRel(<, Nat)
  BY WFMin, NatLessThanWellFounded
<1>2. \A y \in T : <<y, x>> \in Nat \X Nat
  OBVIOUS
<1>3. \A y \in T : ~(y < x)
  BY <1>1, <1>2 DEF OpToRel
<1> QED
  BY <1>3

(* GetStockClock knows every configuration apm may report.                 *)
LEMMA StockClockNat ==
    ASSUME NEW conf \in ApmConfigurations, NEW m \in Modules
    PROVE  GetStockClock(conf, m) \in Nat
<1>1. \A c \in sysclk_g_apm_configurations : c.CPU \in Nat /\ c.GPU \in Nat /\ c.MEM \in Nat
  BY DEF sysclk_g_apm_configurations, Apm
<1>2. \A c \in sysclk_g_apm_configurations :
         c["CPU"] = c.CPU /\ c["GPU"] = c.GPU /\ c["MEM"] = c.MEM
  OBVIOUS
<1>3. \E c \in sysclk_g_apm_configurations : c.id = conf
  BY DEF ApmConfigurations
<1>4. GetEmbeddedApmConfig(conf) \in sysclk_g_apm_configurations
  BY <1>3 DEF GetEmbeddedApmConfig
<1> QED
  BY <1>1, <1>2, <1>4 DEF GetStockClock, MEM_CLOCK_MARIKO_MIN, Modules

(* A table lookup returns a table entry.                                   *)
LEMMA FindHzInTableEntry ==
    ASSUME NEW m \in Governable, NEW hz
    PROVE  /\ FindHzInTable(m, hz) \in Nat
           /\ FindHzInTable(m, hz) \in {freqTable[m][i] : i \in DOMAIN freqTable[m]}
<1> DEFINE fit == {i \in DOMAIN freqTable[m] : hz <= 2000 * freqTable[m][i]}
<1>1. m \in Modules /\ freqTable[m] \in Seq(Nat \ {0})
  BY TableAssumption DEF Governable, Modules
<1>2. /\ DOMAIN freqTable[m] \subseteq Nat
      /\ DOMAIN freqTable[m] = 1..Len(freqTable[m]) /\ Len(freqTable[m]) \in Nat
  BY <1>1
<1>3. /\ last(m) \in DOMAIN freqTable[m]
      /\ \A i \in DOMAIN freqTable[m] : freqTable[m][i] \in Nat
  <2>1. Len(freqTable[m]) \in 1..(FREQ_TABLE_MAX_ENTRY_COUNT - 1)
    BY <1>1, TableAssumption
  <2>2. \A n : n \in 1..(FREQ_TABLE_MAX_ENTRY_COUNT - 1) => 1 <= n
    BY DEF FREQ_TABLE_MAX_ENTRY_COUNT
  <2>3. 1 <= Len(freqTable[m])
    BY <2>1, <2>2
  <2> QED
    BY <1>1, <1>2, <2>3 DEF last
<1>4. CASE fit = {}
  BY <1>3, <1>4 DEF FindHzInTable
<1>5. CASE fit # {}
  <2>1. fit \in SUBSET Nat
    BY <1>2
  <2> DEFINE least == CHOOSE i \in fit : \A j \in fit : i <= j
  <2>2. FindHzInTable(m, hz) = freqTable[m][least]
    BY <1>5 DEF FindHzInTable
  <2> HIDE DEF fit
  <2>3. \E i \in fit : \A j \in fit : i <= j
    BY <1>5, <2>1, LeastElement
  <2>4. least \in fit
    BY <2>3
  <2> HIDE DEF least
  <2>5. least \in DOMAIN freqTable[m]
    BY <2>4 DEF fit
  <2> QED
    BY <1>3, <2>2, <2>5
<1> QED
  BY <1>4, <1>5

LEMMA DivNat == ASSUME NEW a \in Nat, NEW b \in Nat, b # 0 PROVE a \div b \in Nat
BY SMT

(* What the threads compute are clocks and utilisations.                   *)
LEMMA ComputedTypes ==
    ASSUME TypeOK
    PROVE  /\ \A m \in Governable : \A u : NewHz(m, u) \in Nat
           /\ CpuBoost \in Nat
           /\ \A id \in Cores : LateHz(id) \in Nat
           /\ \A m \in Governable : CalcNormalizedUtil(m, load[m]) \in Nat
           /\ "CPU" \in Governable /\ "GPU" \in Governable
<1>1. "CPU" \in Governable /\ "GPU" \in Governable
  BY DEF Governable
<1>2. \A m \in Governable : \A u : NewHz(m, u) \in Nat
  BY FindHzInTableEntry DEF NewHz, TypeOK
<1>3. CpuBoost \in Nat /\ \A id \in Cores : LateHz(id) \in Nat
  BY <1>1 DEF CpuBoost, LateHz, TypeOK
<1>4. ASSUME NEW m \in Governable
      PROVE  CalcNormalizedUtil(m, load[m]) \in Nat
  <2>0. Utils \subseteq Nat
    BY GovernorAssumption DEF UTIL_MAX
  <2>1. load[m] \in Nat /\ m_target_hz[m] \in Nat /\ max_hz[m] \in Nat
    BY <2>0 DEF TypeOK
  <2>2. load[m] * m_target_hz[m] \in Nat
    BY <2>1
  <2> QED
    BY <2>1, <2>2, DivNat DEF CalcNormalizedUtil
<1> QED
  BY <1>1, <1>2, <1>3, <1>4

LEMMA StockHzType ==
    ASSUME NEW c \in PerfConfs, NEW m \in Governable
    PROVE  GetStockClock(c, m) \in Nat
BY StockClockNat, GovernorAssumption DEF Governable, Modules
-----------------------------------------------------------------------------
(* Type correctness.                                                       *)
LEMMA InitTypeOK == Init => TypeOK
<1> SUFFICES ASSUME Init PROVE TypeOK
  OBVIOUS
<1>1. hw \in [Governable -> Nat]
  BY StockHzType DEF Init, StockHz
<1>2. PICK w \in HeapHz :
        /\ min_hz = [m \in Governable |-> IF m = "CPU" THEN w ELSE GpuMin]
        /\ max_hz = [m \in Governable |-> w]
        /\ m_target_hz = [m \in Governable |-> w]
  BY DEF Init
<1>3. /\ min_hz \in [Governable -> Nat] /\ max_hz \in [Governable -> Nat]
      /\ m_target_hz \in [Governable -> Nat]
  BY <1>2, GovernorAssumption DEF GpuMin
<1>4. /\ load \in [Governable -> Utils] /\ asleep \in BOOLEAN
      /\ m_config \in SUBSET Governable
      /\ m_perf_conf_id \in ApmConfigurations \cup {"none"}
  BY GovernorAssumption DEF Init
<1>5. boost_hz \in Nat /\ auto_boost \in BOOLEAN /\ workerRunning \in BOOLEAN
  BY GovernorAssumption, TableAssumption DEF Init
<1>6. /\ util \in [Cores -> Nat] /\ worker \in [Cores -> WorkerPCs]
      /\ workerHz \in [Cores -> Nat]
  BY DEF Init, WorkerPCs
<1>7. /\ setter \in SetterPCs /\ managerRunning \in BOOLEAN /\ manager \in ManagerPCs
      /\ cpuBoosted \in BOOLEAN /\ gpuThrottled \in BOOLEAN
  BY DEF Init, SetterPCs, ManagerPCs
<1>8. managerCall \in Calls \cup {NoCall}
  BY DEF Init
<1>9. update_ticks \in 0..UpdateRate
  <2>1. UpdateRate \in Nat /\ update_ticks = UpdateRate
    BY GovernorAssumption DEF Init
  <2> QED
    BY <2>1
<1> QED
  BY <1>1, <1>3, <1>4, <1>5, <1>6, <1>7, <1>8, <1>9 DEF TypeOK

(* The setter's steps and those of the tick thread.                        *)
LEMMA SetterTypeOK ==
    ASSUME TypeOK, Setter \/ Delete \/ TickThread
                   \/ \E config \in SUBSET Governable : SetConfig(config)
    PROVE  TypeOK'
<1> USE DEF TypeOK, SetterPCs
<1>1. CASE UpdateWorkers
  <2> SUFFICES worker' \in [Cores -> WorkerPCs] /\ workerRunning' \in BOOLEAN
               /\ setter' \in SetterPCs
    BY <1>1 DEF UpdateWorkers, console, tickFields, managerVars, managerLocal
  <2>1. CASE IsHandledByGovernor("CPU") /\ ~workerRunning
    BY <1>1, <2>1 DEF UpdateWorkers, StartWorkers, WorkerPCs
  <2>2. CASE ~IsHandledByGovernor("CPU") /\ workerRunning
    BY <1>1, <2>2 DEF UpdateWorkers, StopWorkers
  <2>3. CASE IsHandledByGovernor("CPU") = workerRunning
    BY <1>1, <2>3 DEF UpdateWorkers, IsHandledByGovernor
  <2> QED
    BY <2>1, <2>2, <2>3 DEF IsHandledByGovernor
<1>2. CASE JoinWorkers
  BY <1>2 DEF JoinWorkers, console, tickFields, flags, workerVars, managerVars, managerLocal
<1>3. CASE UpdateManager
  <2>1. managerRunning' \in BOOLEAN /\ setter' \in SetterPCs
    BY <1>3 DEF UpdateManager
  <2>2. /\ manager' \in ManagerPCs /\ update_ticks' \in 0..UpdateRate
        /\ cpuBoosted' \in BOOLEAN /\ gpuThrottled' \in BOOLEAN
    <3>1. UpdateRate \in 0..UpdateRate
      BY GovernorAssumption
    <3>2. CASE m_config # {} /\ ~managerRunning
      BY <1>3, <3>1, <3>2 DEF UpdateManager, ManagerPCs
    <3>3. CASE ~(m_config # {} /\ ~managerRunning)
      BY <1>3, <3>3 DEF UpdateManager, managerLocal
    <3> QED
      BY <3>2, <3>3
  <2> QED
    BY <1>3, <2>1, <2>2 DEF UpdateManager, console, tickFields, workerVars
<1>4. CASE JoinManager
  BY <1>4 DEF JoinManager, console, tickFields, workerVars, managerVars, managerLocal
<1>5. CASE Delete
  BY <1>5 DEF Delete, console, tickFields, workerVars, managerVars, managerLocal
<1>6. CASE \E config \in SUBSET Governable : SetConfig(config)
  BY <1>6 DEF SetConfig, console, flags, workerVars, managerVars, managerLocal
<1>7. CASE TickThread
  <2> USE <1>7 DEF TickThread, console, flags, workerVars, managerVars, managerLocal
  <2>1. CASE SetPerfConf
    BY <2>1, GovernorAssumption DEF SetPerfConf
  <2>2. CASE SetMaxHz
    <3>1. \A m \in Governable : MaxHzs[m] \subseteq Nat
      BY GovernorAssumption
    <3> QED
      BY <2>2, <3>1 DEF SetMaxHz, GpuMin
  <2>3. CASE SetMinHz
    BY <2>3, GovernorAssumption DEF SetMinHz
  <2>4. CASE SetCPUBoost
    BY <2>4, GovernorAssumption DEF SetCPUBoost
  <2> QED
    BY <2>1, <2>2, <2>3, <2>4
<1> QED
  BY <1>1, <1>2, <1>3, <1>4, <1>5, <1>6, <1>7 DEF Setter

LEMMA WorkerTypeOK ==
    ASSUME TypeOK, NEW c \in Cores, NEW id \in Cores, Worker(c) \/ WorkerLate(c, id)
    PROVE  TypeOK'
<1> USE DEF TypeOK
<1>1. worker[c] # "dead" /\ NextLoop(c) => worker' \in [Cores -> WorkerPCs]
  BY DEF NextLoop, WorkerPCs
<1>2. Sample(c) => util' \in [Cores -> Nat]
  BY ComputedTypes DEF Sample
<1>3. CASE WorkerSample(c)
  BY <1>1, <1>2, <1>3
     DEF WorkerSample, console, tickFields, flags, managerVars, managerLocal
<1>4. CASE WorkerLate(c, id)
  <2>1. /\ workerHz' \in [Cores -> Nat] /\ m_target_hz' \in [Governable -> Nat]
        /\ worker' \in [Cores -> WorkerPCs]
    BY <1>1, <1>4, ComputedTypes DEF WorkerLate, WorkerPCs
  <2> QED
    BY <1>2, <1>4, <2>1
       DEF WorkerLate, console, tickFields, flags, managerVars, managerLocal
<1>5. CASE WorkerSetHz(c)
  BY <1>1, <1>5, ComputedTypes
     DEF WorkerSetHz, tickFields, flags, managerVars, managerLocal
<1> QED
  BY <1>3, <1>4, <1>5 DEF Worker

(* ApplyTargetFreq's first half.                                           *)
LEMMA ManagerApplyTypes ==
    ASSUME TypeOK, NEW m \in Governable, NEW wanted \in BOOLEAN, NEW hz \in Nat,
           NEW next \in ManagerPCs, ManagerApply(m, wanted, hz, next)
    PROVE  /\ manager' \in ManagerPCs
           /\ managerCall' \in Calls \cup {NoCall}
           /\ m_target_hz' \in [Governable -> Nat]
BY DEF ManagerApply, TypeOK, Calls

LEMMA ManagerTypeOK ==
    ASSUME TypeOK, Manager
    PROVE  TypeOK'
<1> USE DEF TypeOK, console, tickFields, flags, workerVars, managerLocal, ManagerPCs
<1>1. CASE ManagerTop
  BY <1>1, GovernorAssumption DEF ManagerTop
<1>2. CASE ManagerRefresh
  BY <1>2, ComputedTypes DEF ManagerRefresh
<1>3. CASE ManagerBoostGPU
  <2>1. gpuThrottled' \in BOOLEAN /\ cpuBoosted' \in BOOLEAN
    BY <1>3 DEF ManagerBoostGPU, IsBoostMode, IsCPUBoosted
  <2>2. ManagerApply("GPU", gpuThrottled', GpuBoost, "boostCPU")
    BY <1>3 DEF ManagerBoostGPU
  <2>3. GpuBoost \in Nat
    BY DEF GpuBoost
  <2> QED
    BY <1>3, <2>1, <2>2, <2>3, ComputedTypes, ManagerApplyTypes DEF ManagerBoostGPU
<1>4. CASE ManagerBoostCPU
  BY <1>4, ComputedTypes, ManagerApplyTypes DEF ManagerBoostCPU
<1>5. CASE ManagerGPU
  BY <1>5, ComputedTypes, ManagerApplyTypes DEF ManagerGPU
<1>6. CASE ManagerCPU
  <2> DEFINE boost == auto_boost /\ util[SysCore] > BOOST_THRESHOLD
  <2> DEFINE hz == IF boost THEN CpuBoost ELSE NewHz("CPU", CoreUtil)
  <2>1. ManagerApply("CPU", ~cpuBoosted /\ (boost \/ hz # m_target_hz["CPU"]), hz, "top")
    BY <1>6 DEF ManagerCPU
  <2>2. hz \in Nat
    BY ComputedTypes
  <2> HIDE DEF boost, hz
  <2> QED
    BY <1>6, <2>1, <2>2, ComputedTypes, ManagerApplyTypes DEF ManagerCPU
<1>7. CASE ManagerSetHz
  <2>1. managerCall \in Calls
    BY <1>7 DEF ManagerSetHz
  <2>2. hw' \in [Governable -> Nat]
    BY <1>7, <2>1 DEF ManagerSetHz, Calls
  <2> QED
    BY <1>7, <2>2 DEF ManagerSetHz
<1> QED
  BY <1>1, <1>2, <1>3, <1>4, <1>5, <1>6, <1>7 DEF Manager

LEMMA ConsoleTypeOK ==
    ASSUME TypeOK, Reset \/ LoadChange \/ Sleep \/ Wake
    PROVE  TypeOK'
<1> USE DEF TypeOK, others, tickFields, flags, workerVars, managerVars, managerLocal
<1>1. CASE Reset
  BY <1>1, StockHzType DEF Reset
<1> QED
  BY <1>1 DEF LoadChange, Sleep, Wake

LEMMA NextTypeOK == TypeOK /\ [Next]_vars => TypeOK'
<1> SUFFICES ASSUME TypeOK, [Next]_vars PROVE TypeOK'
  OBVIOUS
<1>1. CASE UNCHANGED vars
  BY <1>1 DEF vars, console, tickFields, flags, workerVars, managerVars, managerLocal, TypeOK
<1> QED
  BY <1>1, SetterTypeOK, WorkerTypeOK, ManagerTypeOK, ConsoleTypeOK
     DEF Next, Threads, Environment

(* Every variable keeps its type.                                          *)
THEOREM GovernorTypeCorrect == Spec => []TypeOK
BY InitTypeOK, NextTypeOK, PTL DEF Spec
-----------------------------------------------------------------------------
(* The threads the setter stops.  A thread that lives is wanted, or the    *)
(* setter is waiting for it; what the setter has waited for is dead.       *)
WorkersDead == \A c \in Cores : worker[c] = "dead"

WaitedFor ==
    /\ WorkersDead \/ workerRunning \/ setter \in {"joinWorkers", "exitWorkers"}
    /\ manager = "dead" \/ managerRunning \/ setter \in {"joinManager", "exitManager"}
    /\ manager = "dead" => managerCall = NoCall

SetterInv ==
    /\ setter \in {"idle", "manager", "joinManager"} => WorkersDead \/ "CPU" \in m_config
    /\ setter = "idle" => manager = "dead" \/ m_config # {}
    /\ setter = "joinWorkers" => ~workerRunning /\ "CPU" \notin m_config
    /\ setter = "joinManager" => ~managerRunning /\ m_config = {}
    /\ setter \in {"exitManager", "exitWorkers", "deleted"} => ~managerRunning
    /\ setter \in {"exitWorkers", "deleted"} => ~workerRunning /\ manager = "dead"
    /\ setter = "deleted" => WorkersDead

ThreadInv == TypeOK /\ WaitedFor /\ SetterInv

LEMMA InitThreadInv == Init => ThreadInv
<1> SUFFICES ASSUME Init PROVE ThreadInv
  OBVIOUS
<1>1. WorkersDead /\ manager = "dead" /\ managerCall = NoCall /\ setter = "idle"
  BY DEF Init, WorkersDead
<1> QED
  BY <1>1, InitTypeOK DEF ThreadInv, WaitedFor, SetterInv

(* The steps of the setter.                                                *)
LEMMA SetterThreadInv ==
    ASSUME ThreadInv, Setter \/ Delete \/ \E config \in SUBSET Governable : SetConfig(config)
    PROVE  WaitedFor' /\ SetterInv'
<1> USE DEF ThreadInv, TypeOK, WaitedFor, SetterInv, WorkersDead
<1>1. CASE UpdateWorkers
  <2> USE <1>1 DEF UpdateWorkers, tickFields, managerVars
  <2>1. CASE IsHandledByGovernor("CPU") /\ ~workerRunning
    BY <2>1 DEF StartWorkers, IsHandledByGovernor
  <2>2. CASE ~IsHandledByGovernor("CPU") /\ workerRunning
    BY <2>2 DEF StopWorkers, IsHandledByGovernor
  <2>3. CASE IsHandledByGovernor("CPU") /\ workerRunning
    BY <2>3 DEF IsHandledByGovernor
  <2>4. CASE ~IsHandledByGovernor("CPU") /\ ~workerRunning
    BY <2>4 DEF IsHandledByGovernor
  <2> QED
    BY <2>1, <2>2, <2>3, <2>4
<1>2. CASE JoinWorkers
  BY <1>2 DEF JoinWorkers, tickFields, flags, workerVars, managerVars
<1>3. CASE UpdateManager
  <2> USE <1>3 DEF UpdateManager, tickFields, workerVars, managerLocal
  <2>1. CASE m_config # {} /\ ~managerRunning
    BY <2>1
  <2>2. CASE m_config # {} /\ managerRunning
    BY <2>2
  <2>3. CASE m_config = {}
    BY <2>3
  <2> QED
    BY <2>1, <2>2, <2>3
<1>4. CASE JoinManager
  BY <1>4 DEF JoinManager, tickFields, workerVars, managerVars
<1>5. CASE Delete
  BY <1>5 DEF Delete, tickFields, workerVars, managerVars
<1>6. CASE \E config \in SUBSET Governable : SetConfig(config)
  BY <1>6 DEF SetConfig, flags, workerVars, managerVars
<1> QED
  BY <1>1, <1>2, <1>3, <1>4, <1>5, <1>6 DEF Setter

(* A worker that lives goes on or dies; the others stay what they are.     *)
LEMMA WorkerThreadInv ==
    ASSUME ThreadInv, NEW c \in Cores, NEW id \in Cores, Worker(c) \/ WorkerLate(c, id)
    PROVE  WaitedFor' /\ SetterInv'
<1>1. ~WorkersDead
  BY DEF Worker, WorkerSample, WorkerLate, WorkerSetHz, WorkersDead
<1>2. UNCHANGED <<tickFields, setter, flags, managerVars>>
  BY DEF Worker, WorkerSample, WorkerLate, WorkerSetHz
<1>3. WorkersDead' \/ workerRunning \/ setter \in {"joinWorkers", "exitWorkers"}
  BY <1>1 DEF ThreadInv, WaitedFor
<1> QED
  BY <1>1, <1>2, <1>3
     DEF ThreadInv, WaitedFor, SetterInv, tickFields, flags, managerVars

(* The manager only dies at the top of its loop, with no call to make.     *)
LEMMA ManagerThreadInv ==
    ASSUME ThreadInv, Manager
    PROVE  WaitedFor' /\ SetterInv'
<1> USE DEF ThreadInv, WaitedFor
<1>1. manager # "dead"
  BY DEF Manager, ManagerTop, ManagerRefresh, ManagerBoostGPU, ManagerBoostCPU,
         ManagerGPU, ManagerCPU, ManagerSetHz
<1>2. UNCHANGED <<tickFields, setter, flags, workerVars>>
  BY DEF Manager, ManagerTop, ManagerRefresh, ManagerBoostGPU, ManagerBoostCPU,
         ManagerGPU, ManagerCPU, ManagerSetHz
<1>3. manager' = "dead" => managerCall' = NoCall
  BY <1>1 DEF Manager, ManagerTop, ManagerRefresh, ManagerApply, ManagerBoostGPU,
              ManagerBoostCPU, ManagerGPU, ManagerCPU, ManagerSetHz
<1> QED
  BY <1>1, <1>2, <1>3 DEF SetterInv, WorkersDead, tickFields, flags, workerVars

LEMMA NextThreadInv == ThreadInv /\ [Next]_vars => ThreadInv'
<1> SUFFICES ASSUME ThreadInv, [Next]_vars PROVE ThreadInv'
  OBVIOUS
<1>1. TypeOK'
  BY NextTypeOK DEF ThreadInv
<1>2. CASE UNCHANGED <<m_config, setter, flags, worker, manager, managerCall>>
  BY <1>1, <1>2 DEF ThreadInv, WaitedFor, SetterInv, WorkersDead, flags
<1>3. TickThread \/ Reset \/ LoadChange \/ Sleep \/ Wake \/ UNCHANGED vars
      => UNCHANGED <<m_config, setter, flags, worker, manager, managerCall>>
  BY DEF TickThread, SetPerfConf, SetMaxHz, SetMinHz, SetCPUBoost, Reset, LoadChange, Sleep,
         Wake, others, vars, tickFields, flags, workerVars, managerVars
<1> QED
  BY <1>1, <1>2, <1>3, SetterThreadInv, WorkerThreadInv, ManagerThreadInv
     DEF Next, Threads, Environment, ThreadInv

(* SetConfig and the destructor leave no thread behind that they stopped,  *)
(* on any number of cores.                                                 *)
THEOREM NoThreadLeftHolds == Spec => []NoThreadLeft
<1>1. ThreadInv => NoThreadLeft
  BY DEF ThreadInv, WaitedFor, SetterInv, WorkersDead, NoThreadLeft
<1> QED
  BY <1>1, InitThreadInv, NextThreadInv, PTL DEF Spec
-----------------------------------------------------------------------------
(* The clocks.  Whatever a thread is about to set is named: what a field   *)
(* of the governor holds is, and what is computed from it is an end of a   *)
(* range, a boost or an entry of the table.  While the manager refreshes   *)
(* its context it has no call to make.                                     *)
FieldsNamed ==
    /\ \A m \in Governable : min_hz[m] \in Named[m] /\ max_hz[m] \in Named[m]
    /\ boost_hz \in Named["CPU"]

CallsNamed ==
    /\ \A c \in Cores : worker[c] = "set" => workerHz[c] \in Named["CPU"]
    /\ managerCall # NoCall => managerCall.hz \in Named[managerCall.module]
    /\ manager \in {"refresh", "boostGPU"} => managerCall = NoCall

OwnerInv == ThreadInv /\ FieldsNamed /\ CallsNamed

(* The parts of Named.                                                     *)
LEMMA NamedParts ==
    /\ "CPU" \in Governable /\ "GPU" \in Governable
    /\ \A m \in Governable :
          /\ {freqTable[m][i] : i \in DOMAIN freqTable[m]} \subseteq Named[m]
          /\ MaxHzs[m] \subseteq Named[m] /\ HeapHz \subseteq Named[m]
    /\ MinHzs \subseteq Named["CPU"] /\ BoostHzs \subseteq Named["CPU"]
    /\ boostCpuFreq \in Named["CPU"]
    /\ GpuMin \in Named["GPU"] /\ GpuBoost \in Named["GPU"]
BY DEF Named, Governable

(* What the threads compute is named.                                      *)
LEMMA ComputedNamed ==
    ASSUME FieldsNamed
    PROVE  /\ \A m \in Governable : \A u : NewHz(m, u) \in Named[m]
           /\ CpuBoost \in Named["CPU"]
           /\ \A id \in Cores : LateHz(id) \in Named["CPU"]
<1>1. ASSUME NEW m \in Governable, NEW u
      PROVE  NewHz(m, u) \in Named[m]
  <2>1. \A hz : FindHzInTable(m, hz) \in Named[m]
    BY FindHzInTableEntry, NamedParts
  <2> QED
    BY <2>1 DEF NewHz, FieldsNamed
<1>2. CpuBoost \in Named["CPU"] /\ \A id \in Cores : LateHz(id) \in Named["CPU"]
  BY NamedParts DEF CpuBoost, LateHz, FieldsNamed
<1> QED
  BY <1>1, <1>2

LEMMA InitOwnerInv == Init => OwnerInv
<1> SUFFICES ASSUME Init PROVE OwnerInv
  OBVIOUS
<1>1. PICK w \in HeapHz :
        /\ min_hz = [m \in Governable |-> IF m = "CPU" THEN w ELSE GpuMin]
        /\ max_hz = [m \in Governable |-> w]
  BY DEF Init
<1>2. \A m \in Governable : m = "CPU" \/ m = "GPU"
  BY DEF Governable
<1>3. FieldsNamed
  BY <1>1, <1>2, NamedParts DEF Init, FieldsNamed
<1>4. CallsNamed
  BY DEF Init, CallsNamed
<1> QED
  BY <1>3, <1>4, InitThreadInv DEF OwnerInv

LEMMA TickNamed ==
    ASSUME OwnerInv, TickThread
    PROVE  FieldsNamed' /\ CallsNamed'
<1> USE NamedParts DEF OwnerInv, ThreadInv, TypeOK, FieldsNamed
<1>1. CallsNamed'
  BY DEF TickThread, CallsNamed, workerVars, managerVars
<1>2. FieldsNamed'
  <2>1. CASE SetPerfConf
    BY <2>1 DEF SetPerfConf
  <2>2. CASE SetMaxHz
    <3>0. PICK m \in Governable :
            \E hz \in MaxHzs[m] :
               /\ max_hz' = [max_hz EXCEPT ![m] = hz]
               /\ min_hz' = IF m = "CPU" THEN min_hz
                            ELSE [min_hz EXCEPT ![m] = IF hz <= GpuMin THEN hz ELSE GpuMin]
      BY <2>2 DEF SetMaxHz
    <3>1. PICK hz \in MaxHzs[m] :
            /\ max_hz' = [max_hz EXCEPT ![m] = hz]
            /\ min_hz' = IF m = "CPU" THEN min_hz
                         ELSE [min_hz EXCEPT ![m] = IF hz <= GpuMin THEN hz ELSE GpuMin]
      BY <3>0
    <3>2. hz \in Named[m] /\ (m = "CPU" \/ m = "GPU")
      BY DEF Governable
    <3>3. \A n \in Governable : max_hz'[n] \in Named[n]
      BY <3>1, <3>2
    <3>4. \A n \in Governable : min_hz'[n] \in Named[n]
      BY <3>1, <3>2
    <3> QED
      BY <2>2, <3>3, <3>4 DEF SetMaxHz
  <2>3. CASE SetMinHz
    BY <2>3 DEF SetMinHz
  <2>4. CASE SetCPUBoost
    BY <2>4 DEF SetCPUBoost
  <2> QED
    BY <2>1, <2>2, <2>3, <2>4 DEF TickThread
<1> QED
  BY <1>1, <1>2

LEMMA WorkerNamed ==
    ASSUME OwnerInv, NEW c \in Cores, NEW id \in Cores, Worker(c) \/ WorkerLate(c, id)
    PROVE  FieldsNamed' /\ CallsNamed'
<1> USE DEF OwnerInv, ThreadInv, TypeOK
<1>1. UNCHANGED <<min_hz, max_hz, boost_hz, manager, managerCall>>
  BY DEF Worker, WorkerSample, WorkerLate, WorkerSetHz, tickFields, managerVars
<1>2. \A d \in Cores : worker'[d] = "set" => workerHz'[d] \in Named["CPU"]
  <2>1. NextLoop(c) => worker'[c] # "set" /\ \A d \in Cores \ {c} : worker'[d] = worker[d]
    BY DEF NextLoop
  <2>2. CASE WorkerSample(c)
    BY <2>1, <2>2 DEF WorkerSample, CallsNamed
  <2>3. CASE WorkerSetHz(c)
    BY <2>1, <2>3 DEF WorkerSetHz, CallsNamed
  <2>4. CASE WorkerLate(c, id)
    <3>1. workerHz' = [workerHz EXCEPT ![c] = LateHz(id)] /\ LateHz(id) \in Named["CPU"]
      BY <2>4, ComputedNamed DEF WorkerLate
    <3>2. \A d \in Cores \ {c} : worker'[d] = worker[d]
      BY <2>1, <2>4 DEF WorkerLate
    <3> QED
      BY <3>1, <3>2 DEF CallsNamed
  <2> QED
    BY <2>2, <2>3, <2>4 DEF Worker
<1>3. FieldsNamed'
  BY <1>1 DEF FieldsNamed
<1>4. CallsNamed'
  BY <1>1, <1>2 DEF CallsNamed
<1> QED
  BY <1>3, <1>4

(* The manager's decision: it calls at most for a module that is the       *)
(* governor's, with the clock it was given.                                *)
LEMMA ManagerApplyCall ==
    ASSUME NEW m \in Governable, NEW wanted, NEW hz \in Named[m], NEW next,
           managerCall = NoCall, ManagerApply(m, wanted, hz, next)
    PROVE  /\ manager' = next
           /\ managerCall' # NoCall =>
                 managerCall'.module \in m_config /\ managerCall'.hz \in Named[managerCall'.module]
<1>1. \/ UNCHANGED managerCall
      \/ m \in m_config /\ managerCall' = [module |-> m, hz |-> hz]
  BY DEF ManagerApply, IsHandledByGovernor
<1> QED
  BY <1>1 DEF ManagerApply

(* The same for the four steps in which it decides.                        *)
Decides == ManagerBoostGPU \/ ManagerBoostCPU \/ ManagerGPU \/ ManagerCPU

LEMMA DecidesCall ==
    ASSUME OwnerInv, Decides
    PROVE  /\ managerCall = NoCall /\ manager # "dead"
           /\ manager' \in {"boostCPU", "GPU", "CPU", "top"}
           /\ managerCall' # NoCall =>
                 managerCall'.module \in m_config /\ managerCall'.hz \in Named[managerCall'.module]
           /\ UNCHANGED <<console, tickFields, setter, flags, workerVars>>
<1> USE DEF OwnerInv
<1>1. CASE ManagerBoostGPU
  BY <1>1, ManagerApplyCall, NamedParts DEF ManagerBoostGPU, CallsNamed
<1>2. CASE ManagerBoostCPU
  BY <1>2, ManagerApplyCall, NamedParts, ComputedNamed DEF ManagerBoostCPU
<1>3. CASE ManagerGPU
  BY <1>3, ManagerApplyCall, NamedParts, ComputedNamed DEF ManagerGPU
<1>4. CASE ManagerCPU
  <2> DEFINE boost == auto_boost /\ util[SysCore] > BOOST_THRESHOLD
  <2> DEFINE hz == IF boost THEN CpuBoost ELSE NewHz("CPU", CoreUtil)
  <2>1. ManagerApply("CPU", ~cpuBoosted /\ (boost \/ hz # m_target_hz["CPU"]), hz, "top")
    BY <1>4 DEF ManagerCPU
  <2>2. hz \in Named["CPU"]
    BY ComputedNamed, NamedParts
  <2> HIDE DEF boost, hz
  <2> QED
    BY <1>4, <2>1, <2>2, ManagerApplyCall, NamedParts DEF ManagerCPU
<1> QED
  BY <1>1, <1>2, <1>3, <1>4 DEF Decides

LEMMA ManagerNamed ==
    ASSUME OwnerInv, Manager
    PROVE  FieldsNamed' /\ CallsNamed'
<1> USE DEF OwnerInv
<1>1. UNCHANGED <<min_hz, max_hz, boost_hz, worker, workerHz>>
  BY DEF Manager, ManagerTop, ManagerRefresh, ManagerBoostGPU, ManagerBoostCPU, ManagerGPU,
         ManagerCPU, ManagerSetHz, tickFields, workerVars
<1>2. FieldsNamed'
  BY <1>1 DEF FieldsNamed
<1>3. CASE Decides
  BY <1>1, <1>2, <1>3, DecidesCall DEF CallsNamed
<1>4. CASE ManagerTop
  BY <1>1, <1>2, <1>4 DEF ManagerTop, CallsNamed
<1>5. CASE ManagerRefresh
  BY <1>1, <1>2, <1>5 DEF ManagerRefresh, CallsNamed
<1>6. CASE ManagerSetHz
  BY <1>1, <1>2, <1>6 DEF ManagerSetHz, CallsNamed
<1> QED
  BY <1>3, <1>4, <1>5, <1>6 DEF Manager, Decides

(* Starting the workers and the manager leaves them nothing to set.        *)
LEMMA SetterNamed ==
    ASSUME OwnerInv, Setter \/ Delete \/ \E config \in SUBSET Governable : SetConfig(config)
    PROVE  FieldsNamed' /\ CallsNamed'
<1> USE DEF OwnerInv
<1>1. UNCHANGED <<min_hz, max_hz, boost_hz, workerHz, managerCall>>
  BY DEF Setter, UpdateWorkers, JoinWorkers, UpdateManager, JoinManager, Delete, SetConfig,
         tickFields, workerVars, managerVars
<1>2. manager' = manager \/ manager' = "top"
  BY DEF Setter, UpdateWorkers, JoinWorkers, UpdateManager, JoinManager, Delete, SetConfig,
         managerVars
<1>3. worker' = worker \/ worker' = [c \in Cores |-> "sampling"]
  BY DEF Setter, UpdateWorkers, StartWorkers, StopWorkers, JoinWorkers, UpdateManager,
         JoinManager, Delete, SetConfig, workerVars
<1>4. FieldsNamed'
  BY <1>1 DEF FieldsNamed
<1>5. CallsNamed'
  BY <1>1, <1>2, <1>3 DEF CallsNamed
<1> QED
  BY <1>4, <1>5

LEMMA NextOwnerInv == OwnerInv /\ [Next]_vars => OwnerInv'
<1> SUFFICES ASSUME OwnerInv, [Next]_vars PROVE OwnerInv'
  OBVIOUS
<1>1. ThreadInv'
  BY NextThreadInv DEF OwnerInv
<1>2. CASE Reset \/ LoadChange \/ Sleep \/ Wake \/ UNCHANGED vars
  BY <1>1, <1>2
     DEF OwnerInv, FieldsNamed, CallsNamed, Reset, LoadChange, Sleep, Wake, others, vars,
         tickFields, workerVars, managerVars
<1> QED
  BY <1>1, <1>2, TickNamed, WorkerNamed, ManagerNamed, SetterNamed
     DEF Next, Threads, Environment, OwnerInv
-----------------------------------------------------------------------------
(* The refinement.  What the clock manager sees of the threads changes     *)
(* only with the five things below.                                        *)
seen == <<hw, configNow, setter \notin {"idle", "deleted"}, ownedNow, lateNow>>

LEMMA SeenUnchanged ==
    ASSUME UNCHANGED <<hw, m_config, setter, managerCall>>,
           WorkersDead' <=> WorkersDead,
           (manager' = "dead") <=> (manager = "dead")
    PROVE  UNCHANGED seen
<1>1. UNCHANGED ownedNow
  BY DEF ownedNow, exiting, WorkersDead
<1> QED
  BY <1>1 DEF seen, configNow, exiting, lateNow

(* A call does not become late but with the loss of its module.            *)
LEMMA CallMayBeLate ==
    ASSUME managerCall' = managerCall \/ managerCall' = NoCall
    PROVE  Owner!OneLate
<1>1. lateNow' \subseteq (lateNow \cup ownedNow) \ ownedNow'
  BY DEF lateNow
<1>2. \A m, n \in lateNow' : m = n
  BY DEF lateNow
<1> QED
  BY <1>1, <1>2 DEF Owner!OneLate

(* Whoever still decides on modules decides on those of the governor, and  *)
(* on the CPU while workers live.                                          *)
LEMMA OwnedFacts ==
    /\ configNow \subseteq ownedNow
    /\ ownedNow \subseteq m_config \cup {"CPU"}
    /\ manager # "dead" => m_config \subseteq ownedNow
    /\ ~WorkersDead => "CPU" \in ownedNow
    /\ ~exiting /\ (WorkersDead \/ "CPU" \in m_config) => ownedNow = m_config
    /\ exiting /\ manager = "dead" /\ WorkersDead => ownedNow = {}
BY DEF ownedNow, configNow, WorkersDead

(* SetConfig tells the owner of other modules, the destructor of none.     *)
LEMMA SetterTells ==
    ASSUME OwnerInv,
           Delete \/ \E config \in SUBSET Governable : SetConfig(config)
    PROVE  Owner!Next
<1> USE DEF OwnerInv, ThreadInv, SetterInv
<1>1. CASE Delete
  <2>1. UNCHANGED <<hw, m_config, worker, manager, managerCall>>
        /\ setter = "idle" /\ setter' = "exitManager"
    BY <1>1 DEF Delete, console, tickFields, workerVars, managerVars
  <2>2. configNow' = {} /\ ownedNow' \subseteq ownedNow
    BY <2>1 DEF configNow, ownedNow, exiting
  <2>3. Owner!SetConfig({})
    BY <2>1, <2>2, CallMayBeLate DEF Owner!SetConfig
  <2> QED
    BY <2>3 DEF Owner!Next
<1>2. ASSUME NEW config \in SUBSET Governable, SetConfig(config)
      PROVE  Owner!Next
  <2>1. /\ UNCHANGED <<hw, worker, manager, managerCall>> /\ m_config' = config
        /\ setter = "idle" /\ setter' = "workers"
    BY <1>2 DEF SetConfig, console, workerVars, managerVars
  <2>2. ~exiting /\ ~exiting'
    BY <2>1 DEF exiting
  <2>3. configNow' = config /\ config \subseteq ownedNow' /\ ownedNow' \subseteq ownedNow \cup config
    BY <2>1, <2>2 DEF configNow, ownedNow
  <2>4. Owner!SetConfig(config)
    BY <2>1, <2>3, CallMayBeLate DEF Owner!SetConfig
  <2> QED
    BY <2>4 DEF Owner!Next
<1> QED
  BY <1>1, <1>2

(* The setter returns when the owner decides on what it was given, and no  *)
(* call is under way once it was given nothing.                            *)
LEMMA SetterReturns ==
    ASSUME UNCHANGED <<hw, m_config, worker, managerCall>>,
           setter \notin {"idle", "deleted"}, setter' \in {"idle", "deleted"},
           exiting' <=> exiting,
           ownedNow' = configNow, configNow \subseteq ownedNow,
           configNow = {} => managerCall = NoCall
    PROVE  Owner!Next
<1>1. UNCHANGED configNow
  BY DEF configNow
<1>2. configNow = {} => lateNow' = {}
  BY DEF lateNow
<1>3. Owner!LetGo
  BY <1>1, CallMayBeLate DEF Owner!LetGo
<1>4. Owner!Return
  BY <1>1, <1>2, <1>3 DEF Owner!Return
<1> QED
  BY <1>4 DEF Owner!Next

LEMMA SetterOwner ==
    ASSUME OwnerInv, Setter
    PROVE  Owner!Next \/ UNCHANGED seen
<1> USE DEF OwnerInv, ThreadInv
<1>0. UNCHANGED <<hw, m_config, managerCall>> /\ configNow \subseteq ownedNow
  BY OwnedFacts DEF Setter, UpdateWorkers, JoinWorkers, UpdateManager, JoinManager, console,
                    tickFields, managerVars
<1>1. CASE UpdateWorkers
  <2>1. /\ setter = "workers" /\ setter' \in {"joinWorkers", "manager"} /\ UNCHANGED manager
        /\ worker' = worker \/ "CPU" \in m_config
    BY <1>1 DEF UpdateWorkers, StartWorkers, StopWorkers, IsHandledByGovernor, managerVars
  <2>2. ownedNow' = ownedNow /\ configNow' = configNow /\ lateNow' = lateNow
    BY <1>0, <2>1 DEF ownedNow, configNow, lateNow, exiting
  <2> QED
    BY <1>0, <2>1, <2>2 DEF seen
<1>2. CASE JoinWorkers
  <2>1. UNCHANGED <<worker, manager>> /\ WorkersDead
    BY <1>2 DEF JoinWorkers, workerVars, managerVars, WorkersDead
  <2>2. CASE setter = "joinWorkers"
    <3>1. setter' = "manager"
      BY <1>2, <2>2 DEF JoinWorkers
    <3>2. ownedNow' = ownedNow /\ configNow' = configNow /\ lateNow' = lateNow
      BY <1>0, <2>1, <2>2, <3>1 DEF ownedNow, configNow, lateNow, exiting
    <3> QED
      BY <1>0, <2>2, <3>1, <3>2 DEF seen
  <2>3. CASE setter = "exitWorkers"
    <3>1. setter' = "deleted" /\ exiting /\ exiting' /\ manager = "dead" /\ managerCall = NoCall
      BY <1>2, <2>3 DEF JoinWorkers, SetterInv, WaitedFor, exiting
    <3>2. ownedNow' = {} /\ configNow = {}
      BY <2>1, <3>1 DEF ownedNow, configNow, WorkersDead
    <3> QED
      BY <1>0, <2>1, <2>3, <3>1, <3>2, SetterReturns
  <2> QED
    BY <1>2, <2>2, <2>3 DEF JoinWorkers
<1>3. CASE UpdateManager
  <2>1. setter = "manager" /\ setter' \in {"idle", "joinManager"} /\ UNCHANGED worker
    BY <1>3 DEF UpdateManager, workerVars
  <2>2. ~exiting /\ ~exiting' /\ (WorkersDead \/ "CPU" \in m_config)
    BY <2>1 DEF exiting, SetterInv
  <2>3. ownedNow' = m_config /\ ownedNow = m_config /\ configNow = m_config /\ configNow' = m_config
    BY <1>0, <2>1, <2>2 DEF ownedNow, configNow, WorkersDead
  <2>4. CASE setter' = "joinManager"
    BY <1>0, <2>1, <2>3, <2>4 DEF seen, lateNow
  <2>5. CASE setter' = "idle"
    <3>1. m_config = {} => managerCall = NoCall
      BY <1>3, <2>1, <2>5 DEF UpdateManager, WaitedFor
    <3> QED
      BY <1>0, <2>1, <2>2, <2>3, <2>5, <3>1, SetterReturns
  <2> QED
    BY <2>1, <2>4, <2>5
<1>4. CASE JoinManager
  <2>1. UNCHANGED <<worker, manager>> /\ manager = "dead" /\ managerCall = NoCall
    BY <1>4 DEF JoinManager, WaitedFor, workerVars, managerVars
  <2>2. CASE setter = "joinManager"
    <3>1. setter' = "idle" /\ ~exiting /\ ~exiting' /\ m_config = {} /\ WorkersDead
      BY <1>4, <2>2 DEF JoinManager, SetterInv, exiting
    <3>2. ownedNow' = {} /\ configNow = {}
      BY <1>0, <2>1, <3>1 DEF ownedNow, configNow, WorkersDead
    <3> QED
      BY <1>0, <2>1, <2>2, <3>1, <3>2, SetterReturns
  <2>3. CASE setter = "exitManager" /\ workerRunning
    <3>1. setter' = "exitWorkers"
      BY <1>4, <2>3 DEF JoinManager
    <3>2. ownedNow' = ownedNow /\ configNow' = configNow /\ lateNow' = lateNow
      BY <1>0, <2>1, <2>3, <3>1 DEF ownedNow, configNow, lateNow, exiting
    <3> QED
      BY <1>0, <2>3, <3>1, <3>2 DEF seen
  <2>4. CASE setter = "exitManager" /\ ~workerRunning
    <3>1. setter' = "deleted" /\ exiting /\ exiting' /\ WorkersDead
      BY <1>4, <2>4 DEF JoinManager, WaitedFor, exiting
    <3>2. ownedNow' = {} /\ configNow = {}
      BY <1>0, <2>1, <3>1 DEF ownedNow, configNow, WorkersDead
    <3> QED
      BY <1>0, <2>1, <2>4, <3>1, <3>2, SetterReturns
  <2> QED
    BY <1>4, <2>2, <2>3, <2>4 DEF JoinManager
<1> QED
  BY <1>1, <1>2, <1>3, <1>4 DEF Setter

(* A thread that ends is one the setter waits for.                         *)
LEMMA OwnerLetsGo ==
    ASSUME UNCHANGED <<m_config, setter>>,
           manager' # "dead" => manager # "dead",
           ~WorkersDead' => ~WorkersDead,
           managerCall' = managerCall \/ managerCall' = NoCall
    PROVE  Owner!LetGo /\ UNCHANGED configNow
<1>1. UNCHANGED configNow /\ configNow' \subseteq ownedNow'
  BY DEF configNow, exiting, ownedNow
<1>2. ownedNow' \subseteq ownedNow
  BY DEF ownedNow, exiting, WorkersDead
<1> QED
  BY <1>1, <1>2, CallMayBeLate DEF Owner!LetGo

LEMMA OwnerReleases ==
    ASSUME UNCHANGED <<hw, m_config, setter>>, setter \notin {"idle", "deleted"},
           manager' # "dead" => manager # "dead",
           ~WorkersDead' => ~WorkersDead,
           managerCall' = managerCall \/ managerCall' = NoCall
    PROVE  Owner!Next
<1>1. Owner!Release
  BY OwnerLetsGo DEF Owner!Release
<1> QED
  BY <1>1 DEF Owner!Next

LEMMA WorkerOwner ==
    ASSUME OwnerInv, NEW c \in Cores, NEW id \in Cores, Worker(c) \/ WorkerLate(c, id)
    PROVE  Owner!Next \/ UNCHANGED seen
<1> USE DEF OwnerInv, ThreadInv
<1>1. /\ ~WorkersDead
      /\ UNCHANGED <<m_config, setter, manager, managerCall>>
  BY DEF Worker, WorkerSample, WorkerLate, WorkerSetHz, WorkersDead, tickFields, managerVars
<1>2. CASE WorkerSetHz(c)
  <2>1. workerHz[c] \in Named["CPU"] /\ "CPU" \in ownedNow
    BY <1>1, <1>2, OwnedFacts DEF WorkerSetHz, CallsNamed
  <2>2. hw' = [hw EXCEPT !["CPU"] = workerHz[c]]
    BY <1>2 DEF WorkerSetHz
  <2>3. Owner!LetGo /\ UNCHANGED configNow
    BY <1>1, OwnerLetsGo
  <2>4. Owner!Set("CPU", workerHz[c])
    BY <1>1, <2>1, <2>2, <2>3 DEF Owner!Set
  <2> QED
    BY <2>1, <2>4, NamedParts DEF Owner!Next
<1>3. CASE WorkerSample(c) \/ WorkerLate(c, id)
  <2>1. UNCHANGED hw
    BY <1>3 DEF WorkerSample, WorkerLate, console
  <2>2. CASE WorkersDead'
    <3>1. ~workerRunning
      <4>1. worker' # [worker EXCEPT ![c] = "set"]
        BY <2>2 DEF WorkersDead, TypeOK
      <4>2. NextLoop(c)
        BY <1>3, <4>1 DEF WorkerSample, WorkerLate
      <4> QED
        BY <2>2, <4>2 DEF NextLoop, WorkersDead, TypeOK
    <3>2. setter \notin {"idle", "deleted"}
      BY <1>1, <3>1 DEF WaitedFor
    <3> QED
      BY <1>1, <2>1, <3>2, OwnerReleases
  <2>3. CASE ~WorkersDead'
    BY <1>1, <2>1, <2>3, SeenUnchanged
  <2> QED
    BY <2>2, <2>3
<1> QED
  BY <1>2, <1>3 DEF Worker

LEMMA ManagerOwner ==
    ASSUME OwnerInv, Manager
    PROVE  Owner!Next \/ UNCHANGED seen
<1> USE DEF OwnerInv, ThreadInv
<1>1. CASE Decides
  <2>1. UNCHANGED <<hw, m_config, setter, worker>> /\ manager # "dead" /\ manager' # "dead"
    BY <1>1, DecidesCall DEF console, tickFields, workerVars
  <2>2. UNCHANGED ownedNow /\ UNCHANGED configNow
    BY <2>1 DEF ownedNow, configNow, exiting
  <2>3. lateNow = {} /\ lateNow' = {}
    <3>1. managerCall = NoCall /\ (managerCall' # NoCall => managerCall'.module \in ownedNow')
      BY <1>1, <2>1, <2>2, DecidesCall, OwnedFacts
    <3> QED
      BY <3>1 DEF lateNow
  <2> QED
    BY <2>1, <2>2, <2>3 DEF seen
<1>2. CASE ManagerTop
  <2>1. UNCHANGED <<hw, m_config, setter, worker, managerCall>> /\ manager # "dead"
    BY <1>2 DEF ManagerTop, console, tickFields, workerVars
  <2>2. CASE manager' = "dead"
    <3>1. setter \notin {"idle", "deleted"}
      BY <1>2, <2>2 DEF ManagerTop, WaitedFor
    <3> QED
      BY <2>1, <2>2, <3>1, OwnerReleases DEF WorkersDead
  <2>3. CASE manager' # "dead"
    BY <2>1, <2>3, SeenUnchanged DEF WorkersDead
  <2> QED
    BY <2>2, <2>3
<1>3. CASE ManagerRefresh
  BY <1>3, SeenUnchanged
     DEF ManagerRefresh, console, tickFields, workerVars, WorkersDead
<1>4. CASE ManagerSetHz
  <2> DEFINE m  == managerCall.module
             hz == managerCall.hz
  <2>1. m \in Governable /\ hz \in Named[m]
    BY <1>4 DEF ManagerSetHz, TypeOK, Calls, CallsNamed
  <2>2. UNCHANGED <<m_config, setter, worker, manager>> /\ managerCall # NoCall
        /\ managerCall' = NoCall /\ hw' = [hw EXCEPT ![m] = hz]
    BY <1>4 DEF ManagerSetHz, tickFields, workerVars
  <2>3. Owner!LetGo /\ UNCHANGED configNow
    BY <2>2, OwnerLetsGo DEF WorkersDead
  <2>4. UNCHANGED ownedNow /\ lateNow' = {}
    BY <2>2 DEF ownedNow, exiting, lateNow
  <2>5. CASE m \in ownedNow
    <3>1. Owner!Set(m, hz)
      BY <2>2, <2>3, <2>5 DEF Owner!Set
    <3> QED
      BY <2>1, <3>1 DEF Owner!Next
  <2>6. CASE m \notin ownedNow
    <3>1. m \in lateNow
      BY <2>2, <2>6 DEF lateNow
    <3>2. Owner!SetLate(m, hz)
      BY <2>2, <2>3, <2>4, <3>1 DEF Owner!SetLate
    <3> QED
      BY <2>1, <3>2 DEF Owner!Next
  <2> QED
    BY <2>5, <2>6
<1> QED
  BY <1>1, <1>2, <1>3, <1>4 DEF Manager, Decides

LEMMA ConsoleOwner ==
    ASSUME Reset \/ LoadChange \/ Sleep \/ Wake \/ TickThread \/ UNCHANGED vars
    PROVE  Owner!Next \/ UNCHANGED seen
<1>1. UNCHANGED <<m_config, setter, worker, manager, managerCall>>
  BY DEF TickThread, SetPerfConf, SetMaxHz, SetMinHz, SetCPUBoost, Reset, LoadChange, Sleep,
         Wake, others, vars, tickFields, workerVars, managerVars
<1>2. UNCHANGED <<configNow, ownedNow, lateNow>>
  BY <1>1 DEF configNow, ownedNow, lateNow, exiting
<1>3. CASE Reset
  <2>1. Owner!Reset
    BY <1>1, <1>2, <1>3 DEF Reset, Owner!Reset
  <2> QED
    BY <2>1 DEF Owner!Next
<1>4. CASE LoadChange \/ Sleep \/ Wake \/ TickThread \/ UNCHANGED vars
  <2>1. UNCHANGED hw
    BY <1>4 DEF LoadChange, Sleep, Wake, TickThread, vars, console
  <2> QED
    BY <1>1, <1>2, <2>1 DEF seen
<1> QED
  BY <1>3, <1>4

LEMMA InitOwner == Init => Owner!Init
<1> SUFFICES ASSUME Init PROVE Owner!Init
  OBVIOUS
<1>1. PICK c \in PerfConfs : hw = StockHz(c)
  BY DEF Init
<1>2. hw \in [Governable -> UNION {{GetStockClock(d, m) : d \in PerfConfs} : m \in Governable}]
  BY <1>1 DEF StockHz
<1>3. configNow = {} /\ ownedNow = {} /\ lateNow = {}
  BY DEF Init, configNow, ownedNow, lateNow, exiting
<1>4. (setter \notin {"idle", "deleted"}) = FALSE
  BY DEF Init
<1>5. UNION {[n \in Governable |-> {GetStockClock(d, n) : d \in PerfConfs}][m] : m \in Governable}
      = UNION {{GetStockClock(d, m) : d \in PerfConfs} : m \in Governable}
  OBVIOUS
<1> QED
  BY <1>2, <1>3, <1>4, <1>5 DEF Owner!Init

LEMMA NextOwner == OwnerInv /\ [Next]_vars => [Owner!Next]_seen
BY SetterTells, SetterOwner, WorkerOwner, ManagerOwner, ConsoleOwner
   DEF Next, Threads, Environment

(* The threads and the fields they share without a lock are an owner of    *)
(* the modules SetConfig named last, on any number of cores, with any      *)
(* tables and ranges: no other module's clock is set but by one late call, *)
(* and none by a governor that has gone.                                   *)
THEOREM OwnsItsClocksHolds == Spec => OwnsItsClocks
<1>1. Init => Owner!Init
  BY InitOwner
<1>2. OwnerInv /\ [Next]_vars => [Owner!Next]_<<hw, configNow, setter \notin {"idle", "deleted"},
                                              ownedNow, lateNow>>
  BY NextOwner DEF seen
<1>3. Spec => []OwnerInv
  BY InitOwnerInv, NextOwnerInv, PTL DEF Spec
<1> QED
  BY <1>1, <1>2, <1>3, PTL DEF Spec, OwnsItsClocks, Owner!Spec
=============================================================================
