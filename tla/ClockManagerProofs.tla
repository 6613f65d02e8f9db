------------------------- MODULE ClockManagerProofs -------------------------
(***************************************************************************)
(* Theorems of ClockManager, for every table, every set of settings and    *)
(* every console the assumptions allow: the type invariant, the cap on     *)
(* every clock the sysmodule sets, the cap on every clock a tick leaves    *)
(* behind, the conditions of the automatic boost, one owner per clock, and *)
(* settings that are those of the file.                                    *)
(***************************************************************************)
EXTENDS ClockManager, TLAPS, SequenceTheorems, WellFoundedInduction

-----------------------------------------------------------------------------
(* The lookups of module Clocks, for every table TableAssumption and       *)
(* SortedAssumption allow: an entry of the range, the least one that is    *)
(* not below the request, never above the cap.                             *)

(* Every non-empty set of naturals has a least element.                    *)
LEMMA LeastElement ==
    ASSUME NEW T \in SUBSET Nat, T # {}
    PROVE  \E x \in T : \A y \in T : x <= y
<1>1. PICK x \in T : \A y \in T : <<y, x>> \notin OpToRel(<, Nat)
  BY WFMin, NatLessThanWellFounded
<1>2. \A y \in T : <<y, x>> \in Nat \X Nat
  OBVIOUS
<1>3. \A y \in T : ~(y < x)
  BY <1>1, <1>2 DEF OpToRel
<1> QED
  BY <1>3

(* The index ranges of the tables, and their entries.                      *)
LEMMA TableFacts ==
    ASSUME NEW m \in Modules
    PROVE  /\ last(m) \in Nat /\ 1 <= last(m)
           /\ \A i \in 1..last(m) : freqTable[m][i] \in Nat /\ freqTable[m][i] > 0
           /\ \A i, j \in 1..last(m) : i <= j => freqTable[m][i] <= freqTable[m][j]
<1>1. freqTable[m] \in Seq(Nat \ {0}) /\ Len(freqTable[m]) \in 1..(FREQ_TABLE_MAX_ENTRY_COUNT - 1)
  BY TableAssumption
<1>2. last(m) \in Nat /\ 1 <= last(m) /\ DOMAIN freqTable[m] = 1..last(m)
  <2>1. Len(freqTable[m]) \in Nat /\ DOMAIN freqTable[m] = 1..Len(freqTable[m])
    BY <1>1, LenProperties
  <2>2. \A n : n \in 1..(FREQ_TABLE_MAX_ENTRY_COUNT - 1) => 1 <= n
    BY DEF FREQ_TABLE_MAX_ENTRY_COUNT
  <2>3. 1 <= Len(freqTable[m])
    BY <1>1, <2>2
  <2> QED
    BY <2>1, <2>3 DEF last
<1>3. \A i \in 1..last(m) : freqTable[m][i] \in Nat \ {0}
  BY <1>1, <1>2
<1>4. \A i, j \in 1..last(m) : i < j => freqTable[m][i] <= freqTable[m][j]
  BY <1>2, SortedAssumption
<1>5. ASSUME NEW i \in 1..last(m), NEW j \in 1..last(m), i <= j
      PROVE  freqTable[m][i] <= freqTable[m][j]
  <2>1. CASE i = j
    BY <2>1, <1>3
  <2>2. CASE i < j
    BY <2>2, <1>4
  <2> QED
    BY <1>5, <1>2, <2>1, <2>2
<1> QED
  BY <1>2, <1>3, <1>5

(* Clocks::GetNearestHzPtr stays inside [lo, hi], and nothing between lo   *)
(* and the entry it returns would have done.                               *)
LEMMA GetNearestHzPtrFacts ==
    ASSUME NEW m \in Modules, NEW lo \in Nat, NEW hi \in Nat, lo <= hi, NEW freq
    PROVE  LET p == GetNearestHzPtr(m, lo, hi, freq)
           IN  /\ p \in lo..hi
               /\ p < hi => freq <= freqTable[m][p]
               /\ \A i \in lo..hi : i < p => ~(freq <= freqTable[m][i])
<1> DEFINE found == {i \in lo..(hi - 1) : freq <= freqTable[m][i]}
<1> DEFINE p     == GetNearestHzPtr(m, lo, hi, freq)
<1>1. CASE found = {}
  <2>1. p = hi
    BY <1>1 DEF GetNearestHzPtr
  <2> QED
    BY <1>1, <2>1
<1>2. CASE found # {}
  <2>1. found \in SUBSET Nat
    OBVIOUS
  <2> HIDE DEF found
  <2>2. PICK least \in found : \A j \in found : least <= j
    BY <1>2, <2>1, LeastElement
  <2> USE DEF found
  <2>3. p = CHOOSE i \in found : \A j \in found : i <= j
    BY <1>2 DEF GetNearestHzPtr
  <2>4. p \in found /\ \A j \in found : p <= j
    BY <2>2, <2>3
  <2> QED
    BY <2>4
<1> QED
  BY <1>1, <1>2

(* UpdateFreqRange leaves every range non-empty and inside its table: the  *)
(* lookups never throw "table lookup failed".                              *)
LEMMA RangeFacts ==
    ASSUME NEW m \in Modules, NEW state, NEW unsafe
    PROVE  /\ min(m) \in 1..last(m)
           /\ max(m, state, unsafe) \in min(m)..last(m)
<1>1. last(m) \in Nat /\ 1 <= last(m)
  BY TableFacts
<1>2. min(m) \in 1..last(m)
  BY <1>1, GetNearestHzPtrFacts DEF min
<1>3. CASE m = "CPU"
  <2>1. max(m, state, unsafe) = GetNearestHzPtr(m, 1, last(m), CpuCap(state, unsafe))
    BY <1>3 DEF max
  <2> QED
    BY <1>1, <1>3, <2>1, GetNearestHzPtrFacts DEF min
<1>4. CASE m = "GPU"
  <2>1. max(m, state, unsafe) = GetNearestHzPtr(m, 1, last(m), GpuCap(state, unsafe))
    BY <1>4 DEF max
  <2> QED
    BY <1>1, <1>4, <2>1, GetNearestHzPtrFacts DEF min
<1>5. CASE m = "MEM"
  <2>1. max(m, state, unsafe) = last(m)
    BY <1>5 DEF max
  <2> QED
    BY <1>1, <1>2, <2>1
<1> QED
  BY <1>2, <1>3, <1>4, <1>5 DEF Modules

(* Clocks::GetNearestHz: whatever is asked for, the answer is an entry of  *)
(* the module's table inside the range of the profile, so a clock at most  *)
(* at the cap, and it is below what was asked for only at the cap itself.  *)
THEOREM NearestWithinCap ==
    ASSUME NEW m \in Modules, NEW state, NEW unsafe, NEW hz
    PROVE  /\ \E i \in min(m)..max(m, state, unsafe) :
                 GetNearestHz(m, state, hz, unsafe) = freqTable[m][i]
           /\ \/ hz <= GetNearestHz(m, state, hz, unsafe)
              \/ GetNearestHz(m, state, hz, unsafe) = maxHz(m, state, unsafe)
           /\ GetNearestHz(m, state, hz, unsafe) \in Nat
           /\ GetNearestHz(m, state, hz, unsafe) > 0
           /\ maxHz(m, state, unsafe) \in Nat
           /\ GetNearestHz(m, state, hz, unsafe) <= maxHz(m, state, unsafe)
<1> DEFINE lo == min(m)
<1> DEFINE hi == max(m, state, unsafe)
<1> DEFINE p  == GetNearestHzPtr(m, lo, hi, hz)
<1>1. last(m) \in Nat /\ lo \in 1..last(m) /\ hi \in lo..last(m)
  BY RangeFacts, TableFacts
<1>2. p \in lo..hi /\ (p < hi => hz <= freqTable[m][p])
  BY <1>1, GetNearestHzPtrFacts
<1>3. p \in 1..last(m) /\ hi \in 1..last(m) /\ p <= hi
  BY <1>1, <1>2
<1>4. /\ GetNearestHz(m, state, hz, unsafe) = freqTable[m][p]
      /\ maxHz(m, state, unsafe) = freqTable[m][hi]
  BY DEF GetNearestHz, maxHz
<1>5. \E i \in min(m)..max(m, state, unsafe) : GetNearestHz(m, state, hz, unsafe) = freqTable[m][i]
  BY <1>2, <1>4
<1>6. \/ hz <= GetNearestHz(m, state, hz, unsafe)
      \/ GetNearestHz(m, state, hz, unsafe) = maxHz(m, state, unsafe)
  BY <1>1, <1>2, <1>4
<1> HIDE DEF lo, hi, p
<1> QED
  BY <1>3, <1>4, <1>5, <1>6, TableFacts

(* GetStockClock knows every configuration apm may report.                 *)
LEMMA StockClockNat ==
    ASSUME NEW conf \in ApmConfigurations, NEW m \in Modules
    PROVE  GetStockClock(conf, m) \in Nat
<1>1. \A c \in sysclk_g_apm_configurations : c.CPU \in Nat /\ c.GPU \in Nat /\ c.MEM \in Nat
  BY DEF sysclk_g_apm_configurations, Apm
<1>2. \A c \in sysclk_g_apm_configurations :
         c["CPU"] = c.CPU /\ c["GPU"] = c.GPU /\ c["MEM"] = c.MEM
  OBVIOUS
<1>3. \E c \in sysclk_g_apm_configurations : c.id = conf
  BY DEF ApmConfigurations
<1>4. GetEmbeddedApmConfig(conf) \in sysclk_g_apm_configurations
  BY <1>3 DEF GetEmbeddedApmConfig
<1> QED
  BY <1>1, <1>2, <1>4 DEF GetStockClock, MEM_CLOCK_MARIKO_MIN, Modules

-----------------------------------------------------------------------------
(* The values the model computes have the types TypeOK gives them.         *)

LEMMA StockClocksType ==
    ASSUME NEW conf \in ApmConfigurations
    PROVE  StockClocks(conf) \in [Modules -> Nat]
BY StockClockNat DEF StockClocks

LEMMA BoostHzNat == boostCpuFreq \in Nat
BY TableAssumption

(* ClockManager::GetHz: a clock to be set is within the cap or fixed, and  *)
(* there always is one for the CPU.                                        *)
LEMMA TargetHzFacts ==
    ASSUME TypeOK, NEW m \in Modules, NEW boost \in BOOLEAN
    PROVE  /\ TargetHz(m, boost) \in Nat
           /\ \/ TargetHz(m, boost) = 0 /\ m # "CPU"
              \/ TargetHz(m, boost) <= maxHz(m, realProfile, allowUnsafe)
              \/ TargetHz(m, boost) \in FixedHz(m)
<1>1. /\ CappedHz(m) \in Nat
      /\ CappedHz(m) = 0 \/ CappedHz(m) <= maxHz(m, realProfile, allowUnsafe)
  BY NearestWithinCap DEF CappedHz
<1> QED
  BY <1>1, BoostHzNat DEF TargetHz, FixedHz
-----------------------------------------------------------------------------
(* Type correctness.  TypeOK is inductive once we know that the tick       *)
(* thread has asked pm for the application and apm for its configuration   *)
(* before it uses the answers.                                             *)

ContextKnown ==
    /\ pc = "governor" => applicationId \in Apps
    /\ pc \in {"nominal", "reset", "stock", "clocks", "drop", "apply", "readback"}
          => perfConfId \in ApmConfigurations
    /\ pc \in {"stock", "drop"} => confId \in ApmConfigurations

TypeInv == TypeOK /\ ContextKnown

LEMMA GovernorTargetsNat ==
    ASSUME TypeOK, NEW m \in {"CPU", "GPU"}
    PROVE  GovernorTargets(m) \subseteq Nat
<1>1. m \in Modules /\ DOMAIN freqTable[m] = 1..last(m) /\ last(m) \in Nat
  BY TableAssumption, LenProperties DEF Modules, last
<1>2. \A i \in DOMAIN freqTable[m] : freqTable[m][i] \in Nat
  BY <1>1, TableFacts
<1>3. govMin[m] \in Nat /\ govMax[m] \in Nat /\ govBoost.hz \in Nat
  BY DEF TypeOK, GovTypeOK
<1>4. \A c \in ApmConfs : GetStockClock(c, m) \in Nat
  BY <1>1, StockClockNat, EnvironmentAssumption
<1>5. HeapWords \subseteq Nat /\ boostCpuFreq \in Nat
  BY BoostHzNat, EnvironmentAssumption
<1>6. ASSUME NEW hz \in GovernorTargets(m)
      PROVE  \/ hz = govMin[m] \/ hz = govMax[m] \/ hz \in HeapWords
             \/ \E i \in DOMAIN freqTable[m] : hz = freqTable[m][i]
             \/ \E c \in ApmConfs : hz = GetStockClock(c, m)
             \/ hz = govBoost.hz \/ hz = boostCpuFreq \/ hz = 1536 \/ hz = 768
  BY DEF GovernorTargets
<1>7. ASSUME NEW hz \in GovernorTargets(m)
      PROVE  hz \in Nat
  <2>1. CASE \E i \in DOMAIN freqTable[m] : hz = freqTable[m][i]
    BY <1>2, <2>1
  <2>2. CASE \E c \in ApmConfs : hz = GetStockClock(c, m)
    BY <1>4, <2>2
  <2>3. CASE hz \in HeapWords
    BY <1>5, <2>3
  <2>4. 1536 \in Nat /\ 768 \in Nat
    BY SMT
  <2> QED
    BY <1>3, <1>5, <1>6, <2>1, <2>2, <2>3, <2>4
<1> QED
  BY <1>7

LEMMA InitTypeInv == Init => TypeInv
<1> SUFFICES ASSUME Init PROVE TypeInv
  OBVIOUS
<1>1. NoProfiles \in SysClkTitleProfileList /\ DefaultValues \in SysClkConfigValues
  BY ConfigAssumption
<1>2. ConfigTypeOK
  <2>1. file \in Contents
    BY ConfigAssumption DEF Init, ConfigInit, Contents
  <2>2. DefaultValues.ChargingLimitPercentage \in 20..100
    BY DEF DefaultValues
  <2> QED
    BY <1>1, <2>1, <2>2 DEF Init, ConfigInit, ConfigTypeOK
<1>3. hw \in [Modules -> Nat]
  BY StockClocksType, EnvironmentAssumption DEF Init
<1>4. govMin \in [{"CPU", "GPU"} -> Nat] /\ govMax \in [{"CPU", "GPU"} -> Nat]
  <2>1. PICK w \in HeapWords :
           /\ govMin = [m \in {"CPU", "GPU"} |-> IF m = "CPU" THEN w ELSE 1536]
           /\ govMax = [m \in {"CPU", "GPU"} |-> w]
    BY DEF Init
  <2>2. w \in Nat
    BY EnvironmentAssumption
  <2> QED
    BY <2>1, <2>2
<1>5. govBoost \in [hz : Nat, auto : BOOLEAN]
  BY BoostHzNat DEF Init
<1>6. /\ power \in BOOLEAN \X ChargerTypes /\ runningApp \in Apps
      /\ apmConf \in ApmConfigurations /\ chargeNow \in 0..100
  BY EnvironmentAssumption DEF Init
<1>7. TypeOK
  BY <1>2, <1>3, <1>4, <1>5, <1>6
     DEF Init, TypeOK, ConsoleTypeOK, RnxTypeOK, GovTypeOK, ContextTypeOK, OcTypeOK, ThreadTypeOK,
         ReverseNXModes, Profiles, PCs, Modules
<1> QED
  BY <1>7 DEF TypeInv, ContextKnown, Init

(* Config: what a load or a save leaves in memory.                         *)
LEMMA SettingsTypes ==
    /\ \A v \in SysClkConfigValues : /\ ValidValues(v) \in SysClkConfigValues
                                     /\ ValidValues(v).ChargingLimitPercentage \in 20..100
    /\ \A l \in SysClkTitleProfileList : ParseProfiles(l) \in SysClkTitleProfileList
<1>1. ASSUME NEW v \in SysClkConfigValues
      PROVE  /\ ValidValues(v) \in SysClkConfigValues
             /\ ValidValues(v).ChargingLimitPercentage \in 20..100
  BY <1>1 DEF ValidValues, SysClkConfigValues, DefaultValues
<1>2. ASSUME NEW l \in SysClkTitleProfileList
      PROVE  ParseProfiles(l) \in SysClkTitleProfileList
  <2>1. maxMemFreq \in Nat
    BY TableAssumption, TableFacts DEF last, Modules
  <2>2. \A m \in Modules, mhz \in Nat : ParseMhz(m, mhz) \in Nat
    BY <2>1 DEF ParseMhz
  <2>3. \A q \in Profiles, m \in Modules : l.mhzMap[q][m] \in Nat
    BY <1>2 DEF SysClkTitleProfileList
  <2> QED
    BY <1>2, <2>2, <2>3 DEF ParseProfiles, SysClkTitleProfileList
<1> QED
  BY <1>1, <1>2

(* A group of variables a step leaves alone keeps its types.               *)
LEMMA UnchangedTypes ==
    ASSUME TypeOK
    PROVE  /\ UNCHANGED configVars  => ConfigTypeOK'
           /\ UNCHANGED consoleVars => ConsoleTypeOK'
           /\ UNCHANGED rnxVars     => RnxTypeOK'
           /\ UNCHANGED govVars     => GovTypeOK'
           /\ UNCHANGED contextVars => ContextTypeOK'
           /\ UNCHANGED ocVars      => OcTypeOK'
           /\ UNCHANGED threadVars  => ThreadTypeOK'
<1>1. UNCHANGED configVars => ConfigTypeOK'
  BY DEF TypeOK, ConfigTypeOK, configVars
<1>2. UNCHANGED consoleVars => ConsoleTypeOK'
  BY DEF TypeOK, ConsoleTypeOK, consoleVars
<1>3. UNCHANGED rnxVars => RnxTypeOK'
  BY DEF TypeOK, RnxTypeOK, rnxVars
<1>4. UNCHANGED govVars => GovTypeOK'
  BY DEF TypeOK, GovTypeOK, govVars
<1>5. UNCHANGED contextVars => ContextTypeOK'
  BY DEF TypeOK, ContextTypeOK, contextVars
<1>6. UNCHANGED ocVars => OcTypeOK'
  BY DEF TypeOK, OcTypeOK, ocVars
<1>7. UNCHANGED threadVars => ThreadTypeOK'
  BY DEF TypeOK, ThreadTypeOK, threadVars
<1> QED
  BY <1>1, <1>2, <1>3, <1>4, <1>5, <1>6, <1>7

(* A clock the tick thread sets is a frequency.                            *)
LEMMA SetClockType ==
    ASSUME TypeOK, NEW m \in Modules, NEW hz \in Nat, hw' = [hw EXCEPT ![m] = hz],
           UNCHANGED <<power, runningApp, apmConf, chargeNow, chargeEnabled>>
    PROVE  ConsoleTypeOK'
BY DEF TypeOK, ConsoleTypeOK

LEMMA CurrentProfileType ==
    ASSUME NEW docked \in BOOLEAN, NEW charger \in ChargerTypes
    PROVE  GetCurrentProfile(docked, charger) \in Profiles
BY Zenon DEF GetCurrentProfile, ChargerTypes, Profiles

LEMMA ProfileType ==
    ASSUME NEW real \in Profiles
    PROVE  GetProfile(real) \in Profiles
BY Zenon DEF GetProfile, Profiles

LEMMA GovernorConfigType ==
    ASSUME ConfigTypeOK, NEW tid \in Tids
    PROVE  GetTitleGovernorConfig(tid) \in SUBSET {"CPU", "GPU"}
BY DEF GetTitleGovernorConfig, ConfigTypeOK, NoProfiles, SysClkTitleProfileList

(* The steps of the tick thread.                                           *)
LEMMA TickTypeInv ==
    ASSUME TypeInv, TickThread
    PROVE  TypeInv'
<1> USE DEF TypeInv
<1>1. CASE ChargingHandler
  <2>1. ConsoleTypeOK'
    BY <1>1 DEF TypeOK, ChargingHandler, ConsoleTypeOK, Goto
  <2>2. ThreadTypeOK'
    BY <1>1 DEF TypeOK, ChargingHandler, ThreadTypeOK, Goto, PCs
  <2> QED
    BY <1>1, <2>1, <2>2, UnchangedTypes
       DEF TypeOK, ContextKnown, ContextTypeOK, ConsoleTypeOK, contextVars, ChargingHandler, Goto
<1>2. CASE RefreshProfile
  <2>1. OcTypeOK'
    BY <1>2, CurrentProfileType DEF TypeOK, RefreshProfile, OcTypeOK, Goto, ConsoleTypeOK
  <2>2. ThreadTypeOK'
    BY <1>2 DEF TypeOK, RefreshProfile, ThreadTypeOK, Goto, PCs
  <2> QED
    BY <1>2, <2>1, <2>2, UnchangedTypes
       DEF TypeOK, ContextKnown, ContextTypeOK, ConsoleTypeOK, contextVars, RefreshProfile, Goto
<1>3. CASE RefreshConfig
  <2>1. ConfigTypeOK'
    BY <1>3, SettingsTypes DEF TypeOK, RefreshConfig, ConfigTypeOK, Goto, Refresh, NeedsLoad, Contents
  <2>2. ThreadTypeOK'
    BY <1>3 DEF TypeOK, RefreshConfig, ThreadTypeOK, Goto, Refresh, PCs, NeedsLoad, ConfigTypeOK
  <2> QED
    BY <1>3, <2>1, <2>2, UnchangedTypes
       DEF TypeOK, ContextKnown, ContextTypeOK, ConsoleTypeOK, contextVars, RefreshConfig, Goto, Refresh
<1>4. CASE ToggleSync
  <2>1. RnxTypeOK'
    BY <1>4 DEF TypeOK, ToggleSync, RnxTypeOK, Goto, ConfigTypeOK, SysClkConfigValues
  <2>2. ThreadTypeOK'
    BY <1>4 DEF TypeOK, ToggleSync, ThreadTypeOK, Goto, PCs
  <2> QED
    BY <1>4, <2>1, <2>2, UnchangedTypes
       DEF TypeOK, ContextKnown, ContextTypeOK, ConsoleTypeOK, contextVars, ToggleSync, Goto
<1>5. CASE SetAllowUnsafe
  <2>1. (allowUnsafe \in BOOLEAN)'
    BY <1>5 DEF TypeOK, SetAllowUnsafe, Goto, ConfigTypeOK, SysClkConfigValues
  <2>2. ThreadTypeOK'
    BY <1>5 DEF TypeOK, SetAllowUnsafe, ThreadTypeOK, Goto, PCs
  <2> QED
    BY <1>5, <2>1, <2>2, UnchangedTypes
       DEF TypeOK, ContextKnown, ContextTypeOK, ConsoleTypeOK, contextVars, SetAllowUnsafe, Goto
<1>19. CASE SetGovernorBoost
  <2>1. GovTypeOK'
    BY <1>19, NearestWithinCap
       DEF TypeOK, SetGovernorBoost, GovTypeOK, Goto, ConfigTypeOK, SysClkConfigValues, Modules
  <2>2. ThreadTypeOK'
    BY <1>19 DEF TypeOK, SetGovernorBoost, ThreadTypeOK, Goto, PCs
  <2> QED
    BY <1>19, <2>1, <2>2, UnchangedTypes
       DEF TypeOK, ContextKnown, ContextTypeOK, ConsoleTypeOK, contextVars, SetGovernorBoost, Goto
<1>6. CASE RefreshEnabled
  <2>1. ContextTypeOK'
    BY <1>6 DEF TypeOK, RefreshEnabled, ContextTypeOK, Goto, ConfigTypeOK
  <2>2. ThreadTypeOK'
    BY <1>6 DEF TypeOK, RefreshEnabled, ThreadTypeOK, Goto, PCs
  <2> QED
    BY <1>6, <2>1, <2>2, UnchangedTypes
       DEF TypeOK, ContextKnown, ContextTypeOK, ConsoleTypeOK, contextVars, RefreshEnabled, Goto
<1>7. CASE RefreshApplication
  <2>1. RnxTypeOK'
    BY <1>7, EnvironmentAssumption DEF TypeOK, RefreshApplication, RnxTypeOK, Goto, ConsoleTypeOK, ReverseNXModes
  <2>2. ContextTypeOK'
    BY <1>7 DEF TypeOK, RefreshApplication, ContextTypeOK, Goto, ConsoleTypeOK
  <2>3. ThreadTypeOK'
    BY <1>7 DEF TypeOK, RefreshApplication, ThreadTypeOK, Goto, PCs
  <2> QED
    BY <1>7, <2>1, <2>2, <2>3, UnchangedTypes
       DEF TypeOK, ContextKnown, ContextTypeOK, ConsoleTypeOK, contextVars, RefreshApplication, Goto
<1>8. CASE SetGovernorConfig
  <2>1. GovTypeOK'
    BY <1>8, GovernorConfigType DEF TypeOK, SetGovernorConfig, GovTypeOK, Goto, ContextKnown, Tids
  <2>2. ThreadTypeOK'
    BY <1>8 DEF TypeOK, SetGovernorConfig, ThreadTypeOK, Goto, PCs
  <2> QED
    BY <1>8, <2>1, <2>2, UnchangedTypes
       DEF TypeOK, ContextKnown, ContextTypeOK, ConsoleTypeOK, contextVars, SetGovernorConfig, Goto
<1>9. CASE RefreshPerfConf
  <2>1. ContextTypeOK'
    BY <1>9 DEF TypeOK, RefreshPerfConf, ContextTypeOK, Goto, ConsoleTypeOK
  <2>2. ThreadTypeOK'
    BY <1>9 DEF TypeOK, RefreshPerfConf, ThreadTypeOK, Goto, PCs
  <2> QED
    BY <1>9, <2>1, <2>2, UnchangedTypes
       DEF TypeOK, ContextKnown, ContextTypeOK, ConsoleTypeOK, contextVars, RefreshPerfConf, Goto
<1>10. CASE RefreshNominalProfile
  <2>1. ContextTypeOK'
    BY <1>10, ProfileType DEF TypeOK, RefreshNominalProfile, ContextTypeOK, Goto, OcTypeOK
  <2>2. ThreadTypeOK'
    BY <1>10 DEF TypeOK, RefreshNominalProfile, ThreadTypeOK, Goto, PCs
  <2> QED
    BY <1>10, <2>1, <2>2, UnchangedTypes
       DEF TypeOK, ContextKnown, ContextTypeOK, ConsoleTypeOK, contextVars, RefreshNominalProfile, Goto
<1>11. CASE ResetToStock
  <2>1. ThreadTypeOK'
    BY <1>11 DEF TypeOK, ResetToStock, ThreadTypeOK, ConsoleTypeOK, PCs, Modules
  <2> QED
    BY <1>11, <2>1, UnchangedTypes
       DEF TypeOK, ContextKnown, ContextTypeOK, ConsoleTypeOK, contextVars, ResetToStock
<1>12. CASE SetStock
  <2>1. ConsoleTypeOK'
    <3>1. hw' \in [Modules -> Nat]
      BY <1>12, StockClocksType DEF SetStock, ContextKnown
    <3> QED
      BY <1>12, <3>1 DEF TypeOK, SetStock, ConsoleTypeOK
  <2>2. ThreadTypeOK'
    BY <1>12 DEF TypeOK, SetStock, ThreadTypeOK, PCs
  <2> QED
    BY <1>12, <2>1, <2>2, UnchangedTypes
       DEF TypeOK, ContextKnown, ContextTypeOK, contextVars, SetStock
<1>16. CASE RefreshClock
  <2>1. ContextTypeOK'
    BY <1>16 DEF TypeOK, RefreshClock, ContextTypeOK, ConsoleTypeOK, ConfigTypeOK, ThreadTypeOK
  <2>2. /\ pc' \in {"clocks", "drop", "apply", "wait"}
        /\ module' \in Modules
        /\ confId' \in {confId, apmConf}
        /\ hasChanged' \in BOOLEAN
    BY <1>16 DEF TypeOK, RefreshClock, NextRefresh, NextModule, ThreadTypeOK, Modules
  <2>3. ThreadTypeOK'
    BY <2>2 DEF TypeOK, ThreadTypeOK, ConsoleTypeOK, PCs
  <2>4. ContextKnown'
    <3>1. UNCHANGED <<applicationId, perfConfId>> /\ pc = "clocks" /\ (pc' = "drop" => confId' = apmConf)
      BY <1>16 DEF RefreshClock, NextRefresh, NextModule
    <3> QED
      BY <2>2, <3>1 DEF TypeOK, ContextKnown, ConsoleTypeOK
  <2> QED
    BY <1>16, <2>1, <2>3, <2>4, UnchangedTypes DEF TypeOK, RefreshClock
<1>17. CASE DropOverride
  <2>1. module \in Modules /\ GetStockClock(confId, module) \in Nat
    BY <1>17, StockClockNat DEF TypeOK, ThreadTypeOK, ContextKnown, DropOverride
  <2>2. ConsoleTypeOK'
    BY <1>17, <2>1, SetClockType DEF DropOverride
  <2>3. ThreadTypeOK'
    BY <1>17 DEF TypeOK, DropOverride, ThreadTypeOK, NextRefresh, NextModule, PCs, Modules
  <2> QED
    BY <1>17, <2>2, <2>3, UnchangedTypes
       DEF TypeOK, ContextKnown, contextVars, DropOverride, NextRefresh, NextModule
<1>13. CASE Apply
  <2> DEFINE m     == module
  <2> DEFINE hz    == GetHz(m)
  <2> DEFINE range == IF hz = 0 THEN GetStockClock(perfConfId, m) ELSE hz
  <2>1. m \in Modules /\ hz \in Nat
    BY TargetHzFacts DEF GetHz, TypeOK, ThreadTypeOK, OcTypeOK
  <2>2. range \in Nat
    BY <1>13, <2>1, StockClockNat DEF ContextKnown, Apply
  <2>3. freqTable["CPU"][1] \in Nat
    BY TableFacts DEF Modules
  <2>4. GovTypeOK'
    <3>1. govMax' = IF m = "MEM" THEN govMax ELSE [govMax EXCEPT ![m] = range]
      BY <1>13 DEF Apply
    <3>2. PICK low \in Nat : govMin' = IF m = "MEM" THEN govMin ELSE [govMin EXCEPT ![m] = low]
      <4> DEFINE low == IF m = "CPU" THEN IF isMariko /\ hz > 10200 THEN 10200 ELSE freqTable["CPU"][1]
                        ELSE IF range <= 1536 THEN range ELSE 1536
      <4>1. low \in Nat
        BY <2>2, <2>3
      <4>2. govMin' = IF m = "MEM" THEN govMin ELSE [govMin EXCEPT ![m] = low]
        BY <1>13 DEF Apply
      <4> QED
        BY <4>1, <4>2
    <3>3. UNCHANGED <<govConfig, govLate, govBoost>>
      BY <1>13 DEF Apply
    <3> HIDE DEF hz, range
    <3> QED
      BY <2>1, <2>2, <3>1, <3>2, <3>3 DEF TypeOK, GovTypeOK, Modules
  <2>5. hw' = hw \/ hw' = [hw EXCEPT ![m] = hz]
    BY <1>13 DEF Apply
  <2>6. ConsoleTypeOK'
    <3> HIDE DEF hz
    <3> QED
      BY <1>13, <2>1, <2>5 DEF TypeOK, Apply, ConsoleTypeOK
  <2>7. ThreadTypeOK'
    BY <1>13 DEF TypeOK, Apply, NextModule, ThreadTypeOK, PCs, Modules
  <2> QED
    BY <1>13, <2>4, <2>6, <2>7, UnchangedTypes
       DEF TypeOK, ContextKnown, contextVars, Apply, NextModule
<1>18. CASE ReadBack
  <2>1. ContextTypeOK'
    BY <1>18 DEF TypeOK, ReadBack, ContextTypeOK, ConsoleTypeOK, ThreadTypeOK
  <2>2. ThreadTypeOK'
    BY <1>18 DEF TypeOK, ReadBack, NextModule, ThreadTypeOK, PCs, Modules
  <2> QED
    BY <1>18, <2>1, <2>2, UnchangedTypes DEF TypeOK, ContextKnown, ReadBack, NextModule
<1>14. CASE WaitForNextTick
  <2> DEFINE hz == TargetHz("CPU", FALSE)
  <2>1. hz \in Nat /\ "CPU" \in Modules
    BY TargetHzFacts DEF Modules
  <2>2. hw' = hw \/ hw' = [hw EXCEPT !["CPU"] = hz]
    BY <1>14 DEF WaitForNextTick
  <2>3. ConsoleTypeOK'
    <3> HIDE DEF hz
    <3> QED
      BY <1>14, <2>1, <2>2 DEF TypeOK, ConsoleTypeOK, WaitForNextTick
  <2>4. OcTypeOK' /\ ThreadTypeOK'
    BY <1>14 DEF TypeOK, OcTypeOK, ThreadTypeOK, WaitForNextTick, EndOfTick, Goto, PCs
  <2> QED
    BY <1>14, <2>3, <2>4, UnchangedTypes
       DEF TypeOK, ContextKnown, WaitForNextTick, EndOfTick, Goto
<1>15. ASSUME NEW busy \in BOOLEAN, MeasureCore3(busy)
      PROVE  TypeInv'
  <2> DEFINE hz == IF busy THEN boostCpuFreq ELSE TargetHz("CPU", FALSE)
  <2>1. hz \in Nat /\ "CPU" \in Modules
    BY TargetHzFacts, BoostHzNat DEF Modules
  <2>2. hw' = hw \/ hw' = [hw EXCEPT !["CPU"] = hz]
    BY <1>15 DEF MeasureCore3
  <2>3. ConsoleTypeOK'
    <3> HIDE DEF hz
    <3> QED
      BY <1>15, <2>1, <2>2 DEF TypeOK, ConsoleTypeOK, MeasureCore3
  <2>4. OcTypeOK' /\ ThreadTypeOK'
    BY <1>15 DEF TypeOK, OcTypeOK, ThreadTypeOK, MeasureCore3, EndOfTick, Goto, PCs
  <2> QED
    BY <1>15, <2>3, <2>4, UnchangedTypes
       DEF TypeOK, ContextKnown, MeasureCore3, EndOfTick, Goto
<1> QED
  BY <1>1, <1>2, <1>3, <1>4, <1>5, <1>6, <1>7, <1>8, <1>9, <1>10, <1>11, <1>12, <1>13, <1>14, <1>15,
     <1>16, <1>17, <1>18, <1>19 DEF TickThread

(* The steps of everybody else.                                            *)
LEMMA OtherTypeInv ==
    ASSUME TypeInv, Ipc \/ Console \/ GovernorThreads \/ UNCHANGED vars
    PROVE  TypeInv'
<1> USE DEF TypeInv
<1>1. CASE IpcSettings
  <2>1. ConfigTypeOK'
    <3>1. ASSUME NEW t \in Tids, NEW l \in ProfileLists, SetProfiles(t, l)
          PROVE  ConfigTypeOK'
      BY <3>1, ConfigAssumption DEF TypeOK, ConfigTypeOK, SetProfiles, Touch, Contents
    <3>2. ASSUME NEW v \in ValueLists, SetConfigValues(v)
          PROVE  ConfigTypeOK'
      <4>1. /\ ValidValues(v) \in SysClkConfigValues
            /\ ValidValues(v).ChargingLimitPercentage \in 20..100
        BY SettingsTypes, ConfigAssumption
      <4> QED
        BY <3>2, <4>1 DEF TypeOK, ConfigTypeOK, SetConfigValues, Touch, Contents
    <3>3. ASSUME NEW on \in BOOLEAN, SetEnabled(on)
          PROVE  ConfigTypeOK'
      BY <3>3 DEF TypeOK, ConfigTypeOK, SetEnabled, fileVars
    <3>4. ASSUME NEW m \in Modules, NEW hz \in OverrideFreqs, SetOverride(m, hz)
          PROVE  ConfigTypeOK'
      BY <3>4, ConfigAssumption DEF TypeOK, ConfigTypeOK, SetOverride, fileVars
    <3> QED
      BY <1>1, <3>1, <3>2, <3>3, <3>4 DEF IpcSettings
  <2>2. UNCHANGED <<consoleVars, managerVars>>
    BY <1>1 DEF IpcSettings
  <2> QED
    BY <2>1, <2>2, UnchangedTypes DEF TypeOK, ContextKnown, managerVars, contextVars, threadVars
<1>2. CASE SetRNXRTMode
  <2>1. RnxTypeOK'
    BY <1>2, EnvironmentAssumption DEF TypeOK, RnxTypeOK, SetRNXRTMode
  <2> QED
    BY <1>2, <2>1, UnchangedTypes
       DEF TypeOK, ContextKnown, SetRNXRTMode, contextVars, threadVars
<1>3. CASE SetBatteryChargingDisabledOverride
  <2>1. OcTypeOK'
    BY <1>3 DEF TypeOK, OcTypeOK, SetBatteryChargingDisabledOverride
  <2> QED
    BY <1>3, <2>1, UnchangedTypes
       DEF TypeOK, ContextKnown, SetBatteryChargingDisabledOverride, contextVars, threadVars
<1>4. CASE Exit
  BY <1>4, UnchangedTypes DEF TypeOK, ContextKnown, Exit, contextVars, threadVars
<1>5. CASE Console
  <2>1. ConsoleTypeOK' /\ ConfigTypeOK'
    <3>1. CASE PowerChange
      BY <3>1, EnvironmentAssumption, UnchangedTypes DEF TypeOK, ConsoleTypeOK, PowerChange
    <3>2. CASE ApplicationChange
      BY <3>2, UnchangedTypes DEF TypeOK, ConsoleTypeOK, ApplicationChange
    <3>3. CASE ApmChange
      <4>1. apmConf' \in ApmConfigurations /\ hw' \in [Modules -> Nat]
        BY <3>3, EnvironmentAssumption, StockClocksType DEF ApmChange
      <4> QED
        BY <3>3, <4>1, UnchangedTypes DEF TypeOK, ConsoleTypeOK, ApmChange
    <3>4. CASE BatteryChange
      BY <3>4, EnvironmentAssumption, UnchangedTypes DEF TypeOK, ConsoleTypeOK, BatteryChange
    <3>5. CASE EditFile
      <4>1. PICK t \in Tids, l \in ProfileLists : file' = [file EXCEPT !.profiles[t] = l]
        BY <3>5 DEF EditFile
      <4>2. file' \in Contents
        BY <4>1, ConfigAssumption DEF TypeOK, ConfigTypeOK, Contents
      <4> QED
        BY <3>5, <4>2, UnchangedTypes DEF TypeOK, ConfigTypeOK, EditFile, Touch
    <3> QED
      BY <1>5, <3>1, <3>2, <3>3, <3>4, <3>5 DEF Console
  <2>2. UNCHANGED managerVars
    BY <1>5 DEF Console, PowerChange, ApplicationChange, ApmChange, BatteryChange, EditFile
  <2> QED
    BY <2>1, <2>2, UnchangedTypes DEF TypeOK, ContextKnown, managerVars, contextVars, threadVars
<1>6. CASE GovernorStep
  <2>1. PICK m \in govConfig :
           \E hz \in GovernorTargets(m) \ {0} : hw' = [hw EXCEPT ![m] = hz]
    BY <1>6 DEF GovernorStep
  <2>2. PICK hz \in GovernorTargets(m) \ {0} : hw' = [hw EXCEPT ![m] = hz]
    BY <2>1
  <2>3. m \in {"CPU", "GPU"}
    BY DEF TypeOK, GovTypeOK
  <2>4. m \in Modules /\ hz \in Nat
    BY <2>3, GovernorTargetsNat DEF Modules
  <2>5. ConsoleTypeOK'
    BY <1>6, <2>2, <2>4, SetClockType DEF GovernorStep
  <2> QED
    BY <1>6, <2>5, UnchangedTypes
       DEF TypeOK, ContextKnown, GovernorStep, managerVars, contextVars, threadVars
<1>8. CASE LateGovernorStep
  <2>1. PICK m \in govLate :
           \E hz \in GovernorTargets(m) \ {0} : hw' = [hw EXCEPT ![m] = hz]
    BY <1>8 DEF LateGovernorStep
  <2>2. PICK hz \in GovernorTargets(m) \ {0} : hw' = [hw EXCEPT ![m] = hz]
    BY <2>1
  <2>3. m \in {"CPU", "GPU"}
    BY DEF TypeOK, GovTypeOK
  <2>4. m \in Modules /\ hz \in Nat
    BY <2>3, GovernorTargetsNat DEF Modules
  <2>5. ConsoleTypeOK'
    BY <1>8, <2>2, <2>4, SetClockType DEF LateGovernorStep
  <2>6. GovTypeOK'
    BY <1>8 DEF TypeOK, GovTypeOK, LateGovernorStep
  <2> QED
    BY <1>8, <2>5, <2>6, UnchangedTypes
       DEF TypeOK, ContextKnown, LateGovernorStep, contextVars, threadVars
<1>7. CASE UNCHANGED vars
  BY <1>7, UnchangedTypes DEF TypeOK, ContextKnown, vars, contextVars, threadVars
<1> QED
  BY <1>1, <1>2, <1>3, <1>4, <1>5, <1>6, <1>7, <1>8 DEF Ipc, GovernorThreads

LEMMA NextTypeInv == TypeInv /\ [Next]_vars => TypeInv'
BY TickTypeInv, OtherTypeInv DEF Next, Terminated

LEMMA TypeInvariance == Spec => []TypeInv
BY InitTypeInv, NextTypeInv, PTL DEF Spec

(* In every execution every variable has its type: no lookup of Config,    *)
(* Clocks or the governor is made outside its table, and the clocks that   *)
(* reach pcv are frequencies.                                              *)
THEOREM TypeCorrect == Spec => []TypeOK
BY TypeInvariance, PTL DEF TypeInv
-----------------------------------------------------------------------------
(* The cap on what is set.                                                 *)

LEMMA StepSetsWithinCap ==
    ASSUME TypeInv, Next, SetHzStep, NEW m \in Modules, hw'[m] # hw[m]
    PROVE  hw'[m] <= maxHz(m, realProfile, allowUnsafe) \/ hw'[m] \in FixedHz(m)
<1>1. hw \in [Modules -> Nat]
  BY DEF TypeInv, TypeOK, ConsoleTypeOK
<1>2. CASE Apply
  <2>1. hw' = [hw EXCEPT ![module] = GetHz(module)] /\ GetHz(module) # 0
    BY <1>2, <1>1 DEF Apply
  <2>2. m = module /\ hw'[m] = TargetHz(m, systemCoreBoostCPU) /\ hw'[m] # 0
    BY <1>1, <2>1 DEF GetHz
  <2> QED
    BY <2>2, TargetHzFacts DEF TypeInv, TypeOK, OcTypeOK
<1>3. CASE WaitForNextTick
  <2>1. hw' = [hw EXCEPT !["CPU"] = TargetHz("CPU", FALSE)]
    BY <1>3 DEF WaitForNextTick
  <2>2. m = "CPU" /\ hw'[m] = TargetHz(m, FALSE)
    BY <1>1, <2>1
  <2> QED
    BY <2>2, TargetHzFacts DEF TypeInv
<1>4. ASSUME NEW busy \in BOOLEAN, MeasureCore3(busy)
      PROVE  hw'[m] <= maxHz(m, realProfile, allowUnsafe) \/ hw'[m] \in FixedHz(m)
  <2>1. hw' = [hw EXCEPT !["CPU"] = IF busy THEN boostCpuFreq ELSE TargetHz("CPU", FALSE)]
    BY <1>4 DEF MeasureCore3
  <2>2. m = "CPU" /\ (hw'[m] = boostCpuFreq \/ hw'[m] = TargetHz(m, FALSE))
    BY <1>1, <2>1
  <2>3. TargetHz(m, FALSE) <= maxHz(m, realProfile, allowUnsafe) \/ TargetHz(m, FALSE) \in FixedHz(m)
    BY <2>2, TargetHzFacts DEF TypeInv
  <2>4. boostCpuFreq \in FixedHz(m)
    BY <2>2 DEF FixedHz
  <2> QED
    BY <2>2, <2>3, <2>4
<1>5. Apply \/ WaitForNextTick \/ \E busy \in BOOLEAN : MeasureCore3(busy)
  <2>1. pc \in {"apply", "wait", "measure"} /\ ~UNCHANGED <<pc, module>>
    BY DEF SetHzStep, TickStep
  <2>2. ~Ipc /\ ~Console /\ ~GovernorThreads /\ ~Terminated
    BY <2>1 DEF Ipc, IpcSettings, SetRNXRTMode, SetBatteryChargingDisabledOverride, Exit,
                Console, PowerChange, ApplicationChange, ApmChange, BatteryChange, EditFile,
                GovernorThreads, GovernorStep, LateGovernorStep, Terminated, managerVars, threadVars, vars
  <2>3. TickThread
    BY <2>2 DEF Next
  <2> QED
    BY <2>1, <2>3
       DEF TickThread, ChargingHandler, RefreshProfile, RefreshConfig, ToggleSync,
           SetAllowUnsafe, SetGovernorBoost, RefreshEnabled, RefreshApplication, SetGovernorConfig,
           RefreshPerfConf, RefreshNominalProfile, ResetToStock, SetStock, RefreshClock,
           DropOverride, ReadBack
<1> QED
  BY <1>2, <1>3, <1>4, <1>5

(* Outside a reset the tick thread never asks pcv for a clock above the    *)
(* cap of the power state it knows, whatever was requested, saved or       *)
(* governed, except for the CPU's two fixed clocks.                        *)
THEOREM SetsWithinCap == Spec => SetWithinCap
<1>1. TypeInv /\ [Next]_vars
      => [\A m \in Modules : SetHzStep /\ hw'[m] # hw[m]
             => hw'[m] <= maxHz(m, realProfile, allowUnsafe) \/ hw'[m] \in FixedHz(m)]_vars
  BY StepSetsWithinCap
<1> QED
  BY <1>1, TypeInvariance, PTL DEF Spec, SetWithinCap

-----------------------------------------------------------------------------
(***************************************************************************)
(* The safety invariants that join the settings, the power state and the   *)
(* tick thread's memory: CapHeld and BoostNeedsCharger.  Each holds only   *)
(* while a feature is out of use (TLC has the counterexamples), so each    *)
(* theorem names the feature.                                              *)
(***************************************************************************)
(* Each setting the tick thread keeps a copy of has one step that writes   *)
(* the copy.                                                               *)
LEMMA TickFrame ==
    ASSUME TickThread
    PROVE  /\ RefreshConfig         \/ UNCHANGED fileVars
           /\ SetGovernorConfig     \/ UNCHANGED <<govConfig, govLate>>
           /\ RefreshApplication    \/ UNCHANGED <<m_rt_mode, m_tool_mode>>
           /\ RefreshProfile        \/ UNCHANGED realProfile
           /\ ToggleSync            \/ UNCHANGED m_sync_enabled
           /\ SetAllowUnsafe        \/ UNCHANGED allowUnsafe
           /\ SetGovernorBoost      \/ UNCHANGED govBoost
           /\ RefreshPerfConf       \/ UNCHANGED perfConfId
           /\ RefreshNominalProfile \/ UNCHANGED profile
<1> USE DEF configVars, fileVars, rnxVars, govVars, contextVars, ocVars
<1>1. CASE ChargingHandler
  BY <1>1 DEF ChargingHandler
<1>2. CASE RefreshProfile
  BY <1>2 DEF RefreshProfile
<1>3. CASE RefreshConfig
  BY <1>3 DEF RefreshConfig
<1>4. CASE ToggleSync
  BY <1>4 DEF ToggleSync
<1>5. CASE SetAllowUnsafe
  BY <1>5 DEF SetAllowUnsafe
<1>19. CASE SetGovernorBoost
  BY <1>19 DEF SetGovernorBoost
<1>6. CASE RefreshEnabled
  BY <1>6 DEF RefreshEnabled
<1>7. CASE RefreshApplication
  BY <1>7 DEF RefreshApplication
<1>8. CASE SetGovernorConfig
  BY <1>8 DEF SetGovernorConfig
<1>9. CASE RefreshPerfConf
  BY <1>9 DEF RefreshPerfConf
<1>10. CASE RefreshNominalProfile
  BY <1>10 DEF RefreshNominalProfile
<1>11. CASE ResetToStock
  BY <1>11 DEF ResetToStock
<1>12. CASE SetStock
  BY <1>12 DEF SetStock
<1>13. CASE RefreshClock
  BY <1>13 DEF RefreshClock
<1>14. CASE DropOverride
  BY <1>14 DEF DropOverride
<1>15. CASE Apply
  BY <1>15 DEF Apply
<1>16. CASE ReadBack
  BY <1>16 DEF ReadBack
<1>17. CASE WaitForNextTick
  BY <1>17 DEF WaitForNextTick
<1>18. ASSUME NEW busy \in BOOLEAN, MeasureCore3(busy)
      PROVE  UNCHANGED <<fileVars, govConfig, govLate, govBoost, rnxVars, realProfile,
                         allowUnsafe, perfConfId, profile>>
  BY <1>18 DEF MeasureCore3
<1> QED
  BY <1>1, <1>2, <1>3, <1>4, <1>5, <1>6, <1>7, <1>8, <1>9, <1>10, <1>11, <1>12, <1>13, <1>14,
     <1>15, <1>16, <1>17, <1>18, <1>19 DEF TickThread

(* Only the end of a tick starts the next one.                             *)
LEMMA TickFlow ==
    ASSUME TickThread
    PROVE  /\ pc \notin {"wait", "measure"} => pc' \notin {"measure", "charging"}
           /\ pc \in {"wait", "measure"}
              => WaitForNextTick \/ \E busy \in BOOLEAN : MeasureCore3(busy)
<1> USE DEF Goto, NextModule, NextRefresh
<1>1. CASE ChargingHandler
  BY <1>1 DEF ChargingHandler
<1>2. CASE RefreshProfile
  BY <1>2 DEF RefreshProfile
<1>3. CASE RefreshConfig
  BY <1>3 DEF RefreshConfig
<1>4. CASE ToggleSync
  BY <1>4 DEF ToggleSync
<1>5. CASE SetAllowUnsafe
  BY <1>5 DEF SetAllowUnsafe
<1>19. CASE SetGovernorBoost
  BY <1>19 DEF SetGovernorBoost
<1>6. CASE RefreshEnabled
  BY <1>6 DEF RefreshEnabled
<1>7. CASE RefreshApplication
  BY <1>7 DEF RefreshApplication
<1>8. CASE SetGovernorConfig
  BY <1>8 DEF SetGovernorConfig
<1>9. CASE RefreshPerfConf
  BY <1>9 DEF RefreshPerfConf
<1>10. CASE RefreshNominalProfile
  BY <1>10 DEF RefreshNominalProfile
<1>11. CASE ResetToStock
  BY <1>11 DEF ResetToStock
<1>12. CASE SetStock
  BY <1>12 DEF SetStock
<1>13. CASE RefreshClock
  BY <1>13 DEF RefreshClock
<1>14. CASE DropOverride
  BY <1>14 DEF DropOverride
<1>15. CASE Apply
  BY <1>15 DEF Apply
<1>16. CASE ReadBack
  BY <1>16 DEF ReadBack
<1>17. CASE WaitForNextTick \/ \E busy \in BOOLEAN : MeasureCore3(busy)
  BY <1>17 DEF WaitForNextTick, MeasureCore3
<1> QED
  BY <1>1, <1>2, <1>3, <1>4, <1>5, <1>6, <1>7, <1>8, <1>9, <1>10, <1>11, <1>12, <1>13, <1>14,
     <1>15, <1>16, <1>17, <1>19 DEF TickThread

(* Without GovernorExperimental in any settings the governor owns nothing. *)
GovernorOff ==
    /\ ~file.values.GovernorExperimental
    /\ ~configValues.GovernorExperimental
    /\ govConfig = {} /\ govLate = {}

LEMMA InitGovernorOff == NoGovernor /\ Init => GovernorOff
<1> SUFFICES ASSUME NoGovernor, Init PROVE GovernorOff
  OBVIOUS
<1>1. file.values \in ValueLists
  BY DEF Init, ConfigInit
<1> QED
  BY <1>1 DEF NoGovernor, GovernorOff, Init, ConfigInit, DefaultValues

LEMMA NextGovernorOff ==
    ASSUME NoGovernor, TypeInv, GovernorOff, [Next]_vars
    PROVE  GovernorOff'
<1> USE DEF GovernorOff
<1>1. \A v \in SysClkConfigValues :
         ~v.GovernorExperimental => ~ValidValues(v).GovernorExperimental
  BY DEF ValidValues, SysClkConfigValues
<1>2. CASE RefreshConfig
  BY <1>1, <1>2 DEF RefreshConfig, Refresh, govVars, TypeInv, TypeOK, ConfigTypeOK, Contents
<1>3. CASE SetGovernorConfig
  BY <1>3 DEF SetGovernorConfig, configVars
<1>4. CASE TickThread /\ ~RefreshConfig /\ ~SetGovernorConfig
  BY <1>4, TickFrame DEF fileVars
<1>5. CASE IpcSettings
  <2>1. ASSUME NEW t \in Tids, NEW l \in ProfileLists, SetProfiles(t, l)
        PROVE  UNCHANGED configValues /\ file'.values = file.values
    BY <2>1 DEF SetProfiles, TypeInv, TypeOK, ConfigTypeOK, Contents
  <2>2. ASSUME NEW v \in ValueLists, SetConfigValues(v)
        PROVE  ~configValues'.GovernorExperimental /\ ~file'.values.GovernorExperimental
    <3>1. v \in SysClkConfigValues /\ ~v.GovernorExperimental
      BY ConfigAssumption DEF NoGovernor
    <3>2. configValues' = ValidValues(v) /\ file'.values = ValidValues(v)
      BY <2>2 DEF SetConfigValues, TypeInv, TypeOK, ConfigTypeOK, Contents
    <3> QED
      BY <1>1, <3>1, <3>2
  <2>3. ASSUME \/ \E on \in BOOLEAN : SetEnabled(on)
               \/ \E m \in Modules, hz \in OverrideFreqs : SetOverride(m, hz)
        PROVE  UNCHANGED <<configValues, file>>
    BY <2>3 DEF SetEnabled, SetOverride, fileVars
  <2>4. UNCHANGED <<govConfig, govLate>>
    BY <1>5 DEF IpcSettings, managerVars, govVars
  <2> QED
    BY <1>5, <2>1, <2>2, <2>3, <2>4 DEF IpcSettings
<1>6. CASE EditFile
  BY <1>6 DEF EditFile, managerVars, govVars, TypeInv, TypeOK, ConfigTypeOK, Contents
<1>7. CASE Ipc /\ ~IpcSettings
  BY <1>7 DEF Ipc, SetRNXRTMode, SetBatteryChargingDisabledOverride, Exit, configVars, govVars
<1>8. CASE Console /\ ~EditFile
  BY <1>8 DEF Console, PowerChange, ApplicationChange, ApmChange, BatteryChange,
              configVars, managerVars, govVars
<1>9. CASE GovernorThreads
  BY <1>9 DEF GovernorThreads, GovernorStep, LateGovernorStep
<1>10. CASE UNCHANGED vars
  BY <1>10 DEF vars, configVars, govVars
<1> QED
  BY <1>2, <1>3, <1>4, <1>5, <1>6, <1>7, <1>8, <1>9, <1>10 DEF Next, Terminated

(* Nobody else writes the context, the loop or the boost.                  *)
LEMMA OtherFrame ==
    ASSUME Ipc \/ Console \/ GovernorThreads \/ UNCHANGED vars
    PROVE  /\ UNCHANGED <<contextVars, threadVars, govConfig, allowUnsafe>>
           /\ UNCHANGED <<systemCoreBoostCPU, realProfile, m_tool_mode>>
           /\ m_rt_mode' \in RTModes \cup {m_rt_mode}
           /\ ApmChange \/ GovernorThreads \/ UNCHANGED hw
<1> USE DEF managerVars, consoleVars, rnxVars, govVars, ocVars, threadVars
<1>1. CASE IpcSettings
  BY <1>1 DEF IpcSettings
<1>2. CASE SetRNXRTMode
  BY <1>2 DEF SetRNXRTMode
<1>3. CASE SetBatteryChargingDisabledOverride
  BY <1>3 DEF SetBatteryChargingDisabledOverride
<1>4. CASE Exit
  BY <1>4 DEF Exit
<1>5. CASE Console
  BY <1>5 DEF Console, PowerChange, ApplicationChange, ApmChange, BatteryChange, EditFile
<1>6. CASE GovernorThreads
  BY <1>6 DEF GovernorThreads, GovernorStep, LateGovernorStep
<1>7. CASE UNCHANGED vars
  BY <1>7 DEF vars
<1> QED
  BY <1>1, <1>2, <1>3, <1>4, <1>5, <1>6, <1>7 DEF Ipc
-----------------------------------------------------------------------------
(* The automatic boost.                                                    *)

BoostAllowed == realProfile # "Handheld" /\ ctxEnabled /\ freqs["CPU"] <= boostCpuFreq

(* What WaitForNextTick saw before its sleep still holds after it, since   *)
(* only the tick thread writes what it looked at.                          *)
BoostInv ==
    /\ pc = "measure" => BoostAllowed
    /\ pc = "charging" /\ systemCoreBoostCPU => BoostAllowed

LEMMA InitBoostInv == Init => BoostInv
BY DEF Init, BoostInv

LEMMA NextBoostInv ==
    ASSUME TypeInv, GovernorOff, BoostInv, [Next]_vars
    PROVE  BoostInv'
<1> USE DEF BoostInv, BoostAllowed
<1>1. CASE WaitForNextTick
  <2>1. ~IsHandledByGovernor("CPU")
    BY DEF GovernorOff, IsHandledByGovernor
  <2>2. UNCHANGED <<realProfile, ctxEnabled, freqs>>
    BY <1>1 DEF WaitForNextTick, contextVars
  <2>3. pc' = "measure" => BoostOK
    BY <1>1, <2>1 DEF WaitForNextTick, EndOfTick, Goto
  <2>4. pc' = "charging" => ~systemCoreBoostCPU'
    BY <1>1, <2>1 DEF WaitForNextTick, EndOfTick, Goto
  <2> QED
    BY <2>2, <2>3, <2>4 DEF BoostOK
<1>2. ASSUME NEW busy \in BOOLEAN, MeasureCore3(busy)
      PROVE  BoostInv'
  BY <1>2 DEF MeasureCore3, EndOfTick, Goto, contextVars
<1>3. CASE TickThread /\ pc \notin {"wait", "measure"}
  BY <1>3, TickFlow
<1>4. CASE Ipc \/ Console \/ GovernorThreads \/ UNCHANGED vars
  BY <1>4, OtherFrame DEF contextVars, threadVars
<1> QED
  BY <1>1, <1>2, <1>3, <1>4, TickFlow DEF Next, Terminated

(* Without the governor, a boost that outlives a tick is one the power     *)
(* state, the enabled flag and the CPU clock of that tick allowed.         *)
THEOREM BoostSafe ==
    ASSUME NoGovernor
    PROVE  Spec => []BoostNeedsCharger
<1>1. Init => TypeInv /\ GovernorOff /\ BoostInv
  BY InitTypeInv, InitGovernorOff, InitBoostInv
<1>2. TypeInv /\ GovernorOff /\ BoostInv /\ [Next]_vars => (TypeInv /\ GovernorOff /\ BoostInv)'
  BY NextTypeInv, NextGovernorOff, NextBoostInv
<1>3. BoostInv => BoostNeedsCharger
  BY DEF BoostInv, BoostAllowed, BoostNeedsCharger
<1> QED
  BY <1>1, <1>2, <1>3, PTL DEF Spec
-----------------------------------------------------------------------------
(* The caps.                                                               *)

(* Without ReverseNX no mode is ever forced.                               *)
RnxOff == m_rt_mode = "NotFound" /\ m_tool_mode = "NotFound"

LEMMA NextRnxOff ==
    ASSUME NoReverseNX, TypeInv, RnxOff, [Next]_vars
    PROVE  RnxOff'
<1> USE DEF RnxOff
<1>1. CASE RefreshApplication
  <2>1. runningApp \in Apps
    BY DEF TypeInv, TypeOK, ConsoleTypeOK
  <2> QED
    BY <1>1, <2>1 DEF RefreshApplication, NoReverseNX
<1>2. CASE TickThread /\ ~RefreshApplication
  BY <1>2, TickFrame
<1>3. CASE Ipc \/ Console \/ GovernorThreads \/ UNCHANGED vars
  BY <1>3, OtherFrame DEF NoReverseNX
<1> QED
  BY <1>1, <1>2, <1>3 DEF Next, Terminated

LEMMA RnxOffProfile ==
    ASSUME RnxOff, NEW real \in Profiles
    PROVE  GetProfile(real) = real
<1>1. GetMode = "NotFound"
  BY DEF GetMode, RnxOff
<1> QED
  BY <1>1, Zenon DEF GetProfile

(* The calls between the read of the power state and the comparison of the *)
(* nominal profile with the last tick's.                                   *)
Refreshing == {"config", "sync", "unsafe", "boost", "enabled", "app", "governor", "perfConf", "nominal"}

(* Outside a loading screen every clock is within the caps, unless the     *)
(* tick is about to find out that the power state changed (profile is      *)
(* still the last tick's) or has found out that something did, in which    *)
(* case it resets the clocks.                                              *)
CapInv ==
    /\ pc \in {"sync", "unsafe", "boost"} => hasChanged
    /\ pc \notin Refreshing => profile = realProfile
    /\ ~IsBoostMode(perfConfId) =>
          \/ CapsHold
          \/ pc \in Refreshing /\ profile # realProfile
          \/ pc \in (Refreshing \cup {"reset", "stock"}) \ {"config"} /\ hasChanged

LEMMA StockAllowed ==
    ASSUME NEW conf \in ApmConfigurations, NEW m \in Modules
    PROVE  GetStockClock(conf, m) \in Allowed(m)
BY DEF Allowed

LEMMA StockCapsHold ==
    ASSUME NEW conf \in ApmConfigurations, hw' = StockClocks(conf),
           UNCHANGED <<realProfile, allowUnsafe>>
    PROVE  CapsHold'
<1>1. ASSUME NEW m \in Modules
      PROVE  hw'[m] \in Allowed(m)
  BY StockAllowed DEF StockClocks
<1> QED
  BY <1>1 DEF CapsHold, Allowed

LEMMA InitCapInv == Init => RnxOff /\ CapInv
<1> SUFFICES ASSUME Init PROVE RnxOff /\ CapInv
  OBVIOUS
<1>1. apmConf \in ApmConfigurations /\ hw = StockClocks(apmConf)
  BY EnvironmentAssumption DEF Init
<1>2. CapsHold
  BY <1>1, StockAllowed DEF CapsHold, StockClocks
<1> QED
  BY <1>2 DEF Init, RnxOff, CapInv, Refreshing

(* A clock that is set to something allowed.                               *)
LEMMA SetKeepsCaps ==
    ASSUME TypeOK, CapsHold, NEW m \in Modules, NEW hz \in Allowed(m),
           hw' = hw \/ hw' = [hw EXCEPT ![m] = hz], UNCHANGED <<realProfile, allowUnsafe>>
    PROVE  CapsHold'
<1>1. \A n \in Modules : hw[n] \in Allowed(n)
  BY DEF CapsHold
<1>2. hw \in [Modules -> Nat]
  BY DEF TypeOK, ConsoleTypeOK
<1>3. \A n \in Modules : hw'[n] \in Allowed(n)
  <2> HIDE DEF Allowed
  <2> QED
    BY <1>1, <1>2
<1> QED
  BY <1>3 DEF CapsHold, Allowed

LEMMA KeepCaps ==
    ASSUME UNCHANGED <<hw, realProfile, allowUnsafe>>
    PROVE  CapsHold' = CapsHold
BY DEF CapsHold, Allowed

(* GetHz: what Apply and WaitForNextTick set.                              *)
LEMMA TargetAllowed ==
    ASSUME TypeOK, NEW m \in Modules, NEW boost \in BOOLEAN,
           TargetHz(m, boost) # 0 \/ m = "CPU"
    PROVE  TargetHz(m, boost) \in Allowed(m)
BY TargetHzFacts DEF Allowed

LEMMA TickCapInv ==
    ASSUME TypeInv, RnxOff, CapInv, TickThread
    PROVE  CapInv'
<1>t. TypeOK
  BY DEF TypeInv
<1> USE DEF CapInv, Refreshing
<1>1. CASE ChargingHandler
  BY <1>1, KeepCaps DEF ChargingHandler, Goto, contextVars, ocVars
<1>2. CASE RefreshProfile
  <2>1. CASE realProfile' = realProfile
    BY <1>2, <2>1, KeepCaps DEF RefreshProfile, Goto, contextVars, consoleVars
  <2>2. CASE realProfile' # realProfile
    BY <1>2, <2>2 DEF RefreshProfile, Goto, contextVars
  <2> QED
    BY <2>1, <2>2
<1>3. CASE RefreshConfig
  BY <1>3, KeepCaps DEF RefreshConfig, Goto, contextVars, ocVars, consoleVars
<1>4. CASE ToggleSync
  BY <1>4, KeepCaps DEF ToggleSync, Goto, contextVars, ocVars, consoleVars
<1>5. CASE SetAllowUnsafe
  BY <1>5 DEF SetAllowUnsafe, Goto, contextVars
<1>19. CASE SetGovernorBoost
  BY <1>19, KeepCaps DEF SetGovernorBoost, Goto, contextVars, ocVars, consoleVars
<1>6. CASE RefreshEnabled
  BY <1>6, KeepCaps DEF RefreshEnabled, Goto, ocVars, consoleVars
<1>7. CASE RefreshApplication
  BY <1>7, KeepCaps DEF RefreshApplication, Goto, ocVars, consoleVars
<1>8. CASE SetGovernorConfig
  BY <1>8, KeepCaps DEF SetGovernorConfig, Goto, contextVars, ocVars, consoleVars
<1>9. CASE RefreshPerfConf
  <2>1. CASE perfConfId' = perfConfId
    BY <1>9, <2>1, KeepCaps DEF RefreshPerfConf, Goto, ocVars, consoleVars
  <2>2. CASE perfConfId' # perfConfId
    BY <1>9, <2>2 DEF RefreshPerfConf, Goto, ocVars
  <2> QED
    BY <2>1, <2>2
<1>10. CASE RefreshNominalProfile
  <2>1. realProfile \in Profiles
    BY <1>t DEF TypeOK, OcTypeOK
  <2>2. profile' = realProfile
    BY <1>10, <2>1, RnxOffProfile DEF RefreshNominalProfile
  <2> QED
    BY <1>10, <2>2, KeepCaps DEF RefreshNominalProfile, Goto, ocVars, consoleVars
<1>11. CASE ResetToStock
  BY <1>11, KeepCaps DEF ResetToStock, contextVars, ocVars, consoleVars
<1>12. CASE SetStock
  <2>1. UNCHANGED <<profile, realProfile, allowUnsafe, perfConfId>> /\ pc = "stock" /\ pc' = "clocks"
    BY <1>12 DEF SetStock, contextVars, ocVars
  <2>2. confId \in ApmConfigurations
    BY <1>t, <2>1 DEF TypeInv, ContextKnown
  <2>3. CapsHold'
    BY <1>12, <2>1, <2>2, StockCapsHold DEF SetStock
  <2> QED
    BY <2>1, <2>3
<1>13. CASE RefreshClock
  <2>1. /\ UNCHANGED <<profile, realProfile, allowUnsafe, perfConfId, hw>>
        /\ pc = "clocks" /\ pc' \in {"clocks", "drop", "apply", "wait"}
    BY <1>13 DEF RefreshClock, NextRefresh, NextModule, ocVars, consoleVars
  <2> QED
    BY <2>1, KeepCaps
<1>14. CASE DropOverride
  <2>1. /\ UNCHANGED <<profile, realProfile, allowUnsafe, perfConfId>>
        /\ pc = "drop" /\ pc' \in {"clocks", "apply", "wait"}
    BY <1>14 DEF DropOverride, NextRefresh, NextModule, contextVars, ocVars
  <2>2. confId \in ApmConfigurations /\ module \in Modules
    BY <1>t, <2>1 DEF TypeInv, ContextKnown, TypeOK, ThreadTypeOK
  <2>3. hw' = [hw EXCEPT ![module] = GetStockClock(confId, module)]
    BY <1>14 DEF DropOverride
  <2>4. CapsHold => CapsHold'
    BY <1>t, <2>1, <2>2, <2>3, StockAllowed, SetKeepsCaps
  <2> QED
    BY <2>1, <2>4
<1>15. CASE Apply
  <2>1. /\ UNCHANGED <<profile, realProfile, allowUnsafe, perfConfId>>
        /\ pc = "apply" /\ pc' \in {"apply", "readback", "wait"}
    BY <1>15 DEF Apply, NextModule, contextVars, ocVars
  <2>2. systemCoreBoostCPU \in BOOLEAN /\ module \in Modules
    BY <1>t DEF TypeOK, OcTypeOK, ThreadTypeOK
  <2>3. \/ hw' = hw
        \/ GetHz(module) # 0 /\ hw' = [hw EXCEPT ![module] = GetHz(module)]
    BY <1>15 DEF Apply
  <2>4. GetHz(module) # 0 => GetHz(module) \in Allowed(module)
    BY <1>t, <2>2, TargetAllowed DEF GetHz
  <2>5. CapsHold => CapsHold'
    BY <1>t, <2>1, <2>2, <2>3, <2>4, KeepCaps, SetKeepsCaps
  <2> QED
    BY <2>1, <2>5
<1>16. CASE ReadBack
  <2>1. /\ UNCHANGED <<profile, realProfile, allowUnsafe, perfConfId, hw>>
        /\ pc = "readback" /\ pc' \in {"apply", "wait"}
    BY <1>16 DEF ReadBack, NextModule, ocVars, consoleVars
  <2> QED
    BY <2>1, KeepCaps
<1>17. CASE WaitForNextTick
  <2>1. /\ UNCHANGED <<profile, realProfile, allowUnsafe, perfConfId>>
        /\ pc = "wait" /\ pc' \in {"measure", "charging", "exited"}
    BY <1>17 DEF WaitForNextTick, EndOfTick, Goto, contextVars
  <2>2. hw' = hw \/ hw' = [hw EXCEPT !["CPU"] = TargetHz("CPU", FALSE)]
    BY <1>17 DEF WaitForNextTick
  <2>3. "CPU" \in Modules /\ TargetHz("CPU", FALSE) \in Allowed("CPU")
    BY <1>t, TargetAllowed DEF Modules
  <2>4. CapsHold => CapsHold'
    BY <1>t, <2>1, <2>2, <2>3, SetKeepsCaps
  <2> QED
    BY <2>1, <2>4
<1>18. ASSUME NEW busy \in BOOLEAN, MeasureCore3(busy)
       PROVE  CapInv'
  <2>1. /\ UNCHANGED <<profile, realProfile, allowUnsafe, perfConfId>>
        /\ pc = "measure" /\ pc' \in {"charging", "exited"}
    BY <1>18 DEF MeasureCore3, EndOfTick, Goto, contextVars
  <2>2. PICK hz \in {boostCpuFreq, TargetHz("CPU", FALSE)} :
           hw' = hw \/ hw' = [hw EXCEPT !["CPU"] = hz]
    BY <1>18 DEF MeasureCore3
  <2>3. "CPU" \in Modules /\ TargetHz("CPU", FALSE) \in Allowed("CPU")
    BY <1>t, TargetAllowed DEF Modules
  <2>4. boostCpuFreq \in Allowed("CPU")
    BY DEF Allowed, FixedHz
  <2>5. CapsHold => CapsHold'
    BY <1>t, <2>1, <2>2, <2>3, <2>4, SetKeepsCaps
  <2> QED
    BY <2>1, <2>5
<1> QED
  BY <1>1, <1>2, <1>3, <1>4, <1>5, <1>6, <1>7, <1>8, <1>9, <1>10, <1>11, <1>12, <1>13, <1>14,
     <1>15, <1>16, <1>17, <1>18, <1>19 DEF TickThread

LEMMA NextCapInv ==
    ASSUME TypeInv, GovernorOff, RnxOff, CapInv, [Next]_vars
    PROVE  CapInv'
<1>1. CASE TickThread
  BY <1>1, TickCapInv
<1>2. CASE Ipc \/ Console \/ GovernorThreads \/ UNCHANGED vars
  <2>1. /\ UNCHANGED <<pc, hasChanged, profile, realProfile, allowUnsafe, perfConfId>>
        /\ ApmChange \/ GovernorThreads \/ UNCHANGED hw
    BY <1>2, OtherFrame DEF contextVars, threadVars
  <2>2. ~GovernorThreads
    BY DEF GovernorOff, GovernorThreads, GovernorStep, LateGovernorStep
  <2>3. CASE ApmChange
    <3>1. apmConf' \in ApmConfigurations /\ hw' = StockClocks(apmConf')
      BY <2>3, EnvironmentAssumption DEF ApmChange
    <3>2. CapsHold'
      BY <2>1, <3>1, StockCapsHold
    <3> QED
      BY <2>1, <3>2 DEF CapInv
  <2>4. CASE UNCHANGED hw
    BY <2>1, <2>4, KeepCaps DEF CapInv
  <2> QED
    BY <2>1, <2>2, <2>3, <2>4
<1> QED
  BY <1>1, <1>2 DEF Next, Terminated

(* Without ReverseNX and the governor, a finished tick leaves no clock     *)
(* above the cap of the power state it saw, however often the console was  *)
(* docked, undocked, plugged in or reconfigured in between.                *)
THEOREM CapSafe ==
    ASSUME NoReverseNX, NoGovernor
    PROVE  Spec => []CapHeld
<1> DEFINE Inv == TypeInv /\ GovernorOff /\ RnxOff /\ CapInv
<1>1. Init => Inv
  BY InitTypeInv, InitGovernorOff, InitCapInv
<1>2. Inv /\ [Next]_vars => Inv'
  BY NextTypeInv, NextGovernorOff, NextRnxOff, NextCapInv
<1>3. Inv => CapHeld
  BY DEF CapInv, CapHeld, Refreshing
<1> HIDE DEF Inv
<1> QED
  BY <1>1, <1>2, <1>3, PTL DEF Spec
-----------------------------------------------------------------------------
(* The governor's clocks.                                                  *)

(* The clock WaitForNextTick may set after its sleep is still nobody       *)
(* else's: the modules the governor handles are only chosen in             *)
(* RefreshContext.                                                         *)
MeasuresOwnClock == pc = "measure" => ~IsHandledByGovernor("CPU")

LEMMA NextMeasuresOwnClock ==
    ASSUME MeasuresOwnClock, [Next]_vars
    PROVE  MeasuresOwnClock'
<1> USE DEF MeasuresOwnClock, IsHandledByGovernor
<1>1. CASE WaitForNextTick
  BY <1>1 DEF WaitForNextTick, EndOfTick, Goto, govVars
<1>2. ASSUME NEW busy \in BOOLEAN, MeasureCore3(busy)
      PROVE  MeasuresOwnClock'
  BY <1>2 DEF MeasureCore3, EndOfTick, Goto
<1>3. CASE TickThread /\ pc \notin {"wait", "measure"}
  BY <1>3, TickFlow
<1>4. CASE Ipc \/ Console \/ GovernorThreads \/ UNCHANGED vars
  BY <1>4, OtherFrame DEF threadVars
<1> QED
  BY <1>1, <1>2, <1>3, <1>4, TickFlow DEF Next, Terminated

LEMMA StepOneOwner ==
    ASSUME TypeOK, MeasuresOwnClock, [Next]_vars, NEW m \in govConfig, SetHzStep
    PROVE  hw'[m] = hw[m]
<1>h. hw \in [Modules -> Nat] /\ m \in Modules /\ module \in Modules
  BY DEF TypeOK, ConsoleTypeOK, GovTypeOK, ThreadTypeOK, Modules
<1>1. CASE Ipc \/ Console \/ GovernorThreads \/ UNCHANGED vars
  BY <1>1, OtherFrame DEF threadVars, SetHzStep, TickStep
<1>2. CASE pc = "apply" /\ TickThread
  <2>1. Apply
    BY <1>2 DEF TickThread, ChargingHandler, RefreshProfile, RefreshConfig, ToggleSync,
         SetAllowUnsafe, SetGovernorBoost, RefreshEnabled, RefreshApplication, SetGovernorConfig,
         RefreshPerfConf, RefreshNominalProfile, ResetToStock, SetStock, RefreshClock,
         DropOverride, Apply, ReadBack, WaitForNextTick, MeasureCore3
  <2>2. \/ hw' = hw
        \/ module \notin govConfig /\ hw' = [hw EXCEPT ![module] = GetHz(module)]
    BY <2>1 DEF Apply, IsHandledByGovernor
  <2> QED
    BY <1>h, <2>2
<1>3. CASE pc \in {"wait", "measure"} /\ TickThread
  <2> DEFINE SetsOwn == \/ hw' = hw
                        \/ /\ "CPU" \notin govConfig
                           /\ \E hz \in {boostCpuFreq, TargetHz("CPU", FALSE)} :
                                 hw' = [hw EXCEPT !["CPU"] = hz]
  <2>1. SetsOwn
    <3>1. CASE WaitForNextTick
      BY <3>1 DEF WaitForNextTick, IsHandledByGovernor
    <3>2. ASSUME NEW busy \in BOOLEAN, MeasureCore3(busy)
          PROVE  SetsOwn
      BY <3>2 DEF MeasureCore3, MeasuresOwnClock, IsHandledByGovernor
    <3> QED
      BY <1>3, <3>1, <3>2, TickFlow
  <2> QED
    BY <1>h, <2>1
<1> QED
  BY <1>1, <1>2, <1>3 DEF Next, Terminated, SetHzStep, TickStep, vars, threadVars

(* The tick thread never sets a clock the governor owns, not even after    *)
(* the sleep in which it measured core 3.                                  *)
THEOREM OneOwnerHolds == Spec => OneOwner
<1>1. Init => MeasuresOwnClock
  BY DEF Init, MeasuresOwnClock
<1>2. MeasuresOwnClock /\ [Next]_vars => MeasuresOwnClock'
  BY NextMeasuresOwnClock
<1>3. TypeOK /\ MeasuresOwnClock /\ [Next]_vars
      => [\A m \in govConfig : SetHzStep => hw'[m] = hw[m]]_vars
  BY StepOneOwner
<1> QED
  BY <1>1, <1>2, <1>3, TypeCorrect, PTL DEF Spec, OneOwner
-----------------------------------------------------------------------------
(* The settings.                                                           *)
LEMMA TickSettingsFlow ==
    ASSUME TickThread, pc \in {"sync", "unsafe", "boost"}
    PROVE  ToggleSync \/ SetAllowUnsafe \/ SetGovernorBoost
<1>1. ~ChargingHandler /\ ~RefreshProfile
  BY DEF ChargingHandler, RefreshProfile
<1>2. ~RefreshConfig /\ ~RefreshEnabled
  BY DEF RefreshConfig, RefreshEnabled
<1>3. ~RefreshApplication /\ ~SetGovernorConfig
  BY DEF RefreshApplication, SetGovernorConfig
<1>4. ~RefreshPerfConf /\ ~RefreshNominalProfile
  BY DEF RefreshPerfConf, RefreshNominalProfile
<1>5. ~ResetToStock /\ ~SetStock
  BY DEF ResetToStock, SetStock
<1>6. ~RefreshClock /\ ~DropOverride
  BY DEF RefreshClock, DropOverride
<1>7. ~Apply /\ ~ReadBack
  BY DEF Apply, ReadBack
<1>8. ~WaitForNextTick /\ \A busy \in BOOLEAN : ~MeasureCore3(busy)
  BY DEF WaitForNextTick, MeasureCore3
<1> QED
  BY <1>1, <1>2, <1>3, <1>4, <1>5, <1>6, <1>7, <1>8 DEF TickThread

LEMMA InitSettings == Init => SettingsCurrent
BY DEF Init, ConfigInit, SettingsCurrent

(* Every write of the file is noticed by its time: what is used is out of  *)
(* date until the next Refresh, and only that.                             *)
LEMMA NextSettings ==
    ASSUME CoarseMtime = FALSE, SettingsCurrent, [Next]_vars
    PROVE  SettingsCurrent'
<1> USE DEF SettingsCurrent
<1>1. CASE RefreshConfig
  <2>1. pc = "config" /\ UNCHANGED <<file, m_sync_enabled, allowUnsafe, govBoost>>
    BY <1>1 DEF RefreshConfig, Refresh, rnxVars, govVars
  <2>2. CASE NeedsLoad
    <3>1. /\ pc' = "sync"
          /\ profiles' = [t \in Tids |-> ParseProfiles(file.profiles[t])]
          /\ configValues' = ValidValues(file.values)
      BY <1>1, <2>2 DEF RefreshConfig, Refresh, Goto
    <3> QED
      BY <2>1, <3>1
  <2>3. CASE ~NeedsLoad
    <3>1. UNCHANGED <<loaded, fileNewer, profiles, configValues>>
      BY <1>1, <2>3 DEF RefreshConfig, Refresh
    <3> QED
      BY <2>1, <3>1
  <2> QED
    BY <2>2, <2>3
<1>2. CASE ToggleSync
  BY <1>2 DEF ToggleSync, Goto, configVars, govVars
<1>3. CASE SetAllowUnsafe
  BY <1>3 DEF SetAllowUnsafe, Goto, configVars, rnxVars
<1>9. CASE SetGovernorBoost
  BY <1>9 DEF SetGovernorBoost, Goto, configVars, rnxVars
<1>4. CASE /\ TickThread /\ ~RefreshConfig
           /\ ~ToggleSync /\ ~SetAllowUnsafe /\ ~SetGovernorBoost
  <2>1. pc \notin {"sync", "unsafe", "boost"}
    BY <1>4, TickSettingsFlow
  <2>2. UNCHANGED <<fileVars, m_sync_enabled, allowUnsafe, govBoost>>
    BY <1>4, TickFrame
  <2> QED
    BY <2>1, <2>2 DEF fileVars
<1>5. CASE \/ EditFile
           \/ \E t \in Tids, l \in ProfileLists : SetProfiles(t, l)
           \/ \E v \in ValueLists : SetConfigValues(v)
  <2>1. Touch => fileNewer'
    BY DEF Touch
  <2> QED
    BY <1>5, <2>1 DEF EditFile, SetProfiles, SetConfigValues
<1>6. CASE UNCHANGED <<fileVars, m_sync_enabled, allowUnsafe, govBoost, pc>>
  BY <1>6 DEF fileVars
<1>7. ASSUME Ipc \/ Console \/ GovernorThreads \/ UNCHANGED vars
      PROVE  SettingsCurrent'
  <2> USE DEF configVars, fileVars, managerVars, rnxVars, govVars, threadVars
  <2>1. CASE IpcSettings
    <3>1. CASE \E on \in BOOLEAN : SetEnabled(on)
      BY <1>6, <2>1, <3>1 DEF IpcSettings, SetEnabled
    <3>2. CASE \E m \in Modules, hz \in OverrideFreqs : SetOverride(m, hz)
      BY <1>6, <2>1, <3>2 DEF IpcSettings, SetOverride
    <3> QED
      BY <1>5, <2>1, <3>1, <3>2 DEF IpcSettings
  <2>2. CASE SetRNXRTMode \/ SetBatteryChargingDisabledOverride \/ Exit
    BY <1>6, <2>2 DEF SetRNXRTMode, SetBatteryChargingDisabledOverride, Exit
  <2>3. CASE PowerChange \/ ApplicationChange \/ ApmChange \/ BatteryChange
    BY <1>6, <2>3 DEF PowerChange, ApplicationChange, ApmChange, BatteryChange
  <2>4. CASE GovernorThreads
    BY <1>6, <2>4 DEF GovernorThreads, GovernorStep, LateGovernorStep
  <2>5. CASE UNCHANGED vars
    BY <1>6, <2>5 DEF vars
  <2> QED
    BY <1>5, <1>7, <2>1, <2>2, <2>3, <2>4, <2>5 DEF Ipc, Console
<1>8. CASE Terminated
  BY <1>7, <1>8 DEF Terminated
<1> QED
  BY <1>1, <1>2, <1>3, <1>4, <1>7, <1>8, <1>9 DEF Next

(* As long as no two writes fall into one granule of the file's time, what *)
(* the tick thread uses is what the file it knows says.                    *)
THEOREM SettingsAreCurrent ==
    ASSUME CoarseMtime = FALSE
    PROVE  Spec => []SettingsCurrent
BY InitSettings, NextSettings, PTL DEF Spec
=============================================================================
