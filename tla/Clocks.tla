------------------------------- MODULE Clocks -------------------------------
(***************************************************************************)
(* The frequency tables of the sysmodule, the per-profile caps computed    *)
(* from them and the lookups that every requested clock goes through       *)
(* (sysmodule/src/clocks.cpp and clocks.h), with the clock rates that the  *)
(* system's own performance configurations stand for.                      *)
(*                                                                         *)
(* A frequency is a natural number of 100 kHz: 1963.5 MHz is 19635.  A     *)
(* pointer into a table is an index, the pointer comparisons of the code   *)
(* are comparisons of indices.                                             *)
(***************************************************************************)
EXTENDS Naturals, Sequences

CONSTANTS
    isMariko,   \* TRUE on the Tegra X1+ boards, FALSE on Erista
    freqTable,  \* per module, the non-zero prefix of Clocks::freqTable[module]
    boostCpuFreq,  \* 1785 MHz unless the loader customisation says otherwise
    maxMemFreq     \* the customised memory clock, 0 when there is none

Modules  == {"CPU", "GPU", "MEM"}
Profiles == {"Handheld", "HandheldCharging", "HandheldChargingUSB",
             "HandheldChargingOfficial", "Docked"}

FREQ_TABLE_MAX_ENTRY_COUNT == 31

(* The tables come out of the loader's KIP image (ParseLoaderKip).  A      *)
(* zero ends a table: InitDefault stops there and looks one entry ahead,   *)
(* so a table has at most one entry less than the array holds.  CustParser *)
(* appends maxMemFreq to the memory table.                                 *)
ASSUME TableAssumption ==
    /\ isMariko \in BOOLEAN
    /\ freqTable \in [Modules -> Seq(Nat \ {0})]
    /\ \A m \in Modules : Len(freqTable[m]) \in 1..(FREQ_TABLE_MAX_ENTRY_COUNT - 1)
    /\ boostCpuFreq \in Nat \ {0}
    /\ maxMemFreq \in {0, freqTable["MEM"][Len(freqTable["MEM"])]}

(* DVFS tables are sorted: the voltage of an entry bounds those below it.  *)
ASSUME SortedAssumption ==
    \A m \in Modules : \A i, j \in DOMAIN freqTable[m] :
        i < j => freqTable[m][i] <= freqTable[m][j]

MEM_CLOCK_MARIKO_MIN == 16000
MEM_CLOCK_DOCK       == 16000
-----------------------------------------------------------------------------
(* Clocks::GetNearestHzPtr: the first entry in [lo, hi) that is not below  *)
(* freq, hi itself when there is none.                                     *)
GetNearestHzPtr(m, lo, hi, freq) ==
    LET found == {i \in lo..(hi - 1) : freq <= freqTable[m][i]}
    IN  IF found = {} THEN hi
        ELSE CHOOSE i \in found : \A j \in found : i <= j

(* FreqRange::InitDefault: the last entry before the terminating zero.     *)
last(m) == Len(freqTable[m])

(* Clocks::UpdateFreqRange, first part: the lower end of a module's range. *)
min(m) == IF m = "MEM" /\ isMariko
          THEN GetNearestHzPtr(m, 1, last(m), MEM_CLOCK_MARIKO_MIN)
          ELSE 1

(* UpdateFreqRange, the cap tables.  A cap of last is no cap.              *)
CpuCap(profile, unsafe) ==
    IF unsafe
    THEN IF ~isMariko /\ profile = "Handheld" THEN 17850
         ELSE freqTable["CPU"][last("CPU")]
    ELSE IF isMariko THEN 19635 ELSE 17850

GpuSafeMax(profile) ==
    IF isMariko THEN 9984
    ELSE CASE profile \in {"Handheld", "HandheldCharging"} -> 4608
           [] profile = "HandheldChargingUSB" -> 7680
           [] OTHER -> 9216

GpuCap(profile, unsafe) ==
    IF ~unsafe THEN GpuSafeMax(profile)
    ELSE IF isMariko
         THEN IF profile = "Handheld" THEN 9984 ELSE freqTable["GPU"][last("GPU")]
         ELSE IF profile \in {"HandheldChargingOfficial", "Docked"}
              THEN freqTable["GPU"][last("GPU")]
              ELSE GpuSafeMax(profile)

(* UpdateFreqRange, last part: the upper end of a module's range.  The     *)
(* range a cap is looked up in is the whole table (InitDefault has just    *)
(* reset it), so std::min with last changes nothing.                       *)
max(m, profile, unsafe) ==
    [CPU |-> GetNearestHzPtr("CPU", 1, last("CPU"), CpuCap(profile, unsafe)),
     GPU |-> GetNearestHzPtr("GPU", 1, last("GPU"), GpuCap(profile, unsafe)),
     MEM |-> last("MEM")][m]

(* Clocks::GetRange fails, and the caller throws, on an empty range.       *)
RangeOK(m, profile, unsafe) == min(m) <= max(m, profile, unsafe)

(* Clocks::GetNearestHz *)
GetNearestHz(m, profile, hz, unsafe) ==
    freqTable[m][GetNearestHzPtr(m, min(m), max(m, profile, unsafe), hz)]

(* Clocks::GetTable: what the overlay offers for a module and a profile.   *)
GetTable(m, profile, unsafe) ==
    SubSeq(freqTable[m], min(m), max(m, profile, unsafe))

maxHz(m, profile, unsafe) == freqTable[m][max(m, profile, unsafe)]
-----------------------------------------------------------------------------
(* sysclk_g_apm_configurations: the clocks of each performance             *)
(* configuration of the system (apm).                                      *)
Apm(id, cpu_hz, gpu_hz, mem_hz) == [id |-> id, CPU |-> cpu_hz, GPU |-> gpu_hz, MEM |-> mem_hz]

sysclk_g_apm_configurations ==
    {Apm("00010000", 10200, 3840, 16000),
     Apm("00010001", 10200, 7680, 16000),
     Apm("00010002", 12240, 6912, 16000),
     Apm("00020000", 10200, 2304, 16000),
     Apm("00020001", 10200, 3072, 16000),
     Apm("00020002", 12240, 2304, 16000),
     Apm("00020003", 10200, 3070, 13312),
     Apm("00020004", 10200, 3840, 13312),
     Apm("00020005", 10200, 3072, 10656),
     Apm("00020006", 10200, 3840, 10656),
     Apm("92220007", 10200, 4608, 16000),
     Apm("92220008", 10200, 4608, 13312),
     Apm("92220009", 17850, 768, 16000),
     Apm("9222000A", 17850, 768, 13312),
     Apm("9222000B", 10200, 768, 16000),
     Apm("9222000C", 10200, 768, 13312)}

ApmConfigurations == {c.id : c \in sysclk_g_apm_configurations}

GetEmbeddedApmConfig(confId) ==
    CHOOSE c \in sysclk_g_apm_configurations : c.id = confId

(* apmExtIsCPUBoosted and apmExtIsBoostMode *)
IsCPUBoosted(conf) == conf \in {"92220009", "9222000A"}

IsBoostMode(conf) == conf \in {"92220009", "9222000A", "9222000B", "9222000C"}

(* Clocks::GetStockClock *)
GetStockClock(conf, m) ==
    IF m = "MEM" /\ isMariko THEN MEM_CLOCK_MARIKO_MIN ELSE GetEmbeddedApmConfig(conf)[m]

(* Clocks::GetCurrentProfile; the charger types are those of psm.          *)
ChargerTypes == {"Unconnected", "EnoughPower", "LowPower", "NotSupported"}

GetCurrentProfile(docked, charger) ==
    CASE docked -> "Docked"
      [] ~docked /\ charger = "EnoughPower" -> "HandheldChargingOfficial"
      [] ~docked /\ charger \in {"LowPower", "NotSupported"} -> "HandheldChargingUSB"
      [] ~docked /\ charger = "Unconnected" -> "Handheld"
=============================================================================
