----------------------------- MODULE Customize ------------------------------
(***************************************************************************)
(* The customisation the loader is built with or edited to                 *)
(* (loader/source/oc/customize.cpp), the stock tables of the firmware      *)
(* (pcv/pcv.hpp), the choices the patches make between tables, and the     *)
(* check of the values before anything is patched (SafetyCheck).           *)
(*                                                                         *)
(* A customisation c is a record with the fields of CustomizeTable.  A     *)
(* DVFS table is the sequence of its frequencies in kHz; the voltage       *)
(* coefficients of a row are named by the table they belong to.            *)
(***************************************************************************)
EXTENDS Integers, Sequences, Timings

CpuClkOSLimit == 1785000
EmcClkOSLimit == 1600000
CUST_REV      == 11

AUTO_ADJ_ALL   == 0
CUSTOM_ADJ_ALL == 1

(***************************************************************************)
(* The tables.  The CPU steps by 102 MHz up to 1428 MHz, the GPU by 76.8   *)
(* MHz.                                                                    *)
(***************************************************************************)
CpuSteps    == [i \in 1..13 |-> 102000 * (i + 1)] \o <<1581000, 1683000, 1785000>>
GpuSteps(n) == [i \in 1..n |-> 76800 * i]

MarikoCpuCvbTableDefault == CpuSteps \o <<1887000, 1963500>>
EristaCpuCvbTableDefault == CpuSteps
MarikoGpuCvbTableDefault == GpuSteps(16) \o <<1267200>>
EristaGpuCvbTableDefault == GpuSteps(12)

eristaCpuDvfsTable    == CpuSteps \o <<1887000, 1963500, 2091000>>
marikoCpuDvfsTable    == CpuSteps \o <<1887000, 1963500, 2091000, 2193000, 2295000>>
marikoCpuDvfsTableSLT == CpuSteps \o <<1887000, 1963500, 2091000, 2193000, 2295000, 2397000>>
eristaGpuDvfsTable      == GpuSteps(13)
marikoGpuDvfsTable      == GpuSteps(16) \o <<1267200>>
marikoGpuDvfsTableSLT   == GpuSteps(16) \o <<1267200>>
marikoGpuDvfsTableHiOPT == GpuSteps(16) \o <<1267200>>

EmcDvbTableDefault ==
    <<[freq |-> 204000,  volt |-> <<637, 637, 637>>],
      [freq |-> 408000,  volt |-> <<637, 637, 637>>],
      [freq |-> 800000,  volt |-> <<637, 637, 637>>],
      [freq |-> 1065600, volt |-> <<637, 637, 637>>],
      [freq |-> 1331200, volt |-> <<650, 637, 637>>],
      [freq |-> 1600000, volt |-> <<675, 650, 637>>]>>

CpuMinVolts(soc) ==
    IF soc = "Mariko" THEN {800, 637, 620, 610} ELSE {950, 850, 825, 810}

(* GetDvfsTableEntryCount and GetDvfsTableLastEntry of a table.            *)
GetDvfsTableEntryCount(table) == Len(table)
GetDvfsTableLastEntry(table)  == table[Len(table)]

(***************************************************************************)
(* What the patches of one console take from the customisation.            *)
(***************************************************************************)
CpuDefault(soc) == IF soc = "Mariko" THEN MarikoCpuCvbTableDefault ELSE EristaCpuCvbTableDefault
GpuDefault(soc) == IF soc = "Mariko" THEN MarikoGpuCvbTableDefault ELSE EristaGpuCvbTableDefault

\* The table a patch copies, and the name of its coefficients.
CpuCustomize(soc, c) ==
    CASE soc = "Erista"                     -> [freqs |-> eristaCpuDvfsTable, name |-> "stock"]
      [] soc = "Mariko" /\ c.marikoCpuUV = 0 -> [freqs |-> marikoCpuDvfsTable, name |-> "stock"]
      [] soc = "Mariko" /\ c.marikoCpuUV # 0 -> [freqs |-> marikoCpuDvfsTableSLT, name |-> "SLT"]

GpuCustomize(soc, c) ==
    CASE soc = "Erista"                     -> [freqs |-> eristaGpuDvfsTable, name |-> "stock"]
      [] soc = "Mariko" /\ c.marikoGpuUV = 1 -> [freqs |-> marikoGpuDvfsTableSLT, name |-> "SLT"]
      [] soc = "Mariko" /\ c.marikoGpuUV = 2 -> [freqs |-> marikoGpuDvfsTableHiOPT, name |-> "HiOPT"]
      [] soc = "Mariko" /\ c.marikoGpuUV \notin {1, 2} -> [freqs |-> marikoGpuDvfsTable, name |-> "stock"]

CpuMaxVolt(soc, c) == IF soc = "Mariko" THEN c.marikoCpuMaxVolt ELSE c.eristaCpuMaxVolt
EmcMaxClock(soc, c) == IF soc = "Mariko" THEN c.marikoEmcMaxClock ELSE c.eristaEmcMaxClock

(* The frequency from which CpuFreqCvbTable overrides a row's voltage.     *)
CpuFreqThreshold(soc, c) ==
    CASE soc = "Mariko" -> IF c.marikoCpuUV # 0 THEN 2193000 ELSE 2091000
      [] soc = "Erista" -> IF c.eristaCpuMaxVolt >= 1235 THEN 1887000 ELSE 1428000

(***************************************************************************)
(* The rounding of the two memory voltages to a step of their regulator:   *)
(* MemVoltHandler rounds down, EmcVddqVolt rounds up.                      *)
(***************************************************************************)
MemVoltStep == 12500
VddqStep    == 5000
AnyMemVolt(uv)      == uv                      \* mutant: the regulator's step forgotten
RoundedMemVolt(uv) == (uv \div MemVoltStep) * MemVoltStep
RoundedVddq(uv)    == ((uv + VddqStep - 1) \div VddqStep) * VddqStep

(***************************************************************************)
(* SafetyCheck.  0 stands for "leave as it is" except for the boost clock. *)
(***************************************************************************)
Between(value, low, high) == value \in low..high
InRange(value, low, high) == value = 0 \/ Between(value, low, high)

ClocksInRange(cpu, gpu) == InRange(cpu, 1785000, 3000000) /\ InRange(gpu, 768000, 1536000)
TablesInRange(soc, c) ==
    ClocksInRange(GetDvfsTableLastEntry(CpuCustomize(soc, c).freqs),
                  GetDvfsTableLastEntry(GpuCustomize(soc, c).freqs))

SafetyCheckPasses(c) ==
    /\ c.custRev = CUST_REV
    /\ c.commonCpuBoostClock # 0 /\ InRange(c.commonCpuBoostClock, 1020000, 3000000)
    /\ InRange(c.commonEmcMemVolt, 1100000, 1250000)
    /\ InRange(c.eristaCpuMaxVolt, 1100, 1300)
    /\ InRange(c.eristaEmcMaxClock, 1600000, 2131200)
    /\ InRange(c.marikoCpuMaxVolt, 1100, 1300)
    /\ InRange(c.marikoEmcMaxClock, 1600000, 2800000)
    /\ InRange(c.marikoEmcVddqVolt, 550000, 650000)
    /\ \A soc \in Socs : TablesInRange(soc, c)

(***************************************************************************)
(* The type CustomizeTable: every field is a u32; a GPU voltage offset is  *)
(* subtracted as a signed number.  A preset beyond the last of its list    *)
(* would index past the array of values, and is left out.                  *)
(***************************************************************************)
CustomizeTable ==
    [custRev : Nat, mtcConf : Nat, commonCpuBoostClock : Nat, commonEmcMemVolt : Nat,
     eristaCpuMaxVolt : Nat, eristaEmcMaxClock : Nat,
     marikoCpuMaxVolt : Nat, marikoEmcMaxClock : Nat,
     marikoEmcVddqVolt : Nat, marikoCpuUV : Nat, marikoGpuUV : Nat,
     commonGpuVoltOffset : Nat, marikoEmcDvbShift : Nat,
     ramTimingPresets : Presets, marikoGpuVoltArray : [1..17 -> Nat]]

(***************************************************************************)
(* The customisation the loader ships with.                                *)
(***************************************************************************)
Shipped ==
    [custRev |-> CUST_REV, mtcConf |-> AUTO_ADJ_ALL,
     commonCpuBoostClock |-> 1785000, commonEmcMemVolt |-> 0,
     eristaCpuMaxVolt |-> 1235, eristaEmcMaxClock |-> 1862400,
     marikoCpuMaxVolt |-> 1235, marikoEmcMaxClock |-> 1996800,
     marikoEmcVddqVolt |-> 0, marikoCpuUV |-> 0, marikoGpuUV |-> 0,
     commonGpuVoltOffset |-> 0, marikoEmcDvbShift |-> 0,
     ramTimingPresets |-> NoPreset,
     marikoGpuVoltArray |-> [i \in 1..10 |-> 610] \o <<620, 640, 675, 710, 735, 785, 815>>]
=============================================================================
