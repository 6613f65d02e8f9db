-------------------------------- MODULE Boot --------------------------------
(***************************************************************************)
(* A start of the console: the loader patches the clock driver and ptm,    *)
(* then the sysmodule starts and reads a loader's KIP from the SD card.    *)
(* The two decide on their own which tables the customisation selects, one *)
(* for the driver and one for the requests made to it.                     *)
(***************************************************************************)
EXTENDS Loader, CustParser

bootVars == <<loaderVars, cpVars>>

BootInit == LoaderInit /\ CpInit /\ isMariko = (soc = "Mariko")

Patching == LoaderNext /\ UNCHANGED cpVars
Starting ==
    /\ ptm = "accepted"
    /\ CpNext
    /\ UNCHANGED loaderVars

BootNext == Patching \/ Starting
BootSpec == BootInit /\ [][BootNext]_bootVars

-----------------------------------------------------------------------------
(* Type invariant of all three.                                            *)
BootTypeOK ==
    /\ LoaderTypeOK
    /\ sysmodule # "off" => card \in Cards
    /\ isMariko = (soc = "Mariko")
    /\ dir \in 1..(Len(Dirs) + 1) /\ pos \in Nat \ {0}
    /\ sysmodule \in {"off", "search", "ready", "exited"}
    /\ boostCpuFreq \in Nat /\ maxMemFreq \in Nat
    /\ DOMAIN freqTable = {"CPU", "GPU", "MEM"} /\ DOMAIN rails = {"VDDQ", "VDD2"}

(* Whatever was chosen, rounding included, a voltage of the memory (Vdd2,  *)
(* Vddq) that the loader writes is a multiple of its regulator's step and  *)
(* within the limits of SafetyCheck; and a rail of the memory the sysmodule*)
(* sets is within them and not above the choice.                           *)
VoltagesSafe ==
    /\ status = "accepted" =>
        /\ \A a \in patched["MemVolt"] : word[a] # nso.word[a] =>
              Between(word[a], 1100000, 1250000) /\ word[a] % MemVoltStep = 0
        /\ \A a \in patched["Vddq"] : word[a] # nso.word[a] =>
              Between(word[a], 550000, 650000) /\ word[a] % VddqStep = 0
    /\ rails["VDDQ"] # 0 => Between(rails["VDDQ"], 550000, kip.cust.marikoEmcVddqVolt)
    /\ rails["VDD2"] # 0 => Between(rails["VDD2"], 1100000, kip.cust.commonEmcMemVolt)

(* The frequencies of the table that starts at a.                          *)
DriverFreqs(a) == [i \in 1..TableLen(word, a) |-> At(word, a + RowSize * (i - 1))]

(* When the KIP on the card holds the values the loader runs with (older   *)
(* by its revision, the only one the sysmodule takes), what the sysmodule  *)
(* offers is what the driver has: the same CPU and GPU frequencies, the    *)
(* same highest memory rate, the same boost clock.                         *)
ClocksMatchDriver ==
    sysmodule = "ready" /\ Whole(kip) /\ [kip.cust EXCEPT !.custRev = CUST_REV] = cust =>
        /\ \A a \in patched["CpuTable"] :
            Prefix(freqTable["CPU"]) =
                AtLeast(DriverFreqs(HeadOf("CpuTable", a)), 408000)
        /\ \A a \in patched["GpuTable"] :
            Prefix(freqTable["GPU"]) = DriverFreqs(HeadOf("GpuTable", a))
        /\ \A a \in patched["Mtc"] : Overclocked(soc, cust) => maxMemFreq = MtcRates(word, a)[1]
        /\ \A i \in 0..(entryCnt - 1) :
            image[EntryAt(table, i) + 1] = cpuPtmBoost =>
                conf[EntryAt(table, i) + 1] = boostCpuFreq
=============================================================================
