------------------------------- MODULE MCBoot -------------------------------
(***************************************************************************)
(* Images of the modules for TLC.  An image is put together from the     *)
(* structures the patcher looks for, each with room behind it as the       *)
(* driver's tables have it, and from words that look like one of them and  *)
(* are not.                                                                *)
(***************************************************************************)
EXTENDS Boot, DriverImages, SequencesExt

Zeros(n) == [i \in 1..n |-> 0]
Rows(n, Row(_)) == FlattenSeq([i \in 1..n |-> Row(i)])

CpuPart(s) ==
    LET t == CpuDefault(s)
    IN  Rows(Len(t), LAMBDA i : CpuRow(s, t[i], "stock")) \o Zeros(20)
GpuPart(s) ==
    LET t == GpuDefault(s)
    IN  Rows(Len(t), LAMBDA i : GpuRow(t[i], "stock")) \o Zeros(8)
DvbPart == Rows(6, LAMBDA i : DvbRow(EmcDvbTableDefault[i])) \o Zeros(8)

(* The tables of a module ascend in the image; rate, divm and divn follow  *)
(* the revision.                                                           *)
MtcPart(s) == Rows(Len(KhzList(s)), LAMBDA i :
    <<MTC_TABLE_REV(s), Reverse(KhzList(s))[i], 1, i>>)

AsmPart == <<asm_pattern[1] + 5, asm_pattern[2] + 5>>
OtherAsm == <<asm_pattern[1] + 5, asm_pattern[2] + 6>>
VddPart  == <<1, CpuClkOSLimit, 250000, 5000, 1525000>>
DfllPart == <<65487, 0, 19007487, 67106815>>
VoltPart(s) == IF s = "Mariko" THEN <<620, 1120, 1, 2, 620, 1120, 7, 800, 1120>>
                               ELSE <<950, 1227, 850, 1170, 810, 1132>>
PllmPart(s) == <<EmcClkPllmLimit(s), 7, EmcClkPllmLimit(s)>>
VddqPart == <<2, 3, 8, VddqStep, 8, 250000, 650000, 8, 600000>>
VddMemPart(s) == <<1, 1, 23, MemVoltStep, 600000>> \o
    (IF s = "Mariko" THEN <<1100000, 1100000>> ELSE <<1125000, 1125000>>)

(* Words that resemble a structure: a limit away from the timing tables, a *)
(* lone maximum voltage, instructions on two registers.                    *)
Decoys(s) == OtherAsm \o <<3, 1120, 3, 1227, 1100000, 1125000, CpuClkOSLimit,
    GetDvfsTableLastEntry(CpuDefault(s)), GetDvfsTableLastEntry(GpuDefault(s)), 600000,
    65487, 9216000, 1>>

Common(s) == PllmPart(s) \o VddMemPart(s) \o VoltPart(s) \o AsmPart
Unit(s) == IF s = "Mariko"
    THEN Common(s) \o VddPart \o DfllPart \o VddqPart \o DvbPart \o <<EmcClkOSLimit>>
    ELSE Common(s) \o <<9216000, 0, 0>> \o <<EmcClkOSLimit>>

(* A register of the firmware is not below zero, as it may come out for    *)
(* the lowest rates.                                                       *)
Stock(s, khz) ==
    LET clk == khz \div 100
        own == [dyn_self_ref |-> clk \div 2, ptsa_rate |-> 208, ptsa_grant |-> 4611]
        timings == IF s = "Mariko" THEN Over(own, MarikoOnly(clk, AllPresets(s, clk, NoPreset)))
                   ELSE Registers(s, AllPresets(s, clk, NoPreset))
    IN  [r \in DOMAIN timings |-> IF timings[r] < 0 THEN 0 ELSE timings[r]]

Nso(s, w) ==
    [soc |-> s, word |-> w \o Zeros(MtcSize),
     regs |-> [a \in {b \in DOMAIN w : IsTimingTable(s, w, b)} |-> Stock(s, w[a])]]

(* A firmware, one laid out the other way round with two memory modules,   *)
(* and one with a second voltage rail, which no customisation boots.       *)
Firmware(s)  == Nso(s, CpuPart(s) \o Decoys(s) \o GpuPart(s) \o MtcPart(s) \o Unit(s))
Firmware2(s) == Nso(s, Unit(s) \o MtcPart(s) \o MtcPart(s) \o GpuPart(s) \o Decoys(s) \o CpuPart(s))
Odd          == Nso("Mariko", VddPart \o VddPart)

AllNsos == UNION {{Firmware(s), Firmware2(s)} : s \in Socs} \cup {Odd}

(* All of them are laid out as the theorems about the scan ask.            *)
ASSUME ImagesAreLaidOut == \A n \in AllNsos : DriverImage(n)

(***************************************************************************)
(* Customisations.                                                         *)
(***************************************************************************)
Fast(k) == [i \in 1..7 |-> Least(k, PresetSizes[i])]

Hot == [Shipped EXCEPT !.commonEmcMemVolt = 1187499, !.marikoEmcVddqVolt = 612001,
            !.marikoEmcMaxClock = 2502400, !.eristaEmcMaxClock = 2131200,
            !.marikoCpuUV = 1, !.marikoGpuUV = 3, !.marikoEmcDvbShift = 9,
            !.marikoCpuMaxVolt = 1120, !.eristaCpuMaxVolt = 1132,
            !.ramTimingPresets = Fast(6)]
Tuned == [Shipped EXCEPT !.mtcConf = CUSTOM_ADJ_ALL, !.marikoEmcMaxClock = 1689600,
            !.eristaEmcMaxClock = 1689600, !.marikoCpuUV = 2, !.marikoGpuUV = 1,
            !.commonEmcMemVolt = 1250000, !.marikoEmcVddqVolt = 650000,
            !.commonGpuVoltOffset = 50, !.eristaCpuMaxVolt = 1300, !.marikoCpuMaxVolt = 1100,
            !.ramTimingPresets = Fast(3)]
Loose == [Shipped EXCEPT !.mtcConf = 2, !.marikoEmcMaxClock = 1600000,
            !.eristaEmcMaxClock = 0, !.marikoGpuUV = 2, !.marikoCpuMaxVolt = 0,
            !.eristaCpuMaxVolt = 0, !.commonEmcMemVolt = 1100000, !.marikoEmcVddqVolt = 550001]
Highest == [Shipped EXCEPT !.marikoEmcMaxClock = 2800000, !.eristaEmcMaxClock = 2131200,
            !.marikoCpuUV = 1, !.mtcConf = 1, !.commonEmcMemVolt = 1249999]
Wrong == {[Shipped EXCEPT !.marikoEmcMaxClock = 2900000], [Shipped EXCEPT !.custRev = 10],
          [Shipped EXCEPT !.commonCpuBoostClock = 0]}

AllCustoms == {Shipped, Hot, Tuned, Loose, Highest} \cup Wrong

ASSUME CustomsAreNoLimits == \A c \in AllCustoms : GpuVoltsNoLimit(c)

(***************************************************************************)
(* Tables of configurations, four long, behind words that look like one.   *)
(***************************************************************************)
Conf(cpu, emc) == <<7, cpu, cpu, 307200, 307200, emc, emc, 0>>
Begin == <<0, 1020000, 1020000, 5, 4>>
PtmFirmware == Begin \o Conf(1020000, 1600000) \o Conf(1224000, 1331200)
                     \o Conf(1785000, 1065600) \o Conf(1785000, 1331200)
PtmUnpaired == Conf(1020000, 1600000) \o <<7, 1020000, 1020000, 1, 2, 1600000, 1600000, 0>>
                     \o Zeros(2 * EntrySize)
PtmBoosts   == Conf(1020000, 1331200) \o Conf(1785000, 1600000) \o Conf(1785000, 1600000)
                     \o Conf(1785000, 1600000)
AllPtmImages == {PtmFirmware, PtmUnpaired, PtmBoosts, Zeros(40)}

(***************************************************************************)
(* SD cards.  The values of a KIP the sysmodule accepts are those the      *)
(* loader runs with but for their revision, or another set.                *)
(***************************************************************************)
Older(c) == [c EXCEPT !.custRev = SysCustRev]
File(size, offset, c) ==
    [regular |-> TRUE, opens |-> TRUE, kip |-> TRUE, magic |-> TRUE,
     size |-> size, offset |-> offset, cust |-> c]

Kip(c) == File(98304, 65540, c)
\* Found at its very end, cut inside the tables, and marked in the last block only.
Tight(c)   == File(24576, 24576 - CustTableSize, c)
Cut(c)     == File(28672, 20480, c)
LateMark(c) == File(8192, 4200, c)
NotKips == <<[Kip(Shipped) EXCEPT !.regular = FALSE], [Kip(Shipped) EXCEPT !.opens = FALSE],
             [Kip(Shipped) EXCEPT !.kip = FALSE], [Kip(Shipped) EXCEPT !.magic = FALSE],
             [Kip(Shipped) EXCEPT !.size = 600000], File(4096, 0, Shipped), Kip(Shipped)>>

CardOf(c) == {<<NotKips, <<>>, <<Kip(Older(c)), Kip(Older(Loose))>>, <<>>>>,
              <<<<LateMark(Older(c))>>, <<Cut(Older(c))>>, <<>>, <<Kip(Older(Hot))>>>>,
              <<<<>>, <<>>, <<>>, <<Tight(Older(c))>>>>}
NoKips == <<NotKips, <<LateMark(Older(Shipped))>>, <<>>, <<>>>>
AllCards == UNION {CardOf(c) : c \in {Shipped, Hot, Tuned, Loose}} \cup {NoKips}
=============================================================================
