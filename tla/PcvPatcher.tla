----------------------------- MODULE PcvPatcher -----------------------------
(***************************************************************************)
(* The loader patching the clock driver of the firmware while it loads it: *)
(* loader/source/oc/pcv/pcv.cpp, pcv_mariko.cpp, pcv_erista.cpp, pcv.hpp   *)
(* and the PatcherEntry of oc_common.hpp.                                  *)
(*                                                                         *)
(* The patcher walks the image of the driver word by word and applies, at  *)
(* each word, the first patch whose pattern and whose validation hold.     *)
(* Patches write behind and ahead of the word they are found at, so one    *)
(* may write what another looks for.                                       *)
(*                                                                         *)
(* The image is a sequence of words.  The structures in it keep the fields *)
(* the code reads or writes, in their order, and drop the padding between  *)
(* them; the frequencies of a PLL are in units of 100 Hz.  The registers   *)
(* of a memory timing table are kept beside the image, at the address of   *)
(* the table's rate.                                                       *)
(***************************************************************************)
EXTENDS Customize, FiniteSets

CONSTANTS
    Nsos,       \* images the loader may meet: [soc, word, regs]
    Customs     \* customisations the loader may carry

VARIABLES
    nso,        \* the image as it was loaded
    cust,       \* C
    word,       \* the image
    regs,       \* the registers of the memory timing tables in it
    ptr,        \* the word the patcher looks at
    patched,    \* per patch, the addresses counted by patched_count
    status      \* "check", "scan", "accepted" or "crash"

pcvVars == <<nso, cust, word, regs, ptr, patched, status>>

soc == nso.soc

(***************************************************************************)
(* Layout of the structures, in words.                                     *)
(*   dvfs_rail             id freq min step max                            *)
(*   cvb_entry_t           freq dfll.c0 pll.c0 pll.c1..c5                  *)
(*   emc_dvb_dvfs_table_t  freq volt volt volt                             *)
(*   clk_pll_param         freq the-rest vco_max                           *)
(*   regulator, type 1     id type volt_reg step min default max . .       *)
(*   regulator, type 3     id type . step . min max . default              *)
(*   memory timing table   rev rate divm divn                              *)
(***************************************************************************)
RowSize == 4
MtcSize == 4

At(w, a) == IF a \in DOMAIN w THEN w[a] ELSE 0
Holds(w, a, words) == \A i \in 1..Len(words) : At(w, a + i - 1) = words[i]

(* The rates of the timing tables of one memory module, from the highest,  *)
(* and the revision each table begins with.                                *)
KhzList(s) ==
    IF s = "Mariko"
    THEN <<1600000, 1331200, 204000>>
    ELSE <<1600000, 1331200, 1065600, 800000, 665600, 408000, 204000, 102000, 68000, 40800>>
MTC_TABLE_REV(s) == IF s = "Mariko" THEN 3 ELSE 7

IsTimingTable(s, w, a) ==
    /\ \E i \in 1..Len(KhzList(s)) : At(w, a) = KhzList(s)[i]
    /\ At(w, a - 1) = MTC_TABLE_REV(s)

(* What an image is, whatever firmware it comes from, and what a           *)
(* customisation is, whatever was typed into it.                           *)
ASSUME NsosAssumption ==
    \A n \in Nsos :
        /\ n.soc \in Socs
        /\ n.word \in Seq(Int) /\ Len(n.word) > MtcSize
        /\ DOMAIN n.regs \subseteq DOMAIN n.word
        /\ \A a \in DOMAIN n.regs : FirmwareTimings(n.soc, n.regs[a])
        /\ \A a \in DOMAIN n.word : IsTimingTable(n.soc, n.word, a) => a \in DOMAIN n.regs

ASSUME CustomsAssumption == Customs \subseteq CustomizeTable

\* The coefficients of a row, one number for each table they come from.
Coefficients(name) == CASE name = "stock" -> 51 [] name = "SLT" -> 52 [] name = "HiOPT" -> 53

CpuRow(s, freq, name) ==
    LET first1235 == IF name = "SLT" THEN 2193000 ELSE 2091000 IN
    <<freq, Coefficients(name),
      CASE freq < 1020000                          -> 0
        [] s = "Erista" /\ freq >= 1020000         -> Coefficients(name)
        [] s = "Mariko" /\ freq >= 1020000 /\ freq < first1235 -> 1120000
        [] s = "Mariko" /\ freq >= first1235       -> 1235000,
      0>>
GpuRow(freq, name) == <<freq, 0, Coefficients(name), Coefficients(name)>>
DvbRow(e) == <<e.freq>> \o e.volt

\* The table of these rows ends with the row at a.
TableHead(a, n) == a - RowSize * (n - 1)
TableEndsAt(w, a, rows) ==
    \A i \in 1..Len(rows) : Holds(w, TableHead(a, Len(rows)) + RowSize * (i - 1), rows[i])

(***************************************************************************)
(* The instructions that load the highest GPU clock: MOV Rd, #imm and      *)
(* MOVK Rd, #imm, LSL #16 (asm_pattern and the helpers after it).          *)
(***************************************************************************)
asm_pattern == <<1384251392, 1923088832>>
asm_compare_no_rd(x, y) == x \div 32 = y \div 32
asm_get_rd(x)           == x % 32
asm_imm16(x)            == (x \div 32) % 65536
asm_set(x, imm, rd)     == x + 32 * (imm - asm_imm16(x)) + (rd - asm_get_rd(x))

(***************************************************************************)
(* The patches of one console, in the order they are tried, with the       *)
(* number of times each may be applied (0: any number).                    *)
(***************************************************************************)
PatchesOf(s) ==
    IF s = "Mariko"
    THEN <<"CpuVdd", "CpuTable", "CpuVolt", "CpuDfll", "GpuTable", "GpuAsm",
           "Mtc", "Dvb", "Max", "Pllm", "Vddq", "MemVolt">>
    ELSE <<"CpuTable", "CpuVolt", "GpuTable", "GpuAsm", "GpuPll",
           "Mtc", "Max", "Pllm", "MemVolt">>

Patches == {"CpuVdd", "CpuTable", "CpuVolt", "CpuDfll", "GpuTable", "GpuAsm", "GpuPll",
            "Mtc", "Dvb", "Max", "Pllm", "Vddq", "MemVolt"}

MaximumPatchedCount(s, p) ==
    CASE p \in {"CpuVdd", "CpuTable", "CpuDfll", "GpuTable", "GpuPll", "Dvb"} -> 1
      [] p \in {"GpuAsm", "Pllm", "Vddq", "MemVolt"} -> 2
      [] p = "CpuVolt" -> IF s = "Mariko" THEN 13 ELSE 0
      [] p \in {"Mtc", "Max"} -> 0

EmcClkPllmLimit(s) == IF s = "Mariko" THEN 21330000 ELSE 18660000

(* pattern_search_fn, or the comparison with value_search.                 *)
Matches(s, w, p, a) ==
    CASE p = "CpuVdd"   -> At(w, a) = CpuClkOSLimit
      [] p = "CpuTable" -> At(w, a) = GetDvfsTableLastEntry(CpuDefault(s))
      [] p = "CpuVolt"  -> At(w, a) \in (IF s = "Mariko" THEN {1120} ELSE {1132, 1170, 1227})
      [] p = "CpuDfll"  -> At(w, a) = 65487
      [] p = "GpuTable" -> At(w, a) = GetDvfsTableLastEntry(GpuDefault(s))
      [] p = "GpuAsm"   -> asm_compare_no_rd(At(w, a), asm_pattern[1])
      [] p = "GpuPll"   -> At(w, a) = 9216000
      [] p \in {"Mtc", "Dvb", "Max"} -> At(w, a) = EmcClkOSLimit
      [] p = "Pllm"     -> At(w, a) = EmcClkPllmLimit(s)
      [] p = "Vddq"     -> At(w, a) = 600000
      [] p = "MemVolt"  -> At(w, a) = (IF s = "Mariko" THEN 1100000 ELSE 1125000)

(* table_list[i], by the address of its rate.                              *)
MtcTable(a, i) == a - MtcSize * (i - 1)

Type1Regulator(w, base) == Holds(w, base, <<1, 1, 23, MemVoltStep, 600000>>)

(* What a patch checks before it writes.                                   *)
Valid(s, w, p, a) ==
    CASE p = "CpuVdd"   -> At(w, a - 1) = 1 /\ Holds(w, a + 1, <<250000, 5000, 1525000>>)
      [] p = "CpuTable" ->
            LET t == CpuDefault(s)
            IN  TableEndsAt(w, a, [i \in DOMAIN t |-> CpuRow(s, t[i], "stock")])
      [] p = "CpuVolt"  -> At(w, a - 1) \in CpuMinVolts(s)
      [] p = "CpuDfll"  -> Holds(w, a, <<65487, 0, 19007487, 67106815>>)
      [] p = "GpuTable" ->
            LET t == GpuDefault(s)
            IN  TableEndsAt(w, a, [i \in DOMAIN t |-> GpuRow(t[i], "stock")])
      [] p = "GpuAsm"   -> /\ asm_compare_no_rd(At(w, a + 1), asm_pattern[2])
                           /\ asm_get_rd(At(w, a)) = asm_get_rd(At(w, a + 1))
      [] p = "GpuPll"   -> Holds(w, a + 1, <<0, 0>>)
      [] p = "Mtc"      -> \A i \in 1..Len(KhzList(s)) :
                              /\ At(w, MtcTable(a, i)) = KhzList(s)[i]
                              /\ At(w, MtcTable(a, i) - 1) = MTC_TABLE_REV(s)
      [] p = "Dvb"      -> TableEndsAt(w, a, [i \in 1..6 |-> DvbRow(EmcDvbTableDefault[i])])
      [] p = "Max"      -> TRUE
      [] p = "Pllm"     -> At(w, a) = At(w, a + 2)
      [] p = "Vddq"     -> /\ Holds(w, a - 8, <<2, 3>>)
                           /\ At(w, a - 5) = VddqStep /\ At(w, a - 3) = 250000
      [] p = "MemVolt"  -> Type1Regulator(w, a - 5) \/ Type1Regulator(w, a - 6)

(***************************************************************************)
(* What the patches write, as a function on the addresses they write.      *)
(***************************************************************************)
Put(a, words) == [b \in a..(a + Len(words) - 1) |-> words[b - a + 1]]
PutTable(head, rows) ==
    [b \in head..(head + RowSize * Len(rows) - 1) |->
        rows[1 + (b - head) \div RowSize][1 + ((b - head) % RowSize)]]
Nothing == [b \in {} |-> 0]

CpuFreqCvbTable(s, c, a) ==
    LET t == CpuCustomize(s, c)
        volt == CpuMaxVolt(s, c) * 1000
        NewRow(i) ==
            LET row == CpuRow(s, t.freqs[i], t.name) IN
            CASE volt = 0 \/ t.freqs[i] < CpuFreqThreshold(s, c) -> row
              [] volt # 0 /\ t.freqs[i] >= CpuFreqThreshold(s, c) ->
                    IF s = "Mariko" THEN [row EXCEPT ![3] = volt] ELSE [row EXCEPT ![2] = volt]
    IN  PutTable(TableHead(a, Len(CpuDefault(s))),
                 [i \in 1..GetDvfsTableEntryCount(t.freqs) |-> NewRow(i)])

GpuFreqCvbTable(s, c, a) ==
    LET t == GpuCustomize(s, c)
        static == s = "Mariko" /\ c.marikoGpuUV = 3
        NewRow(i) ==
            LET row == GpuRow(t.freqs[i], t.name) IN
            IF static THEN [row EXCEPT ![3] = c.marikoGpuVoltArray[i] * 1000, ![4] = 0]
            ELSE [row EXCEPT ![3] = @ - c.commonGpuVoltOffset * 1000]
    IN  PutTable(TableHead(a, Len(GpuDefault(s))),
                 [i \in 1..GetDvfsTableEntryCount(t.freqs) |-> NewRow(i)])

CpuVoltRange(s, c, w, a) ==
    LET SltMin(b) == IF At(w, b) = 620 THEN Put(b, <<600>>) ELSE Nothing IN
    CASE CpuMaxVolt(s, c) = 0 -> Nothing
      [] CpuMaxVolt(s, c) # 0 ->
            Over(Put(a, <<CpuMaxVolt(s, c)>>),
                 IF s = "Mariko" /\ c.marikoCpuUV # 0
                 THEN Over(SltMin(a - 5), SltMin(a - 1)) ELSE Nothing)

CpuVoltDfll(c, w, a) ==
    CASE c.marikoCpuUV = 0 -> Nothing
      [] c.marikoCpuUV # 0 ->
            Put(a, <<CASE c.marikoCpuUV = 1 -> 65424
                       [] c.marikoCpuUV = 2 -> 65440
                       [] c.marikoCpuUV \notin {1, 2} -> At(w, a),
                     65535, 34670591, 0>>)

\* Mutant: the instructions load the highest clock of the stock table.
StockMaxAsm(s, c, w, a) ==
    LET max_clock == GetDvfsTableLastEntry(GpuDefault(s))
        rd        == asm_get_rd(At(w, a))
    IN  Put(a, <<asm_set(asm_pattern[1], max_clock % 65536, rd),
                 asm_set(asm_pattern[2], max_clock \div 65536, rd)>>)

GpuFreqMaxAsm(s, c, w, a) ==
    LET max_clock == GetDvfsTableLastEntry(GpuCustomize(s, c).freqs)
        rd        == asm_get_rd(At(w, a))
    IN  Put(a, <<asm_set(asm_pattern[1], max_clock % 65536, rd),
                 asm_set(asm_pattern[2], max_clock \div 65536, rd)>>)

Overclocked(s, c) == EmcMaxClock(s, c) > EmcClkOSLimit

(* MemFreqMtcTable.  Mariko keeps the 1600 MHz table in the place of the   *)
(* 1331.2 MHz one; Erista moves every table one place down and loses the   *)
(* lowest.                                                                 *)
MtcSources(s) == IF s = "Mariko" THEN {2} ELSE 2..Len(KhzList(s))

MemFreqMtcTable(s, c, w, a) ==
    LET d == Pllmb(EmcMaxClock(s, c))
        Moved == [b \in UNION {(MtcTable(a, i) - 1)..(MtcTable(a, i) + 2) : i \in MtcSources(s)}
                    |-> At(w, b + MtcSize)]
        Top == IF s = "Mariko" THEN <<EmcMaxClock(s, c), d.divm, d.divn>>
                               ELSE <<EmcMaxClock(s, c)>>
    IN  IF Overclocked(s, c) THEN Over(Put(a, Top), Moved) ELSE Nothing

(* The registers of the table for the highest rate, with ref those of the  *)
(* table below it: MemMtcTableAutoAdjust, and on Mariko                    *)
(* MemMtcTableCustomAdjust, which Erista does not call.                    *)
AdjustedRegs(s, c, ref, old) ==
    LET clk == EmcMaxClock(s, c) \div 100 IN
    CASE c.mtcConf = AUTO_ADJ_ALL -> AutoAdjusted(s, clk, c.ramTimingPresets, ref, old)
      [] c.mtcConf = CUSTOM_ADJ_ALL /\ s = "Mariko" ->
            CustomAdjusted(s, clk, c.ramTimingPresets, old)
      [] c.mtcConf \notin {AUTO_ADJ_ALL, CUSTOM_ADJ_ALL}
            \/ (c.mtcConf = CUSTOM_ADJ_ALL /\ s = "Erista") -> old

\* Mutant: the table is adjusted before it is copied.
AdjustThenMove(s, c, r, p, a) ==
    IF p # "Mtc" \/ ~Overclocked(s, c) THEN r
    ELSE LET adjusted == [r EXCEPT ![a] = AdjustedRegs(s, c, r[MtcTable(a, 2)], r[a])] IN
         [b \in DOMAIN r |-> IF \E i \in MtcSources(s) : b = MtcTable(a, i)
                             THEN adjusted[b + MtcSize] ELSE adjusted[b]]

NewRegs(s, c, r, p, a) ==
    IF p # "Mtc" \/ ~Overclocked(s, c) THEN r
    ELSE [b \in DOMAIN r |->
            IF b = a THEN AdjustedRegs(s, c, r[MtcTable(a, 2)], r[a])
            ELSE IF \E i \in MtcSources(s) : b = MtcTable(a, i) THEN r[b + MtcSize]
            ELSE r[b]]

(* MemFreqDvbTable: a row for the new rate after the last one.             *)
DvbVolt(c, zero, one, two) ==
    LET voltAdd == 25 * c.marikoEmcDvbShift IN
    <<Least(zero + voltAdd, 1050), Least(one + voltAdd, 1025), Least(two + voltAdd, 1000)>>

NewDvbVolts(c) ==
    LET clk == c.marikoEmcMaxClock IN
    CASE clk < 1862400                  -> <<675, 650, 637>>
      [] Between(clk, 1862400, 2131199) -> <<700, 675, 650>>
      [] Between(clk, 2131200, 2399999) -> <<725, 700, 675>>
      [] Between(clk, 2400000, 2665599) -> DvbVolt(c, 750, 725, 700)
      [] Between(clk, 2665600, 2931199) -> DvbVolt(c, 775, 750, 725)
      [] Between(clk, 2931200, 3199999) -> DvbVolt(c, 800, 775, 750)
      [] clk >= 3200000                 -> DvbVolt(c, 800, 800, 775)

\* Mutant: the row is copied and only its voltages are replaced.
DvbRowCopied(c, a) ==
    IF Overclocked("Mariko", c)
    THEN Put(a + RowSize, <<EmcClkOSLimit>> \o NewDvbVolts(c)) ELSE Nothing

MemFreqDvbTable(c, a) ==
    IF Overclocked("Mariko", c)
    THEN Put(a + RowSize, <<c.marikoEmcMaxClock>> \o NewDvbVolts(c)) ELSE Nothing

MemFreqMax(s, c, a) ==
    IF Overclocked(s, c) THEN Put(a, <<EmcMaxClock(s, c)>>) ELSE Nothing

MemVoltHandler(c, a) ==
    IF c.commonEmcMemVolt # 0 THEN Put(a, <<RoundedMemVolt(c.commonEmcMemVolt)>>) ELSE Nothing

EmcVddqVolt(c, a) ==
    IF c.marikoEmcVddqVolt # 0 THEN Put(a, <<RoundedVddq(c.marikoEmcVddqVolt)>>) ELSE Nothing

Writes(s, c, w, p, a) ==
    CASE p = "CpuVdd"   -> Put(a, <<GetDvfsTableLastEntry(CpuCustomize(s, c).freqs)>>)
      [] p = "CpuTable" -> CpuFreqCvbTable(s, c, a)
      [] p = "CpuVolt"  -> CpuVoltRange(s, c, w, a)
      [] p = "CpuDfll"  -> CpuVoltDfll(c, w, a)
      [] p = "GpuTable" -> GpuFreqCvbTable(s, c, a)
      [] p = "GpuAsm"   -> GpuFreqMaxAsm(s, c, w, a)
      [] p = "GpuPll"   -> Put(a, <<2 * At(w, a)>>)
      [] p = "Mtc"      -> MemFreqMtcTable(s, c, w, a)
      [] p = "Dvb"      -> MemFreqDvbTable(c, a)
      [] p = "Max"      -> MemFreqMax(s, c, a)
      [] p = "Pllm"     -> Over(Put(a, <<2 * At(w, a)>>), Put(a + 2, <<2 * At(w, a)>>))
      [] p = "Vddq"     -> EmcVddqVolt(c, a)
      [] p = "MemVolt"  -> MemVoltHandler(c, a)

(***************************************************************************)
(* The scan.                                                               *)
(***************************************************************************)
(* The patch SearchAndApply succeeds with at a, none if there is none.     *)
Found(s, w, a) ==
    LET ok == {k \in 1..Len(PatchesOf(s)) :
                  Matches(s, w, PatchesOf(s)[k], a) /\ Valid(s, w, PatchesOf(s)[k], a)}
    IN  IF ok = {} THEN "none"
        ELSE PatchesOf(s)[CHOOSE k \in ok : \A j \in ok : k <= j]

\* The last word a timing table fits behind.
ScanEnd(n) == Len(n.word) - MtcSize + 1

PcvInit ==
    /\ nso \in Nsos
    /\ cust \in Customs
    /\ word = nso.word
    /\ regs = nso.regs
    /\ ptr = 1
    /\ patched = [p \in Patches |-> {}]
    /\ status = "check"

(* SafetyCheck, which ends the process when a value is out of range.       *)
SafetyCheck ==
    /\ status = "check"
    /\ status' = IF SafetyCheckPasses(cust) THEN "scan" ELSE "crash"
    /\ UNCHANGED <<nso, cust, word, regs, ptr, patched>>

(* One word of the image: SearchAndApply for each patch until one succeeds.*)
PatchWord ==
    /\ status = "scan"
    /\ ptr <= ScanEnd(nso)
    /\ LET p == Found(soc, word, ptr) IN
        IF p = "none" THEN UNCHANGED <<word, regs, patched>>
        ELSE LET written == Writes(soc, cust, word, p, ptr) IN
             /\ word' = [a \in DOMAIN word |->
                            IF a \in DOMAIN written THEN written[a] ELSE word[a]]
             /\ regs' = NewRegs(soc, cust, regs, p, ptr)
             /\ patched' = [patched EXCEPT ![p] = @ \cup {ptr}]
    /\ ptr' = ptr + 1
    /\ UNCHANGED <<nso, cust, status>>

(* CheckResult of every patch; the test tool also wants a count above 0.   *)
WithinMaximum(s, applied) ==
    \A k \in 1..Len(PatchesOf(s)) :
        LET p == PatchesOf(s)[k] IN
        \/ MaximumPatchedCount(s, p) = 0
        \/ Cardinality(applied[p]) <= MaximumPatchedCount(s, p)

CheckResult ==
    /\ status = "scan"
    /\ ptr > ScanEnd(nso)
    /\ status' = IF WithinMaximum(soc, patched) THEN "accepted" ELSE "crash"
    /\ UNCHANGED <<nso, cust, word, regs, ptr, patched>>

PcvNext == SafetyCheck \/ PatchWord \/ CheckResult
PcvSpec == PcvInit /\ [][PcvNext]_pcvVars

-----------------------------------------------------------------------------
(***************************************************************************)
(* Properties.                                                             *)
(***************************************************************************)
(* Type invariant: every word stays a number the image can hold, and the   *)
(* image keeps its size.                                                   *)
PcvTypeOK ==
    /\ nso \in Nsos /\ cust \in Customs
    /\ DOMAIN word = DOMAIN nso.word /\ \A a \in DOMAIN word : word[a] \in Int
    /\ DOMAIN regs = DOMAIN nso.regs
    /\ ptr \in 1..(ScanEnd(nso) + 1)
    /\ patched \in [Patches -> SUBSET (1..ScanEnd(nso))]
    /\ status \in {"check", "scan", "accepted", "crash"}

(* The words of the structure that a patch found at a is about: a table    *)
(* with the row that ends it, where it is to grow.                         *)
HeadOf(p, a) == TableHead(a, IF p = "CpuTable" THEN Len(CpuDefault(soc)) ELSE Len(GpuDefault(soc)))
EndOf(p, a) ==
    HeadOf(p, a) + RowSize * GetDvfsTableEntryCount(
        IF p = "CpuTable" THEN CpuCustomize(soc, cust).freqs ELSE GpuCustomize(soc, cust).freqs)

Structure(p, a) ==
    CASE p \in {"CpuTable", "GpuTable"} -> HeadOf(p, a)..(EndOf(p, a) + RowSize - 1)
      [] p = "CpuVdd"  -> (a - 1)..(a + 3)
      [] p = "CpuVolt" -> {a - 5, a - 1, a}
      [] p = "CpuDfll" -> a..(a + 3)
      [] p = "GpuAsm"  -> {a, a + 1}
      [] p = "Mtc"     -> UNION {(MtcTable(a, i) - 1)..(MtcTable(a, i) + 2) :
                                    i \in 1..Len(KhzList(soc))}
      [] p = "Dvb"     -> TableHead(a, 6)..(a + 2 * RowSize - 1)
      [] p = "Pllm"    -> {a, a + 2}
      [] p \in {"GpuPll", "Max", "Vddq", "MemVolt"} -> {a}

(* An image of a driver holds each structure in words of its own, and      *)
(* leaves a table room to grow.                                            *)
Structured == {"CpuVdd", "CpuTable", "CpuDfll", "GpuTable", "GpuAsm", "Mtc", "Dvb", "Max", "Pllm"}
LaidOut ==
    /\ \A p \in Structured : \A a \in patched[p] :
        /\ Structure(p, a) \subseteq DOMAIN word
        /\ \A q \in Patches : \A b \in patched[q] :
              <<p, a>> # <<q, b>> => Structure(p, a) \cap Structure(q, b) = {}
    /\ \A p \in {"CpuTable", "GpuTable"} : \A a \in patched[p] :
          Holds(nso.word, EndOf(p, a), <<0, 0, 0, 0>>)

(* No patch reaches into the structure of another, and none makes or       *)
(* breaks a match of another: at every word the scan comes to, the patch   *)
(* it applies is the one the untouched image calls for, although tables    *)
(* that grow are written over words still to be looked at.                 *)
(* So the counts CheckResult judges depend on the firmware alone, not on   *)
(* the customisation.                                                      *)
ScanUnaffected ==
    status = "scan" =>
        /\ LaidOut
        /\ ptr <= ScanEnd(nso) => Found(soc, word, ptr) = Found(soc, nso.word, ptr)

(* The rows of the table that starts at a, up to the first empty one, as   *)
(* the driver reads it.                                                    *)
TableLen(w, a) ==
    CHOOSE n \in 0..31 : /\ Holds(w, a + RowSize * n, <<0, 0, 0, 0>>)
                         /\ \A m \in 0..(n - 1) : ~Holds(w, a + RowSize * m, <<0, 0, 0, 0>>)
LastFreq(w, a) == At(w, a + RowSize * (TableLen(w, a) - 1))
Ascending(w, a) ==
    \A i \in 1..(TableLen(w, a) - 1) :
        At(w, a + RowSize * (i - 1)) < At(w, a + RowSize * i)

(* In an accepted image the places that name the highest clock of a unit   *)
(* agree: a driver's table ends, at its first empty row, with the clock of *)
(* the voltage rail (CPU) and of the instructions that load it (GPU), and  *)
(* its frequencies ascend.                                                 *)
TablesAgree ==
    status = "accepted" =>
        /\ \A p \in {"CpuTable", "GpuTable"} : \A a \in patched[p] :
               Ascending(word, HeadOf(p, a))
        /\ \A a \in patched["CpuVdd"] : \A b \in patched["CpuTable"] :
               word[a] = LastFreq(word, HeadOf("CpuTable", b))
        /\ \A a \in patched["GpuAsm"] : \A b \in patched["GpuTable"] :
               /\ asm_imm16(word[a]) + 65536 * asm_imm16(word[a + 1])
                      = LastFreq(word, HeadOf("GpuTable", b))
               /\ asm_get_rd(word[a]) = asm_get_rd(nso.word[a])
               /\ asm_get_rd(word[a + 1]) = asm_get_rd(nso.word[a])

(* The tables of one memory module, from its highest rate down.            *)
MtcRates(w, a) == [i \in 1..Len(KhzList(soc)) |-> At(w, MtcTable(a, i))]

(* The rate whose table makes room for the overclocked one.                *)
DisplacedRate == IF soc = "Mariko" THEN 1331200 ELSE 40800

(* The rates below the highest are those of the firmware but one.          *)
OneRateLess(rates, stock) ==
    {rates[i] : i \in 2..Len(rates)} = {stock[j] : j \in 1..Len(stock)} \ {DisplacedRate}

(* The divisors of the table at a make the PLL at most 9.6 MHz slower.     *)
PllmbMakes(rate, a) ==
    LET output == PllmbOutput([divm |-> word[a + 1], divn |-> word[a + 2]])
    IN  rate - 9600 < output /\ output <= rate

(* The tables found at a hold the chosen rate, with its divisors, and      *)
(* below it the firmware's rates but the displaced one, each with the      *)
(* registers of its own table.                                             *)
TablesWhole(a) ==
    LET rates == MtcRates(word, a)
        stock == MtcRates(nso.word, a)
    IN
    /\ rates[1] = EmcMaxClock(soc, cust)
    /\ soc = "Mariko" => PllmbMakes(rates[1], a)
    /\ OneRateLess(rates, stock)
    /\ \A i \in 2..Len(rates) :
        /\ rates[i] < rates[i - 1]
        /\ \E j \in 1..Len(stock) :
            /\ stock[j] = rates[i]
            /\ regs[MtcTable(a, i)] = nso.regs[MtcTable(a, j)]

(* An accepted image with an overclocked memory is whole: in every set of  *)
(* timing tables the highest is the chosen rate, on Mariko with divisors   *)
(* that make it; the rates descend; of those of the firmware only the      *)
(* displaced one is gone, and a table that was moved kept the registers of *)
(* its rate; and the limits and the voltage table end with the chosen      *)
(* rate, its voltages not below those of a lower rate.                     *)
MemoryAgrees ==
    status = "accepted" /\ Overclocked(soc, cust) =>
        /\ \A a \in patched["Mtc"] : TablesWhole(a)
        /\ \A a \in patched["Max"] : word[a] = EmcMaxClock(soc, cust)
        /\ \A a \in patched["Dvb"] :
            /\ word[a + RowSize] = EmcMaxClock(soc, cust)
            /\ \A i \in 1..3 : word[a + RowSize + i] >= word[a + i]

(* What Mariko's arbiter is given is not cut: the turns and covers are     *)
(* still half of the delays they are derived from.                         *)
NothingCut(m) ==
    /\ m.r2w_turn = m.mc_r2w \div 2
    /\ m.w2r_turn = m.mc_w2r \div 2
    /\ m.rc_cover = m.mc_rc \div 2
    /\ m.r_cover = (m.mc_rap2pre + m.mc_rp + m.mc_rcd) \div 2
    /\ m.w_cover = (m.mc_wap2pre + m.mc_rp + m.mc_rcd) \div 2

(* The registers that may be 0: the interval between two activations of    *)
(* different banks, which counts from 0; the thresholds (see MarikoOnly);  *)
(* and those derived from what the firmware has.                           *)
MayBeZero == {"mc_rrd", "inversion", "iso_inversion", "r2w_turn", "w2r_turn",
              "rc_cover", "r_cover", "w_cover", "dyn_self_ref"}

(* The self-refresh control of the firmware's tables grows with the rate,  *)
(* by no more than the u32 it is extrapolated in bears at 2800 MHz.        *)
SelfRefGrows(target, ref) == ref <= target /\ target <= ref + 2924

(* The registers of the overclocked table are differences and quotients,   *)
(* for every rate and preset: none is below zero, which a u32 would turn   *)
(* into a huge delay; none becomes 0 that the firmware has above it; the   *)
(* turns, covers, hold-off and latency allowance fit the u8 they are       *)
(* narrowed to; and the self-refresh control extrapolated beyond 1600 MHz  *)
(* does not wrap, it is at least that of 1600 MHz.                         *)
TimingsFit ==
    status = "accepted" /\ Overclocked(soc, cust) =>
        \A a \in patched["Mtc"] :
            LET m == regs[a]
                stock == nso.regs[a]
            IN
            /\ \A r \in DOMAIN m : m[r] >= 0
            /\ \A r \in DOMAIN m \ MayBeZero :
                   m[r] = 0 => r \in DOMAIN stock /\ stock[r] = 0
            /\ soc = "Mariko" /\ cust.mtcConf \in {AUTO_ADJ_ALL, CUSTOM_ADJ_ALL} => NothingCut(m)
            /\ soc = "Mariko" /\ cust.mtcConf = AUTO_ADJ_ALL =>
                /\ m.holdoff = m.mc_rc + 1
                /\ m.la = ADJUST_INVERSE(EmcMaxClock(soc, cust) \div 100, 128)
                /\ SelfRefGrows(stock.dyn_self_ref, nso.regs[MtcTable(a, 2)].dyn_self_ref) =>
                       m.dyn_self_ref >= stock.dyn_self_ref
=============================================================================
