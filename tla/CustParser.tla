----------------------------- MODULE CustParser -----------------------------
(***************************************************************************)
(* The sysmodule's start: it looks for the loader's KIP on the SD card and *)
(* takes its clocks from the customisation inside (file_utils.cpp          *)
(* ParseLoaderKip and CustParser, called by Clocks::Initialize), sets the  *)
(* memory's voltages over I2C (common/src/i2c.c), and exits when there is  *)
(* no KIP to be found (main.cpp).                                          *)
(*                                                                         *)
(* Frequencies are in kHz.  A file is a record: regular, opens, kip (its   *)
(* name ends in .kip), size, magic (it begins as the loader's KIP does),   *)
(* offset, where the first "CUST" is that begins at a multiple of its own  *)
(* length (0: nowhere), and cust, the customisation that begins there.     *)
(***************************************************************************)
EXTENDS Customize, SequencesExt

CONSTANTS
    Cards           \* contents of the SD card: a sequence of files per directory

VARIABLES
    card,           \* the SD card
    isMariko,       \* the console, as splGetConfig tells it
    dir, pos,       \* the entry readdir is at
    sysmodule,      \* "off", "search", "ready" or "exited"
    kip,            \* the file whose customisation was accepted, or none
    boostCpuFreq, maxMemFreq, freqTable,     \* of Clocks
    rails           \* per voltage rail, what the regulator was set to, in uV

clockVars == <<boostCpuFreq, maxMemFreq, freqTable, rails>>
cpVars == <<card, isMariko, dir, pos, sysmodule, kip, clockVars>>

SysCustRev == 10        \* CUST_REV of file_utils.h
BLOCK_SIZE == 4096
FREQ_TABLE_MAX_ENTRY_COUNT == 31
NoKip == "none"

\* dirs of ParseLoaderKip; one that cannot be opened is an empty one.
Dirs == <<"/", "/atmosphere/", "/atmosphere/kips/", "/bootloader/">>

\* The search for the marker goes on by the marker's length.
Offsets == {n \in Nat : n % 4 = 0}

(* What a card may hold: any number of files in each directory, with any   *)
(* contents.                                                               *)
Files == [regular : BOOLEAN, opens : BOOLEAN, kip : BOOLEAN, magic : BOOLEAN,
          size : Nat, offset : Offsets, cust : CustomizeTable]
ASSUME CardsAssumption == Cards \subseteq [DOMAIN Dirs -> Seq(Files)]

(***************************************************************************)
(* What of a customisation lies in its file: the header and seven tables   *)
(* of 31 rows.  fread reads what there is, the rest stays zero.            *)
(***************************************************************************)
HeaderSize == 152
DvfsRowSize == 56
TableNames == <<"eristaCpu", "marikoCpu", "marikoCpuSLT",
                "eristaGpu", "marikoGpu", "marikoGpuSLT", "marikoGpuHiOPT">>
Contents(name) ==
    CASE name = "eristaCpu"      -> eristaCpuDvfsTable
      [] name = "marikoCpu"      -> marikoCpuDvfsTable
      [] name = "marikoCpuSLT"   -> marikoCpuDvfsTableSLT
      [] name = "eristaGpu"      -> eristaGpuDvfsTable
      [] name = "marikoGpu"      -> marikoGpuDvfsTable
      [] name = "marikoGpuSLT"   -> marikoGpuDvfsTableSLT
      [] name = "marikoGpuHiOPT" -> marikoGpuDvfsTableHiOPT

CustTableSize == HeaderSize + Len(TableNames) * FREQ_TABLE_MAX_ENTRY_COUNT * DvfsRowSize
Whole(f) == f.offset + CustTableSize <= f.size

RowOffset(f, name, i) ==
    LET k == CHOOSE j \in DOMAIN TableNames : TableNames[j] = name
    IN  f.offset + HeaderSize
            + DvfsRowSize * ((k - 1) * FREQ_TABLE_MAX_ENTRY_COUNT + i - 1)

\* The table as it was read.
ReadTable(f, name) ==
    [i \in 1..FREQ_TABLE_MAX_ENTRY_COUNT |->
        IF i <= Len(Contents(name)) /\ RowOffset(f, name, i) + 8 <= f.size
        THEN Contents(name)[i] ELSE 0]

(***************************************************************************)
(* Which file is taken.                                                    *)
(***************************************************************************)
IsCandidate(f) ==
    f.regular /\ f.opens /\ Between(f.size, 4096, 512 * 1024) /\ f.kip

\* The blocks of the file are searched for the marker, except for the last one.
CustFound(f) ==
    f.offset > 0 /\ BLOCK_SIZE * (f.offset \div BLOCK_SIZE + 1) < f.size

CustParserSucceeds(f) == f.magic /\ CustFound(f) /\ f.cust.custRev = SysCustRev

(***************************************************************************)
(* I2c_BuckConverter_SetMvOut: the multiplier for a voltage, rounded down. *)
(***************************************************************************)
I2c_Mariko_DRAM_VDDQ == [uv_step |-> 5000,  uv_min |-> 250000, uv_max |-> 650000]
I2c_Mariko_DRAM_VDD2 == [uv_step |-> 12500, uv_min |-> 600000, uv_max |-> 1250000]

MvOutToMultiplier(domain, mvolt) ==
    LET uvolt == mvolt * 1000
        held  == IF uvolt < domain.uv_min THEN domain.uv_min ELSE Least(uvolt, domain.uv_max)
    IN  (held - domain.uv_min) \div domain.uv_step
MultiplierToUv(domain, multiplier) == domain.uv_min + domain.uv_step * multiplier

SetMvOut(domain, mvolt) == MultiplierToUv(domain, MvOutToMultiplier(domain, mvolt))

\* The rails CustParser sets and the voltage it sets them to.
RailsToSet(c) ==
    [r \in {q \in {"VDDQ", "VDD2"} :
              /\ isMariko
              /\ q = "VDDQ" => Between(c.marikoEmcVddqVolt, 550000, 650000)
              /\ q = "VDD2" => Between(c.commonEmcMemVolt, 1100000, 1250000)} |->
        IF r = "VDDQ" THEN SetMvOut(I2c_Mariko_DRAM_VDDQ, c.marikoEmcVddqVolt \div 1000)
        ELSE SetMvOut(I2c_Mariko_DRAM_VDD2, c.commonEmcMemVolt \div 1000)]

(***************************************************************************)
(* What CustParser leaves in Clocks.                                       *)
(***************************************************************************)
\* Mutant: only one undervolt level selects the SLT table.
CpuTableOfUV1(c) ==
    CASE ~isMariko                      -> "eristaCpu"
      [] isMariko /\ c.marikoCpuUV = 1  -> "marikoCpuSLT"
      [] isMariko /\ c.marikoCpuUV # 1  -> "marikoCpu"
CpuTableOf(c) ==
    CASE ~isMariko                      -> "eristaCpu"
      [] isMariko /\ c.marikoCpuUV # 0  -> "marikoCpuSLT"
      [] isMariko /\ c.marikoCpuUV = 0  -> "marikoCpu"
GpuTableOf(c) ==
    CASE ~isMariko                                -> "eristaGpu"
      [] isMariko /\ c.marikoGpuUV = 1            -> "marikoGpuSLT"
      [] isMariko /\ c.marikoGpuUV = 2            -> "marikoGpuHiOPT"
      [] isMariko /\ c.marikoGpuUV \notin {1, 2}  -> "marikoGpu"

EmcClockOf(c) == IF isMariko THEN c.marikoEmcMaxClock ELSE c.eristaEmcMaxClock
NewMaxMemFreq(c) == IF EmcClockOf(c) # 0 THEN EmcClockOf(c) ELSE maxMemFreq

(* The entries of t that are not below khz, in their order.                *)
AtLeast(t, khz) ==
    LET kept == {i \in DOMAIN t : t[i] >= khz}
        Nth(n) == CHOOSE i \in kept : Cardinality({j \in kept : j <= i}) = n
    IN  [n \in 1..Cardinality(kept) |-> t[Nth(n)]]

\* Frequencies below 408 MHz are skipped; what is not written stays.
UsableCpu(f) == AtLeast(ReadTable(f, CpuTableOf(f.cust)), 408000)
NewCpuTable(f) ==
    [i \in 1..FREQ_TABLE_MAX_ENTRY_COUNT |->
        IF i <= Len(UsableCpu(f)) THEN UsableCpu(f)[i] ELSE freqTable["CPU"][i]]

\* The first free entry after the first.
\* Mutant: one past it.
EntryAfterFree ==
    CHOOSE i \in 3..FREQ_TABLE_MAX_ENTRY_COUNT :
        freqTable["MEM"][i - 1] = 0 /\ \A j \in 2..(i - 2) : freqTable["MEM"][j] # 0
FreeMemEntry ==
    CHOOSE i \in 2..FREQ_TABLE_MAX_ENTRY_COUNT :
        freqTable["MEM"][i] = 0 /\ \A j \in 2..(i - 1) : freqTable["MEM"][j] # 0

EmptyTable == [i \in 1..FREQ_TABLE_MAX_ENTRY_COUNT |-> 0]
MemTable == <<665600, 800000, 1065600, 1331200, 1600000>>

CpInit ==
    /\ card = [d \in DOMAIN Dirs |-> <<>>] /\ isMariko \in BOOLEAN
    /\ dir = 1 /\ pos = 1 /\ sysmodule = "off" /\ kip = NoKip
    /\ boostCpuFreq = 1785000 /\ maxMemFreq = 0
    /\ freqTable = [CPU |-> EmptyTable, GPU |-> EmptyTable,
                    MEM |-> [i \in 1..FREQ_TABLE_MAX_ENTRY_COUNT |->
                                IF i <= Len(MemTable) THEN MemTable[i] ELSE 0]]
    /\ rails = [r \in {"VDDQ", "VDD2"} |-> 0]

\* The card is in the slot by now.
Launch ==
    /\ sysmodule = "off" /\ sysmodule' = "search"
    /\ card' \in Cards
    /\ UNCHANGED <<isMariko, dir, pos, kip, clockVars>>

(* An entry of the directory.  A file that is not accepted changes nothing;*)
(* setting a rail over I2C may fail, which is only logged.                 *)
ReadEntry ==
    /\ sysmodule = "search" /\ dir <= Len(Dirs) /\ pos <= Len(card[dir])
    /\ LET f == card[dir][pos] IN
        \/ /\ ~(IsCandidate(f) /\ CustParserSucceeds(f))
           /\ pos' = pos + 1
           /\ UNCHANGED <<sysmodule, kip, clockVars>>
        \/ /\ IsCandidate(f) /\ CustParserSucceeds(f)
           /\ sysmodule' = "ready" /\ kip' = f
           /\ boostCpuFreq' = IF f.cust.commonCpuBoostClock # 0
                              THEN f.cust.commonCpuBoostClock ELSE boostCpuFreq
           /\ maxMemFreq' = NewMaxMemFreq(f.cust)
           /\ \E set \in SUBSET DOMAIN RailsToSet(f.cust) :
                rails' = [r \in DOMAIN rails |->
                            IF r \in set THEN RailsToSet(f.cust)[r] ELSE rails[r]]
           /\ freqTable' = [CPU |-> NewCpuTable(f),
                            GPU |-> ReadTable(f, GpuTableOf(f.cust)),
                            MEM |-> [freqTable["MEM"] EXCEPT
                                        ![FreeMemEntry] = NewMaxMemFreq(f.cust)]]
           /\ UNCHANGED pos
    /\ UNCHANGED <<card, isMariko, dir>>

NextDir ==
    /\ sysmodule = "search" /\ dir <= Len(Dirs) /\ pos > Len(card[dir])
    /\ dir' = dir + 1 /\ pos' = 1
    /\ UNCHANGED <<card, isMariko, sysmodule, kip, clockVars>>

(* ERROR_THROW, which main catches: the sysmodule exits.                   *)
\* Mutant: the last directory is left out.
NoKipInThree ==
    /\ sysmodule = "search" /\ dir >= Len(Dirs)
    /\ sysmodule' = "exited"
    /\ UNCHANGED <<card, isMariko, dir, pos, kip, clockVars>>
NoLoaderKip ==
    /\ sysmodule = "search" /\ dir > Len(Dirs)
    /\ sysmodule' = "exited"
    /\ UNCHANGED <<card, isMariko, dir, pos, kip, clockVars>>

CpNext == Launch \/ ReadEntry \/ NextDir \/ NoLoaderKip

-----------------------------------------------------------------------------
(* The non-zero entries a table begins with.                               *)
Prefix(t) ==
    LET n == CHOOSE k \in 0..Len(t) : /\ \A i \in 1..k : t[i] # 0
                                      /\ k < Len(t) => t[k + 1] = 0
    IN  SubSeq(t, 1, n)

(* What module Clocks assumes of its tables (TableAssumption and           *)
(* SortedAssumption) is what CustParser leaves behind when the KIP was     *)
(* whole and its memory clock one that SafetyCheck passes (CustParser does *)
(* not look at it: a clock below the last stock rate would end the memory  *)
(* table out of order): each table has an entry, room for the zero that    *)
(* ends it, and ascends, the memory's with the customised clock at its end.*)
TablesUsable ==
    sysmodule = "ready" /\ Whole(kip)
            /\ InRange(EmcClockOf(kip.cust), EmcClkOSLimit, 2800000) =>
        /\ \A m \in {"CPU", "GPU", "MEM"} :
            LET t == Prefix(freqTable[m]) IN
            /\ Len(t) \in 1..(FREQ_TABLE_MAX_ENTRY_COUNT - 1)
            /\ \A i \in (Len(t) + 1)..FREQ_TABLE_MAX_ENTRY_COUNT : freqTable[m][i] = 0
            /\ \A i \in 2..Len(t) : t[i - 1] <= t[i]
        /\ maxMemFreq \in {0, Last(Prefix(freqTable["MEM"]))}

(* The sysmodule only gives up when no whole KIP of its revision lies in   *)
(* any of the four directories: neither the filters on a file nor the      *)
(* search by blocks, which leaves out the last, can miss one.              *)
KipFound ==
    sysmodule = "exited" =>
        \A d \in DOMAIN Dirs : \A i \in DOMAIN card[d] :
            LET f == card[d][i] IN
            ~(/\ IsCandidate(f) /\ f.magic /\ f.offset > 0 /\ Whole(f)
              /\ f.cust.custRev = SysCustRev)
=============================================================================
