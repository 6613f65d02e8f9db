----------------------------- MODULE PtmPatcher -----------------------------
(***************************************************************************)
(* The loader patching the table of performance configurations in the ptm  *)
(* module (loader/source/oc/ptm/ptm.cpp): the CPU clock of boost mode and, *)
(* on Mariko, the memory clock of every configuration.                     *)
(*                                                                         *)
(* The image is a sequence of words, frequencies in kHz.  A configuration  *)
(* is eight of them: conf_id cpu cpu gpu gpu emc emc padding.              *)
(***************************************************************************)
EXTENDS Integers, Sequences

CONSTANTS
    PtmImages,      \* images of the module the loader may meet
    entryCnt        \* configurations in the table

ASSUME entryCntAssumption == entryCnt \in Nat \ {0}

ASSUME PtmImagesAssumption == PtmImages \subseteq Seq(Int)

VARIABLES
    image,          \* the image as loaded
    conf,           \* the image as it is
    boost,          \* C.commonCpuBoostClock
    console,        \* the SoC
    table,          \* confTable, 0 until it is found
    entry,          \* entries looked at
    boosts, mems,   \* patched_count of the two patches
    ptm             \* "unloaded", "find", "apply", "accepted", "crash"

ptmVars == <<image, conf, boost, console, table, entry, boosts, mems, ptm>>

EntrySize == 8
cpuPtmDefault == 1020000
cpuPtmDevOC   == 1224000
cpuPtmBoost   == 1785000
memPtmLimit   == 1600000
memPtmAlt     == 1331200
memPtmClamp   == 1065600

PtmEntryIsValid(w, a) ==
    w[a + 1] = w[a + 2] /\ w[a + 3] = w[a + 4] /\ w[a + 5] = w[a + 6]
PtmTablePatternFn(w, a) == PtmEntryIsValid(w, a) /\ w[a + 1] = cpuPtmDefault

TableStarts(w) ==
    {a \in 1..(Len(w) - EntrySize * entryCnt + 1) : PtmTablePatternFn(w, a)}

PtmInit ==
    /\ image = <<>> /\ conf = <<>> /\ boost = 0 /\ console = "none"
    /\ table = 0 /\ entry = 0 /\ boosts = 0 /\ mems = 0
    /\ ptm = "unloaded"

(* The module is read into memory and Patch is called with it.             *)
LoadPtm(s, clock) ==
    /\ ptm = "unloaded"
    /\ image' \in PtmImages /\ conf' = image'
    /\ console' = s /\ boost' = clock
    /\ ptm' = "find"
    /\ UNCHANGED <<table, entry, boosts, mems>>

(* The first word that may begin the table.                                *)
FindTable ==
    /\ ptm = "find"
    /\ \/ /\ TableStarts(conf) = {}
          /\ ptm' = "crash" /\ UNCHANGED table
       \/ /\ TableStarts(conf) # {}
          /\ table' = CHOOSE a \in TableStarts(conf) : \A b \in TableStarts(conf) : a <= b
          /\ ptm' = "apply"
    /\ UNCHANGED <<image, conf, boost, console, entry, boosts, mems>>

EntryAt(a, i) == a + EntrySize * i

(* An entry that is not a pair of equal values, or that holds a clock the  *)
(* patcher does not know, ends the process.                                *)
Recognised(w, a) ==
    /\ PtmEntryIsValid(w, a)
    /\ w[a + 1] \in {cpuPtmBoost, cpuPtmDefault, cpuPtmDevOC}
    /\ w[a + 5] \in {memPtmLimit, memPtmAlt, memPtmClamp}

CpuPtmBoost(w, a) ==
    IF w[a + 1] = cpuPtmBoost /\ boost # 0
    THEN [w EXCEPT ![a + 1] = boost, ![a + 2] = boost] ELSE w
\* Mutant: one of the pair.
MemPtmHalf(w, a) ==
    IF console = "Mariko" THEN [w EXCEPT ![a + 5] = memPtmLimit] ELSE w
MemPtm(w, a) ==
    IF console = "Mariko" THEN [w EXCEPT ![a + 5] = memPtmLimit, ![a + 6] = memPtmLimit] ELSE w

PatchEntry ==
    /\ ptm = "apply" /\ entry < entryCnt
    /\ LET a == EntryAt(table, entry) IN
        \/ /\ ~Recognised(conf, a)
           /\ ptm' = "crash"
           /\ UNCHANGED <<conf, entry, boosts, mems>>
        \/ /\ Recognised(conf, a)
           /\ conf' = MemPtm(CpuPtmBoost(conf, a), a)
           /\ boosts' = IF conf[a + 1] = cpuPtmBoost THEN boosts + 1 ELSE boosts
           /\ mems' = IF console = "Mariko" THEN mems + 1 ELSE mems
           /\ entry' = entry + 1
           /\ UNCHANGED ptm
    /\ UNCHANGED <<image, boost, console, table>>

PtmCheckResult ==
    /\ ptm = "apply" /\ entry = entryCnt
    /\ ptm' = IF boosts <= 2 /\ mems <= 16 THEN "accepted" ELSE "crash"
    /\ UNCHANGED <<image, conf, boost, console, table, entry, boosts, mems>>

PtmNext == FindTable \/ PatchEntry \/ PtmCheckResult

=============================================================================
