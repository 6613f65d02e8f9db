----------------------------- MODULE DriverImages -----------------------------
(***************************************************************************)
(* What the scan of PcvPatcher relies on and the loader does not check: a  *)
(* condition on the image as it is loaded, and one on the customisation,   *)
(* under which no patch disturbs another.  The condition looks at the      *)
(* untouched image only.                                                   *)
(***************************************************************************)
EXTENDS PcvPatcher

(***************************************************************************)
(* The words that would make the patch p succeed at a, where the image     *)
(* holds v, as pairs of an address and a word: each member of Around, with *)
(* v at a itself, is a way to do so.                                       *)
(***************************************************************************)
WordsFrom(a, words) == {<<a + i - 1, words[i]>> : i \in 1..Len(words)}
TableWords(a, rows) ==
    UNION {WordsFrom(TableHead(a, Len(rows)) + RowSize * (i - 1), rows[i]) : i \in 1..Len(rows)}

Around(s, v, p, a) ==
    CASE p = "CpuVdd"   -> {WordsFrom(a - 1, <<1>>) \cup WordsFrom(a + 1, <<250000, 5000, 1525000>>)}
      [] p = "CpuTable" ->
            LET t == CpuDefault(s)
            IN  {TableWords(a, [i \in DOMAIN t |-> CpuRow(s, t[i], "stock")])}
      [] p = "CpuVolt"  -> {WordsFrom(a - 1, <<m>>) : m \in CpuMinVolts(s)}
      [] p = "CpuDfll"  -> {WordsFrom(a, <<65487, 0, 19007487, 67106815>>)}
      [] p = "GpuTable" ->
            LET t == GpuDefault(s)
            IN  {TableWords(a, [i \in DOMAIN t |-> GpuRow(t[i], "stock")])}
      [] p = "GpuAsm"   ->
            {WordsFrom(a + 1, <<asm_set(asm_pattern[2], asm_imm16(asm_pattern[2]), asm_get_rd(v))>>)}
      [] p = "GpuPll"   -> {WordsFrom(a + 1, <<0, 0>>)}
      [] p = "Mtc"      -> {UNION {WordsFrom(MtcTable(a, i) - 1, <<MTC_TABLE_REV(s), KhzList(s)[i]>>) :
                                       i \in 1..Len(KhzList(s))}}
      [] p = "Dvb"      -> {TableWords(a, [i \in 1..6 |-> DvbRow(EmcDvbTableDefault[i])])}
      [] p = "Max"      -> {{}}
      [] p = "Pllm"     -> {WordsFrom(a + 2, <<v>>)}
      [] p = "Vddq"     -> {WordsFrom(a - 8, <<2, 3>>) \cup WordsFrom(a - 5, <<VddqStep>>)
                                \cup WordsFrom(a - 3, <<250000>>)}
      [] p = "MemVolt"  -> {WordsFrom(b, <<1, 1, 23, MemVoltStep, 600000>>) : b \in {a - 5, a - 6}}

(***************************************************************************)
(* The structures in an untouched image, each with the patch it is for and *)
(* the address that patch is found at, and the words that belong to one: a *)
(* table with the longest one it may be replaced by and an empty row.      *)
(***************************************************************************)
Sites(n) ==
    {e \in {<<Found(n.soc, n.word, a), a>> : a \in 1..ScanEnd(n)} : e[1] # "none"}

LongestCpu(s) == Len(IF s = "Mariko" THEN marikoCpuDvfsTableSLT ELSE eristaCpuDvfsTable)
LongestGpu(s) == Len(IF s = "Mariko" THEN marikoGpuDvfsTable ELSE eristaGpuDvfsTable)
RoomFrom(head, rows) == head..(head + RowSize * (rows + 1) - 1)

Territory(s, p, a) ==
    CASE p = "CpuTable" -> RoomFrom(TableHead(a, Len(CpuDefault(s))), LongestCpu(s))
      [] p = "GpuTable" -> RoomFrom(TableHead(a, Len(GpuDefault(s))), LongestGpu(s))
      [] p = "CpuVdd"   -> (a - 1)..(a + 3)
      [] p = "CpuVolt"  -> {a - 5, a - 1, a}
      [] p = "CpuDfll"  -> a..(a + 3)
      [] p = "GpuAsm"   -> {a, a + 1}
      [] p = "Mtc"      -> UNION {(MtcTable(a, i) - 1)..(MtcTable(a, i) + 2) :
                                     i \in 1..Len(KhzList(s))}
      [] p = "Dvb"      -> TableHead(a, 6)..(a + 2 * RowSize - 1)
      [] p = "Pllm"     -> {a, a + 2}
      [] p \in {"GpuPll", "Max", "Vddq", "MemVolt"} -> {a}

(* The words that may have changed when the scan comes to a.               *)
Reached(s, sites, a) == UNION {Territory(s, e[1], e[2]) : e \in {f \in sites : f[2] < a}}

(* Every structure has its words to itself, all of them in the image.      *)
SitesApart(n, sites) ==
    \A e \in sites : e[1] \in Structured =>
        /\ Territory(n.soc, e[1], e[2]) \subseteq DOMAIN n.word
        /\ \A f \in sites : e # f =>
              Territory(n.soc, e[1], e[2]) \cap Territory(n.soc, f[1], f[2]) = {}

(* A table is followed by the empty rows it is to grow into.               *)
RoomToGrow(n, sites) ==
    \A e \in sites : e[1] \in {"CpuTable", "GpuTable"} =>
        \A x \in Territory(n.soc, e[1], e[2]) : x >= e[2] + RowSize => n.word[x] = 0

(* No structure is made or broken by what is written before the scan comes *)
(* to it: what looks like the beginning of one, and would reach into words *)
(* that may have changed, is ruled out by words that have not.             *)
HalfMade(n, p, a, reached) ==
    /\ Matches(n.soc, n.word, p, a)
    /\ \E m \in Around(n.soc, At(n.word, a), p, a) :
          /\ \A e \in m : e[1] \in reached \/ At(n.word, e[1]) = e[2]
          /\ \E e \in m \cup {<<a, At(n.word, a)>>} : e[1] \in reached

NothingHalfMade(n, sites) ==
    \A a \in 1..ScanEnd(n) :
        LET reached == Reached(n.soc, sites, a)
        IN  \A k \in 1..Len(PatchesOf(n.soc)) : ~HalfMade(n, PatchesOf(n.soc)[k], a, reached)

DriverImage(n) ==
    LET sites == Sites(n)
    IN  SitesApart(n, sites) /\ RoomToGrow(n, sites) /\ NothingHalfMade(n, sites)

(* SafetyCheck leaves the voltages of GPU undervolting, in mV, unchecked:  *)
(* the table holds them in uV, and 1600 mV and more would be numbers the   *)
(* limits of the memory are recognised by.                                 *)
GpuVoltsNoLimit(c) == \A i \in 1..17 : 1000 * c.marikoGpuVoltArray[i] < EmcClkOSLimit

(* The image being patched is laid out as a driver is, and the             *)
(* customisation has no voltage a patch would take for something else.     *)
Driver == DriverImage(nso) /\ GpuVoltsNoLimit(cust)

(* The loader's verdict on an image is the firmware's own: it is accepted  *)
(* exactly when the customisation is in range and the untouched image      *)
(* calls for each patch no more often than it may, whatever is written.    *)
FirmwareSites ==
    [p \in Patches |-> {a \in 1..ScanEnd(nso) : Found(soc, nso.word, a) = p}]

VerdictIsFirmwares ==
    /\ status = "accepted" => SafetyCheckPasses(cust) /\ WithinMaximum(soc, FirmwareSites)
    /\ status = "crash" => ~(SafetyCheckPasses(cust) /\ WithinMaximum(soc, FirmwareSites))
=============================================================================
