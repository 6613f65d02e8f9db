------------------------------ MODULE BootProofs ------------------------------
(***************************************************************************)
(* What is proved of a start of the console: the types of the patchers and *)
(* of the sysmodule's parser, that the parser misses no KIP, and that no   *)
(* voltage leaves its limits, for every firmware image, customisation and  *)
(* SD card; for images whose structures do not overlap, that the patched   *)
(* tables, rates and timings agree with each other; and, for images laid   *)
(* out as DriverImages says, that the scan of a half-patched image finds   *)
(* what it would find in the untouched one.                                *)
(*                                                                         *)
(* Leaves with large numbers name SMT: the other prover writes a number as *)
(* a sum of ones.                                                          *)
(***************************************************************************)
EXTENDS Boot, DriverImages, TLAPS, SequenceTheorems, FiniteSetTheorems, WellFoundedInduction

-----------------------------------------------------------------------------
(* Numbers.                                                                *)
LEMMA BetweenDef ==
    ASSUME NEW v, NEW low \in Int, NEW high \in Int
    PROVE  Between(v, low, high) <=> v \in Int /\ low <= v /\ v <= high
BY DEF Between

LEMMA RoundedMemVoltRange ==
    ASSUME NEW uv, Between(uv, 1100000, 1250000)
    PROVE  Between(RoundedMemVolt(uv), 1100000, 1250000) /\ RoundedMemVolt(uv) % MemVoltStep = 0
BY BetweenDef, SMT DEF RoundedMemVolt, MemVoltStep

LEMMA RoundedVddqRange ==
    ASSUME NEW uv, Between(uv, 550000, 650000)
    PROVE  Between(RoundedVddq(uv), 550000, 650000) /\ RoundedVddq(uv) % VddqStep = 0
BY BetweenDef, SMT DEF RoundedVddq, VddqStep

(* The sysmodule's rails: what the regulator makes of a voltage in range.  *)
LEMMA SetVddq ==
    ASSUME NEW uv, Between(uv, 550000, 650000)
    PROVE  Between(SetMvOut(I2c_Mariko_DRAM_VDDQ, uv \div 1000), 550000, uv)
BY BetweenDef, SMT DEF SetMvOut, MultiplierToUv, MvOutToMultiplier, I2c_Mariko_DRAM_VDDQ, Least

LEMMA SetVdd2 ==
    ASSUME NEW uv, Between(uv, 1100000, 1250000)
    PROVE  Between(SetMvOut(I2c_Mariko_DRAM_VDD2, uv \div 1000), 1100000, uv)
BY BetweenDef, SMT DEF SetMvOut, MultiplierToUv, MvOutToMultiplier, I2c_Mariko_DRAM_VDD2, Least

(* A customisation that lies in its file whole is found: its tables are    *)
(* longer than a block, so the block it starts in is not the last.         *)
LEMMA WholeIsFound ==
    ASSUME NEW f \in Files, f.offset > 0, Whole(f)
    PROVE  CustFound(f)
<1>1. Len(TableNames) = 7
  BY DEF TableNames
<1>2. CustTableSize = 12304
  BY <1>1, SMT DEF CustTableSize, HeaderSize, FREQ_TABLE_MAX_ENTRY_COUNT, DvfsRowSize
<1>3. f.offset \in Nat /\ f.size \in Nat
  BY DEF Files, Offsets
<1> QED
  BY <1>2, <1>3, SMT DEF CustFound, Whole, BLOCK_SIZE

-----------------------------------------------------------------------------
(* A step of the boot is a step of one of the three, the others at rest.   *)
LEMMA BootStep ==
    ASSUME [BootNext]_bootVars
    PROVE  \/ PcvNext /\ UNCHANGED ptmVars /\ UNCHANGED cpVars
           \/ StartPtm /\ UNCHANGED pcvVars /\ UNCHANGED cpVars
           \/ Starting /\ CpNext /\ UNCHANGED pcvVars /\ UNCHANGED ptmVars
           \/ UNCHANGED pcvVars /\ UNCHANGED ptmVars /\ UNCHANGED cpVars
<1>1. CASE Patching
  BY <1>1 DEF Patching, LoaderNext, StartPcv, StartPtm
<1>2. CASE Starting
  BY <1>2 DEF Starting, loaderVars
<1>3. CASE UNCHANGED bootVars
  BY <1>3 DEF bootVars, loaderVars
<1> QED
  BY <1>1, <1>2, <1>3 DEF BootNext

-----------------------------------------------------------------------------
(***************************************************************************)
(* KipFound.  The search has passed over nothing it would have taken.      *)
(***************************************************************************)
Taken(f) == IsCandidate(f) /\ CustParserSucceeds(f)

SearchInv ==
    /\ card \in [DOMAIN Dirs -> Seq(Files)]
    /\ dir \in 1..5 /\ pos \in Nat \ {0}
    /\ sysmodule = "off" => dir = 1 /\ pos = 1
    /\ sysmodule = "exited" => dir = 5
    /\ \A d \in DOMAIN Dirs : \A i \in DOMAIN card[d] :
           d < dir \/ (d = dir /\ i < pos) => ~Taken(card[d][i])

LEMMA DirsLength == Len(Dirs) = 4 /\ DOMAIN Dirs = 1..4
BY DEF Dirs

LEMMA SearchInit == BootInit => SearchInv
<1> SUFFICES ASSUME BootInit PROVE SearchInv
  OBVIOUS
<1>1. /\ card = [d \in DOMAIN Dirs |-> <<>>]
      /\ dir = 1 /\ pos = 1 /\ sysmodule = "off"
  BY DEF BootInit, CpInit
<1>2. card \in [DOMAIN Dirs -> Seq(Files)]
  BY <1>1
<1>3. \A d \in DOMAIN Dirs : DOMAIN card[d] = {}
  BY <1>1
<1> QED
  BY <1>1, <1>2, <1>3 DEF SearchInv

LEMMA SearchStep == SearchInv /\ [BootNext]_bootVars => SearchInv'
<1> SUFFICES ASSUME SearchInv, [BootNext]_bootVars PROVE SearchInv'
  OBVIOUS
<1> USE DirsLength
<1>1. CASE UNCHANGED cpVars
  BY <1>1 DEF SearchInv, cpVars, clockVars
<1>2. CASE Launch
  <2>1. card' \in [DOMAIN Dirs -> Seq(Files)]
    BY <1>2, CardsAssumption DEF Launch
  <2>2. dir' = 1 /\ pos' = 1 /\ sysmodule' = "search"
    BY <1>2 DEF Launch, SearchInv
  <2>3. \A d \in DOMAIN Dirs : \A i \in DOMAIN card'[d] : i \in Nat /\ i >= 1
    BY <2>1
  <2> QED
    BY <2>1, <2>2, <2>3 DEF SearchInv
<1>3. CASE ReadEntry
  <2>1. card' = card /\ dir' = dir /\ dir <= 4 /\ pos <= Len(card[dir]) /\ sysmodule = "search"
    BY <1>3 DEF ReadEntry
  <2>2. CASE ~Taken(card[dir][pos]) /\ pos' = pos + 1 /\ sysmodule' = sysmodule
    <3>1. \A d \in DOMAIN Dirs : \A i \in DOMAIN card[d] :
              d < dir \/ (d = dir /\ i < pos + 1) => ~Taken(card[d][i])
      <4> SUFFICES ASSUME NEW d \in DOMAIN Dirs, NEW i \in DOMAIN card[d],
                          d < dir \/ (d = dir /\ i < pos + 1)
                   PROVE  ~Taken(card[d][i])
        OBVIOUS
      <4>1. i \in Nat
        BY DEF SearchInv
      <4>2. d < dir \/ (d = dir /\ i < pos) \/ (d = dir /\ i = pos)
        BY <4>1 DEF SearchInv
      <4> QED
        BY <4>2, <2>2 DEF SearchInv
    <3> QED
      BY <2>1, <2>2, <3>1 DEF SearchInv
  <2>3. CASE sysmodule' = "ready" /\ pos' = pos
    BY <2>1, <2>3 DEF SearchInv
  <2> QED
    BY <1>3, <2>2, <2>3 DEF ReadEntry, Taken
<1>4. CASE NextDir
  <2>1. /\ card' = card /\ dir' = dir + 1 /\ pos' = 1 /\ sysmodule' = sysmodule
        /\ dir <= 4 /\ pos > Len(card[dir]) /\ sysmodule = "search"
    BY <1>4 DEF NextDir
  <2>2. \A d \in DOMAIN Dirs : \A i \in DOMAIN card[d] :
            d < dir + 1 \/ (d = dir + 1 /\ i < 1) => ~Taken(card[d][i])
    <3> SUFFICES ASSUME NEW d \in DOMAIN Dirs, NEW i \in DOMAIN card[d],
                        d < dir + 1 \/ (d = dir + 1 /\ i < 1)
                 PROVE  ~Taken(card[d][i])
      OBVIOUS
    <3>1. i \in 1..Len(card[d])
      BY DEF SearchInv
    <3>2. d < dir \/ (d = dir /\ i < pos)
      BY <3>1, <2>1 DEF SearchInv
    <3> QED
      BY <3>2 DEF SearchInv
  <2> QED
    BY <2>1, <2>2 DEF SearchInv
<1>5. CASE NoLoaderKip
  BY <1>5 DEF NoLoaderKip, SearchInv
<1> QED
  BY BootStep, <1>1, <1>2, <1>3, <1>4, <1>5 DEF CpNext

(* For every card: when the sysmodule exits at its start, no whole KIP of  *)
(* its revision lies in any of the four directories (ParseLoaderKip).      *)
THEOREM KipIsFound == BootSpec => []KipFound
<1>1. SearchInv => KipFound
  <2> SUFFICES ASSUME SearchInv, sysmodule = "exited",
                      NEW d \in DOMAIN Dirs, NEW i \in DOMAIN card[d],
                      IsCandidate(card[d][i]), card[d][i].magic, card[d][i].offset > 0,
                      Whole(card[d][i]), card[d][i].cust.custRev = SysCustRev
               PROVE  FALSE
    BY DEF KipFound
  <2>1. card[d][i] \in Files
    BY DEF SearchInv
  <2>2. Taken(card[d][i])
    BY <2>1, WholeIsFound DEF Taken, CustParserSucceeds
  <2> QED
    BY <2>2, DirsLength DEF SearchInv
<1> QED
  BY <1>1, SearchInit, SearchStep, PTL DEF BootSpec

-----------------------------------------------------------------------------
(***************************************************************************)
(* The tables of frequencies.  Every CPU table is the beginning of one     *)
(* list, every GPU table of another.                                       *)
(***************************************************************************)
Joined(s, t, m, n) == [i \in 1..(m + n) |-> IF i <= m THEN s[i] ELSE t[i - m]]

LEMMA Concat ==
    ASSUME NEW s, NEW t, s \in Seq(Int), t \in Seq(Int), NEW m, NEW n, Len(s) = m, Len(t) = n
    PROVE  s \o t \in Seq(Int) /\ s \o t = Joined(s, t, m, n)
<1>1. s \o t \in Seq(Int) /\ Len(s \o t) = m + n
  BY ConcatProperties
<1>2. \A i \in 1..(m + n) : (s \o t)[i] = IF i <= m THEN s[i] ELSE t[i - m]
  BY ConcatProperties
<1>3. s \o t \in [1..(m + n) -> Int]
  BY <1>1, LenProperties
<1>4. s \o t = [i \in 1..(m + n) |-> (s \o t)[i]]
  BY <1>3
<1> QED
  BY <1>1, <1>2, <1>4 DEF Joined

CpuKhz(i) ==
    IF i <= 13 THEN 102000 * (i + 1)
    ELSE <<1581000, 1683000, 1785000, 1887000, 1963500, 2091000, 2193000, 2295000, 2397000>>[i - 13]
GpuKhz(i) == IF i <= 16 THEN 76800 * i ELSE 1267200

\* t is the beginning of one of them, n long.
BeginsCpu(t, n) == t \in Seq(Int) /\ Len(t) = n /\ \A i \in 1..n : t[i] = CpuKhz(i)
BeginsGpu(t, n) == t \in Seq(Int) /\ Len(t) = n /\ \A i \in 1..n : t[i] = GpuKhz(i)

LEMMA CpuStepsAre == BeginsCpu(CpuSteps, 16)
<1> DEFINE f == [i \in 1..13 |-> 102000 * (i + 1)]
           g == <<1581000, 1683000, 1785000>>
<1>1. f \in Seq(Int) /\ Len(f) = 13
  BY SMT
<1>2. g \in Seq(Int) /\ Len(g) = 3
  BY SMT
<1>3. CpuSteps = f \o g
  BY DEF CpuSteps
<1>4. f \o g \in Seq(Int) /\ f \o g = Joined(f, g, 13, 3)
  <2> HIDE DEF f, g
  <2> QED
    BY <1>1, <1>2, Concat, Zenon
<1>5. CpuSteps \in Seq(Int) /\ CpuSteps = Joined(f, g, 13, 3)
  BY <1>3, <1>4
<1> QED
  BY <1>5, SMT DEF Joined, BeginsCpu, CpuKhz

LEMMA CpuLonger ==
    ASSUME NEW g, g \in Seq(Int), NEW n \in 1..6, Len(g) = n, NEW k, k = 16 + n,
           \A i \in 1..n : g[i] = CpuKhz(16 + i)
    PROVE  BeginsCpu(CpuSteps \o g, k)
<1> DEFINE t == CpuSteps \o g
<1>1. CpuSteps \in Seq(Int) /\ Len(CpuSteps) = 16 /\ \A i \in 1..16 : CpuSteps[i] = CpuKhz(i)
  BY CpuStepsAre DEF BeginsCpu
<1>2. t \in Seq(Int) /\ t = Joined(CpuSteps, g, 16, n)
  BY <1>1, Concat, ZenonT(60)
<1> HIDE DEF t
<1>3. t = [i \in 1..k |-> IF i <= 16 THEN CpuSteps[i] ELSE g[i - 16]]
  BY <1>2 DEF Joined
<1>4. Len(t) = k
  BY <1>3, SMT
<1>5. ASSUME NEW i \in 1..k PROVE t[i] = CpuKhz(i)
  <2>1. t[i] = IF i <= 16 THEN CpuSteps[i] ELSE g[i - 16]
    BY <1>3
  <2>2. CASE i <= 16
    <3>1. i \in 1..16
      BY <2>2, SMT
    <3> QED
      BY <2>1, <2>2, <3>1, <1>1
  <2>3. CASE i > 16
    <3>1. i - 16 \in 1..n /\ 16 + (i - 16) = i /\ ~(i <= 16)
      BY <2>3, SMT
    <3> QED
      BY <2>1, <3>1
  <2> QED
    BY <2>2, <2>3, SMT
<1>6. BeginsCpu(t, k)
  BY <1>2, <1>4, <1>5 DEF BeginsCpu
<1> QED
  BY <1>6 DEF t

LEMMA CpuTables ==
    /\ BeginsCpu(MarikoCpuCvbTableDefault, 18)
    /\ BeginsCpu(EristaCpuCvbTableDefault, 16)
    /\ BeginsCpu(eristaCpuDvfsTable, 19)
    /\ BeginsCpu(marikoCpuDvfsTable, 21)
    /\ BeginsCpu(marikoCpuDvfsTableSLT, 22)
<1>1. BeginsCpu(CpuSteps \o <<1887000, 1963500>>, 18)
  <2> DEFINE g == <<1887000, 1963500>>
  <2>0. 2 \in 1..6 /\ 18 = 16 + 2
    BY SMT
  <2>1. g \in Seq(Int) /\ Len(g) = 2 /\ \A i \in 1..2 : g[i] = CpuKhz(16 + i)
    BY SMT DEF CpuKhz
  <2> HIDE DEF g
  <2>2. BeginsCpu(CpuSteps \o g, 18)
    BY <2>1, <2>0, CpuLonger, Zenon
  <2> QED
    BY <2>2 DEF g
<1>2. BeginsCpu(CpuSteps \o <<1887000, 1963500, 2091000>>, 19)
  <2> DEFINE g == <<1887000, 1963500, 2091000>>
  <2>0. 3 \in 1..6 /\ 19 = 16 + 3
    BY SMT
  <2>1. g \in Seq(Int) /\ Len(g) = 3 /\ \A i \in 1..3 : g[i] = CpuKhz(16 + i)
    BY SMT DEF CpuKhz
  <2> HIDE DEF g
  <2>2. BeginsCpu(CpuSteps \o g, 19)
    BY <2>1, <2>0, CpuLonger, Zenon
  <2> QED
    BY <2>2 DEF g
<1>3. BeginsCpu(CpuSteps \o <<1887000, 1963500, 2091000, 2193000, 2295000>>, 21)
  <2> DEFINE g == <<1887000, 1963500, 2091000, 2193000, 2295000>>
  <2>0. 5 \in 1..6 /\ 21 = 16 + 5
    BY SMT
  <2>1. g \in Seq(Int) /\ Len(g) = 5 /\ \A i \in 1..5 : g[i] = CpuKhz(16 + i)
    BY SMT DEF CpuKhz
  <2> HIDE DEF g
  <2>2. BeginsCpu(CpuSteps \o g, 21)
    BY <2>1, <2>0, CpuLonger, Zenon
  <2> QED
    BY <2>2 DEF g
<1>4. BeginsCpu(CpuSteps \o <<1887000, 1963500, 2091000, 2193000, 2295000, 2397000>>, 22)
  <2> DEFINE g == <<1887000, 1963500, 2091000, 2193000, 2295000, 2397000>>
  <2>0. 6 \in 1..6 /\ 22 = 16 + 6
    BY SMT
  <2>1. g \in Seq(Int) /\ Len(g) = 6 /\ \A i \in 1..6 : g[i] = CpuKhz(16 + i)
    BY SMT DEF CpuKhz
  <2> HIDE DEF g
  <2>2. BeginsCpu(CpuSteps \o g, 22)
    BY <2>1, <2>0, CpuLonger, Zenon
  <2> QED
    BY <2>2 DEF g
<1> QED
  BY <1>1, <1>2, <1>3, <1>4, CpuStepsAre
  DEF MarikoCpuCvbTableDefault, EristaCpuCvbTableDefault, eristaCpuDvfsTable, marikoCpuDvfsTable,
      marikoCpuDvfsTableSLT

LEMMA GpuTables ==
    /\ \A n \in {12, 13, 16} : BeginsGpu(GpuSteps(n), n)
    /\ BeginsGpu(GpuSteps(16) \o <<1267200>>, 17)
<1>1. \A n \in {12, 13, 16} : BeginsGpu(GpuSteps(n), n)
  BY SMT DEF GpuSteps, BeginsGpu, GpuKhz
<1>2. BeginsGpu(GpuSteps(16) \o <<1267200>>, 17)
  <2> DEFINE f == GpuSteps(16)
             g == <<1267200>>
  <2>1. f \in Seq(Int) /\ Len(f) = 16
    BY <1>1 DEF BeginsGpu
  <2>2. g \in Seq(Int) /\ Len(g) = 1
    BY SMT
  <2>3. (\A i \in 1..16 : f[i] = GpuKhz(i)) /\ g[1] = GpuKhz(17)
    BY <1>1, SMT DEF BeginsGpu, GpuKhz
  <2> HIDE DEF f, g
  <2>4. f \o g \in Seq(Int) /\ f \o g = Joined(f, g, 16, 1)
    BY <2>1, <2>2, Concat, Zenon
  <2>5. BeginsGpu(f \o g, 17)
    BY <2>3, <2>4, SMT DEF Joined, BeginsGpu
  <2> QED
    BY <2>5 DEF f, g
<1> QED
  BY <1>1, <1>2

CpuOld(s) == IF s = "Mariko" THEN 18 ELSE 16
GpuOld(s) == IF s = "Mariko" THEN 17 ELSE 12
CpuNew(s, c) == IF s = "Mariko" THEN (IF c.marikoCpuUV = 0 THEN 21 ELSE 22) ELSE 19
GpuNew(s) == IF s = "Mariko" THEN 17 ELSE 13

LEMMA DefaultTables ==
    ASSUME NEW s \in Socs
    PROVE  BeginsCpu(CpuDefault(s), CpuOld(s)) /\ BeginsGpu(GpuDefault(s), GpuOld(s))
BY CpuTables, GpuTables
DEF CpuDefault, GpuDefault, CpuOld, GpuOld, MarikoGpuCvbTableDefault, EristaGpuCvbTableDefault

LEMMA CustomTables ==
    ASSUME NEW s \in Socs, NEW c
    PROVE  /\ BeginsCpu(CpuCustomize(s, c).freqs, CpuNew(s, c))
           /\ BeginsGpu(GpuCustomize(s, c).freqs, GpuNew(s))
           /\ CpuCustomize(s, c).name \in {"stock", "SLT"}
           /\ GpuCustomize(s, c).name \in {"stock", "SLT", "HiOPT"}
<1>1. s = "Mariko" \/ s = "Erista"
  BY DEF Socs
<1>2. /\ BeginsCpu(CpuCustomize(s, c).freqs, CpuNew(s, c))
      /\ CpuCustomize(s, c).name \in {"stock", "SLT"}
  <2>1. CASE s = "Erista"
    <3>1. CpuCustomize(s, c) = [freqs |-> eristaCpuDvfsTable, name |-> "stock"]
      BY <2>1 DEF CpuCustomize
    <3> QED
      BY <3>1, <2>1, CpuTables DEF CpuNew
  <2>2. CASE s = "Mariko" /\ c.marikoCpuUV = 0
    <3>1. CpuCustomize(s, c) = [freqs |-> marikoCpuDvfsTable, name |-> "stock"]
      BY <2>2 DEF CpuCustomize
    <3> QED
      BY <3>1, <2>2, CpuTables DEF CpuNew
  <2>3. CASE s = "Mariko" /\ c.marikoCpuUV # 0
    <3>1. CpuCustomize(s, c) = [freqs |-> marikoCpuDvfsTableSLT, name |-> "SLT"]
      BY <2>3 DEF CpuCustomize
    <3> QED
      BY <3>1, <2>3, CpuTables DEF CpuNew
  <2> QED
    BY <1>1, <2>1, <2>2, <2>3
<1>3. /\ BeginsGpu(GpuCustomize(s, c).freqs, GpuNew(s))
      /\ GpuCustomize(s, c).name \in {"stock", "SLT", "HiOPT"}
  <2> USE DEF marikoGpuDvfsTable, marikoGpuDvfsTableSLT, marikoGpuDvfsTableHiOPT, eristaGpuDvfsTable
  <2>1. CASE s = "Erista"
    <3>1. GpuCustomize(s, c) = [freqs |-> eristaGpuDvfsTable, name |-> "stock"]
      BY <2>1 DEF GpuCustomize
    <3> QED
      BY <3>1, <2>1, GpuTables DEF GpuNew
  <2>2. CASE s = "Mariko"
    <3>1. GpuCustomize(s, c).freqs = GpuSteps(16) \o <<1267200>>
          /\ GpuCustomize(s, c).name \in {"stock", "SLT", "HiOPT"}
      <4>1. CASE c.marikoGpuUV = 1
        BY <2>2, <4>1 DEF GpuCustomize
      <4>2. CASE c.marikoGpuUV = 2
        BY <2>2, <4>2 DEF GpuCustomize
      <4>3. CASE c.marikoGpuUV \notin {1, 2}
        BY <2>2, <4>3 DEF GpuCustomize
      <4> QED
        BY <4>1, <4>2, <4>3
    <3> QED
      BY <3>1, <2>2, GpuTables DEF GpuNew
  <2> QED
    BY <1>1, <2>1, <2>2
<1> QED
  BY <1>2, <1>3

LEMMA CpuKhzIs ==
    ASSUME NEW i \in 1..22
    PROVE  CpuKhz(i) \in Int /\ 204000 <= CpuKhz(i) /\ CpuKhz(i) <= 2397000
BY SMT DEF CpuKhz

MemVoltOK(v) == Between(v, 1100000, 1250000) /\ v % MemVoltStep = 0
VddqOK(v)    == Between(v, 550000, 650000) /\ v % VddqStep = 0

(* The words by which a regulator is recognised, and its voltage.          *)
Guarded(v) == MemVoltOK(v) \/ VddqOK(v) \/ v \in {12500, 600000, 5000, 250000}

(* The words of the stock tables of frequencies.                           *)
Stock(v) == \/ \E i \in 1..18 : v = CpuKhz(i)
            \/ \E i \in 1..17 : v = GpuKhz(i)
            \/ v \in {0, 51, 1120000}

LEMMA StockNotGuarded ==
    ASSUME NEW v, Stock(v)
    PROVE  ~Guarded(v)
<1> USE DEF MemVoltStep, VddqStep, Guarded, MemVoltOK, VddqOK
<1>1. ASSUME NEW i \in 1..18 PROVE ~Guarded(CpuKhz(i))
  BY BetweenDef, SMT DEF CpuKhz
<1>2. ASSUME NEW i \in 1..17 PROVE ~Guarded(GpuKhz(i))
  BY BetweenDef, SMT DEF GpuKhz
<1>3. ~Guarded(0) /\ ~Guarded(51) /\ ~Guarded(1120000)
  BY BetweenDef, SMT
<1> HIDE DEF Guarded
<1> QED
  BY <1>1, <1>2, <1>3, SMT DEF Stock

-----------------------------------------------------------------------------
(***************************************************************************)
(* Rows of the tables, and where in an image they lie.                     *)
(***************************************************************************)
LEMMA CpuRowIs ==
    ASSUME NEW s \in Socs, NEW f \in Int, NEW name \in {"stock", "SLT"}
    PROVE  \E k \in {51, 52}, v \in {0, 51, 52, 1120000, 1235000} :
             /\ CpuRow(s, f, name) = <<f, k, v, 0>>
             /\ name = "stock" => k = 51
             /\ name = "stock" /\ f < 2091000 => v \in {0, 51, 1120000}
<1> DEFINE first1235 == IF name = "SLT" THEN 2193000 ELSE 2091000
           k == Coefficients(name)
           v == CASE f < 1020000                       -> 0
                  [] s = "Erista" /\ f >= 1020000      -> k
                  [] s = "Mariko" /\ f >= 1020000 /\ f < first1235 -> 1120000
                  [] s = "Mariko" /\ f >= first1235    -> 1235000
<1>1. CpuRow(s, f, name) = <<f, k, v, 0>>
  BY SMT DEF CpuRow
<1>2. k \in {51, 52} /\ (name = "stock" => k = 51)
  BY SMT DEF Coefficients
<1>3. first1235 \in Int /\ first1235 > 1020000 /\ (name = "stock" => first1235 = 2091000)
  BY SMT
<1> HIDE DEF k, first1235
<1>4. f < 1020000 => v = 0
  BY <1>3, SMT
<1>5. s = "Erista" /\ ~(f < 1020000) => v = k
  BY <1>3, SMT
<1>6. s = "Mariko" /\ ~(f < 1020000) /\ f < first1235 => v = 1120000
  BY <1>3, SMT
<1>7. s = "Mariko" /\ ~(f < 1020000) /\ ~(f < first1235) => v = 1235000
  BY <1>3, SMT
<1> HIDE DEF v
<1>8. s = "Mariko" \/ s = "Erista"
  BY DEF Socs
<1>9. /\ v \in {0, 51, 52, 1120000, 1235000}
      /\ name = "stock" /\ f < 2091000 => v \in {0, 51, 1120000}
  BY <1>2, <1>3, <1>4, <1>5, <1>6, <1>7, <1>8, SMT
<1> QED
  BY <1>1, <1>2, <1>9, SMT

LEMMA GpuRowIs ==
    ASSUME NEW f, NEW name \in {"stock", "SLT", "HiOPT"}
    PROVE  \E k \in {51, 52, 53} :
             GpuRow(f, name) = <<f, 0, k, k>> /\ (name = "stock" => k = 51)
BY DEF GpuRow, Coefficients

LEMMA TableWord ==
    ASSUME NEW head \in Int, NEW n \in Nat, NEW b \in head..(head + RowSize * n - 1)
    PROVE  \E i \in 1..n, r \in 1..4 :
              /\ b = head + RowSize * (i - 1) + r - 1
              /\ i = 1 + (b - head) \div RowSize
              /\ r = 1 + ((b - head) % RowSize)
<1> DEFINE d == b - head
           i == 1 + d \div 4
           r == 1 + (d % 4)
<1>1. d \in Nat /\ d < 4 * n
  BY DEF RowSize
<1>2. d \div 4 \in Nat /\ d % 4 \in 0..3 /\ d = 4 * (d \div 4) + (d % 4)
  BY <1>1
<1>3. i \in 1..n /\ r \in 1..4 /\ b = head + 4 * (i - 1) + r - 1
  BY <1>1, <1>2
<1> QED
  BY <1>3 DEF RowSize

LEMMA PutTableIs ==
    ASSUME NEW head \in Int, NEW n \in Nat, NEW rows, Len(rows) = n,
           NEW b \in DOMAIN PutTable(head, rows)
    PROVE  /\ b \in head..(head + RowSize * n - 1)
           /\ \E i \in 1..n, r \in 1..4 :
                 /\ b = head + RowSize * (i - 1) + r - 1
                 /\ PutTable(head, rows)[b] = rows[i][r]
<1>1. b \in head..(head + RowSize * n - 1)
  BY DEF PutTable
<1>2. PutTable(head, rows)[b] = rows[1 + (b - head) \div RowSize][1 + ((b - head) % RowSize)]
  BY <1>1 DEF PutTable
<1>3. \E i \in 1..n, r \in 1..4 :
         /\ b = head + RowSize * (i - 1) + r - 1
         /\ i = 1 + (b - head) \div RowSize
         /\ r = 1 + ((b - head) % RowSize)
  BY <1>1, TableWord
<1>4. PICK i \in 1..n, r \in 1..4 :
         /\ b = head + RowSize * (i - 1) + r - 1
         /\ i = 1 + (b - head) \div RowSize
         /\ r = 1 + ((b - head) % RowSize)
  BY <1>3
<1>5. PutTable(head, rows)[b] = rows[i][r]
  BY <1>2, <1>4, Zenon
<1> QED
  BY <1>1, <1>4, <1>5

LEMMA WordOfRow ==
    ASSUME NEW w, NEW a \in Int, NEW n \in Nat, NEW rows, Len(rows) = n, TableEndsAt(w, a, rows),
           \A i \in 1..n : Len(rows[i]) = 4,
           NEW b \in TableHead(a, n)..(a + RowSize - 1)
    PROVE  \E i \in 1..n, r \in 1..4 : At(w, b) = rows[i][r]
<1>1. TableHead(a, n) \in Int /\ b \in TableHead(a, n)..(TableHead(a, n) + RowSize * n - 1)
  BY DEF TableHead, RowSize
<1>2. PICK i \in 1..n, r \in 1..4 : b = TableHead(a, n) + RowSize * (i - 1) + r - 1
  <2>1. \E i \in 1..n, r \in 1..4 :
           /\ b = TableHead(a, n) + RowSize * (i - 1) + r - 1
           /\ i = 1 + (b - TableHead(a, n)) \div RowSize
           /\ r = 1 + ((b - TableHead(a, n)) % RowSize)
    BY <1>1, TableWord
  <2> QED
    BY <2>1
<1>3. Holds(w, TableHead(a, n) + RowSize * (i - 1), rows[i])
  BY DEF TableEndsAt
<1>4. r \in 1..Len(rows[i])
  <2>1. i \in 1..n
    BY <1>2
  <2>2. Len(rows[i]) = 4
    BY <2>1, Zenon
  <2> QED
    BY <1>2, <2>2
<1>5. At(w, TableHead(a, n) + RowSize * (i - 1) + r - 1) = rows[i][r]
  BY <1>3, <1>4 DEF Holds
<1> QED
  BY <1>2, <1>5

LEMMA CpuStockBehind ==
    ASSUME NEW s \in Socs, NEW w, NEW a \in Int, Valid(s, w, "CpuTable", a),
           NEW b \in TableHead(a, CpuOld(s))..(a + RowSize - 1)
    PROVE  Stock(At(w, b))
<1> DEFINE t == CpuDefault(s)
           n == CpuOld(s)
           rows == [i \in DOMAIN t |-> CpuRow(s, t[i], "stock")]
<1>1. t \in Seq(Int) /\ Len(t) = n /\ n \in Nat /\ n \in 16..18 /\ \A i \in 1..n : t[i] = CpuKhz(i)
  BY DefaultTables DEF BeginsCpu, CpuOld
<1>2. TableEndsAt(w, a, rows)
  BY DEF Valid
<1>3. DOMAIN t = 1..n /\ rows = [i \in 1..n |-> CpuRow(s, t[i], "stock")]
  BY <1>1, LenProperties
<1>4. Len(rows) = n
  BY <1>1, <1>3
<1>5. ASSUME NEW i \in 1..n
      PROVE  /\ i \in 1..18
             /\ \E v \in {0, 51, 1120000} : rows[i] = <<CpuKhz(i), 51, v, 0>>
  <2>1. i \in 1..18 /\ t[i] = CpuKhz(i)
    BY <1>1
  <2>2. CpuKhz(i) \in Int /\ CpuKhz(i) < 2091000
    BY <2>1, SMT DEF CpuKhz
  <2>3. rows[i] = CpuRow(s, CpuKhz(i), "stock")
    BY <1>3, <2>1
  <2> QED
    BY <2>1, <2>2, <2>3, CpuRowIs, SMT
<1> HIDE DEF t, rows
<1>6. ASSUME NEW i \in 1..n, NEW r \in 1..4
      PROVE  Len(rows[i]) = 4 /\ Stock(rows[i][r])
  BY <1>5, SMT DEF Stock
<1>7. PICK i \in 1..n, r \in 1..4 : At(w, b) = rows[i][r]
  BY <1>1, <1>2, <1>4, <1>6, WordOfRow, SMTT(30)
<1> QED
  BY <1>6, <1>7

LEMMA GpuStockBehind ==
    ASSUME NEW s \in Socs, NEW w, NEW a \in Int, Valid(s, w, "GpuTable", a),
           NEW b \in TableHead(a, GpuOld(s))..(a + RowSize - 1)
    PROVE  Stock(At(w, b))
<1> DEFINE t == GpuDefault(s)
           n == GpuOld(s)
           rows == [i \in DOMAIN t |-> GpuRow(t[i], "stock")]
<1>1. t \in Seq(Int) /\ Len(t) = n /\ n \in Nat /\ n \in 12..17 /\ \A i \in 1..n : t[i] = GpuKhz(i)
  BY DefaultTables DEF BeginsGpu, GpuOld
<1>2. TableEndsAt(w, a, rows)
  BY DEF Valid
<1>3. DOMAIN t = 1..n /\ rows = [i \in 1..n |-> GpuRow(t[i], "stock")]
  BY <1>1, LenProperties
<1>4. Len(rows) = n
  BY <1>1, <1>3
<1>5. ASSUME NEW i \in 1..n
      PROVE  i \in 1..17 /\ rows[i] = <<GpuKhz(i), 0, 51, 51>>
  <2>1. i \in 1..17 /\ t[i] = GpuKhz(i)
    BY <1>1
  <2>3. rows[i] = GpuRow(GpuKhz(i), "stock")
    BY <1>3, <2>1
  <2> QED
    BY <2>1, <2>3, GpuRowIs
<1> HIDE DEF t, rows
<1>6. ASSUME NEW i \in 1..n, NEW r \in 1..4
      PROVE  Len(rows[i]) = 4 /\ Stock(rows[i][r])
  BY <1>5, SMT DEF Stock
<1>7. PICK i \in 1..n, r \in 1..4 : At(w, b) = rows[i][r]
  <2>1. /\ n \in Nat
        /\ \A i \in 1..n : Len(rows[i]) = 4
        /\ b \in TableHead(a, n)..(a + RowSize - 1)
    BY <1>1, <1>6
  <2> HIDE DEF n
  <2> QED
    BY <1>2, <1>4, <2>1, WordOfRow
<1> QED
  BY <1>6, <1>7

-----------------------------------------------------------------------------
(***************************************************************************)
(* The patch that is found, and what it writes behind it.                  *)
(***************************************************************************)
LEMMA FirstIndex ==
    ASSUME NEW T \in SUBSET Nat, T # {}
    PROVE  \E x \in T : \A y \in T : x <= y
<1> DEFINE R == OpToRel(<, Nat)
<1>0. IsWellFoundedOn(R, Nat)
  BY NatLessThanWellFounded DEF OpToRel
<1>1. PICK x \in T : \A y \in T : <<y, x>> \notin R
  <2> HIDE DEF R
  <2> QED
    BY <1>0, WFMin, Zenon
<1>2. \A y \in T : <<y, x>> \in Nat \X Nat
  OBVIOUS
<1>3. \A y \in T : ~(y < x)
  BY <1>1, <1>2 DEF OpToRel
<1> QED
  BY <1>3

(* Patches of one console only.                                            *)
PatchOf(s, p) ==
    /\ p \in Patches
    /\ s = "Erista" => p \notin {"CpuVdd", "CpuDfll", "Dvb", "Vddq"}
    /\ s = "Mariko" => p # "GpuPll"

LEMMA PatchesOfAre ==
    ASSUME NEW s \in Socs
    PROVE  /\ Len(PatchesOf(s)) \in Nat
           /\ \A k \in 1..Len(PatchesOf(s)) : PatchOf(s, PatchesOf(s)[k])
BY SMT DEF Socs, PatchesOf, PatchOf, Patches

LEMMA FoundIsPatch ==
    ASSUME NEW s \in Socs, NEW w, NEW a, Found(s, w, a) # "none"
    PROVE  /\ PatchOf(s, Found(s, w, a))
           /\ Matches(s, w, Found(s, w, a), a)
           /\ Valid(s, w, Found(s, w, a), a)
<1> DEFINE ok == {k \in 1..Len(PatchesOf(s)) :
                    Matches(s, w, PatchesOf(s)[k], a) /\ Valid(s, w, PatchesOf(s)[k], a)}
           first == CHOOSE k \in ok : \A j \in ok : k <= j
<1>1. ok # {} /\ Found(s, w, a) = PatchesOf(s)[first]
  BY Zenon DEF Found
<1>2. ok \in SUBSET Nat
  BY PatchesOfAre
<1>3. \E k \in ok : \A j \in ok : k <= j
  <2> HIDE DEF ok
  <2> QED
    BY <1>1, <1>2, FirstIndex, Zenon
<1>4. first \in ok
  <2> HIDE DEF ok
  <2> QED
    BY <1>3, Zenon
<1>5. /\ first \in 1..Len(PatchesOf(s))
      /\ Matches(s, w, PatchesOf(s)[first], a)
      /\ Valid(s, w, PatchesOf(s)[first], a)
  <2> HIDE DEF first
  <2> QED
    BY <1>4, Zenon
<1>6. PatchOf(s, PatchesOf(s)[first])
  <2> HIDE DEF first, ok
  <2> QED
    BY <1>5, PatchesOfAre, Zenon
<1> QED
  <2> HIDE DEF first, ok
  <2> QED
    BY <1>1, <1>5, <1>6, Zenon

LEMMA OverIs ==
    ASSUME NEW f, NEW g
    PROVE  /\ DOMAIN Over(f, g) = DOMAIN f \cup DOMAIN g
           /\ \A b \in DOMAIN Over(f, g) : Over(f, g)[b] = IF b \in DOMAIN f THEN f[b] ELSE g[b]
BY DEF Over

LEMMA NothingIs == DOMAIN Nothing = {}
BY DEF Nothing

LEMMA KhzListIs ==
    ASSUME NEW s \in Socs
    PROVE  /\ Len(KhzList(s)) = (IF s = "Mariko" THEN 3 ELSE 10)
           /\ \A i \in 1..Len(KhzList(s)) : KhzList(s)[i] \in Nat /\ ~Guarded(KhzList(s)[i])
           /\ MTC_TABLE_REV(s) \in Nat /\ ~Guarded(MTC_TABLE_REV(s))
<1> USE DEF KhzList, MTC_TABLE_REV
<1>1. s = "Mariko" \/ s = "Erista"
  BY DEF Socs
<1>2. Len(KhzList(s)) = (IF s = "Mariko" THEN 3 ELSE 10)
  BY <1>1, SMT
<1>3. \A v \in {1600000, 1331200, 204000, 1065600, 800000, 665600, 408000, 102000, 68000, 40800, 3, 7} :
         ~Guarded(v)
  BY BetweenDef, SMT DEF Guarded, MemVoltOK, VddqOK, MemVoltStep, VddqStep
<1>4. ASSUME NEW i \in 1..Len(KhzList(s))
      PROVE  KhzList(s)[i] \in {1600000, 1331200, 204000, 1065600, 800000, 665600, 408000, 102000, 68000, 40800}
  BY <1>1, <1>2, SMT
<1> QED
  BY <1>1, <1>2, <1>3, <1>4, SMT

LEMMA MtcWords ==
    ASSUME NEW s \in Socs, NEW w, NEW a, Valid(s, w, "Mtc", a), NEW i \in 1..Len(KhzList(s))
    PROVE  ~Guarded(At(w, MtcTable(a, i))) /\ ~Guarded(At(w, MtcTable(a, i) - 1))
<1>1. At(w, MtcTable(a, i)) = KhzList(s)[i] /\ At(w, MtcTable(a, i) - 1) = MTC_TABLE_REV(s)
  BY DEF Valid
<1> QED
  BY <1>1, KhzListIs

(* The words a patch may write: the whole of a table and of what it grows  *)
(* into.                                                                   *)
WriteSpan(s, c, w, p, a) ==
    CASE p = "CpuTable" ->
            LET head == TableHead(a, CpuOld(s)) IN head..(head + RowSize * CpuNew(s, c) - 1)
      [] p = "GpuTable" ->
            LET head == TableHead(a, GpuOld(s)) IN head..(head + RowSize * GpuNew(s) - 1)
      [] p = "CpuVolt"  -> {a} \cup {b \in {a - 5, a - 1} : At(w, b) = 620}
      [] p = "CpuDfll"  -> a..(a + 3)
      [] p = "GpuAsm"   -> a..(a + 1)
      [] p = "Mtc"      -> a..(a + 2) \cup
            UNION {(MtcTable(a, i) - 1)..(MtcTable(a, i) + 2) : i \in MtcSources(s)}
      [] p = "Dvb"      -> (a + RowSize)..(a + RowSize + 3)
      [] p = "Pllm"     -> {a, a + 2}
      [] p \in {"CpuVdd", "GpuPll", "Max", "Vddq", "MemVolt"} -> {a}

LEMMA CpuTableSpan ==
    ASSUME NEW s \in Socs, NEW c, NEW a \in Int
    PROVE  LET head == TableHead(a, CpuOld(s)) IN
           DOMAIN CpuFreqCvbTable(s, c, a) = head..(head + RowSize * CpuNew(s, c) - 1)
<1> DEFINE t == CpuCustomize(s, c)
           volt == CpuMaxVolt(s, c) * 1000
           NewRow(i) ==
             LET row == CpuRow(s, t.freqs[i], t.name) IN
             CASE volt = 0 \/ t.freqs[i] < CpuFreqThreshold(s, c) -> row
               [] volt # 0 /\ t.freqs[i] >= CpuFreqThreshold(s, c) ->
                    IF s = "Mariko" THEN [row EXCEPT ![3] = volt] ELSE [row EXCEPT ![2] = volt]
           n == GetDvfsTableEntryCount(t.freqs)
           rows == [i \in 1..n |-> NewRow(i)]
<1>1. CpuFreqCvbTable(s, c, a) = PutTable(TableHead(a, Len(CpuDefault(s))), rows)
  BY DEF CpuFreqCvbTable
<1>2. n = CpuNew(s, c) /\ n \in Nat
  <2>1. n = CpuNew(s, c)
    BY CustomTables DEF BeginsCpu, GetDvfsTableEntryCount
  <2>2. CpuNew(s, c) \in Nat
    BY DEF CpuNew
  <2> QED
    BY <2>1, <2>2
<1>3. Len(CpuDefault(s)) = CpuOld(s)
  BY DefaultTables DEF BeginsCpu
<1> HIDE DEF n, NewRow
<1>4. Len(rows) = n
  BY <1>2
<1> HIDE DEF rows
<1> QED
  BY <1>1, <1>2, <1>3, <1>4 DEF PutTable

LEMMA GpuTableSpan ==
    ASSUME NEW s \in Socs, NEW c, NEW a \in Int
    PROVE  LET head == TableHead(a, GpuOld(s)) IN
           DOMAIN GpuFreqCvbTable(s, c, a) = head..(head + RowSize * GpuNew(s) - 1)
<1> DEFINE t == GpuCustomize(s, c)
           static == s = "Mariko" /\ c.marikoGpuUV = 3
           NewRow(i) ==
             LET row == GpuRow(t.freqs[i], t.name) IN
             IF static THEN [row EXCEPT ![3] = c.marikoGpuVoltArray[i] * 1000, ![4] = 0]
             ELSE [row EXCEPT ![3] = @ - c.commonGpuVoltOffset * 1000]
           n == GetDvfsTableEntryCount(t.freqs)
           rows == [i \in 1..n |-> NewRow(i)]
<1>1. GpuFreqCvbTable(s, c, a) = PutTable(TableHead(a, Len(GpuDefault(s))), rows)
  BY DEF GpuFreqCvbTable
<1>2. n = GpuNew(s) /\ n \in Nat
  BY CustomTables DEF BeginsGpu, GetDvfsTableEntryCount, GpuNew
<1>3. Len(GpuDefault(s)) = GpuOld(s)
  BY DefaultTables DEF BeginsGpu
<1> HIDE DEF n, NewRow
<1>4. Len(rows) = n
  BY <1>2
<1> HIDE DEF rows
<1> QED
  BY <1>1, <1>2, <1>3, <1>4 DEF PutTable

LEMMA PutOne ==
    ASSUME NEW x \in Int, NEW v
    PROVE  DOMAIN Put(x, <<v>>) = {x} /\ Put(x, <<v>>)[x] = v
BY DEF Put

LEMMA OverDomain ==
    ASSUME NEW f, NEW g, NEW b \in DOMAIN Over(f, g)
    PROVE  b \in DOMAIN f \/ b \in DOMAIN g
<1>1. DOMAIN Over(f, g) = DOMAIN f \cup DOMAIN g
  BY OverIs, Zenon
<1> QED
  BY <1>1, Zenon

(* What SltMin of CpuVoltRange writes: the lower minimum, over 620 only.   *)
Lowered(w, x) == IF At(w, x) = 620 THEN Put(x, <<600>>) ELSE Nothing

LEMMA LoweredAt ==
    ASSUME NEW w, NEW x \in Int, NEW y \in DOMAIN Lowered(w, x)
    PROVE  y = x /\ At(w, x) = 620 /\ Lowered(w, x)[y] = 600
<1>1. CASE At(w, x) = 620
  <2>1. Lowered(w, x) = Put(x, <<600>>)
    BY <1>1 DEF Lowered
  <2>2. DOMAIN Put(x, <<600>>) = {x} /\ Put(x, <<600>>)[x] = 600
    BY DEF Put
  <2> QED
    BY <1>1, <2>1, <2>2
<1>2. CASE At(w, x) # 620
  <2>1. Lowered(w, x) = Nothing
    BY <1>2 DEF Lowered
  <2> QED
    BY <2>1, NothingIs, Zenon
<1> QED
  BY <1>1, <1>2

LEMMA CpuVoltIs ==
    ASSUME NEW s, NEW c, NEW w, NEW a
    PROVE  \/ CpuMaxVolt(s, c) = 0 /\ CpuVoltRange(s, c, w, a) = Nothing
           \/ /\ CpuMaxVolt(s, c) # 0 /\ s = "Mariko" /\ c.marikoCpuUV # 0
              /\ CpuVoltRange(s, c, w, a) = Over(Put(a, <<CpuMaxVolt(s, c)>>),
                                                 Over(Lowered(w, a - 5), Lowered(w, a - 1)))
           \/ /\ CpuMaxVolt(s, c) # 0 /\ ~(s = "Mariko" /\ c.marikoCpuUV # 0)
              /\ CpuVoltRange(s, c, w, a) = Over(Put(a, <<CpuMaxVolt(s, c)>>), Nothing)
BY Zenon DEF CpuVoltRange, Lowered

LEMMA CpuVoltSpan ==
    ASSUME NEW s, NEW c, NEW w, NEW a \in Int, NEW b \in DOMAIN CpuVoltRange(s, c, w, a)
    PROVE  b = a \/ (b \in {a - 5, a - 1} /\ At(w, b) = 620)
<1> DEFINE P == Put(a, <<CpuMaxVolt(s, c)>>)
<1>0. DOMAIN P = {a}
  BY PutOne
<1>1. \/ CpuVoltRange(s, c, w, a) = Nothing
      \/ CpuVoltRange(s, c, w, a) = Over(P, Over(Lowered(w, a - 5), Lowered(w, a - 1)))
      \/ CpuVoltRange(s, c, w, a) = Over(P, Nothing)
  BY CpuVoltIs, Zenon
<1> HIDE DEF P
<1>2. CASE CpuVoltRange(s, c, w, a) = Nothing
  BY <1>2, NothingIs
<1>3. CASE CpuVoltRange(s, c, w, a) = Over(P, Nothing)
  <2>1. b \in DOMAIN P \/ b \in DOMAIN Nothing
    BY <1>3, OverDomain, Zenon
  <2> QED
    BY <2>1, <1>0, NothingIs
<1>4. CASE CpuVoltRange(s, c, w, a) = Over(P, Over(Lowered(w, a - 5), Lowered(w, a - 1)))
  <2>1. b \in DOMAIN P \/ b \in DOMAIN Over(Lowered(w, a - 5), Lowered(w, a - 1))
    BY <1>4, OverDomain, Zenon
  <2>2. b \in DOMAIN P \/ b \in DOMAIN Lowered(w, a - 5) \/ b \in DOMAIN Lowered(w, a - 1)
    BY <2>1, OverDomain, ZenonT(60)
  <2>0. a - 5 \in Int /\ a - 1 \in Int
    OBVIOUS
  <2>4. CASE b \in DOMAIN Lowered(w, a - 5)
    BY <2>0, <2>4, LoweredAt
  <2>5. CASE b \in DOMAIN Lowered(w, a - 1)
    BY <2>0, <2>5, LoweredAt
  <2>6. CASE b \in DOMAIN P
    BY <2>6, <1>0
  <2> QED
    BY <2>2, <2>4, <2>5, <2>6
<1> QED
  BY <1>1, <1>2, <1>3, <1>4

MtcTop(s, c) ==
    IF s = "Mariko"
    THEN <<EmcMaxClock(s, c), Pllmb(EmcMaxClock(s, c)).divm, Pllmb(EmcMaxClock(s, c)).divn>>
    ELSE <<EmcMaxClock(s, c)>>
MtcMoved(s, w, a) ==
    [b \in UNION {(MtcTable(a, i) - 1)..(MtcTable(a, i) + 2) : i \in MtcSources(s)}
        |-> At(w, b + MtcSize)]

LEMMA MtcIs ==
    ASSUME NEW s, NEW c, NEW w, NEW a
    PROVE  MemFreqMtcTable(s, c, w, a) =
             IF Overclocked(s, c) THEN Over(Put(a, MtcTop(s, c)), MtcMoved(s, w, a)) ELSE Nothing
BY Zenon DEF MemFreqMtcTable, MtcTop, MtcMoved

LEMMA MtcTopIs ==
    ASSUME NEW s, NEW c, NEW a \in Int
    PROVE  /\ a \in DOMAIN Put(a, MtcTop(s, c))
           /\ DOMAIN Put(a, MtcTop(s, c)) \subseteq a..(a + 2)
           /\ Put(a, MtcTop(s, c))[a] = EmcMaxClock(s, c)
           /\ s = "Mariko" =>
                /\ DOMAIN Put(a, MtcTop(s, c)) = a..(a + 2)
                /\ Put(a, MtcTop(s, c))[a + 1] = Pllmb(EmcMaxClock(s, c)).divm
                /\ Put(a, MtcTop(s, c))[a + 2] = Pllmb(EmcMaxClock(s, c)).divn
<1>1. CASE s = "Mariko"
  BY <1>1 DEF Put, MtcTop
<1>2. CASE s # "Mariko"
  BY <1>2 DEF Put, MtcTop
<1> QED
  BY <1>1, <1>2

LEMMA NewDvbVoltsLen ==
    ASSUME NEW c, c.marikoEmcMaxClock \in Int, c.marikoEmcDvbShift \in Int
    PROVE  \E x, y, z \in Int : NewDvbVolts(c) = <<x, y, z>> /\ z <= y /\ y <= x
<1> DEFINE clk == c.marikoEmcMaxClock
           add == 25 * c.marikoEmcDvbShift
           Fine(v) == \E q, r, t \in Int : v = <<q, r, t>> /\ t <= r /\ r <= q
<1>0. clk \in Int /\ add \in Int
  OBVIOUS
<1>1. \/ clk < 1862400 \/ Between(clk, 1862400, 2131199) \/ Between(clk, 2131200, 2399999)
      \/ Between(clk, 2400000, 2665599) \/ Between(clk, 2665600, 2931199)
      \/ Between(clk, 2931200, 3199999) \/ clk >= 3200000
  BY <1>0, BetweenDef, SMT
<1>2. NewDvbVolts(c) =
        CASE clk < 1862400                  -> <<675, 650, 637>>
          [] Between(clk, 1862400, 2131199) -> <<700, 675, 650>>
          [] Between(clk, 2131200, 2399999) -> <<725, 700, 675>>
          [] Between(clk, 2400000, 2665599) -> DvbVolt(c, 750, 725, 700)
          [] Between(clk, 2665600, 2931199) -> DvbVolt(c, 775, 750, 725)
          [] Between(clk, 2931200, 3199999) -> DvbVolt(c, 800, 775, 750)
          [] clk >= 3200000                 -> DvbVolt(c, 800, 800, 775)
  BY SMT DEF NewDvbVolts
<1> HIDE DEF clk
<1>3. NewDvbVolts(c) \in {<<675, 650, 637>>, <<700, 675, 650>>, <<725, 700, 675>>,
         DvbVolt(c, 750, 725, 700), DvbVolt(c, 775, 750, 725), DvbVolt(c, 800, 775, 750),
         DvbVolt(c, 800, 800, 775)}
  BY <1>1, <1>2, SMT
<1> HIDE DEF add
<1>6. ASSUME NEW x \in Int, NEW y \in Int, NEW z \in Int, z <= y, y <= x
      PROVE  Fine(DvbVolt(c, x, y, z))
  <2>1. Least(z + add, 1000) <= Least(y + add, 1025) /\ Least(y + add, 1025) <= Least(x + add, 1050)
    BY <1>0, <1>6, SMT DEF Least
  <2>2. /\ Least(z + add, 1000) \in Int /\ Least(y + add, 1025) \in Int
        /\ Least(x + add, 1050) \in Int
    BY <1>0, SMT DEF Least
  <2>3. DvbVolt(c, x, y, z) = <<Least(x + add, 1050), Least(y + add, 1025), Least(z + add, 1000)>>
    BY SMT DEF add, DvbVolt
  <2> QED
    BY <2>1, <2>2, <2>3, SMT
<1>7. Fine(<<675, 650, 637>>) /\ Fine(<<700, 675, 650>>) /\ Fine(<<725, 700, 675>>)
  BY SMT
<1> HIDE DEF Fine
<1>8. /\ Fine(DvbVolt(c, 750, 725, 700)) /\ Fine(DvbVolt(c, 775, 750, 725))
      /\ Fine(DvbVolt(c, 800, 775, 750)) /\ Fine(DvbVolt(c, 800, 800, 775))
  BY <1>6, SMT
<1>9. Fine(NewDvbVolts(c))
  BY <1>3, <1>7, <1>8, SMT
<1> QED
  BY <1>9, SMT DEF Fine

(* A row and the words it holds.                                           *)
RowOf(row, e, x, y, z) == Len(row) = 4 /\ row[1] = e /\ row[2] = x /\ row[3] = y /\ row[4] = z

LEMMA HeadRow ==
    ASSUME NEW e \in Int, NEW x \in Int, NEW y \in Int, NEW z \in Int
    PROVE  RowOf(<<e>> \o <<x, y, z>>, e, x, y, z)
<1> DEFINE f == <<e>>
           g == <<x, y, z>>
<1>1. f \in Seq(Int) /\ Len(f) = 1 /\ f[1] = e
  OBVIOUS
<1>2. g \in Seq(Int) /\ Len(g) = 3 /\ g[1] = x /\ g[2] = y /\ g[3] = z
  OBVIOUS
<1> HIDE DEF f, g
<1>3. f \o g = Joined(f, g, 1, 3)
  BY <1>1, <1>2, Concat, Zenon
<1>4. Joined(f, g, 1, 3) = [i \in 1..4 |-> IF i <= 1 THEN f[i] ELSE g[i - 1]]
  BY DEF Joined
<1>5. RowOf(f \o g, e, x, y, z)
  BY <1>1, <1>2, <1>3, <1>4 DEF RowOf
<1> QED
  BY <1>5 DEF f, g

LEMMA InSpan ==
    ASSUME NEW s \in Socs, NEW c, c.marikoEmcMaxClock \in Int, c.marikoEmcDvbShift \in Int,
           NEW w, NEW p, PatchOf(s, p), NEW a \in Int, NEW b \in DOMAIN Writes(s, c, w, p, a)
    PROVE  b \in WriteSpan(s, c, w, p, a)
<1>1. CASE p = "CpuTable"
  BY <1>1, CpuTableSpan, Zenon DEF Writes, WriteSpan
<1>2. CASE p = "GpuTable"
  BY <1>2, GpuTableSpan, Zenon DEF Writes, WriteSpan
<1>3. CASE p = "CpuVolt"
  <2>1. b \in DOMAIN CpuVoltRange(s, c, w, a)
    BY <1>3, Zenon DEF Writes
  <2>2. b = a \/ (b \in {a - 5, a - 1} /\ At(w, b) = 620)
    BY <2>1, CpuVoltSpan
  <2>3. WriteSpan(s, c, w, p, a) = {a} \cup {x \in {a - 5, a - 1} : At(w, x) = 620}
    BY <1>3, Zenon DEF WriteSpan
  <2> QED
    BY <2>2, <2>3
<1>4. CASE p = "CpuDfll"
  <2>1. b \in DOMAIN CpuVoltDfll(c, w, a)
    BY <1>4, Zenon DEF Writes
  <2>2. b \in a..(a + 3)
    BY <2>1, NothingIs DEF CpuVoltDfll, Put
  <2> QED
    BY <1>4, <2>2, Zenon DEF WriteSpan
<1>5. CASE p = "GpuAsm"
  <2>1. b \in DOMAIN GpuFreqMaxAsm(s, c, w, a)
    BY <1>5, Zenon DEF Writes
  <2>2. b \in a..(a + 1)
    BY <2>1 DEF GpuFreqMaxAsm, Put
  <2> QED
    BY <1>5, <2>2, Zenon DEF WriteSpan
<1>6. CASE p = "Mtc"
  <2>1. b \in DOMAIN MemFreqMtcTable(s, c, w, a)
    BY <1>6, Zenon DEF Writes
  <2>2. MemFreqMtcTable(s, c, w, a) = Over(Put(a, MtcTop(s, c)), MtcMoved(s, w, a))
        \/ MemFreqMtcTable(s, c, w, a) = Nothing
    BY MtcIs
  <2>3. b \in DOMAIN Put(a, MtcTop(s, c)) \/ b \in DOMAIN MtcMoved(s, w, a)
    BY <2>1, <2>2, OverDomain, NothingIs, Zenon
  <2>4. DOMAIN Put(a, MtcTop(s, c)) \subseteq a..(a + 2)
    BY MtcTopIs
  <2>5. DOMAIN MtcMoved(s, w, a) = UNION {(MtcTable(a, i) - 1)..(MtcTable(a, i) + 2) : i \in MtcSources(s)}
    BY DEF MtcMoved
  <2> QED
    BY <1>6, <2>3, <2>4, <2>5, Zenon DEF WriteSpan
<1>7. CASE p = "Dvb"
  <2>1. b \in DOMAIN MemFreqDvbTable(c, a)
    BY <1>7, Zenon DEF Writes
  <2>2. PICK x \in Int, y \in Int, z \in Int : NewDvbVolts(c) = <<x, y, z>>
    BY NewDvbVoltsLen, Zenon
  <2> DEFINE row == <<c.marikoEmcMaxClock>> \o NewDvbVolts(c)
  <2>3. Len(row) = 4
    <3>1. RowOf(<<c.marikoEmcMaxClock>> \o <<x, y, z>>, c.marikoEmcMaxClock, x, y, z)
      BY HeadRow
    <3>2. RowOf(row, c.marikoEmcMaxClock, x, y, z)
      BY <2>2, <3>1, Zenon
    <3> QED
      BY <3>2, Zenon DEF RowOf
  <2>4. MemFreqDvbTable(c, a) = Nothing \/ MemFreqDvbTable(c, a) = Put(a + RowSize, row)
    BY Zenon DEF MemFreqDvbTable
  <2> HIDE DEF row
  <2>5. DOMAIN Put(a + RowSize, row) = (a + RowSize)..(a + RowSize + 3)
    BY <2>3 DEF Put, RowSize
  <2>6. b \in (a + RowSize)..(a + RowSize + 3)
    BY <2>1, <2>4, <2>5, NothingIs, Zenon
  <2> QED
    BY <1>7, <2>6, Zenon DEF WriteSpan
<1>8. CASE p = "Pllm"
  <2>1. b \in DOMAIN Put(a, <<2 * At(w, a)>>) \/ b \in DOMAIN Put(a + 2, <<2 * At(w, a)>>)
    BY <1>8, OverDomain, Zenon DEF Writes
  <2>2. DOMAIN Put(a, <<2 * At(w, a)>>) = {a} /\ DOMAIN Put(a + 2, <<2 * At(w, a)>>) = {a + 2}
    <3>1. a + 2 \in Int
      OBVIOUS
    <3> QED
      BY <3>1, PutOne, Zenon
  <2>3. b \in {a, a + 2}
    BY <2>1, <2>2, Zenon
  <2> QED
    BY <1>8, <2>3, Zenon DEF WriteSpan
<1>9. CASE p \in {"CpuVdd", "GpuPll", "Max", "Vddq", "MemVolt"}
  <2>1. WriteSpan(s, c, w, p, a) = {a}
    BY <1>9, Zenon DEF WriteSpan
  <2>2. \E v : Writes(s, c, w, p, a) = Put(a, <<v>>) \/ Writes(s, c, w, p, a) = Nothing
    BY <1>9, Zenon DEF MemFreqMax, MemVoltHandler, EmcVddqVolt, Writes
  <2>3. \A v : DOMAIN Put(a, <<v>>) = {a}
    BY PutOne, Zenon
  <2> QED
    BY <2>1, <2>2, <2>3, NothingIs, Zenon
<1> QED
  BY <1>1, <1>2, <1>3, <1>4, <1>5, <1>6, <1>7, <1>8, <1>9, Zenon DEF PatchOf, Patches

LEMMA MtcTableIs ==
    ASSUME NEW a \in Int, NEW i \in Int
    PROVE  MtcTable(a, i) = a - 4 * (i - 1) /\ MtcTable(a, i) \in Int
BY DEF MtcTable, MtcSize

LEMMA MtcSourcesAre ==
    ASSUME NEW s \in Socs
    PROVE  \A i \in MtcSources(s) : i \in 2..Len(KhzList(s)) /\ i - 1 \in 1..Len(KhzList(s))
<1>1. s = "Mariko" \/ s = "Erista"
  BY DEF Socs
<1>2. Len(KhzList(s)) = (IF s = "Mariko" THEN 3 ELSE 10)
  BY KhzListIs
<1>3. CASE s = "Mariko"
  BY <1>2, <1>3 DEF MtcSources
<1>4. CASE s = "Erista"
  BY <1>2, <1>4 DEF MtcSources
<1> QED
  BY <1>1, <1>3, <1>4

(* Nothing a patch writes behind it is a voltage or a word a regulator is  *)
(* known by; the registers of a timing table are not told apart.           *)
LEMMA WritesBehind ==
    ASSUME NEW s \in Socs, NEW c, c.marikoEmcMaxClock \in Int, c.marikoEmcDvbShift \in Int,
           NEW w, NEW p, PatchOf(s, p), NEW a \in Int, Valid(s, w, p, a),
           NEW b \in DOMAIN Writes(s, c, w, p, a), b < a
    PROVE  \/ ~Guarded(At(w, b))
           \/ /\ p = "Mtc"
              /\ \E i \in MtcSources(s) : b \in {MtcTable(a, i) + 1, MtcTable(a, i) + 2}
<1>0. b \in WriteSpan(s, c, w, p, a)
  BY InSpan, Zenon
<1>1. CASE p = "CpuTable"
  <2>1. b \in TableHead(a, CpuOld(s))..(TableHead(a, CpuOld(s)) + RowSize * CpuNew(s, c) - 1)
    BY <1>0, <1>1, Zenon DEF WriteSpan
  <2>2. b \in TableHead(a, CpuOld(s))..(a + RowSize - 1)
    BY <2>1 DEF TableHead, RowSize, CpuOld, CpuNew
  <2>3. Stock(At(w, b))
    BY <1>1, <2>2, CpuStockBehind
  <2> QED
    BY <2>3, StockNotGuarded
<1>2. CASE p = "GpuTable"
  <2>1. b \in TableHead(a, GpuOld(s))..(TableHead(a, GpuOld(s)) + RowSize * GpuNew(s) - 1)
    BY <1>0, <1>2, Zenon DEF WriteSpan
  <2>2. b \in TableHead(a, GpuOld(s))..(a + RowSize - 1)
    BY <2>1 DEF TableHead, RowSize, GpuOld, GpuNew
  <2>3. Stock(At(w, b))
    BY <1>2, <2>2, GpuStockBehind
  <2> QED
    BY <2>3, StockNotGuarded
<1>3. CASE p = "CpuVolt"
  <2>1. b \in {a} \cup {x \in {a - 5, a - 1} : At(w, x) = 620}
    BY <1>0, <1>3, Zenon DEF WriteSpan
  <2>2. At(w, b) = 620
    BY <2>1
  <2>3. ~Guarded(620)
    BY BetweenDef, SMT DEF Guarded, MemVoltOK, VddqOK, MemVoltStep, VddqStep
  <2> QED
    BY <2>2, <2>3
<1>4. CASE p = "Mtc"
  <2>1. b \in a..(a + 2) \/ \E i \in MtcSources(s) : b \in (MtcTable(a, i) - 1)..(MtcTable(a, i) + 2)
    <3>1. b \in a..(a + 2) \cup
            UNION {(MtcTable(a, i) - 1)..(MtcTable(a, i) + 2) : i \in MtcSources(s)}
      BY <1>0, <1>4, Zenon DEF WriteSpan
    <3> QED
      BY <3>1, Zenon
  <2>2. PICK i \in MtcSources(s) : b \in (MtcTable(a, i) - 1)..(MtcTable(a, i) + 2)
    BY <2>1
  <2>3. i \in 1..Len(KhzList(s)) /\ i \in Int
    BY MtcSourcesAre, KhzListIs
  <2>4. MtcTable(a, i) \in Int
    BY <2>3, MtcTableIs
  <2>5. ~Guarded(At(w, MtcTable(a, i))) /\ ~Guarded(At(w, MtcTable(a, i) - 1))
    BY <1>4, <2>3, MtcWords
  <2>6. b \in {MtcTable(a, i) - 1, MtcTable(a, i), MtcTable(a, i) + 1, MtcTable(a, i) + 2}
    BY <2>2, <2>4
  <2> QED
    BY <1>4, <2>5, <2>6, Zenon
<1>5. CASE p \in {"CpuVdd", "GpuPll", "Max", "Vddq", "MemVolt"}
  <2>1. b \in {a}
    BY <1>0, <1>5, Zenon DEF WriteSpan
  <2> QED
    BY <2>1
<1>6. CASE p \in {"CpuDfll", "GpuAsm", "Dvb", "Pllm"}
  <2>1. b \in a..(a + 3) \/ b \in a..(a + 1) \/ b \in (a + RowSize)..(a + RowSize + 3)
          \/ b \in {a, a + 2}
    BY <1>0, <1>6, Zenon DEF WriteSpan
  <2> QED
    BY <2>1 DEF RowSize
<1> QED
  BY <1>1, <1>2, <1>3, <1>4, <1>5, <1>6, Zenon DEF PatchOf, Patches

-----------------------------------------------------------------------------
(***************************************************************************)
(* Everything that is written is a number.                                 *)
(***************************************************************************)
LEMMA AtInt ==
    ASSUME NEW w, \A b \in DOMAIN w : w[b] \in Int, NEW b
    PROVE  At(w, b) \in Int
BY DEF At

LEMMA CustomInts ==
    ASSUME NEW c \in CustomizeTable
    PROVE  /\ c.mtcConf \in Nat /\ c.commonCpuBoostClock \in Nat /\ c.commonEmcMemVolt \in Nat
           /\ c.eristaCpuMaxVolt \in Nat /\ c.eristaEmcMaxClock \in Nat
           /\ c.marikoCpuMaxVolt \in Nat /\ c.marikoEmcMaxClock \in Nat
           /\ c.marikoEmcVddqVolt \in Nat /\ c.marikoCpuUV \in Nat /\ c.marikoGpuUV \in Nat
           /\ c.commonGpuVoltOffset \in Nat /\ c.marikoEmcDvbShift \in Nat
           /\ c.ramTimingPresets \in Presets /\ c.marikoGpuVoltArray \in [1..17 -> Nat]
           /\ c.custRev \in Nat
BY DEF CustomizeTable

(* A row of a new table: its frequency and numbers.                        *)
IsRow(t, f) == t[1] = f /\ \A r \in 1..4 : t[r] \in Int

(* A row that a table patch writes: its frequency, and coefficients and    *)
(* voltages of which one may be the customisation's.                       *)
CpuVolts == {0, 51, 52, 1120000, 1235000}

IsCpuRow(s, c, t, f) ==
    \/ \E k \in {51, 52}, v \in CpuVolts : t = <<f, k, v, 0>>
    \/ /\ CpuMaxVolt(s, c) # 0 /\ s = "Mariko"
       /\ \E k \in {51, 52} : t = <<f, k, CpuMaxVolt(s, c) * 1000, 0>>
    \/ /\ CpuMaxVolt(s, c) # 0 /\ s = "Erista"
       /\ \E v \in CpuVolts : t = <<f, CpuMaxVolt(s, c) * 1000, v, 0>>

IsGpuRow(s, c, t, f) ==
    \E k \in {51, 52, 53} :
        \/ t = <<f, 0, k - c.commonGpuVoltOffset * 1000, k>>
        \/ s = "Mariko" /\ \E i \in 1..17 : t = <<f, 0, c.marikoGpuVoltArray[i] * 1000, 0>>

LEMMA CpuRowInts ==
    ASSUME NEW s \in Socs, NEW f \in Int, NEW name \in {"stock", "SLT"}, NEW x \in Int
    PROVE  LET row == CpuRow(s, f, name) IN
           IsRow(row, f) /\ IsRow([row EXCEPT ![3] = x], f) /\ IsRow([row EXCEPT ![2] = x], f)
<1>1. PICK k \in {51, 52}, v \in {0, 51, 52, 1120000, 1235000} : CpuRow(s, f, name) = <<f, k, v, 0>>
  BY CpuRowIs, SMT
<1>2. k \in Int /\ v \in Int
  BY <1>1, SMT
<1> QED
  BY <1>1, <1>2, SMT DEF IsRow

LEMMA GpuRowInts ==
    ASSUME NEW f \in Int, NEW name \in {"stock", "SLT", "HiOPT"}, NEW x \in Int
    PROVE  LET row == GpuRow(f, name) IN
           IsRow([row EXCEPT ![3] = x, ![4] = 0], f) /\ IsRow([row EXCEPT ![3] = @ - x], f)
<1>1. PICK k \in {51, 52, 53} : GpuRow(f, name) = <<f, 0, k, k>>
  BY GpuRowIs, ZenonT(30)
<1>2. k \in Int
  BY <1>1
<1> QED
  BY <1>1, <1>2, SMT DEF IsRow

LEMMA CpuRowsIn ==
    ASSUME NEW s \in Socs, NEW c \in CustomizeTable, NEW a
    PROVE  \E rows :
             /\ CpuFreqCvbTable(s, c, a) = PutTable(TableHead(a, CpuOld(s)), rows)
             /\ Len(rows) = CpuNew(s, c)
             /\ \A i \in 1..CpuNew(s, c) :
                   IsRow(rows[i], CpuKhz(i)) /\ IsCpuRow(s, c, rows[i], CpuKhz(i))
<1> DEFINE t == CpuCustomize(s, c)
           volt == CpuMaxVolt(s, c) * 1000
           NewRow(i) ==
             LET row == CpuRow(s, t.freqs[i], t.name) IN
             CASE volt = 0 \/ t.freqs[i] < CpuFreqThreshold(s, c) -> row
               [] volt # 0 /\ t.freqs[i] >= CpuFreqThreshold(s, c) ->
                    IF s = "Mariko" THEN [row EXCEPT ![3] = volt] ELSE [row EXCEPT ![2] = volt]
           n == GetDvfsTableEntryCount(t.freqs)
           rows == [i \in 1..n |-> NewRow(i)]
<1>1. CpuFreqCvbTable(s, c, a) = PutTable(TableHead(a, CpuOld(s)), rows)
  <2>1. CpuFreqCvbTable(s, c, a) = PutTable(TableHead(a, Len(CpuDefault(s))), rows)
    BY Zenon DEF CpuFreqCvbTable
  <2> HIDE DEF rows
  <2> QED
    BY <2>1, DefaultTables DEF BeginsCpu
<1>2. n = CpuNew(s, c) /\ n \in 1..22
  <2>1. n = CpuNew(s, c)
    BY CustomTables DEF BeginsCpu, GetDvfsTableEntryCount
  <2>2. CpuNew(s, c) \in 1..22
    BY DEF CpuNew
  <2> QED
    BY <2>1, <2>2
<1>3. volt \in Int
  BY CustomInts DEF CpuMaxVolt
<1>4. ASSUME NEW i \in 1..n
      PROVE  IsRow(NewRow(i), CpuKhz(i)) /\ IsCpuRow(s, c, NewRow(i), CpuKhz(i))
  <2>1. t.freqs[i] = CpuKhz(i)
    BY <1>2, <1>4, CustomTables DEF BeginsCpu
  <2>2. t.name \in {"stock", "SLT"}
    BY CustomTables
  <2>3. CpuKhz(i) \in Int
    BY <1>2, CpuKhzIs, SMT
  <2>4. CpuFreqThreshold(s, c) \in Int
    BY SMT DEF CpuFreqThreshold, Socs
  <2> DEFINE row == CpuRow(s, CpuKhz(i), t.name)
  <2>5. IsRow(row, CpuKhz(i)) /\ IsRow([row EXCEPT ![3] = volt], CpuKhz(i))
        /\ IsRow([row EXCEPT ![2] = volt], CpuKhz(i))
    <3> HIDE DEF t, volt
    <3> QED
      BY <2>2, <2>3, <1>3, CpuRowInts, Zenon
  <2>6. \/ NewRow(i) = row
        \/ volt # 0 /\ s = "Mariko" /\ NewRow(i) = [row EXCEPT ![3] = volt]
        \/ volt # 0 /\ s # "Mariko" /\ NewRow(i) = [row EXCEPT ![2] = volt]
    <3>1. NewRow(i) =
             CASE volt = 0 \/ CpuKhz(i) < CpuFreqThreshold(s, c) -> row
               [] volt # 0 /\ CpuKhz(i) >= CpuFreqThreshold(s, c) ->
                    IF s = "Mariko" THEN [row EXCEPT ![3] = volt] ELSE [row EXCEPT ![2] = volt]
      <4> HIDE DEF volt
      <4> QED
        BY <2>1
    <3>2. volt = 0 \/ CpuKhz(i) < CpuFreqThreshold(s, c)
            \/ (volt # 0 /\ CpuKhz(i) >= CpuFreqThreshold(s, c))
      BY <1>3, <2>3, <2>4
    <3> HIDE DEF NewRow, row, volt
    <3> QED
      BY <3>1, <3>2, Zenon
  <2>7. IsRow(NewRow(i), CpuKhz(i))
    <3> HIDE DEF NewRow, row, volt
    <3> QED
      BY <2>5, <2>6
  <2>8. volt = CpuMaxVolt(s, c) * 1000 /\ (volt # 0 => CpuMaxVolt(s, c) # 0)
    BY CustomInts DEF CpuMaxVolt
  <2>9. PICK k \in {51, 52}, v \in CpuVolts : row = <<CpuKhz(i), k, v, 0>>
    <3> HIDE DEF t
    <3> QED
      BY <2>2, <2>3, CpuRowIs, SMT DEF CpuVolts
  <2> HIDE DEF NewRow, row, volt
  <2>10. IsCpuRow(s, c, NewRow(i), CpuKhz(i))
    <3>1. CASE NewRow(i) = row
      BY <2>9, <3>1, SMT DEF IsCpuRow
    <3>2. CASE volt # 0 /\ s = "Mariko" /\ NewRow(i) = [row EXCEPT ![3] = volt]
      <4>1. NewRow(i) = <<CpuKhz(i), k, volt, 0>>
        BY <2>9, <3>2
      <4> QED
        BY <2>8, <3>2, <4>1, SMT DEF IsCpuRow
    <3>3. CASE volt # 0 /\ s # "Mariko" /\ NewRow(i) = [row EXCEPT ![2] = volt]
      <4>1. NewRow(i) = <<CpuKhz(i), volt, v, 0>>
        BY <2>9, <3>3
      <4>2. s = "Erista"
        BY <3>3 DEF Socs
      <4> QED
        BY <2>8, <2>9, <3>3, <4>1, <4>2, SMT DEF IsCpuRow
    <3> QED
      BY <2>6, <3>1, <3>2, <3>3
  <2> QED
    BY <2>7, <2>10
<1> HIDE DEF NewRow, n
<1>5. Len(rows) = n /\ \A i \in 1..n : rows[i] = NewRow(i)
  BY <1>2
<1> HIDE DEF rows
<1> QED
  BY <1>1, <1>2, <1>4, <1>5, Zenon

LEMMA CpuRowsAre ==
    ASSUME NEW s \in Socs, NEW c \in CustomizeTable, NEW a
    PROVE  \E rows :
             /\ CpuFreqCvbTable(s, c, a) = PutTable(TableHead(a, CpuOld(s)), rows)
             /\ Len(rows) = CpuNew(s, c)
             /\ \A i \in 1..CpuNew(s, c) : IsRow(rows[i], CpuKhz(i))
<1>1. PICK rows :
         /\ CpuFreqCvbTable(s, c, a) = PutTable(TableHead(a, CpuOld(s)), rows)
         /\ Len(rows) = CpuNew(s, c)
         /\ \A i \in 1..CpuNew(s, c) : IsRow(rows[i], CpuKhz(i)) /\ IsCpuRow(s, c, rows[i], CpuKhz(i))
  BY CpuRowsIn, Zenon
<1> QED
  BY <1>1, Zenon

LEMMA GpuKhzIs ==
    ASSUME NEW i \in 1..17
    PROVE  GpuKhz(i) \in Int /\ 76800 <= GpuKhz(i) /\ GpuKhz(i) <= 1267200
BY SMT DEF GpuKhz

LEMMA GpuRowsIn ==
    ASSUME NEW s \in Socs, NEW c \in CustomizeTable, NEW a
    PROVE  \E rows :
             /\ GpuFreqCvbTable(s, c, a) = PutTable(TableHead(a, GpuOld(s)), rows)
             /\ Len(rows) = GpuNew(s)
             /\ \A i \in 1..GpuNew(s) :
                   IsRow(rows[i], GpuKhz(i)) /\ IsGpuRow(s, c, rows[i], GpuKhz(i))
<1> DEFINE t == GpuCustomize(s, c)
           static == s = "Mariko" /\ c.marikoGpuUV = 3
           NewRow(i) ==
             LET row == GpuRow(t.freqs[i], t.name) IN
             IF static THEN [row EXCEPT ![3] = c.marikoGpuVoltArray[i] * 1000, ![4] = 0]
             ELSE [row EXCEPT ![3] = @ - c.commonGpuVoltOffset * 1000]
           n == GetDvfsTableEntryCount(t.freqs)
           rows == [i \in 1..n |-> NewRow(i)]
<1>1. GpuFreqCvbTable(s, c, a) = PutTable(TableHead(a, GpuOld(s)), rows)
  <2>1. GpuFreqCvbTable(s, c, a) = PutTable(TableHead(a, Len(GpuDefault(s))), rows)
    BY Zenon DEF GpuFreqCvbTable
  <2> HIDE DEF rows
  <2> QED
    BY <2>1, DefaultTables DEF BeginsGpu
<1>2. n = GpuNew(s) /\ n \in 1..17
  <2>1. n = GpuNew(s)
    BY CustomTables DEF BeginsGpu, GetDvfsTableEntryCount
  <2>2. GpuNew(s) \in 1..17
    BY DEF GpuNew
  <2> QED
    BY <2>1, <2>2
<1>3. ASSUME NEW i \in 1..n
      PROVE  IsRow(NewRow(i), GpuKhz(i)) /\ IsGpuRow(s, c, NewRow(i), GpuKhz(i))
  <2>1. t.freqs[i] = GpuKhz(i)
    BY <1>2, <1>3, CustomTables DEF BeginsGpu
  <2>2. t.name \in {"stock", "SLT", "HiOPT"}
    BY CustomTables
  <2>3. GpuKhz(i) \in Int
    BY <1>2, GpuKhzIs
  <2> DEFINE x == c.marikoGpuVoltArray[i] * 1000
             y == c.commonGpuVoltOffset * 1000
             row == GpuRow(GpuKhz(i), t.name)
  <2>4. x \in Int /\ y \in Int
    BY <1>2, CustomInts
  <2>5. IsRow([row EXCEPT ![3] = x, ![4] = 0], GpuKhz(i)) /\ IsRow([row EXCEPT ![3] = @ - y], GpuKhz(i))
    <3> HIDE DEF t, x, y
    <3> QED
      BY <2>2, <2>3, <2>4, GpuRowInts, Zenon
  <2>6. NewRow(i) = IF static THEN [row EXCEPT ![3] = x, ![4] = 0] ELSE [row EXCEPT ![3] = @ - y]
    BY <2>1
  <2>7. IsRow(NewRow(i), GpuKhz(i))
    <3> HIDE DEF NewRow, row, x, y
    <3> QED
      BY <2>5, <2>6
  <2>8. PICK k \in {51, 52, 53} : row = <<GpuKhz(i), 0, k, k>>
    <3> HIDE DEF t
    <3> QED
      BY <2>2, GpuRowIs, Zenon
  <2>9. x = c.marikoGpuVoltArray[i] * 1000 /\ y = c.commonGpuVoltOffset * 1000 /\ i \in 1..17
    BY <1>2
  <2> HIDE DEF NewRow, row, x, y
  <2>10. IsGpuRow(s, c, NewRow(i), GpuKhz(i))
    <3>1. CASE static
      <4>1. NewRow(i) = <<GpuKhz(i), 0, x, 0>>
        BY <2>6, <2>8, <3>1
      <4> QED
        BY <2>8, <2>9, <3>1, <4>1, SMT DEF IsGpuRow
    <3>2. CASE ~static
      <4>1. NewRow(i) = <<GpuKhz(i), 0, k - y, k>>
        BY <2>4, <2>6, <2>8, <3>2
      <4> QED
        BY <2>8, <2>9, <4>1, SMT DEF IsGpuRow
    <3> QED
      BY <3>1, <3>2
  <2> QED
    BY <2>7, <2>10
<1> HIDE DEF NewRow, n
<1>4. Len(rows) = n /\ \A i \in 1..n : rows[i] = NewRow(i)
  BY <1>2
<1> HIDE DEF rows
<1> QED
  BY <1>1, <1>2, <1>3, <1>4, Zenon

LEMMA GpuRowsAre ==
    ASSUME NEW s \in Socs, NEW c \in CustomizeTable, NEW a
    PROVE  \E rows :
             /\ GpuFreqCvbTable(s, c, a) = PutTable(TableHead(a, GpuOld(s)), rows)
             /\ Len(rows) = GpuNew(s)
             /\ \A i \in 1..GpuNew(s) : IsRow(rows[i], GpuKhz(i))
<1>1. PICK rows :
         /\ GpuFreqCvbTable(s, c, a) = PutTable(TableHead(a, GpuOld(s)), rows)
         /\ Len(rows) = GpuNew(s)
         /\ \A i \in 1..GpuNew(s) : IsRow(rows[i], GpuKhz(i)) /\ IsGpuRow(s, c, rows[i], GpuKhz(i))
  BY GpuRowsIn, Zenon
<1> QED
  BY <1>1, Zenon

LEMMA PutTableInt ==
    ASSUME NEW head \in Int, NEW n \in Nat, NEW rows, Len(rows) = n,
           NEW b \in DOMAIN PutTable(head, rows)
    PROVE  (\A i \in 1..n : \A r \in 1..4 : rows[i][r] \in Int) => PutTable(head, rows)[b] \in Int
<1>1. \E i \in 1..n, r \in 1..4 :
         /\ b = head + RowSize * (i - 1) + r - 1
         /\ PutTable(head, rows)[b] = rows[i][r]
  BY PutTableIs, SMT
<1> QED
  BY <1>1, Zenon

LEMMA PllmbIs ==
    ASSUME NEW khz \in Int
    PROVE  /\ Pllmb(khz).divm \in Int /\ Pllmb(khz).divn \in Int
           /\ Pllmb(khz).divm < 5
           /\ (0 <= khz /\ khz <= 2800000) => Pllmb(khz).divn < 300
<1> DEFINE Fits(i) == khz % pll_osc_in >= (pll_osc_in * DivRatios[i].num) \div DivRatios[i].den
                      /\ \A j \in 1..(i - 1) :
                           khz % pll_osc_in < (pll_osc_in * DivRatios[j].num) \div DivRatios[j].den
           i == CHOOSE k \in DOMAIN DivRatios : Fits(k)
<1>1. DOMAIN DivRatios = 1..6 /\ \A k \in 1..6 : DivRatios[k].num \in Int /\ DivRatios[k].den \in Int
  BY SMT DEF DivRatios
<1>2. khz % pll_osc_in \in Int /\ khz % pll_osc_in >= 0 /\ khz \div pll_osc_in \in Int
  BY SMT DEF pll_osc_in
<1>3. \A k \in 1..6 : (pll_osc_in * DivRatios[k].num) \div DivRatios[k].den \in Int
  BY SMT DEF DivRatios, pll_osc_in
<1>4. (pll_osc_in * DivRatios[6].num) \div DivRatios[6].den = 0
  BY SMT DEF DivRatios, pll_osc_in
<1> DEFINE x == khz % pll_osc_in
           T == [k \in 1..6 |-> (pll_osc_in * DivRatios[k].num) \div DivRatios[k].den]
<1>5. \E k \in 1..6 : x >= T[k] /\ \A j \in 1..(k - 1) : x < T[j]
  <2>1. x \in Int /\ x >= T[6] /\ \A k \in 1..6 : T[k] \in Int
    BY <1>2, <1>3, <1>4
  <2> HIDE DEF x, T
  <2>2. (x >= T[1]) \/ (x >= T[2] /\ x < T[1]) \/ (x >= T[3] /\ x < T[2] /\ x < T[1])
        \/ (x >= T[4] /\ x < T[3] /\ x < T[2] /\ x < T[1])
        \/ (x >= T[5] /\ x < T[4] /\ x < T[3] /\ x < T[2] /\ x < T[1])
        \/ (x >= T[6] /\ x < T[5] /\ x < T[4] /\ x < T[3] /\ x < T[2] /\ x < T[1])
    BY <2>1
  <2> QED
    BY <2>1, <2>2
<1>6. \E k \in DOMAIN DivRatios : Fits(k)
  <2>1. PICK k \in 1..6 : x >= T[k] /\ \A j \in 1..(k - 1) : x < T[j]
    BY <1>5, Zenon
  <2>2. \A j \in 1..6 : T[j] = (pll_osc_in * DivRatios[j].num) \div DivRatios[j].den
    BY Zenon
  <2>3. k - 1 \in 0..5 /\ \A j \in 1..(k - 1) : j \in 1..6
    OBVIOUS
  <2> HIDE DEF T
  <2>4. Fits(k)
    BY <2>1, <2>2, <2>3, Zenon
  <2> HIDE DEF Fits
  <2> QED
    BY <1>1, <2>4, Zenon
<1>7. i \in 1..6
  <2> HIDE DEF Fits
  <2> QED
    BY <1>1, <1>6, Zenon
<1>8. PllmbRatio(khz) = DivRatios[i]
  BY Zenon DEF PllmbRatio
<1> HIDE DEF i
<1>9. PllmbRatio(khz).den \in 2..4 /\ PllmbRatio(khz).num \in 0..3
  <2>1. \A k \in 1..6 : DivRatios[k].den \in 2..4 /\ DivRatios[k].num \in 0..3
    BY SMT DEF DivRatios
  <2> QED
    BY <1>7, <1>8, <2>1, Zenon
<1>10. Pllmb(khz).divm \in Int /\ Pllmb(khz).divn \in Int
  BY <1>2, <1>9 DEF Pllmb
<1>11. ASSUME 0 <= khz, khz <= 2800000 PROVE Pllmb(khz).divn < 300
  <2> DEFINE q == khz \div pll_osc_in
             d == PllmbRatio(khz).den
             m == PllmbRatio(khz).num
  <2>1. q \in 0..72
    BY <1>11, SMT DEF pll_osc_in
  <2>2. Pllmb(khz).divn = q * d + m
    BY DEF Pllmb
  <2>3. d \in 2..4 /\ m \in 0..3
    BY <1>9
  <2> HIDE DEF q, d, m
  <2>4. q * d <= 4 * q
    <3>1. d = 2 \/ d = 3 \/ d = 4
      BY <2>3
    <3> QED
      BY <2>1, <3>1
  <2>5. q * d \in Int
    BY <2>1, <2>3
  <2> HIDE DEF Pllmb
  <2> QED
    BY <2>1, <2>2, <2>3, <2>4, <2>5
<1>12. Pllmb(khz).divm < 5
  BY <1>9 DEF Pllmb
<1> QED
  BY <1>10, <1>11, <1>12

(* The divisors make the PLL at most 9.6 MHz slower than the rate.         *)
LEMMA PllmbNear ==
    ASSUME NEW khz \in Int
    PROVE  LET output == PllmbOutput(Pllmb(khz)) IN khz - 9600 < output /\ output <= khz
<1> DEFINE Fits(i) == khz % pll_osc_in >= (pll_osc_in * DivRatios[i].num) \div DivRatios[i].den
                      /\ \A j \in 1..(i - 1) :
                           khz % pll_osc_in < (pll_osc_in * DivRatios[j].num) \div DivRatios[j].den
           i == CHOOSE k \in DOMAIN DivRatios : Fits(k)
           x == khz % pll_osc_in
           q == khz \div pll_osc_in
<1>1. x \in Int /\ x >= 0 /\ x < 38400 /\ q \in Int /\ khz = 38400 * q + x
  BY SMT DEF pll_osc_in
<1>2. pll_osc_in = 38400
  BY DEF pll_osc_in
<1>3. /\ DivRatios = <<[num |-> 3, den |-> 4], [num |-> 2, den |-> 3], [num |-> 1, den |-> 2],
                       [num |-> 1, den |-> 3], [num |-> 1, den |-> 4], [num |-> 0, den |-> 2]>>
  BY DEF DivRatios
<1> DEFINE T(k) == (pll_osc_in * DivRatios[k].num) \div DivRatios[k].den
<1>4. /\ T(1) = 28800 /\ T(2) = 25600 /\ T(3) = 19200 /\ T(4) = 12800 /\ T(5) = 9600 /\ T(6) = 0
  BY <1>2, <1>3, SMT
<1>14. DOMAIN DivRatios = 1..6
  BY <1>3, SMT
<1>5. \A k \in 1..6 : Fits(k) <=> x >= T(k) /\ \A j \in 1..(k - 1) : x < T(j)
  OBVIOUS
<1> HIDE DEF x, q, Fits, T
<1>6. \E k \in DOMAIN DivRatios : Fits(k)
  <2>1. CASE x >= 28800
    BY <1>1, <1>4, <1>5, <1>14, <2>1
  <2>2. CASE x < 28800 /\ x >= 25600
    BY <1>1, <1>4, <1>5, <1>14, <2>2
  <2>3. CASE x < 25600 /\ x >= 19200
    <3>1. \A j \in 1..2 : x < T(j)
      BY <1>1, <1>4, <2>3
    <3> QED
      BY <1>1, <1>4, <1>5, <1>14, <2>3, <3>1
  <2>4. CASE x < 19200 /\ x >= 12800
    <3>1. \A j \in 1..3 : x < T(j)
      BY <1>1, <1>4, <2>4
    <3> QED
      BY <1>1, <1>4, <1>5, <1>14, <2>4, <3>1
  <2>5. CASE x < 12800 /\ x >= 9600
    <3>1. \A j \in 1..4 : x < T(j)
      BY <1>1, <1>4, <2>5
    <3> QED
      BY <1>1, <1>4, <1>5, <1>14, <2>5, <3>1
  <2>6. CASE x < 9600
    <3>1. \A j \in 1..5 : x < T(j)
      BY <1>1, <1>4, <2>6
    <3> QED
      BY <1>1, <1>4, <1>5, <1>14, <2>6, <3>1
  <2> QED
    BY <1>1, <2>1, <2>2, <2>3, <2>4, <2>5, <2>6
<1>7. i \in 1..6 /\ Fits(i)
  BY <1>6, <1>14, Zenon
<1>8. PllmbRatio(khz) = DivRatios[i]
  BY Zenon DEF PllmbRatio, Fits
<1> HIDE DEF i
<1>9. /\ x >= T(i) /\ x < T(i) + 9600
      /\ \/ DivRatios[i] = [num |-> 3, den |-> 4] /\ T(i) = 28800
         \/ DivRatios[i] = [num |-> 2, den |-> 3] /\ T(i) = 25600
         \/ DivRatios[i] = [num |-> 1, den |-> 2] /\ T(i) = 19200
         \/ DivRatios[i] = [num |-> 1, den |-> 3] /\ T(i) = 12800
         \/ DivRatios[i] = [num |-> 1, den |-> 4] /\ T(i) = 9600
         \/ DivRatios[i] = [num |-> 0, den |-> 2] /\ T(i) = 0
  <2>1. x >= T(i) /\ \A j \in 1..(i - 1) : x < T(j)
    BY <1>5, <1>7
  <2>2. i = 1 \/ i = 2 \/ i = 3 \/ i = 4 \/ i = 5 \/ i = 6
    BY <1>7
  <2>3. i > 1 => x < T(i - 1)
    BY <1>7, <2>1
  <2>4. CASE i = 1
    BY <1>1, <1>3, <1>4, <2>1, <2>4
  <2>5. CASE i = 2
    BY <1>1, <1>3, <1>4, <2>1, <2>3, <2>5
  <2>6. CASE i = 3
    BY <1>1, <1>3, <1>4, <2>1, <2>3, <2>6
  <2>7. CASE i = 4
    BY <1>1, <1>3, <1>4, <2>1, <2>3, <2>7
  <2>8. CASE i = 5
    BY <1>1, <1>3, <1>4, <2>1, <2>3, <2>8
  <2>9. CASE i = 6
    BY <1>1, <1>3, <1>4, <2>1, <2>3, <2>9
  <2> QED
    BY <2>2, <2>4, <2>5, <2>6, <2>7, <2>8, <2>9
<1>10. /\ Pllmb(khz).divm = DivRatios[i].den
       /\ Pllmb(khz).divn = q * DivRatios[i].den + DivRatios[i].num
  BY <1>8, Zenon DEF Pllmb, q
<1>11. PllmbOutput(Pllmb(khz)) = (38400 * Pllmb(khz).divn) \div Pllmb(khz).divm
  BY <1>2 DEF PllmbOutput
<1>12. PllmbOutput(Pllmb(khz)) = 38400 * q + T(i)
  <2>1. CASE DivRatios[i] = [num |-> 3, den |-> 4] /\ T(i) = 28800
    <3>1. Pllmb(khz).divm = 4 /\ Pllmb(khz).divn = q * 4 + 3
      BY <1>10, <2>1
    <3> QED
      BY <1>1, <1>11, <2>1, <3>1
  <2>2. CASE DivRatios[i] = [num |-> 2, den |-> 3] /\ T(i) = 25600
    <3>1. Pllmb(khz).divm = 3 /\ Pllmb(khz).divn = q * 3 + 2
      BY <1>10, <2>2
    <3> QED
      BY <1>1, <1>11, <2>2, <3>1
  <2>3. CASE DivRatios[i] = [num |-> 1, den |-> 2] /\ T(i) = 19200
    <3>1. Pllmb(khz).divm = 2 /\ Pllmb(khz).divn = q * 2 + 1
      BY <1>10, <2>3
    <3> QED
      BY <1>1, <1>11, <2>3, <3>1
  <2>4. CASE DivRatios[i] = [num |-> 1, den |-> 3] /\ T(i) = 12800
    <3>1. Pllmb(khz).divm = 3 /\ Pllmb(khz).divn = q * 3 + 1
      BY <1>10, <2>4
    <3> QED
      BY <1>1, <1>11, <2>4, <3>1
  <2>5. CASE DivRatios[i] = [num |-> 1, den |-> 4] /\ T(i) = 9600
    <3>1. Pllmb(khz).divm = 4 /\ Pllmb(khz).divn = q * 4 + 1
      BY <1>10, <2>5
    <3> QED
      BY <1>1, <1>11, <2>5, <3>1
  <2>6. CASE DivRatios[i] = [num |-> 0, den |-> 2] /\ T(i) = 0
    <3>1. Pllmb(khz).divm = 2 /\ Pllmb(khz).divn = q * 2
      BY <1>1, <1>10, <2>6
    <3> QED
      BY <1>1, <1>11, <2>6, <3>1
  <2> QED
    BY <1>9, <2>1, <2>2, <2>3, <2>4, <2>5, <2>6
<1>13. T(i) \in Int
  BY <1>9
<1> QED
  BY <1>1, <1>9, <1>12, <1>13

(* The last frequencies, which the rail and the instructions are given.    *)
LEMMA LastEntries ==
    ASSUME NEW s \in Socs, NEW c
    PROVE  /\ GetDvfsTableLastEntry(CpuCustomize(s, c).freqs) = CpuKhz(CpuNew(s, c))
           /\ GetDvfsTableLastEntry(GpuCustomize(s, c).freqs) = GpuKhz(GpuNew(s))
<1>1. CpuNew(s, c) \in 1..22 /\ GpuNew(s) \in 1..17
  BY DEF CpuNew, GpuNew
<1>2. CpuNew(s, c) \in 1..CpuNew(s, c) /\ GpuNew(s) \in 1..GpuNew(s)
  BY <1>1
<1> QED
  BY <1>2, CustomTables DEF BeginsCpu, BeginsGpu, GetDvfsTableLastEntry

LEMMA WritesInt ==
    ASSUME NEW s \in Socs, NEW c \in CustomizeTable, NEW w, \A x \in DOMAIN w : w[x] \in Int,
           NEW p, PatchOf(s, p), NEW a \in Int, NEW b \in DOMAIN Writes(s, c, w, p, a)
    PROVE  Writes(s, c, w, p, a)[b] \in Int
<1>0. /\ EmcMaxClock(s, c) \in Int /\ CpuMaxVolt(s, c) \in Int
      /\ c.marikoEmcMaxClock \in Int /\ c.marikoEmcDvbShift \in Int
  BY CustomInts DEF EmcMaxClock, CpuMaxVolt
<1>w. \A x : At(w, x) \in Int
  BY AtInt
<1>p. ASSUME NEW x \in Int, NEW v \in Int, NEW y \in DOMAIN Put(x, <<v>>)
      PROVE  Put(x, <<v>>)[y] \in Int
  BY DEF Put
<1>o. ASSUME NEW f, NEW g, NEW y \in DOMAIN Over(f, g), y \in DOMAIN f => f[y] \in Int,
             y \in DOMAIN g => g[y] \in Int
      PROVE  Over(f, g)[y] \in Int
  <2>1. y \in DOMAIN f \/ y \in DOMAIN g
    BY OverDomain, Zenon
  <2>2. Over(f, g)[y] = IF y \in DOMAIN f THEN f[y] ELSE g[y]
    BY <2>1 DEF Over
  <2> QED
    BY <1>o, <2>1, <2>2, Zenon
<1>1. CASE p = "CpuTable"
  <2>1. b \in DOMAIN CpuFreqCvbTable(s, c, a) /\ Writes(s, c, w, p, a) = CpuFreqCvbTable(s, c, a)
    BY <1>1, Zenon DEF Writes
  <2>2. PICK rows :
             /\ CpuFreqCvbTable(s, c, a) = PutTable(TableHead(a, CpuOld(s)), rows)
             /\ Len(rows) = CpuNew(s, c)
             /\ \A i \in 1..CpuNew(s, c) : IsRow(rows[i], CpuKhz(i))
    BY CpuRowsAre, Zenon
  <2>3. TableHead(a, CpuOld(s)) \in Int /\ CpuNew(s, c) \in Nat
    BY DEF TableHead, RowSize, CpuOld, CpuNew
  <2>4. \A i \in 1..CpuNew(s, c) : \A r \in 1..4 : rows[i][r] \in Int
    BY <2>2, Zenon DEF IsRow
  <2>5. b \in DOMAIN PutTable(TableHead(a, CpuOld(s)), rows)
    BY <2>1, <2>2, Zenon
  <2> QED
    BY <2>1, <2>2, <2>3, <2>4, <2>5, PutTableInt, Zenon
<1>2. CASE p = "GpuTable"
  <2>1. b \in DOMAIN GpuFreqCvbTable(s, c, a) /\ Writes(s, c, w, p, a) = GpuFreqCvbTable(s, c, a)
    BY <1>2, Zenon DEF Writes
  <2>2. PICK rows :
             /\ GpuFreqCvbTable(s, c, a) = PutTable(TableHead(a, GpuOld(s)), rows)
             /\ Len(rows) = GpuNew(s)
             /\ \A i \in 1..GpuNew(s) : IsRow(rows[i], GpuKhz(i))
    BY GpuRowsAre, Zenon
  <2>3. TableHead(a, GpuOld(s)) \in Int /\ GpuNew(s) \in Nat
    BY DEF TableHead, RowSize, GpuOld, GpuNew
  <2>4. \A i \in 1..GpuNew(s) : \A r \in 1..4 : rows[i][r] \in Int
    BY <2>2, Zenon DEF IsRow
  <2>5. b \in DOMAIN PutTable(TableHead(a, GpuOld(s)), rows)
    BY <2>1, <2>2, Zenon
  <2> QED
    BY <2>1, <2>2, <2>3, <2>4, <2>5, PutTableInt, Zenon
<1>3. CASE p = "CpuVolt"
  <2> DEFINE P == Put(a, <<CpuMaxVolt(s, c)>>)
  <2>1. b \in DOMAIN CpuVoltRange(s, c, w, a) /\ Writes(s, c, w, p, a) = CpuVoltRange(s, c, w, a)
    BY <1>3, Zenon DEF Writes
  <2>2. \/ CpuVoltRange(s, c, w, a) = Nothing
        \/ CpuVoltRange(s, c, w, a) = Over(P, Over(Lowered(w, a - 5), Lowered(w, a - 1)))
        \/ CpuVoltRange(s, c, w, a) = Over(P, Nothing)
    BY CpuVoltIs, Zenon
  <2>3. \A y \in DOMAIN P : P[y] \in Int
    BY <1>0, <1>p, Zenon
  <2>4. /\ \A y \in DOMAIN Lowered(w, a - 5) : Lowered(w, a - 5)[y] \in Int
        /\ \A y \in DOMAIN Lowered(w, a - 1) : Lowered(w, a - 1)[y] \in Int
    <3>1. a - 5 \in Int /\ a - 1 \in Int /\ 600 \in Int
      OBVIOUS
    <3> QED
      BY <3>1, LoweredAt
  <2> HIDE DEF P
  <2>5. \A y \in DOMAIN Over(Lowered(w, a - 5), Lowered(w, a - 1)) :
           Over(Lowered(w, a - 5), Lowered(w, a - 1))[y] \in Int
    BY <2>4, <1>o, Zenon
  <2>6. \A y \in DOMAIN Nothing : Nothing[y] \in Int
    BY NothingIs, Zenon
  <2>7. \A y \in DOMAIN CpuVoltRange(s, c, w, a) : CpuVoltRange(s, c, w, a)[y] \in Int
    <3>1. CASE CpuVoltRange(s, c, w, a) = Nothing
      BY <3>1, NothingIs, Zenon
    <3>2. CASE CpuVoltRange(s, c, w, a) = Over(P, Nothing)
      BY <3>2, <2>3, <2>6, <1>o, Zenon
    <3>3. CASE CpuVoltRange(s, c, w, a) = Over(P, Over(Lowered(w, a - 5), Lowered(w, a - 1)))
      BY <3>3, <2>3, <2>5, <1>o, Zenon
    <3> QED
      BY <2>2, <3>1, <3>2, <3>3
  <2> QED
    BY <2>1, <2>7, Zenon
<1>4. CASE p = "CpuDfll"
  <2>1. b \in DOMAIN CpuVoltDfll(c, w, a) /\ Writes(s, c, w, p, a) = CpuVoltDfll(c, w, a)
    BY <1>4, Zenon DEF Writes
  <2>2. c.marikoCpuUV \in Int
    BY CustomInts
  <2> QED
    BY <2>1, <2>2, <1>w, NothingIs, SMTT(30) DEF CpuVoltDfll, Put
<1>5. CASE p = "GpuAsm"
  <2>1. b \in DOMAIN GpuFreqMaxAsm(s, c, w, a) /\ Writes(s, c, w, p, a) = GpuFreqMaxAsm(s, c, w, a)
    BY <1>5, Zenon DEF Writes
  <2> DEFINE max_clock == GetDvfsTableLastEntry(GpuCustomize(s, c).freqs)
             x == asm_set(asm_pattern[1], max_clock % 65536, asm_get_rd(At(w, a)))
             y == asm_set(asm_pattern[2], max_clock \div 65536, asm_get_rd(At(w, a)))
  <2>2. max_clock \in Int
    BY CustomTables DEF BeginsGpu, GetDvfsTableLastEntry, GpuNew
  <2> HIDE DEF max_clock
  <2>3. x \in Int /\ y \in Int
    BY <2>2, <1>w, SMT DEF asm_set, asm_pattern, asm_get_rd, asm_imm16
  <2>4. GpuFreqMaxAsm(s, c, w, a) = Put(a, <<x, y>>)
    BY DEF GpuFreqMaxAsm, max_clock
  <2> HIDE DEF x, y
  <2> QED
    BY <2>1, <2>3, <2>4 DEF Put
<1>6. CASE p = "Mtc"
  <2>1. b \in DOMAIN MemFreqMtcTable(s, c, w, a) /\ Writes(s, c, w, p, a) = MemFreqMtcTable(s, c, w, a)
    BY <1>6, Zenon DEF Writes
  <2>2. MemFreqMtcTable(s, c, w, a) = Over(Put(a, MtcTop(s, c)), MtcMoved(s, w, a))
        \/ MemFreqMtcTable(s, c, w, a) = Nothing
    BY MtcIs
  <2>3. \A y \in DOMAIN MtcMoved(s, w, a) : MtcMoved(s, w, a)[y] \in Int
    BY <1>w, Zenon DEF MtcMoved
  <2>4. \A y \in DOMAIN Put(a, MtcTop(s, c)) : Put(a, MtcTop(s, c))[y] \in Int
    BY <1>0, PllmbIs DEF Put, MtcTop
  <2>5. CASE MemFreqMtcTable(s, c, w, a) = Nothing
    BY <2>1, <2>5, NothingIs, Zenon
  <2>6. CASE MemFreqMtcTable(s, c, w, a) = Over(Put(a, MtcTop(s, c)), MtcMoved(s, w, a))
    BY <2>1, <2>3, <2>4, <2>6, <1>o, Zenon
  <2> QED
    BY <2>2, <2>5, <2>6
<1>7. CASE p = "Dvb"
  <2>1. b \in DOMAIN MemFreqDvbTable(c, a) /\ Writes(s, c, w, p, a) = MemFreqDvbTable(c, a)
    BY <1>7, Zenon DEF Writes
  <2>2. PICK x \in Int, y \in Int, z \in Int : NewDvbVolts(c) = <<x, y, z>>
    BY <1>0, NewDvbVoltsLen, Zenon
  <2> DEFINE row == <<c.marikoEmcMaxClock>> \o NewDvbVolts(c)
  <2>3. RowOf(row, c.marikoEmcMaxClock, x, y, z)
    <3>1. RowOf(<<c.marikoEmcMaxClock>> \o <<x, y, z>>, c.marikoEmcMaxClock, x, y, z)
      BY <1>0, HeadRow
    <3> QED
      BY <2>2, <3>1, Zenon
  <2>4. MemFreqDvbTable(c, a) = Nothing \/ MemFreqDvbTable(c, a) = Put(a + RowSize, row)
    BY Zenon DEF MemFreqDvbTable
  <2> HIDE DEF row
  <2>5. \A i \in 1..4 : row[i] \in Int
    BY <1>0, <2>3 DEF RowOf
  <2>6. \A i \in DOMAIN Put(a + RowSize, row) : Put(a + RowSize, row)[i] \in Int
    BY <2>3, <2>5 DEF Put, RowSize, RowOf
  <2> QED
    BY <2>1, <2>4, <2>6, NothingIs, Zenon
<1>8. CASE p = "Pllm"
  <2> DEFINE v == 2 * At(w, a)
  <2>1. v \in Int /\ a + 2 \in Int
    BY <1>w
  <2>2. Writes(s, c, w, p, a) = Over(Put(a, <<v>>), Put(a + 2, <<v>>))
    BY <1>8, Zenon DEF Writes
  <2> HIDE DEF v
  <2> QED
    BY <2>1, <2>2, <1>p, <1>o, Zenon
<1>9. CASE p \in {"CpuVdd", "GpuPll", "Max", "Vddq", "MemVolt"}
  <2>1. /\ GetDvfsTableLastEntry(CpuCustomize(s, c).freqs) \in Int /\ 2 * At(w, a) \in Int
        /\ RoundedMemVolt(c.commonEmcMemVolt) \in Int /\ RoundedVddq(c.marikoEmcVddqVolt) \in Int
    <3>1. GetDvfsTableLastEntry(CpuCustomize(s, c).freqs) \in Int
      <4>1. CpuNew(s, c) \in 1..22
        BY DEF CpuNew
      <4> QED
        BY <4>1, LastEntries, CpuKhzIs
    <3>2. RoundedMemVolt(c.commonEmcMemVolt) \in Int /\ RoundedVddq(c.marikoEmcVddqVolt) \in Int
      BY CustomInts, SMT DEF RoundedMemVolt, RoundedVddq, MemVoltStep, VddqStep
    <3> QED
      BY <3>1, <3>2, <1>w
  <2>2. \E v \in Int : Writes(s, c, w, p, a) = Put(a, <<v>>) \/ Writes(s, c, w, p, a) = Nothing
    BY <1>0, <1>9, <2>1, Zenon DEF Writes, MemFreqMax, MemVoltHandler, EmcVddqVolt
  <2> QED
    BY <2>2, <1>p, NothingIs, Zenon
<1> QED
  BY <1>1, <1>2, <1>3, <1>4, <1>5, <1>6, <1>7, <1>8, <1>9, Zenon DEF PatchOf, Patches

-----------------------------------------------------------------------------
(***************************************************************************)
(* The scan.                                                               *)
(***************************************************************************)
LEMMA ImageFacts ==
    ASSUME NEW n \in Nsos
    PROVE  /\ n.soc \in Socs
           /\ n.word \in Seq(Int) /\ Len(n.word) \in Nat /\ DOMAIN n.word = 1..Len(n.word)
           /\ \A a \in DOMAIN n.word : n.word[a] \in Int
           /\ ScanEnd(n) \in Nat /\ ScanEnd(n) >= 1 /\ ScanEnd(n) + 3 = Len(n.word)
           /\ DOMAIN n.regs \subseteq DOMAIN n.word
<1>1. n.soc \in Socs /\ n.word \in Seq(Int) /\ Len(n.word) > MtcSize /\ DOMAIN n.regs \subseteq DOMAIN n.word
  BY NsosAssumption
<1>2. Len(n.word) \in Nat /\ DOMAIN n.word = 1..Len(n.word) /\ \A a \in DOMAIN n.word : n.word[a] \in Int
  BY <1>1, LenProperties, ElementOfSeq
<1> QED
  BY <1>1, <1>2 DEF ScanEnd, MtcSize

(* A step at the word a of the image: nothing is found, or one patch.      *)
Applied(p, a) ==
    /\ p \in Patches /\ PatchOf(soc, p)
    /\ Matches(soc, word, p, a) /\ Valid(soc, word, p, a)
    /\ word' = [b \in DOMAIN word |->
                  IF b \in DOMAIN Writes(soc, cust, word, p, a)
                  THEN Writes(soc, cust, word, p, a)[b] ELSE word[b]]
    /\ regs' = NewRegs(soc, cust, regs, p, a)
    /\ patched' = [patched EXCEPT ![p] = @ \cup {a}]

LEMMA PatchWordIs ==
    ASSUME nso \in Nsos, PatchWord
    PROVE  /\ status = "scan" /\ ptr <= ScanEnd(nso) /\ ptr' = ptr + 1
           /\ nso' = nso /\ cust' = cust /\ status' = status
           /\ UNCHANGED <<word, regs, patched>> \/ \E p \in Patches : Applied(p, ptr)
<1>1. /\ status = "scan" /\ ptr <= ScanEnd(nso) /\ ptr' = ptr + 1
      /\ nso' = nso /\ cust' = cust /\ status' = status
  BY DEF PatchWord
<1>2. CASE Found(soc, word, ptr) = "none"
  BY <1>1, <1>2, Zenon DEF PatchWord
<1>3. CASE Found(soc, word, ptr) # "none"
  <2> DEFINE p == Found(soc, word, ptr)
  <2>1. soc \in Socs
    BY ImageFacts DEF soc
  <2>2. PatchOf(soc, p) /\ Matches(soc, word, p, ptr) /\ Valid(soc, word, p, ptr)
    BY <1>3, <2>1, FoundIsPatch, Zenon
  <2>3. p \in Patches
    BY <2>2, Zenon DEF PatchOf
  <2>4. /\ word' = [b \in DOMAIN word |->
                  IF b \in DOMAIN Writes(soc, cust, word, p, ptr)
                  THEN Writes(soc, cust, word, p, ptr)[b] ELSE word[b]]
        /\ regs' = NewRegs(soc, cust, regs, p, ptr)
        /\ patched' = [patched EXCEPT ![p] = @ \cup {ptr}]
    BY <1>3, Zenon DEF PatchWord
  <2> HIDE DEF p
  <2>5. Applied(p, ptr)
    BY <2>2, <2>3, <2>4, Zenon DEF Applied
  <2> QED
    BY <1>1, <2>3, <2>5, Zenon
<1> QED
  BY <1>2, <1>3, Zenon

LEMMA PcvTypeInit == PcvInit => PcvTypeOK
<1> SUFFICES ASSUME PcvInit PROVE PcvTypeOK
  OBVIOUS
<1>1. nso \in Nsos
  BY DEF PcvInit
<1>2. /\ \A a \in DOMAIN nso.word : nso.word[a] \in Int
      /\ ScanEnd(nso) \in Nat /\ ScanEnd(nso) >= 1
  BY <1>1, ImageFacts, Zenon
<1> HIDE DEF ScanEnd
<1> QED
  BY <1>2, SMT DEF PcvInit, PcvTypeOK

LEMMA NewRegsDomain ==
    ASSUME NEW s, NEW c, NEW r, NEW p, NEW a
    PROVE  DOMAIN NewRegs(s, c, r, p, a) = DOMAIN r
BY Zenon DEF NewRegs

LEMMA PcvTypeStep ==
    ASSUME PcvTypeOK, [PcvNext]_pcvVars
    PROVE  PcvTypeOK'
<1>1. nso \in Nsos /\ cust \in Customs /\ cust \in CustomizeTable /\ soc \in Socs
  BY CustomsAssumption, ImageFacts DEF PcvTypeOK, soc
<1>2. ScanEnd(nso) \in Nat
  BY <1>1, ImageFacts
<1>3. CASE SafetyCheck
  BY <1>3 DEF PcvTypeOK, SafetyCheck, ScanEnd
<1>4. CASE CheckResult
  BY <1>4 DEF PcvTypeOK, CheckResult, ScanEnd
<1>5. CASE UNCHANGED pcvVars
  BY <1>5 DEF PcvTypeOK, pcvVars, ScanEnd
<1>6. CASE PatchWord
  <2>1. /\ status = "scan" /\ ptr <= ScanEnd(nso) /\ ptr' = ptr + 1
        /\ nso' = nso /\ cust' = cust /\ status' = status
        /\ UNCHANGED <<word, regs, patched>> \/ \E p \in Patches : Applied(p, ptr)
    BY <1>1, <1>6, PatchWordIs
  <2>2. ptr' \in 1..(ScanEnd(nso) + 1) /\ ptr \in 1..ScanEnd(nso) /\ ScanEnd(nso') = ScanEnd(nso)
    BY <1>2, <2>1 DEF PcvTypeOK
  <2>3. CASE UNCHANGED <<word, regs, patched>>
    BY <2>1, <2>2, <2>3 DEF PcvTypeOK
  <2>4. ASSUME NEW p \in Patches, Applied(p, ptr)
        PROVE  /\ DOMAIN word' = DOMAIN word /\ \A a \in DOMAIN word : word'[a] \in Int
               /\ DOMAIN regs' = DOMAIN regs
               /\ patched' \in [Patches -> SUBSET (1..ScanEnd(nso))]
    <3>1. DOMAIN word' = DOMAIN word
      BY <2>4, Zenon DEF Applied
    <3>2. ASSUME NEW a \in DOMAIN word PROVE word'[a] \in Int
      <4>1. word'[a] = IF a \in DOMAIN Writes(soc, cust, word, p, ptr)
                       THEN Writes(soc, cust, word, p, ptr)[a] ELSE word[a]
        BY <2>4, Zenon DEF Applied
      <4>2. word[a] \in Int /\ ptr \in Int /\ PatchOf(soc, p) /\ \A x \in DOMAIN word : word[x] \in Int
        BY <2>4, <2>2 DEF PcvTypeOK, Applied
      <4>3. a \in DOMAIN Writes(soc, cust, word, p, ptr) => Writes(soc, cust, word, p, ptr)[a] \in Int
        BY <1>1, <4>2, WritesInt, Zenon
      <4> QED
        BY <4>1, <4>2, <4>3, Zenon
    <3>3. DOMAIN regs' = DOMAIN regs
      <4>1. regs' = NewRegs(soc, cust, regs, p, ptr)
        BY <2>4, Zenon DEF Applied
      <4> QED
        BY <4>1, NewRegsDomain
    <3>4. patched' = [patched EXCEPT ![p] = @ \cup {ptr}] /\ patched \in [Patches -> SUBSET (1..ScanEnd(nso))]
      BY <2>4, Zenon DEF Applied, PcvTypeOK
    <3>5. patched' \in [Patches -> SUBSET (1..ScanEnd(nso))]
      BY <2>2, <3>4
    <3> QED
      BY <3>1, <3>2, <3>3, <3>5
  <2>5. CASE \E p \in Patches : Applied(p, ptr)
    <3>1. /\ DOMAIN word' = DOMAIN word /\ \A a \in DOMAIN word : word'[a] \in Int
          /\ DOMAIN regs' = DOMAIN regs
          /\ patched' \in [Patches -> SUBSET (1..ScanEnd(nso))]
      BY <2>4, <2>5, Zenon
    <3> QED
      BY <2>1, <2>2, <3>1 DEF PcvTypeOK
  <2> QED
    BY <2>1, <2>3, <2>5
<1> QED
  BY <1>3, <1>4, <1>5, <1>6 DEF PcvNext

-----------------------------------------------------------------------------
(***************************************************************************)
(* The voltages the loader writes.                                         *)
(*                                                                         *)
(* A regulator once found keeps the words it is known by, whatever is      *)
(* found after it: a voltage that was written could only be overwritten by *)
(* a table whose validation the regulator would have failed.  A timing     *)
(* table is the hard case, for it moves words that nothing validates; but  *)
(* the words beside them are validated, and one of those is the            *)
(* regulator's.                                                            *)
(***************************************************************************)
MemVoltKept(w, p) == At(w, p - 2) \in {12500, 600000} /\ MemVoltOK(At(w, p))
VddqKept(w, p)    == At(w, p - 5) = 5000 /\ At(w, p - 3) = 250000 /\ VddqOK(At(w, p))

VoltInv ==
    /\ status \in {"scan", "accepted"} => SafetyCheckPasses(cust)
    /\ \A p \in patched["MemVolt"] : p < ptr /\ MemVoltKept(word, p)
    /\ \A p \in patched["Vddq"] : p < ptr /\ soc = "Mariko" /\ VddqKept(word, p)

LEMMA KeptIsGuarded ==
    ASSUME NEW w, NEW p
    PROVE  /\ MemVoltKept(w, p) => Guarded(At(w, p)) /\ Guarded(At(w, p - 2))
           /\ VddqKept(w, p) => Guarded(At(w, p)) /\ Guarded(At(w, p - 3)) /\ Guarded(At(w, p - 5))
BY SMT DEF MemVoltKept, VddqKept, Guarded

LEMMA KeptSame ==
    ASSUME NEW w, NEW v, NEW p, At(v, p) = At(w, p)
    PROVE  /\ MemVoltKept(w, p) /\ At(v, p - 2) = At(w, p - 2) => MemVoltKept(v, p)
           /\ VddqKept(w, p) /\ At(v, p - 3) = At(w, p - 3) /\ At(v, p - 5) = At(w, p - 5)
                => VddqKept(v, p)
BY SMT DEF MemVoltKept, VddqKept

(* A word of the image after a patch.                                      *)
LEMMA AtAfter ==
    ASSUME NEW w, NEW v, NEW f, v = [b \in DOMAIN w |-> IF b \in DOMAIN f THEN f[b] ELSE w[b]], NEW b
    PROVE  At(v, b) = IF b \in DOMAIN f /\ b \in DOMAIN w THEN f[b] ELSE At(w, b)
BY DEF At

(* The two words beside each other of a moved table.                       *)
LEMMA MovedNeighbours ==
    ASSUME NEW s \in Socs, NEW w, NEW a \in Int, Valid(s, w, "Mtc", a), NEW i \in MtcSources(s),
           NEW b \in {MtcTable(a, i) + 1, MtcTable(a, i) + 2}
    PROVE  /\ ~Guarded(At(w, b - 2)) /\ ~Guarded(At(w, b + 2)) /\ b \in Int
           /\ s = "Mariko" => b \in {a - 3, a - 2}
           /\ s = "Mariko" => /\ ~Guarded(At(w, a - 8)) /\ ~Guarded(At(w, a - 5))
                              /\ ~Guarded(At(w, a - 4)) /\ ~Guarded(At(w, a - 9))
<1>1. i \in 1..Len(KhzList(s)) /\ i - 1 \in 1..Len(KhzList(s)) /\ i \in Int
  BY MtcSourcesAre, KhzListIs
<1>2. MtcTable(a, i) = a - 4 * (i - 1) /\ MtcTable(a, i - 1) = MtcTable(a, i) + 4 /\ MtcTable(a, i) \in Int
  BY <1>1, MtcTableIs
<1>3. ~Guarded(At(w, MtcTable(a, i))) /\ ~Guarded(At(w, MtcTable(a, i) - 1))
  BY <1>1, MtcWords
<1>4. ~Guarded(At(w, MtcTable(a, i - 1))) /\ ~Guarded(At(w, MtcTable(a, i - 1) - 1))
  BY <1>1, MtcWords
<1>5. b \in Int /\ (b = MtcTable(a, i) + 1 \/ b = MtcTable(a, i) + 2)
  BY <1>2
<1>6. ASSUME b = MtcTable(a, i) + 1
      PROVE  ~Guarded(At(w, b - 2)) /\ ~Guarded(At(w, b + 2))
  <2>1. b - 2 = MtcTable(a, i) - 1 /\ b + 2 = MtcTable(a, i - 1) - 1
    BY <1>2, <1>6
  <2> QED
    BY <2>1, <1>3, <1>4, <1>5, Zenon
<1>7. ASSUME b = MtcTable(a, i) + 2
      PROVE  ~Guarded(At(w, b - 2)) /\ ~Guarded(At(w, b + 2))
  <2>1. b - 2 = MtcTable(a, i) /\ b + 2 = MtcTable(a, i - 1)
    BY <1>2, <1>7
  <2> QED
    BY <2>1, <1>3, <1>4, <1>5, Zenon
<1>8. CASE s = "Mariko"
  <2>1. i = 2 /\ Len(KhzList(s)) = 3
    BY <1>8, KhzListIs DEF MtcSources
  <2>2. b \in {a - 3, a - 2}
    BY <2>1, <1>2, <1>5
  <2>3. MtcTable(a, 2) = a - 4 /\ MtcTable(a, 3) = a - 8
    BY DEF MtcTable, MtcSize
  <2>4. /\ ~Guarded(At(w, MtcTable(a, 2))) /\ ~Guarded(At(w, MtcTable(a, 2) - 1))
        /\ ~Guarded(At(w, MtcTable(a, 3))) /\ ~Guarded(At(w, MtcTable(a, 3) - 1))
    <3>1. 2 \in 1..Len(KhzList(s)) /\ 3 \in 1..Len(KhzList(s))
      BY <2>1
    <3> QED
      BY <3>1, MtcWords, Zenon
  <2>5. a - 4 - 1 = a - 5 /\ a - 8 - 1 = a - 9
    OBVIOUS
  <2>6. /\ ~Guarded(At(w, a - 4)) /\ ~Guarded(At(w, a - 5))
        /\ ~Guarded(At(w, a - 8)) /\ ~Guarded(At(w, a - 9))
    BY <2>3, <2>4, <2>5, Zenon
  <2> QED
    BY <1>5, <1>6, <1>7, <2>2, <2>6
<1> QED
  BY <1>5, <1>6, <1>7, <1>8

(* A patch found later leaves the words of a regulator alone.              *)
LEMMA MemVoltStays ==
    ASSUME NEW s \in Socs, NEW c, c.marikoEmcMaxClock \in Int, c.marikoEmcDvbShift \in Int,
           NEW w, NEW q, PatchOf(s, q), NEW a \in Int, Valid(s, w, q, a),
           NEW p \in Int, p < a, MemVoltKept(w, p)
    PROVE  p \notin DOMAIN Writes(s, c, w, q, a) /\ p - 2 \notin DOMAIN Writes(s, c, w, q, a)
<1>1. Guarded(At(w, p)) /\ Guarded(At(w, p - 2))
  BY KeptIsGuarded
<1>2. ASSUME NEW b \in Int, b < a, b \in DOMAIN Writes(s, c, w, q, a), Guarded(At(w, b))
      PROVE  q = "Mtc" /\ \E i \in MtcSources(s) : b \in {MtcTable(a, i) + 1, MtcTable(a, i) + 2}
  BY <1>2, WritesBehind
<1>3. ASSUME p \in DOMAIN Writes(s, c, w, q, a) PROVE FALSE
  <2>1. PICK i \in MtcSources(s) : q = "Mtc" /\ p \in {MtcTable(a, i) + 1, MtcTable(a, i) + 2}
    BY <1>1, <1>2, <1>3
  <2>2. ~Guarded(At(w, p - 2))
    BY <2>1, MovedNeighbours
  <2> QED
    BY <1>1, <2>2
<1>4. ASSUME p - 2 \in DOMAIN Writes(s, c, w, q, a) PROVE FALSE
  <2>0. p - 2 \in Int /\ p - 2 < a /\ p - 2 + 2 = p
    OBVIOUS
  <2>1. PICK i \in MtcSources(s) : q = "Mtc" /\ p - 2 \in {MtcTable(a, i) + 1, MtcTable(a, i) + 2}
    BY <1>1, <1>2, <1>4, <2>0
  <2>2. ~Guarded(At(w, p - 2 + 2))
    BY <2>1, MovedNeighbours
  <2> QED
    BY <1>1, <2>0, <2>2
<1> QED
  BY <1>3, <1>4

LEMMA VddqStays ==
    ASSUME NEW c, c.marikoEmcMaxClock \in Int, c.marikoEmcDvbShift \in Int,
           NEW w, NEW q, PatchOf("Mariko", q), NEW a \in Int, Valid("Mariko", w, q, a),
           NEW p \in Int, p < a, VddqKept(w, p)
    PROVE  /\ p \notin DOMAIN Writes("Mariko", c, w, q, a)
           /\ p - 3 \notin DOMAIN Writes("Mariko", c, w, q, a)
           /\ p - 5 \notin DOMAIN Writes("Mariko", c, w, q, a)
<1>0. "Mariko" \in Socs
  BY DEF Socs
<1>1. Guarded(At(w, p)) /\ Guarded(At(w, p - 3)) /\ Guarded(At(w, p - 5))
  BY KeptIsGuarded
<1>2. ASSUME NEW b \in Int, b < a, b \in DOMAIN Writes("Mariko", c, w, q, a), Guarded(At(w, b)),
             b \in {p, p - 3, p - 5}
      PROVE  FALSE
  <2>1. q = "Mtc" /\ \E i \in MtcSources("Mariko") : b \in {MtcTable(a, i) + 1, MtcTable(a, i) + 2}
    BY <1>0, <1>2, WritesBehind
  <2>2. PICK i \in MtcSources("Mariko") : b \in {MtcTable(a, i) + 1, MtcTable(a, i) + 2}
    BY <2>1
  <2>3. Valid("Mariko", w, "Mtc", a)
    BY <2>1
  <2>4. b \in {a - 3, a - 2} /\ ~Guarded(At(w, a - 8)) /\ ~Guarded(At(w, a - 5))
    BY <1>0, <2>2, <2>3, MovedNeighbours
  <2>5. p = a - 3 \/ p = a - 2
    BY <1>2, <2>4
  <2>6. p = a - 3 => p - 5 = a - 8
    OBVIOUS
  <2>7. p = a - 2 => p - 3 = a - 5
    OBVIOUS
  <2> QED
    BY <1>1, <2>4, <2>5, <2>6, <2>7
<1>3. p - 3 \in Int /\ p - 5 \in Int /\ p - 3 < a /\ p - 5 < a
  OBVIOUS
<1> QED
  BY <1>1, <1>2, <1>3

(* The regulator that is found, with the voltage that is written to it.    *)
LEMMA SafeVolts ==
    ASSUME NEW c, SafetyCheckPasses(c)
    PROVE  /\ c.commonEmcMemVolt # 0 => MemVoltOK(RoundedMemVolt(c.commonEmcMemVolt))
           /\ c.marikoEmcVddqVolt # 0 => VddqOK(RoundedVddq(c.marikoEmcVddqVolt))
<1>1. c.commonEmcMemVolt # 0 => Between(c.commonEmcMemVolt, 1100000, 1250000)
  BY SMT DEF SafetyCheckPasses, InRange
<1>2. c.marikoEmcVddqVolt # 0 => Between(c.marikoEmcVddqVolt, 550000, 650000)
  BY SMT DEF SafetyCheckPasses, InRange
<1> QED
  BY <1>1, <1>2, RoundedMemVoltRange, RoundedVddqRange, SMT DEF MemVoltOK, VddqOK

LEMMA MemVoltWritten ==
    ASSUME NEW s \in Socs, NEW c, SafetyCheckPasses(c), NEW w, NEW a \in DOMAIN w, a \in Int,
           Matches(s, w, "MemVolt", a), Valid(s, w, "MemVolt", a),
           NEW v, v = [b \in DOMAIN w |-> IF b \in DOMAIN Writes(s, c, w, "MemVolt", a)
                                          THEN Writes(s, c, w, "MemVolt", a)[b] ELSE w[b]]
    PROVE  MemVoltKept(v, a)
<1> DEFINE F == Writes(s, c, w, "MemVolt", a)
<1>1. F = MemVoltHandler(c, a)
  BY Zenon DEF Writes
<1>2. At(w, a) = 1100000 \/ At(w, a) = 1125000
  BY SMT DEF Matches
<1>3. At(w, a - 2) \in {12500, 600000}
  <2>1. Type1Regulator(w, a - 5) \/ Type1Regulator(w, a - 6)
    BY SMT DEF Valid
  <2>2. CASE Type1Regulator(w, a - 5)
    BY <2>2, SMT DEF Type1Regulator, Holds, MemVoltStep
  <2>3. CASE Type1Regulator(w, a - 6)
    BY <2>3, SMT DEF Type1Regulator, Holds, MemVoltStep
  <2> QED
    BY <2>1, <2>2, <2>3
<1>4. MemVoltOK(1100000) /\ MemVoltOK(1125000)
  BY BetweenDef, SMT DEF MemVoltOK, MemVoltStep
<1>5. CASE c.commonEmcMemVolt = 0
  <2>1. DOMAIN F = {}
    BY <1>1, <1>5, NothingIs, Zenon DEF MemVoltHandler
  <2> HIDE DEF F
  <2>2. At(v, a) = At(w, a) /\ At(v, a - 2) = At(w, a - 2)
    BY <2>1, AtAfter DEF F
  <2> QED
    BY <2>2, <1>2, <1>3, <1>4, SMT DEF MemVoltKept
<1>6. CASE c.commonEmcMemVolt # 0
  <2> DEFINE x == RoundedMemVolt(c.commonEmcMemVolt)
  <2>1. F = Put(a, <<x>>)
    BY <1>1, <1>6, Zenon DEF MemVoltHandler
  <2>2. MemVoltOK(x)
    BY <1>6, SafeVolts
  <2> HIDE DEF x
  <2>3. DOMAIN F = {a} /\ F[a] = x
    BY <2>1, PutOne, Zenon
  <2>4. a - 2 \notin {a}
    OBVIOUS
  <2> HIDE DEF F
  <2>5. At(v, a) = x /\ At(v, a - 2) = At(w, a - 2)
    BY <2>3, <2>4, AtAfter DEF F
  <2> QED
    BY <2>2, <2>5, <1>3, SMT DEF MemVoltKept
<1> QED
  BY <1>5, <1>6

LEMMA VddqWritten ==
    ASSUME NEW s \in Socs, NEW c, SafetyCheckPasses(c), NEW w, NEW a \in DOMAIN w, a \in Int,
           Matches(s, w, "Vddq", a), Valid(s, w, "Vddq", a),
           NEW v, v = [b \in DOMAIN w |-> IF b \in DOMAIN Writes(s, c, w, "Vddq", a)
                                          THEN Writes(s, c, w, "Vddq", a)[b] ELSE w[b]]
    PROVE  VddqKept(v, a)
<1> DEFINE F == Writes(s, c, w, "Vddq", a)
<1>1. F = EmcVddqVolt(c, a)
  BY Zenon DEF Writes
<1>2. At(w, a) = 600000
  BY SMT DEF Matches
<1>3. At(w, a - 5) = 5000 /\ At(w, a - 3) = 250000
  BY SMT DEF Valid, VddqStep
<1>4. VddqOK(600000)
  BY BetweenDef, SMT DEF VddqOK, VddqStep
<1>5. CASE c.marikoEmcVddqVolt = 0
  <2>1. DOMAIN F = {}
    BY <1>1, <1>5, NothingIs, Zenon DEF EmcVddqVolt
  <2> HIDE DEF F
  <2>2. At(v, a) = At(w, a) /\ At(v, a - 5) = At(w, a - 5) /\ At(v, a - 3) = At(w, a - 3)
    BY <2>1, AtAfter DEF F
  <2> QED
    BY <2>2, <1>2, <1>3, <1>4, SMT DEF VddqKept
<1>6. CASE c.marikoEmcVddqVolt # 0
  <2> DEFINE x == RoundedVddq(c.marikoEmcVddqVolt)
  <2>1. F = Put(a, <<x>>)
    BY <1>1, <1>6, Zenon DEF EmcVddqVolt
  <2>2. VddqOK(x)
    BY <1>6, SafeVolts
  <2> HIDE DEF x
  <2>3. DOMAIN F = {a} /\ F[a] = x
    BY <2>1, PutOne, Zenon
  <2>4. a - 5 \notin {a} /\ a - 3 \notin {a}
    OBVIOUS
  <2> HIDE DEF F
  <2>5. At(v, a) = x /\ At(v, a - 5) = At(w, a - 5) /\ At(v, a - 3) = At(w, a - 3)
    BY <2>3, <2>4, AtAfter DEF F
  <2> QED
    BY <2>2, <2>5, <1>3, SMT DEF VddqKept
<1> QED
  BY <1>5, <1>6

LEMMA VoltStep ==
    ASSUME PcvTypeOK, VoltInv, [PcvNext]_pcvVars
    PROVE  VoltInv'
<1>1. nso \in Nsos /\ cust \in CustomizeTable /\ soc \in Socs
  BY CustomsAssumption, ImageFacts DEF PcvTypeOK, soc
<1>2. /\ cust.marikoEmcMaxClock \in Int /\ cust.marikoEmcDvbShift \in Int
  BY <1>1, CustomInts
<1>3. /\ patched \in [Patches -> SUBSET (1..ScanEnd(nso))] /\ ScanEnd(nso) \in Nat
      /\ ptr \in Int /\ DOMAIN word = 1..Len(nso.word) /\ ScanEnd(nso) + 3 = Len(nso.word)
      /\ Len(nso.word) \in Nat /\ ptr >= 1
  BY <1>1, ImageFacts DEF PcvTypeOK
<1>4. CASE SafetyCheck
  BY <1>4, Zenon DEF VoltInv, SafetyCheck, soc
<1>5. CASE CheckResult
  BY <1>5, Zenon DEF VoltInv, CheckResult, soc
<1>6. CASE UNCHANGED pcvVars
  BY <1>6, Zenon DEF VoltInv, pcvVars, soc
<1>7. CASE PatchWord
  <2>1. /\ status = "scan" /\ ptr <= ScanEnd(nso) /\ ptr' = ptr + 1
        /\ nso' = nso /\ cust' = cust /\ status' = status
        /\ UNCHANGED <<word, regs, patched>> \/ \E p \in Patches : Applied(p, ptr)
    BY <1>1, <1>7, PatchWordIs
  <2>2. SafetyCheckPasses(cust) /\ soc' = soc
    BY <2>1 DEF VoltInv, soc
  <2>3. \A p \in Int : p < ptr => p < ptr'
    BY <1>3, <2>1
  <2>4. CASE UNCHANGED <<word, regs, patched>>
    <3>1. \A p \in patched["MemVolt"] \cup patched["Vddq"] : p \in Int
      BY <1>3 DEF Patches
    <3> QED
      BY <2>1, <2>2, <2>3, <2>4, <3>1, Zenon DEF VoltInv
  <2>5. ASSUME NEW q \in Patches, Applied(q, ptr)
        PROVE  VoltInv'
    <3> DEFINE F == Writes(soc, cust, word, q, ptr)
    <3>1. /\ PatchOf(soc, q) /\ Matches(soc, word, q, ptr) /\ Valid(soc, word, q, ptr)
          /\ word' = [b \in DOMAIN word |-> IF b \in DOMAIN F THEN F[b] ELSE word[b]]
          /\ patched' = [patched EXCEPT ![q] = @ \cup {ptr}]
      BY <2>5, Zenon DEF Applied
    <3>2. /\ patched'["MemVolt"] = IF q = "MemVolt" THEN patched["MemVolt"] \cup {ptr} ELSE patched["MemVolt"]
          /\ patched'["Vddq"] = IF q = "Vddq" THEN patched["Vddq"] \cup {ptr} ELSE patched["Vddq"]
      BY <1>3, <3>1 DEF Patches
    <3>3. ptr \in DOMAIN word /\ ptr < ptr'
      BY <1>3, <2>1
    <3>4. ASSUME NEW b, b \notin DOMAIN F PROVE At(word', b) = At(word, b)
      <4> HIDE DEF F
      <4> QED
        BY <3>1, <3>4, AtAfter
    <3>5. ASSUME NEW p \in patched'["MemVolt"] PROVE p < ptr' /\ MemVoltKept(word', p)
      <4>1. CASE p \in patched["MemVolt"]
        <5>1. p \in Int /\ p < ptr /\ MemVoltKept(word, p)
          BY <1>3, <4>1 DEF VoltInv, Patches
        <5>2. p \notin DOMAIN F /\ p - 2 \notin DOMAIN F
          BY <1>1, <1>2, <1>3, <3>1, <5>1, MemVoltStays
        <5>3. At(word', p) = At(word, p) /\ At(word', p - 2) = At(word, p - 2)
          BY <3>4, <5>2, Zenon
        <5> QED
          BY <2>3, <5>1, <5>3, KeptSame, Zenon
      <4>2. CASE q = "MemVolt" /\ p = ptr
        <5>1. MemVoltKept(word', ptr)
          <6>1. /\ Matches(soc, word, "MemVolt", ptr) /\ Valid(soc, word, "MemVolt", ptr) /\ ptr \in Int
                /\ word' = [b \in DOMAIN word |-> IF b \in DOMAIN Writes(soc, cust, word, "MemVolt", ptr)
                              THEN Writes(soc, cust, word, "MemVolt", ptr)[b] ELSE word[b]]
            BY <1>3, <3>1, <4>2, Zenon
          <6> QED
            BY <1>1, <2>2, <3>3, <6>1, MemVoltWritten
        <5> QED
          BY <3>3, <4>2, <5>1
      <4> QED
        BY <3>2, <3>5, <4>1, <4>2
    <3>6. ASSUME NEW p \in patched'["Vddq"] PROVE p < ptr' /\ soc = "Mariko" /\ VddqKept(word', p)
      <4>1. CASE p \in patched["Vddq"]
        <5>1. p \in Int /\ p < ptr /\ soc = "Mariko" /\ VddqKept(word, p)
          BY <1>3, <4>1 DEF VoltInv, Patches
        <5>2. p \notin DOMAIN F /\ p - 3 \notin DOMAIN F /\ p - 5 \notin DOMAIN F
          BY <1>2, <1>3, <3>1, <5>1, VddqStays
        <5>3. /\ At(word', p) = At(word, p) /\ At(word', p - 3) = At(word, p - 3)
              /\ At(word', p - 5) = At(word, p - 5)
          BY <3>4, <5>2, Zenon
        <5> QED
          BY <2>3, <5>1, <5>3, KeptSame, Zenon
      <4>2. CASE q = "Vddq" /\ p = ptr
        <5>1. VddqKept(word', ptr)
          <6>1. /\ Matches(soc, word, "Vddq", ptr) /\ Valid(soc, word, "Vddq", ptr) /\ ptr \in Int
                /\ word' = [b \in DOMAIN word |-> IF b \in DOMAIN Writes(soc, cust, word, "Vddq", ptr)
                              THEN Writes(soc, cust, word, "Vddq", ptr)[b] ELSE word[b]]
            BY <1>3, <3>1, <4>2, Zenon
          <6> QED
            BY <1>1, <2>2, <3>3, <6>1, VddqWritten
        <5>2. soc = "Mariko"
          BY <1>1, <3>1, <4>2 DEF PatchOf, Socs
        <5> QED
          BY <3>3, <4>2, <5>1, <5>2
      <4> QED
        BY <3>2, <3>6, <4>1, <4>2
    <3> QED
      BY <2>1, <2>2, <3>5, <3>6, Zenon DEF VoltInv
  <2> QED
    BY <2>1, <2>4, <2>5
<1> QED
  BY <1>4, <1>5, <1>6, <1>7 DEF PcvNext

-----------------------------------------------------------------------------
(***************************************************************************)
(* ptm and the sysmodule's start.                                          *)
(***************************************************************************)
PtmInv ==
    /\ ptm \in {"unloaded", "find", "apply", "accepted", "crash"}
    /\ conf \in Seq(Int) /\ DOMAIN conf = DOMAIN image
    /\ entry \in 0..entryCnt /\ boosts \in 0..entry /\ mems \in 0..entry
    /\ table \in 0..Len(conf) /\ boost \in Int
    /\ ptm \in {"unloaded", "find"} => table = 0 /\ entry = 0
    /\ ptm # "unloaded" => status = "accepted"

RailsSafe(r, c) ==
    /\ r["VDDQ"] # 0 => Between(r["VDDQ"], 550000, c.marikoEmcVddqVolt)
    /\ r["VDD2"] # 0 => Between(r["VDD2"], 1100000, c.commonEmcMemVolt)

CpInv ==
    /\ sysmodule # "off" => card \in Cards
    /\ dir \in 1..5 /\ pos \in Nat \ {0}
    /\ sysmodule \in {"off", "search", "ready", "exited"}
    /\ boostCpuFreq \in Nat /\ maxMemFreq \in Nat
    /\ DOMAIN freqTable = {"CPU", "GPU", "MEM"} /\ DOMAIN rails = {"VDDQ", "VDD2"}
    /\ sysmodule # "ready" => rails["VDDQ"] = 0 /\ rails["VDD2"] = 0
    /\ sysmodule = "ready" => RailsSafe(rails, kip.cust)

LEMMA PtmInit0 == BootInit => PtmInv
<1> SUFFICES ASSUME BootInit PROVE PtmInv
  OBVIOUS
<1>1. /\ image = <<>> /\ conf = <<>> /\ boost = 0 /\ table = 0 /\ entry = 0 /\ boosts = 0 /\ mems = 0
      /\ ptm = "unloaded"
  BY DEF BootInit, LoaderInit, PtmInit
<1>2. conf \in Seq(Int) /\ Len(conf) = 0
  BY <1>1
<1> QED
  BY <1>1, <1>2, entryCntAssumption DEF PtmInv

(* What a patch of an entry does to the image.                             *)
LEMMA PairPatched ==
    ASSUME NEW w \in Seq(Int), NEW a \in Int, NEW b \in Int, NEW x \in Int
    PROVE  /\ [w EXCEPT ![a] = x, ![b] = x] \in Seq(Int)
           /\ DOMAIN [w EXCEPT ![a] = x, ![b] = x] = DOMAIN w
           /\ Len([w EXCEPT ![a] = x, ![b] = x]) = Len(w)
<1> DEFINE v == [w EXCEPT ![a] = x, ![b] = x]
<1>1. DOMAIN v = DOMAIN w /\ DOMAIN w = 1..Len(w) /\ Len(w) \in Nat
  OBVIOUS
<1>2. \A i \in 1..Len(w) : v[i] \in Int
  OBVIOUS
<1>3. v = [i \in 1..Len(w) |-> v[i]]
  BY <1>1
<1> HIDE DEF v
<1>4. v \in Seq(Int)
  BY <1>1, <1>2, <1>3
<1>5. Len(v) = Len(w)
  BY <1>1, <1>4
<1> QED
  BY <1>1, <1>4, <1>5 DEF v

LEMMA EntryPatched ==
    ASSUME NEW w \in Seq(Int), NEW a \in Int, boost \in Int
    PROVE  /\ MemPtm(CpuPtmBoost(w, a), a) \in Seq(Int)
           /\ DOMAIN MemPtm(CpuPtmBoost(w, a), a) = DOMAIN w
           /\ Len(MemPtm(CpuPtmBoost(w, a), a)) = Len(w)
<1> DEFINE v == CpuPtmBoost(w, a)
<1>0. a + 1 \in Int /\ a + 2 \in Int /\ a + 5 \in Int /\ a + 6 \in Int
  OBVIOUS
<1>1. v \in Seq(Int) /\ DOMAIN v = DOMAIN w /\ Len(v) = Len(w)
  <2>1. CASE w[a + 1] = cpuPtmBoost /\ boost # 0
    <3>1. v = [w EXCEPT ![a + 1] = boost, ![a + 2] = boost]
      BY <2>1, Zenon DEF CpuPtmBoost
    <3>2. LET u == [w EXCEPT ![a + 1] = boost, ![a + 2] = boost]
          IN  u \in Seq(Int) /\ DOMAIN u = DOMAIN w /\ Len(u) = Len(w)
      BY <1>0, PairPatched
    <3> QED
      BY <3>1, <3>2, Zenon
  <2>2. CASE ~(w[a + 1] = cpuPtmBoost /\ boost # 0)
    BY <2>2, Zenon DEF CpuPtmBoost
  <2> QED
    BY <2>1, <2>2
<1>2. memPtmLimit \in Int
  BY SMT DEF memPtmLimit
<1> HIDE DEF v
<1>3. MemPtm(v, a) \in Seq(Int) /\ DOMAIN MemPtm(v, a) = DOMAIN w /\ Len(MemPtm(v, a)) = Len(w)
  <2>1. CASE console = "Mariko"
    <3>1. MemPtm(v, a) = [v EXCEPT ![a + 5] = memPtmLimit, ![a + 6] = memPtmLimit]
      BY <2>1, Zenon DEF MemPtm
    <3>2. MemPtm(v, a) \in Seq(Int) /\ DOMAIN MemPtm(v, a) = DOMAIN v /\ Len(MemPtm(v, a)) = Len(v)
      <4>1. LET u == [v EXCEPT ![a + 5] = memPtmLimit, ![a + 6] = memPtmLimit]
            IN  u \in Seq(Int) /\ DOMAIN u = DOMAIN v /\ Len(u) = Len(v)
        BY <1>0, <1>1, <1>2, PairPatched
      <4> QED
        BY <3>1, <4>1, Zenon
    <3> QED
      BY <1>1, <3>2, Zenon
  <2>2. CASE console # "Mariko"
    BY <1>1, <2>2, Zenon DEF MemPtm
  <2> QED
    BY <2>1, <2>2
<1> QED
  BY <1>3 DEF v

LEMMA PtmStep ==
    ASSUME PtmInv, PcvTypeOK, [BootNext]_bootVars
    PROVE  PtmInv'
<1>1. CASE UNCHANGED ptmVars /\ status' = status
  BY <1>1, Zenon DEF PtmInv, ptmVars
<1>2. CASE PcvNext /\ UNCHANGED ptmVars
  <2>1. status = "accepted" => status' = "accepted"
    BY <1>2 DEF PcvNext, SafetyCheck, PatchWord, CheckResult
  <2> QED
    BY <1>2, <2>1, Zenon DEF PtmInv, ptmVars
<1>3. CASE StartPtm /\ UNCHANGED pcvVars
  <2>1. status' = status /\ status = "accepted"
    BY <1>3 DEF StartPtm, pcvVars
  <2>2. entryCnt \in Nat /\ entryCnt >= 1 /\ Len(conf) \in Nat
    BY entryCntAssumption DEF PtmInv
  <2>3. CASE LoadPtm(soc, cust.commonCpuBoostClock)
    <3>1. /\ conf' = image' /\ conf' \in Seq(Int) /\ ptm = "unloaded" /\ ptm' = "find"
          /\ table' = table /\ entry' = entry /\ boosts' = boosts /\ mems' = mems
          /\ boost' = cust.commonCpuBoostClock
      BY <2>3, PtmImagesAssumption DEF LoadPtm
    <3>2. boost' \in Int
      BY <3>1, CustomsAssumption, CustomInts DEF PcvTypeOK
    <3>3. table = 0 /\ Len(conf') \in Nat
      BY <3>1 DEF PtmInv
    <3> QED
      BY <2>1, <3>1, <3>2, <3>3 DEF PtmInv
  <2>4. CASE FindTable
    <3>1. /\ conf' = conf /\ image' = image /\ boost' = boost /\ ptm = "find"
          /\ entry' = entry /\ boosts' = boosts /\ mems' = mems
      BY <2>4 DEF FindTable
    <3>2. CASE ptm' = "crash" /\ table' = table
      BY <2>1, <3>1, <3>2 DEF PtmInv
    <3>3. CASE ptm' = "apply" /\ TableStarts(conf) # {}
               /\ table' = CHOOSE a \in TableStarts(conf) : \A b \in TableStarts(conf) : a <= b
      <4>1. TableStarts(conf) \subseteq 1..Len(conf)
        BY <2>2 DEF TableStarts, EntrySize
      <4>2. \E a \in TableStarts(conf) : \A b \in TableStarts(conf) : a <= b
        <5>1. TableStarts(conf) \in SUBSET Nat
          BY <2>2, <4>1
        <5> QED
          BY <3>3, <5>1, FirstIndex
      <4>3. table' \in TableStarts(conf)
        BY <3>3, <4>2, Zenon
      <4>4. table' \in 0..Len(conf)
        BY <2>2, <4>1, <4>3
      <4> QED
        BY <2>1, <3>1, <3>3, <4>4 DEF PtmInv
    <3> QED
      BY <2>4, <3>2, <3>3 DEF FindTable
  <2>5. CASE PatchEntry
    <3> DEFINE a == EntryAt(table, entry)
    <3>1. /\ image' = image /\ boost' = boost /\ table' = table /\ ptm = "apply" /\ entry < entryCnt
      BY <2>5 DEF PatchEntry
    <3>2. CASE ptm' = "crash" /\ UNCHANGED <<conf, entry, boosts, mems>>
      BY <2>1, <3>1, <3>2 DEF PtmInv
    <3>3. CASE /\ conf' = MemPtm(CpuPtmBoost(conf, a), a)
               /\ boosts' = (IF conf[a + 1] = cpuPtmBoost THEN boosts + 1 ELSE boosts)
               /\ mems' = (IF console = "Mariko" THEN mems + 1 ELSE mems)
               /\ entry' = entry + 1 /\ ptm' = ptm
      <4>1. a \in Int /\ conf \in Seq(Int) /\ boost \in Int
        BY DEF PtmInv, EntryAt, EntrySize
      <4> HIDE DEF a
      <4>2. conf' \in Seq(Int) /\ DOMAIN conf' = DOMAIN conf /\ Len(conf') = Len(conf)
        BY <3>3, <4>1, EntryPatched
      <4>3. boosts' \in {boosts, boosts + 1} /\ mems' \in {mems, mems + 1} /\ entry' = entry + 1 /\ ptm' = ptm
        BY <3>3, Zenon
      <4> QED
        BY <2>1, <2>2, <3>1, <4>2, <4>3 DEF PtmInv
    <3> QED
      BY <2>5, <3>2, <3>3, Zenon DEF PatchEntry
  <2>6. CASE PtmCheckResult
    BY <2>1, <2>6 DEF PtmInv, PtmCheckResult
  <2> QED
    BY <1>3, <2>3, <2>4, <2>5, <2>6 DEF StartPtm, PtmNext
<1> QED
  BY <1>1, <1>2, <1>3, BootStep DEF pcvVars
-----------------------------------------------------------------------------

LEMMA CpInit0 == BootInit => CpInv
<1> SUFFICES ASSUME BootInit PROVE CpInv
  OBVIOUS
<1>1. /\ dir = 1 /\ pos = 1 /\ sysmodule = "off" /\ rails = [r \in {"VDDQ", "VDD2"} |-> 0]
      /\ maxMemFreq = 0
  BY SMT DEF BootInit, CpInit
<1>2. boostCpuFreq \in Nat
  BY SMT DEF BootInit, CpInit
<1>3. DOMAIN freqTable = {"CPU", "GPU", "MEM"}
  BY SMT DEF BootInit, CpInit
<1> QED
  BY <1>1, <1>2, <1>3 DEF CpInv

(* The rails a KIP sets.                                                   *)
LEMMA RailsSet ==
    ASSUME NEW c
    PROVE  /\ DOMAIN RailsToSet(c) \subseteq {"VDDQ", "VDD2"}
           /\ "VDDQ" \in DOMAIN RailsToSet(c) =>
                 Between(RailsToSet(c)["VDDQ"], 550000, c.marikoEmcVddqVolt)
           /\ "VDD2" \in DOMAIN RailsToSet(c) =>
                 Between(RailsToSet(c)["VDD2"], 1100000, c.commonEmcMemVolt)
<1>1. DOMAIN RailsToSet(c) \subseteq {"VDDQ", "VDD2"}
  BY SMT DEF RailsToSet
<1>2. ASSUME "VDDQ" \in DOMAIN RailsToSet(c)
      PROVE  /\ Between(c.marikoEmcVddqVolt, 550000, 650000)
             /\ RailsToSet(c)["VDDQ"] = SetMvOut(I2c_Mariko_DRAM_VDDQ, c.marikoEmcVddqVolt \div 1000)
  BY <1>2, SMT DEF RailsToSet
<1>3. ASSUME "VDD2" \in DOMAIN RailsToSet(c)
      PROVE  /\ Between(c.commonEmcMemVolt, 1100000, 1250000)
             /\ RailsToSet(c)["VDD2"] = SetMvOut(I2c_Mariko_DRAM_VDD2, c.commonEmcMemVolt \div 1000)
  BY <1>3, SMT DEF RailsToSet
<1>4. ASSUME "VDDQ" \in DOMAIN RailsToSet(c)
      PROVE  Between(RailsToSet(c)["VDDQ"], 550000, c.marikoEmcVddqVolt)
  BY <1>2, <1>4, SetVddq, SMT
<1>5. ASSUME "VDD2" \in DOMAIN RailsToSet(c)
      PROVE  Between(RailsToSet(c)["VDD2"], 1100000, c.commonEmcMemVolt)
  BY <1>3, <1>5, SetVdd2, SMT
<1> QED
  BY <1>1, <1>4, <1>5, SMT

LEMMA CpStep ==
    ASSUME CpInv, [BootNext]_bootVars
    PROVE  CpInv'
<1> USE DirsLength
<1>1. CASE UNCHANGED cpVars
  BY <1>1, Zenon DEF CpInv, cpVars, clockVars
<1>2. CASE Launch
  BY <1>2 DEF CpInv, Launch, clockVars
<1>3. CASE ReadEntry
  <2> DEFINE f == card[dir][pos]
  <2>1. /\ card' = card /\ dir' = dir /\ sysmodule = "search" /\ card \in Cards
        /\ pos \in 1..Len(card[dir]) /\ dir \in DOMAIN Dirs
    BY <1>3 DEF ReadEntry, CpInv
  <2>2. f \in Files
    BY <2>1, CardsAssumption
  <2>3. f.cust \in CustomizeTable
    BY <2>2 DEF Files
  <2> HIDE DEF f
  <2>4. CASE pos' = pos + 1 /\ UNCHANGED <<sysmodule, kip, clockVars>>
    BY <2>1, <2>4 DEF CpInv, clockVars
  <2>5. CASE /\ sysmodule' = "ready" /\ kip' = f /\ pos' = pos
             /\ boostCpuFreq' = (IF f.cust.commonCpuBoostClock # 0
                                 THEN f.cust.commonCpuBoostClock ELSE boostCpuFreq)
             /\ maxMemFreq' = NewMaxMemFreq(f.cust)
             /\ DOMAIN freqTable' = {"CPU", "GPU", "MEM"}
             /\ \E set \in SUBSET DOMAIN RailsToSet(f.cust) :
                  rails' = [r \in DOMAIN rails |->
                              IF r \in set THEN RailsToSet(f.cust)[r] ELSE rails[r]]
    <3>1. boostCpuFreq' \in Nat /\ maxMemFreq' \in Nat
      BY <2>3, <2>5, CustomInts DEF CpInv, NewMaxMemFreq, EmcClockOf
    <3>2. PICK set \in SUBSET DOMAIN RailsToSet(f.cust) :
            rails' = [r \in DOMAIN rails |-> IF r \in set THEN RailsToSet(f.cust)[r] ELSE rails[r]]
      BY <2>5
    <3>3. /\ DOMAIN rails' = {"VDDQ", "VDD2"}
          /\ rails'["VDDQ"] = (IF "VDDQ" \in set THEN RailsToSet(f.cust)["VDDQ"] ELSE 0)
          /\ rails'["VDD2"] = (IF "VDD2" \in set THEN RailsToSet(f.cust)["VDD2"] ELSE 0)
      BY <2>1, <3>2 DEF CpInv
    <3>4. RailsSafe(rails', f.cust)
      BY <3>2, <3>3, RailsSet, SMT DEF RailsSafe
    <3>5. /\ sysmodule' # "off" => card' \in Cards
          /\ dir' \in 1..5 /\ pos' \in Nat \ {0}
          /\ sysmodule' \in {"off", "search", "ready", "exited"}
      BY <2>1, <2>5 DEF CpInv
    <3>6. sysmodule' = "ready" /\ kip' = f /\ DOMAIN freqTable' = {"CPU", "GPU", "MEM"}
      BY <2>5
    <3> QED
      BY <3>1, <3>3, <3>4, <3>5, <3>6, Zenon DEF CpInv
  <2>6. \/ pos' = pos + 1 /\ UNCHANGED <<sysmodule, kip, clockVars>>
        \/ /\ sysmodule' = "ready" /\ kip' = f /\ pos' = pos
           /\ boostCpuFreq' = (IF f.cust.commonCpuBoostClock # 0
                               THEN f.cust.commonCpuBoostClock ELSE boostCpuFreq)
           /\ maxMemFreq' = NewMaxMemFreq(f.cust)
           /\ DOMAIN freqTable' = {"CPU", "GPU", "MEM"}
           /\ \E set \in SUBSET DOMAIN RailsToSet(f.cust) :
                  rails' = [r \in DOMAIN rails |->
                              IF r \in set THEN RailsToSet(f.cust)[r] ELSE rails[r]]
    BY <1>3, Zenon DEF ReadEntry, f
  <2> QED
    BY <2>4, <2>5, <2>6, Zenon
<1>4. CASE NextDir
  BY <1>4 DEF CpInv, NextDir, clockVars
<1>5. CASE NoLoaderKip
  BY <1>5 DEF CpInv, NoLoaderKip, clockVars
<1> QED
  BY BootStep, <1>1, <1>2, <1>3, <1>4, <1>5 DEF CpNext

-----------------------------------------------------------------------------
(* The inductive invariant of the boot.                                    *)
BootInv ==
    /\ PcvTypeOK /\ VoltInv
    /\ PtmInv
    /\ CpInv
    /\ isMariko = (soc = "Mariko")

LEMMA BootInvInit == BootInit => BootInv
<1> SUFFICES ASSUME BootInit PROVE BootInv
  OBVIOUS
<1>1. PcvInit
  BY DEF BootInit, LoaderInit
<1>2. VoltInv
  <2>1. status = "check" /\ patched["MemVolt"] = {} /\ patched["Vddq"] = {}
    BY <1>1 DEF PcvInit, Patches
  <2> QED
    BY <2>1 DEF VoltInv
<1>3. isMariko = (soc = "Mariko")
  BY DEF BootInit
<1> QED
  BY <1>1, <1>2, <1>3, PcvTypeInit, PtmInit0, CpInit0 DEF BootInv

LEMMA BootInvStep == BootInv /\ [BootNext]_bootVars => BootInv'
<1> SUFFICES ASSUME BootInv, [BootNext]_bootVars PROVE BootInv'
  OBVIOUS
<1>1. [PcvNext]_pcvVars
  BY BootStep
<1>2. PcvTypeOK' /\ VoltInv'
  BY <1>1, PcvTypeStep, VoltStep DEF BootInv
<1>3. PtmInv' /\ CpInv'
  BY PtmStep, CpStep DEF BootInv
<1>4. isMariko' = isMariko /\ nso' = nso
  <2>1. isMariko' = isMariko
    BY BootStep DEF cpVars, CpNext, Launch, ReadEntry, NextDir, NoLoaderKip
  <2>2. nso' = nso
    BY <1>1 DEF PcvNext, SafetyCheck, PatchWord, CheckResult, pcvVars
  <2> QED
    BY <2>1, <2>2
<1>5. isMariko' = (soc' = "Mariko")
  BY <1>4 DEF BootInv, soc
<1> QED
  BY <1>2, <1>3, <1>5 DEF BootInv

(* For every image, customisation and card: types are kept by every        *)
(* patch, in whatever order the image calls for them, by ptm's patcher and *)
(* by the sysmodule's start.                                               *)
THEOREM BootTypeCorrect == BootSpec => []BootTypeOK
<1>1. BootInv => BootTypeOK
  BY DirsLength DEF BootInv, BootTypeOK, LoaderTypeOK, PtmInv, CpInv
<1> QED
  BY <1>1, BootInvInit, BootInvStep, PTL DEF BootSpec

(* For every image, customisation and card: no voltage leaves its limits.  *)
THEOREM BootIsSafe == BootSpec => []VoltagesSafe
<1>1. BootInv => VoltagesSafe
  <2> SUFFICES ASSUME BootInv PROVE VoltagesSafe
    OBVIOUS
  <2>1. /\ rails["VDDQ"] # 0 => Between(rails["VDDQ"], 550000, kip.cust.marikoEmcVddqVolt)
        /\ rails["VDD2"] # 0 => Between(rails["VDD2"], 1100000, kip.cust.commonEmcMemVolt)
    BY SMT DEF BootInv, CpInv, RailsSafe
  <2>2. nso \in Nsos /\ patched \in [Patches -> SUBSET (1..ScanEnd(nso))] /\ DOMAIN word = DOMAIN nso.word
    BY DEF BootInv, PcvTypeOK
  <2>3. \A a \in patched["MemVolt"] \cup patched["Vddq"] : a \in DOMAIN word
    BY <2>2, ImageFacts DEF Patches
  <2>4. \A a \in DOMAIN word : At(word, a) = word[a]
    BY SMT DEF At
  <2>5. \A a \in patched["MemVolt"] : MemVoltOK(word[a])
    BY <2>3, <2>4, SMT DEF BootInv, VoltInv, MemVoltKept
  <2>6. \A a \in patched["Vddq"] : VddqOK(word[a])
    BY <2>3, <2>4, SMT DEF BootInv, VoltInv, VddqKept
  <2> QED
    BY <2>1, <2>5, <2>6, SMT DEF VoltagesSafe, MemVoltOK, VddqOK
<1> QED
  BY <1>1, BootInvInit, BootInvStep, PTL DEF BootSpec

-----------------------------------------------------------------------------
(***************************************************************************)
(* Each structure is patched as if it were alone.                          *)
(*                                                                         *)
(* What a patch finds and writes depends on the words of its structure     *)
(* only (Local).  Where the structures are laid out apart, these are the   *)
(* words of the firmware when the scan comes to them, and what was written *)
(* is there when it ends.                                                  *)
(***************************************************************************)
Agree(S, w, v) == \A x \in S : At(w, x) = At(v, x)

LEMMA Ends ==
    ASSUME soc \in Socs, NEW a
    PROVE  /\ HeadOf("CpuTable", a) = TableHead(a, CpuOld(soc))
           /\ HeadOf("GpuTable", a) = TableHead(a, GpuOld(soc))
           /\ EndOf("CpuTable", a) = TableHead(a, CpuOld(soc)) + RowSize * CpuNew(soc, cust)
           /\ EndOf("GpuTable", a) = TableHead(a, GpuOld(soc)) + RowSize * GpuNew(soc)
<1>1. Len(CpuDefault(soc)) = CpuOld(soc) /\ Len(GpuDefault(soc)) = GpuOld(soc)
  BY DefaultTables DEF BeginsCpu, BeginsGpu
<1>2. /\ Len(CpuCustomize(soc, cust).freqs) = CpuNew(soc, cust)
      /\ Len(GpuCustomize(soc, cust).freqs) = GpuNew(soc)
  BY CustomTables DEF BeginsCpu, BeginsGpu
<1> QED
  BY <1>1, <1>2 DEF HeadOf, EndOf, GetDvfsTableEntryCount

LEMMA Counts ==
    /\ CpuOld(soc) \in 16..18 /\ GpuOld(soc) \in 12..17
    /\ CpuNew(soc, cust) \in 19..22 /\ GpuNew(soc) \in 13..17
    /\ CpuOld(soc) < CpuNew(soc, cust) /\ GpuOld(soc) <= GpuNew(soc)
BY DEF CpuOld, GpuOld, CpuNew, GpuNew

LEMMA MtcStructure ==
    ASSUME soc \in Socs, NEW a \in Int, NEW i \in 1..Len(KhzList(soc)),
           NEW x \in (MtcTable(a, i) - 1)..(MtcTable(a, i) + 2)
    PROVE  x \in Structure("Mtc", a)
BY DEF Structure

LEMMA SpanInStructure ==
    ASSUME soc \in Socs, NEW w, NEW p, PatchOf(soc, p), NEW a \in Int,
           NEW b \in WriteSpan(soc, cust, w, p, a)
    PROVE  b \in Structure(p, a)
<1>0. TableHead(a, CpuOld(soc)) \in Int /\ TableHead(a, GpuOld(soc)) \in Int
  BY Counts DEF TableHead, RowSize
<1>1. CASE p = "CpuTable"
  <2>1. b \in TableHead(a, CpuOld(soc))..(TableHead(a, CpuOld(soc)) + RowSize * CpuNew(soc, cust) - 1)
    BY <1>1, Zenon DEF WriteSpan
  <2>2. b \in HeadOf("CpuTable", a)..(EndOf("CpuTable", a) - 1)
    <3>1. HeadOf("CpuTable", a) = TableHead(a, CpuOld(soc))
      BY Ends
    <3>2. EndOf("CpuTable", a) = TableHead(a, CpuOld(soc)) + RowSize * CpuNew(soc, cust)
      BY Ends
    <3> QED
      BY <1>0, <2>1, <3>1, <3>2, Counts DEF RowSize
  <2> QED
    BY <1>0, <1>1, <2>2, Ends, Counts DEF Structure, RowSize
<1>2. CASE p = "GpuTable"
  <2>1. b \in TableHead(a, GpuOld(soc))..(TableHead(a, GpuOld(soc)) + RowSize * GpuNew(soc) - 1)
    BY <1>2, Zenon DEF WriteSpan
  <2>2. b \in HeadOf("GpuTable", a)..(EndOf("GpuTable", a) - 1)
    <3>1. HeadOf("GpuTable", a) = TableHead(a, GpuOld(soc))
      BY Ends
    <3>2. EndOf("GpuTable", a) = TableHead(a, GpuOld(soc)) + RowSize * GpuNew(soc)
      BY Ends
    <3> QED
      BY <1>0, <2>1, <3>1, <3>2, Counts DEF RowSize
  <2> QED
    BY <1>0, <1>2, <2>2, Ends, Counts DEF Structure, RowSize
<1>3. CASE p = "CpuVolt"
  BY <1>3, Zenon DEF Structure, WriteSpan
<1>4. CASE p \in {"CpuDfll", "Pllm", "CpuVdd", "GpuPll", "Max", "Vddq", "MemVolt"}
  BY <1>4 DEF Structure, WriteSpan
<1>5. CASE p = "GpuAsm"
  BY <1>5 DEF Structure, WriteSpan
<1>6. CASE p = "Dvb"
  BY <1>6 DEF Structure, WriteSpan, TableHead, RowSize
<1>7. CASE p = "Mtc"
  <2>1. CASE b \in a..(a + 2)
    <3>1. MtcTable(a, 1) = a /\ 1 \in 1..Len(KhzList(soc))
      <4>1. Len(KhzList(soc)) \in {3, 10}
        BY KhzListIs
      <4> QED
        BY <4>1 DEF MtcTable, MtcSize
    <3> QED
      BY <1>7, <2>1, <3>1, MtcStructure
  <2>2. CASE \E i \in MtcSources(soc) : b \in (MtcTable(a, i) - 1)..(MtcTable(a, i) + 2)
    <3>1. PICK i \in MtcSources(soc) : b \in (MtcTable(a, i) - 1)..(MtcTable(a, i) + 2)
      BY <2>2
    <3>2. i \in 1..Len(KhzList(soc))
      BY MtcSourcesAre, KhzListIs
    <3> QED
      BY <1>7, <3>1, <3>2, MtcStructure
  <2> QED
    BY <1>7, <2>1, <2>2 DEF WriteSpan
<1> QED
  BY <1>1, <1>2, <1>3, <1>4, <1>5, <1>6, <1>7 DEF PatchOf, Patches

LEMMA WritesInStructure ==
    ASSUME soc \in Socs, cust \in CustomizeTable, NEW w, NEW p, PatchOf(soc, p), NEW a \in Int
    PROVE  DOMAIN Writes(soc, cust, w, p, a) \subseteq Structure(p, a)
<1>1. cust.marikoEmcMaxClock \in Int /\ cust.marikoEmcDvbShift \in Int
  BY CustomInts
<1> QED
  BY <1>1, InSpan, SpanInStructure

(* A table validated in one image is one in another that has its words.    *)
LEMMA SameTable ==
    ASSUME NEW w, NEW v, NEW a \in Int, NEW rows, NEW n \in Nat, Len(rows) = n,
           \A i \in 1..n : Len(rows[i]) = 4,
           Agree(TableHead(a, n)..(a + RowSize - 1), w, v),
           TableEndsAt(w, a, rows)
    PROVE  TableEndsAt(v, a, rows)
<1> SUFFICES ASSUME NEW i \in 1..n
             PROVE  Holds(v, TableHead(a, n) + RowSize * (i - 1), rows[i])
  BY DEF TableEndsAt
<1>1. Holds(w, TableHead(a, n) + RowSize * (i - 1), rows[i])
  BY DEF TableEndsAt
<1>2. Len(rows[i]) = 4
  BY Zenon
<1> SUFFICES ASSUME NEW j \in 1..4
             PROVE  At(v, TableHead(a, n) + RowSize * (i - 1) + j - 1) = rows[i][j]
  BY <1>2 DEF Holds
<1>3. At(w, TableHead(a, n) + RowSize * (i - 1) + j - 1) = rows[i][j]
  BY <1>1, <1>2 DEF Holds
<1>4. TableHead(a, n) + RowSize * (i - 1) + j - 1 \in TableHead(a, n)..(a + RowSize - 1)
  BY DEF TableHead, RowSize
<1> QED
  BY <1>3, <1>4, Zenon DEF Agree

StockCpuRows == [i \in DOMAIN CpuDefault(soc) |-> CpuRow(soc, CpuDefault(soc)[i], "stock")]
StockGpuRows == [i \in DOMAIN GpuDefault(soc) |-> GpuRow(GpuDefault(soc)[i], "stock")]
StockDvbRows == [i \in 1..6 |-> DvbRow(EmcDvbTableDefault[i])]

LEMMA ValidTable ==
    ASSUME NEW w, NEW a
    PROVE  /\ Valid(soc, w, "CpuTable", a) <=> TableEndsAt(w, a, StockCpuRows)
           /\ Valid(soc, w, "GpuTable", a) <=> TableEndsAt(w, a, StockGpuRows)
           /\ Valid(soc, w, "Dvb", a) <=> TableEndsAt(w, a, StockDvbRows)
<1> HIDE DEF CpuDefault, GpuDefault, CpuRow, GpuRow, EmcDvbTableDefault
<1>1. Valid(soc, w, "CpuTable", a) <=> TableEndsAt(w, a, StockCpuRows)
  BY DEF Valid, StockCpuRows
<1>2. Valid(soc, w, "GpuTable", a) <=> TableEndsAt(w, a, StockGpuRows)
  BY DEF Valid, StockGpuRows
<1>3. Valid(soc, w, "Dvb", a) <=> TableEndsAt(w, a, StockDvbRows)
  BY DEF Valid, StockDvbRows
<1> QED
  BY <1>1, <1>2, <1>3

LEMMA StockRowsFour ==
    ASSUME soc \in Socs
    PROVE  /\ Len(StockCpuRows) = CpuOld(soc) /\ \A i \in 1..CpuOld(soc) : Len(StockCpuRows[i]) = 4
           /\ Len(StockGpuRows) = GpuOld(soc) /\ \A i \in 1..GpuOld(soc) : Len(StockGpuRows[i]) = 4
           /\ Len(StockDvbRows) = 6 /\ \A i \in 1..6 : Len(StockDvbRows[i]) = 4
<1>1. /\ DOMAIN CpuDefault(soc) = 1..CpuOld(soc) /\ \A i \in 1..CpuOld(soc) : CpuDefault(soc)[i] \in Int
      /\ DOMAIN GpuDefault(soc) = 1..GpuOld(soc)
      /\ CpuOld(soc) \in Nat /\ GpuOld(soc) \in Nat
  BY DefaultTables, Counts DEF BeginsCpu, BeginsGpu
<1>2. ASSUME NEW f \in Int PROVE Len(CpuRow(soc, f, "stock")) = 4
  <2>1. \E k \in {51, 52}, x \in {0, 51, 52, 1120000, 1235000} : CpuRow(soc, f, "stock") = <<f, k, x, 0>>
    BY CpuRowIs, SMT
  <2> QED
    BY <2>1, SMT
<1>3. ASSUME NEW f PROVE Len(GpuRow(f, "stock")) = 4
  BY DEF GpuRow
<1>4. ASSUME NEW i \in 1..6 PROVE Len(DvbRow(EmcDvbTableDefault[i])) = 4
  <2> DEFINE e == EmcDvbTableDefault[i]
  <2>1. \E f, x, y, z \in Int : e.freq = f /\ e.volt = <<x, y, z>>
    BY SMT DEF EmcDvbTableDefault
  <2>2. PICK f \in Int, x \in Int, y \in Int, z \in Int : e.freq = f /\ e.volt = <<x, y, z>>
    BY <2>1
  <2> HIDE DEF e
  <2>3. DvbRow(e) = <<f>> \o <<x, y, z>>
    BY <2>2, Zenon DEF DvbRow
  <2>4. RowOf(<<f>> \o <<x, y, z>>, f, x, y, z)
    BY HeadRow
  <2>5. Len(<<f>> \o <<x, y, z>>) = 4
    BY <2>4 DEF RowOf
  <2> QED
    BY <2>3, <2>5, Zenon DEF e
<1> HIDE DEF CpuDefault, GpuDefault
<1>5. Len(StockCpuRows) = CpuOld(soc) /\ \A i \in 1..CpuOld(soc) : Len(StockCpuRows[i]) = 4
  BY <1>1, <1>2 DEF StockCpuRows
<1>6. Len(StockGpuRows) = GpuOld(soc) /\ \A i \in 1..GpuOld(soc) : Len(StockGpuRows[i]) = 4
  BY <1>1, <1>3 DEF StockGpuRows
<1>7. Len(StockDvbRows) = 6 /\ \A i \in 1..6 : Len(StockDvbRows[i]) = 4
  BY <1>4 DEF StockDvbRows
<1> QED
  BY <1>5, <1>6, <1>7

LEMMA OldInStructure ==
    ASSUME soc \in Socs, NEW a \in Int
    PROVE  /\ TableHead(a, CpuOld(soc))..(a + RowSize - 1) \subseteq Structure("CpuTable", a)
           /\ TableHead(a, GpuOld(soc))..(a + RowSize - 1) \subseteq Structure("GpuTable", a)
           /\ TableHead(a, 6)..(a + RowSize - 1) \subseteq Structure("Dvb", a)
<1>1. /\ Structure("CpuTable", a) = HeadOf("CpuTable", a)..(EndOf("CpuTable", a) + RowSize - 1)
      /\ Structure("GpuTable", a) = HeadOf("GpuTable", a)..(EndOf("GpuTable", a) + RowSize - 1)
      /\ Structure("Dvb", a) = TableHead(a, 6)..(a + 2 * RowSize - 1)
  BY DEF Structure
<1>2. /\ TableHead(a, CpuOld(soc)) \in Int /\ TableHead(a, CpuOld(soc)) <= a
      /\ TableHead(a, GpuOld(soc)) \in Int /\ TableHead(a, GpuOld(soc)) <= a
      /\ RowSize * CpuNew(soc, cust) + TableHead(a, CpuOld(soc)) >= a
      /\ RowSize * GpuNew(soc) + TableHead(a, GpuOld(soc)) >= a
      /\ RowSize * CpuNew(soc, cust) \in Int /\ RowSize * GpuNew(soc) \in Int
  BY Counts DEF TableHead, RowSize
<1>0. /\ HeadOf("CpuTable", a) = TableHead(a, CpuOld(soc))
      /\ HeadOf("GpuTable", a) = TableHead(a, GpuOld(soc))
      /\ EndOf("CpuTable", a) = TableHead(a, CpuOld(soc)) + RowSize * CpuNew(soc, cust)
      /\ EndOf("GpuTable", a) = TableHead(a, GpuOld(soc)) + RowSize * GpuNew(soc)
  BY Ends
<1>3. ASSUME NEW h \in Int, h <= a, NEW m \in Int, h + m >= a, NEW S, S = h..(h + m + 4 - 1)
      PROVE  h..(a + 4 - 1) \subseteq S
  BY <1>3
<1>4. /\ Structure("CpuTable", a) = TableHead(a, CpuOld(soc))..(TableHead(a, CpuOld(soc))
                                        + RowSize * CpuNew(soc, cust) + RowSize - 1)
      /\ Structure("GpuTable", a) = TableHead(a, GpuOld(soc))..(TableHead(a, GpuOld(soc))
                                        + RowSize * GpuNew(soc) + RowSize - 1)
  BY <1>0, <1>1, Zenon
<1>6. TableHead(a, CpuOld(soc))..(a + RowSize - 1) \subseteq Structure("CpuTable", a)
  BY <1>2, <1>3, <1>4 DEF RowSize
<1>7. TableHead(a, GpuOld(soc))..(a + RowSize - 1) \subseteq Structure("GpuTable", a)
  BY <1>2, <1>3, <1>4 DEF RowSize
<1>5. TableHead(a, 6)..(a + RowSize - 1) \subseteq Structure("Dvb", a)
  BY <1>1 DEF TableHead, RowSize
<1> QED
  BY <1>5, <1>6, <1>7

LEMMA SameTables ==
    ASSUME soc \in Socs, NEW w, NEW v, NEW a \in Int, NEW p \in {"CpuTable", "GpuTable", "Dvb"},
           Agree(Structure(p, a), w, v), Valid(soc, w, p, a)
    PROVE  Valid(soc, v, p, a)
<1>0. CpuOld(soc) \in Nat /\ GpuOld(soc) \in Nat /\ 6 \in Nat
  BY Counts
<1>1. CASE p = "CpuTable"
  <2>1. Agree(TableHead(a, CpuOld(soc))..(a + RowSize - 1), w, v)
    BY <1>1, OldInStructure, Zenon DEF Agree
  <2> QED
    BY <1>0, <1>1, <2>1, ValidTable, StockRowsFour, SameTable, Zenon
<1>2. CASE p = "GpuTable"
  <2>1. Agree(TableHead(a, GpuOld(soc))..(a + RowSize - 1), w, v)
    BY <1>2, OldInStructure, Zenon DEF Agree
  <2> QED
    BY <1>0, <1>2, <2>1, ValidTable, StockRowsFour, SameTable, Zenon
<1>3. CASE p = "Dvb"
  <2>1. Agree(TableHead(a, 6)..(a + RowSize - 1), w, v)
    BY <1>3, OldInStructure, Zenon DEF Agree
  <2> QED
    BY <1>0, <1>3, <2>1, ValidTable, StockRowsFour, SameTable, Zenon
<1> QED
  BY <1>1, <1>2, <1>3

LEMMA MtcPlaces ==
    ASSUME soc \in Socs, NEW a \in Int
    PROVE  /\ a \in Structure("Mtc", a)
           /\ \A i \in 1..Len(KhzList(soc)) :
                /\ MtcTable(a, i) \in Int
                /\ MtcTable(a, i) \in Structure("Mtc", a)
                /\ MtcTable(a, i) - 1 \in Structure("Mtc", a)
           /\ \A i \in MtcSources(soc) :
                /\ i \in 1..Len(KhzList(soc)) /\ i - 1 \in 1..Len(KhzList(soc))
                /\ MtcTable(a, i) + MtcSize = MtcTable(a, i - 1)
<1>1. ASSUME NEW i \in 1..Len(KhzList(soc))
      PROVE  /\ MtcTable(a, i) \in Int
             /\ MtcTable(a, i) \in Structure("Mtc", a)
             /\ MtcTable(a, i) - 1 \in Structure("Mtc", a)
  <2>1. MtcTable(a, i) \in Int
    BY MtcTableIs
  <2>2. \A x \in (MtcTable(a, i) - 1)..(MtcTable(a, i) + 2) : x \in Structure("Mtc", a)
    BY MtcStructure
  <2>3. /\ MtcTable(a, i) \in (MtcTable(a, i) - 1)..(MtcTable(a, i) + 2)
        /\ MtcTable(a, i) - 1 \in (MtcTable(a, i) - 1)..(MtcTable(a, i) + 2)
    BY <2>1
  <2> QED
    BY <2>1, <2>2, <2>3
<1>2. ASSUME NEW i \in MtcSources(soc)
      PROVE  /\ i \in 1..Len(KhzList(soc)) /\ i - 1 \in 1..Len(KhzList(soc))
             /\ MtcTable(a, i) + MtcSize = MtcTable(a, i - 1)
  <2>1. i \in 2..Len(KhzList(soc)) /\ i - 1 \in 1..Len(KhzList(soc))
    BY MtcSourcesAre
  <2>2. Len(KhzList(soc)) \in Int
    BY KhzListIs
  <2> QED
    BY <2>1, <2>2 DEF MtcTable, MtcSize
<1>3. a \in Structure("Mtc", a)
  <2>1. Len(KhzList(soc)) = 3 \/ Len(KhzList(soc)) = 10
    BY KhzListIs
  <2>2. 1 \in 1..Len(KhzList(soc))
    BY <2>1 DEF KhzList
  <2>3. MtcTable(a, 1) = a
    BY MtcTableIs
  <2> QED
    BY <1>1, <2>2, <2>3, Zenon
<1> QED
  BY <1>1, <1>2, <1>3

(* The words a moved table comes from are the structure's.                 *)
LEMMA MovedFrom ==
    ASSUME soc \in Socs, NEW a \in Int,
           NEW b \in UNION {(MtcTable(a, i) - 1)..(MtcTable(a, i) + 2) : i \in MtcSources(soc)}
    PROVE  b + MtcSize \in Structure("Mtc", a)
<1>1. PICK i \in MtcSources(soc) : b \in (MtcTable(a, i) - 1)..(MtcTable(a, i) + 2)
  OBVIOUS
<1>2. /\ i - 1 \in 1..Len(KhzList(soc)) /\ MtcTable(a, i) + MtcSize = MtcTable(a, i - 1)
      /\ MtcTable(a, i) \in Int
  BY <1>1, MtcPlaces
<1>3. b + MtcSize \in (MtcTable(a, i - 1) - 1)..(MtcTable(a, i - 1) + 2)
  BY <1>1, <1>2 DEF MtcSize
<1> QED
  BY <1>2, <1>3, MtcStructure

LEMMA LocalWrites ==
    ASSUME soc \in Socs, NEW w, NEW v, NEW p \in Structured, NEW a \in Int,
           Agree(Structure(p, a), w, v)
    PROVE  Writes(soc, cust, w, p, a) = Writes(soc, cust, v, p, a)
<1>1. CASE p = "Mtc"
  <2>1. \A b \in UNION {(MtcTable(a, i) - 1)..(MtcTable(a, i) + 2) : i \in MtcSources(soc)} :
            At(w, b + MtcSize) = At(v, b + MtcSize)
    BY <1>1, MovedFrom, Zenon DEF Agree
  <2>2. MtcMoved(soc, w, a) = MtcMoved(soc, v, a)
    BY <2>1, Zenon DEF MtcMoved
  <2>3. MemFreqMtcTable(soc, cust, w, a) = MemFreqMtcTable(soc, cust, v, a)
    BY <2>2, MtcIs, Zenon
  <2> QED
    BY <1>1, <2>3, Zenon DEF Writes
<1>2. CASE p = "GpuAsm"
  <2>1. At(w, a) = At(v, a)
    BY <1>2 DEF Agree, Structure
  <2>2. GpuFreqMaxAsm(soc, cust, w, a) = GpuFreqMaxAsm(soc, cust, v, a)
    BY <2>1 DEF GpuFreqMaxAsm
  <2> QED
    BY <1>2, <2>2, Zenon DEF Writes
<1>3. CASE p \in {"CpuVdd", "CpuTable", "GpuTable", "Dvb", "Max"}
  BY <1>3 DEF Writes
<1>4. CASE p = "CpuDfll"
  <2>1. At(w, a) = At(v, a)
    BY <1>4 DEF Agree, Structure
  <2>2. CpuVoltDfll(cust, w, a) = CpuVoltDfll(cust, v, a)
    BY <2>1 DEF CpuVoltDfll
  <2> QED
    BY <1>4, <2>2, Zenon DEF Writes
<1>5. CASE p = "Pllm"
  <2>1. At(w, a) = At(v, a)
    BY <1>5 DEF Agree, Structure
  <2> QED
    BY <1>5, <2>1, Zenon DEF Writes
<1> QED
  BY <1>1, <1>2, <1>3, <1>4, <1>5 DEF Structured

LEMMA InOwnStructure ==
    ASSUME soc \in Socs, NEW p \in Structured, NEW a \in Int
    PROVE  a \in Structure(p, a)
<1>1. CASE p = "Mtc"
  BY <1>1, MtcPlaces
<1>2. CASE p \in {"GpuAsm", "CpuVdd", "Max", "CpuDfll", "Pllm"}
  BY <1>2 DEF Structure
<1>3. CASE p \in {"CpuTable", "GpuTable", "Dvb"}
  <2>1. /\ a \in TableHead(a, CpuOld(soc))..(a + RowSize - 1)
        /\ a \in TableHead(a, GpuOld(soc))..(a + RowSize - 1)
        /\ a \in TableHead(a, 6)..(a + RowSize - 1)
    BY Counts DEF TableHead, RowSize
  <2> QED
    BY <1>3, <2>1, OldInStructure
<1> QED
  BY <1>1, <1>2, <1>3 DEF Structured

LEMMA LocalFound ==
    ASSUME soc \in Socs, NEW w, NEW v, NEW p \in Structured, NEW a \in Int,
           Agree(Structure(p, a), w, v), Matches(soc, w, p, a), Valid(soc, w, p, a)
    PROVE  Matches(soc, v, p, a) /\ Valid(soc, v, p, a)
<1>1. Matches(soc, v, p, a)
  <2>1. At(w, a) = At(v, a)
    BY InOwnStructure DEF Agree
  <2> QED
    <3>1. p = "CpuVdd" => Matches(soc, v, p, a)
      BY <2>1, SMT DEF Matches
    <3>2. p = "CpuTable" => Matches(soc, v, p, a)
      BY <2>1, SMT DEF Matches
    <3>3. p = "GpuTable" => Matches(soc, v, p, a)
      BY <2>1, SMT DEF Matches
    <3>4. p = "GpuAsm" => Matches(soc, v, p, a)
      BY <2>1, SMT DEF Matches
    <3>5. p = "Mtc" => Matches(soc, v, p, a)
      BY <2>1, SMT DEF Matches
    <3>6. p = "Dvb" => Matches(soc, v, p, a)
      BY <2>1, SMT DEF Matches
    <3>7. p = "Max" => Matches(soc, v, p, a)
      BY <2>1, SMT DEF Matches
    <3>8. p = "CpuDfll" => Matches(soc, v, p, a)
      BY <2>1, SMT DEF Matches
    <3>9. p = "Pllm" => Matches(soc, v, p, a)
      BY <2>1, SMT DEF Matches
    <3> QED
      BY <3>1, <3>2, <3>3, <3>4, <3>5, <3>6, <3>7, <3>8, <3>9 DEF Structured
<1>2. CASE p = "Mtc"
  <2>1. \A i \in 1..Len(KhzList(soc)) :
            /\ At(w, MtcTable(a, i)) = KhzList(soc)[i]
            /\ At(w, MtcTable(a, i) - 1) = MTC_TABLE_REV(soc)
    BY <1>2, SMT DEF Valid
  <2>2. \A i \in 1..Len(KhzList(soc)) :
            /\ At(v, MtcTable(a, i)) = KhzList(soc)[i]
            /\ At(v, MtcTable(a, i) - 1) = MTC_TABLE_REV(soc)
    BY <1>2, <2>1, MtcPlaces, Zenon DEF Agree
  <2> QED
    BY <1>1, <1>2, <2>2, SMT DEF Valid
<1>3. CASE p = "GpuAsm"
  <2>1. At(w, a) = At(v, a) /\ At(w, a + 1) = At(v, a + 1)
    BY <1>3 DEF Agree, Structure
  <2> QED
    BY <1>1, <1>3, <2>1, SMT DEF Valid
<1>4. CASE p = "CpuVdd"
  <2>1. At(w, a - 1) = At(v, a - 1) /\ \A j \in 1..3 : At(w, a + 1 + j - 1) = At(v, a + 1 + j - 1)
    BY <1>4 DEF Agree, Structure
  <2>2. Len(<<250000, 5000, 1525000>>) = 3
    OBVIOUS
  <2>3. At(w, a - 1) = 1 /\ Holds(w, a + 1, <<250000, 5000, 1525000>>)
    BY <1>4, SMT DEF Valid
  <2> DEFINE t == <<250000, 5000, 1525000>>
  <2>4. Len(t) = 3 /\ Holds(w, a + 1, t)
    BY <2>2, <2>3
  <2>5. Holds(v, a + 1, t)
    <3> HIDE DEF t
    <3> QED
      BY <2>1, <2>4 DEF Holds
  <2> QED
    BY <1>1, <1>4, <2>1, <2>3, <2>5, SMT DEF Valid
<1>5. CASE p = "Max"
  BY <1>1, <1>5, SMT DEF Valid
<1>6. CASE p \in {"CpuTable", "GpuTable", "Dvb"}
  BY <1>1, <1>6, SameTables
<1>7. CASE p = "CpuDfll"
  <2> DEFINE t == <<65487, 0, 19007487, 67106815>>
  <2>1. \A j \in 1..4 : At(w, a + j - 1) = At(v, a + j - 1)
    BY <1>7 DEF Agree, Structure
  <2>2. Len(t) = 4
    OBVIOUS
  <2>3. Holds(w, a, t)
    BY <1>7, SMT DEF Valid
  <2>4. Holds(v, a, t)
    <3> HIDE DEF t
    <3> QED
      BY <2>1, <2>2, <2>3 DEF Holds
  <2> QED
    BY <1>1, <1>7, <2>4, SMT DEF Valid
<1>8. CASE p = "Pllm"
  <2>1. At(w, a) = At(v, a) /\ At(w, a + 2) = At(v, a + 2)
    BY <1>8 DEF Agree, Structure
  <2> QED
    BY <1>1, <1>8, <2>1, SMT DEF Valid
<1> QED
  BY <1>1, <1>2, <1>3, <1>4, <1>5, <1>6, <1>7, <1>8 DEF Structured

Alone(p, a) ==
    /\ PatchOf(soc, p) /\ Matches(soc, nso.word, p, a) /\ Valid(soc, nso.word, p, a)
    /\ \A x \in Structure(p, a) :
          At(word, x) = IF x \in DOMAIN Writes(soc, cust, nso.word, p, a)
                        THEN Writes(soc, cust, nso.word, p, a)[x] ELSE At(nso.word, x)
    /\ \A x \in Structure(p, a) \cap DOMAIN regs :
          regs[x] = NewRegs(soc, cust, nso.regs, p, a)[x]

(* A word that changed belongs to a structure that was found.              *)
Traced ==
    /\ \A x \in DOMAIN word :
          word[x] # nso.word[x] => \E p \in Patches : \E a \in patched[p] : x \in Structure(p, a)
    /\ \A x \in DOMAIN regs :
          regs[x] # nso.regs[x] => \E a \in patched["Mtc"] : x \in Structure("Mtc", a)
    /\ \A p \in Patches : \A a \in patched[p] : a < ptr

SiteInv == Traced /\ (LaidOut => \A p \in Structured : \A a \in patched[p] : Alone(p, a))

LEMMA SiteInit == PcvInit => SiteInv
BY DEF PcvInit, SiteInv, Traced, Structured, Patches

(* Where the registers of a patch change.                                  *)
LEMMA RegsSpan ==
    ASSUME soc \in Socs, NEW r, NEW p, NEW a \in Int, NEW x \in DOMAIN r,
           NewRegs(soc, cust, r, p, a)[x] # r[x]
    PROVE  p = "Mtc" /\ x \in Structure("Mtc", a)
<1>1. p = "Mtc"
  BY Zenon DEF NewRegs
<1>2. x = a \/ \E i \in MtcSources(soc) : x = MtcTable(a, i)
  BY Zenon DEF NewRegs
<1>3. a \in Structure("Mtc", a)
  BY MtcPlaces
<1>4. \A i \in MtcSources(soc) : MtcTable(a, i) \in Structure("Mtc", a)
  BY MtcPlaces
<1> QED
  BY <1>1, <1>2, <1>3, <1>4, Zenon

LEMMA SameStructures ==
    ASSUME nso' = nso, cust' = cust
    PROVE  \A p, a : Structure(p, a)' = Structure(p, a) /\ EndOf(p, a)' = EndOf(p, a)
BY ZenonT(60) DEF Structure, HeadOf, EndOf, soc

LEMMA LaidOutBefore ==
    ASSUME nso' = nso, cust' = cust, DOMAIN word' = DOMAIN word,
           \A p \in Patches : patched[p] \subseteq patched'[p], LaidOut'
    PROVE  LaidOut
<1>0. Structured \subseteq Patches /\ {"CpuTable", "GpuTable"} \subseteq Patches
  BY DEF Structured, Patches
<1>1. \A p, a : Structure(p, a)' = Structure(p, a) /\ EndOf(p, a)' = EndOf(p, a)
  BY SameStructures
<1>2. ASSUME NEW p \in Structured, NEW a \in patched[p]
      PROVE  /\ Structure(p, a) \subseteq DOMAIN word
             /\ \A q \in Patches : \A b \in patched[q] :
                  <<p, a>> # <<q, b>> => Structure(p, a) \cap Structure(q, b) = {}
  <2>1. a \in patched'[p]
    BY <1>0, <1>2
  <2>2. /\ Structure(p, a)' \subseteq DOMAIN word'
        /\ \A q \in Patches : \A b \in patched'[q] :
              <<p, a>> # <<q, b>> => Structure(p, a)' \cap Structure(q, b)' = {}
    BY <1>2, <2>1, Zenon DEF LaidOut
  <2> QED
    BY <1>1, <2>2, Zenon
<1>3. ASSUME NEW p \in {"CpuTable", "GpuTable"}, NEW a \in patched[p]
      PROVE  Holds(nso.word, EndOf(p, a), <<0, 0, 0, 0>>)
  <2>1. a \in patched'[p]
    BY <1>0, <1>3
  <2>2. Holds(nso'.word, EndOf(p, a)', <<0, 0, 0, 0>>)
    BY <1>3, <2>1, Zenon DEF LaidOut
  <2> QED
    BY <1>1, <2>2, Zenon
<1> QED
  BY <1>2, <1>3, Zenon DEF LaidOut

LEMMA SiteKept ==
    ASSUME SiteInv, UNCHANGED <<nso, cust, word, regs, patched>>, ptr \in Int, ptr' = ptr \/ ptr' = ptr + 1,
           \A p \in Patches : \A a \in patched[p] : a \in Int
    PROVE  SiteInv'
<1>1. \A p, a : Structure(p, a)' = Structure(p, a) /\ EndOf(p, a)' = EndOf(p, a)
  BY SameStructures
<1>2. Traced'
  <2>1. \A p \in Patches : \A a \in patched[p] : a < ptr => a < ptr'
    BY SMT
  <2> QED
    BY <1>1, <2>1, Zenon DEF SiteInv, Traced
<1>3. LaidOut' <=> LaidOut
  BY <1>1, ZenonT(60) DEF LaidOut
<1>4. \A p, a : Alone(p, a)' <=> Alone(p, a)
  BY <1>1, ZenonT(60) DEF Alone, soc
<1> QED
  BY <1>2, <1>3, <1>4, Zenon DEF SiteInv

(* The words of a structure that is found next are the firmware's.         *)
LEMMA Untouched ==
    ASSUME PcvTypeOK, NEW n, n = ptr, Traced, NEW p \in Structured, LaidOut',
           nso' = nso, cust' = cust, DOMAIN word' = DOMAIN word,
           patched' = [patched EXCEPT ![p] = @ \cup {n}]
    PROVE  /\ Agree(Structure(p, n), word, nso.word)
           /\ \A x \in Structure(p, n) \cap DOMAIN regs : regs[x] = nso.regs[x]
<1>1. \A q, a : Structure(q, a)' = Structure(q, a)
  BY SameStructures
<1>2. /\ patched \in [Patches -> SUBSET (1..ScanEnd(nso))] /\ p \in Patches
      /\ DOMAIN word = DOMAIN nso.word /\ n \in Int
  <2>1. /\ nso \in Nsos /\ DOMAIN word = DOMAIN nso.word
        /\ ptr \in 1..(ScanEnd(nso) + 1)
        /\ patched \in [Patches -> SUBSET (1..ScanEnd(nso))]
    BY Zenon DEF PcvTypeOK
  <2>2. p \in Patches
    BY SMT DEF Structured, Patches
  <2>3. ScanEnd(nso) \in Nat
    BY <2>1, ImageFacts, Zenon
  <2> QED
    BY <2>1, <2>2, <2>3, SMT
<1>3. n \in patched'[p] /\ \A q \in Patches : patched[q] \subseteq patched'[q]
  BY <1>2
<1>4. \A q \in Patches : \A b \in patched[q] : <<p, n>> # <<q, b>>
  BY <1>2 DEF Traced
<1>5. ASSUME NEW q \in Patches, NEW b \in patched[q]
      PROVE  Structure(p, n) \cap Structure(q, b) = {}
  <2>1. b \in patched'[q]
    BY <1>3, <1>5
  <2>2. Structure(p, n)' \cap Structure(q, b)' = {}
    BY <1>3, <1>4, <1>5, <2>1, Zenon DEF LaidOut
  <2> QED
    BY <1>1, <2>2, Zenon
<1>6. ASSUME NEW x \in Structure(p, n) PROVE At(word, x) = At(nso.word, x)
  <2>1. x \in DOMAIN word => word[x] = nso.word[x]
    BY <1>5, <1>6 DEF Traced
  <2> QED
    BY <1>2, <2>1, Zenon DEF At
<1>7. ASSUME NEW x \in Structure(p, n) \cap DOMAIN regs PROVE regs[x] = nso.regs[x]
  BY <1>5, <1>7 DEF Traced, Patches
<1> QED
  BY <1>6, <1>7 DEF Agree

(* What was found before stays as it is.                                   *)
LEMMA OldAlone ==
    ASSUME PcvTypeOK, NEW n, n = ptr, soc \in Socs, cust \in CustomizeTable, Traced, LaidOut',
           nso' = nso, cust' = cust, DOMAIN word' = DOMAIN word,
           NEW q \in Patches, Applied(q, n),
           NEW p \in Structured, NEW a \in patched[p], Alone(p, a)
    PROVE  Alone(p, a)'
<1> DEFINE F == Writes(soc, cust, word, q, n)
<1>1. \A r, b : Structure(r, b)' = Structure(r, b)
  BY SameStructures
<1>2. /\ patched \in [Patches -> SUBSET (1..ScanEnd(nso))] /\ p \in Patches
      /\ DOMAIN word = DOMAIN nso.word /\ n \in Int
  <2>1. /\ nso \in Nsos /\ DOMAIN word = DOMAIN nso.word
        /\ ptr \in 1..(ScanEnd(nso) + 1)
        /\ patched \in [Patches -> SUBSET (1..ScanEnd(nso))]
    BY Zenon DEF PcvTypeOK
  <2>2. p \in Patches
    BY SMT DEF Structured, Patches
  <2>3. ScanEnd(nso) \in Nat
    BY <2>1, ImageFacts, Zenon
  <2> QED
    BY <2>1, <2>2, <2>3, SMT
<1>3. /\ PatchOf(soc, q)
      /\ word' = [x \in DOMAIN word |-> IF x \in DOMAIN F THEN F[x] ELSE word[x]]
      /\ regs' = NewRegs(soc, cust, regs, q, n)
      /\ patched' = [patched EXCEPT ![q] = @ \cup {n}]
  BY Zenon DEF Applied
<1>4. a \in patched'[p] /\ n \in patched'[q] /\ <<p, a>> # <<q, n>>
  BY <1>2, <1>3 DEF Traced
<1>5. Structure(p, a) \cap Structure(q, n) = {}
  <2>1. Structure(p, a)' \cap Structure(q, n)' = {}
    BY <1>4, Zenon DEF LaidOut
  <2> QED
    BY <1>1, <2>1, Zenon
<1>6. DOMAIN F \subseteq Structure(q, n)
  BY <1>2, <1>3, WritesInStructure
<1>7. ASSUME NEW x \in Structure(p, a) PROVE At(word', x) = At(word, x)
  <2> HIDE DEF F
  <2>1. x \notin DOMAIN F
    BY <1>5, <1>6
  <2> QED
    BY <1>3, <2>1, AtAfter
<1>8. ASSUME NEW x \in Structure(p, a), x \in DOMAIN regs PROVE regs'[x] = regs[x]
  BY <1>2, <1>3, <1>5, <1>8, RegsSpan
<1>9. DOMAIN regs' = DOMAIN regs
  BY <1>3, NewRegsDomain
<1>10. soc' = soc
  BY DEF soc
<1>11. /\ PatchOf(soc, p) /\ Matches(soc, nso.word, p, a) /\ Valid(soc, nso.word, p, a)
       /\ \A x \in Structure(p, a) :
            At(word', x) = IF x \in DOMAIN Writes(soc, cust, nso.word, p, a)
                           THEN Writes(soc, cust, nso.word, p, a)[x] ELSE At(nso.word, x)
  BY <1>7, Zenon DEF Alone
<1>12. \A x \in Structure(p, a) \cap DOMAIN regs' :
            regs'[x] = NewRegs(soc, cust, nso.regs, p, a)[x]
  BY <1>8, <1>9, Zenon DEF Alone
<1> QED
  BY <1>1, <1>10, <1>11, <1>12, Zenon DEF Alone

LEMMA TimingTables ==
    ASSUME nso \in Nsos, NEW a \in Int, Valid(soc, nso.word, "Mtc", a),
           Structure("Mtc", a) \subseteq DOMAIN nso.word
    PROVE  /\ \A i \in 1..Len(KhzList(soc)) : MtcTable(a, i) \in DOMAIN nso.regs
           /\ a \in DOMAIN nso.regs
<1>1. soc \in Socs
  BY ImageFacts DEF soc
<1>2. ASSUME NEW i \in 1..Len(KhzList(soc)) PROVE MtcTable(a, i) \in DOMAIN nso.regs
  <2>1. /\ At(nso.word, MtcTable(a, i)) = KhzList(soc)[i]
        /\ At(nso.word, MtcTable(a, i) - 1) = MTC_TABLE_REV(soc)
    BY SMT DEF Valid
  <2>2. IsTimingTable(soc, nso.word, MtcTable(a, i))
    BY <2>1, Zenon DEF IsTimingTable
  <2>3. MtcTable(a, i) \in DOMAIN nso.word
    BY <1>1, MtcPlaces
  <2> QED
    BY <2>2, <2>3, NsosAssumption, Zenon DEF soc
<1>3. MtcTable(a, 1) = a /\ 1 \in 1..Len(KhzList(soc))
  <2>1. Len(KhzList(soc)) = 3 \/ Len(KhzList(soc)) = 10
    BY <1>1, KhzListIs
  <2> QED
    BY <2>1, MtcTableIs DEF KhzList
<1> QED
  BY <1>2, <1>3, Zenon

LEMMA SecondRate ==
    ASSUME NEW s \in Socs
    PROVE  2 \in 1..Len(KhzList(s))
<1> DEFINE n == Len(KhzList(s))
<1>1. n = 3 \/ n = 10
  BY KhzListIs, Zenon
<1> HIDE DEF n
<1>2. n = 3 => 2 \in 1..n
  OBVIOUS
<1>3. n = 10 => 2 \in 1..n
  OBVIOUS
<1>4. 2 \in 1..n
  BY <1>1, <1>2, <1>3, Zenon
<1> QED
  BY <1>4, Zenon DEF n

LEMMA SameNewRegs ==
    ASSUME PcvTypeOK, soc \in Socs, NEW p \in Structured, NEW a \in Int,
           p = "Mtc" => Valid(soc, nso.word, p, a),
           Structure(p, a) \subseteq DOMAIN nso.word,
           \A x \in Structure(p, a) \cap DOMAIN regs : regs[x] = nso.regs[x],
           NEW x \in Structure(p, a) \cap DOMAIN regs
    PROVE  NewRegs(soc, cust, regs, p, a)[x] = NewRegs(soc, cust, nso.regs, p, a)[x]
<1>1. DOMAIN regs = DOMAIN nso.regs /\ nso \in Nsos
  BY DEF PcvTypeOK
<1>2. CASE p # "Mtc" \/ ~Overclocked(soc, cust)
  BY <1>2, Zenon DEF NewRegs
<1>3. CASE p = "Mtc" /\ Overclocked(soc, cust)
  <2>1. \A i \in 1..Len(KhzList(soc)) : regs[MtcTable(a, i)] = nso.regs[MtcTable(a, i)]
    BY <1>1, <1>3, TimingTables, MtcPlaces
  <2>2. \A i \in MtcSources(soc) : regs[MtcTable(a, i) + MtcSize] = nso.regs[MtcTable(a, i) + MtcSize]
    BY <2>1, MtcPlaces
  <2>3. regs[a] = nso.regs[a] /\ regs[MtcTable(a, 2)] = nso.regs[MtcTable(a, 2)]
    <3>1. 2 \in 1..Len(KhzList(soc))
      BY SecondRate
    <3> QED
      BY <1>1, <1>3, <2>1, <3>1, TimingTables, MtcPlaces
  <2>4. regs[x] = nso.regs[x]
    OBVIOUS
  <2>5. CASE x = a
    BY <1>1, <1>3, <2>3, <2>5, Zenon DEF NewRegs
  <2>6. CASE x # a /\ \E i \in MtcSources(soc) : x = MtcTable(a, i)
    <3>1. PICK i \in MtcSources(soc) : x = MtcTable(a, i)
      BY <2>6
    <3>2. regs[x + MtcSize] = nso.regs[x + MtcSize]
      BY <2>2, <3>1
    <3>3. NewRegs(soc, cust, regs, p, a)[x] = regs[x + MtcSize]
      BY <1>3, <2>6, Zenon DEF NewRegs
    <3>4. NewRegs(soc, cust, nso.regs, p, a)[x] = nso.regs[x + MtcSize]
      BY <1>1, <1>3, <2>6, Zenon DEF NewRegs
    <3> QED
      BY <3>2, <3>3, <3>4
  <2>7. CASE x # a /\ ~\E i \in MtcSources(soc) : x = MtcTable(a, i)
    BY <1>1, <1>3, <2>4, <2>7, Zenon DEF NewRegs
  <2> QED
    BY <2>5, <2>6, <2>7
<1> QED
  BY <1>2, <1>3

LEMMA NewAlone ==
    ASSUME PcvTypeOK, NEW n, n = ptr, soc \in Socs, cust \in CustomizeTable, Traced, LaidOut',
           nso' = nso, cust' = cust, DOMAIN word' = DOMAIN word,
           NEW p \in Structured, Applied(p, n)
    PROVE  Alone(p, n)'
<1> DEFINE F == Writes(soc, cust, word, p, n)
<1>1. \A r, b : Structure(r, b)' = Structure(r, b)
  BY SameStructures
<1>2. /\ patched \in [Patches -> SUBSET (1..ScanEnd(nso))] /\ p \in Patches
      /\ DOMAIN word = DOMAIN nso.word /\ n \in Int
  BY ImageFacts DEF PcvTypeOK, Structured, Patches
<1>3. /\ PatchOf(soc, p) /\ Matches(soc, word, p, n) /\ Valid(soc, word, p, n)
      /\ word' = [x \in DOMAIN word |-> IF x \in DOMAIN F THEN F[x] ELSE word[x]]
      /\ regs' = NewRegs(soc, cust, regs, p, n)
      /\ patched' = [patched EXCEPT ![p] = @ \cup {n}]
  BY Zenon DEF Applied
<1>4. /\ Agree(Structure(p, n), word, nso.word)
      /\ \A x \in Structure(p, n) \cap DOMAIN regs : regs[x] = nso.regs[x]
  BY <1>3, Untouched
<1>5. Matches(soc, nso.word, p, n) /\ Valid(soc, nso.word, p, n)
  BY <1>2, <1>3, <1>4, LocalFound
<1>6. F = Writes(soc, cust, nso.word, p, n)
  BY <1>2, <1>4, LocalWrites
<1>7. Structure(p, n) \subseteq DOMAIN word
  <2>1. n \in patched'[p]
    BY <1>2, <1>3
  <2>2. Structure(p, n)' \subseteq DOMAIN word'
    BY <2>1, Zenon DEF LaidOut
  <2> QED
    BY <1>1, <2>2, Zenon
<1>8. ASSUME NEW x \in Structure(p, n)
      PROVE  At(word', x) = IF x \in DOMAIN F THEN F[x] ELSE At(nso.word, x)
  <2>1. At(word, x) = At(nso.word, x)
    BY <1>4 DEF Agree
  <2>2. x \in DOMAIN word
    BY <1>7
  <2> HIDE DEF F
  <2>3. At(word', x) = IF x \in DOMAIN F /\ x \in DOMAIN word THEN F[x] ELSE At(word, x)
    BY <1>3, AtAfter
  <2> QED
    BY <2>1, <2>2, <2>3, Zenon
<1>9. ASSUME NEW x \in Structure(p, n), x \in DOMAIN regs'
      PROVE  regs'[x] = NewRegs(soc, cust, nso.regs, p, n)[x]
  <2>1. x \in DOMAIN regs
    BY <1>3, <1>9, NewRegsDomain
  <2> QED
    BY <1>2, <1>3, <1>4, <1>5, <1>7, <2>1, SameNewRegs
<1>10. soc' = soc
  BY DEF soc
<1> QED
  BY <1>1, <1>3, <1>5, <1>6, <1>8, <1>9, <1>10, Zenon DEF Alone

LEMMA TracedStep ==
    ASSUME PcvTypeOK, NEW n, n = ptr, ptr' = ptr + 1, soc \in Socs, cust \in CustomizeTable, Traced,
           nso' = nso, cust' = cust, NEW q \in Patches, Applied(q, n)
    PROVE  Traced'
<1> DEFINE F == Writes(soc, cust, word, q, n)
<1>1. \A r, b : Structure(r, b)' = Structure(r, b)
  BY SameStructures
<1>2. /\ patched \in [Patches -> SUBSET (1..ScanEnd(nso))] /\ n \in Int
      /\ ScanEnd(nso) \in Nat /\ "Mtc" \in Patches
  <2>1. nso \in Nsos /\ ptr \in 1..(ScanEnd(nso) + 1)
        /\ patched \in [Patches -> SUBSET (1..ScanEnd(nso))]
    BY Zenon DEF PcvTypeOK
  <2>2. ScanEnd(nso) \in Nat
    BY <2>1, ImageFacts, Zenon
  <2>3. "Mtc" \in Patches
    BY SMT DEF Patches
  <2> QED
    BY <2>1, <2>2, <2>3, SMT
<1>3. /\ PatchOf(soc, q)
      /\ word' = [x \in DOMAIN word |-> IF x \in DOMAIN F THEN F[x] ELSE word[x]]
      /\ regs' = NewRegs(soc, cust, regs, q, n)
      /\ patched' = [patched EXCEPT ![q] = @ \cup {n}]
  BY Zenon DEF Applied
<1>4. n \in patched'[q] /\ \A p \in Patches : patched[p] \subseteq patched'[p]
  BY <1>2, <1>3
<1>5. DOMAIN F \subseteq Structure(q, n)
  BY <1>2, <1>3, WritesInStructure
<1>6. ASSUME NEW x \in DOMAIN word', word'[x] # nso'.word[x]
      PROVE  \E p \in Patches : \E a \in patched'[p] : x \in Structure(p, a)'
  <2>1. CASE x \in DOMAIN F
    BY <1>1, <1>4, <1>5, <2>1, Zenon
  <2>2. CASE x \notin DOMAIN F
    <3>1. x \in DOMAIN word /\ word[x] # nso.word[x]
      BY <1>3, <1>6, <2>2, Zenon
    <3>2. PICK p \in Patches : \E a \in patched[p] : x \in Structure(p, a)
      BY <3>1, Zenon DEF Traced
    <3> QED
      BY <1>1, <1>4, <3>2, Zenon
  <2> QED
    BY <2>1, <2>2
<1>7. ASSUME NEW x \in DOMAIN regs', regs'[x] # nso'.regs[x]
      PROVE  \E a \in patched'["Mtc"] : x \in Structure("Mtc", a)'
  <2>1. x \in DOMAIN regs
    BY <1>3, <1>7, NewRegsDomain
  <2>2. CASE regs'[x] = regs[x]
    <3>1. PICK a \in patched["Mtc"] : x \in Structure("Mtc", a)
      BY <1>7, <2>1, <2>2, Zenon DEF Traced
    <3> QED
      BY <1>1, <1>2, <1>4, <3>1, Zenon
  <2>3. CASE regs'[x] # regs[x]
    <3>1. q = "Mtc" /\ x \in Structure("Mtc", n)
      BY <1>2, <1>3, <2>1, <2>3, RegsSpan
    <3> QED
      BY <1>1, <1>4, <3>1, Zenon
  <2> QED
    BY <2>2, <2>3
<1>8. \A p \in Patches : \A a \in patched'[p] : a < ptr'
  <2>1. ASSUME NEW p \in Patches, NEW a \in patched'[p] PROVE a < n + 1
    <3>1. a = n \/ a \in patched[p]
      BY <1>2, <1>3, <2>1
    <3>2. a \in patched[p] => a < n /\ a \in Int
      BY <1>2 DEF Traced
    <3> QED
      BY <1>2, <3>1, <3>2
  <2> QED
    BY <2>1
<1> QED
  BY <1>6, <1>7, <1>8, Zenon DEF Traced

LEMMA SiteStep ==
    ASSUME PcvTypeOK, SiteInv, [PcvNext]_pcvVars
    PROVE  SiteInv'
<1>1. nso \in Nsos /\ cust \in CustomizeTable /\ soc \in Socs
  BY CustomsAssumption, ImageFacts DEF PcvTypeOK, soc
<1>2. /\ patched \in [Patches -> SUBSET (1..ScanEnd(nso))]
      /\ \A p \in Patches : \A a \in patched[p] : a \in Int
      /\ ptr \in Int
  BY <1>1, ImageFacts DEF PcvTypeOK
<1>3. CASE SafetyCheck
  BY <1>2, <1>3, SiteKept DEF SafetyCheck
<1>4. CASE CheckResult
  BY <1>2, <1>4, SiteKept DEF CheckResult
<1>5. CASE UNCHANGED pcvVars
  BY <1>2, <1>5, SiteKept DEF pcvVars
<1>6. CASE PatchWord
  <2>1. /\ ptr' = ptr + 1 /\ nso' = nso /\ cust' = cust
        /\ UNCHANGED <<word, regs, patched>> \/ \E p \in Patches : Applied(p, ptr)
    BY <1>1, <1>6, PatchWordIs
  <2>2. CASE UNCHANGED <<word, regs, patched>>
    BY <1>2, <2>1, <2>2, SiteKept
  <2>3. ASSUME NEW n, n = ptr, NEW q \in Patches, Applied(q, n) PROVE SiteInv'
    <3>1. Traced'
      BY <1>1, <2>1, <2>3, TracedStep DEF SiteInv
    <3>2. ASSUME LaidOut', NEW p \in Structured, NEW a \in patched'[p] PROVE Alone(p, a)'
      <4>1. /\ DOMAIN word' = DOMAIN word
            /\ patched' = [patched EXCEPT ![q] = @ \cup {n}]
        BY <2>3, Zenon DEF Applied
      <4>2. LaidOut
        <5>1. \A r \in Patches : patched[r] \subseteq patched'[r]
          BY <1>2, <4>1
        <5> QED
          BY <2>1, <3>2, <4>1, <5>1, LaidOutBefore, Zenon
      <4>3. p \in Patches
        BY DEF Structured, Patches
      <4>4. CASE a \in patched[p]
        <5>1. Alone(p, a)
          BY <4>2, <4>4, Zenon DEF SiteInv
        <5> QED
          BY <1>1, <2>1, <2>3, <3>2, <4>1, <4>4, <5>1, OldAlone DEF SiteInv
      <4>5. CASE p = q /\ a = n
        <5>1. Alone(p, n)'
          BY <1>1, <2>1, <2>3, <3>2, <4>1, <4>5, NewAlone DEF SiteInv
        <5> QED
          BY <4>5, <5>1, Zenon
      <4> QED
        BY <1>2, <3>2, <4>1, <4>3, <4>4, <4>5
    <3> QED
      BY <3>1, <3>2, Zenon DEF SiteInv
  <2> QED
    BY <2>1, <2>2, <2>3
<1> QED
  BY <1>3, <1>4, <1>5, <1>6 DEF PcvNext

(* Where a moved table comes from.                                         *)
SourceOf(i) == IF i \in MtcSources(soc) THEN i - 1 ELSE i

(* The tables of a memory module after its patch.                          *)
LEMMA RatesAre ==
    ASSUME PcvTypeOK, soc \in Socs, NEW a \in Int, Alone("Mtc", a),
           Structure("Mtc", a) \subseteq DOMAIN nso.word
    PROVE  /\ ~Overclocked(soc, cust) =>
                \A i \in 1..Len(KhzList(soc)) : At(word, MtcTable(a, i)) = KhzList(soc)[i]
           /\ Overclocked(soc, cust) =>
                /\ At(word, a) = EmcMaxClock(soc, cust)
                /\ soc = "Mariko" =>
                     /\ At(word, a + 1) = Pllmb(EmcMaxClock(soc, cust)).divm
                     /\ At(word, a + 2) = Pllmb(EmcMaxClock(soc, cust)).divn
                /\ regs[a] = AdjustedRegs(soc, cust, nso.regs[MtcTable(a, 2)], nso.regs[a])
                /\ \A i \in 2..Len(KhzList(soc)) :
                     /\ SourceOf(i) \in 1..Len(KhzList(soc))
                     /\ At(word, MtcTable(a, i)) = KhzList(soc)[SourceOf(i)]
                     /\ regs[MtcTable(a, i)] = nso.regs[MtcTable(a, SourceOf(i))]
<1> DEFINE F == Writes(soc, cust, nso.word, "Mtc", a)
           N == 1..Len(KhzList(soc))
<1>0. /\ DOMAIN regs = DOMAIN nso.regs /\ nso \in Nsos
      /\ Len(KhzList(soc)) \in Int
  BY KhzListIs DEF PcvTypeOK
<1>1. /\ \A i \in N : MtcTable(a, i) \in Structure("Mtc", a)
      /\ a \in Structure("Mtc", a)
  BY MtcPlaces
<1>9. \A i \in Int : MtcTable(a, i) = a - 4 * (i - 1)
  BY MtcTableIs
<1>2. Valid(soc, nso.word, "Mtc", a)
  BY Zenon DEF Alone
<1>3. /\ \A x \in Structure("Mtc", a) : At(word, x) = IF x \in DOMAIN F THEN F[x] ELSE At(nso.word, x)
      /\ \A x \in Structure("Mtc", a) \cap DOMAIN regs :
            regs[x] = NewRegs(soc, cust, nso.regs, "Mtc", a)[x]
  BY Zenon DEF Alone
<1>4. \A i \in N : At(nso.word, MtcTable(a, i)) = KhzList(soc)[i]
  BY <1>2, SMT DEF Valid
<1>5. \A i \in N : MtcTable(a, i) \in DOMAIN nso.regs /\ a \in DOMAIN nso.regs
  BY <1>0, <1>2, TimingTables
<1>6. F = MemFreqMtcTable(soc, cust, nso.word, a)
  BY Zenon DEF Writes
<1> HIDE DEF F
<1>7. CASE ~Overclocked(soc, cust)
  <2>1. DOMAIN F = {}
    BY <1>6, <1>7, MtcIs, NothingIs, Zenon
  <2> QED
    BY <1>1, <1>3, <1>4, <1>7, <2>1, Zenon
<1>8. CASE Overclocked(soc, cust)
  <2> DEFINE T == Put(a, MtcTop(soc, cust))
             M == MtcMoved(soc, nso.word, a)
  <2>1. F = Over(T, M)
    BY <1>6, <1>8, MtcIs, Zenon
  <2>2. /\ a \in DOMAIN T /\ DOMAIN T \subseteq a..(a + 2) /\ T[a] = EmcMaxClock(soc, cust)
        /\ soc = "Mariko" => /\ DOMAIN T = a..(a + 2)
                             /\ T[a + 1] = Pllmb(EmcMaxClock(soc, cust)).divm
                             /\ T[a + 2] = Pllmb(EmcMaxClock(soc, cust)).divn
    BY MtcTopIs
  <2>3. M = [b \in UNION {(MtcTable(a, i) - 1)..(MtcTable(a, i) + 2) : i \in MtcSources(soc)}
              |-> At(nso.word, b + MtcSize)]
    BY Zenon DEF MtcMoved
  <2> HIDE DEF T, M
  <2>4. /\ DOMAIN F = DOMAIN T \cup DOMAIN M
        /\ \A b \in DOMAIN F : F[b] = IF b \in DOMAIN T THEN T[b] ELSE M[b]
    <3>1. /\ DOMAIN Over(T, M) = DOMAIN T \cup DOMAIN M
          /\ \A b \in DOMAIN Over(T, M) : Over(T, M)[b] = IF b \in DOMAIN T THEN T[b] ELSE M[b]
      BY Zenon DEF Over
    <3> QED
      BY <2>1, <3>1, Zenon
  <2>5. At(word, a) = EmcMaxClock(soc, cust)
    BY <1>1, <1>3, <2>2, <2>4, Zenon
  <2>8. ASSUME soc = "Mariko"
        PROVE  /\ At(word, a + 1) = Pllmb(EmcMaxClock(soc, cust)).divm
               /\ At(word, a + 2) = Pllmb(EmcMaxClock(soc, cust)).divn
    <3>1. a + 1 \in DOMAIN T /\ a + 2 \in DOMAIN T
      BY <2>2, <2>8
    <3>2. a + 1 \in Structure("Mtc", a) /\ a + 2 \in Structure("Mtc", a)
      <4>1. 1 \in N /\ MtcTable(a, 1) = a
        <5>1. Len(KhzList(soc)) = 3
          BY <2>8, SMT DEF KhzList
        <5> QED
          BY <1>9, <5>1
      <4>2. a + 1 \in (MtcTable(a, 1) - 1)..(MtcTable(a, 1) + 2)
            /\ a + 2 \in (MtcTable(a, 1) - 1)..(MtcTable(a, 1) + 2)
        BY <4>1
      <4>3. Structure("Mtc", a) = UNION {(MtcTable(a, i) - 1)..(MtcTable(a, i) + 2) : i \in N}
        BY DEF Structure
      <4> QED
        BY <4>1, <4>2, <4>3, Zenon
    <3> QED
      BY <1>3, <2>2, <2>4, <2>8, <3>1, <3>2, Zenon
  <2>6. regs[a] = AdjustedRegs(soc, cust, nso.regs[MtcTable(a, 2)], nso.regs[a])
    <3>1. NewRegs(soc, cust, nso.regs, "Mtc", a)[a] = AdjustedRegs(soc, cust, nso.regs[MtcTable(a, 2)], nso.regs[a])
      <4>1. a \in DOMAIN nso.regs
        BY <1>0, <1>2, TimingTables
      <4> QED
        BY <1>8, <4>1, Zenon DEF NewRegs
    <3>2. a \in DOMAIN nso.regs
      BY <1>0, <1>2, TimingTables
    <3> QED
      BY <1>0, <1>1, <1>3, <3>1, <3>2
  <2>7. ASSUME NEW i \in 2..Len(KhzList(soc))
        PROVE  /\ SourceOf(i) \in N
               /\ At(word, MtcTable(a, i)) = KhzList(soc)[SourceOf(i)]
               /\ regs[MtcTable(a, i)] = nso.regs[MtcTable(a, SourceOf(i))]
    <3> DEFINE x == MtcTable(a, i)
    <3>1. i \in N /\ x \in Int /\ x < a
      <4>1. i \in Int /\ i >= 2 /\ i \in N
        BY <1>0
      <4>2. MtcTable(a, i) = a - 4 * (i - 1)
        BY <1>9, <4>1, Zenon
      <4> QED
        BY <4>1, <4>2
    <3>2. x \notin DOMAIN T
      BY <2>2, <3>1
    <3>3. x \in Structure("Mtc", a) /\ x \in DOMAIN nso.regs
      BY <1>1, <1>5, <3>1
    <3>4. CASE i \in MtcSources(soc)
      <4>1. SourceOf(i) = i - 1
        BY <3>4, Zenon DEF SourceOf
      <4>2. i - 1 \in N /\ x + MtcSize = MtcTable(a, i - 1)
        BY <3>4, MtcPlaces
      <4>3. x \in DOMAIN M /\ M[x] = At(nso.word, x + MtcSize)
        <5>1. x \in (MtcTable(a, i) - 1)..(MtcTable(a, i) + 2)
          BY <3>1
        <5>2. x \in UNION {(MtcTable(a, k) - 1)..(MtcTable(a, k) + 2) : k \in MtcSources(soc)}
          BY <3>4, <5>1
        <5> QED
          BY <2>3, <5>2, Zenon
      <4>4. At(word, x) = KhzList(soc)[i - 1]
        BY <1>3, <1>4, <2>4, <3>2, <3>3, <4>2, <4>3, Zenon
      <4>5. NewRegs(soc, cust, nso.regs, "Mtc", a)[x] = nso.regs[x + MtcSize]
        <5>1. x # a
          BY <3>1
        <5> QED
          BY <1>8, <3>3, <3>4, <5>1, Zenon DEF NewRegs
      <4>6. regs[x] = nso.regs[MtcTable(a, i - 1)]
        BY <1>0, <1>3, <3>3, <4>2, <4>5
      <4> QED
        BY <4>1, <4>2, <4>4, <4>6
    <3>5. CASE i \notin MtcSources(soc)
      <4>1. SourceOf(i) = i
        BY <3>5, Zenon DEF SourceOf
      <4>2. soc = "Mariko" /\ i = 3 /\ MtcTable(a, 2) = a - 4 /\ MtcTable(a, 3) = a - 8
        <5>1. soc = "Mariko"
          BY <3>5, <1>0 DEF MtcSources, Socs
        <5>2. Len(KhzList(soc)) = 3 /\ i # 2
          BY <3>5, <5>1, KhzListIs DEF MtcSources
        <5>3. MtcTable(a, 2) = a - 4 /\ MtcTable(a, 3) = a - 8
          BY DEF MtcTable, MtcSize
        <5>4. i = 3
          BY <5>2
        <5> QED
          BY <5>1, <5>3, <5>4
      <4>3. x \notin DOMAIN M
        <5>1. x = a - 8
          BY <4>2
        <5>2. x \notin (MtcTable(a, 2) - 1)..(MtcTable(a, 2) + 2)
          BY <4>2, <5>1
        <5>3. MtcSources(soc) = {2}
          BY <4>2 DEF MtcSources
        <5> QED
          BY <2>3, <5>2, <5>3
      <4>4. At(word, x) = KhzList(soc)[i]
        BY <1>3, <1>4, <2>4, <3>1, <3>2, <3>3, <4>3, Zenon
      <4>5. NewRegs(soc, cust, nso.regs, "Mtc", a)[x] = nso.regs[x]
        <5>1. x # a
          BY <3>1
        <5>2. ~\E k \in MtcSources(soc) : x = MtcTable(a, k)
          BY <4>2 DEF MtcSources
        <5> QED
          BY <1>8, <3>3, <5>1, <5>2, Zenon DEF NewRegs
      <4>6. regs[x] = nso.regs[x]
        BY <1>0, <1>3, <3>3, <4>5
      <4> QED
        BY <3>1, <4>1, <4>4, <4>6
    <3> QED
      BY <3>4, <3>5
  <2>9. \A i \in 2..Len(KhzList(soc)) :
           /\ SourceOf(i) \in N
           /\ At(word, MtcTable(a, i)) = KhzList(soc)[SourceOf(i)]
           /\ regs[MtcTable(a, i)] = nso.regs[MtcTable(a, SourceOf(i))]
    BY <2>7, Zenon
  <2> QED
    BY <1>8, <2>5, <2>6, <2>8, <2>9, Zenon
<1> QED
  BY <1>7, <1>8

(* The clocks of a customisation that passed the check.                    *)
LEMMA ClockRange ==
    ASSUME soc \in Socs, cust \in CustomizeTable, SafetyCheckPasses(cust), Overclocked(soc, cust)
    PROVE  EmcMaxClock(soc, cust) \in Nat /\ Between(EmcMaxClock(soc, cust), 1600001, 2800000)
<1>1. cust.marikoEmcMaxClock \in Nat /\ cust.eristaEmcMaxClock \in Nat
  BY CustomInts
<1>2. CASE soc = "Mariko"
  <2>1. EmcMaxClock(soc, cust) = cust.marikoEmcMaxClock
    BY <1>2 DEF EmcMaxClock
  <2>2. InRange(cust.marikoEmcMaxClock, 1600000, 2800000)
    BY SMT DEF SafetyCheckPasses
  <2>3. cust.marikoEmcMaxClock > 1600000
    BY <2>1 DEF Overclocked, EmcClkOSLimit
  <2> QED
    BY <1>1, <2>1, <2>2, <2>3, BetweenDef, SMT DEF InRange
<1>3. CASE soc = "Erista"
  <2>1. EmcMaxClock(soc, cust) = cust.eristaEmcMaxClock
    BY <1>3 DEF EmcMaxClock
  <2>2. InRange(cust.eristaEmcMaxClock, 1600000, 2131200)
    BY SMT DEF SafetyCheckPasses
  <2>3. cust.eristaEmcMaxClock > 1600000
    BY <2>1 DEF Overclocked, EmcClkOSLimit
  <2> QED
    BY <1>1, <2>1, <2>2, <2>3, BetweenDef, SMT DEF InRange
<1> QED
  BY <1>2, <1>3 DEF Socs

(* The new row of the voltage table is above the one it is copied from.    *)
LEMMA NewVoltsAbove ==
    ASSUME NEW c, c.marikoEmcMaxClock \in Nat, c.marikoEmcDvbShift \in Nat
    PROVE  \E x, y, z \in Int :
              /\ NewDvbVolts(c) = <<x, y, z>> /\ x >= 675 /\ y >= 650 /\ z >= 637
              /\ x <= 1050 /\ y <= 1050 /\ z <= 1050
<1> DEFINE clk == c.marikoEmcMaxClock
           add == 25 * c.marikoEmcDvbShift
           Fine(v) == \E q, r, t \in Int :
                         /\ v = <<q, r, t>> /\ q >= 675 /\ r >= 650 /\ t >= 637
                         /\ q <= 1050 /\ r <= 1050 /\ t <= 1050
<1>0. clk \in Int /\ add \in Nat
  OBVIOUS
<1>1. \/ clk < 1862400 \/ Between(clk, 1862400, 2131199) \/ Between(clk, 2131200, 2399999)
      \/ Between(clk, 2400000, 2665599) \/ Between(clk, 2665600, 2931199)
      \/ Between(clk, 2931200, 3199999) \/ clk >= 3200000
  BY <1>0, BetweenDef, SMT
<1>2. NewDvbVolts(c) =
        CASE clk < 1862400                  -> <<675, 650, 637>>
          [] Between(clk, 1862400, 2131199) -> <<700, 675, 650>>
          [] Between(clk, 2131200, 2399999) -> <<725, 700, 675>>
          [] Between(clk, 2400000, 2665599) -> DvbVolt(c, 750, 725, 700)
          [] Between(clk, 2665600, 2931199) -> DvbVolt(c, 775, 750, 725)
          [] Between(clk, 2931200, 3199999) -> DvbVolt(c, 800, 775, 750)
          [] clk >= 3200000                 -> DvbVolt(c, 800, 800, 775)
  BY SMT DEF NewDvbVolts
<1> HIDE DEF clk
<1>3. NewDvbVolts(c) \in {<<675, 650, 637>>, <<700, 675, 650>>, <<725, 700, 675>>,
         DvbVolt(c, 750, 725, 700), DvbVolt(c, 775, 750, 725), DvbVolt(c, 800, 775, 750),
         DvbVolt(c, 800, 800, 775)}
  BY <1>1, <1>2, SMT
<1> HIDE DEF add
<1>6. ASSUME NEW x \in Int, NEW y \in Int, NEW z \in Int, z >= 637, y >= 650, x >= 675
      PROVE  Fine(DvbVolt(c, x, y, z))
  <2>1. /\ Least(z + add, 1000) >= 637 /\ Least(y + add, 1025) >= 650 /\ Least(x + add, 1050) >= 675
        /\ Least(z + add, 1000) <= 1050 /\ Least(y + add, 1025) <= 1050 /\ Least(x + add, 1050) <= 1050
    BY <1>0, <1>6, SMT DEF Least
  <2>2. /\ Least(z + add, 1000) \in Int /\ Least(y + add, 1025) \in Int
        /\ Least(x + add, 1050) \in Int
    BY <1>0, SMT DEF Least
  <2>3. DvbVolt(c, x, y, z) = <<Least(x + add, 1050), Least(y + add, 1025), Least(z + add, 1000)>>
    BY SMT DEF add, DvbVolt
  <2> QED
    BY <2>1, <2>2, <2>3, SMT
<1>7. Fine(<<675, 650, 637>>) /\ Fine(<<700, 675, 650>>) /\ Fine(<<725, 700, 675>>)
  BY SMT
<1> HIDE DEF Fine
<1>8. /\ Fine(DvbVolt(c, 750, 725, 700)) /\ Fine(DvbVolt(c, 775, 750, 725))
      /\ Fine(DvbVolt(c, 800, 775, 750)) /\ Fine(DvbVolt(c, 800, 800, 775))
  BY <1>6, SMT
<1>9. Fine(NewDvbVolts(c))
  BY <1>3, <1>7, <1>8, SMT
<1> QED
  BY <1>9, SMT DEF Fine

(* The rates of a set of timing tables descend.                            *)
LEMMA RatesDescend ==
    ASSUME soc \in Socs, NEW i \in 2..Len(KhzList(soc))
    PROVE  /\ KhzList(soc)[SourceOf(i)] \in Int
           /\ KhzList(soc)[SourceOf(i)] <= 1600000
           /\ i > 2 => KhzList(soc)[SourceOf(i)] < KhzList(soc)[SourceOf(i - 1)]
<1>1. CASE soc = "Mariko"
  <2>1. KhzList(soc) = <<1600000, 1331200, 204000>> /\ MtcSources(soc) = {2}
    BY <1>1 DEF KhzList, MtcSources
  <2>2. i = 2 \/ i = 3
    BY <2>1
  <2> QED
    BY <2>1, <2>2, SMT DEF SourceOf
<1>2. CASE soc = "Erista"
  <2>1. /\ KhzList(soc) = <<1600000, 1331200, 1065600, 800000, 665600, 408000, 204000, 102000, 68000, 40800>>
        /\ MtcSources(soc) = 2..Len(KhzList(soc))
    BY <1>2 DEF KhzList, MtcSources
  <2>2. i \in 2..10 /\ Len(KhzList(soc)) = 10
    BY <2>1
  <2>3. SourceOf(i) = i - 1
    BY <2>1 DEF SourceOf
  <2>4. i > 2 => SourceOf(i - 1) = i - 2
    BY <2>1, <2>2 DEF SourceOf
  <2> QED
    BY <2>1, <2>2, <2>3, <2>4, SMT
<1> QED
  BY <1>1, <1>2 DEF Socs

LEMMA MtcRatesAre ==
    ASSUME soc \in Socs, NEW w, NEW a
    PROVE  /\ Len(MtcRates(w, a)) = Len(KhzList(soc))
           /\ \A i \in 1..Len(KhzList(soc)) : MtcRates(w, a)[i] = At(w, MtcTable(a, i))
<1>1. Len(KhzList(soc)) \in Nat
  BY KhzListIs
<1> QED
  BY <1>1 DEF MtcRates

LEMMA MaxAgrees ==
    ASSUME soc \in Socs, NEW a \in Int, Alone("Max", a), Overclocked(soc, cust)
    PROVE  At(word, a) = EmcMaxClock(soc, cust)
<1> DEFINE F == Writes(soc, cust, nso.word, "Max", a)
<1>1. F = Put(a, <<EmcMaxClock(soc, cust)>>)
  <2>1. F = MemFreqMax(soc, cust, a)
    BY Zenon DEF Writes
  <2> QED
    BY <2>1, Zenon DEF MemFreqMax
<1>2. a \in Structure("Max", a)
  BY DEF Structure
<1>3. At(word, a) = IF a \in DOMAIN F THEN F[a] ELSE At(nso.word, a)
  BY <1>2, Zenon DEF Alone
<1> HIDE DEF F
<1>4. DOMAIN Put(a, <<EmcMaxClock(soc, cust)>>) = {a}
      /\ Put(a, <<EmcMaxClock(soc, cust)>>)[a] = EmcMaxClock(soc, cust)
  BY PutOne
<1> QED
  BY <1>1, <1>3, <1>4, Zenon

(* The new row of the voltage table, and the one it comes after.           *)
LEMMA DvbWords ==
    ASSUME soc \in Socs, cust \in CustomizeTable, NEW a \in Int, Alone("Dvb", a), Overclocked(soc, cust)
    PROVE  /\ soc = "Mariko" /\ EmcMaxClock(soc, cust) = cust.marikoEmcMaxClock
           /\ At(word, a) = 1600000
           /\ At(word, a + 1) = 675 /\ At(word, a + 2) = 650 /\ At(word, a + 3) = 637
           /\ At(word, a + 4) = cust.marikoEmcMaxClock
           /\ \E x, y, z \in Int :
                 /\ At(word, a + 5) = x /\ At(word, a + 6) = y /\ At(word, a + 7) = z
                 /\ x >= 675 /\ y >= 650 /\ z >= 637 /\ x <= 1050 /\ y <= 1050 /\ z <= 1050
           /\ DOMAIN Writes(soc, cust, nso.word, "Dvb", a) = (a + 4)..(a + 7)
<1> DEFINE F == Writes(soc, cust, nso.word, "Dvb", a)
           row == <<cust.marikoEmcMaxClock>> \o NewDvbVolts(cust)
<1>1. soc = "Mariko" /\ EmcMaxClock(soc, cust) = cust.marikoEmcMaxClock
  BY DEF Alone, PatchOf, EmcMaxClock, Socs
<1>2. cust.marikoEmcMaxClock \in Nat /\ cust.marikoEmcDvbShift \in Nat
  BY CustomInts
<1>3. PICK x \in Int, y \in Int, z \in Int :
          /\ NewDvbVolts(cust) = <<x, y, z>> /\ x >= 675 /\ y >= 650 /\ z >= 637
          /\ x <= 1050 /\ y <= 1050 /\ z <= 1050
  BY <1>2, NewVoltsAbove
<1>4. RowOf(row, cust.marikoEmcMaxClock, x, y, z)
  <2>1. RowOf(<<cust.marikoEmcMaxClock>> \o <<x, y, z>>, cust.marikoEmcMaxClock, x, y, z)
    BY <1>2, HeadRow
  <2>2. NewDvbVolts(cust) = <<x, y, z>>
    BY <1>3
  <2> QED
    BY <2>1, <2>2, Zenon
<1>5. F = Put(a + RowSize, row)
  <2>1. F = MemFreqDvbTable(cust, a)
    BY Zenon DEF Writes
  <2>2. Overclocked("Mariko", cust)
    BY <1>1, Zenon
  <2> QED
    BY <2>1, <2>2, Zenon DEF MemFreqDvbTable
<1> HIDE DEF F, row
<1>6. /\ DOMAIN F = (a + 4)..(a + 7)
      /\ F[a + 4] = cust.marikoEmcMaxClock /\ F[a + 5] = x /\ F[a + 6] = y /\ F[a + 7] = z
  <2>1. F = [b \in (a + 4)..(a + 4 + Len(row) - 1) |-> row[b - (a + 4) + 1]]
    BY <1>5 DEF Put, RowSize
  <2> QED
    BY <1>4, <2>1 DEF RowOf
<1>7. \A b \in a..(a + 7) : At(word, b) = IF b \in DOMAIN F THEN F[b] ELSE At(nso.word, b)
  <2>1. \A b \in Structure("Dvb", a) : At(word, b) = IF b \in DOMAIN F THEN F[b] ELSE At(nso.word, b)
    BY Zenon DEF Alone, F
  <2>2. Structure("Dvb", a) = TableHead(a, 6)..(a + 2 * RowSize - 1)
    BY DEF Structure
  <2> QED
    BY <2>1, <2>2 DEF TableHead, RowSize
<1>8. At(nso.word, a + 1) = 675 /\ At(nso.word, a + 2) = 650 /\ At(nso.word, a + 3) = 637
  <2>1. TableEndsAt(nso.word, a, StockDvbRows)
    BY ValidTable, Zenon DEF Alone
  <2>2. Len(StockDvbRows) = 6 /\ Len(StockDvbRows[6]) = 4
    BY StockRowsFour
  <2>3. Holds(nso.word, TableHead(a, 6) + RowSize * (6 - 1), StockDvbRows[6])
    BY <2>1, <2>2 DEF TableEndsAt
  <2>4. TableHead(a, 6) + RowSize * (6 - 1) = a
    BY DEF TableHead, RowSize
  <2>5. RowOf(StockDvbRows[6], 1600000, 675, 650, 637)
    <3>1. StockDvbRows[6] = <<1600000>> \o <<675, 650, 637>>
      <4> DEFINE e == EmcDvbTableDefault[6]
      <4>1. e.freq = 1600000 /\ e.volt = <<675, 650, 637>>
        BY SMT DEF EmcDvbTableDefault
      <4>2. 6 \in 1..6
        BY SMT
      <4> HIDE DEF e
      <4>3. DvbRow(e) = <<1600000>> \o <<675, 650, 637>>
        BY <4>1, SMT DEF DvbRow
      <4>4. StockDvbRows[6] = DvbRow(EmcDvbTableDefault[6])
        BY <4>2 DEF StockDvbRows
      <4> QED
        BY <4>3, <4>4 DEF e
    <3>2. RowOf(<<1600000>> \o <<675, 650, 637>>, 1600000, 675, 650, 637)
      BY HeadRow, SMT
    <3> QED
      BY <3>1, <3>2, SMT
  <2>6. Holds(nso.word, a, StockDvbRows[6])
    BY <2>3, <2>4, SMT
  <2> DEFINE r == StockDvbRows[6]
  <2>7. Holds(nso.word, a, r) /\ Len(r) = 4 /\ r[2] = 675 /\ r[3] = 650 /\ r[4] = 637
    BY <2>2, <2>5, <2>6, SMT DEF RowOf
  <2> HIDE DEF r
  <2>8. \A i \in 1..4 : At(nso.word, a + i - 1) = r[i]
    BY <2>7 DEF Holds
  <2> QED
    BY <2>7, <2>8, SMT
<1>9. /\ At(word, a + 1) = 675 /\ At(word, a + 2) = 650 /\ At(word, a + 3) = 637
      /\ At(word, a + 4) = cust.marikoEmcMaxClock
      /\ At(word, a + 5) = x /\ At(word, a + 6) = y /\ At(word, a + 7) = z
  BY <1>6, <1>7, <1>8
<1>10. At(word, a) = 1600000
  <2>1. At(nso.word, a) = 1600000
    BY SMT DEF Alone, Matches, EmcClkOSLimit
  <2>2. a \in a..(a + 7) /\ a \notin DOMAIN F
    BY <1>6
  <2> QED
    BY <1>7, <2>1, <2>2
<1> QED
  BY <1>1, <1>3, <1>6, <1>9, <1>10 DEF F

LEMMA DvbAgrees ==
    ASSUME soc \in Socs, cust \in CustomizeTable, NEW a \in Int, Alone("Dvb", a), Overclocked(soc, cust)
    PROVE  /\ At(word, a + RowSize) = EmcMaxClock(soc, cust)
           /\ \A i \in 1..3 : At(word, a + RowSize + i) >= At(word, a + i)
BY DvbWords, SMT DEF RowSize

LaidInv == BootInv /\ SiteInv

LEMMA LaidInvInit == BootInit => LaidInv
BY BootInvInit, SiteInit DEF LaidInv, BootInit, LoaderInit

LEMMA LaidInvStep == LaidInv /\ [BootNext]_bootVars => LaidInv'
<1> SUFFICES ASSUME LaidInv, [BootNext]_bootVars PROVE LaidInv'
  OBVIOUS
<1>1. [PcvNext]_pcvVars
  BY BootStep
<1>2. SiteInv'
  BY <1>1, SiteStep DEF LaidInv, BootInv
<1> QED
  BY <1>2, BootInvStep DEF LaidInv

(* What is known of a structure that was found.                            *)
LEMMA FoundAlone ==
    ASSUME LaidInv, LaidOut, NEW p \in Structured, NEW a \in patched[p]
    PROVE  /\ Alone(p, a) /\ a \in Int /\ a \in DOMAIN word
           /\ PcvTypeOK /\ soc \in Socs /\ cust \in CustomizeTable /\ nso \in Nsos
           /\ DOMAIN word = DOMAIN nso.word
           /\ Structure(p, a) \subseteq DOMAIN nso.word
<1>1. PcvTypeOK /\ nso \in Nsos /\ cust \in CustomizeTable /\ soc \in Socs /\ DOMAIN word = DOMAIN nso.word
  BY CustomsAssumption, ImageFacts DEF LaidInv, BootInv, PcvTypeOK, soc
<1>2. p \in Patches
  BY DEF Structured, Patches
<1>3. patched[p] \subseteq 1..ScanEnd(nso) /\ ScanEnd(nso) \in Nat
  BY <1>1, <1>2, ImageFacts DEF PcvTypeOK
<1>4. a \in Int
  BY <1>3
<1>5. Structure(p, a) \subseteq DOMAIN nso.word
  BY <1>1, Zenon DEF LaidOut
<1>6. a \in Structure(p, a)
  BY <1>1, <1>4, InOwnStructure
<1>7. Alone(p, a)
  BY Zenon DEF LaidInv, SiteInv
<1> QED
  BY <1>1, <1>4, <1>5, <1>6, <1>7

(* Of the rates of the firmware, only the displaced one is gone.           *)
LEMMA OneRateGone ==
    ASSUME soc \in Socs
    PROVE  {KhzList(soc)[SourceOf(i)] : i \in 2..Len(KhzList(soc))}
                = {KhzList(soc)[j] : j \in 1..Len(KhzList(soc))} \ {DisplacedRate}
<1> DEFINE L == KhzList(soc)
<1>1. CASE soc = "Mariko"
  <2>1. /\ L = <<1600000, 1331200, 204000>> /\ Len(L) = 3 /\ MtcSources(soc) = {2}
        /\ DisplacedRate = 1331200
    BY <1>1, SMT DEF KhzList, MtcSources, DisplacedRate
  <2>2. SourceOf(2) = 1 /\ SourceOf(3) = 3
    BY <2>1, SMT DEF SourceOf
  <2>3. /\ 2..Len(L) = {2, 3} /\ 1..Len(L) = {1, 2, 3}
        /\ L[1] = 1600000 /\ L[2] = 1331200 /\ L[3] = 204000
    BY <2>1, SMT
  <2> HIDE DEF L
  <2>4. {L[SourceOf(i)] : i \in {2, 3}} = {1600000, 204000}
    BY <2>2, <2>3, SMT
  <2>5. {L[j] : j \in {1, 2, 3}} \ {1331200} = {1600000, 204000}
    BY <2>3, SMT
  <2>6. {L[SourceOf(i)] : i \in 2..Len(L)} = {L[j] : j \in 1..Len(L)} \ {DisplacedRate}
    BY <2>1, <2>3, <2>4, <2>5, SMT
  <2> QED
    BY <2>6, Zenon DEF L
<1>2. CASE soc = "Erista"
  <2>1. /\ L = <<1600000, 1331200, 1065600, 800000, 665600, 408000, 204000, 102000, 68000, 40800>>
        /\ MtcSources(soc) = 2..Len(L) /\ DisplacedRate = 40800
    BY <1>2, SMT DEF KhzList, MtcSources, DisplacedRate
  <2>2. Len(L) = 10 /\ L[10] = 40800
    BY <2>1, SMT
  <2>3. \A j \in 1..9 : L[j] # 40800
    <3>1. /\ L[1] = 1600000 /\ L[2] = 1331200 /\ L[3] = 1065600 /\ L[4] = 800000 /\ L[5] = 665600
          /\ L[6] = 408000 /\ L[7] = 204000 /\ L[8] = 102000 /\ L[9] = 68000
      BY <2>1, SMT
    <3> HIDE DEF L
    <3> QED
      BY <3>1, SMT
  <2>4. \A i \in 2..10 : SourceOf(i) = i - 1
    <3>1. MtcSources(soc) = 2..10
      BY <2>1, <2>2, SMT
    <3> QED
      BY <3>1, Zenon DEF SourceOf
  <2> HIDE DEF L
  <2>5. \A i \in 2..10 : L[SourceOf(i)] \in {L[j] : j \in 1..10} \ {40800}
    BY <2>3, <2>4, SMT
  <2>6. \A j \in 1..10 : L[j] # 40800 => \E i \in 2..10 : L[SourceOf(i)] = L[j]
    <3> SUFFICES ASSUME NEW j \in 1..10, L[j] # 40800
                 PROVE  \E i \in 2..10 : L[SourceOf(i)] = L[j]
      BY SMT
    <3>1. j # 10 /\ j + 1 \in 2..10
      BY <2>2, SMT
    <3>2. SourceOf(j + 1) = j
      BY <2>4, <3>1
    <3> QED
      BY <3>1, <3>2, SMT
  <2>7. {L[SourceOf(i)] : i \in 2..Len(L)} = {L[j] : j \in 1..Len(L)} \ {DisplacedRate}
    BY <2>1, <2>2, <2>5, <2>6, SMT
  <2> QED
    BY <2>7, Zenon DEF L
<1> QED
  BY <1>1, <1>2 DEF Socs

LEMMA MtcAgrees ==
    ASSUME LaidInv, LaidOut, status = "accepted", Overclocked(soc, cust), NEW a \in patched["Mtc"]
    PROVE  TablesWhole(a)
<1> DEFINE rates == MtcRates(word, a)
           stock == MtcRates(nso.word, a)
           n == Len(KhzList(soc))
<1>1. "Mtc" \in Structured
  BY DEF Structured
<1>2. /\ Alone("Mtc", a) /\ a \in Int /\ PcvTypeOK /\ soc \in Socs /\ cust \in CustomizeTable
      /\ Structure("Mtc", a) \subseteq DOMAIN nso.word
  BY <1>1, FoundAlone
<1>3. /\ At(word, a) = EmcMaxClock(soc, cust)
      /\ soc = "Mariko" => /\ At(word, a + 1) = Pllmb(EmcMaxClock(soc, cust)).divm
                           /\ At(word, a + 2) = Pllmb(EmcMaxClock(soc, cust)).divn
      /\ \A i \in 2..n :
           /\ SourceOf(i) \in 1..n
           /\ At(word, MtcTable(a, i)) = KhzList(soc)[SourceOf(i)]
           /\ regs[MtcTable(a, i)] = nso.regs[MtcTable(a, SourceOf(i))]
  BY <1>2, RatesAre
<1>4. n \in Nat /\ n >= 3
  <2>1. n = 3 \/ n = 10
    BY <1>2, KhzListIs
  <2> HIDE DEF n
  <2> QED
    BY <2>1, SMT
<1>5. /\ Len(rates) = n /\ \A i \in 1..n : rates[i] = At(word, MtcTable(a, i))
      /\ Len(stock) = n /\ \A i \in 1..n : stock[i] = At(nso.word, MtcTable(a, i))
  BY <1>2, MtcRatesAre
<1>6. SafetyCheckPasses(cust)
  BY DEF LaidInv, BootInv, VoltInv
<1>7. EmcMaxClock(soc, cust) \in Nat /\ EmcMaxClock(soc, cust) > 1600000
  BY <1>2, <1>6, ClockRange, BetweenDef, SMT
<1>8. MtcTable(a, 1) = a
  BY <1>2 DEF MtcTable, MtcSize
<1>12. \A j \in 1..n : At(nso.word, MtcTable(a, j)) = KhzList(soc)[j]
  <2>1. Valid(soc, nso.word, "Mtc", a)
    BY <1>2, Zenon DEF Alone
  <2> QED
    BY <2>1, SMT DEF Valid, n
<1>13. {KhzList(soc)[SourceOf(i)] : i \in 2..n} = {KhzList(soc)[j] : j \in 1..n} \ {DisplacedRate}
  BY <1>2, OneRateGone
<1>14. ASSUME soc = "Mariko"
       PROVE  a + 1 \in DOMAIN word /\ a + 2 \in DOMAIN word
  <2>1. n = 3
    BY <1>14, SMT DEF KhzList
  <2>2. Structure("Mtc", a) = UNION {(MtcTable(a, i) - 1)..(MtcTable(a, i) + 2) : i \in 1..n}
    BY DEF Structure
  <2>3. 1 \in 1..n /\ MtcTable(a, 1) = a
    BY <1>2, <2>1 DEF MtcTable, MtcSize
  <2>4. a + 1 \in (MtcTable(a, 1) - 1)..(MtcTable(a, 1) + 2)
        /\ a + 2 \in (MtcTable(a, 1) - 1)..(MtcTable(a, 1) + 2)
    BY <1>2, <2>3
  <2>5. a + 1 \in Structure("Mtc", a) /\ a + 2 \in Structure("Mtc", a)
    BY <2>2, <2>3, <2>4, Zenon
  <2>6. DOMAIN word = DOMAIN nso.word
    BY <1>2 DEF PcvTypeOK
  <2> QED
    BY <1>2, <2>5, <2>6
<1> HIDE DEF rates, stock, n
<1>9. rates[1] = EmcMaxClock(soc, cust)
  BY <1>3, <1>4, <1>5, <1>8
<1>10. ASSUME NEW i \in 2..n PROVE rates[i] < rates[i - 1]
  <2>1. /\ KhzList(soc)[SourceOf(i)] \in Int
        /\ KhzList(soc)[SourceOf(i)] <= 1600000
        /\ i > 2 => KhzList(soc)[SourceOf(i)] < KhzList(soc)[SourceOf(i - 1)]
    BY <1>2, RatesDescend DEF n
  <2>2. i \in 1..n /\ i - 1 \in 1..n /\ (i > 2 => i - 1 \in 2..n)
    BY <1>4
  <2>3. rates[i] = KhzList(soc)[SourceOf(i)]
    BY <1>3, <1>5, <2>2
  <2>4. CASE i = 2
    BY <1>7, <1>9, <2>1, <2>3, <2>4
  <2>5. CASE i > 2
    <3>1. rates[i - 1] = KhzList(soc)[SourceOf(i - 1)]
      BY <1>3, <1>5, <2>2, <2>5
    <3> QED
      BY <2>1, <2>3, <2>5, <3>1
  <2> QED
    BY <2>4, <2>5
<1>11. ASSUME NEW i \in 2..n
       PROVE  \E j \in 1..n : stock[j] = rates[i] /\ regs[MtcTable(a, i)] = nso.regs[MtcTable(a, j)]
  <2>1. i \in 1..n
    BY <1>4
  <2>2. /\ stock[SourceOf(i)] = rates[i] /\ SourceOf(i) \in 1..n
        /\ regs[MtcTable(a, i)] = nso.regs[MtcTable(a, SourceOf(i))]
    BY <1>3, <1>5, <1>12, <2>1
  <2> QED
    BY <2>2, Zenon
<1>15. {rates[i] : i \in 2..n} = {stock[j] : j \in 1..n} \ {DisplacedRate}
  <2>1. \A i \in 2..n : rates[i] = KhzList(soc)[SourceOf(i)]
    BY <1>3, <1>4, <1>5
  <2>2. \A j \in 1..n : stock[j] = KhzList(soc)[j]
    BY <1>5, <1>12
  <2>3. {rates[i] : i \in 2..n} = {KhzList(soc)[SourceOf(i)] : i \in 2..n}
    BY <2>1, Zenon
  <2>4. {stock[j] : j \in 1..n} = {KhzList(soc)[j] : j \in 1..n}
    BY <2>2, Zenon
  <2> QED
    BY <1>13, <2>3, <2>4, Zenon
<1>18. /\ 2..Len(rates) = 2..n /\ 1..Len(stock) = 1..n
       /\ {rates[i] : i \in 2..Len(rates)} = {stock[j] : j \in 1..Len(stock)} \ {DisplacedRate}
  <2>1. 2..Len(rates) = 2..n /\ 1..Len(stock) = 1..n
    BY <1>5, Zenon
  <2>2. {rates[i] : i \in 2..Len(rates)} = {rates[i] : i \in 2..n}
    BY <2>1
  <2>3. {stock[j] : j \in 1..Len(stock)} = {stock[j] : j \in 1..n}
    BY <2>1
  <2> QED
    BY <1>15, <2>1, <2>2, <2>3, Zenon
<1>16. ASSUME soc = "Mariko" PROVE PllmbMakes(rates[1], a)
  <2> DEFINE d == Pllmb(EmcMaxClock(soc, cust))
  <2>1. word[a + 1] = d.divm /\ word[a + 2] = d.divn
    BY <1>3, <1>14, <1>16, Zenon DEF At
  <2> DEFINE o == PllmbOutput([divm |-> word[a + 1], divn |-> word[a + 2]])
             e == PllmbOutput(d)
  <2>2. o = e
    BY <2>1, Zenon DEF PllmbOutput
  <2>3. EmcMaxClock(soc, cust) - 9600 < e /\ e <= EmcMaxClock(soc, cust)
    BY <1>7, PllmbNear
  <2> HIDE DEF d, o, e
  <2>4. rates[1] - 9600 < o /\ o <= rates[1]
    BY <1>9, <2>2, <2>3, SMT
  <2> QED
    BY <2>4, SMT DEF PllmbMakes, o
<1>17. \A i \in 2..Len(rates) :
         /\ rates[i] < rates[i - 1]
         /\ \E j \in 1..Len(stock) : stock[j] = rates[i] /\ regs[MtcTable(a, i)] = nso.regs[MtcTable(a, j)]
  BY <1>10, <1>11, <1>18, Zenon
<1>19. OneRateLess(rates, stock)
  BY <1>18, Zenon DEF OneRateLess
<1> QED
  BY <1>9, <1>16, <1>17, <1>19, Zenon DEF TablesWhole, rates, stock

(* For every image laid out as a driver is, and every customisation: an    *)
(* accepted image with an overclocked memory is whole.                     *)
THEOREM MemoryIsWhole == BootSpec => [](LaidOut => MemoryAgrees)
<1>1. LaidInv => (LaidOut => MemoryAgrees)
  <2> SUFFICES ASSUME LaidInv, LaidOut, status = "accepted", Overclocked(soc, cust)
               PROVE  MemoryAgrees
    BY Zenon DEF MemoryAgrees
  <2>0. {"Mtc", "Max", "Dvb"} \subseteq Structured
    BY DEF Structured
  <2>1. \A a \in patched["Mtc"] : TablesWhole(a)
    BY MtcAgrees
  <2>2. ASSUME NEW a \in patched["Max"] PROVE word[a] = EmcMaxClock(soc, cust)
    <3>1. Alone("Max", a) /\ a \in Int /\ a \in DOMAIN word /\ soc \in Socs
      BY <2>0, FoundAlone
    <3> QED
      BY <3>1, MaxAgrees DEF At
  <2>3. ASSUME NEW a \in patched["Dvb"]
        PROVE  /\ word[a + RowSize] = EmcMaxClock(soc, cust)
               /\ \A i \in 1..3 : word[a + RowSize + i] >= word[a + i]
    <3>1. /\ Alone("Dvb", a) /\ a \in Int /\ soc \in Socs /\ cust \in CustomizeTable
          /\ Structure("Dvb", a) \subseteq DOMAIN word
      BY <2>0, FoundAlone
    <3>2. /\ At(word, a + RowSize) = EmcMaxClock(soc, cust)
          /\ \A i \in 1..3 : At(word, a + RowSize + i) >= At(word, a + i)
      BY <3>1, DvbAgrees
    <3>3. Structure("Dvb", a) = TableHead(a, 6)..(a + 2 * RowSize - 1)
      BY DEF Structure
    <3>4. a + RowSize \in DOMAIN word /\ \A i \in 1..3 : a + RowSize + i \in DOMAIN word /\ a + i \in DOMAIN word
      BY <3>1, <3>3 DEF TableHead, RowSize
    <3> QED
      BY <3>2, <3>4, Zenon DEF At
  <2>4. \A a \in patched["Dvb"] :
            /\ word[a + RowSize] = EmcMaxClock(soc, cust)
            /\ \A i \in 1..3 : word[a + RowSize + i] >= word[a + i]
    BY <2>3
  <2>5. \A a \in patched["Max"] : word[a] = EmcMaxClock(soc, cust)
    BY <2>2
  <2> QED
    BY <2>1, <2>4, <2>5, Zenon DEF MemoryAgrees
<1> QED
  BY <1>1, LaidInvInit, LaidInvStep, PTL DEF BootSpec

-----------------------------------------------------------------------------
(***************************************************************************)
(* The rates the sysmodule asks for, among those of the memory driver.     *)
(***************************************************************************)
(* The memory clocks a configuration may name.                             *)
KeptRates(s) == IF s = "Mariko" THEN {memPtmLimit} ELSE {memPtmLimit, memPtmAlt, memPtmClamp}

(* An entry that was looked at names such clocks.                          *)
RatesInv ==
    /\ ptm # "unloaded" => console = soc
    /\ ptm \in {"apply", "accepted"} =>
        /\ table >= 1 /\ table + EntrySize * entryCnt - 1 <= Len(conf)
        /\ \A i \in 0..(entry - 1) : \A k \in {5, 6} : conf[EntryAt(table, i) + k] \in KeptRates(soc)
    /\ ptm = "accepted" => entry = entryCnt

LEMMA EntryRates ==
    ASSUME NEW w \in Seq(Int), NEW a \in Int, boost \in Int, a >= 1, a + 6 \in DOMAIN w, a + 5 \in DOMAIN w,
           Recognised(w, a), soc \in Socs, console = soc
    PROVE  LET v == MemPtm(CpuPtmBoost(w, a), a) IN
           /\ v[a + 5] \in KeptRates(soc) /\ v[a + 6] \in KeptRates(soc)
           /\ \A b \in DOMAIN w : b # a + 1 /\ b # a + 2 /\ b # a + 5 /\ b # a + 6 => v[b] = w[b]
<1> DEFINE u == CpuPtmBoost(w, a)
           v == MemPtm(u, a)
<1>1. u = w \/ u = [w EXCEPT ![a + 1] = boost, ![a + 2] = boost]
  BY Zenon DEF CpuPtmBoost
<1>2. /\ DOMAIN u = DOMAIN w
      /\ \A b \in DOMAIN w : b # a + 1 /\ b # a + 2 => u[b] = w[b]
  <2>1. CASE u = w
    BY <2>1, Zenon
  <2>2. CASE u = [w EXCEPT ![a + 1] = boost, ![a + 2] = boost]
    <3> HIDE DEF u
    <3> QED
      BY <2>2
  <2> QED
    BY <1>1, <2>1, <2>2
<1>0. a + 5 # a + 1 /\ a + 5 # a + 2 /\ a + 6 # a + 1 /\ a + 6 # a + 2 /\ a + 5 # a + 6
  OBVIOUS
<1>3. u[a + 5] = w[a + 5] /\ u[a + 6] = w[a + 6]
  BY <1>0, <1>2, Zenon
<1>4. w[a + 5] = w[a + 6] /\ w[a + 5] \in {memPtmLimit, memPtmAlt, memPtmClamp}
  BY Zenon DEF Recognised, PtmEntryIsValid
<1> HIDE DEF u
<1>5. CASE soc = "Mariko"
  <2>1. v = [u EXCEPT ![a + 5] = memPtmLimit, ![a + 6] = memPtmLimit]
    BY <1>5, Zenon DEF MemPtm
  <2>2. /\ v[a + 5] = memPtmLimit /\ v[a + 6] = memPtmLimit
        /\ \A b \in DOMAIN w : b # a + 5 /\ b # a + 6 => v[b] = u[b]
    <3> HIDE DEF v
    <3> QED
      BY <1>2, <2>1
  <2>3. memPtmLimit \in KeptRates(soc)
    BY <1>5, Zenon DEF KeptRates
  <2> HIDE DEF v
  <2>4. /\ v[a + 5] \in KeptRates(soc) /\ v[a + 6] \in KeptRates(soc)
        /\ \A b \in DOMAIN w : b # a + 1 /\ b # a + 2 /\ b # a + 5 /\ b # a + 6 => v[b] = w[b]
    BY <1>2, <2>2, <2>3, Zenon
  <2> QED
    BY <2>4 DEF u, v
<1>6. CASE soc = "Erista"
  <2>1. v = u
    BY <1>6, Zenon DEF MemPtm
  <2>2. w[a + 5] \in KeptRates(soc) /\ w[a + 6] \in KeptRates(soc)
    BY <1>4, <1>6 DEF KeptRates
  <2>3. /\ v[a + 5] \in KeptRates(soc) /\ v[a + 6] \in KeptRates(soc)
        /\ \A b \in DOMAIN w : b # a + 1 /\ b # a + 2 /\ b # a + 5 /\ b # a + 6 => v[b] = w[b]
    BY <1>2, <1>3, <2>1, <2>2, Zenon
  <2> QED
    BY <2>3 DEF u, v
<1> QED
  BY <1>5, <1>6 DEF Socs

LEMMA RatesInit == BootInit => RatesInv
BY DEF BootInit, LoaderInit, PtmInit, RatesInv

LEMMA RatesKept ==
    ASSUME RatesInv, UNCHANGED <<table, entry, conf, console>>, soc' = soc,
           ptm' = ptm \/ (ptm' = "crash" /\ ptm # "unloaded") \/ (ptm' = "accepted" /\ ptm = "apply" /\ entry = entryCnt)
    PROVE  RatesInv'
<1>1. CASE ptm' = ptm
  BY <1>1, Zenon DEF RatesInv, KeptRates
<1>2. CASE ptm' = "crash" /\ ptm # "unloaded"
  BY <1>2 DEF RatesInv
<1>3. CASE ptm' = "accepted" /\ ptm = "apply" /\ entry = entryCnt
  BY <1>3, Zenon DEF RatesInv, KeptRates
<1> QED
  BY <1>1, <1>2, <1>3

LEMMA RatesStep ==
    ASSUME PtmInv, PcvTypeOK, RatesInv, [BootNext]_bootVars
    PROVE  RatesInv'
<1>0. entryCnt \in Nat /\ entryCnt >= 1 /\ Len(conf) \in Nat /\ soc \in Socs
  BY entryCntAssumption, ImageFacts DEF PtmInv, PcvTypeOK, soc
<1>1. soc' = soc
  <2>1. nso' = nso
    BY BootStep DEF PcvNext, SafetyCheck, PatchWord, CheckResult, pcvVars
  <2> QED
    BY <2>1 DEF soc
<1>2. CASE UNCHANGED ptmVars
  BY <1>1, <1>2, RatesKept, Zenon DEF ptmVars
<1>3. CASE StartPtm
  <2>1. CASE LoadPtm(soc, cust.commonCpuBoostClock)
    <3>1. console' = soc /\ ptm' = "find"
      BY <2>1, Zenon DEF LoadPtm
    <3> QED
      BY <1>1, <3>1 DEF RatesInv
  <2>2. CASE FindTable
    <3>1. ptm = "find" /\ UNCHANGED <<conf, entry, console>>
      BY <2>2 DEF FindTable
    <3>2. CASE ptm' = "crash" /\ UNCHANGED table
      BY <1>1, <3>1, <3>2, RatesKept
    <3>3. CASE ptm' = "apply" /\ TableStarts(conf) # {}
               /\ table' = CHOOSE a \in TableStarts(conf) : \A b \in TableStarts(conf) : a <= b
      <4>1. TableStarts(conf) \subseteq 1..(Len(conf) - EntrySize * entryCnt + 1)
        BY DEF TableStarts
      <4>2. \E a \in TableStarts(conf) : \A b \in TableStarts(conf) : a <= b
        <5>1. TableStarts(conf) \in SUBSET Nat
          BY <1>0, <4>1 DEF EntrySize
        <5> QED
          BY <3>3, <5>1, FirstIndex
      <4>3. table' \in TableStarts(conf)
        BY <3>3, <4>2, Zenon
      <4>4. table' >= 1 /\ table' + EntrySize * entryCnt - 1 <= Len(conf)
        <5>1. table' \in 1..(Len(conf) - EntrySize * entryCnt + 1)
          BY <4>1, <4>3
        <5> QED
          BY <1>0, <5>1 DEF EntrySize
      <4>5. entry' = 0
        BY <3>1 DEF PtmInv
      <4>6. \A i \in 0..(entry' - 1) : FALSE
        BY <4>5
      <4>7. console' = soc'
        BY <1>1, <3>1 DEF RatesInv
      <4>8. Len(conf') = Len(conf)
        BY <3>1
      <4> QED
        BY <3>3, <4>4, <4>6, <4>7, <4>8 DEF RatesInv
    <3> QED
      BY <2>2, <3>2, <3>3 DEF FindTable
  <2>3. CASE PatchEntry
    <3> DEFINE a == EntryAt(table, entry)
    <3>1. ptm = "apply" /\ entry < entryCnt /\ UNCHANGED <<table, console>>
      BY <2>3 DEF PatchEntry
    <3>2. CASE ptm' = "crash" /\ UNCHANGED <<conf, entry, boosts, mems>>
      BY <1>1, <3>1, <3>2, RatesKept
    <3>3. CASE /\ Recognised(conf, a) /\ conf' = MemPtm(CpuPtmBoost(conf, a), a)
               /\ entry' = entry + 1 /\ ptm' = ptm
      <4>1. /\ console = soc /\ table >= 1 /\ table + EntrySize * entryCnt - 1 <= Len(conf)
            /\ \A i \in 0..(entry - 1) : \A k \in {5, 6} : conf[EntryAt(table, i) + k] \in KeptRates(soc)
        BY <3>1 DEF RatesInv
      <4>2. /\ conf \in Seq(Int) /\ boost \in Int /\ table \in Int /\ entry \in Int /\ entry >= 0
            /\ DOMAIN conf = 1..Len(conf)
        BY <1>0 DEF PtmInv
      <4>3. \A i \in 0..entry : \A k \in 1..6 : EntryAt(table, i) + k \in DOMAIN conf
        BY <1>0, <3>1, <4>1, <4>2 DEF EntryAt, EntrySize
      <4>4. a \in Int /\ a >= 1 /\ a + 5 \in DOMAIN conf /\ a + 6 \in DOMAIN conf
        BY <4>1, <4>2, <4>3 DEF EntryAt, EntrySize
      <4>5. a = EntryAt(table, entry)
        OBVIOUS
      <4> HIDE DEF a
      <4>6. /\ conf'[a + 5] \in KeptRates(soc) /\ conf'[a + 6] \in KeptRates(soc)
            /\ \A b \in DOMAIN conf : b # a + 1 /\ b # a + 2 /\ b # a + 5 /\ b # a + 6 => conf'[b] = conf[b]
        <5>1. LET v == MemPtm(CpuPtmBoost(conf, a), a) IN
              /\ v[a + 5] \in KeptRates(soc) /\ v[a + 6] \in KeptRates(soc)
              /\ \A b \in DOMAIN conf : b # a + 1 /\ b # a + 2 /\ b # a + 5 /\ b # a + 6 => v[b] = conf[b]
          BY <1>0, <3>3, <4>1, <4>2, <4>4, EntryRates
        <5> QED
          BY <3>3, <5>1, Zenon
      <4>7. Len(conf') = Len(conf)
        BY <3>3, <4>2, <4>4, EntryPatched
      <4>8. ASSUME NEW i \in 0..(entry' - 1), NEW k \in {5, 6}
            PROVE  conf'[EntryAt(table', i) + k] \in KeptRates(soc')
        <5>1. CASE i = entry
          BY <1>1, <3>1, <4>5, <4>6, <5>1
        <5>2. CASE i # entry
          <6>1. i \in 0..(entry - 1) /\ i \in 0..entry /\ k \in 1..6
            BY <3>3, <4>2, <5>2
          <6>2. /\ EntryAt(table, i) + k # a + 1 /\ EntryAt(table, i) + k # a + 2
                /\ EntryAt(table, i) + k # a + 5 /\ EntryAt(table, i) + k # a + 6
            BY <4>2, <4>5, <6>1 DEF EntryAt, EntrySize
          <6>3. EntryAt(table, i) + k \in DOMAIN conf /\ conf[EntryAt(table, i) + k] \in KeptRates(soc)
            BY <4>1, <4>3, <6>1
          <6>4. conf'[EntryAt(table, i) + k] \in KeptRates(soc)
            BY <4>6, <6>2, <6>3, Zenon
          <6> QED
            BY <1>1, <3>1, <6>4
        <5> QED
          BY <5>1, <5>2
      <4> QED
        BY <1>1, <3>1, <3>3, <4>1, <4>7, <4>8 DEF RatesInv
    <3> QED
      BY <2>3, <3>2, <3>3, Zenon DEF PatchEntry
  <2>4. CASE PtmCheckResult
    BY <1>1, <2>4, RatesKept DEF PtmCheckResult
  <2> QED
    BY <1>3, <2>1, <2>2, <2>3, <2>4 DEF StartPtm, PtmNext
<1> QED
  BY <1>2, <1>3, BootStep

(* A rate a configuration may name has a timing table.                     *)
LEMMA KeptRatesExist ==
    ASSUME LaidInv, LaidOut, NEW a \in patched["Mtc"], NEW r \in KeptRates(soc)
    PROVE  r \in {MtcRates(word, a)[j] : j \in 1..Len(KhzList(soc))}
<1> DEFINE n == Len(KhzList(soc))
<1>1. "Mtc" \in Structured
  BY DEF Structured
<1>2. /\ Alone("Mtc", a) /\ a \in Int /\ PcvTypeOK /\ soc \in Socs
      /\ Structure("Mtc", a) \subseteq DOMAIN nso.word
  BY <1>1, FoundAlone
<1>3. /\ ~Overclocked(soc, cust) => \A i \in 1..n : At(word, MtcTable(a, i)) = KhzList(soc)[i]
      /\ Overclocked(soc, cust) => \A i \in 2..n : At(word, MtcTable(a, i)) = KhzList(soc)[SourceOf(i)]
  BY <1>2, RatesAre
<1>4. \A i \in 1..n : MtcRates(word, a)[i] = At(word, MtcTable(a, i))
  BY <1>2, MtcRatesAre
<1>5. \E i \in 1..n : KhzList(soc)[i] = r /\ (i + 1 \in 2..n /\ SourceOf(i + 1) = i)
  <2>1. CASE soc = "Mariko"
    <3>1. KhzList(soc) = <<1600000, 1331200, 204000>> /\ MtcSources(soc) = {2}
      BY <2>1 DEF KhzList, MtcSources
    <3>2. r = 1600000
      BY <2>1 DEF KeptRates, memPtmLimit
    <3> QED
      BY <3>1, <3>2, SMT DEF SourceOf
  <2>2. CASE soc = "Erista"
    <3>1. /\ KhzList(soc) = <<1600000, 1331200, 1065600, 800000, 665600, 408000, 204000, 102000, 68000, 40800>>
          /\ MtcSources(soc) = 2..Len(KhzList(soc))
      BY <2>2 DEF KhzList, MtcSources
    <3>2. r = 1600000 \/ r = 1331200 \/ r = 1065600
      BY <2>2 DEF KeptRates, memPtmLimit, memPtmAlt, memPtmClamp
    <3>3. n = 10 /\ \A i \in 1..9 : i + 1 \in 2..n /\ SourceOf(i + 1) = i /\ i \in 1..n
      BY <3>1 DEF SourceOf
    <3>4. KhzList(soc)[1] = 1600000 /\ KhzList(soc)[2] = 1331200 /\ KhzList(soc)[3] = 1065600
      BY <3>1
    <3>5. 1 \in 1..9 /\ 2 \in 1..9 /\ 3 \in 1..9
      OBVIOUS
    <3> QED
      BY <3>2, <3>3, <3>4, <3>5
  <2> QED
    BY <1>2, <2>1, <2>2 DEF Socs
<1>6. PICK i \in 1..n : KhzList(soc)[i] = r /\ i + 1 \in 2..n /\ SourceOf(i + 1) = i
  BY <1>5
<1>7. \E j \in 1..n : At(word, MtcTable(a, j)) = r
  <2>1. i + 1 \in 1..n
    BY <1>6
  <2>2. CASE Overclocked(soc, cust)
    BY <1>3, <1>6, <2>1, <2>2, Zenon
  <2>3. CASE ~Overclocked(soc, cust)
    BY <1>3, <1>6, <2>3, Zenon
  <2> QED
    BY <2>2, <2>3
<1> QED
  BY <1>4, <1>7, Zenon

(* For every two images that are laid out as a driver's are and every      *)
(* customisation: ptm asks for no memory rate that lost its timing table.  *)
THEOREM RatesSurvive == BootSpec => [](LaidOut => RequestedRatesExist)
<1>1. LaidInv /\ RatesInv => (LaidOut => RequestedRatesExist)
  <2> SUFFICES ASSUME LaidInv, RatesInv, LaidOut, ptm = "accepted",
                      NEW a \in patched["Mtc"], NEW i \in 0..(entryCnt - 1), NEW k \in {5, 6}
               PROVE  conf[EntryAt(table, i) + k] \in
                          {MtcRates(word, a)[j] : j \in 1..Len(KhzList(soc))}
    BY Zenon DEF RequestedRatesExist
  <2>1. conf[EntryAt(table, i) + k] \in KeptRates(soc)
    BY DEF RatesInv
  <2> QED
    BY <2>1, KeptRatesExist
<1>2. LaidInv /\ RatesInv /\ [BootNext]_bootVars => RatesInv'
  BY RatesStep DEF LaidInv, BootInv
<1> QED
  BY <1>1, <1>2, LaidInvInit, LaidInvStep, RatesInit, PTL DEF BootSpec

-----------------------------------------------------------------------------
(***************************************************************************)
(* The tables of a unit, as the driver reads them.                         *)
(***************************************************************************)
(* The frequency of a row that a table patch writes.                       *)
LEMMA RowStart ==
    ASSUME NEW head \in Int, NEW n \in Nat, NEW rows, Len(rows) = n, NEW i \in 1..n
    PROVE  /\ head + RowSize * (i - 1) \in DOMAIN PutTable(head, rows)
           /\ PutTable(head, rows)[head + RowSize * (i - 1)] = rows[i][1]
<1> DEFINE b == head + RowSize * (i - 1)
<1>1. b \in head..(head + RowSize * Len(rows) - 1)
  BY DEF RowSize
<1>2. 1 + (b - head) \div RowSize = i /\ 1 + ((b - head) % RowSize) = 1
  BY DEF RowSize
<1> HIDE DEF b
<1>3. b \in DOMAIN PutTable(head, rows)
      /\ PutTable(head, rows)[b] = rows[1 + (b - head) \div RowSize][1 + ((b - head) % RowSize)]
  BY <1>1, Zenon DEF PutTable
<1> QED
  BY <1>2, <1>3 DEF b

(* A table of n rows that starts at head and has these frequencies.        *)
IsClockTable(w, head, n, k) ==
    /\ head \in Int /\ n \in Nat /\ n >= 1 /\ n <= 30
    /\ \A i \in 1..n : At(w, head + RowSize * (i - 1)) = k[i] /\ k[i] \in Int /\ k[i] # 0
    /\ Holds(w, head + RowSize * n, <<0, 0, 0, 0>>)
    /\ \A i \in 1..(n - 1) : k[i] < k[i + 1]

(* What the driver reads of such a table.                                  *)
LEMMA TableRead ==
    ASSUME NEW w, NEW head, NEW n, NEW k, IsClockTable(w, head, n, k)
    PROVE  TableLen(w, head) = n /\ LastFreq(w, head) = k[n] /\ Ascending(w, head)
<1> head \in Int /\ n \in Nat /\ n >= 1 /\ n <= 30
  BY DEF IsClockTable
<1>a. \A i \in 1..n : At(w, head + RowSize * (i - 1)) = k[i] /\ k[i] \in Int /\ k[i] # 0
  BY DEF IsClockTable
<1>b. Holds(w, head + RowSize * n, <<0, 0, 0, 0>>)
  BY DEF IsClockTable
<1>c. \A i \in 1..(n - 1) : k[i] < k[i + 1]
  BY DEF IsClockTable
<1>1. ASSUME NEW m \in Int, 0 <= m, m < n PROVE ~Holds(w, head + RowSize * m, <<0, 0, 0, 0>>)
  <2>1. m + 1 \in 1..n /\ m + 1 - 1 = m
    BY <1>1
  <2>2. At(w, head + RowSize * m) # 0
    <3>1. At(w, head + RowSize * (m + 1 - 1)) = k[m + 1] /\ k[m + 1] # 0
      BY <2>1, <1>a
    <3> QED
      BY <2>1, <3>1
  <2>3. ASSUME Holds(w, head + RowSize * m, <<0, 0, 0, 0>>) PROVE At(w, head + RowSize * m) = 0
    <3> DEFINE z == <<0, 0, 0, 0>>
    <3>1. 1 \in 1..Len(z) /\ z[1] = 0
      OBVIOUS
    <3>2. Holds(w, head + RowSize * m, z)
      BY <2>3
    <3> HIDE DEF z
    <3>3. At(w, head + RowSize * m + 1 - 1) = 0
      BY <3>1, <3>2 DEF Holds
    <3> QED
      BY <1>1, <3>3 DEF RowSize
  <2> QED
    BY <2>2, <2>3
<1> DEFINE Is(x) == /\ Holds(w, head + RowSize * x, <<0, 0, 0, 0>>)
                    /\ \A m \in 0..(x - 1) : ~Holds(w, head + RowSize * m, <<0, 0, 0, 0>>)
<1>2. n \in 0..31 /\ Is(n)
  BY <1>1, <1>b
<1>3. ASSUME NEW x \in 0..31, Is(x) PROVE x = n
  <2>1. ~(x < n)
    BY <1>1, <1>3
  <2>2. ~(n < x)
    <3>1. ASSUME n < x PROVE n \in 0..(x - 1)
      BY <1>3, <3>1
    <3> QED
      BY <1>b, <1>3, <3>1
  <2> QED
    BY <2>1, <2>2
<1>4. TableLen(w, head) = CHOOSE x \in 0..31 : Is(x)
  BY Zenon DEF TableLen
<1> HIDE DEF Is
<1>5. TableLen(w, head) = n
  BY <1>2, <1>3, <1>4, Zenon
<1>6. LastFreq(w, head) = k[n]
  <2>1. n \in 1..n
    OBVIOUS
  <2> QED
    BY <1>5, <1>a, <2>1, Zenon DEF LastFreq
<1>7. Ascending(w, head)
  <2> SUFFICES ASSUME NEW i \in 1..(n - 1)
               PROVE  At(w, head + RowSize * (i - 1)) < At(w, head + RowSize * i)
    BY <1>5 DEF Ascending
  <2>1. i \in 1..n /\ i + 1 \in 1..n /\ i + 1 - 1 = i
    OBVIOUS
  <2>2. At(w, head + RowSize * (i - 1)) = k[i]
    BY <2>1, <1>a
  <2>3. At(w, head + RowSize * (i + 1 - 1)) = k[i + 1]
    BY <2>1, <1>a
  <2> QED
    BY <2>1, <2>2, <2>3, <1>c
<1> QED
  BY <1>5, <1>6, <1>7

LEMMA CpuKhzAscends ==
    ASSUME NEW i \in 1..21
    PROVE  CpuKhz(i) < CpuKhz(i + 1)
BY SMT DEF CpuKhz

LEMMA GpuKhzAscends ==
    ASSUME NEW i \in 1..16
    PROVE  GpuKhz(i) < GpuKhz(i + 1)
BY SMT DEF GpuKhz

CpuKhzList == [i \in 1..CpuNew(soc, cust) |-> CpuKhz(i)]
GpuKhzList == [i \in 1..GpuNew(soc) |-> GpuKhz(i)]

(* A table patch found at a writes n rows with the frequencies k.          *)
IsRewritten(p, a, head, n, rows, k) ==
    /\ a \in Int /\ Alone(p, a)
    /\ head \in Int /\ head = HeadOf(p, a)
    /\ n \in Nat /\ n >= 1 /\ n <= 30 /\ EndOf(p, a) = head + RowSize * n
    /\ Holds(nso.word, EndOf(p, a), <<0, 0, 0, 0>>)
    /\ Len(rows) = n /\ Writes(soc, cust, nso.word, p, a) = PutTable(head, rows)
    /\ \A i \in 1..n : rows[i][1] = k[i] /\ k[i] \in Int /\ k[i] # 0
    /\ \A i \in 1..(n - 1) : k[i] < k[i + 1]

(* Then the driver reads them.                                             *)
LEMMA NewTable ==
    ASSUME NEW p \in {"CpuTable", "GpuTable"}, NEW a, NEW head, NEW n, NEW rows, NEW k,
           IsRewritten(p, a, head, n, rows, k)
    PROVE  /\ TableLen(word, head) = n /\ LastFreq(word, head) = k[n] /\ Ascending(word, head)
           /\ DriverFreqs(head) = [i \in 1..n |-> k[i]]
<1> DEFINE m == RowSize * n
<1>a. /\ a \in Int /\ Alone(p, a) /\ head \in Int /\ head = HeadOf(p, a)
      /\ n \in Nat /\ n >= 1 /\ n <= 30 /\ EndOf(p, a) = head + m
      /\ Holds(nso.word, EndOf(p, a), <<0, 0, 0, 0>>)
      /\ Len(rows) = n /\ Writes(soc, cust, nso.word, p, a) = PutTable(head, rows)
      /\ \A i \in 1..n : rows[i][1] = k[i] /\ k[i] \in Int /\ k[i] # 0
      /\ \A i \in 1..(n - 1) : k[i] < k[i + 1]
  BY Zenon DEF IsRewritten
<1>b. m \in Int /\ m = RowSize * n /\ m >= 0
  BY <1>a DEF RowSize
<1> HIDE DEF m
<1> DEFINE F == Writes(soc, cust, nso.word, p, a)
<1>1. Structure(p, a) = head..(head + m + RowSize - 1)
  <2>1. Structure(p, a) = HeadOf(p, a)..(EndOf(p, a) + RowSize - 1)
    BY Zenon DEF Structure
  <2>2. (head + m) + RowSize - 1 = head + m + RowSize - 1
    BY <1>a, <1>b DEF RowSize
  <2> QED
    BY <1>a, <2>1, <2>2
<1>2. \A b \in Structure(p, a) : At(word, b) = IF b \in DOMAIN F THEN F[b] ELSE At(nso.word, b)
  BY <1>a, Zenon DEF Alone
<1>3. F = PutTable(head, rows)
  BY <1>a
<1>4. DOMAIN F = head..(head + m - 1)
  BY <1>3, <1>a, <1>b DEF PutTable
<1> HIDE DEF F
<1>5. ASSUME NEW i \in 1..n
      PROVE  At(word, head + RowSize * (i - 1)) = k[i]
  <2> DEFINE b == head + RowSize * (i - 1)
  <2>1. /\ b \in DOMAIN PutTable(head, rows)
        /\ PutTable(head, rows)[b] = rows[i][1]
    BY <1>a, RowStart
  <2>2. b \in Structure(p, a)
    BY <1>1, <1>a, <1>b DEF RowSize
  <2>3. rows[i][1] = k[i]
    BY <1>a
  <2> HIDE DEF b
  <2>4. b \in DOMAIN F /\ F[b] = rows[i][1]
    BY <1>3, <2>1, Zenon
  <2>5. At(word, b) = k[i]
    BY <1>2, <2>2, <2>3, <2>4, Zenon
  <2> QED
    BY <2>5 DEF b
<1>6. Holds(word, head + RowSize * n, <<0, 0, 0, 0>>)
  <2> DEFINE z == <<0, 0, 0, 0>>
             e == head + m
  <2>1. Len(z) = 4
    OBVIOUS
  <2>2. Holds(nso.word, e, z)
    BY <1>a
  <2>3. e \in Int /\ e = head + RowSize * n
    BY <1>a, <1>b
  <2>4. Structure(p, a) = head..(e + RowSize - 1) /\ DOMAIN F = head..(e - 1) /\ head <= e
    BY <1>1, <1>4, <1>a, <1>b DEF RowSize
  <2> HIDE DEF z, e
  <2>5. ASSUME NEW j \in 1..4 PROVE At(word, e + j - 1) = z[j]
    <3>1. At(nso.word, e + j - 1) = z[j]
      BY <2>1, <2>2 DEF Holds
    <3>2. e + j - 1 \in head..(e + RowSize - 1) /\ e + j - 1 \notin head..(e - 1)
      <4>1. head \in Int /\ e \in Int /\ head <= e /\ RowSize = 4
        BY <1>a, <2>3, <2>4 DEF RowSize
      <4>2. e <= e + j - 1 /\ e + j - 1 <= e + RowSize - 1
        BY <4>1
      <4> QED
        BY <4>1, <4>2
    <3>3. e + j - 1 \in Structure(p, a) /\ e + j - 1 \notin DOMAIN F
      BY <2>4, <3>2, Zenon
    <3> QED
      BY <1>2, <3>1, <3>3, Zenon
  <2>6. Holds(word, e, z)
    BY <2>1, <2>5 DEF Holds
  <2> QED
    BY <2>3, <2>6 DEF z
<1>7. IsClockTable(word, head, n, k)
  BY <1>5, <1>6, <1>a DEF IsClockTable
<1>8. TableLen(word, head) = n /\ LastFreq(word, head) = k[n] /\ Ascending(word, head)
  BY <1>7, TableRead, Zenon
<1>9. DriverFreqs(head) = [i \in 1..n |-> k[i]]
  BY <1>5, <1>8, Zenon DEF DriverFreqs
<1> QED
  BY <1>8, <1>9, Zenon

LEMMA CpuTableRead ==
    ASSUME soc \in Socs, cust \in CustomizeTable, NEW a \in Int, Alone("CpuTable", a),
           Holds(nso.word, EndOf("CpuTable", a), <<0, 0, 0, 0>>)
    PROVE  LET head == HeadOf("CpuTable", a) IN
           /\ LastFreq(word, head) = CpuKhz(CpuNew(soc, cust)) /\ Ascending(word, head)
           /\ DriverFreqs(head) = CpuKhzList
<1> DEFINE n == CpuNew(soc, cust)
           m == RowSize * n
           head == HeadOf("CpuTable", a)
<1>1. PICK rows :
          /\ CpuFreqCvbTable(soc, cust, a) = PutTable(TableHead(a, CpuOld(soc)), rows)
          /\ Len(rows) = CpuNew(soc, cust)
          /\ \A i \in 1..CpuNew(soc, cust) : IsRow(rows[i], CpuKhz(i))
  BY CpuRowsAre
<1>2. n \in Nat /\ n >= 1 /\ n <= 22 /\ m \in Int /\ CpuOld(soc) \in Int
  BY Counts DEF RowSize
<1>3. head = TableHead(a, CpuOld(soc)) /\ EndOf("CpuTable", a) = TableHead(a, CpuOld(soc)) + m
  BY Ends
<1>4. head \in Int
  BY <1>2, <1>3 DEF TableHead, RowSize
<1>5. Writes(soc, cust, nso.word, "CpuTable", a) = PutTable(head, rows)
  <2>1. Writes(soc, cust, nso.word, "CpuTable", a) = CpuFreqCvbTable(soc, cust, a)
    BY Zenon DEF Writes
  <2> QED
    BY <1>1, <1>3, <2>1, Zenon
<1>6. /\ \A i \in 1..n : /\ rows[i][1] = CpuKhzList[i]
                         /\ CpuKhzList[i] \in Int /\ CpuKhzList[i] # 0
      /\ \A i \in 1..(n - 1) : CpuKhzList[i] < CpuKhzList[i + 1]
  <2>1. \A i \in 1..n : CpuKhzList[i] = CpuKhz(i) /\ i \in 1..22
    BY <1>2 DEF CpuKhzList
  <2>2. \A i \in 1..n : rows[i][1] = CpuKhz(i)
    BY <1>1 DEF IsRow
  <2>3. \A i \in 1..n : CpuKhz(i) \in Int /\ CpuKhz(i) # 0
    BY <2>1, CpuKhzIs
  <2>4. \A i \in 1..(n - 1) : i \in 1..21 /\ i \in 1..n /\ i + 1 \in 1..n
    BY <1>2
  <2>5. \A i \in 1..(n - 1) : CpuKhz(i) < CpuKhz(i + 1)
    BY <2>4, CpuKhzAscends
  <2> QED
    BY <2>1, <2>2, <2>3, <2>4, <2>5
<1>7. Len(rows) = n
  BY <1>1
<1> HIDE DEF head, m, n
<1>8. EndOf("CpuTable", a) = head + m /\ m = RowSize * n
  BY <1>3 DEF m, n
<1>9. IsRewritten("CpuTable", a, head, n, rows, CpuKhzList)
  BY <1>2, <1>4, <1>5, <1>6, <1>7, <1>8 DEF IsRewritten, head
<1>11. /\ LastFreq(word, head) = CpuKhzList[n] /\ Ascending(word, head)
       /\ DriverFreqs(head) = [i \in 1..n |-> CpuKhzList[i]]
  <2>1. "CpuTable" \in {"CpuTable", "GpuTable"}
    OBVIOUS
  <2> QED
    BY <1>9, <2>1, NewTable, SMTT(30)
<1>10. CpuKhzList[n] = CpuKhz(n)
  BY <1>2 DEF CpuKhzList, n
<1>12. [i \in 1..n |-> CpuKhzList[i]] = CpuKhzList
  BY DEF n, CpuKhzList
<1> QED
  BY <1>10, <1>11, <1>12 DEF head, n

LEMMA GpuTableRead ==
    ASSUME soc \in Socs, cust \in CustomizeTable, NEW a \in Int, Alone("GpuTable", a),
           Holds(nso.word, EndOf("GpuTable", a), <<0, 0, 0, 0>>)
    PROVE  LET head == HeadOf("GpuTable", a) IN
           /\ LastFreq(word, head) = GpuKhz(GpuNew(soc)) /\ Ascending(word, head)
           /\ DriverFreqs(head) = GpuKhzList
<1> DEFINE n == GpuNew(soc)
           m == RowSize * n
           head == HeadOf("GpuTable", a)
<1>1. PICK rows :
          /\ GpuFreqCvbTable(soc, cust, a) = PutTable(TableHead(a, GpuOld(soc)), rows)
          /\ Len(rows) = GpuNew(soc)
          /\ \A i \in 1..GpuNew(soc) : IsRow(rows[i], GpuKhz(i))
  BY GpuRowsAre
<1>2. n \in Nat /\ n >= 1 /\ n <= 17 /\ m \in Int /\ GpuOld(soc) \in Int
  BY Counts DEF RowSize
<1>3. head = TableHead(a, GpuOld(soc)) /\ EndOf("GpuTable", a) = TableHead(a, GpuOld(soc)) + m
  BY Ends
<1>4. head \in Int
  BY <1>2, <1>3 DEF TableHead, RowSize
<1>5. Writes(soc, cust, nso.word, "GpuTable", a) = PutTable(head, rows)
  <2>1. Writes(soc, cust, nso.word, "GpuTable", a) = GpuFreqCvbTable(soc, cust, a)
    BY Zenon DEF Writes
  <2> QED
    BY <1>1, <1>3, <2>1, Zenon
<1>6. /\ \A i \in 1..n : /\ rows[i][1] = GpuKhzList[i]
                         /\ GpuKhzList[i] \in Int /\ GpuKhzList[i] # 0
      /\ \A i \in 1..(n - 1) : GpuKhzList[i] < GpuKhzList[i + 1]
  <2>1. \A i \in 1..n : GpuKhzList[i] = GpuKhz(i) /\ i \in 1..17
    BY <1>2 DEF GpuKhzList
  <2>2. \A i \in 1..n : rows[i][1] = GpuKhz(i)
    BY <1>1 DEF IsRow
  <2>3. \A i \in 1..n : GpuKhz(i) \in Int /\ GpuKhz(i) # 0
    BY <2>1, GpuKhzIs
  <2>4. \A i \in 1..(n - 1) : i \in 1..16 /\ i \in 1..n /\ i + 1 \in 1..n
    BY <1>2
  <2>5. \A i \in 1..(n - 1) : GpuKhz(i) < GpuKhz(i + 1)
    BY <2>4, GpuKhzAscends
  <2> QED
    BY <2>1, <2>2, <2>3, <2>4, <2>5
<1>7. Len(rows) = n
  BY <1>1
<1> HIDE DEF head, m, n
<1>8. EndOf("GpuTable", a) = head + m /\ m = RowSize * n
  BY <1>3 DEF m, n
<1>9. IsRewritten("GpuTable", a, head, n, rows, GpuKhzList)
  BY <1>2, <1>4, <1>5, <1>6, <1>7, <1>8 DEF IsRewritten, head
<1>10. /\ LastFreq(word, head) = GpuKhzList[n] /\ Ascending(word, head)
       /\ DriverFreqs(head) = [i \in 1..n |-> GpuKhzList[i]]
  <2>1. "GpuTable" \in {"CpuTable", "GpuTable"}
    OBVIOUS
  <2> QED
    BY <1>9, <2>1, NewTable, SMTT(30)
<1>11. GpuKhzList[n] = GpuKhz(n)
  BY <1>2 DEF GpuKhzList, n
<1>12. [i \in 1..n |-> GpuKhzList[i]] = GpuKhzList
  BY DEF n, GpuKhzList
<1> QED
  BY <1>10, <1>11, <1>12 DEF head, n

(* The clock of the voltage rail.                                          *)
LEMMA CpuVddRead ==
    ASSUME soc \in Socs, NEW a \in Int, Alone("CpuVdd", a)
    PROVE  At(word, a) = CpuKhz(CpuNew(soc, cust))
<1> DEFINE F == Writes(soc, cust, nso.word, "CpuVdd", a)
           v == GetDvfsTableLastEntry(CpuCustomize(soc, cust).freqs)
<1>1. F = Put(a, <<v>>)
  BY Zenon DEF Writes
<1>2. v = CpuKhz(CpuNew(soc, cust))
  BY LastEntries
<1> HIDE DEF F, v
<1>3. a \in DOMAIN F /\ F[a] = v
  BY <1>1, PutOne
<1>4. a \in Structure("CpuVdd", a)
  BY DEF Structure
<1> QED
  BY <1>2, <1>3, <1>4, Zenon DEF Alone, F

(* An instruction holds the half of the clock, and the register, it was    *)
(* made with.                                                              *)
LEMMA AsmSet ==
    ASSUME NEW x \in {asm_pattern[1], asm_pattern[2]}, NEW imm \in Int, 0 <= imm, imm < 65536,
           NEW rd \in 0..31
    PROVE  asm_imm16(asm_set(x, imm, rd)) = imm /\ asm_get_rd(asm_set(x, imm, rd)) = rd
<1>1. CASE x = 1384251392
  <2>1. asm_set(x, imm, rd) = 32 * (43253760 + imm) + rd
    BY <1>1 DEF asm_set, asm_imm16, asm_get_rd
  <2>2. (32 * (43253760 + imm) + rd) \div 32 = 43253760 + imm /\ (32 * (43253760 + imm) + rd) % 32 = rd
    OBVIOUS
  <2>3. (43253760 + imm) % 65536 = imm
    OBVIOUS
  <2> QED
    BY <2>1, <2>2, <2>3 DEF asm_imm16, asm_get_rd
<1>2. CASE x = 1923088832
  <2>1. asm_set(x, imm, rd) = 32 * (60096512 + imm) + rd
    BY <1>2 DEF asm_set, asm_imm16, asm_get_rd
  <2>2. (32 * (60096512 + imm) + rd) \div 32 = 60096512 + imm /\ (32 * (60096512 + imm) + rd) % 32 = rd
    OBVIOUS
  <2>3. (60096512 + imm) % 65536 = imm
    OBVIOUS
  <2> QED
    BY <2>1, <2>2, <2>3 DEF asm_imm16, asm_get_rd
<1> QED
  BY <1>1, <1>2 DEF asm_pattern

(* The instructions that load the highest GPU clock.                       *)
LEMMA GpuAsmRead ==
    ASSUME soc \in Socs, NEW a \in Int, Alone("GpuAsm", a), At(nso.word, a) \in Int
    PROVE  /\ asm_imm16(At(word, a)) + 65536 * asm_imm16(At(word, a + 1)) = GpuKhz(GpuNew(soc))
           /\ asm_get_rd(At(word, a)) = asm_get_rd(At(nso.word, a))
           /\ asm_get_rd(At(word, a + 1)) = asm_get_rd(At(nso.word, a))
<1> DEFINE F == Writes(soc, cust, nso.word, "GpuAsm", a)
           max == GetDvfsTableLastEntry(GpuCustomize(soc, cust).freqs)
           low == max % 65536
           high == max \div 65536
           rd == asm_get_rd(At(nso.word, a))
           w1 == asm_set(asm_pattern[1], low, rd)
           w2 == asm_set(asm_pattern[2], high, rd)
<1>1. F = Put(a, <<w1, w2>>)
  <2>1. F = GpuFreqMaxAsm(soc, cust, nso.word, a)
    BY Zenon DEF Writes
  <2>2. GpuFreqMaxAsm(soc, cust, nso.word, a) = Put(a, <<w1, w2>>)
    <3> HIDE DEF F
    <3> QED
      BY DEF GpuFreqMaxAsm
  <2> QED
    BY <2>1, <2>2
<1>2. max = GpuKhz(GpuNew(soc)) /\ max \in Int /\ 0 <= max /\ max <= 1267200
  <2>1. GpuNew(soc) \in 1..17
    BY Counts
  <2>2. max = GpuKhz(GpuNew(soc))
    BY LastEntries
  <2> QED
    BY <2>1, <2>2, GpuKhzIs
<1>3. rd \in 0..31
  BY DEF asm_get_rd
<1> HIDE DEF max
<1>4. /\ low \in Int /\ 0 <= low /\ low < 65536 /\ high \in Int /\ 0 <= high /\ high < 65536
      /\ low + 65536 * high = max
  BY <1>2
<1> HIDE DEF F, low, high, rd
<1>5. asm_imm16(w1) = low /\ asm_get_rd(w1) = rd /\ asm_imm16(w2) = high /\ asm_get_rd(w2) = rd
  BY <1>3, <1>4, AsmSet
<1> HIDE DEF w1, w2
<1>6. a \in DOMAIN F /\ F[a] = w1 /\ a + 1 \in DOMAIN F /\ F[a + 1] = w2
  BY <1>1 DEF Put
<1>7. a \in Structure("GpuAsm", a) /\ a + 1 \in Structure("GpuAsm", a)
  BY DEF Structure
<1>8. At(word, a) = w1 /\ At(word, a + 1) = w2
  BY <1>6, <1>7, Zenon DEF Alone, F
<1> QED
  BY <1>2, <1>4, <1>5, <1>8 DEF rd

(* For every image laid out as a driver is, and every customisation: the   *)
(* places that name the highest clock of a unit agree in an accepted       *)
(* image, and the tables ascend to it.                                     *)
THEOREM TablesEndTogether == BootSpec => [](LaidOut => TablesAgree)
<1>1. LaidInv => (LaidOut => TablesAgree)
  <2> SUFFICES ASSUME LaidInv, LaidOut PROVE TablesAgree
    OBVIOUS
  <2>0. "CpuTable" \in Structured /\ "GpuTable" \in Structured
        /\ "CpuVdd" \in Structured /\ "GpuAsm" \in Structured
    BY DEF Structured
  <2>1. ASSUME NEW a \in patched["CpuTable"]
        PROVE  /\ LastFreq(word, HeadOf("CpuTable", a)) = CpuKhz(CpuNew(soc, cust))
               /\ Ascending(word, HeadOf("CpuTable", a))
    <3>1. Alone("CpuTable", a) /\ a \in Int /\ soc \in Socs /\ cust \in CustomizeTable
      BY <2>0, FoundAlone
    <3>2. Holds(nso.word, EndOf("CpuTable", a), <<0, 0, 0, 0>>)
      BY DEF LaidOut
    <3> QED
      BY <3>1, <3>2, CpuTableRead
  <2>2. ASSUME NEW a \in patched["GpuTable"]
        PROVE  /\ LastFreq(word, HeadOf("GpuTable", a)) = GpuKhz(GpuNew(soc))
               /\ Ascending(word, HeadOf("GpuTable", a))
    <3>1. Alone("GpuTable", a) /\ a \in Int /\ soc \in Socs /\ cust \in CustomizeTable
      BY <2>0, FoundAlone
    <3>2. Holds(nso.word, EndOf("GpuTable", a), <<0, 0, 0, 0>>)
      BY DEF LaidOut
    <3> QED
      BY <3>1, <3>2, GpuTableRead
  <2>3. ASSUME NEW a \in patched["CpuVdd"] PROVE word[a] = CpuKhz(CpuNew(soc, cust))
    <3>1. Alone("CpuVdd", a) /\ a \in Int /\ a \in DOMAIN word /\ soc \in Socs
      BY <2>0, FoundAlone
    <3> QED
      BY <3>1, CpuVddRead DEF At
  <2>4. ASSUME NEW a \in patched["GpuAsm"]
        PROVE  /\ asm_imm16(word[a]) + 65536 * asm_imm16(word[a + 1]) = GpuKhz(GpuNew(soc))
               /\ asm_get_rd(word[a]) = asm_get_rd(nso.word[a])
               /\ asm_get_rd(word[a + 1]) = asm_get_rd(nso.word[a])
    <3>1. /\ Alone("GpuAsm", a) /\ a \in Int /\ a \in DOMAIN word /\ soc \in Socs /\ nso \in Nsos
          /\ DOMAIN word = DOMAIN nso.word /\ Structure("GpuAsm", a) \subseteq DOMAIN nso.word
      BY <2>0, FoundAlone
    <3>2. a + 1 \in Structure("GpuAsm", a)
      BY DEF Structure
    <3>3. At(word, a) = word[a] /\ At(word, a + 1) = word[a + 1] /\ At(nso.word, a) = nso.word[a]
      BY <3>1, <3>2, Zenon DEF At
    <3>4. nso.word[a] \in Int
      BY <3>1, ImageFacts
    <3> QED
      BY <3>1, <3>3, <3>4, GpuAsmRead
  <2>5. \A p \in {"CpuTable", "GpuTable"} : \A a \in patched[p] : Ascending(word, HeadOf(p, a))
    BY <2>1, <2>2
  <2>6. \A a \in patched["CpuVdd"] : \A b \in patched["CpuTable"] :
            word[a] = LastFreq(word, HeadOf("CpuTable", b))
    BY <2>1, <2>3
  <2>7. \A a \in patched["GpuAsm"] : \A b \in patched["GpuTable"] :
            /\ asm_imm16(word[a]) + 65536 * asm_imm16(word[a + 1]) = LastFreq(word, HeadOf("GpuTable", b))
            /\ asm_get_rd(word[a]) = asm_get_rd(nso.word[a])
            /\ asm_get_rd(word[a + 1]) = asm_get_rd(nso.word[a])
    BY <2>2, <2>4
  <2> QED
    BY <2>5, <2>6, <2>7, SMT DEF TablesAgree
<1> QED
  BY <1>1, LaidInvInit, LaidInvStep, PTL DEF BootSpec

-----------------------------------------------------------------------------
(***************************************************************************)
(* The registers of an overclocked table.                                  *)
(***************************************************************************)
Rate(clk) == clk \in Int /\ 16000 <= clk /\ clk <= 28000
Time(t, lo, hi) == t \in Int /\ lo <= t /\ t <= hi

LEMMA PresetIs ==
    ASSUME NEW p \in Presets
    PROVE  /\ p[1] \in 0..6 /\ p[2] \in 0..5 /\ p[3] \in 0..6 /\ p[4] \in 0..6
           /\ p[5] \in 0..6 /\ p[6] \in 0..5 /\ p[7] \in 0..6
<1>1. \A k \in 1..7 : p[k] \in 0..6 /\ p[k] <= PresetSizes[k]
  BY DEF Presets
<1>2. PresetSizes[2] = 5 /\ PresetSizes[6] = 5
  BY DEF PresetSizes
<1> QED
  BY <1>1, <1>2

LEMMA Times ==
    ASSUME NEW p \in Presets
    PROVE  /\ Time(tRCD(p), 1300, 1800) /\ Time(tRPpb(p), 1300, 1800) /\ Time(tRAS(p), 3000, 4200)
           /\ Time(tRPab(p), 1600, 2100) /\ Time(tRC(p), 4300, 6000)
           /\ Time(tRRD(p), 300, 1000) /\ Time(tFAW(p), 1200, 4000)
           /\ Time(tWR(p), 800, 1800) /\ Time(tRTP(p), 400, 750)
           /\ Time(tRFCpb(p), 6000, 14000) /\ Time(tRFCab(p), 12000, 28000)
           /\ Time(tXSR(p), 12750, 28750) /\ Time(tWTR(p), 100, 1000)
           /\ Time(tREFpb(p), 488, 9999)
           /\ Time(WL(p), 2, 14) /\ Time(RL(p), 8, 32) /\ Time(RL(p) - WL(p), 6, 18)
<1> USE DEF Time
<1>0. /\ p[1] \in 0..6 /\ p[2] \in 0..5 /\ p[3] \in 0..6 /\ p[4] \in 0..6
      /\ p[5] \in 0..6 /\ p[6] \in 0..5 /\ p[7] \in 0..6
  BY PresetIs
<1>1. Time(tRCD(p), 1300, 1800) /\ Time(tRPpb(p), 1300, 1800)
  BY <1>0, SMT DEF tRCD, tRPpb, Choose1
<1>2. Time(tRAS(p), 3000, 4200)
  BY <1>0, SMT DEF tRAS, Choose1
<1>3. Time(tRPab(p), 1600, 2100) /\ Time(tRC(p), 4300, 6000)
  BY <1>1, <1>2 DEF tRPab, tRC
<1>4. Time(tRRD(p), 300, 1000)
  BY <1>0, SMT DEF tRRD, Choose1
<1>5. Time(tFAW(p), 1200, 4000)
  BY <1>0, SMT DEF tFAW, Choose1
<1>6. Time(tWR(p), 800, 1800)
  BY <1>0, SMT DEF tWR, Choose1
<1>7. Time(tRTP(p), 400, 750)
  BY <1>0, SMT DEF tRTP, Choose1
<1>8. Time(tRFCpb(p), 6000, 14000)
  BY <1>0, SMT DEF tRFCpb, Choose1
<1>9. Time(tRFCab(p), 12000, 28000) /\ Time(tXSR(p), 12750, 28750)
  BY <1>8 DEF tRFCab, tXSR
<1>10. Time(tWTR(p), 100, 1000)
  BY <1>0, SMT DEF tWTR, Choose1
<1>11. Time(tREFpb(p), 488, 9999)
  BY <1>0, SMT DEF tREFpb, Choose1
<1>12. Time(WL(p), 2, 14) /\ Time(RL(p), 8, 32) /\ Time(RL(p) - WL(p), 6, 18)
  BY <1>0 DEF WL, RL
<1> HIDE DEF Time
<1> QED
  BY <1>1, <1>2, <1>3, <1>4, <1>5, <1>6, <1>7, <1>8, <1>9, <1>10, <1>11, <1>12

(* A time in hundredths of a nanosecond, in cycles.                        *)
LEMMA CyclesAre ==
    ASSUME NEW clk, Rate(clk), NEW t \in Int, 0 <= t
    PROVE  /\ Cycles(clk, t) \in Int
           /\ 16 * t <= 1000 * Cycles(clk, t)
           /\ 1000 * Cycles(clk, t) <= 28 * t + 999
<1> DEFINE x == t * clk
           c == Cycles(clk, t)
<1>1. clk \in Int /\ 16000 <= clk /\ clk <= 28000
  BY DEF Rate
<1>2. x \in Int /\ 16000 * t <= x /\ x <= 28000 * t
  BY <1>1
<1>3. c = -((-x) \div 1000000)
  BY DEF Cycles, CeilDiv
<1> HIDE DEF x
<1>4. c \in Int /\ 1000000 * c >= x /\ 1000000 * (c - 1) < x
  BY <1>2, <1>3
<1> HIDE DEF c
<1>5. 16000 * t <= 1000000 * c /\ 1000000 * c < 28000 * t + 1000000
  BY <1>2, <1>4
<1> QED
  BY <1>4, <1>5 DEF c

(* The cycles of the times.                                                *)
LEMMA CyclesOfTimes ==
    ASSUME NEW clk, Rate(clk), NEW p \in Presets
    PROVE  /\ Time(Cycles(clk, tRCD(p)), 21, 51) /\ Time(Cycles(clk, tRPpb(p)), 21, 51)
           /\ Time(Cycles(clk, tRAS(p)), 48, 118) /\ Time(Cycles(clk, tRPab(p)), 26, 59)
           /\ Time(Cycles(clk, tRC(p)), 69, 168) /\ Time(Cycles(clk, tRRD(p)), 5, 28)
           /\ Time(Cycles(clk, tFAW(p)), 20, 112) /\ Time(Cycles(clk, tWR(p)), 13, 51)
           /\ Time(Cycles(clk, tRTP(p)), 7, 21) /\ Time(Cycles(clk, tRFCpb(p)), 96, 392)
           /\ Time(Cycles(clk, tRFCab(p)), 192, 784) /\ Time(Cycles(clk, tXSR(p)), 204, 805)
           /\ Time(Cycles(clk, tWTR(p)), 2, 28)
           /\ Time(Cycles(clk, tXP + tRCD(p)), 37, 79)
<1>2. Time(Cycles(clk, tRCD(p)), 21, 51)
  <2>1. Time(tRCD(p), 1300, 1800)
    BY Times
  <2> QED
    BY CyclesAre, <2>1 DEF Time
<1>3. Time(Cycles(clk, tRPpb(p)), 21, 51)
  <2>1. Time(tRPpb(p), 1300, 1800)
    BY Times
  <2> QED
    BY CyclesAre, <2>1 DEF Time
<1>4. Time(Cycles(clk, tRAS(p)), 48, 118)
  <2>1. Time(tRAS(p), 3000, 4200)
    BY Times
  <2> QED
    BY CyclesAre, <2>1 DEF Time
<1>5. Time(Cycles(clk, tRPab(p)), 26, 59)
  <2>1. Time(tRPab(p), 1600, 2100)
    BY Times
  <2> QED
    BY CyclesAre, <2>1 DEF Time
<1>6. Time(Cycles(clk, tRC(p)), 69, 168)
  <2>1. Time(tRC(p), 4300, 6000)
    BY Times
  <2> QED
    BY CyclesAre, <2>1 DEF Time
<1>7. Time(Cycles(clk, tRRD(p)), 5, 28)
  <2>1. Time(tRRD(p), 300, 1000)
    BY Times
  <2> QED
    BY CyclesAre, <2>1 DEF Time
<1>8. Time(Cycles(clk, tFAW(p)), 20, 112)
  <2>1. Time(tFAW(p), 1200, 4000)
    BY Times
  <2> QED
    BY CyclesAre, <2>1 DEF Time
<1>9. Time(Cycles(clk, tWR(p)), 13, 51)
  <2>1. Time(tWR(p), 800, 1800)
    BY Times
  <2> QED
    BY CyclesAre, <2>1 DEF Time
<1>10. Time(Cycles(clk, tRTP(p)), 7, 21)
  <2>1. Time(tRTP(p), 400, 750)
    BY Times
  <2> QED
    BY CyclesAre, <2>1 DEF Time
<1>11. Time(Cycles(clk, tRFCpb(p)), 96, 392)
  <2>1. Time(tRFCpb(p), 6000, 14000)
    BY Times
  <2> QED
    BY CyclesAre, <2>1 DEF Time
<1>12. Time(Cycles(clk, tRFCab(p)), 192, 784)
  <2>1. Time(tRFCab(p), 12000, 28000)
    BY Times
  <2> QED
    BY CyclesAre, <2>1 DEF Time
<1>13. Time(Cycles(clk, tXSR(p)), 204, 805)
  <2>1. Time(tXSR(p), 12750, 28750)
    BY Times
  <2> QED
    BY CyclesAre, <2>1 DEF Time
<1>14. Time(Cycles(clk, tWTR(p)), 2, 28)
  <2>1. Time(tWTR(p), 100, 1000)
    BY Times
  <2> QED
    BY CyclesAre, <2>1, SMTT(30) DEF Time
<1>15. Time(Cycles(clk, tXP + tRCD(p)), 37, 79)
  <2>1. Time(tXP + tRCD(p), 2300, 2800)
    BY Times DEF Time, tXP
  <2> QED
    BY CyclesAre, <2>1 DEF Time
<1> QED
  BY <1>2, <1>3, <1>4, <1>5, <1>6, <1>7, <1>8, <1>9, <1>10, <1>11, <1>12, <1>13, <1>14, <1>15

(* Registers that an arbiter can hold, and registers that are computed.    *)
Fine(f) == \A r \in DOMAIN f : f[r] \in Nat /\ (r \in ArbiterDelays => f[r] < 128)
Made(f) == Fine(f) /\ \A r \in DOMAIN f : r \notin MayBeZero => f[r] # 0

(* Nothing became 0 that was not.                                          *)
NoNewZero(f, old) ==
    \A r \in DOMAIN f : r \notin MayBeZero /\ f[r] = 0 => r \in DOMAIN old /\ old[r] = 0

LEMMA OverKeeps ==
    ASSUME NEW f, NEW g
    PROVE  /\ DOMAIN f \subseteq DOMAIN Over(f, g) /\ DOMAIN g \subseteq DOMAIN Over(f, g)
           /\ \A r \in DOMAIN f : Over(f, g)[r] = f[r]
           /\ \A r \in DOMAIN g : r \notin DOMAIN f => Over(f, g)[r] = g[r]
BY DEF Over

LEMMA FineOver ==
    ASSUME NEW f, NEW g, Fine(f), Fine(g)
    PROVE  Fine(Over(f, g))
<1> SUFFICES ASSUME NEW r \in DOMAIN Over(f, g)
             PROVE  Over(f, g)[r] \in Nat /\ (r \in ArbiterDelays => Over(f, g)[r] < 128)
  BY DEF Fine
<1>1. /\ r \in DOMAIN f => Over(f, g)[r] = f[r]
      /\ r \in DOMAIN g /\ r \notin DOMAIN f => Over(f, g)[r] = g[r]
  BY SMT DEF Over
<1>2. r \in DOMAIN f \/ r \in DOMAIN g
  BY OverDomain
<1> QED
  BY <1>1, <1>2 DEF Fine

LEMMA MadeOver ==
    ASSUME NEW f, NEW g, Made(f), Made(g)
    PROVE  Made(Over(f, g))
<1>1. Fine(Over(f, g))
  BY FineOver DEF Made
<1>2. ASSUME NEW r \in DOMAIN Over(f, g), r \notin MayBeZero
      PROVE  Over(f, g)[r] # 0
  <2>1. /\ r \in DOMAIN f => Over(f, g)[r] = f[r]
        /\ r \in DOMAIN g /\ r \notin DOMAIN f => Over(f, g)[r] = g[r]
    BY SMT DEF Over
  <2>2. r \in DOMAIN f \/ r \in DOMAIN g
    BY OverDomain
  <2> QED
    BY <1>2, <2>1, <2>2, Zenon DEF Made
<1> QED
  BY <1>1, <1>2, Zenon DEF Made

LEMMA NoNewZeroOver ==
    ASSUME NEW f, NEW g, NEW old, NoNewZero(f, old), NoNewZero(g, old)
    PROVE  NoNewZero(Over(f, g), old)
<1> SUFFICES ASSUME NEW r \in DOMAIN Over(f, g), r \notin MayBeZero, Over(f, g)[r] = 0
             PROVE  r \in DOMAIN old /\ old[r] = 0
  BY Zenon DEF NoNewZero
<1>1. /\ r \in DOMAIN f => Over(f, g)[r] = f[r]
      /\ r \in DOMAIN g /\ r \notin DOMAIN f => Over(f, g)[r] = g[r]
  BY SMT DEF Over
<1>2. r \in DOMAIN f \/ r \in DOMAIN g
  BY OverDomain
<1> QED
  BY <1>1, <1>2, Zenon DEF NoNewZero

LEMMA MadeNoNewZero ==
    ASSUME NEW f, NEW old, Made(f)
    PROVE  NoNewZero(f, old)
BY Zenon DEF Made, NoNewZero

LEMMA FineFirmware ==
    ASSUME NEW s, NEW f, FirmwareTimings(s, f)
    PROVE  Fine(f)
BY DEF Fine, FirmwareTimings

LEMMA CyclesNat ==
    ASSUME NEW clk, Rate(clk), NEW t \in Nat, t > 0
    PROVE  Cycles(clk, t) \in Nat /\ Cycles(clk, t) > 0
<1>1. t \in Int /\ 0 <= t
  OBVIOUS
<1> QED
  BY <1>1, CyclesAre

LEMMA FineOne ==
    ASSUME NEW clk, Rate(clk), NEW p \in Presets
    PROVE  Made(PresetOne(clk, p))
<1>1. /\ Time(Cycles(clk, tRCD(p)), 21, 51) /\ Time(Cycles(clk, tRPpb(p)), 21, 51)
      /\ Time(Cycles(clk, tRAS(p)), 48, 118) /\ Time(Cycles(clk, tRPab(p)), 26, 59)
      /\ Time(Cycles(clk, tRC(p)), 69, 168) /\ Time(Cycles(clk, tXP + tRCD(p)), 37, 79)
  BY CyclesOfTimes
<1> QED
  BY <1>1 DEF Made, Fine, PresetOne, ArbiterDelays, Arb, Time

LEMMA FineTwo ==
    ASSUME NEW clk, Rate(clk), NEW p \in Presets
    PROVE  Made(PresetTwo(clk, p))
<1>1. Time(Cycles(clk, tRRD(p)), 5, 28) /\ Time(Cycles(clk, tFAW(p)), 20, 112)
  BY CyclesOfTimes
<1> QED
  BY <1>1 DEF Made, Fine, PresetTwo, ArbiterDelays, Arb, Time, MayBeZero

LEMMA FineFour ==
    ASSUME NEW clk, Rate(clk), NEW p \in Presets
    PROVE  Made(PresetFour(clk, p))
<1>1. /\ Time(Cycles(clk, tRFCab(p)), 192, 784) /\ Time(Cycles(clk, tRFCpb(p)), 96, 392)
      /\ Time(Cycles(clk, tXSR(p)), 204, 805)
  BY CyclesOfTimes
<1> QED
  BY <1>1 DEF Made, Fine, PresetFour, ArbiterDelays, Arb, Time, Least

(* The turns between reading, writing and precharging.                     *)
LEMMA TurnTimes ==
    ASSUME NEW clk, Rate(clk), NEW p \in Presets, NEW s \in Socs
    PROVE  /\ Time(WTP(s, clk, p), 16, 74) /\ Time(W2R(s, clk, p), 7, 51)
           /\ Time(R2W(s, clk, p), 16, 44)
           /\ WTPDEN(s, clk, p) \in Nat \ {0}
           /\ RTM(clk, p) \in Nat \ {0} /\ WTM(clk, p) \in Nat \ {0}
           /\ RATM(clk, p) \in Nat \ {0} /\ WATM(clk, p) \in Nat \ {0}
<1>1. /\ Time(WL(p), 2, 14) /\ Time(RL(p), 8, 32) /\ Time(RL(p) - WL(p), 6, 18)
      /\ Time(Cycles(clk, tWR(p)), 13, 51) /\ Time(Cycles(clk, tWTR(p)), 2, 28)
      /\ Time(Cycles(clk, tRTP(p)), 7, 21)
  BY Times, CyclesOfTimes
<1>2. /\ Cycles(clk, tDQSCK_max) \in Nat /\ Cycles(clk, 125) \in Nat /\ Cycles(clk, 80) \in Nat
      /\ Cycles(clk, 750) \in Nat
  BY CyclesNat DEF tDQSCK_max
<1>8. Cycles(clk, tDQSCK_max) <= 10
  <2>1. 350 \in Int /\ 0 <= 350
    OBVIOUS
  <2>2. Cycles(clk, 350) \in Int /\ 1000 * Cycles(clk, 350) <= 28 * 350 + 999
    BY <2>1, CyclesAre
  <2>3. Cycles(clk, 350) <= 10
    BY <2>2
  <2> QED
    BY <2>3 DEF tDQSCK_max
<1>3. Time(WTP(s, clk, p), 16, 74) /\ Time(W2R(s, clk, p), 7, 51)
  BY <1>1 DEF WTP, W2R, Time
<1>4. Time(R2W(s, clk, p), 16, 44)
  BY <1>1, <1>2, <1>8 DEF R2W, Time
<1>5. WTPDEN(s, clk, p) \in Nat \ {0}
  BY <1>2, <1>3 DEF WTPDEN, Time
<1>6. RTM(clk, p) \in Nat \ {0} /\ WTM(clk, p) \in Nat \ {0}
  BY <1>1, <1>2 DEF RTM, WTM, Time
<1>7. RATM(clk, p) \in Nat \ {0} /\ WATM(clk, p) \in Nat \ {0}
  BY <1>1, <1>2 DEF RATM, RTM, WATM, WTM, Time
<1> QED
  BY <1>3, <1>4, <1>5, <1>6, <1>7

LEMMA FineThree ==
    ASSUME NEW clk, Rate(clk), NEW p \in Presets, NEW s \in Socs
    PROVE  Made(PresetThree(s, clk, p))
<1>1. /\ Time(WTP(s, clk, p), 16, 74) /\ WTPDEN(s, clk, p) \in Nat \ {0}
      /\ RATM(clk, p) \in Nat \ {0} /\ WATM(clk, p) \in Nat \ {0}
      /\ Time(Cycles(clk, tRTP(p)), 7, 21)
  BY TurnTimes, CyclesOfTimes
<1> QED
  BY <1>1 DEF Made, Fine, PresetThree, ArbiterDelays, Arb, Time

LEMMA FineFive ==
    ASSUME NEW clk, Rate(clk), NEW p \in Presets, NEW s \in Socs
    PROVE  Made(PresetFive(s, clk, p))
<1>1. Time(W2R(s, clk, p), 7, 51)
  BY TurnTimes
<1> QED
  BY <1>1 DEF Made, Fine, PresetFive, ArbiterDelays, Arb, Time

LEMMA FineSeven ==
    ASSUME NEW clk, Rate(clk), NEW p \in Presets, NEW s \in Socs
    PROVE  Made(PresetSeven(s, clk, p))
<1>1. /\ Time(WTP(s, clk, p), 16, 74) /\ Time(W2R(s, clk, p), 7, 51)
      /\ Time(R2W(s, clk, p), 16, 44)
      /\ WTPDEN(s, clk, p) \in Nat \ {0}
      /\ RTM(clk, p) \in Nat \ {0} /\ WTM(clk, p) \in Nat \ {0}
      /\ RATM(clk, p) \in Nat \ {0} /\ WATM(clk, p) \in Nat \ {0}
  BY TurnTimes
<1> QED
  BY <1>1 DEF Made, Fine, PresetSeven, ArbiterDelays, Arb, Time

(* The refresh interval.                                                   *)
LEMMA FineSix ==
    ASSUME NEW clk, Rate(clk), NEW p \in Presets
    PROVE  Made(PresetSix(clk, p))
<1> DEFINE x == tREFpb(p) * clk
           high == x \div 163840
           low == x % 163840
           over == CeilDiv(low * 131, 163840)
           interval == high * 131 + over - 64
           refresh == Least(65472, (interval \div 4) * 4)
<1>1. Time(tREFpb(p), 488, 9999)
  BY Times
<1>2. x \in Int /\ 7808000 <= x
  <2>1. tREFpb(p) \in Int /\ 488 <= tREFpb(p) /\ clk \in Int /\ 16000 <= clk
    BY <1>1 DEF Time, Rate
  <2>2. 488 * clk <= tREFpb(p) * clk
    BY <2>1
  <2> QED
    BY <2>1, <2>2
<1> HIDE DEF x
<1>3. high \in Int /\ high >= 47 /\ low \in Int /\ 0 <= low
  BY <1>2
<1> HIDE DEF high, low
<1>4. over \in Int /\ over >= 0
  BY <1>3 DEF CeilDiv
<1> HIDE DEF over
<1>5. interval \in Int /\ interval >= 6000
  BY <1>3, <1>4
<1> HIDE DEF interval
<1>6. refresh \in Nat /\ refresh >= 4
  BY <1>5 DEF Least
<1>7. REFRESH(clk, p) = refresh
  BY DEF REFRESH, refresh, interval, over, high, low, x
<1> HIDE DEF refresh
<1>8. REFBW(clk, p) \in Nat \ {0}
  BY <1>6, <1>7 DEF REFBW, Least
<1> QED
  BY <1>6, <1>7, <1>8 DEF Made, Fine, PresetSix, ArbiterDelays

LEMMA FineFixed ==
    ASSUME NEW clk, Rate(clk), NEW s \in Socs
    PROVE  Made(FixedTimes(s, clk)) /\ Made(EristaOnly(clk))
<1>1. /\ Cycles(clk, tXP) \in Nat \ {0} /\ Cycles(clk, 175) \in Nat \ {0}
      /\ Cycles(clk, 1400) \in Nat \ {0} /\ Cycles(clk, 500) \in Nat \ {0}
      /\ Cycles(clk, tCKE) \in Nat \ {0} /\ Cycles(clk, tSR) \in Nat \ {0}
  BY CyclesNat DEF tXP, tCKE, tSR
<1>2. Made(FixedTimes(s, clk))
  BY <1>1 DEF Made, Fine, FixedTimes, ArbiterDelays
<1>3. Made(EristaOnly(clk))
  BY <1>1 DEF Made, Fine, EristaOnly, tCSCKEH, tCKCKEH, ArbiterDelays
<1> QED
  BY <1>2, <1>3

LEMMA FineAll ==
    ASSUME NEW clk, Rate(clk), NEW p \in Presets, NEW s \in Socs
    PROVE  Made(AllPresets(s, clk, p))
<1>1. Made(Over(PresetSeven(s, clk, p), FixedTimes(s, clk)))
  BY FineSeven, FineFixed, MadeOver
<1> DEFINE f6 == Over(PresetSix(clk, p), Over(PresetSeven(s, clk, p), FixedTimes(s, clk)))
<1>2. Made(f6)
  BY <1>1, FineSix, MadeOver
<1> DEFINE f5 == Over(PresetFive(s, clk, p), f6)
<1> HIDE DEF f6
<1>3. Made(f5)
  BY <1>2, FineFive, MadeOver
<1> DEFINE f4 == Over(PresetFour(clk, p), f5)
<1> HIDE DEF f5
<1>4. Made(f4)
  BY <1>3, FineFour, MadeOver
<1> DEFINE f3 == Over(PresetThree(s, clk, p), f4)
<1> HIDE DEF f4
<1>5. Made(f3)
  BY <1>4, FineThree, MadeOver
<1> DEFINE f2 == Over(PresetTwo(clk, p), f3)
<1> HIDE DEF f3
<1>6. Made(f2)
  BY <1>5, FineTwo, MadeOver
<1> HIDE DEF f2
<1>7. Made(Over(PresetOne(clk, p), f2))
  BY <1>6, FineOne, MadeOver
<1> QED
  BY <1>7, Zenon DEF AllPresets, f2, f3, f4, f5, f6

(* The registers from which the turns and covers are derived are computed. *)
LEMMA AllSources ==
    ASSUME NEW clk, NEW p, NEW s
    PROVE  ArbiterDelays \subseteq DOMAIN AllPresets(s, clk, p)
<1> DEFINE f1 == PresetOne(clk, p)
           f3 == PresetThree(s, clk, p)
           f7 == PresetSeven(s, clk, p)
<1>1. {"mc_rc", "mc_rp", "mc_rcd"} \subseteq DOMAIN f1
  BY DEF PresetOne
<1>2. {"mc_rap2pre", "mc_wap2pre"} \subseteq DOMAIN f3
  BY DEF PresetThree
<1>3. {"mc_r2w", "mc_w2r"} \subseteq DOMAIN f7
  BY DEF PresetSeven
<1> DEFINE g7 == Over(f7, FixedTimes(s, clk))
           g6 == Over(PresetSix(clk, p), g7)
           g5 == Over(PresetFive(s, clk, p), g6)
           g4 == Over(PresetFour(clk, p), g5)
           g3 == Over(f3, g4)
           g2 == Over(PresetTwo(clk, p), g3)
<1> HIDE DEF f1, f3, f7
<1>4. DOMAIN f7 \subseteq DOMAIN g7
  BY OverKeeps, Zenon
<1> HIDE DEF g7
<1>5. DOMAIN g7 \subseteq DOMAIN g6
  BY OverKeeps, Zenon
<1> HIDE DEF g6
<1>11. DOMAIN g6 \subseteq DOMAIN g5
  BY OverKeeps, Zenon
<1> HIDE DEF g5
<1>6. DOMAIN g5 \subseteq DOMAIN g4
  BY OverKeeps, Zenon
<1> HIDE DEF g4
<1>7. DOMAIN f3 \subseteq DOMAIN g3 /\ DOMAIN g4 \subseteq DOMAIN g3
  BY OverKeeps, Zenon
<1> HIDE DEF g3
<1>8. DOMAIN g3 \subseteq DOMAIN g2
  BY OverKeeps, Zenon
<1> HIDE DEF g2
<1>9. DOMAIN f1 \subseteq DOMAIN Over(f1, g2) /\ DOMAIN g2 \subseteq DOMAIN Over(f1, g2)
  BY OverKeeps, Zenon
<1>10. AllPresets(s, clk, p) = Over(f1, g2)
  BY Zenon DEF AllPresets, f1, f3, f7, g2, g3, g4, g5, g6, g7
<1> QED
  BY <1>1, <1>2, <1>3, <1>4, <1>5, <1>6, <1>7, <1>8, <1>9, <1>10, <1>11 DEF ArbiterDelays

TurnFields == {"r2w_turn", "w2r_turn", "rc_cover", "r_cover", "w_cover"}

LEMMA Halved ==
    ASSUME NEW x \in 0..511
    PROVE  U8(x \div 2) \in Nat /\ U8(x \div 2) = x \div 2
<1>1. x \div 2 \in 0..255
  OBVIOUS
<1>2. U8(x \div 2) = x \div 2
  BY <1>1 DEF U8
<1> QED
  BY <1>1, <1>2

(* The turns of a record with the arbiter's delays.                        *)
Sound(f) == Fine(f) /\ ArbiterDelays \subseteq DOMAIN f
Uncut(f)   == NothingCut(f) /\ ArbiterDelays \cup TurnFields \subseteq DOMAIN f

LEMMA TurnsFit ==
    ASSUME NEW f, Sound(f)
    PROVE  /\ Fine(Turns(f)) /\ Uncut(Turns(f)) /\ Turns(f).mc_rc = f.mc_rc
           /\ \A old : NoNewZero(f, old) => NoNewZero(Turns(f), old)
<1> DEFINE new == [r2w_turn |-> U8(f.mc_r2w \div 2),
                   w2r_turn |-> U8(f.mc_w2r \div 2),
                   rc_cover |-> U8(f.mc_rc \div 2),
                   r_cover  |-> U8((f.mc_rap2pre + f.mc_rp + f.mc_rcd) \div 2),
                   w_cover  |-> U8((f.mc_wap2pre + f.mc_rp + f.mc_rcd) \div 2)]
<1>1. Turns(f) = Over(new, f)
  BY Zenon DEF Turns
<1>2. /\ f.mc_r2w \in 0..127 /\ f.mc_w2r \in 0..127 /\ f.mc_rc \in 0..127
      /\ f.mc_rap2pre \in 0..127 /\ f.mc_wap2pre \in 0..127
      /\ f.mc_rp \in 0..127 /\ f.mc_rcd \in 0..127
  BY DEF Sound, Fine, ArbiterDelays
<1>3. DOMAIN new = TurnFields
  BY DEF TurnFields
<1> DEFINE r == f.mc_rap2pre + f.mc_rp + f.mc_rcd
           w == f.mc_wap2pre + f.mc_rp + f.mc_rcd
<1>4. /\ r \in 0..511 /\ w \in 0..511
      /\ f.mc_r2w \in 0..511 /\ f.mc_w2r \in 0..511 /\ f.mc_rc \in 0..511
  <2> DEFINE a == f.mc_rap2pre
             b == f.mc_wap2pre
             c == f.mc_rp
             d == f.mc_rcd
  <2>1. a \in 0..127 /\ b \in 0..127 /\ c \in 0..127 /\ d \in 0..127
    BY <1>2
  <2>3. f.mc_r2w \in 0..511 /\ f.mc_w2r \in 0..511 /\ f.mc_rc \in 0..511
    BY <1>2
  <2> HIDE DEF a, b, c, d
  <2>2. a + c + d \in 0..511 /\ b + c + d \in 0..511
    BY <2>1
  <2> QED
    BY <2>2, <2>3 DEF a, b, c, d
<1>5. /\ new.r2w_turn = U8(f.mc_r2w \div 2) /\ new.w2r_turn = U8(f.mc_w2r \div 2)
      /\ new.rc_cover = U8(f.mc_rc \div 2)
      /\ new.r_cover = U8(r \div 2) /\ new.w_cover = U8(w \div 2)
  BY Zenon
<1> HIDE DEF new, r, w
<1>10. /\ new.r2w_turn = f.mc_r2w \div 2 /\ new.w2r_turn = f.mc_w2r \div 2
       /\ new.rc_cover = f.mc_rc \div 2
       /\ new.r_cover = r \div 2 /\ new.w_cover = w \div 2
       /\ new.r2w_turn \in Nat /\ new.w2r_turn \in Nat /\ new.rc_cover \in Nat
       /\ new.r_cover \in Nat /\ new.w_cover \in Nat
  <2>1. /\ U8(f.mc_r2w \div 2) = f.mc_r2w \div 2 /\ U8(f.mc_r2w \div 2) \in Nat
        /\ U8(f.mc_w2r \div 2) = f.mc_w2r \div 2 /\ U8(f.mc_w2r \div 2) \in Nat
        /\ U8(f.mc_rc \div 2) = f.mc_rc \div 2 /\ U8(f.mc_rc \div 2) \in Nat
    BY <1>4, Halved
  <2>2. /\ U8(r \div 2) = r \div 2 /\ U8(r \div 2) \in Nat
        /\ U8(w \div 2) = w \div 2 /\ U8(w \div 2) \in Nat
    BY <1>4, Halved
  <2> QED
    BY <1>5, <2>1, <2>2, Zenon
<1>6. Fine(new)
  BY <1>3, <1>10 DEF Fine, TurnFields, ArbiterDelays
<1>7. DOMAIN Over(new, f) = TurnFields \cup DOMAIN f
  BY <1>3, OverIs
<1>8. /\ \A k \in TurnFields : Over(new, f)[k] = new[k]
      /\ \A k \in ArbiterDelays : Over(new, f)[k] = f[k]
  <2>1. \A k \in ArbiterDelays : k \notin TurnFields /\ k \in DOMAIN f
    BY DEF Sound, ArbiterDelays, TurnFields
  <2> QED
    BY <1>3, <2>1, SMT DEF Over
<1>9. NothingCut(Over(new, f))
  <2> DEFINE m == Over(new, f)
  <2>1. /\ m.r2w_turn = new.r2w_turn /\ m.w2r_turn = new.w2r_turn /\ m.rc_cover = new.rc_cover
        /\ m.r_cover = new.r_cover /\ m.w_cover = new.w_cover
    BY <1>8 DEF TurnFields
  <2>2. /\ m.mc_r2w = f.mc_r2w /\ m.mc_w2r = f.mc_w2r /\ m.mc_rc = f.mc_rc
        /\ m.mc_rap2pre = f.mc_rap2pre /\ m.mc_wap2pre = f.mc_wap2pre
        /\ m.mc_rp = f.mc_rp /\ m.mc_rcd = f.mc_rcd
    BY <1>8 DEF ArbiterDelays
  <2> HIDE DEF m
  <2>3. NothingCut(m)
    BY <1>10, <2>1, <2>2, Zenon DEF NothingCut, r, w
  <2> QED
    BY <2>3 DEF m
<1>11. ASSUME NEW old, NoNewZero(f, old) PROVE NoNewZero(Over(new, f), old)
  <2>1. NoNewZero(new, old)
    BY <1>3 DEF NoNewZero, TurnFields, MayBeZero
  <2> QED
    BY <1>11, <2>1, NoNewZeroOver
<1>12. Fine(Over(new, f))
  BY <1>6, FineOver DEF Sound
<1>13. Over(new, f).mc_rc = f.mc_rc
  BY <1>8 DEF ArbiterDelays
<1>14. ArbiterDelays \cup TurnFields \subseteq DOMAIN Over(new, f)
  BY <1>7 DEF Sound
<1> QED
  BY <1>1, <1>9, <1>11, <1>12, <1>13, <1>14, Zenon DEF Uncut

(* What is written over a record keeps its turns unless it holds one, and  *)
(* a record keeps its turns over any other.                                *)
LEMMA CutOver ==
    ASSUME NEW f, NEW g, Uncut(g), DOMAIN f \cap (ArbiterDelays \cup TurnFields) = {}
    PROVE  Uncut(Over(f, g)) /\ Over(f, g).mc_rc = g.mc_rc
<1>1. ASSUME NEW r \in ArbiterDelays \cup TurnFields
      PROVE  r \in DOMAIN Over(f, g) /\ Over(f, g)[r] = g[r]
  <2>1. r \in DOMAIN g /\ r \notin DOMAIN f
    BY DEF Uncut
  <2> QED
    BY <2>1, SMT DEF Over
<1>2. NothingCut(Over(f, g))
  BY <1>1 DEF Uncut, NothingCut, TurnFields, ArbiterDelays
<1>3. Over(f, g).mc_rc = g.mc_rc
  BY <1>1 DEF ArbiterDelays
<1> QED
  BY <1>1, <1>2, <1>3 DEF Uncut

LEMMA CutUnder ==
    ASSUME NEW f, NEW g, Uncut(f)
    PROVE  Uncut(Over(f, g)) /\ Over(f, g).mc_rc = f.mc_rc
<1>1. ASSUME NEW r \in ArbiterDelays \cup TurnFields
      PROVE  r \in DOMAIN Over(f, g) /\ Over(f, g)[r] = f[r]
  <2>1. r \in DOMAIN f
    BY DEF Uncut
  <2> QED
    BY <2>1, SMT DEF Over
<1>2. NothingCut(Over(f, g))
  BY <1>1 DEF Uncut, NothingCut, TurnFields, ArbiterDelays
<1>3. Over(f, g).mc_rc = f.mc_rc
  BY <1>1 DEF ArbiterDelays
<1> QED
  BY <1>1, <1>2, <1>3 DEF Uncut

(* A latency allowance is not 0 and fits a byte.                           *)
LEMMA Allowance ==
    ASSUME NEW clk, Rate(clk), NEW t \in 2..128
    PROVE  ADJUST_INVERSE(clk, t) \in 1..128
<1> DEFINE d == clk \div 10
           x == t * 1600
           q == x \div d
<1>1. d \in Int /\ 1600 <= d /\ d <= 2800
  BY DEF Rate
<1>2. x \in Int /\ 3200 <= x /\ x <= 204800
  OBVIOUS
<1> HIDE DEF d, x
<1>3. q \in Int /\ q * d <= x /\ x < q * d + d
  BY <1>1, <1>2
<1> HIDE DEF q
<1>4. q >= 1
  <2>1. q <= 0 => q * d <= 0
    BY <1>1, <1>3
  <2> QED
    BY <1>1, <1>2, <1>3, <2>1
<1>5. q <= 128
  <2>1. q >= 129 => q * d >= 129 * d
    BY <1>1, <1>3
  <2> QED
    BY <1>1, <1>2, <1>3, <2>1
<1> QED
  BY <1>3, <1>4, <1>5 DEF ADJUST_INVERSE, q, x, d

(* The fields only Mariko has.                                             *)
AutoCut(clk, m) ==
    /\ Uncut(m) /\ {"holdoff", "la"} \subseteq DOMAIN m
    /\ m.holdoff = m.mc_rc + 1
    /\ m.la = ADJUST_INVERSE(clk, 128)

LEMMA MarikoFits ==
    ASSUME NEW clk, Rate(clk), NEW f, Made(f), ArbiterDelays \subseteq DOMAIN f
    PROVE  /\ Fine(MarikoOnly(clk, f)) /\ AutoCut(clk, MarikoOnly(clk, f))
           /\ \A old : NoNewZero(MarikoOnly(clk, f), old)
<1> DEFINE new == [mc_cfg    |-> clk \div 1332,
                   mc_r2r    |-> Arb(26) - 1 + 2,
                   holdoff   |-> U8(f.mc_rc + 1),
                   inversion |-> U8(ADJUST(clk, 36) * 256),
                   iso_inversion |-> U8(ADJUST(clk, 12) * 65536),
                   la        |-> U8(ADJUST_INVERSE(clk, 128)),
                   la_hc     |-> ADJUST_INVERSE(clk, 22),
                   la_gpu    |-> ADJUST_INVERSE(clk, 25),
                   la_vic    |-> ADJUST_INVERSE(clk, 29)]
<1>1. MarikoOnly(clk, f) = Over(new, Turns(f))
  BY SMT DEF MarikoOnly
<1>2. f.mc_rc \in 0..127 /\ Sound(f)
  BY DEF Made, Fine, Sound, ArbiterDelays
<1>3. /\ ADJUST_INVERSE(clk, 128) \in 1..128 /\ ADJUST_INVERSE(clk, 22) \in 1..128
      /\ ADJUST_INVERSE(clk, 25) \in 1..128 /\ ADJUST_INVERSE(clk, 29) \in 1..128
  BY Allowance
<1>4. /\ new.mc_cfg \in Nat \ {0} /\ new.mc_r2r \in Nat \ {0}
      /\ new.holdoff = f.mc_rc + 1 /\ new.holdoff \in Nat \ {0}
      /\ new.inversion \in Nat /\ new.iso_inversion \in Nat
      /\ new.la = ADJUST_INVERSE(clk, 128) /\ new.la \in Nat \ {0}
      /\ new.la_hc \in Nat \ {0} /\ new.la_gpu \in Nat \ {0} /\ new.la_vic \in Nat \ {0}
  <2>1. new.mc_cfg \in Nat \ {0} /\ new.mc_r2r \in Nat \ {0}
    BY DEF Rate, Arb
  <2>2. new.holdoff = f.mc_rc + 1 /\ new.holdoff \in Nat \ {0}
    BY <1>2 DEF U8
  <2>3. new.inversion \in Nat /\ new.iso_inversion \in Nat
    BY DEF Rate, ADJUST, U8
  <2>4. new.la = ADJUST_INVERSE(clk, 128) /\ new.la \in Nat \ {0}
    BY <1>3 DEF U8
  <2>5. new.la_hc \in Nat \ {0} /\ new.la_gpu \in Nat \ {0} /\ new.la_vic \in Nat \ {0}
    BY <1>3
  <2> QED
    BY <2>1, <2>2, <2>3, <2>4, <2>5
<1>5. DOMAIN new = {"mc_cfg", "mc_r2r", "holdoff", "inversion", "iso_inversion",
                    "la", "la_hc", "la_gpu", "la_vic"}
  OBVIOUS
<1> HIDE DEF new
<1>6. Made(new)
  BY <1>4, <1>5 DEF Made, Fine, ArbiterDelays, MayBeZero
<1>7. DOMAIN new \cap (ArbiterDelays \cup TurnFields) = {}
  BY <1>5 DEF TurnFields, ArbiterDelays
<1>8. /\ Fine(Turns(f)) /\ Uncut(Turns(f)) /\ Turns(f).mc_rc = f.mc_rc
      /\ \A old : NoNewZero(Turns(f), old)
  BY <1>2, TurnsFit, MadeNoNewZero, Zenon
<1>9. Fine(Over(new, Turns(f)))
  BY <1>6, <1>8, FineOver DEF Made
<1>10. Uncut(Over(new, Turns(f))) /\ Over(new, Turns(f)).mc_rc = f.mc_rc
  BY <1>7, <1>8, CutOver
<1>11. /\ {"holdoff", "la"} \subseteq DOMAIN Over(new, Turns(f))
       /\ Over(new, Turns(f)).holdoff = new.holdoff /\ Over(new, Turns(f)).la = new.la
  BY <1>5, OverKeeps
<1>12. AutoCut(clk, Over(new, Turns(f)))
  BY <1>4, <1>10, <1>11, Zenon DEF AutoCut
<1>13. \A old : NoNewZero(Over(new, Turns(f)), old)
  BY <1>6, <1>8, NoNewZeroOver, MadeNoNewZero, Zenon
<1> QED
  BY <1>1, <1>9, <1>12, <1>13, Zenon

(* The extrapolated self-refresh control.                                  *)
LEMMA SelfRefFits ==
    ASSUME NEW clk, Rate(clk), NEW target \in Nat, NEW ref \in Nat
    PROVE  /\ ADJUST_PROP(clk, target, ref) \in Nat
           /\ SelfRefGrows(target, ref) => ADJUST_PROP(clk, target, ref) >= target
<1> DEFINE e == clk - 13312
           d == target - ref
           x == e * d
           y == 25 * e * d
<1>1. e \in Int /\ 2688 <= e /\ e <= 14688 /\ d \in Int
  BY DEF Rate
<1>2. ADJUST_PROP(clk, target, ref) = ref + (y % 1073741824) \div 67200
  BY DEF ADJUST_PROP
<1>3. x \in Int /\ y = 25 * x
  <2> HIDE DEF e, d
  <2> QED
    BY <1>1
<1>4. ASSUME 0 <= d, d <= 2924
      PROVE  2688 * d <= x /\ x <= 42947712
  <2> HIDE DEF e, d
  <2>1. 2688 * d <= e * d /\ e * d <= 14688 * d
    BY <1>1, <1>4
  <2>2. 14688 * d <= 42947712
    BY <1>1, <1>4
  <2> QED
    BY <1>1, <2>1, <2>2
<1> HIDE DEF x, y
<1> DEFINE W == 1073741824
           z == y % W
<1>7. W \in Int /\ W > 0 /\ 25 * 42947712 < W
  BY SMT
<1>8. y \in Int
  BY <1>3, SMT
<1> HIDE DEF W
<1>9. z \in Nat /\ (0 <= y /\ y < W => z = y)
  BY <1>7, <1>8, SMT
<1> HIDE DEF z
<1>5. z \div 67200 \in Nat
  BY <1>9, SMT
<1>6. ASSUME 0 <= d, d <= 2924 PROVE z \div 67200 >= d
  <2>1. 67200 * d <= y /\ 0 <= y /\ y <= 25 * 42947712
    <3> HIDE DEF d
    <3> QED
      BY <1>1, <1>3, <1>4, <1>6, SMT
  <2>2. z = y
    BY <1>7, <1>8, <1>9, <2>1, SMT
  <2> HIDE DEF d
  <2> QED
    BY <1>1, <1>8, <2>1, <2>2, SMT
<1>10. ADJUST_PROP(clk, target, ref) = ref + z \div 67200
  BY <1>2, SMT DEF z, y, W
<1> QED
  BY <1>5, <1>6, <1>10, SMT DEF SelfRefGrows

(* What is derived from the firmware's tables.                             *)
LEMMA RestFits ==
    ASSUME NEW clk, Rate(clk), NEW p \in Presets, NEW ref, NEW old,
           FirmwareTimings("Mariko", ref), FirmwareTimings("Mariko", old)
    PROVE  LET rest == MarikoRest(clk, p, ref, old) IN
           /\ Fine(rest) /\ NoNewZero(rest, old)
           /\ DOMAIN rest = {"dyn_self_ref", "ptsa_rate", "ptsa_grant", "t_rp", "t_rfc",
                             "emc_rext", "pll_ss_ctrl1", "pll_ss_ctrl2", "emc_cfg_2"}
           /\ SelfRefGrows(old.dyn_self_ref, ref.dyn_self_ref) =>
                  rest.dyn_self_ref >= old.dyn_self_ref
<1> DEFINE rest == MarikoRest(clk, p, ref, old)
<1>1. /\ Extrapolated \subseteq DOMAIN ref /\ Extrapolated \subseteq DOMAIN old
      /\ \A r \in Extrapolated : old[r] \in Nat /\ ref[r] \in Nat
  BY DEF FirmwareTimings
<1>2. /\ old.dyn_self_ref \in Nat /\ ref.dyn_self_ref \in Nat
      /\ old.ptsa_rate \in Nat /\ old.ptsa_grant \in Nat
      /\ "ptsa_rate" \in DOMAIN old /\ "ptsa_grant" \in DOMAIN old
  BY <1>1 DEF Extrapolated
<1>3. \A t \in Nat : ADJUST(clk, t) = t
  <2>1. clk \div 16000 = 1
    BY DEF Rate
  <2> QED
    BY <2>1 DEF ADJUST
<1>4. /\ DOMAIN rest = {"dyn_self_ref", "ptsa_rate", "ptsa_grant", "t_rp", "t_rfc",
                        "emc_rext", "pll_ss_ctrl1", "pll_ss_ctrl2", "emc_cfg_2"}
      /\ rest.dyn_self_ref = ADJUST_PROP(clk, old.dyn_self_ref, ref.dyn_self_ref)
      /\ rest.ptsa_rate = ADJUST(clk, old.ptsa_rate)
      /\ rest.ptsa_grant = ADJUST(clk, old.ptsa_grant)
      /\ rest.t_rp = tRPpb(p) \div 100 /\ rest.t_rfc = tRFCab(p) \div 100
  BY SMT DEF MarikoRest
<1>10. \A r \in {"emc_rext", "pll_ss_ctrl1", "pll_ss_ctrl2", "emc_cfg_2"} : rest[r] \in Nat \ {0}
  BY SMT DEF MarikoRest
<1> HIDE DEF rest
<1>5. /\ rest.dyn_self_ref \in Nat
      /\ SelfRefGrows(old.dyn_self_ref, ref.dyn_self_ref) => rest.dyn_self_ref >= old.dyn_self_ref
  BY <1>2, <1>4, SelfRefFits
<1>6. rest.ptsa_rate = old.ptsa_rate /\ rest.ptsa_grant = old.ptsa_grant
  BY <1>2, <1>3, <1>4
<1>7. rest.t_rp \in Nat \ {0} /\ rest.t_rfc \in Nat \ {0}
  <2>1. Time(tRPpb(p), 1300, 1800) /\ Time(tRFCab(p), 12000, 28000)
    BY Times
  <2> QED
    BY <1>4, <2>1 DEF Time
<1>11. \A r \in DOMAIN rest : rest[r] \in Nat
  BY <1>2, <1>4, <1>5, <1>6, <1>7, <1>10, SMT
<1>12. DOMAIN rest \cap ArbiterDelays = {}
  BY <1>4, SMT DEF ArbiterDelays
<1>8. Fine(rest)
  BY <1>11, <1>12, SMT DEF Fine
<1>9. NoNewZero(rest, old)
  <2>1. ASSUME NEW r \in DOMAIN rest \ MayBeZero, rest[r] = 0
        PROVE  r \in DOMAIN old /\ old[r] = 0
    <3>1. r \in DOMAIN rest /\ r # "dyn_self_ref"
      BY <2>1, SMT DEF MayBeZero
    <3>2. r = "ptsa_rate" \/ r = "ptsa_grant"
      BY <1>4, <1>7, <1>10, <2>1, <3>1, SMT
    <3> QED
      BY <1>2, <1>6, <2>1, <3>2, SMT
  <2> QED
    BY <2>1, Zenon DEF NoNewZero
<1> QED
  BY <1>4, <1>5, <1>8, <1>9 DEF rest

LEMMA MadeRegisters ==
    ASSUME NEW s, NEW f, Made(f)
    PROVE  Made(Registers(s, f))
BY DEF Made, Fine, Registers

(* What is shown of the registers m of the overclocked table.              *)
AutoFits(clk, ref, old, m) ==
    /\ AutoCut(clk, m)
    /\ SelfRefGrows(old.dyn_self_ref, ref.dyn_self_ref) => m.dyn_self_ref >= old.dyn_self_ref

(* The automatic adjustment.                                               *)
LEMMA FineAuto ==
    ASSUME NEW clk, Rate(clk), NEW p \in Presets, NEW s \in Socs, NEW ref, NEW old,
           FirmwareTimings(s, ref), FirmwareTimings(s, old)
    PROVE  LET m == AutoAdjusted(s, clk, p, ref, old) IN
           /\ Fine(m) /\ NoNewZero(m, old)
           /\ s = "Mariko" => AutoFits(clk, ref, old, m)
<1> DEFINE all == AllPresets(s, clk, p)
<1>1. Made(all) /\ ArbiterDelays \subseteq DOMAIN all
  BY FineAll, AllSources
<1>3. Fine(old) /\ NoNewZero(old, old)
  BY FineFirmware DEF NoNewZero
<1> HIDE DEF all
<1>2. CASE s = "Mariko"
  <2> DEFINE rest == MarikoRest(clk, p, ref, old)
             only == MarikoOnly(clk, all)
             g == Over(only, old)
  <2>1. AutoAdjusted(s, clk, p, ref, old) = Over(rest, g)
    BY <1>2, Zenon DEF AutoAdjusted, all
  <2>2. Fine(only) /\ AutoCut(clk, only) /\ NoNewZero(only, old)
    BY <1>1, MarikoFits
  <2>3. /\ Fine(rest) /\ NoNewZero(rest, old)
        /\ DOMAIN rest = {"dyn_self_ref", "ptsa_rate", "ptsa_grant", "t_rp", "t_rfc",
                          "emc_rext", "pll_ss_ctrl1", "pll_ss_ctrl2", "emc_cfg_2"}
        /\ SelfRefGrows(old.dyn_self_ref, ref.dyn_self_ref) =>
               rest.dyn_self_ref >= old.dyn_self_ref
    <3>1. FirmwareTimings("Mariko", ref) /\ FirmwareTimings("Mariko", old)
      BY <1>2
    <3> QED
      BY <3>1, RestFits
  <2> HIDE DEF rest, only
  <2>4. Fine(g) /\ NoNewZero(g, old) /\ Uncut(g) /\ g.mc_rc = only.mc_rc
    BY <1>3, <2>2, FineOver, NoNewZeroOver, CutUnder, Zenon DEF AutoCut
  <2>5. /\ {"holdoff", "la"} \subseteq DOMAIN g /\ g.holdoff = only.holdoff /\ g.la = only.la
    BY <2>2, OverKeeps DEF AutoCut
  <2> HIDE DEF g
  <2>6. Fine(Over(rest, g)) /\ NoNewZero(Over(rest, g), old)
    BY <2>3, <2>4, FineOver, NoNewZeroOver, Zenon
  <2>7. Uncut(Over(rest, g)) /\ Over(rest, g).mc_rc = g.mc_rc
    <3>1. DOMAIN rest \cap (ArbiterDelays \cup TurnFields) = {}
      BY <2>3 DEF ArbiterDelays, TurnFields
    <3> QED
      BY <2>4, <3>1, CutOver
  <2>8. /\ {"holdoff", "la"} \subseteq DOMAIN Over(rest, g)
        /\ Over(rest, g).holdoff = g.holdoff /\ Over(rest, g).la = g.la
    <3>1. "holdoff" \notin DOMAIN rest /\ "la" \notin DOMAIN rest
      BY <2>3
    <3> QED
      BY <2>5, <3>1, OverKeeps, SMT
  <2>9. Over(rest, g).dyn_self_ref = rest.dyn_self_ref
    BY <2>3, OverKeeps
  <2>10. AutoCut(clk, Over(rest, g))
    BY <2>2, <2>4, <2>5, <2>7, <2>8, Zenon DEF AutoCut
  <2>11. AutoFits(clk, ref, old, Over(rest, g))
    BY <2>3, <2>9, <2>10, Zenon DEF AutoFits
  <2> QED
    BY <2>1, <2>6, <2>11, Zenon
<1>4. CASE s # "Mariko"
  <2> DEFINE g == Over(Registers(s, all), old)
  <2>1. AutoAdjusted(s, clk, p, ref, old) = Over(EristaOnly(clk), g)
    BY <1>4, Zenon DEF AutoAdjusted, all
  <2>2. Made(Registers(s, all)) /\ Made(EristaOnly(clk))
    BY <1>1, MadeRegisters, FineFixed
  <2>3. /\ Fine(Registers(s, all)) /\ Fine(EristaOnly(clk))
        /\ NoNewZero(Registers(s, all), old) /\ NoNewZero(EristaOnly(clk), old)
    BY <2>2, MadeNoNewZero, Zenon DEF Made
  <2>4. Fine(g) /\ NoNewZero(g, old)
    BY <1>3, <2>3, FineOver, NoNewZeroOver, Zenon
  <2> HIDE DEF g
  <2>5. Fine(Over(EristaOnly(clk), g)) /\ NoNewZero(Over(EristaOnly(clk), g), old)
    BY <2>3, <2>4, FineOver, NoNewZeroOver, Zenon
  <2> QED
    BY <1>4, <2>1, <2>5, Zenon
<1> QED
  BY <1>2, <1>4

(* A preset that is chosen is written over the table, one that is not      *)
(* leaves it.                                                              *)
Kept(f, old) == Sound(f) /\ NoNewZero(f, old)

LEMMA OnPresetKeeps ==
    ASSUME NEW p, NEW k, NEW new, NEW f, NEW old, Made(new), Kept(f, old)
    PROVE  Kept(OnPreset(p, k, new, f), old)
<1>1. Fine(Over(new, f))
  BY FineOver, Zenon DEF Kept, Sound, Made
<1>2. DOMAIN f \subseteq DOMAIN Over(new, f)
  BY OverKeeps, Zenon
<1>3. NoNewZero(Over(new, f), old)
  BY NoNewZeroOver, MadeNoNewZero, Zenon DEF Kept
<1> QED
  BY <1>1, <1>2, <1>3 DEF Kept, Sound, OnPreset

LEMMA FineCustom ==
    ASSUME NEW clk, Rate(clk), NEW p \in Presets, NEW old, Sound(old)
    PROVE  LET m == CustomAdjusted("Mariko", clk, p, old) IN
           Fine(m) /\ NoNewZero(m, old) /\ NothingCut(m)
<1> DEFINE s == "Mariko"
           f1 == OnPreset(p, 1, PresetOne(clk, p), old)
           f2 == OnPreset(p, 2, PresetTwo(clk, p), f1)
           f3 == OnPreset(p, 3, PresetThree(s, clk, p), f2)
           f4 == OnPreset(p, 4, PresetFour(clk, p), f3)
           f5 == OnPreset(p, 5, PresetFive(s, clk, p), f4)
           f6 == OnPreset(p, 6, PresetSix(clk, p), f5)
           f7 == OnPreset(p, 7, PresetSeven(s, clk, p), f6)
<1>0. s \in Socs /\ Kept(old, old)
  BY DEF Socs, Kept, NoNewZero
<1>1. Kept(f1, old)
  BY <1>0, FineOne, OnPresetKeeps
<1>2. Kept(f1, old) => Kept(f2, old)
  <2> HIDE DEF f1
  <2> QED
    BY FineTwo, OnPresetKeeps
<1>3. Kept(f2, old) => Kept(f3, old)
  <2> HIDE DEF f2
  <2> QED
    BY <1>0, FineThree, OnPresetKeeps
<1>4. Kept(f3, old) => Kept(f4, old)
  <2> HIDE DEF f3
  <2> QED
    BY FineFour, OnPresetKeeps
<1>5. Kept(f4, old) => Kept(f5, old)
  <2> HIDE DEF f4
  <2> QED
    BY <1>0, FineFive, OnPresetKeeps
<1>6. Kept(f5, old) => Kept(f6, old)
  <2> HIDE DEF f5
  <2> QED
    BY FineSix, OnPresetKeeps
<1>7. Kept(f6, old) => Kept(f7, old)
  <2> HIDE DEF f6
  <2> QED
    BY <1>0, FineSeven, OnPresetKeeps
<1>8. CustomAdjusted("Mariko", clk, p, old) = Turns(f7)
  BY Zenon DEF CustomAdjusted, Registers
<1>9. Kept(f7, old)
  <2> HIDE DEF f1, f2, f3, f4, f5, f6, f7
  <2> QED
    BY <1>1, <1>2, <1>3, <1>4, <1>5, <1>6, <1>7
<1> HIDE DEF f7
<1>10. Fine(Turns(f7)) /\ NoNewZero(Turns(f7), old) /\ NothingCut(Turns(f7))
  BY <1>9, TurnsFit, Zenon DEF Kept, Uncut
<1> QED
  BY <1>8, <1>10, Zenon

(* Either adjustment, or none.                                             *)
Adjusted(ref, old, m) ==
    /\ Fine(m) /\ NoNewZero(m, old)
    /\ soc = "Mariko" /\ cust.mtcConf \in {AUTO_ADJ_ALL, CUSTOM_ADJ_ALL} => NothingCut(m)
    /\ soc = "Mariko" /\ cust.mtcConf = AUTO_ADJ_ALL =>
           AutoFits(EmcMaxClock(soc, cust) \div 100, ref, old, m)

LEMMA AdjustedFits ==
    ASSUME soc \in Socs, cust \in CustomizeTable, SafetyCheckPasses(cust), Overclocked(soc, cust),
           NEW ref, NEW old, FirmwareTimings(soc, ref), FirmwareTimings(soc, old)
    PROVE  Adjusted(ref, old, AdjustedRegs(soc, cust, ref, old))
<1> DEFINE clk == EmcMaxClock(soc, cust) \div 100
           p == cust.ramTimingPresets
           new == AdjustedRegs(soc, cust, ref, old)
<1>1. Rate(clk)
  <2>1. EmcMaxClock(soc, cust) \in Nat /\ Between(EmcMaxClock(soc, cust), 1600001, 2800000)
    BY ClockRange
  <2> DEFINE x == EmcMaxClock(soc, cust)
  <2>2. x \in Int /\ 1600001 <= x /\ x <= 2800000
    BY <2>1, BetweenDef, SMT
  <2> HIDE DEF x
  <2>3. Rate(x \div 100)
    BY <2>2 DEF Rate
  <2> QED
    BY <2>3 DEF x
<1>2. p \in Presets /\ cust.mtcConf \in Nat
  BY DEF CustomizeTable
<1>3. /\ Fine(old) /\ NoNewZero(old, old)
      /\ soc = "Mariko" => Sound(old)
  BY FineFirmware DEF Sound, FirmwareTimings, NoNewZero
<1>6. AUTO_ADJ_ALL # CUSTOM_ADJ_ALL
  BY DEF AUTO_ADJ_ALL, CUSTOM_ADJ_ALL
<1>7. clk = EmcMaxClock(soc, cust) \div 100
  OBVIOUS
<1> HIDE DEF clk, p
<1>4. CASE cust.mtcConf = AUTO_ADJ_ALL
  <2>1. new = AutoAdjusted(soc, clk, p, ref, old)
    BY <1>4, SMT DEF AdjustedRegs, AUTO_ADJ_ALL, CUSTOM_ADJ_ALL, clk, p
  <2> HIDE DEF new
  <2>2. /\ Fine(AutoAdjusted(soc, clk, p, ref, old))
        /\ NoNewZero(AutoAdjusted(soc, clk, p, ref, old), old)
        /\ soc = "Mariko" => AutoFits(clk, ref, old, AutoAdjusted(soc, clk, p, ref, old))
    BY <1>1, <1>2, FineAuto
  <2>3. Fine(new) /\ NoNewZero(new, old) /\ (soc = "Mariko" => AutoFits(clk, ref, old, new))
    BY <2>1, <2>2, Zenon
  <2>4. soc = "Mariko" => NothingCut(new)
    BY <2>3, Zenon DEF AutoFits, AutoCut, Uncut
  <2>5. Adjusted(ref, old, new)
    BY <1>7, <2>3, <2>4, Zenon DEF Adjusted
  <2> QED
    BY <2>5, Zenon DEF new
<1>5. CASE cust.mtcConf = CUSTOM_ADJ_ALL /\ soc = "Mariko"
  <2>1. new = CustomAdjusted("Mariko", clk, p, old)
    BY <1>5, SMT DEF AdjustedRegs, AUTO_ADJ_ALL, CUSTOM_ADJ_ALL, clk, p
  <2> HIDE DEF new
  <2>2. /\ Fine(CustomAdjusted("Mariko", clk, p, old))
        /\ NoNewZero(CustomAdjusted("Mariko", clk, p, old), old)
        /\ NothingCut(CustomAdjusted("Mariko", clk, p, old))
    BY <1>1, <1>2, <1>3, <1>5, FineCustom
  <2>3. Fine(new) /\ NoNewZero(new, old) /\ NothingCut(new)
    BY <2>1, <2>2, Zenon
  <2>4. Adjusted(ref, old, new)
    BY <1>5, <1>6, <2>3, Zenon DEF Adjusted
  <2> QED
    BY <2>4, Zenon DEF new
<1>8. CASE cust.mtcConf \notin {AUTO_ADJ_ALL, CUSTOM_ADJ_ALL} \/ (cust.mtcConf = CUSTOM_ADJ_ALL /\ soc # "Mariko")
  <2>1. soc = "Mariko" \/ soc = "Erista"
    BY DEF Socs
  <2>2. new = old
    BY <1>8, <2>1, SMT DEF AdjustedRegs, AUTO_ADJ_ALL, CUSTOM_ADJ_ALL
  <2> HIDE DEF new
  <2>3. Fine(new) /\ NoNewZero(new, old)
    BY <1>3, <2>2, Zenon
  <2>4. Adjusted(ref, old, new)
    BY <1>6, <1>8, <2>3, Zenon DEF Adjusted
  <2> QED
    BY <2>4, Zenon DEF new
<1> QED
  BY <1>4, <1>5, <1>8

(* For every image laid out as a driver is, and every customisation that   *)
(* passes the safety check, whatever rate and presets it chooses: no       *)
(* register of an overclocked table falls below zero or becomes 0, Mariko's*)
(* turns, covers, hold-off and latency allowance survive being narrowed to *)
(* a byte, and the self-refresh control does not wrap if the firmware's    *)
(* grows with the rate.                                                    *)
THEOREM TimingsAlwaysFit == BootSpec => [](LaidOut => TimingsFit)
<1>1. LaidInv => (LaidOut => TimingsFit)
  <2> SUFFICES ASSUME LaidInv, LaidOut, status = "accepted", Overclocked(soc, cust),
                      NEW a \in patched["Mtc"]
               PROVE  LET m == regs[a]
                          stock == nso.regs[a]
                      IN
                      /\ \A r \in DOMAIN m : m[r] >= 0
                      /\ \A r \in DOMAIN m \ MayBeZero :
                             m[r] = 0 => r \in DOMAIN stock /\ stock[r] = 0
                      /\ soc = "Mariko" /\ cust.mtcConf \in {AUTO_ADJ_ALL, CUSTOM_ADJ_ALL} => NothingCut(m)
                      /\ soc = "Mariko" /\ cust.mtcConf = AUTO_ADJ_ALL =>
                          /\ m.holdoff = m.mc_rc + 1
                          /\ m.la = ADJUST_INVERSE(EmcMaxClock(soc, cust) \div 100, 128)
                          /\ SelfRefGrows(stock.dyn_self_ref, nso.regs[MtcTable(a, 2)].dyn_self_ref) =>
                                 m.dyn_self_ref >= stock.dyn_self_ref
    BY Zenon DEF TimingsFit
  <2> DEFINE ref == nso.regs[MtcTable(a, 2)]
             old == nso.regs[a]
             m == regs[a]
  <2>0. "Mtc" \in Structured
    BY DEF Structured
  <2>1. /\ Alone("Mtc", a) /\ a \in Int /\ PcvTypeOK /\ soc \in Socs /\ cust \in CustomizeTable
        /\ nso \in Nsos /\ Structure("Mtc", a) \subseteq DOMAIN nso.word
    BY <2>0, FoundAlone
  <2>2. m = AdjustedRegs(soc, cust, ref, old)
    BY <2>1, RatesAre
  <2>3. FirmwareTimings(soc, ref) /\ FirmwareTimings(soc, old)
    <3>1. Valid(soc, nso.word, "Mtc", a)
      BY <2>1, Zenon DEF Alone
    <3>2. a \in DOMAIN nso.regs /\ MtcTable(a, 2) \in DOMAIN nso.regs
      <4>1. 2 \in 1..Len(KhzList(soc))
        BY <2>1, SecondRate
      <4> QED
        BY <2>1, <3>1, <4>1, TimingTables
    <3> QED
      BY <2>1, <3>2, NsosAssumption DEF soc
  <2>4. SafetyCheckPasses(cust)
    BY DEF LaidInv, BootInv, VoltInv
  <2> HIDE DEF ref, old, m
  <2>5. Adjusted(ref, old, m)
    BY <2>1, <2>2, <2>3, <2>4, AdjustedFits
  <2>6. \A r \in DOMAIN m : m[r] >= 0
    BY <2>5 DEF Adjusted, Fine
  <2>7. \A r \in DOMAIN m \ MayBeZero : m[r] = 0 => r \in DOMAIN old /\ old[r] = 0
    BY <2>5, Zenon DEF Adjusted, NoNewZero
  <2>8. soc = "Mariko" /\ cust.mtcConf \in {AUTO_ADJ_ALL, CUSTOM_ADJ_ALL} => NothingCut(m)
    BY <2>5, Zenon DEF Adjusted
  <2>9. soc = "Mariko" /\ cust.mtcConf = AUTO_ADJ_ALL =>
            /\ m.holdoff = m.mc_rc + 1
            /\ m.la = ADJUST_INVERSE(EmcMaxClock(soc, cust) \div 100, 128)
            /\ SelfRefGrows(old.dyn_self_ref, ref.dyn_self_ref) => m.dyn_self_ref >= old.dyn_self_ref
    BY <2>5, Zenon DEF Adjusted, AutoFits, AutoCut
  <2> QED
    BY <2>6, <2>7, <2>8, <2>9, Zenon DEF ref, old, m
<1> QED
  BY <1>1, LaidInvInit, LaidInvStep, PTL DEF BootSpec

-----------------------------------------------------------------------------
(***************************************************************************)
(* The tables the sysmodule takes from the KIP.                            *)
(***************************************************************************)
(* A table whose usable entries are those from the third to the n-th.      *)
UsableFromThird(t, d, n, khz) ==
    /\ d \in Nat /\ DOMAIN t = 1..d /\ n \in 3..d
    /\ \A i \in 1..d : t[i] >= khz <=> i \in 3..n

LEMMA AtLeastIs ==
    ASSUME NEW t, NEW d, NEW n, NEW khz, UsableFromThird(t, d, n, khz)
    PROVE  AtLeast(t, khz) = [i \in 1..(n - 2) |-> t[i + 2]]
<1>0. /\ d \in Nat /\ DOMAIN t = 1..d /\ n \in 3..d
      /\ \A i \in 1..d : t[i] >= khz <=> i \in 3..n
  BY Zenon DEF UsableFromThird
<1> DEFINE kept == {i \in DOMAIN t : t[i] >= khz}
           Is(i, m) == Cardinality({j \in kept : j <= i}) = m
           Nth(m) == CHOOSE i \in kept : Is(i, m)
<1>1. AtLeast(t, khz) = [m \in 1..Cardinality(kept) |-> t[Nth(m)]]
  BY DEF AtLeast
<1>2. kept = 3..n
  <2>1. \A i : i \in kept <=> i \in 1..d /\ t[i] >= khz
    BY <1>0
  <2>2. \A i : i \in 3..n => i \in 1..d
    BY <1>0
  <2> HIDE DEF kept
  <2> QED
    BY <1>0, <2>1, <2>2
<1>3. Cardinality(kept) = n - 2
  <2>1. Cardinality(3..n) = n - 2
    BY <1>0, FS_Interval
  <2> HIDE DEF kept
  <2> QED
    BY <1>2, <2>1, Zenon
<1>4. ASSUME NEW i \in kept PROVE Cardinality({j \in kept : j <= i}) = i - 2
  <2> HIDE DEF kept
  <2>1. {j \in kept : j <= i} = 3..i
    BY <1>0, <1>2, <1>4
  <2>2. i \in 3..n
    BY <1>0, <1>2, <1>4
  <2>3. Cardinality(3..i) = i - 2
    BY <1>0, <2>2, FS_Interval
  <2> QED
    BY <2>1, <2>3, Zenon
<1> HIDE DEF kept
<1>5. ASSUME NEW m \in 1..(n - 2) PROVE Nth(m) = m + 2
  <2>1. m + 2 \in kept /\ Is(m + 2, m)
    BY <1>0, <1>2, <1>4
  <2>2. \A i \in kept : Is(i, m) => i = m + 2
    BY <1>0, <1>2, <1>4
  <2> HIDE DEF Is
  <2> QED
    BY <2>1, <2>2, Zenon
<1> HIDE DEF Nth
<1> QED
  BY <1>0, <1>1, <1>3, <1>5

(* The entries a table begins with, before the first zero.                 *)
LEMMA PrefixIs ==
    ASSUME NEW t, Len(t) = 31, NEW n \in 1..30,
           \A i \in 1..n : t[i] \in Int /\ t[i] # 0, t[n + 1] = 0
    PROVE  /\ Prefix(t) \in Seq(Int) /\ Len(Prefix(t)) = n
           /\ \A i \in 1..n : Prefix(t)[i] = t[i]
<1> DEFINE Is(k) == /\ \A i \in 1..k : t[i] # 0
                    /\ k < Len(t) => t[k + 1] = 0
<1>1. n \in 0..Len(t) /\ Is(n)
  OBVIOUS
<1>2. ASSUME NEW k \in 0..Len(t), Is(k) PROVE k = n
  <2>1. ~(k < n)
    <3>1. ASSUME k < n PROVE k + 1 \in 1..n /\ t[k + 1] = 0
      BY <1>2, <3>1
    <3> QED
      BY <3>1
  <2>2. ~(n < k)
    <3>1. ASSUME n < k PROVE n + 1 \in 1..k
      BY <1>2, <3>1
    <3> QED
      BY <1>2, <3>1
  <2> QED
    BY <1>2, <2>1, <2>2
<1>3. Prefix(t) = SubSeq(t, 1, CHOOSE k \in 0..Len(t) : Is(k))
  BY Zenon DEF Prefix
<1> HIDE DEF Is
<1>4. Prefix(t) = SubSeq(t, 1, n)
  BY <1>1, <1>2, <1>3, Zenon
<1>5. /\ SubSeq(t, 1, n) \in Seq(Int)
      /\ Len(SubSeq(t, 1, n)) = IF 1 <= n THEN n - 1 + 1 ELSE 0
      /\ \A i \in 1..(n - 1 + 1) : SubSeq(t, 1, n)[i] = t[1 + i - 1]
  <2>1. \A i \in 1..n : t[i] \in Int
    OBVIOUS
  <2>2. ASSUME NEW l \in Int, \A i \in l..n : t[i] \in Int
        PROVE  /\ SubSeq(t, l, n) \in Seq(Int)
               /\ Len(SubSeq(t, l, n)) = IF l <= n THEN n - l + 1 ELSE 0
               /\ \A i \in 1..(n - l + 1) : SubSeq(t, l, n)[i] = t[l + i - 1]
    <3>1. n \in Int
      OBVIOUS
    <3> QED
      BY <2>2, <3>1, SubSeqProperties, SMTT(30)
  <2> QED
    BY <2>1, <2>2
<1>6. Len(SubSeq(t, 1, n)) = n
  BY <1>5
<1>7. ASSUME NEW i \in 1..n PROVE SubSeq(t, 1, n)[i] = t[i]
  <2>1. i \in 1..(n - 1 + 1) /\ 1 + i - 1 = i
    OBVIOUS
  <2> QED
    BY <1>5, <2>1
<1> QED
  BY <1>4, <1>5, <1>6, <1>7, Zenon

(* Sequences of integers are equal when their entries are.                 *)
LEMMA SameSeq ==
    ASSUME NEW s \in Seq(Int), NEW n \in Nat, Len(s) = n, NEW g,
           \A i \in 1..n : s[i] = g[i]
    PROVE  s = [i \in 1..n |-> g[i]]
<1>1. s \in [1..n -> Int]
  BY LenProperties
<1> QED
  BY <1>1

(***************************************************************************)
(* What lies in the file.                                                  *)
(***************************************************************************)
LEMMA RowInside ==
    ASSUME NEW f \in Files, Whole(f), NEW k \in DOMAIN TableNames, NEW i \in 1..31
    PROVE  RowOffset(f, TableNames[k], i) + 8 <= f.size
<1>1. f.size \in Nat /\ f.offset \in Nat
  BY DEF Files, Offsets
<1>2. DOMAIN TableNames = 1..7 /\ Len(TableNames) = 7
  BY DEF TableNames
<1>3. \A j \in DOMAIN TableNames : TableNames[j] = TableNames[k] => j = k
  BY SMT DEF TableNames
<1>4. (CHOOSE j \in DOMAIN TableNames : TableNames[j] = TableNames[k]) = k
  BY <1>3, Zenon
<1>5. RowOffset(f, TableNames[k], i) = f.offset + 152 + 56 * ((k - 1) * 31 + i - 1)
  BY <1>4 DEF RowOffset, HeaderSize, DvfsRowSize, FREQ_TABLE_MAX_ENTRY_COUNT
<1>6. f.offset + (152 + 7 * 31 * 56) <= f.size
  BY <1>1, <1>2 DEF Whole, CustTableSize, HeaderSize, DvfsRowSize, FREQ_TABLE_MAX_ENTRY_COUNT
<1> QED
  BY <1>1, <1>2, <1>5, <1>6

LEMMA TableReadIs ==
    ASSUME NEW f \in Files, Whole(f), NEW k \in DOMAIN TableNames, NEW n \in 0..31,
           Len(Contents(TableNames[k])) = n
    PROVE  ReadTable(f, TableNames[k]) =
               [i \in 1..31 |-> IF i <= n THEN Contents(TableNames[k])[i] ELSE 0]
<1> DEFINE name == TableNames[k]
<1>1. \A i \in 1..31 : RowOffset(f, name, i) + 8 <= f.size
  BY RowInside
<1>2. Len(Contents(name)) = n
  OBVIOUS
<1> HIDE DEF name
<1>3. ReadTable(f, name) = [i \in 1..31 |-> IF i <= n THEN Contents(name)[i] ELSE 0]
  BY <1>1, <1>2 DEF ReadTable, FREQ_TABLE_MAX_ENTRY_COUNT
<1> QED
  BY <1>3 DEF name

(* The tables that the values of c select, on a console of this kind.      *)
LEMMA SelectedCpu ==
    ASSUME NEW c, soc \in Socs, isMariko = (soc = "Mariko")
    PROVE  /\ \E k \in DOMAIN TableNames : CpuTableOf(c) = TableNames[k]
           /\ BeginsCpu(Contents(CpuTableOf(c)), CpuNew(soc, c))
<1>1. /\ DOMAIN TableNames = 1..7
      /\ TableNames[1] = "eristaCpu" /\ TableNames[2] = "marikoCpu" /\ TableNames[3] = "marikoCpuSLT"
  BY SMT DEF TableNames
<1>2. CASE soc = "Erista"
  <2>1. CpuTableOf(c) = "eristaCpu"
    BY <1>2 DEF CpuTableOf
  <2>2. Contents("eristaCpu") = eristaCpuDvfsTable /\ CpuNew(soc, c) = 19
    BY <1>2 DEF Contents, CpuNew
  <2> QED
    BY <1>1, <2>1, <2>2, CpuTables
<1>3. CASE soc = "Mariko" /\ c.marikoCpuUV = 0
  <2>1. CpuTableOf(c) = "marikoCpu"
    BY <1>3 DEF CpuTableOf
  <2>2. Contents("marikoCpu") = marikoCpuDvfsTable /\ CpuNew(soc, c) = 21
    BY <1>3 DEF Contents, CpuNew
  <2> QED
    BY <1>1, <2>1, <2>2, CpuTables
<1>4. CASE soc = "Mariko" /\ c.marikoCpuUV # 0
  <2>1. CpuTableOf(c) = "marikoCpuSLT"
    BY <1>4 DEF CpuTableOf
  <2>2. Contents("marikoCpuSLT") = marikoCpuDvfsTableSLT /\ CpuNew(soc, c) = 22
    BY <1>4 DEF Contents, CpuNew
  <2> QED
    BY <1>1, <2>1, <2>2, CpuTables
<1> QED
  BY <1>2, <1>3, <1>4 DEF Socs

LEMMA SelectedGpu ==
    ASSUME NEW c, soc \in Socs, isMariko = (soc = "Mariko")
    PROVE  /\ \E k \in DOMAIN TableNames : GpuTableOf(c) = TableNames[k]
           /\ BeginsGpu(Contents(GpuTableOf(c)), GpuNew(soc))
<1>1. /\ DOMAIN TableNames = 1..7
      /\ TableNames[4] = "eristaGpu" /\ TableNames[5] = "marikoGpu"
      /\ TableNames[6] = "marikoGpuSLT" /\ TableNames[7] = "marikoGpuHiOPT"
  BY SMT DEF TableNames
<1>2. CASE soc = "Erista"
  <2>1. GpuTableOf(c) = "eristaGpu"
    BY <1>2 DEF GpuTableOf
  <2>2. Contents("eristaGpu") = GpuSteps(13) /\ GpuNew(soc) = 13
    BY <1>2 DEF Contents, GpuNew, eristaGpuDvfsTable
  <2> QED
    BY <1>1, <2>1, <2>2, GpuTables
<1>3. CASE soc = "Mariko"
  <2>1. GpuTableOf(c) \in {"marikoGpu", "marikoGpuSLT", "marikoGpuHiOPT"}
    <3>1. CASE c.marikoGpuUV = 1
      BY <1>3, <3>1 DEF GpuTableOf
    <3>2. CASE c.marikoGpuUV = 2
      BY <1>3, <3>2 DEF GpuTableOf
    <3>3. CASE c.marikoGpuUV \notin {1, 2}
      BY <1>3, <3>3 DEF GpuTableOf
    <3> QED
      BY <3>1, <3>2, <3>3
  <2> DEFINE T == GpuSteps(16) \o <<1267200>>
  <2>2. /\ Contents("marikoGpu") = marikoGpuDvfsTable
        /\ Contents("marikoGpuSLT") = marikoGpuDvfsTableSLT
        /\ Contents("marikoGpuHiOPT") = marikoGpuDvfsTableHiOPT
    BY SMT DEF Contents
  <2>3. marikoGpuDvfsTable = T /\ marikoGpuDvfsTableSLT = T /\ marikoGpuDvfsTableHiOPT = T
    BY SMT DEF marikoGpuDvfsTable, marikoGpuDvfsTableSLT, marikoGpuDvfsTableHiOPT
  <2>4. GpuNew(soc) = 17 /\ BeginsGpu(T, 17)
    BY <1>3, GpuTables, SMT DEF GpuNew
  <2> HIDE DEF T
  <2>5. Contents(GpuTableOf(c)) = T
    BY <2>1, <2>2, <2>3
  <2>6. \E k \in DOMAIN TableNames : GpuTableOf(c) = TableNames[k]
    BY <1>1, <2>1
  <2>7. BeginsGpu(Contents(GpuTableOf(c)), GpuNew(soc))
    BY <2>4, <2>5
  <2> QED
    BY <2>6, <2>7
<1> QED
  BY <1>2, <1>3 DEF Socs

(* The CPU's table as the sysmodule has it after the KIP f.                *)
FilledCpu(f) ==
    [i \in 1..31 |-> IF i <= Len(UsableCpu(f)) THEN UsableCpu(f)[i] ELSE 0]
StockMem == [i \in 1..31 |-> IF i <= Len(MemTable) THEN MemTable[i] ELSE 0]

(* Nothing is filled in before a KIP is accepted, and everything then.     *)
ReadyInv ==
    /\ isMariko = (soc = "Mariko") /\ soc \in Socs
    /\ card \in [DOMAIN Dirs -> Seq(Files)]
    /\ sysmodule # "ready" =>
        /\ freqTable = [CPU |-> EmptyTable, GPU |-> EmptyTable, MEM |-> StockMem]
        /\ maxMemFreq = 0 /\ boostCpuFreq = CpuClkOSLimit
    /\ sysmodule = "ready" =>
        /\ kip \in Files
        /\ freqTable = [CPU |-> FilledCpu(kip), GPU |-> ReadTable(kip, GpuTableOf(kip.cust)),
                        MEM |-> [StockMem EXCEPT ![6] = EmcClockOf(kip.cust)]]
        /\ maxMemFreq = EmcClockOf(kip.cust)
        /\ boostCpuFreq = IF kip.cust.commonCpuBoostClock # 0
                          THEN kip.cust.commonCpuBoostClock ELSE CpuClkOSLimit

LEMMA StockMemIs ==
    /\ Len(MemTable) = 5 /\ StockMem \in [1..31 -> Int]
    /\ \A i \in 1..5 : StockMem[i] = MemTable[i] /\ MemTable[i] \in Int
                       /\ MemTable[i] # 0 /\ MemTable[i] <= EmcClkOSLimit
    /\ \A i \in 2..5 : MemTable[i - 1] <= MemTable[i]
    /\ \A i \in 6..31 : StockMem[i] = 0
<1> DEFINE m == MemTable
<1>1. /\ Len(m) = 5
      /\ \A i \in 1..5 : m[i] \in Int /\ m[i] # 0 /\ m[i] <= EmcClkOSLimit
      /\ \A i \in 2..5 : m[i - 1] <= m[i]
  BY SMT DEF MemTable, EmcClkOSLimit
<1>2. StockMem = [i \in 1..31 |-> IF i <= Len(m) THEN m[i] ELSE 0]
  BY Zenon DEF StockMem
<1> HIDE DEF m
<1>3. /\ StockMem \in [1..31 -> Int]
      /\ \A i \in 1..5 : StockMem[i] = m[i]
      /\ \A i \in 6..31 : StockMem[i] = 0
  BY <1>1, <1>2, SMT
<1> QED
  BY <1>1, <1>3, SMT DEF m

LEMMA FreeIsSixth ==
    ASSUME freqTable["MEM"] = StockMem
    PROVE  FreeMemEntry = 6
<1> DEFINE Is(i) == freqTable["MEM"][i] = 0 /\ \A j \in 2..(i - 1) : freqTable["MEM"][j] # 0
<1>1. /\ \A i \in 2..5 : StockMem[i] # 0
      /\ StockMem[6] = 0
  BY StockMemIs, SMT
<1>2. 6 \in 2..31 /\ Is(6)
  BY <1>1, SMT
<1>3. ASSUME NEW i \in 2..31, Is(i) PROVE i = 6
  <2>1. ~(i < 6)
    <3>1. ASSUME i < 6 PROVE i \in 2..5 /\ StockMem[i] = 0
      BY <1>3, <3>1
    <3> QED
      BY <1>1, <3>1
  <2>2. ~(6 < i)
    <3>1. ASSUME 6 < i PROVE 6 \in 2..(i - 1) /\ StockMem[6] # 0
      <4>1. 6 \in 2..(i - 1)
        BY <1>3, <3>1
      <4> QED
        BY <1>3, <4>1
    <3> QED
      BY <1>1, <3>1
  <2> QED
    BY <1>3, <2>1, <2>2
<1>4. FreeMemEntry = CHOOSE i \in 2..31 : Is(i)
  BY Zenon DEF FreeMemEntry, FREQ_TABLE_MAX_ENTRY_COUNT
<1> HIDE DEF Is
<1> QED
  BY <1>2, <1>3, <1>4, Zenon

LEMMA EmptyIs == EmptyTable = [i \in 1..31 |-> 0]
BY DEF EmptyTable, FREQ_TABLE_MAX_ENTRY_COUNT

LEMMA ReadyInit == BootInit => ReadyInv
<1> SUFFICES ASSUME BootInit PROVE ReadyInv
  OBVIOUS
<1>1. /\ freqTable = [CPU |-> EmptyTable, GPU |-> EmptyTable, MEM |-> StockMem]
      /\ sysmodule = "off" /\ maxMemFreq = 0 /\ boostCpuFreq = CpuClkOSLimit
  BY SMT DEF BootInit, CpInit, StockMem, FREQ_TABLE_MAX_ENTRY_COUNT, CpuClkOSLimit
<1>2. isMariko = (soc = "Mariko")
  BY DEF BootInit
<1>3. soc \in Socs
  BY ImageFacts DEF BootInit, LoaderInit, PcvInit, soc
<1>4. card \in [DOMAIN Dirs -> Seq(Files)]
  BY SearchInit DEF SearchInv
<1> QED
  BY <1>1, <1>2, <1>3, <1>4, Zenon DEF ReadyInv

(* What is selected depends on the console and the file alone.             *)
LEMMA SameSelection ==
    ASSUME isMariko' = isMariko, NEW f, NEW c
    PROVE  /\ FilledCpu(f)' = FilledCpu(f)
           /\ ReadTable(f, GpuTableOf(c))' = ReadTable(f, GpuTableOf(c))
           /\ EmcClockOf(c)' = EmcClockOf(c)
<1>1. CpuTableOf(f.cust)' = CpuTableOf(f.cust)
  BY DEF CpuTableOf
<1>2. GpuTableOf(c)' = GpuTableOf(c)
  BY DEF GpuTableOf
<1>3. EmcClockOf(c)' = EmcClockOf(c)
  BY DEF EmcClockOf
<1>4. UsableCpu(f)' = UsableCpu(f)
  BY <1>1, SMT DEF UsableCpu
<1>5. ReadTable(f, GpuTableOf(c))' = ReadTable(f, GpuTableOf(c))
  BY <1>2, Zenon
<1> QED
  BY <1>3, <1>4, <1>5, Zenon DEF FilledCpu

(* The KIP f is accepted before anything is filled in.                     *)
LEMMA FilledIn ==
    ASSUME NEW f, freqTable = [CPU |-> EmptyTable, GPU |-> EmptyTable, MEM |-> StockMem],
           maxMemFreq = 0
    PROVE  /\ NewCpuTable(f) = FilledCpu(f)
           /\ NewMaxMemFreq(f.cust) = EmcClockOf(f.cust)
           /\ [freqTable["MEM"] EXCEPT ![FreeMemEntry] = NewMaxMemFreq(f.cust)] =
                  [StockMem EXCEPT ![6] = EmcClockOf(f.cust)]
<1>1. NewMaxMemFreq(f.cust) = EmcClockOf(f.cust)
  BY SMT DEF NewMaxMemFreq
<1>2. freqTable["CPU"] = [i \in 1..31 |-> 0] /\ freqTable["MEM"] = StockMem
  BY EmptyIs
<1>3. NewCpuTable(f) = FilledCpu(f)
  <2> DEFINE u == UsableCpu(f)
             t == freqTable["CPU"]
  <2>1. NewCpuTable(f) = [i \in 1..31 |-> IF i <= Len(u) THEN u[i] ELSE t[i]]
    BY Zenon DEF NewCpuTable, FREQ_TABLE_MAX_ENTRY_COUNT
  <2>2. FilledCpu(f) = [i \in 1..31 |-> IF i <= Len(u) THEN u[i] ELSE 0]
    BY Zenon DEF FilledCpu
  <2>3. t = [i \in 1..31 |-> 0]
    BY <1>2
  <2> HIDE DEF u, t
  <2>4. \A i \in 1..31 : (IF i <= Len(u) THEN u[i] ELSE t[i]) = (IF i <= Len(u) THEN u[i] ELSE 0)
    BY <2>3
  <2> QED
    BY <2>1, <2>2, <2>4, Zenon
<1>4. FreeMemEntry = 6
  BY <1>2, FreeIsSixth
<1> QED
  BY <1>1, <1>2, <1>3, <1>4, Zenon

LEMMA ReadyKept ==
    ASSUME ReadyInv, isMariko' = isMariko, soc' = soc, card' \in [DOMAIN Dirs -> Seq(Files)],
           UNCHANGED <<kip, clockVars>>,
           sysmodule' = sysmodule \/ (sysmodule # "ready" /\ sysmodule' # "ready")
    PROVE  ReadyInv'
<1>1. UNCHANGED <<kip, freqTable, maxMemFreq, boostCpuFreq>>
  BY DEF clockVars
<1>2. /\ FilledCpu(kip)' = FilledCpu(kip)
      /\ ReadTable(kip, GpuTableOf(kip.cust))' = ReadTable(kip, GpuTableOf(kip.cust))
      /\ EmcClockOf(kip.cust)' = EmcClockOf(kip.cust)
  <2>1. ASSUME NEW k, k = kip
        PROVE  /\ FilledCpu(k)' = FilledCpu(k)
               /\ ReadTable(k, GpuTableOf(k.cust))' = ReadTable(k, GpuTableOf(k.cust))
               /\ EmcClockOf(k.cust)' = EmcClockOf(k.cust)
    BY SameSelection
  <2> QED
    BY <1>1, <2>1
<1> QED
  BY <1>1, <1>2, Zenon DEF ReadyInv

LEMMA ReadyStep ==
    ASSUME ReadyInv, BootInv, SearchInv, [BootNext]_bootVars
    PROVE  ReadyInv'
<1> USE DirsLength
<1>1. isMariko' = isMariko /\ soc' = soc
  <2>1. isMariko' = isMariko
    BY BootStep DEF cpVars, CpNext, Launch, ReadEntry, NextDir, NoLoaderKip
  <2>2. nso' = nso
    BY BootStep DEF PcvNext, SafetyCheck, PatchWord, CheckResult, pcvVars
  <2> QED
    BY <2>1, <2>2 DEF soc
<1>2. card' \in [DOMAIN Dirs -> Seq(Files)]
  BY SearchStep DEF SearchInv
<1>3. CASE UNCHANGED cpVars
  <2>1. UNCHANGED <<kip, clockVars>> /\ sysmodule' = sysmodule
    BY <1>3, Zenon DEF cpVars
  <2> QED
    BY <1>1, <1>2, <2>1, ReadyKept, Zenon
<1>4. CASE Launch
  <2>1. UNCHANGED <<kip, clockVars>> /\ sysmodule # "ready" /\ sysmodule' # "ready"
    BY <1>4 DEF Launch
  <2> QED
    BY <1>1, <1>2, <2>1, ReadyKept, Zenon
<1>5. CASE NextDir
  <2>1. UNCHANGED <<kip, clockVars>> /\ sysmodule' = sysmodule
    BY <1>5 DEF NextDir
  <2> QED
    BY <1>1, <1>2, <2>1, ReadyKept, Zenon
<1>6. CASE NoLoaderKip
  <2>1. UNCHANGED <<kip, clockVars>> /\ sysmodule # "ready" /\ sysmodule' # "ready"
    BY <1>6 DEF NoLoaderKip
  <2> QED
    BY <1>1, <1>2, <2>1, ReadyKept, Zenon
<1>7. CASE ReadEntry
  <2>1. sysmodule = "search" /\ pos \in 1..Len(card[dir]) /\ dir \in DOMAIN Dirs
    BY <1>7 DEF ReadEntry, SearchInv
  <2>2. PICK f \in Files : f = card[dir][pos]
    BY <2>1 DEF ReadyInv
  <2>3. CASE UNCHANGED <<sysmodule, kip, clockVars>>
    <3>1. UNCHANGED <<kip, clockVars>> /\ sysmodule' = sysmodule
      BY <2>3, Zenon
    <3> QED
      BY <1>1, <1>2, <3>1, ReadyKept, Zenon
  <2>4. CASE /\ sysmodule' = "ready" /\ kip' = f
             /\ boostCpuFreq' = (IF f.cust.commonCpuBoostClock # 0
                                 THEN f.cust.commonCpuBoostClock ELSE boostCpuFreq)
             /\ maxMemFreq' = NewMaxMemFreq(f.cust)
             /\ freqTable' = [CPU |-> NewCpuTable(f), GPU |-> ReadTable(f, GpuTableOf(f.cust)),
                              MEM |-> [freqTable["MEM"] EXCEPT
                                          ![FreeMemEntry] = NewMaxMemFreq(f.cust)]]
    <3>1. /\ freqTable = [CPU |-> EmptyTable, GPU |-> EmptyTable, MEM |-> StockMem]
          /\ maxMemFreq = 0 /\ boostCpuFreq = CpuClkOSLimit
      BY <2>1 DEF ReadyInv
    <3>2. /\ freqTable' = [CPU |-> FilledCpu(f), GPU |-> ReadTable(f, GpuTableOf(f.cust)),
                           MEM |-> [StockMem EXCEPT ![6] = EmcClockOf(f.cust)]]
          /\ maxMemFreq' = EmcClockOf(f.cust)
          /\ boostCpuFreq' = (IF f.cust.commonCpuBoostClock # 0
                              THEN f.cust.commonCpuBoostClock ELSE CpuClkOSLimit)
      BY <2>4, <3>1, FilledIn, Zenon
    <3>3. /\ FilledCpu(f)' = FilledCpu(f)
          /\ ReadTable(f, GpuTableOf(f.cust))' = ReadTable(f, GpuTableOf(f.cust))
          /\ EmcClockOf(f.cust)' = EmcClockOf(f.cust)
      <4>1. ASSUME NEW c, c = f.cust
            PROVE  /\ FilledCpu(f)' = FilledCpu(f)
                   /\ ReadTable(f, GpuTableOf(c))' = ReadTable(f, GpuTableOf(c))
                   /\ EmcClockOf(c)' = EmcClockOf(c)
        BY <1>1, SameSelection
      <4> QED
        BY <4>1
    <3> QED
      BY <1>1, <1>2, <2>4, <3>2, <3>3, Zenon DEF ReadyInv
  <2> QED
    BY <1>7, <2>2, <2>3, <2>4, Zenon DEF ReadEntry
<1> QED
  BY BootStep, <1>3, <1>4, <1>5, <1>6, <1>7 DEF CpNext

(* A table of n ascending clocks with room behind them.                    *)
IsUsable(t, n) ==
    /\ t \in [1..31 -> Int] /\ n \in 1..30
    /\ \A i \in 1..n : t[i] # 0
    /\ \A i \in (n + 1)..31 : t[i] = 0
    /\ \A i \in 2..n : t[i - 1] <= t[i]

LEMMA UsableTable ==
    ASSUME NEW t, NEW n, IsUsable(t, n)
    PROVE  /\ Len(Prefix(t)) = n /\ Len(Prefix(t)) \in 1..30
           /\ \A i \in (Len(Prefix(t)) + 1)..31 : t[i] = 0
           /\ \A i \in 2..Len(Prefix(t)) : Prefix(t)[i - 1] <= Prefix(t)[i]
           /\ \A i \in 1..n : Prefix(t)[i] = t[i]
<1>1. /\ t \in [1..31 -> Int] /\ n \in 1..30
      /\ \A i \in 1..n : t[i] # 0
      /\ \A i \in (n + 1)..31 : t[i] = 0
      /\ \A i \in 2..n : t[i - 1] <= t[i]
  BY Zenon DEF IsUsable
<1>2. Len(t) = 31
  BY <1>1
<1>3. (\A i \in 1..n : t[i] \in Int /\ t[i] # 0) /\ t[n + 1] = 0
  BY <1>1
<1>4. Len(Prefix(t)) = n /\ \A i \in 1..n : Prefix(t)[i] = t[i]
  BY <1>1, <1>2, <1>3, PrefixIs, Zenon
<1>5. ASSUME NEW i \in 2..n PROVE Prefix(t)[i - 1] <= Prefix(t)[i]
  <2>1. i \in 1..n /\ i - 1 \in 1..n
    BY <1>1, <1>5
  <2> QED
    BY <1>1, <1>4, <1>5, <2>1
<1> QED
  BY <1>1, <1>4, <1>5

LEMMA CpuKhzUsable ==
    ASSUME NEW i \in 1..22
    PROVE  CpuKhz(i) >= 408000 <=> i >= 3
BY SMT DEF CpuKhz

LEMMA FilledCpuIs ==
    ASSUME NEW f \in Files, Whole(f), soc \in Socs, isMariko = (soc = "Mariko"),
           NEW n, n = CpuNew(soc, f.cust)
    PROVE  /\ n \in 19..22
           /\ UsableCpu(f) = [i \in 1..(n - 2) |-> CpuKhz(i + 2)]
           /\ FilledCpu(f) = [i \in 1..31 |-> IF i <= n - 2 THEN CpuKhz(i + 2) ELSE 0]
<1>1. n \in 19..22
  BY DEF CpuNew, Socs
<1> DEFINE name == CpuTableOf(f.cust)
           t == ReadTable(f, name)
<1>2. PICK k \in DOMAIN TableNames : name = TableNames[k]
  BY SelectedCpu
<1>3. Len(Contents(name)) = n /\ \A i \in 1..n : Contents(name)[i] = CpuKhz(i)
  BY SelectedCpu DEF BeginsCpu
<1>4. t = [i \in 1..31 |-> IF i <= n THEN Contents(name)[i] ELSE 0]
  <2>1. n \in 0..31 /\ Len(Contents(TableNames[k])) = n
    BY <1>1, <1>2, <1>3
  <2>2. ReadTable(f, TableNames[k]) =
            [i \in 1..31 |-> IF i <= n THEN Contents(TableNames[k])[i] ELSE 0]
    BY <2>1, TableReadIs
  <2> QED
    BY <1>2, <2>2
<1>5. UsableCpu(f) = AtLeast(t, 408000)
  BY SMT DEF UsableCpu
<1> HIDE DEF name, t
<1>6. /\ DOMAIN t = 1..31
      /\ \A i \in 1..n : t[i] = CpuKhz(i) /\ i \in 1..22
      /\ \A i \in 1..31 : i > n => t[i] = 0
  <2>1. DOMAIN t = 1..31
    BY <1>4
  <2>2. \A i \in 1..n : i \in 1..22 /\ i \in 1..31 /\ i <= n
    BY <1>1
  <2>3. \A i \in 1..n : t[i] = CpuKhz(i)
    BY <1>3, <1>4, <2>2
  <2>4. \A i \in 1..31 : i > n => t[i] = 0
    BY <1>1, <1>4
  <2> QED
    BY <2>1, <2>2, <2>3, <2>4
<1>7. ASSUME NEW i \in 1..31 PROVE t[i] >= 408000 <=> i \in 3..n
  <2>1. CASE i <= n
    <3>1. i \in 1..n
      BY <2>1
    <3>2. t[i] = CpuKhz(i) /\ i \in 1..22
      BY <1>6, <3>1
    <3> QED
      BY <1>1, <2>1, <3>2, CpuKhzUsable
  <2>2. CASE i > n
    <3>1. t[i] = 0
      BY <1>6, <2>2
    <3> QED
      BY <1>1, <2>2, <3>1
  <2> QED
    BY <1>1, <2>1, <2>2
<1>8. UsableCpu(f) = [i \in 1..(n - 2) |-> t[i + 2]]
  <2>1. n \in 3..31 /\ 31 \in Nat
    BY <1>1
  <2>2. UsableFromThird(t, 31, n, 408000)
    BY <1>6, <1>7, <2>1, SMT DEF UsableFromThird
  <2>3. \A s, d, m, khz : UsableFromThird(s, d, m, khz)
            => AtLeast(s, khz) = [i \in 1..(m - 2) |-> s[i + 2]]
    BY AtLeastIs, SMT
  <2>4. AtLeast(t, 408000) = [i \in 1..(n - 2) |-> t[i + 2]]
    BY <2>2, <2>3, SMT
  <2> QED
    BY <1>5, <2>4, SMT
<1>9. UsableCpu(f) = [i \in 1..(n - 2) |-> CpuKhz(i + 2)]
  <2>1. \A i \in 1..(n - 2) : i + 2 \in 1..n
    BY <1>1
  <2>2. \A i \in 1..(n - 2) : t[i + 2] = CpuKhz(i + 2)
    BY <1>6, <2>1
  <2> QED
    BY <1>8, <2>2
<1>10. FilledCpu(f) = [i \in 1..31 |-> IF i <= n - 2 THEN CpuKhz(i + 2) ELSE 0]
  <2> DEFINE u == UsableCpu(f)
  <2>1. u = [i \in 1..(n - 2) |-> CpuKhz(i + 2)]
    BY <1>9
  <2>2. FilledCpu(f) = [i \in 1..31 |-> IF i <= Len(u) THEN u[i] ELSE 0]
    BY Zenon DEF FilledCpu
  <2> HIDE DEF u
  <2>3. Len(u) = n - 2 /\ \A i \in 1..(n - 2) : u[i] = CpuKhz(i + 2)
    BY <1>1, <2>1
  <2>4. \A i \in 1..31 : (IF i <= Len(u) THEN u[i] ELSE 0) = (IF i <= n - 2 THEN CpuKhz(i + 2) ELSE 0)
    <3>1. Len(u) = n - 2
      BY <2>3
    <3>2. \A i \in 1..31 : i <= n - 2 => i \in 1..(n - 2)
      BY <1>1
    <3>3. \A i \in 1..31 : i <= n - 2 => u[i] = CpuKhz(i + 2)
      BY <2>3, <3>2, Zenon
    <3> QED
      BY <3>1, <3>3, Zenon
  <2> QED
    BY <2>2, <2>4, Zenon
<1> QED
  BY <1>1, <1>9, <1>10

LEMMA ReadGpuIs ==
    ASSUME NEW f \in Files, Whole(f), soc \in Socs, isMariko = (soc = "Mariko")
    PROVE  ReadTable(f, GpuTableOf(f.cust)) =
               [i \in 1..31 |-> IF i <= GpuNew(soc) THEN GpuKhz(i) ELSE 0]
<1> DEFINE name == GpuTableOf(f.cust)
           n == GpuNew(soc)
           t == ReadTable(f, name)
<1>1. n \in 0..31
  BY DEF GpuNew
<1>2. PICK k \in DOMAIN TableNames : name = TableNames[k]
  BY SelectedGpu
<1>3. Len(Contents(name)) = n /\ \A i \in 1..n : Contents(name)[i] = GpuKhz(i)
  BY SelectedGpu DEF BeginsGpu
<1>4. t = [i \in 1..31 |-> IF i <= n THEN Contents(name)[i] ELSE 0]
  <2>1. n \in 0..31 /\ Len(Contents(TableNames[k])) = n
    BY <1>1, <1>2, <1>3
  <2>2. ReadTable(f, TableNames[k]) =
            [i \in 1..31 |-> IF i <= n THEN Contents(TableNames[k])[i] ELSE 0]
    BY <2>1, TableReadIs
  <2> QED
    BY <1>2, <2>2
<1> HIDE DEF name, n, t
<1>5. \A i \in 1..31 : (IF i <= n THEN Contents(name)[i] ELSE 0) = (IF i <= n THEN GpuKhz(i) ELSE 0)
  BY <1>1, <1>3
<1>6. t = [i \in 1..31 |-> IF i <= n THEN GpuKhz(i) ELSE 0]
  BY <1>4, <1>5, Zenon
<1> QED
  BY <1>6 DEF name, n, t

LEMMA CpuUsable ==
    ASSUME NEW f \in Files, Whole(f), soc \in Socs, isMariko = (soc = "Mariko")
    PROVE  IsUsable(FilledCpu(f), CpuNew(soc, f.cust) - 2)
<1> DEFINE n == CpuNew(soc, f.cust)
           t == FilledCpu(f)
<1>1. n \in 19..22 /\ t = [i \in 1..31 |-> IF i <= n - 2 THEN CpuKhz(i + 2) ELSE 0]
  BY FilledCpuIs
<1> HIDE DEF n, t
<1>2. \A i \in 1..(n - 2) : i + 2 \in 1..22 /\ i \in 1..31
  BY <1>1
<1>3. \A i \in 1..(n - 2) : t[i] = CpuKhz(i + 2)
  BY <1>1, <1>2
<1>4. \A i \in 1..(n - 2) : CpuKhz(i + 2) \in Int /\ CpuKhz(i + 2) # 0
  BY <1>2, CpuKhzIs
<1>5. \A i \in (n - 1)..31 : t[i] = 0
  BY <1>1
<1>6. t \in [1..31 -> Int]
  <2>1. \A i \in 1..31 : (IF i <= n - 2 THEN CpuKhz(i + 2) ELSE 0) \in Int
    <3>1. \A i \in 1..31 : i <= n - 2 => i \in 1..(n - 2)
      BY <1>1
    <3> QED
      BY <1>4, <3>1
  <2> QED
    BY <1>1, <2>1, Zenon
<1>7. ASSUME NEW i \in 2..(n - 2) PROVE t[i - 1] <= t[i]
  <2>1. i - 1 \in 1..(n - 2) /\ i \in 1..(n - 2) /\ i + 1 \in 1..21 /\ i - 1 + 2 = i + 1
    BY <1>1
  <2>2. CpuKhz(i + 1) < CpuKhz(i + 1 + 1)
    BY <2>1, CpuKhzAscends
  <2>3. i + 1 + 1 = i + 2
    OBVIOUS
  <2>4. t[i - 1] = CpuKhz(i + 1) /\ t[i] = CpuKhz(i + 2)
    BY <1>3, <2>1
  <2>5. t[i - 1] \in Int /\ t[i] \in Int
    BY <1>4, <2>1, <2>4
  <2> QED
    BY <2>2, <2>3, <2>4, <2>5
<1>8. n - 2 \in 1..30 /\ n - 2 + 1 = n - 1
  BY <1>1
<1>9. \A i \in 1..(n - 2) : t[i] # 0
  BY <1>3, <1>4
<1> QED
  BY <1>5, <1>6, <1>7, <1>8, <1>9 DEF IsUsable, n, t

LEMMA GpuUsable ==
    ASSUME NEW f \in Files, Whole(f), soc \in Socs, isMariko = (soc = "Mariko")
    PROVE  IsUsable(ReadTable(f, GpuTableOf(f.cust)), GpuNew(soc))
<1> DEFINE n == GpuNew(soc)
           t == ReadTable(f, GpuTableOf(f.cust))
<1>1. t = [i \in 1..31 |-> IF i <= n THEN GpuKhz(i) ELSE 0]
  BY ReadGpuIs
<1>2. n \in 1..17
  BY DEF GpuNew
<1> HIDE DEF n, t
<1>3. \A i \in 1..n : i \in 1..17 /\ i \in 1..31
  BY <1>2
<1>4. \A i \in 1..n : GpuKhz(i) \in Int /\ GpuKhz(i) # 0
  BY <1>3, GpuKhzIs
<1>5. \A i \in 1..n : t[i] = GpuKhz(i)
  BY <1>1, <1>2, <1>3
<1>6. t \in [1..31 -> Int]
  <2>1. \A i \in 1..31 : (IF i <= n THEN GpuKhz(i) ELSE 0) \in Int
    <3>1. \A i \in 1..31 : i <= n => i \in 1..n
      BY <1>2
    <3> QED
      BY <1>4, <3>1
  <2> QED
    BY <1>1, <2>1, Zenon
<1>7. ASSUME NEW i \in 2..n PROVE t[i - 1] <= t[i]
  <2>1. i - 1 \in 1..n /\ i \in 1..n /\ i - 1 \in 1..16
    BY <1>2
  <2>2. GpuKhz(i - 1) < GpuKhz(i - 1 + 1)
    BY <2>1, GpuKhzAscends
  <2>3. i - 1 + 1 = i
    OBVIOUS
  <2>4. t[i - 1] = GpuKhz(i - 1) /\ t[i] = GpuKhz(i)
    BY <1>5, <2>1
  <2>5. t[i - 1] \in Int /\ t[i] \in Int
    BY <1>4, <2>1, <2>4
  <2> QED
    BY <2>2, <2>3, <2>4, <2>5
<1>8. \A i \in (n + 1)..31 : t[i] = 0
  BY <1>1, <1>2
<1>9. n \in 1..30 /\ \A i \in 1..n : t[i] # 0
  BY <1>2, <1>4, <1>5
<1> QED
  BY <1>6, <1>7, <1>8, <1>9 DEF IsUsable, n, t

LEMMA MemUsable ==
    ASSUME NEW e, e \in Nat, e = 0 \/ e >= EmcClkOSLimit
    PROVE  LET t == [StockMem EXCEPT ![6] = e] IN
           IF e = 0 THEN IsUsable(t, 5) ELSE IsUsable(t, 6) /\ t[6] = e
<1> DEFINE t == [StockMem EXCEPT ![6] = e]
<1>1. e = 0 \/ e >= EmcClkOSLimit
  OBVIOUS
<1>2. /\ t \in [1..31 -> Int] /\ t[6] = e
      /\ \A i \in 1..5 : t[i] = MemTable[i]
      /\ \A i \in 7..31 : t[i] = 0
  BY StockMemIs, SMT
<1> HIDE DEF t
<1>3. /\ \A i \in 1..5 : MemTable[i] \in Int /\ MemTable[i] # 0 /\ MemTable[i] <= EmcClkOSLimit
      /\ \A i \in 2..5 : MemTable[i - 1] <= MemTable[i]
  BY StockMemIs
<1>4. \A i \in 2..5 : t[i - 1] <= t[i]
  <2>1. \A i \in 2..5 : i - 1 \in 1..5 /\ i \in 1..5
    OBVIOUS
  <2> QED
    BY <1>2, <1>3, <2>1
<1>5. CASE e = 0
  <2>1. \A i \in 6..31 : t[i] = 0
    BY <1>2, <1>5, SMT
  <2>2. \A i \in 1..5 : t[i] # 0
    BY <1>2, <1>3
  <2> QED
    BY <1>2, <1>4, <1>5, <2>1, <2>2 DEF IsUsable, t
<1>6. CASE e # 0
  <2>1. \A i \in 1..6 : t[i] # 0
    BY <1>2, <1>3, <1>6
  <2>2. \A i \in 2..6 : t[i - 1] <= t[i]
    <3>1. t[5] <= t[6]
      <4>1. EmcClkOSLimit \in Int
        BY SMT DEF EmcClkOSLimit
      <4>2. 5 \in 1..5 /\ t[5] = MemTable[5]
        BY <1>2
      <4> QED
        BY <1>1, <1>2, <1>3, <1>6, <4>1, <4>2, SMT
    <3> QED
      BY <1>4, <3>1
  <2> QED
    BY <1>2, <1>6, <2>1, <2>2 DEF IsUsable, t
<1> QED
  BY <1>5, <1>6, Zenon

LEMMA SixthLast ==
    ASSUME NEW t, IsUsable(t, 6)
    PROVE  Last(Prefix(t)) = t[6]
<1>1. Len(Prefix(t)) = 6 /\ \A i \in 1..6 : Prefix(t)[i] = t[i]
  <2>1. ASSUME NEW n, IsUsable(t, n)
        PROVE  Len(Prefix(t)) = n /\ \A i \in 1..n : Prefix(t)[i] = t[i]
    BY <2>1, UsableTable
  <2> QED
    BY <2>1, Zenon
<1> QED
  BY <1>1, SMT DEF Last

(* For every card and customisation: after a whole KIP with a memory clock *)
(* the loader would accept, the tables are what module Clocks assumes.     *)
THEOREM TablesAreUsable == BootSpec => []TablesUsable
<1>1. ReadyInv => TablesUsable
  <2> SUFFICES ASSUME ReadyInv, sysmodule = "ready", Whole(kip),
                      InRange(EmcClockOf(kip.cust), EmcClkOSLimit, 2800000)
               PROVE  /\ \A m \in {"CPU", "GPU", "MEM"} :
                          LET t == Prefix(freqTable[m]) IN
                          /\ Len(t) \in 1..(FREQ_TABLE_MAX_ENTRY_COUNT - 1)
                          /\ \A i \in (Len(t) + 1)..FREQ_TABLE_MAX_ENTRY_COUNT : freqTable[m][i] = 0
                          /\ \A i \in 2..Len(t) : t[i - 1] <= t[i]
                      /\ maxMemFreq \in {0, Last(Prefix(freqTable["MEM"]))}
    BY SMT DEF TablesUsable
  <2> DEFINE e == EmcClockOf(kip.cust)
             mem == [StockMem EXCEPT ![6] = e]
  <2>1. /\ isMariko = (soc = "Mariko") /\ soc \in Socs
        /\ kip \in Files
        /\ freqTable = [CPU |-> FilledCpu(kip), GPU |-> ReadTable(kip, GpuTableOf(kip.cust)), MEM |-> mem]
        /\ maxMemFreq = e
    BY SMT DEF ReadyInv
  <2>2. e \in Nat /\ (e = 0 \/ e >= EmcClkOSLimit)
    <3>1. kip.cust \in CustomizeTable
      BY <2>1 DEF Files
    <3>2. e \in Nat
      BY <3>1 DEF EmcClockOf, CustomizeTable
    <3> QED
      BY <3>2, BetweenDef, SMT DEF InRange, EmcClkOSLimit
  <2>3. IsUsable(freqTable["CPU"], CpuNew(soc, kip.cust) - 2)
    BY <2>1, CpuUsable
  <2>4. IsUsable(freqTable["GPU"], GpuNew(soc))
    BY <2>1, GpuUsable
  <2>5. IF e = 0 THEN IsUsable(mem, 5) ELSE IsUsable(mem, 6) /\ mem[6] = e
    BY <2>2, MemUsable
  <2> HIDE DEF e, mem
  <2>6. freqTable["MEM"] = mem
    BY <2>1, SMT
  <2>7. \A m \in {"CPU", "GPU", "MEM"} : \E n : IsUsable(freqTable[m], n)
    BY <2>3, <2>4, <2>5, <2>6, SMT
  <2>8. ASSUME NEW m \in {"CPU", "GPU", "MEM"}
        PROVE  LET t == Prefix(freqTable[m]) IN
               /\ Len(t) \in 1..(FREQ_TABLE_MAX_ENTRY_COUNT - 1)
               /\ \A i \in (Len(t) + 1)..FREQ_TABLE_MAX_ENTRY_COUNT : freqTable[m][i] = 0
               /\ \A i \in 2..Len(t) : t[i - 1] <= t[i]
    <3>1. PICK n : IsUsable(freqTable[m], n)
      BY <2>7
    <3>2. FREQ_TABLE_MAX_ENTRY_COUNT = 31 /\ FREQ_TABLE_MAX_ENTRY_COUNT - 1 = 30
      BY SMT DEF FREQ_TABLE_MAX_ENTRY_COUNT
    <3> DEFINE t == Prefix(freqTable[m])
    <3>3. /\ Len(t) \in 1..30
          /\ \A i \in (Len(t) + 1)..31 : freqTable[m][i] = 0
          /\ \A i \in 2..Len(t) : t[i - 1] <= t[i]
      BY <3>1, UsableTable
    <3> QED
      BY <3>2, <3>3, SMT
  <2>9. maxMemFreq \in {0, Last(Prefix(freqTable["MEM"]))}
    <3>1. CASE e = 0
      BY <2>1, <3>1, SMT
    <3>2. CASE e # 0
      <4>1. IsUsable(mem, 6) /\ mem[6] = e
        BY <2>5, <3>2, SMT
      <4>2. ASSUME NEW t, IsUsable(t, 6), t[6] = e PROVE Last(Prefix(t)) = e
        BY <4>2, SixthLast, SMT
      <4>3. Last(Prefix(mem)) = e
        BY <4>1, <4>2, SMT
      <4> QED
        BY <2>1, <2>6, <4>3, SMT
    <3> QED
      BY <3>1, <3>2, SMT
  <2> QED
    BY <2>8, <2>9, SMT
<1>2. BootInv /\ SearchInv /\ ReadyInv /\ [BootNext]_bootVars => ReadyInv'
  BY ReadyStep
<1> QED
  BY <1>1, <1>2, BootInvInit, BootInvStep, SearchInit, SearchStep, ReadyInit, PTL DEF BootSpec

-----------------------------------------------------------------------------
(***************************************************************************)
(* The clocks of the sysmodule and those of the driver.                    *)
(***************************************************************************)
(* The CPU clock a configuration for boost mode gets.                      *)
BoostClock == IF boost # 0 THEN boost ELSE CpuClkOSLimit

(* The entries that were looked at are patched, the others are as they were.*)
BoostInv ==
    /\ ptm # "unloaded" => boost = cust.commonCpuBoostClock
    /\ ptm = "find" => conf = image
    /\ ptm \in {"apply", "accepted"} =>
        /\ \A i \in 0..(entry - 1) : image[EntryAt(table, i) + 1] = cpuPtmBoost =>
              conf[EntryAt(table, i) + 1] = BoostClock
        /\ \A i \in entry..(entryCnt - 1) : conf[EntryAt(table, i) + 1] = image[EntryAt(table, i) + 1]
    /\ sysmodule # "off" => ptm = "accepted"

LEMMA EntryBoosted ==
    ASSUME NEW w \in Seq(Int), NEW a \in Int, a + 1 \in DOMAIN w, boost \in Int
    PROVE  LET v == MemPtm(CpuPtmBoost(w, a), a) IN
           w[a + 1] = cpuPtmBoost => v[a + 1] = BoostClock
<1> DEFINE u == CpuPtmBoost(w, a)
           v == MemPtm(u, a)
<1> SUFFICES ASSUME w[a + 1] = cpuPtmBoost PROVE v[a + 1] = BoostClock
  OBVIOUS
<1>0. cpuPtmBoost = CpuClkOSLimit
  BY SMT DEF cpuPtmBoost, CpuClkOSLimit
<1> HIDE DEF cpuPtmBoost, CpuClkOSLimit
<1>1. /\ a + 1 # a + 2 /\ a + 1 # a + 5 /\ a + 1 # a + 6
  OBVIOUS
<1>2. u = IF boost # 0 THEN [w EXCEPT ![a + 1] = boost, ![a + 2] = boost] ELSE w
  BY Zenon DEF CpuPtmBoost
<1>3. DOMAIN u = DOMAIN w /\ u[a + 1] = BoostClock
  <2>1. CASE boost # 0
    <3>1. u = [w EXCEPT ![a + 1] = boost, ![a + 2] = boost] /\ BoostClock = boost
      BY <1>2, <2>1 DEF BoostClock
    <3> HIDE DEF u
    <3> QED
      BY <1>1, <3>1
  <2>2. CASE boost = 0
    <3>1. u = w /\ BoostClock = cpuPtmBoost
      BY <1>0, <1>2, <2>2 DEF BoostClock
    <3> HIDE DEF u
    <3> QED
      BY <3>1
  <2> QED
    BY <2>1, <2>2
<1> HIDE DEF u
<1>4. v = u \/ v = [u EXCEPT ![a + 5] = memPtmLimit, ![a + 6] = memPtmLimit]
  BY Zenon DEF MemPtm
<1> HIDE DEF v
<1>5. v[a + 1] = u[a + 1]
  <2>1. CASE v = u
    BY <2>1, Zenon
  <2>2. CASE v = [u EXCEPT ![a + 5] = memPtmLimit, ![a + 6] = memPtmLimit]
    BY <1>1, <1>3, <2>2, Zenon
  <2> QED
    BY <1>4, <2>1, <2>2
<1> QED
  BY <1>3, <1>5 DEF v, u

LEMMA BoostInit == BootInit => BoostInv
BY DEF BootInit, LoaderInit, PtmInit, CpInit, BoostInv

LEMMA BoostKept ==
    ASSUME BoostInv, UNCHANGED <<image, table, entry, conf, boost, cust>>,
           ptm' = ptm \/ (ptm' = "crash" /\ ptm \in {"find", "apply"}) \/ (ptm' = "accepted" /\ ptm = "apply"),
           sysmodule' # "off" => ptm' = "accepted"
    PROVE  BoostInv'
<1>0. BoostClock' = BoostClock
  BY DEF BoostClock
<1>1. CASE ptm' = ptm
  BY <1>0, <1>1, Zenon DEF BoostInv
<1>2. CASE ptm' = "crash" /\ ptm \in {"find", "apply"}
  BY <1>2 DEF BoostInv
<1>3. CASE ptm' = "accepted" /\ ptm = "apply"
  BY <1>0, <1>3, Zenon DEF BoostInv
<1> QED
  BY <1>1, <1>2, <1>3

LEMMA BoostStep ==
    ASSUME PtmInv, PcvTypeOK, RatesInv, BoostInv, [BootNext]_bootVars
    PROVE  BoostInv'
<1>0. entryCnt \in Nat /\ entryCnt >= 1 /\ Len(conf) \in Nat
  BY entryCntAssumption, ImageFacts DEF PtmInv, PcvTypeOK, soc
<1>1. cust' = cust
  BY BootStep DEF PcvNext, SafetyCheck, PatchWord, CheckResult, pcvVars
<1>2. CASE UNCHANGED ptmVars
  <2>1. sysmodule' # "off" => ptm' = "accepted"
    <3>1. sysmodule' # "off" => sysmodule # "off" \/ ptm = "accepted"
      BY BootStep, <1>2 DEF cpVars, BootNext, Patching, Starting, bootVars
    <3> QED
      BY <1>2, <3>1 DEF BoostInv, ptmVars
  <2> QED
    BY <1>1, <1>2, <2>1, BoostKept, Zenon DEF ptmVars
<1>3. CASE StartPtm /\ UNCHANGED cpVars
  <2>0. sysmodule' = sysmodule /\ (sysmodule # "off" => ptm = "accepted")
    BY <1>3 DEF cpVars, BoostInv
  <2>1. CASE LoadPtm(soc, cust.commonCpuBoostClock)
    <3>1. ptm = "unloaded" /\ ptm' = "find" /\ conf' = image' /\ boost' = cust.commonCpuBoostClock
      BY <2>1, Zenon DEF LoadPtm
    <3> QED
      BY <1>1, <2>0, <3>1 DEF BoostInv
  <2>2. CASE FindTable
    <3>1. ptm = "find" /\ UNCHANGED <<image, conf, entry, boost>> /\ sysmodule = "off"
      BY <2>0, <2>2 DEF FindTable
    <3>2. CASE ptm' = "crash" /\ UNCHANGED table
      BY <1>1, <2>0, <3>1, <3>2, BoostKept, Zenon
    <3>3. CASE ptm' = "apply"
      <4>1. entry' = 0 /\ conf = image
        BY <3>1 DEF PtmInv, BoostInv
      <4>2. \A i \in 0..(entry' - 1) : FALSE
        BY <4>1
      <4>3. \A i \in entry'..(entryCnt - 1) :
               conf'[EntryAt(table', i) + 1] = image'[EntryAt(table', i) + 1]
        BY <3>1, <4>1, Zenon
      <4>4. boost' = cust'.commonCpuBoostClock
        BY <1>1, <3>1 DEF BoostInv
      <4> QED
        BY <2>0, <3>1, <3>3, <4>2, <4>3, <4>4 DEF BoostInv
    <3> QED
      BY <2>2, <3>2, <3>3 DEF FindTable
  <2>3. CASE PatchEntry
    <3> DEFINE a == EntryAt(table, entry)
    <3>1. /\ ptm = "apply" /\ entry < entryCnt /\ UNCHANGED <<image, table, boost>>
          /\ sysmodule = "off"
      BY <2>0, <2>3 DEF PatchEntry
    <3>2. CASE ptm' = "crash" /\ UNCHANGED <<conf, entry, boosts, mems>>
      BY <1>1, <2>0, <3>1, <3>2, BoostKept
    <3>3. CASE /\ Recognised(conf, a) /\ conf' = MemPtm(CpuPtmBoost(conf, a), a)
               /\ entry' = entry + 1 /\ ptm' = ptm
      <4>1. /\ console = soc /\ table >= 1 /\ table + EntrySize * entryCnt - 1 <= Len(conf) /\ soc \in Socs
            /\ \A i \in 0..(entry - 1) : image[EntryAt(table, i) + 1] = cpuPtmBoost =>
                  conf[EntryAt(table, i) + 1] = BoostClock
            /\ \A i \in entry..(entryCnt - 1) :
                  conf[EntryAt(table, i) + 1] = image[EntryAt(table, i) + 1]
        BY <3>1, ImageFacts DEF RatesInv, BoostInv, PcvTypeOK, soc
      <4>2. /\ conf \in Seq(Int) /\ boost \in Int /\ table \in Int /\ entry \in Int /\ entry >= 0
            /\ DOMAIN conf = 1..Len(conf)
        BY <1>0 DEF PtmInv
      <4>3. \A i \in 0..(entryCnt - 1) : \A k \in 1..6 : EntryAt(table, i) + k \in DOMAIN conf
        BY <1>0, <3>1, <4>1, <4>2 DEF EntryAt, EntrySize
      <4>4. a \in Int /\ a >= 1 /\ a + 1 \in DOMAIN conf /\ a + 5 \in DOMAIN conf /\ a + 6 \in DOMAIN conf
        <5>1. entry \in 0..(entryCnt - 1)
          BY <1>0, <3>1, <4>2
        <5> QED
          BY <4>1, <4>2, <4>3, <5>1 DEF EntryAt, EntrySize
      <4>5. a = EntryAt(table, entry)
        OBVIOUS
      <4> HIDE DEF a
      <4>6. \A b \in DOMAIN conf : b # a + 1 /\ b # a + 2 /\ b # a + 5 /\ b # a + 6 => conf'[b] = conf[b]
        <5>1. LET v == MemPtm(CpuPtmBoost(conf, a), a) IN
              \A b \in DOMAIN conf : b # a + 1 /\ b # a + 2 /\ b # a + 5 /\ b # a + 6 => v[b] = conf[b]
          BY <3>3, <4>1, <4>2, <4>4, EntryRates
        <5> QED
          BY <3>3, <5>1, Zenon
      <4>7. conf[a + 1] = cpuPtmBoost => conf'[a + 1] = BoostClock
        BY <3>3, <4>2, <4>4, EntryBoosted, Zenon
      <4>8. BoostClock' = BoostClock
        BY <3>1 DEF BoostClock
      <4>9. ASSUME NEW i \in 0..(entry' - 1), image'[EntryAt(table', i) + 1] = cpuPtmBoost
            PROVE  conf'[EntryAt(table', i) + 1] = BoostClock
        <5>1. CASE i = entry
          <6>1. image[a + 1] = conf[a + 1]
            <7>1. entry \in entry..(entryCnt - 1)
              BY <1>0, <3>1, <4>2
            <7> QED
              BY <4>1, <4>5, <7>1, Zenon
          <6> QED
            BY <3>1, <4>5, <4>7, <4>9, <5>1, <6>1, Zenon
        <5>2. CASE i # entry
          <6>1. i \in 0..(entry - 1) /\ i \in 0..(entryCnt - 1) /\ i \in Int
            BY <1>0, <3>1, <3>3, <4>2, <5>2
          <6>2. /\ EntryAt(table, i) + 1 # a + 1 /\ EntryAt(table, i) + 1 # a + 2
                /\ EntryAt(table, i) + 1 # a + 5 /\ EntryAt(table, i) + 1 # a + 6
            BY <4>2, <4>5, <6>1 DEF EntryAt, EntrySize
          <6>3. EntryAt(table, i) + 1 \in DOMAIN conf
            BY <4>3, <6>1
          <6>4. conf'[EntryAt(table, i) + 1] = conf[EntryAt(table, i) + 1]
            BY <4>6, <6>2, <6>3, Zenon
          <6> QED
            BY <3>1, <4>1, <4>9, <6>1, <6>4, Zenon
        <5> QED
          BY <5>1, <5>2
      <4>10. ASSUME NEW i \in entry'..(entryCnt - 1)
             PROVE  conf'[EntryAt(table', i) + 1] = image'[EntryAt(table', i) + 1]
        <5>1. i \in entry..(entryCnt - 1) /\ i \in 0..(entryCnt - 1) /\ i \in Int /\ i > entry
          BY <1>0, <3>3, <4>2
        <5>2. /\ EntryAt(table, i) + 1 # a + 1 /\ EntryAt(table, i) + 1 # a + 2
              /\ EntryAt(table, i) + 1 # a + 5 /\ EntryAt(table, i) + 1 # a + 6
          BY <4>2, <4>5, <5>1 DEF EntryAt, EntrySize
        <5>3. conf'[EntryAt(table, i) + 1] = conf[EntryAt(table, i) + 1]
          BY <4>3, <4>6, <5>1, <5>2
        <5> QED
          BY <3>1, <4>1, <5>1, <5>3, Zenon
      <4>11. boost' = cust'.commonCpuBoostClock
        BY <1>1, <3>1 DEF BoostInv
      <4> QED
        BY <2>0, <3>1, <3>3, <4>8, <4>9, <4>10, <4>11 DEF BoostInv
    <3> QED
      BY <2>3, <3>2, <3>3, Zenon DEF PatchEntry
  <2>4. CASE PtmCheckResult
    <3>1. /\ ptm = "apply" /\ UNCHANGED <<image, conf, boost, table, entry>> /\ sysmodule = "off"
          /\ ptm' = "accepted" \/ ptm' = "crash"
      BY <2>0, <2>4 DEF PtmCheckResult
    <3> QED
      BY <1>1, <2>0, <3>1, BoostKept
  <2> QED
    BY <1>3, <2>1, <2>2, <2>3, <2>4 DEF StartPtm, PtmNext
<1> QED
  BY <1>2, <1>3, BootStep

(* A revision aside, the KIP holds the values the loader runs with.        *)
LEMMA SameChoice ==
    ASSUME NEW c \in CustomizeTable, NEW k \in CustomizeTable, [k EXCEPT !.custRev = CUST_REV] = c,
           soc \in Socs, isMariko = (soc = "Mariko")
    PROVE  /\ CpuNew(soc, k) = CpuNew(soc, c)
           /\ EmcClockOf(k) = EmcMaxClock(soc, c)
           /\ k.commonCpuBoostClock = c.commonCpuBoostClock
<1>1. /\ k.commonCpuBoostClock = c.commonCpuBoostClock /\ k.marikoCpuUV = c.marikoCpuUV
      /\ k.marikoEmcMaxClock = c.marikoEmcMaxClock /\ k.eristaEmcMaxClock = c.eristaEmcMaxClock
  BY SMT DEF CustomizeTable
<1>2. CpuNew(soc, k) = CpuNew(soc, c)
  BY <1>1, Zenon DEF CpuNew
<1>3. EmcClockOf(k) = EmcMaxClock(soc, c)
  <2>1. CASE isMariko
    <3>1. soc = "Mariko" /\ EmcClockOf(k) = k.marikoEmcMaxClock
      BY <2>1, Zenon DEF EmcClockOf
    <3>2. EmcMaxClock(soc, c) = c.marikoEmcMaxClock
      BY <3>1, Zenon DEF EmcMaxClock
    <3> QED
      BY <1>1, <3>1, <3>2
  <2>2. CASE ~isMariko
    <3>1. soc # "Mariko" /\ EmcClockOf(k) = k.eristaEmcMaxClock
      BY <2>2, Zenon DEF EmcClockOf
    <3>2. EmcMaxClock(soc, c) = c.eristaEmcMaxClock
      BY <3>1, Zenon DEF EmcMaxClock
    <3> QED
      BY <1>1, <3>1, <3>2
  <2> QED
    BY <2>1, <2>2
<1> QED
  BY <1>1, <1>2, <1>3

(* The first n of the CPU's clocks.                                        *)
ListsCpu(t, n) == n \in 19..22 /\ DOMAIN t = 1..n /\ \A i \in 1..n : t[i] = CpuKhz(i)

(* The clock below which CustParser skips an entry.                        *)
IsLeastCpu(khz) == khz = 408000

FromThird(t, n) == [i \in 1..(n - 2) |-> t[i + 2]]

LEMMA KhzAtLeast ==
    ASSUME NEW t, NEW n, ListsCpu(t, n), NEW khz, IsLeastCpu(khz)
    PROVE  AtLeast(t, khz) = FromThird(t, n)
<1>1. n \in 19..22 /\ DOMAIN t = 1..n /\ \A i \in 1..n : t[i] = CpuKhz(i)
  BY SMT DEF ListsCpu
<1>2. ASSUME NEW i \in 1..n PROVE t[i] >= 408000 <=> i \in 3..n
  <2>1. i \in 1..22 /\ i <= n
    BY <1>1
  <2>2. CpuKhz(i) >= 408000 <=> i >= 3
    BY <2>1, CpuKhzUsable
  <2>3. t[i] = CpuKhz(i)
    BY <1>1
  <2> QED
    BY <1>1, <2>1, <2>2, <2>3, SMT
<1>3. UsableFromThird(t, n, n, khz)
  BY <1>1, <1>2, SMT DEF UsableFromThird, IsLeastCpu
<1>4. \A s, d, m, k : UsableFromThird(s, d, m, k) => AtLeast(s, k) = [i \in 1..(m - 2) |-> s[i + 2]]
  BY AtLeastIs, SMT
<1> QED
  BY <1>3, <1>4, SMT DEF FromThird

(* What the sysmodule offers of a table.                                   *)
LEMMA OfferedIs ==
    ASSUME NEW t, NEW n, IsUsable(t, n)
    PROVE  Prefix(t) = [i \in 1..n |-> t[i]]
<1>1. /\ t \in [1..31 -> Int] /\ n \in 1..30
      /\ \A i \in 1..n : t[i] # 0
      /\ \A i \in (n + 1)..31 : t[i] = 0
  BY Zenon DEF IsUsable
<1>2. Len(t) = 31 /\ n \in Nat
  BY <1>1
<1>3. (\A i \in 1..n : t[i] \in Int /\ t[i] # 0) /\ t[n + 1] = 0
  BY <1>1
<1>4. Prefix(t) \in Seq(Int) /\ Len(Prefix(t)) = n /\ \A i \in 1..n : Prefix(t)[i] = t[i]
  BY <1>1, <1>2, <1>3, PrefixIs, Zenon
<1> DEFINE s == Prefix(t)
<1>5. s \in Seq(Int) /\ Len(s) = n /\ \A i \in 1..n : s[i] = t[i]
  BY <1>4
<1> HIDE DEF s
<1>6. s = [i \in 1..n |-> t[i]]
  BY <1>2, <1>5, SameSeq
<1> QED
  BY <1>6 DEF s

LEMMA CpuOffered ==
    ASSUME NEW f \in Files, Whole(f), soc \in Socs, isMariko = (soc = "Mariko"),
           NEW k, k = [i \in 1..CpuNew(soc, f.cust) |-> CpuKhz(i)]
    PROVE  Prefix(FilledCpu(f)) = AtLeast(k, 408000)
<1> DEFINE n == CpuNew(soc, f.cust)
           t == FilledCpu(f)
<1>0. n \in 19..22
  BY DEF CpuNew, Socs
<1>1. t = [i \in 1..31 |-> IF i <= n - 2 THEN CpuKhz(i + 2) ELSE 0]
  BY FilledCpuIs
<1>2. IsUsable(t, n - 2)
  BY CpuUsable
<1>3. DOMAIN k = 1..n /\ \A i \in 1..n : k[i] = CpuKhz(i)
  OBVIOUS
<1> HIDE DEF t, n
<1>4. PICK khz : IsLeastCpu(khz)
  BY SMT DEF IsLeastCpu
<1> DEFINE q == AtLeast(k, khz)
<1>5. q = FromThird(k, n)
  <2>1. ListsCpu(k, n)
    BY <1>0, <1>3, SMT DEF ListsCpu
  <2> QED
    BY <1>4, <2>1, KhzAtLeast, Zenon
<1> HIDE DEF q
<1>6. \A i \in 1..(n - 2) : t[i] = k[i + 2]
  <2>1. \A i \in 1..(n - 2) : i \in 1..31 /\ i <= n - 2 /\ i + 2 \in 1..n
    BY <1>0
  <2>2. \A i \in 1..(n - 2) : t[i] = CpuKhz(i + 2)
    BY <1>1, <2>1
  <2>3. \A i \in 1..(n - 2) : k[i + 2] = CpuKhz(i + 2)
    BY <1>3, <2>1
  <2> QED
    BY <2>2, <2>3
<1>7. Prefix(t) = [i \in 1..(n - 2) |-> t[i]]
  BY <1>2, OfferedIs
<1>8. [i \in 1..(n - 2) |-> t[i]] = FromThird(k, n)
  BY <1>6 DEF FromThird
<1>9. Prefix(t) = q
  BY <1>7, <1>8, <1>5, Zenon
<1> QED
  BY <1>4, <1>9, SMT DEF t, q, IsLeastCpu

LEMMA GpuOffered ==
    ASSUME NEW f \in Files, Whole(f), soc \in Socs, isMariko = (soc = "Mariko")
    PROVE  Prefix(ReadTable(f, GpuTableOf(f.cust))) = GpuKhzList
<1> DEFINE n == GpuNew(soc)
           t == ReadTable(f, GpuTableOf(f.cust))
<1>1. t = [i \in 1..31 |-> IF i <= n THEN GpuKhz(i) ELSE 0]
  BY ReadGpuIs
<1>2. IsUsable(t, n)
  BY GpuUsable
<1>3. GpuKhzList = [i \in 1..n |-> GpuKhz(i)]
  BY DEF GpuKhzList
<1>4. n \in 1..17
  BY DEF GpuNew
<1> HIDE DEF n, t
<1>5. \A i \in 1..n : t[i] = GpuKhz(i)
  <2>1. \A i \in 1..n : i \in 1..31 /\ i <= n
    BY <1>4
  <2> QED
    BY <1>1, <2>1
<1>6. Prefix(t) = [i \in 1..n |-> t[i]]
  BY <1>2, OfferedIs
<1>7. [i \in 1..n |-> t[i]] = [i \in 1..n |-> GpuKhz(i)]
  BY <1>5
<1> QED
  BY <1>3, <1>6, <1>7 DEF t

MatchInv == LaidInv /\ RatesInv /\ SearchInv /\ ReadyInv /\ BoostInv

LEMMA MatchInit == BootInit => MatchInv
BY LaidInvInit, RatesInit, SearchInit, ReadyInit, BoostInit DEF MatchInv

LEMMA MatchStep == MatchInv /\ [BootNext]_bootVars => MatchInv'
<1> SUFFICES ASSUME MatchInv, [BootNext]_bootVars PROVE MatchInv'
  OBVIOUS
<1>1. LaidInv /\ RatesInv /\ SearchInv /\ ReadyInv /\ BoostInv /\ BootInv /\ PtmInv /\ PcvTypeOK
  BY DEF MatchInv, LaidInv, BootInv
<1> QED
  BY <1>1, LaidInvStep, RatesStep, SearchStep, ReadyStep, BoostStep DEF MatchInv

(* For every two images, card and customisation: the sysmodule that took a *)
(* KIP with the loader's values offers the clocks the driver has.          *)
THEOREM ClocksAgree == BootSpec => [](LaidOut => ClocksMatchDriver)
<1>1. MatchInv => (LaidOut => ClocksMatchDriver)
  <2> SUFFICES ASSUME MatchInv, LaidOut, sysmodule = "ready", Whole(kip),
                      [kip.cust EXCEPT !.custRev = CUST_REV] = cust
               PROVE  /\ \A a \in patched["CpuTable"] :
                          Prefix(freqTable["CPU"]) = AtLeast(DriverFreqs(HeadOf("CpuTable", a)), 408000)
                      /\ \A a \in patched["GpuTable"] :
                          Prefix(freqTable["GPU"]) = DriverFreqs(HeadOf("GpuTable", a))
                      /\ \A a \in patched["Mtc"] : Overclocked(soc, cust) => maxMemFreq = MtcRates(word, a)[1]
                      /\ \A i \in 0..(entryCnt - 1) :
                          image[EntryAt(table, i) + 1] = cpuPtmBoost =>
                              conf[EntryAt(table, i) + 1] = boostCpuFreq
    BY SMT DEF ClocksMatchDriver
  <2>0. "CpuTable" \in Structured /\ "GpuTable" \in Structured /\ "Mtc" \in Structured
    BY DEF Structured
  <2>1. /\ LaidInv /\ RatesInv /\ BoostInv
        /\ isMariko = (soc = "Mariko") /\ soc \in Socs /\ kip \in Files
        /\ freqTable["CPU"] = FilledCpu(kip)
        /\ freqTable["GPU"] = ReadTable(kip, GpuTableOf(kip.cust))
        /\ maxMemFreq = EmcClockOf(kip.cust)
        /\ boostCpuFreq = IF kip.cust.commonCpuBoostClock # 0
                          THEN kip.cust.commonCpuBoostClock ELSE CpuClkOSLimit
    BY SMT DEF MatchInv, ReadyInv
  <2>2. kip.cust \in CustomizeTable /\ cust \in CustomizeTable
    <3>1. kip.cust \in CustomizeTable
      BY <2>1 DEF Files
    <3>2. PcvTypeOK
      BY <2>1 DEF LaidInv, BootInv
    <3> QED
      BY <3>1, <3>2, CustomsAssumption DEF PcvTypeOK
  <2>3. /\ CpuNew(soc, kip.cust) = CpuNew(soc, cust)
        /\ EmcClockOf(kip.cust) = EmcMaxClock(soc, cust)
        /\ kip.cust.commonCpuBoostClock = cust.commonCpuBoostClock
    BY <2>1, <2>2, SameChoice
  <2>4. ASSUME NEW a \in patched["CpuTable"]
        PROVE  Prefix(freqTable["CPU"]) = AtLeast(DriverFreqs(HeadOf("CpuTable", a)), 408000)
    <3> DEFINE k == DriverFreqs(HeadOf("CpuTable", a))
    <3>1. Alone("CpuTable", a) /\ a \in Int /\ soc \in Socs /\ cust \in CustomizeTable
      BY <2>0, <2>1, FoundAlone
    <3>2. Holds(nso.word, EndOf("CpuTable", a), <<0, 0, 0, 0>>)
      BY DEF LaidOut
    <3>3. k = CpuKhzList
      BY <3>1, <3>2, CpuTableRead, Zenon
    <3>4. k = [i \in 1..CpuNew(soc, kip.cust) |-> CpuKhz(i)]
      BY <2>3, <3>3 DEF CpuKhzList
    <3> HIDE DEF k
    <3>5. Prefix(FilledCpu(kip)) = AtLeast(k, 408000)
      BY <2>1, <3>4, CpuOffered, SMT
    <3> QED
      BY <2>1, <3>5, SMT DEF k
  <2>5. ASSUME NEW a \in patched["GpuTable"]
        PROVE  Prefix(freqTable["GPU"]) = DriverFreqs(HeadOf("GpuTable", a))
    <3>1. Alone("GpuTable", a) /\ a \in Int /\ soc \in Socs /\ cust \in CustomizeTable
      BY <2>0, <2>1, FoundAlone
    <3>2. Holds(nso.word, EndOf("GpuTable", a), <<0, 0, 0, 0>>)
      BY DEF LaidOut
    <3>3. DriverFreqs(HeadOf("GpuTable", a)) = GpuKhzList
      BY <3>1, <3>2, GpuTableRead, Zenon
    <3>4. Prefix(ReadTable(kip, GpuTableOf(kip.cust))) = GpuKhzList
      BY <2>1, GpuOffered, SMT
    <3> QED
      BY <2>1, <3>3, <3>4, SMT
  <2>6. ASSUME NEW a \in patched["Mtc"], Overclocked(soc, cust)
        PROVE  maxMemFreq = MtcRates(word, a)[1]
    <3>1. /\ Alone("Mtc", a) /\ a \in Int /\ PcvTypeOK /\ soc \in Socs
          /\ Structure("Mtc", a) \subseteq DOMAIN nso.word
      BY <2>0, <2>1, FoundAlone
    <3>2. At(word, a) = EmcMaxClock(soc, cust)
      BY <2>6, <3>1, RatesAre, SMT
    <3>3. 1 \in 1..Len(KhzList(soc))
      BY <3>1, SMT DEF KhzList, Socs
    <3>4. MtcRates(word, a)[1] = At(word, MtcTable(a, 1))
      BY <3>1, <3>3, MtcRatesAre, SMT
    <3>5. MtcTable(a, 1) = a
      BY <3>1, SMT DEF MtcTable, MtcSize
    <3> QED
      BY <2>1, <2>3, <3>2, <3>4, <3>5, SMT
  <2>7. ASSUME NEW i \in 0..(entryCnt - 1), image[EntryAt(table, i) + 1] = cpuPtmBoost
        PROVE  conf[EntryAt(table, i) + 1] = boostCpuFreq
    <3>1. ptm = "accepted" /\ entry = entryCnt /\ boost = cust.commonCpuBoostClock
      BY <2>1, SMT DEF BoostInv, RatesInv
    <3>2. conf[EntryAt(table, i) + 1] = BoostClock
      BY <2>1, <2>7, <3>1, SMT DEF BoostInv
    <3> QED
      BY <2>1, <2>3, <3>1, <3>2, SMT DEF BoostClock
  <2> QED
    BY <2>4, <2>5, <2>6, <2>7, SMT
<1> QED
  BY <1>1, MatchInit, MatchStep, PTL DEF BootSpec

-----------------------------------------------------------------------------
(* What the words of an image are, as the sets of words of DriverImages, and*)
(* which patches they make valid.                                          *)

(* The image holds the words of m.                                         *)
Present(w, m) == \A e \in m : At(w, e[1]) = e[2]

LEMMA HoldsPresent ==
    ASSUME NEW w, NEW a \in Int, NEW words, Len(words) \in Nat
    PROVE  Holds(w, a, words) <=> Present(w, WordsFrom(a, words))
<1>1. ASSUME Holds(w, a, words), NEW e \in WordsFrom(a, words)
      PROVE  At(w, e[1]) = e[2]
  <2>1. PICK i \in 1..Len(words) : e = <<a + i - 1, words[i]>>
    BY <1>1, Zenon DEF WordsFrom
  <2>2. At(w, a + i - 1) = words[i]
    BY <1>1, <2>1 DEF Holds
  <2> QED
    BY <2>1, <2>2
<1>2. ASSUME Present(w, WordsFrom(a, words)), NEW i \in 1..Len(words)
      PROVE  At(w, a + i - 1) = words[i]
  <2>1. <<a + i - 1, words[i]>> \in WordsFrom(a, words)
    BY <1>2, Zenon DEF WordsFrom
  <2> QED
    BY <1>2, <2>1 DEF Present
<1> QED
  BY <1>1, <1>2, Zenon DEF Present, Holds

LEMMA PresentBoth ==
    ASSUME NEW w, NEW m, NEW n
    PROVE  Present(w, m \cup n) <=> Present(w, m) /\ Present(w, n)
BY Zenon DEF Present

LEMMA TablePresent ==
    ASSUME NEW w, NEW a \in Int, NEW rows, Len(rows) \in Nat,
           \A i \in 1..Len(rows) : Len(rows[i]) \in Nat
    PROVE  TableEndsAt(w, a, rows) <=> Present(w, TableWords(a, rows))
<1> DEFINE R(i) == WordsFrom(TableHead(a, Len(rows)) + RowSize * (i - 1), rows[i])
<1>1. ASSUME NEW i \in 1..Len(rows)
      PROVE  Holds(w, TableHead(a, Len(rows)) + RowSize * (i - 1), rows[i]) <=> Present(w, R(i))
  <2>1. TableHead(a, Len(rows)) + RowSize * (i - 1) \in Int
    BY DEF TableHead, RowSize
  <2>2. Len(rows[i]) \in Nat
    BY Zenon
  <2> QED
    BY <2>1, <2>2, HoldsPresent, Zenon
<1>2. Present(w, TableWords(a, rows)) <=> \A i \in 1..Len(rows) : Present(w, R(i))
  <2>1. TableWords(a, rows) = UNION {R(i) : i \in 1..Len(rows)}
    BY Zenon DEF TableWords
  <2> HIDE DEF R
  <2> QED
    BY <2>1, Zenon DEF Present
<1> HIDE DEF R
<1> QED
  BY <1>1, <1>2, Zenon DEF TableEndsAt

LEMMA ValidPresent ==
    ASSUME soc \in Socs, NEW w, NEW a \in Int, \A b \in DOMAIN w : w[b] \in Int,
           NEW p, PatchOf(soc, p), Matches(soc, w, p, a)
    PROVE  Valid(soc, w, p, a) <=> \E m \in Around(soc, At(w, a), p, a) : Present(w, m)
<1> DEFINE v == At(w, a)
<1>0. /\ \A x : At(w, x) \in Int
      /\ a - 1 \in Int /\ a + 1 \in Int /\ a + 2 \in Int /\ a - 8 \in Int /\ a - 5 \in Int
      /\ a - 3 \in Int /\ a - 6 \in Int
  BY AtInt
<1>one. ASSUME NEW x \in Int, NEW y
        PROVE  Present(w, WordsFrom(x, <<y>>)) <=> At(w, x) = y
  <2>1. Holds(w, x, <<y>>) <=> At(w, x) = y
    BY DEF Holds
  <2>2. Len(<<y>>) \in Nat
    OBVIOUS
  <2> QED
    BY <2>1, <2>2, HoldsPresent, Zenon
<1>1. CASE p = "CpuVdd"
  <2> DEFINE t == <<250000, 5000, 1525000>>
             x == WordsFrom(a - 1, <<1>>)
  <2>1. Around(soc, v, p, a) = {x \cup WordsFrom(a + 1, t)}
    BY <1>1, SMT DEF Around
  <2>2. Valid(soc, w, p, a) <=> At(w, a - 1) = 1 /\ Holds(w, a + 1, t)
    BY <1>1, SMT DEF Valid
  <2>3. Len(t) \in Nat
    OBVIOUS
  <2>5. Present(w, x) <=> At(w, a - 1) = 1
    BY <1>0, <1>one
  <2> HIDE DEF t, x
  <2>4. Present(w, WordsFrom(a + 1, t)) <=> Holds(w, a + 1, t)
    BY <1>0, <2>3, HoldsPresent, Zenon
  <2>6. Present(w, x \cup WordsFrom(a + 1, t)) <=> Present(w, x) /\ Present(w, WordsFrom(a + 1, t))
    BY PresentBoth, Zenon
  <2> QED
    BY <2>1, <2>2, <2>4, <2>5, <2>6, Zenon
<1>2. CASE p \in {"CpuTable", "GpuTable", "Dvb"}
  <2>0. /\ p = "CpuTable" => Around(soc, v, p, a) = {TableWords(a, StockCpuRows)}
        /\ p = "GpuTable" => Around(soc, v, p, a) = {TableWords(a, StockGpuRows)}
        /\ p = "Dvb" => Around(soc, v, p, a) = {TableWords(a, StockDvbRows)}
    <3> HIDE DEF CpuDefault, GpuDefault, CpuRow, GpuRow, EmcDvbTableDefault
    <3>1. p = "CpuTable" => Around(soc, v, p, a) = {TableWords(a, StockCpuRows)}
      BY SMT DEF Around, StockCpuRows
    <3>2. p = "GpuTable" => Around(soc, v, p, a) = {TableWords(a, StockGpuRows)}
      BY SMT DEF Around, StockGpuRows
    <3>3. p = "Dvb" => Around(soc, v, p, a) = {TableWords(a, StockDvbRows)}
      BY SMT DEF Around, StockDvbRows
    <3> QED
      BY <3>1, <3>2, <3>3
  <2>1. /\ Len(StockCpuRows) \in Nat /\ \A i \in 1..Len(StockCpuRows) : Len(StockCpuRows[i]) \in Nat
        /\ Len(StockGpuRows) \in Nat /\ \A i \in 1..Len(StockGpuRows) : Len(StockGpuRows[i]) \in Nat
        /\ Len(StockDvbRows) \in Nat /\ \A i \in 1..Len(StockDvbRows) : Len(StockDvbRows[i]) \in Nat
    <3>1. CpuOld(soc) \in Nat /\ GpuOld(soc) \in Nat
      BY Counts
    <3>2. 4 \in Nat /\ 6 \in Nat
      OBVIOUS
    <3> QED
      BY <3>1, <3>2, StockRowsFour, Zenon
  <2>2. /\ TableEndsAt(w, a, StockCpuRows) <=> Present(w, TableWords(a, StockCpuRows))
        /\ TableEndsAt(w, a, StockGpuRows) <=> Present(w, TableWords(a, StockGpuRows))
        /\ TableEndsAt(w, a, StockDvbRows) <=> Present(w, TableWords(a, StockDvbRows))
    BY <2>1, TablePresent, Zenon
  <2> QED
    BY <1>2, <2>0, <2>2, ValidTable, Zenon
<1>3. CASE p = "CpuVolt"
  <2>1. Around(soc, v, p, a) = {WordsFrom(a - 1, <<m>>) : m \in CpuMinVolts(soc)}
    BY <1>3, SMT DEF Around
  <2>2. Valid(soc, w, p, a) <=> At(w, a - 1) \in CpuMinVolts(soc)
    BY <1>3, SMT DEF Valid
  <2>3. ASSUME NEW m PROVE Present(w, WordsFrom(a - 1, <<m>>)) <=> At(w, a - 1) = m
    BY <1>0, <1>one
  <2> QED
    BY <2>1, <2>2, <2>3, Zenon
<1>4. CASE p = "CpuDfll"
  <2> DEFINE t == <<65487, 0, 19007487, 67106815>>
  <2>1. Around(soc, v, p, a) = {WordsFrom(a, t)}
    BY <1>4, SMT DEF Around
  <2>2. Valid(soc, w, p, a) <=> Holds(w, a, t)
    BY <1>4, SMT DEF Valid
  <2>3. Len(t) \in Nat
    OBVIOUS
  <2> HIDE DEF t
  <2> QED
    BY <2>1, <2>2, <2>3, HoldsPresent, Zenon
<1>5. CASE p = "GpuAsm"
  <2> DEFINE z == asm_set(asm_pattern[2], asm_imm16(asm_pattern[2]), asm_get_rd(v))
  <2>1. Around(soc, v, p, a) = {WordsFrom(a + 1, <<z>>)}
    BY <1>5, SMT DEF Around
  <2>2. Valid(soc, w, p, a) <=> /\ asm_compare_no_rd(At(w, a + 1), asm_pattern[2])
                                /\ asm_get_rd(At(w, a)) = asm_get_rd(At(w, a + 1))
    BY <1>5, SMT DEF Valid
  <2>3. ASSUME NEW x \in Int, NEW y \in Int
        PROVE  x = asm_set(asm_pattern[2], asm_imm16(asm_pattern[2]), asm_get_rd(y))
                 <=> asm_compare_no_rd(x, asm_pattern[2]) /\ asm_get_rd(y) = asm_get_rd(x)
    BY SMT DEF asm_set, asm_imm16, asm_get_rd, asm_compare_no_rd, asm_pattern
  <2>4. At(w, a + 1) = z <=> Valid(soc, w, p, a)
    BY <1>0, <2>2, <2>3
  <2> HIDE DEF z
  <2>5. Present(w, WordsFrom(a + 1, <<z>>)) <=> At(w, a + 1) = z
    BY <1>0, <1>one
  <2> QED
    BY <2>1, <2>4, <2>5, Zenon
<1>6. CASE p = "GpuPll"
  <2> DEFINE t == <<0, 0>>
  <2>1. Around(soc, v, p, a) = {WordsFrom(a + 1, t)}
    BY <1>6, SMT DEF Around
  <2>2. Valid(soc, w, p, a) <=> Holds(w, a + 1, t)
    BY <1>6, SMT DEF Valid
  <2>3. Len(t) \in Nat
    OBVIOUS
  <2> HIDE DEF t
  <2> QED
    BY <1>0, <2>1, <2>2, <2>3, HoldsPresent, Zenon
<1>7. CASE p = "Mtc"
  <2> DEFINE N == Len(KhzList(soc))
             R(i) == WordsFrom(MtcTable(a, i) - 1, <<MTC_TABLE_REV(soc), KhzList(soc)[i]>>)
  <2>1. Around(soc, v, p, a) = {UNION {R(i) : i \in 1..N}}
    BY <1>7, SMT DEF Around
  <2>2. Valid(soc, w, p, a) <=> \A i \in 1..N : /\ At(w, MtcTable(a, i)) = KhzList(soc)[i]
                                                /\ At(w, MtcTable(a, i) - 1) = MTC_TABLE_REV(soc)
    BY <1>7, SMT DEF Valid
  <2>3. ASSUME NEW i \in 1..N
        PROVE  Present(w, R(i)) <=> /\ At(w, MtcTable(a, i)) = KhzList(soc)[i]
                                 /\ At(w, MtcTable(a, i) - 1) = MTC_TABLE_REV(soc)
    <3> DEFINE t == <<MTC_TABLE_REV(soc), KhzList(soc)[i]>>
    <3>1. MtcTable(a, i) \in Int /\ MtcTable(a, i) - 1 \in Int
      <4>1. MtcTable(a, i) \in Int
        BY MtcTableIs
      <4> QED
        BY <4>1
    <3>2. Len(t) = 2 /\ t[1] = MTC_TABLE_REV(soc) /\ t[2] = KhzList(soc)[i]
      OBVIOUS
    <3> HIDE DEF t
    <3>3. Present(w, WordsFrom(MtcTable(a, i) - 1, t)) <=> Holds(w, MtcTable(a, i) - 1, t)
      BY <3>1, <3>2, HoldsPresent
    <3>4. Holds(w, MtcTable(a, i) - 1, t) <=> /\ At(w, MtcTable(a, i)) = KhzList(soc)[i]
                                              /\ At(w, MtcTable(a, i) - 1) = MTC_TABLE_REV(soc)
      <4>1. MtcTable(a, i) - 1 + 1 - 1 = MtcTable(a, i) - 1 /\ MtcTable(a, i) - 1 + 2 - 1 = MtcTable(a, i)
        BY <3>1
      <4>2. 1..Len(t) = {1, 2}
        BY <3>2
      <4> QED
        BY <3>2, <4>1, <4>2, Zenon DEF Holds
    <3> QED
      BY <3>3, <3>4, Zenon DEF t
  <2> HIDE DEF R, N
  <2>4. Present(w, UNION {R(i) : i \in 1..N}) <=> \A i \in 1..N : Present(w, R(i))
    BY Zenon DEF Present
  <2> QED
    BY <2>1, <2>2, <2>3, <2>4, Zenon
<1>8. CASE p = "Max"
  <2>1. Around(soc, v, p, a) = {{}} /\ Valid(soc, w, p, a)
    BY <1>8, SMT DEF Around, Valid
  <2> QED
    BY <2>1, Zenon DEF Present
<1>9. CASE p = "Pllm"
  <2>1. Around(soc, v, p, a) = {WordsFrom(a + 2, <<v>>)}
    BY <1>9, SMT DEF Around
  <2>2. Valid(soc, w, p, a) <=> At(w, a) = At(w, a + 2)
    BY <1>9, SMT DEF Valid
  <2>3. Present(w, WordsFrom(a + 2, <<v>>)) <=> At(w, a + 2) = v
    BY <1>0, <1>one
  <2> QED
    BY <2>1, <2>2, <2>3, Zenon
<1>10. CASE p = "Vddq"
  <2> DEFINE t == <<2, 3>>
             x == WordsFrom(a - 5, <<VddqStep>>)
             y == WordsFrom(a - 3, <<250000>>)
  <2>1. Around(soc, v, p, a) = {WordsFrom(a - 8, t) \cup x \cup y}
    BY <1>10, SMT DEF Around
  <2>2. Valid(soc, w, p, a) <=> Holds(w, a - 8, t) /\ At(w, a - 5) = VddqStep /\ At(w, a - 3) = 250000
    BY <1>10, SMT DEF Valid
  <2>3. Len(t) \in Nat
    OBVIOUS
  <2>4. Present(w, x) <=> At(w, a - 5) = VddqStep
    BY <1>0, <1>one, SMT
  <2>5. Present(w, y) <=> At(w, a - 3) = 250000
    BY <1>0, <1>one, SMT
  <2> HIDE DEF t, x, y
  <2>6. Present(w, WordsFrom(a - 8, t)) <=> Holds(w, a - 8, t)
    BY <1>0, <2>3, HoldsPresent, Zenon
  <2>7. Present(w, WordsFrom(a - 8, t) \cup x \cup y)
           <=> Present(w, WordsFrom(a - 8, t)) /\ Present(w, x) /\ Present(w, y)
    <3> DEFINE z == WordsFrom(a - 8, t) \cup x
    <3>1. Present(w, z) <=> Present(w, WordsFrom(a - 8, t)) /\ Present(w, x)
      BY PresentBoth, Zenon
    <3> HIDE DEF z
    <3>2. Present(w, z \cup y) <=> Present(w, z) /\ Present(w, y)
      BY PresentBoth, Zenon
    <3> QED
      BY <3>1, <3>2, Zenon DEF z
  <2>8. Valid(soc, w, p, a) <=> Present(w, WordsFrom(a - 8, t) \cup x \cup y)
    BY <2>2, <2>4, <2>5, <2>6, <2>7, SMT
  <2>9. \A m : m \in Around(soc, v, p, a) <=> m = WordsFrom(a - 8, t) \cup x \cup y
    BY <2>1, Zenon
  <2> HIDE DEF v
  <2> QED
    BY <2>8, <2>9, Zenon DEF v
<1>11. CASE p = "MemVolt"
  <2> DEFINE t == <<1, 1, 23, MemVoltStep, 600000>>
  <2>1. Around(soc, v, p, a) = {WordsFrom(b, t) : b \in {a - 5, a - 6}}
    BY <1>11, SMT DEF Around
  <2>2. Valid(soc, w, p, a) <=> Holds(w, a - 5, t) \/ Holds(w, a - 6, t)
    BY <1>11, SMT DEF Valid, Type1Regulator
  <2>3. Len(t) \in Nat
    OBVIOUS
  <2> HIDE DEF t
  <2>4. \A b \in {a - 5, a - 6} : Present(w, WordsFrom(b, t)) <=> Holds(w, b, t)
    BY <1>0, <2>3, HoldsPresent, Zenon
  <2> QED
    BY <2>1, <2>2, <2>4, Zenon
<1> QED
  BY <1>1, <1>2, <1>3, <1>4, <1>5, <1>6, <1>7, <1>8, <1>9, <1>10, <1>11, Zenon DEF PatchOf, Patches

-----------------------------------------------------------------------------
(* What is found in the patched image where its word is still the firmware's.*)
LEMMA SameMatches ==
    ASSUME NEW s, NEW w, NEW v, NEW p, NEW a, At(w, a) = At(v, a)
    PROVE  Matches(s, w, p, a) = Matches(s, v, p, a)
BY SMT DEF Matches

(* p succeeds at a.                                                        *)
Succeeds(s, w, p, a) == Matches(s, w, p, a) /\ Valid(s, w, p, a)

LEMMA SameFound ==
    ASSUME NEW s, NEW w, NEW v, NEW a,
           \A k \in 1..Len(PatchesOf(s)) : Succeeds(s, w, PatchesOf(s)[k], a) <=> Succeeds(s, v, PatchesOf(s)[k], a)
    PROVE  Found(s, w, a) = Found(s, v, a)
<1> DEFINE Ok(u) == {k \in 1..Len(PatchesOf(s)) :
                       Matches(s, u, PatchesOf(s)[k], a) /\ Valid(s, u, PatchesOf(s)[k], a)}
<1>1. Ok(w) = Ok(v)
  BY Zenon DEF Succeeds
<1>2. \A u : Found(s, u, a) = IF Ok(u) = {} THEN "none"
                              ELSE PatchesOf(s)[CHOOSE k \in Ok(u) : \A j \in Ok(u) : k <= j]
  BY Zenon DEF Found
<1> HIDE DEF Ok
<1> QED
  BY <1>1, <1>2, Zenon

LEMMA NoneFound ==
    ASSUME NEW s \in Socs, NEW w, NEW a, \A p \in Patches : PatchOf(s, p) => ~Succeeds(s, w, p, a)
    PROVE  Found(s, w, a) = "none"
<1> SUFFICES ASSUME Found(s, w, a) # "none" PROVE FALSE
  OBVIOUS
<1>1. PatchOf(s, Found(s, w, a)) /\ Succeeds(s, w, Found(s, w, a), a)
  BY FoundIsPatch, Zenon DEF Succeeds
<1> QED
  BY <1>1, Zenon DEF PatchOf

(* The words that may have changed when the scan comes to a.               *)
ReachedAt(a) == Reached(soc, Sites(nso), a)

LEMMA SiteIs ==
    ASSUME NEW a \in 1..ScanEnd(nso), Found(soc, nso.word, a) # "none"
    PROVE  <<Found(soc, nso.word, a), a>> \in Sites(nso)
<1> DEFINE e == <<Found(soc, nso.word, a), a>>
<1>1. e \in {<<Found(nso.soc, nso.word, b), b>> : b \in 1..ScanEnd(nso)}
  BY Zenon DEF soc
<1>2. e[1] # "none"
  OBVIOUS
<1> HIDE DEF e
<1>3. e \in Sites(nso)
  BY <1>1, <1>2, Zenon DEF Sites
<1> QED
  BY <1>3 DEF e

LEMMA SiteOf ==
    ASSUME NEW e \in Sites(nso)
    PROVE  /\ e[2] \in 1..ScanEnd(nso) /\ e[1] = Found(soc, nso.word, e[2]) /\ e[1] # "none"
           /\ e = <<e[1], e[2]>>
<1>1. e[1] # "none" /\ e \in {<<Found(nso.soc, nso.word, b), b>> : b \in 1..ScanEnd(nso)}
  BY Zenon DEF Sites
<1>2. PICK b \in 1..ScanEnd(nso) : e = <<Found(nso.soc, nso.word, b), b>>
  BY <1>1, Zenon
<1> QED
  BY <1>1, <1>2 DEF soc

LEMMA ReachedFrom ==
    ASSUME NEW a, NEW b \in 1..ScanEnd(nso), b < a, Found(soc, nso.word, b) # "none",
           NEW x \in Territory(soc, Found(soc, nso.word, b), b)
    PROVE  x \in ReachedAt(a)
<1> DEFINE p == Found(soc, nso.word, b)
           e == <<p, b>>
<1>1. e \in Sites(nso)
  BY SiteIs
<1>2. e[1] = p /\ e[2] = b
  OBVIOUS
<1> HIDE DEF e
<1>3. e \in {f \in Sites(nso) : f[2] < a} /\ x \in Territory(soc, e[1], e[2])
  BY <1>1, <1>2, Zenon DEF p
<1> QED
  BY <1>3, Zenon DEF ReachedAt, Reached

LEMMA NotHalfMade ==
    ASSUME NothingHalfMade(nso, Sites(nso)), NEW a \in 1..ScanEnd(nso),
           NEW k \in 1..Len(PatchesOf(soc)), Matches(soc, nso.word, PatchesOf(soc)[k], a),
           NEW m \in Around(soc, At(nso.word, a), PatchesOf(soc)[k], a),
           \A e \in m : e[1] \in ReachedAt(a) \/ At(nso.word, e[1]) = e[2]
    PROVE  (\A e \in m : e[1] \notin ReachedAt(a)) /\ a \notin ReachedAt(a)
<1>1. ~HalfMade(nso, PatchesOf(soc)[k], a, ReachedAt(a))
  BY Zenon DEF NothingHalfMade, ReachedAt, soc
<1>2. \A e \in m \cup {<<a, At(nso.word, a)>>} : e[1] \notin ReachedAt(a)
  BY <1>1, Zenon DEF HalfMade, soc
<1>3. <<a, At(nso.word, a)>>[1] = a
  OBVIOUS
<1> QED
  BY <1>2, <1>3, Zenon

(* Where the word at a is the firmware's, the same patch succeeds.         *)
LEMMA FoundAgain ==
    ASSUME nso \in Nsos, soc \in Socs, NothingHalfMade(nso, Sites(nso)),
           NEW w, \A x \in DOMAIN w : w[x] \in Int, NEW a \in 1..ScanEnd(nso), a \in Int,
           \A x : At(w, x) # At(nso.word, x) => x \in ReachedAt(a),
           At(w, a) = At(nso.word, a)
    PROVE  Found(soc, w, a) = Found(soc, nso.word, a)
<1> SUFFICES ASSUME NEW k \in 1..Len(PatchesOf(soc))
             PROVE  Succeeds(soc, w, PatchesOf(soc)[k], a) <=> Succeeds(soc, nso.word, PatchesOf(soc)[k], a)
  BY SameFound, Zenon
<1> DEFINE p == PatchesOf(soc)[k]
<1>0. PatchOf(soc, p) /\ \A x \in DOMAIN nso.word : nso.word[x] \in Int
  BY PatchesOfAre, ImageFacts
<1>1. Matches(soc, w, p, a) = Matches(soc, nso.word, p, a)
  BY SameMatches
<1>2. CASE Matches(soc, nso.word, p, a)
  <2>0. Matches(soc, w, p, a)
    BY <1>1, <1>2, Zenon
  <2>1. Valid(soc, w, p, a) <=> \E m \in Around(soc, At(nso.word, a), p, a) : Present(w, m)
    <3>1. Valid(soc, w, p, a) <=> \E m \in Around(soc, At(w, a), p, a) : Present(w, m)
      <4> HIDE DEF p
      <4> QED
        BY <1>0, <2>0, ValidPresent, Zenon
    <3> QED
      BY <3>1
  <2>2. Valid(soc, nso.word, p, a)
          <=> \E m \in Around(soc, At(nso.word, a), p, a) : Present(nso.word, m)
    <3> HIDE DEF p
    <3> QED
      BY <1>0, <1>2, ValidPresent, Zenon
  <2>3. ASSUME NEW m \in Around(soc, At(nso.word, a), p, a) PROVE Present(w, m) <=> Present(nso.word, m)
    <3>1. Present(w, m) \/ Present(nso.word, m) =>
             \A e \in m : e[1] \in ReachedAt(a) \/ At(nso.word, e[1]) = e[2]
      BY Zenon DEF Present
    <3>2. Present(w, m) \/ Present(nso.word, m) => \A e \in m : e[1] \notin ReachedAt(a)
      BY <1>2, <3>1, NotHalfMade, Zenon
    <3>3. Present(w, m) \/ Present(nso.word, m) => \A e \in m : At(w, e[1]) = At(nso.word, e[1])
      BY <3>2, Zenon
    <3> QED
      BY <3>3, Zenon DEF Present
  <2> QED
    BY <1>2, <2>0, <2>1, <2>2, <2>3, Zenon DEF Succeeds
<1>3. CASE ~Matches(soc, nso.word, p, a)
  <2>1. ~Matches(soc, w, p, a)
    BY <1>1, <1>3, Zenon
  <2> QED
    BY <1>3, <2>1, Zenon DEF Succeeds
<1> QED
  BY <1>2, <1>3

(* No structure of the firmware begins inside an earlier one.              *)
LEMMA SiteNotReached ==
    ASSUME nso \in Nsos, soc \in Socs, NothingHalfMade(nso, Sites(nso)),
           NEW a \in 1..ScanEnd(nso), a \in Int, a \in ReachedAt(a)
    PROVE  Found(soc, nso.word, a) = "none"
<1> SUFFICES ASSUME Found(soc, nso.word, a) # "none" PROVE FALSE
  OBVIOUS
<1>0. \A x \in DOMAIN nso.word : nso.word[x] \in Int
  BY ImageFacts
<1>1. PICK k \in 1..Len(PatchesOf(soc)) : Succeeds(soc, nso.word, PatchesOf(soc)[k], a)
  BY Zenon DEF Found, Succeeds
<1> DEFINE p == PatchesOf(soc)[k]
<1>2. PatchOf(soc, p) /\ Matches(soc, nso.word, p, a) /\ Valid(soc, nso.word, p, a)
  BY <1>1, PatchesOfAre DEF Succeeds
<1>3. PICK m \in Around(soc, At(nso.word, a), p, a) : Present(nso.word, m)
  <2> HIDE DEF p
  <2> QED
    BY <1>0, <1>2, ValidPresent, Zenon
<1>4. \A e \in m : At(nso.word, e[1]) = e[2]
  BY <1>3, Zenon DEF Present
<1> QED
  BY <1>2, <1>4, NotHalfMade, Zenon

-----------------------------------------------------------------------------
(* What was found so far, and that the image is then laid out.             *)
LEMMA LongestAre ==
    ASSUME soc \in Socs
    PROVE  /\ LongestCpu(soc) \in Nat /\ CpuNew(soc, cust) <= LongestCpu(soc)
           /\ LongestGpu(soc) \in Nat /\ GpuNew(soc) <= LongestGpu(soc)
<1>1. /\ Len(marikoCpuDvfsTableSLT) = 22 /\ Len(eristaCpuDvfsTable) = 19
      /\ Len(marikoGpuDvfsTable) = 17 /\ Len(eristaGpuDvfsTable) = 13
  BY CpuTables, GpuTables DEF BeginsCpu, BeginsGpu, marikoGpuDvfsTable, eristaGpuDvfsTable
<1>2. /\ LongestCpu(soc) = IF soc = "Mariko" THEN 22 ELSE 19
      /\ LongestGpu(soc) = IF soc = "Mariko" THEN 17 ELSE 13
  BY <1>1, Zenon DEF LongestCpu, LongestGpu
<1>3. /\ soc = "Mariko" => CpuNew(soc, cust) \in {21, 22} /\ GpuNew(soc) = 17
      /\ soc # "Mariko" => CpuNew(soc, cust) = 19 /\ GpuNew(soc) = 13
  BY DEF CpuNew, GpuNew
<1> QED
  BY <1>2, <1>3

LEMMA InTerritory ==
    ASSUME soc \in Socs, NEW p \in Patches, NEW a \in Int
    PROVE  Structure(p, a) \subseteq Territory(soc, p, a)
<1>0. /\ TableHead(a, CpuOld(soc)) \in Int /\ TableHead(a, GpuOld(soc)) \in Int
      /\ Len(CpuDefault(soc)) = CpuOld(soc) /\ Len(GpuDefault(soc)) = GpuOld(soc)
  BY Counts, DefaultTables DEF TableHead, RowSize, BeginsCpu, BeginsGpu
<1>room. ASSUME NEW h \in Int, NEW i \in Nat, NEW j \in Nat, i <= j
         PROVE  h..(h + RowSize * i + RowSize - 1) \subseteq RoomFrom(h, j)
  BY <1>room DEF RoomFrom, RowSize
<1>1. CASE p = "CpuTable"
  <2>1. Territory(soc, p, a) = RoomFrom(TableHead(a, CpuOld(soc)), LongestCpu(soc))
    BY <1>0, <1>1, Zenon DEF Territory
  <2>2. Structure(p, a) = TableHead(a, CpuOld(soc))..(TableHead(a, CpuOld(soc))
                              + RowSize * CpuNew(soc, cust) + RowSize - 1)
    BY <1>1, Ends, Zenon DEF Structure
  <2>3. CpuNew(soc, cust) \in Nat
    BY Counts
  <2> QED
    BY <1>0, <1>room, <2>1, <2>2, <2>3, LongestAre, Zenon
<1>2. CASE p = "GpuTable"
  <2>1. Territory(soc, p, a) = RoomFrom(TableHead(a, GpuOld(soc)), LongestGpu(soc))
    BY <1>0, <1>2, Zenon DEF Territory
  <2>2. Structure(p, a) = TableHead(a, GpuOld(soc))..(TableHead(a, GpuOld(soc))
                              + RowSize * GpuNew(soc) + RowSize - 1)
    BY <1>2, Ends, Zenon DEF Structure
  <2>3. GpuNew(soc) \in Nat
    BY Counts
  <2> QED
    BY <1>0, <1>room, <2>1, <2>2, <2>3, LongestAre, Zenon
<1>3. CASE p \notin {"CpuTable", "GpuTable"}
  <2>1. Territory(soc, p, a) = Structure(p, a)
    BY <1>3, SMT DEF Territory, Structure, Patches
  <2> QED
    BY <2>1
<1> QED
  BY <1>1, <1>2, <1>3

(* What was applied is what the firmware calls for.                        *)
AsFound == \A p \in Patches : patched[p] = {a \in 1..(ptr - 1) : Found(soc, nso.word, a) = p}

LEMMA PatchedSites ==
    ASSUME PcvTypeOK, AsFound, NEW p \in Patches, NEW a \in patched[p]
    PROVE  /\ a \in 1..ScanEnd(nso) /\ a \in Int
           /\ Found(soc, nso.word, a) = p /\ p # "none"
           /\ <<p, a>> \in Sites(nso)
<1>1. a \in 1..ScanEnd(nso)
  BY Zenon DEF PcvTypeOK
<1>2. a \in Int
  <2>1. ScanEnd(nso) \in Nat
    BY ImageFacts DEF PcvTypeOK
  <2> QED
    BY <1>1, <2>1
<1>3. Found(soc, nso.word, a) = p /\ p # "none"
  <2>1. a \in {x \in 1..(ptr - 1) : Found(soc, nso.word, x) = p}
    BY Zenon DEF AsFound
  <2>2. Found(soc, nso.word, a) = p
    BY <2>1, Zenon
  <2>3. p # "none"
    BY SMT DEF Patches
  <2> QED
    BY <2>2, <2>3
<1> QED
  BY <1>1, <1>2, <1>3, SiteIs

LEMMA DriverIsLaidOut ==
    ASSUME PcvTypeOK, AsFound, DriverImage(nso)
    PROVE  LaidOut
<1>0. /\ soc \in Socs /\ DOMAIN word = DOMAIN nso.word
      /\ SitesApart(nso, Sites(nso)) /\ RoomToGrow(nso, Sites(nso))
  BY ImageFacts DEF PcvTypeOK, DriverImage, soc
<1>1. ASSUME NEW p \in Structured, NEW a \in patched[p]
      PROVE  /\ Structure(p, a) \subseteq DOMAIN word
             /\ \A q \in Patches : \A b \in patched[q] :
                  <<p, a>> # <<q, b>> => Structure(p, a) \cap Structure(q, b) = {}
  <2>1. p \in Patches
    BY DEF Structured, Patches
  <2> DEFINE e == <<p, a>>
  <2>2. e \in Sites(nso) /\ a \in Int /\ e[1] = p /\ e[2] = a
    BY <1>1, <2>1, PatchedSites
  <2> HIDE DEF e
  <2>3. /\ Territory(soc, p, a) \subseteq DOMAIN nso.word
        /\ \A f \in Sites(nso) : e # f => Territory(soc, p, a) \cap Territory(soc, f[1], f[2]) = {}
    BY <1>0, <1>1, <2>2, Zenon DEF SitesApart, soc
  <2>4. Structure(p, a) \subseteq Territory(soc, p, a)
    BY <1>0, <2>1, <2>2, InTerritory
  <2>5. ASSUME NEW q \in Patches, NEW b \in patched[q], e # <<q, b>>
        PROVE  Structure(p, a) \cap Structure(q, b) = {}
    <3> DEFINE f == <<q, b>>
    <3>1. f \in Sites(nso) /\ b \in Int /\ f[1] = q /\ f[2] = b
      BY <2>5, PatchedSites
    <3>2. e # f
      BY <2>5
    <3> HIDE DEF f
    <3>3. Territory(soc, p, a) \cap Territory(soc, q, b) = {}
      BY <2>3, <3>1, <3>2, Zenon
    <3>4. Structure(q, b) \subseteq Territory(soc, q, b)
      BY <1>0, <3>1, InTerritory
    <3> QED
      BY <2>4, <3>3, <3>4, Zenon
  <2>6. Structure(p, a) \subseteq DOMAIN word
    BY <1>0, <2>3, <2>4, Zenon
  <2> QED
    BY <2>5, <2>6, Zenon DEF e
<1>2. ASSUME NEW p \in {"CpuTable", "GpuTable"}, NEW a \in patched[p]
      PROVE  Holds(nso.word, EndOf(p, a), <<0, 0, 0, 0>>)
  <2>1. p \in Patches
    BY DEF Patches
  <2> DEFINE e == <<p, a>>
  <2>2. e \in Sites(nso) /\ a \in Int /\ e[1] = p /\ e[2] = a
    BY <1>2, <2>1, PatchedSites
  <2> HIDE DEF e
  <2>3. \A x \in Territory(soc, p, a) : x >= a + RowSize => nso.word[x] = 0
    BY <1>0, <1>2, <2>2, Zenon DEF RoomToGrow, soc
  <2>4. Structure(p, a) \subseteq Territory(soc, p, a)
    BY <1>0, <2>1, <2>2, InTerritory
  <2>5. Structure(p, a) = HeadOf(p, a)..(EndOf(p, a) + RowSize - 1)
    BY <1>2 DEF Structure
  <2>6. HeadOf(p, a) \in Int /\ EndOf(p, a) \in Int /\ EndOf(p, a) >= a + RowSize /\ HeadOf(p, a) <= a
    <3>1. CASE p = "CpuTable"
      <4>1. HeadOf(p, a) = TableHead(a, CpuOld(soc)) /\ EndOf(p, a) = TableHead(a, CpuOld(soc)) + RowSize * CpuNew(soc, cust)
        BY <1>0, <3>1, Ends
      <4> QED
        BY <2>2, <4>1, Counts DEF TableHead, RowSize
    <3>2. CASE p = "GpuTable"
      <4>1. HeadOf(p, a) = TableHead(a, GpuOld(soc)) /\ EndOf(p, a) = TableHead(a, GpuOld(soc)) + RowSize * GpuNew(soc)
        BY <1>0, <3>2, Ends
      <4> QED
        BY <2>2, <4>1, Counts DEF TableHead, RowSize
    <3> QED
      BY <3>1, <3>2
  <2>7. ASSUME NEW j \in 1..4 PROVE At(nso.word, EndOf(p, a) + j - 1) = 0
    <3>1. /\ EndOf(p, a) + j - 1 \in HeadOf(p, a)..(EndOf(p, a) + RowSize - 1)
          /\ EndOf(p, a) + j - 1 >= a + RowSize
      BY <2>2, <2>6, <2>7 DEF RowSize
    <3> QED
      BY <2>3, <2>4, <2>5, <3>1, Zenon DEF At
  <2> QED
    BY <2>7 DEF Holds
<1> QED
  BY <1>1, <1>2, Zenon DEF LaidOut

-----------------------------------------------------------------------------
(* Words that no patch is looked for by, or that lack the words around them.*)

(* The words some patch is looked for by.                                  *)
Key(s, v) ==
    \/ s = "Mariko" /\ v \in {1785000, 1963500, 1120, 65487, 1267200, 600000, 1100000, 21330000}
    \/ s = "Erista" /\ v \in {1785000, 1132, 1170, 1227, 921600, 9216000, 1125000, 18660000}
    \/ v = 1600000
    \/ v \div 32 = 43257856

LEMMA KeysAre ==
    ASSUME NEW s \in Socs, NEW w, NEW a, NEW p, PatchOf(s, p), Matches(s, w, p, a)
    PROVE  /\ Key(s, At(w, a))
           /\ At(w, a) = 1785000 => p \in {"CpuVdd", "CpuTable"}
           /\ s = "Mariko" /\ At(w, a) = 1785000 => p = "CpuVdd"
           /\ At(w, a) = 1963500 => p = "CpuTable"
           /\ At(w, a) = 600000 => p = "Vddq"
           /\ At(w, a) = 1100000 \/ At(w, a) = 1125000 => p = "MemVolt"
<1> DEFINE v == At(w, a)
<1>0. s = "Mariko" \/ s = "Erista"
  BY DEF Socs
<1>1. /\ GetDvfsTableLastEntry(CpuDefault(s)) = IF s = "Mariko" THEN 1963500 ELSE 1785000
      /\ GetDvfsTableLastEntry(GpuDefault(s)) = IF s = "Mariko" THEN 1267200 ELSE 921600
  <2>1. /\ CpuOld(s) \in 1..CpuOld(s) /\ GpuOld(s) \in 1..GpuOld(s)
        /\ CpuKhz(CpuOld(s)) = (IF s = "Mariko" THEN 1963500 ELSE 1785000)
        /\ GpuKhz(GpuOld(s)) = (IF s = "Mariko" THEN 1267200 ELSE 921600)
    BY SMT DEF CpuOld, GpuOld, CpuKhz, GpuKhz
  <2> QED
    BY <2>1, DefaultTables DEF BeginsCpu, BeginsGpu, GetDvfsTableLastEntry
<1>2. /\ p = "CpuVdd" => s = "Mariko" /\ v = 1785000
      /\ p = "CpuTable" => v = IF s = "Mariko" THEN 1963500 ELSE 1785000
      /\ p = "CpuVolt" => v \in (IF s = "Mariko" THEN {1120} ELSE {1132, 1170, 1227})
      /\ p = "CpuDfll" => s = "Mariko" /\ v = 65487
      /\ p = "GpuTable" => v = IF s = "Mariko" THEN 1267200 ELSE 921600
      /\ p = "GpuAsm" => v \div 32 = 43257856
      /\ p = "GpuPll" => s = "Erista" /\ v = 9216000
      /\ p \in {"Mtc", "Dvb", "Max"} => v = 1600000
      /\ p = "Pllm" => v = IF s = "Mariko" THEN 21330000 ELSE 18660000
      /\ p = "Vddq" => s = "Mariko" /\ v = 600000
      /\ p = "MemVolt" => v = IF s = "Mariko" THEN 1100000 ELSE 1125000
  <2>1. /\ p \in {"CpuVdd", "CpuDfll", "Vddq"} => s = "Mariko"
        /\ p = "GpuPll" => s = "Erista"
    BY <1>0, Zenon DEF PatchOf
  <2>2. p = "CpuVdd" => v = 1785000
    BY SMT DEF Matches, CpuClkOSLimit
  <2>3. p = "CpuTable" => v = GetDvfsTableLastEntry(CpuDefault(s))
    BY SMT DEF Matches
  <2>4. p = "GpuTable" => v = GetDvfsTableLastEntry(GpuDefault(s))
    BY SMT DEF Matches
  <2>5. p = "CpuVolt" => v \in (IF s = "Mariko" THEN {1120} ELSE {1132, 1170, 1227})
    BY SMT DEF Matches
  <2>6. p = "CpuDfll" => v = 65487
    BY SMT DEF Matches
  <2>7. p = "GpuPll" => v = 9216000
    BY SMT DEF Matches
  <2>8. p = "GpuAsm" => v \div 32 = 43257856
    BY SMT DEF Matches, asm_compare_no_rd, asm_pattern
  <2>9. p = "Mtc" => v = 1600000
    BY SMT DEF Matches, EmcClkOSLimit
  <2>10. p = "Dvb" => v = 1600000
    BY SMT DEF Matches, EmcClkOSLimit
  <2>11. p = "Max" => v = 1600000
    BY SMT DEF Matches, EmcClkOSLimit
  <2>12. p = "Pllm" => v = IF s = "Mariko" THEN 21330000 ELSE 18660000
    BY SMT DEF Matches, EmcClkPllmLimit
  <2>13. p = "Vddq" => v = 600000
    BY SMT DEF Matches
  <2>14. p = "MemVolt" => v = IF s = "Mariko" THEN 1100000 ELSE 1125000
    BY SMT DEF Matches
  <2> HIDE DEF v
  <2> QED
    BY <1>0, <1>1, <2>1, <2>2, <2>3, <2>4, <2>5, <2>6, <2>7, <2>8, <2>9, <2>10, <2>11, <2>12, <2>13, <2>14, SMT
<1>3. p \in Patches
  BY DEF PatchOf
<1> HIDE DEF v
<1>4. /\ Key(s, v)
      /\ v = 1785000 => p \in {"CpuVdd", "CpuTable"}
      /\ s = "Mariko" /\ v = 1785000 => p = "CpuVdd"
      /\ v = 1963500 => p = "CpuTable"
      /\ v = 600000 => p = "Vddq"
      /\ v = 1100000 \/ v = 1125000 => p = "MemVolt"
  BY <1>0, <1>2, <1>3, SMT DEF Key, Patches
<1> QED
  BY <1>4 DEF v

LEMMA QuietNone ==
    ASSUME NEW s \in Socs, NEW w, NEW a, ~Key(s, At(w, a))
    PROVE  Found(s, w, a) = "none"
<1>1. \A p : PatchOf(s, p) /\ Matches(s, w, p, a) => Key(s, At(w, a))
  BY KeysAre, SMT
<1> QED
  BY <1>1, NoneFound, Zenon DEF Succeeds

(* A number below every key.                                               *)
LEMMA LowNone ==
    ASSUME NEW s \in Socs, NEW w, NEW a, At(w, a) \in Int, At(w, a) < 1120
    PROVE  Found(s, w, a) = "none"
<1>1. ~Key(s, At(w, a))
  <2> DEFINE v == At(w, a)
  <2>1. v \in Int /\ v < 1120
    OBVIOUS
  <2> HIDE DEF v
  <2>2. ~Key(s, v)
    BY <2>1, SMT DEF Key
  <2> QED
    BY <2>2 DEF v
<1> QED
  BY <1>1, QuietNone

(* A word that only the voltage of the memory would be found by, away from *)
(* its regulator.                                                          *)
LEMMA NoRegulator ==
    ASSUME NEW s \in Socs, NEW w, NEW a \in Int, At(w, a) \in {1100000, 1125000},
           At(w, a - 1) # 600000, At(w, a - 2) # 600000
    PROVE  Found(s, w, a) = "none"
<1> SUFFICES ASSUME NEW p \in Patches, PatchOf(s, p), Matches(s, w, p, a), Valid(s, w, p, a)
             PROVE  FALSE
  BY NoneFound, SMT DEF Succeeds
<1>1. p = "MemVolt"
  BY KeysAre, SMT
<1>2. Holds(w, a - 5, <<1, 1, 23, MemVoltStep, 600000>>) \/ Holds(w, a - 6, <<1, 1, 23, MemVoltStep, 600000>>)
  BY <1>1, SMT DEF Valid, Type1Regulator
<1>3. ASSUME NEW b \in Int, Holds(w, b, <<1, 1, 23, MemVoltStep, 600000>>) PROVE At(w, b + 4) = 600000
  BY <1>3, SMT DEF Holds
<1>4. a - 5 \in Int /\ a - 6 \in Int /\ (a - 5) + 4 = a - 1 /\ (a - 6) + 4 = a - 2
  OBVIOUS
<1> QED
  BY <1>2, <1>3, <1>4, SMT

LEMMA NoVddq ==
    ASSUME NEW s \in Socs, NEW w, NEW a, At(w, a) = 600000, At(w, a - 3) # 250000
    PROVE  Found(s, w, a) = "none"
<1> SUFFICES ASSUME NEW p \in Patches, PatchOf(s, p), Matches(s, w, p, a), Valid(s, w, p, a)
             PROVE  FALSE
  BY NoneFound, SMT DEF Succeeds
<1>1. p = "Vddq"
  BY KeysAre, SMT
<1> QED
  BY <1>1, SMT DEF Valid

LEMMA NoCpuVdd ==
    ASSUME NEW w, NEW a, At(w, a) = 1785000, At(w, a - 1) # 1
    PROVE  Found("Mariko", w, a) = "none"
<1>0. "Mariko" \in Socs
  BY DEF Socs
<1> SUFFICES ASSUME NEW p \in Patches, PatchOf("Mariko", p), Matches("Mariko", w, p, a),
                    Valid("Mariko", w, p, a)
             PROVE  FALSE
  BY <1>0, NoneFound, SMT DEF Succeeds
<1>1. p = "CpuVdd"
  BY <1>0, KeysAre, SMT
<1> QED
  BY <1>1, SMT DEF Valid

LEMMA NoCpuTable ==
    ASSUME NEW w, NEW a \in Int, At(w, a) = 1963500, At(w, a - 4) = 1600000
    PROVE  Found("Mariko", w, a) = "none"
<1>0. "Mariko" \in Socs
  BY DEF Socs
<1> SUFFICES ASSUME NEW p \in Patches, PatchOf("Mariko", p), Matches("Mariko", w, p, a),
                    Valid("Mariko", w, p, a)
             PROVE  FALSE
  BY <1>0, NoneFound, SMT DEF Succeeds
<1>1. p = "CpuTable"
  BY <1>0, KeysAre, SMT
<1> DEFINE t == CpuDefault("Mariko")
           rows == [i \in DOMAIN t |-> CpuRow("Mariko", t[i], "stock")]
<1>2. TableEndsAt(w, a, rows)
  BY <1>1, SMT DEF Valid
<1>3. DOMAIN t = 1..18 /\ t[17] = 1887000
  <2>1. Len(t) = 18 /\ t \in Seq(Int) /\ t[17] = CpuKhz(17)
    BY <1>0, DefaultTables, SMT DEF BeginsCpu, CpuOld
  <2> HIDE DEF t
  <2> QED
    BY <2>1, SMT DEF CpuKhz
<1> HIDE DEF t
<1>4. Len(rows) = 18 /\ rows[17] = CpuRow("Mariko", 1887000, "stock")
  BY <1>3
<1>5. PICK k \in {51, 52}, v \in {0, 51, 52, 1120000, 1235000} :
         CpuRow("Mariko", 1887000, "stock") = <<1887000, k, v, 0>>
  BY <1>0, CpuRowIs, SMT
<1>6. Len(rows[17]) = 4 /\ rows[17][1] = 1887000
  BY <1>4, <1>5
<1> HIDE DEF rows
<1>7. Holds(w, TableHead(a, 18) + RowSize * (17 - 1), rows[17])
  BY <1>2, <1>4 DEF TableEndsAt
<1>8. TableHead(a, 18) + RowSize * (17 - 1) = a - 4
  BY DEF TableHead, RowSize
<1>9. At(w, a - 4 + 1 - 1) = 1887000
  BY <1>6, <1>7, <1>8 DEF Holds
<1>10. a - 4 + 1 - 1 = a - 4
  OBVIOUS
<1> QED
  BY <1>9, <1>10, SMT

-----------------------------------------------------------------------------
(* Cells of a table that takes the place of another.                       *)

(* A cell of a table, the word it is, and what a new table writes there.   *)
HasCell(F, head, rows, i, r) ==
    /\ head + RowSize * (i - 1) + r - 1 \in DOMAIN F
    /\ F[head + RowSize * (i - 1) + r - 1] = rows[i][r]

LEMMA TableCell ==
    ASSUME NEW head \in Int, NEW n \in Nat, NEW rows, Len(rows) = n, NEW i \in 1..n, NEW r \in 1..4
    PROVE  HasCell(PutTable(head, rows), head, rows, i, r)
<1> DEFINE b == head + RowSize * (i - 1) + r - 1
<1>1. b \in head..(head + RowSize * Len(rows) - 1)
  BY DEF RowSize
<1>2. 1 + (b - head) \div RowSize = i /\ 1 + ((b - head) % RowSize) = r
  <2>1. b - head = 4 * (i - 1) + (r - 1) /\ i - 1 \in Int /\ r - 1 \in 0..3
    BY DEF RowSize
  <2> HIDE DEF b
  <2>2. (4 * (i - 1) + (r - 1)) \div 4 = i - 1 /\ (4 * (i - 1) + (r - 1)) % 4 = r - 1
    BY <2>1
  <2> QED
    BY <2>1, <2>2 DEF RowSize
<1> HIDE DEF b
<1>3. b \in DOMAIN PutTable(head, rows)
      /\ PutTable(head, rows)[b] = rows[1 + (b - head) \div RowSize][1 + ((b - head) % RowSize)]
  BY <1>1, Zenon DEF PutTable
<1> QED
  BY <1>2, <1>3 DEF b, HasCell

(* A word after the word b a table was found at, in the table of n rows    *)
(* that takes the place of one of old rows: it is in the last row of the   *)
(* old table or in a new one, and w holds the rows.                        *)
NewCell(w, x, b, old, n, rows, i, r) ==
    /\ i \in 2..n /\ r \in 1..4 /\ old <= i /\ (i = old => r >= 2)
    /\ \A j \in 1..n, k \in 1..4 : At(w, TableHead(b, old) + RowSize * (j - 1) + k - 1) = rows[j][k]
    /\ x = TableHead(b, old) + RowSize * (i - 1) + r - 1

LEMMA CellOf ==
    ASSUME NEW w, NEW F, NEW b \in Int, NEW old \in 2..30, NEW n \in 1..30, NEW rows, Len(rows) = n,
           F = PutTable(TableHead(b, old), rows),
           \A y \in DOMAIN F : At(w, y) = F[y],
           NEW x \in DOMAIN F, x > b
    PROVE  \E i \in 1..n, r \in 1..4 : NewCell(w, x, b, old, n, rows, i, r)
<1>1. TableHead(b, old) \in Int /\ b = TableHead(b, old) + RowSize * (old - 1) /\ n \in Nat
  BY DEF TableHead, RowSize
<1>2. PICK i \in 1..n, r \in 1..4 : x = TableHead(b, old) + RowSize * (i - 1) + r - 1
  BY <1>1, PutTableIs
<1>3. old <= i /\ (i = old => r >= 2) /\ i \in 2..n
  BY <1>1, <1>2 DEF RowSize
<1>4. \A j \in 1..n, k \in 1..4 : At(w, TableHead(b, old) + RowSize * (j - 1) + k - 1) = rows[j][k]
  <2>1. ASSUME NEW j \in 1..n, NEW k \in 1..4
        PROVE  At(w, TableHead(b, old) + RowSize * (j - 1) + k - 1) = rows[j][k]
    <3>1. HasCell(F, TableHead(b, old), rows, j, k)
      BY <1>1, TableCell, Zenon
    <3> QED
      BY <3>1, Zenon DEF HasCell
  <2> QED
    BY <2>1, Zenon
<1> QED
  BY <1>2, <1>3, <1>4, Zenon DEF NewCell

(* The words beside it.                                                    *)
Beside(w, x, rows, i, r) ==
    /\ At(w, x) = rows[i][r]
    /\ r >= 2 => At(w, x - 1) = rows[i][r - 1]
    /\ r = 2 => At(w, x - 2) = rows[i - 1][4]
    /\ r = 3 => At(w, x - 2) = rows[i][1] /\ At(w, x - 3) = rows[i - 1][4]

LEMMA CellsBeside ==
    ASSUME NEW w, NEW x, NEW b \in Int, NEW old \in 2..30, NEW n \in 1..30, NEW rows, NEW i, NEW r,
           NewCell(w, x, b, old, n, rows, i, r)
    PROVE  Beside(w, x, rows, i, r)
<1> DEFINE h == TableHead(b, old)
<1>1. i \in 2..n /\ r \in 1..4 /\ x = h + RowSize * (i - 1) + r - 1 /\ h \in Int
  BY DEF NewCell, TableHead, RowSize
<1>2. ASSUME NEW j \in 1..n, NEW k \in 1..4 PROVE At(w, h + 4 * (j - 1) + k - 1) = rows[j][k]
  BY DEF NewCell, RowSize
<1> HIDE DEF h
<1>3. x = h + 4 * (i - 1) + r - 1 /\ i \in 1..n /\ i - 1 \in 1..n
  BY <1>1 DEF RowSize
<1>4. At(w, x) = rows[i][r]
  BY <1>1, <1>2, <1>3
<1>5. ASSUME r >= 2 PROVE At(w, x - 1) = rows[i][r - 1]
  <2>1. r - 1 \in 1..4 /\ x - 1 = h + 4 * (i - 1) + (r - 1) - 1
    BY <1>1, <1>3, <1>5
  <2> QED
    BY <1>2, <1>3, <2>1
<1>6. ASSUME r = 2 PROVE At(w, x - 2) = rows[i - 1][4]
  <2>1. x - 2 = h + 4 * ((i - 1) - 1) + 4 - 1
    BY <1>1, <1>3, <1>6
  <2> QED
    BY <1>2, <1>3, <2>1
<1>7. ASSUME r = 3 PROVE At(w, x - 2) = rows[i][1] /\ At(w, x - 3) = rows[i - 1][4]
  <2>1. x - 2 = h + 4 * (i - 1) + 1 - 1 /\ x - 3 = h + 4 * ((i - 1) - 1) + 4 - 1
    BY <1>1, <1>3, <1>7
  <2> QED
    BY <1>2, <1>3, <2>1
<1> QED
  BY <1>4, <1>5, <1>6, <1>7 DEF Beside

-----------------------------------------------------------------------------
(* The cells of the CPU's table, and the words that are new among them.    *)

(* What a patch writes is what the image then holds.                       *)
LEMMA AloneWrote ==
    ASSUME soc \in Socs, cust \in CustomizeTable, NEW p, NEW b \in Int, Alone(p, b),
           NEW y \in DOMAIN Writes(soc, cust, nso.word, p, b)
    PROVE  At(word, y) = Writes(soc, cust, nso.word, p, b)[y]
<1>1. PatchOf(soc, p)
  BY DEF Alone
<1>2. y \in Structure(p, b)
  BY <1>1, WritesInStructure
<1> QED
  BY <1>2, Zenon DEF Alone

(* The cells of a row of the CPU's table.                                  *)
CpuCellsAre(s, t, f) ==
    /\ t[1] = f /\ t[4] = 0
    /\ t[2] \in {51, 52} \/ (s = "Erista" /\ \E m \in 1100..1300 : t[2] = 1000 * m)
    /\ \/ t[3] \in CpuVolts
       \/ s = "Mariko" /\ t[2] \in {51, 52} /\ \E m \in 1100..1300 : t[3] = 1000 * m

LEMMA CpuCells ==
    ASSUME NEW s \in Socs, NEW c \in CustomizeTable, SafetyCheckPasses(c), NEW t, NEW f,
           IsCpuRow(s, c, t, f)
    PROVE  CpuCellsAre(s, t, f)
<1>1. CpuMaxVolt(s, c) # 0 => CpuMaxVolt(s, c) \in 1100..1300
  <2>1. c.marikoCpuMaxVolt \in Nat /\ c.eristaCpuMaxVolt \in Nat
    BY CustomInts
  <2>2. InRange(c.marikoCpuMaxVolt, 1100, 1300) /\ InRange(c.eristaCpuMaxVolt, 1100, 1300)
    BY SMT DEF SafetyCheckPasses
  <2> QED
    BY <2>1, <2>2, BetweenDef, SMT DEF CpuMaxVolt, InRange
<1> DEFINE v == CpuMaxVolt(s, c)
<1>2. /\ v # 0 => v \in 1100..1300
      /\ \/ \E k \in {51, 52}, e \in CpuVolts : t = <<f, k, e, 0>>
         \/ v # 0 /\ s = "Mariko" /\ \E k \in {51, 52} : t = <<f, k, v * 1000, 0>>
         \/ v # 0 /\ s = "Erista" /\ \E e \in CpuVolts : t = <<f, v * 1000, e, 0>>
  BY <1>1, SMT DEF IsCpuRow
<1> HIDE DEF v
<1>3. CASE \E k \in {51, 52}, e \in CpuVolts : t = <<f, k, e, 0>>
  BY <1>3 DEF CpuCellsAre
<1>4. CASE v # 0 /\ s = "Mariko" /\ \E k \in {51, 52} : t = <<f, k, v * 1000, 0>>
  <2>1. PICK k \in {51, 52} : t = <<f, k, v * 1000, 0>>
    BY <1>4
  <2>2. v \in 1100..1300 /\ v * 1000 = 1000 * v
    BY <1>2, <1>4
  <2>3. t[1] = f /\ t[2] = k /\ t[3] = 1000 * v /\ t[4] = 0
    BY <2>1, <2>2
  <2> QED
    BY <1>4, <2>2, <2>3 DEF CpuCellsAre
<1>5. CASE v # 0 /\ s = "Erista" /\ \E e \in CpuVolts : t = <<f, v * 1000, e, 0>>
  <2>1. PICK e \in CpuVolts : t = <<f, v * 1000, e, 0>>
    BY <1>5
  <2>2. v \in 1100..1300 /\ v * 1000 = 1000 * v
    BY <1>2, <1>5
  <2>3. t[1] = f /\ t[2] = 1000 * v /\ t[3] = e /\ t[4] = 0
    BY <2>1, <2>2
  <2> QED
    BY <1>5, <2>2, <2>3 DEF CpuCellsAre
<1> QED
  BY <1>2, <1>3, <1>4, <1>5

(* None of them is a key, but a voltage that is one of the memory's.       *)
LEMMA CpuCellKeys ==
    ASSUME NEW s \in Socs
    PROVE  /\ \A v \in CpuVolts : ~Key(s, v)
           /\ ~Key(s, 51) /\ ~Key(s, 52) /\ ~Key(s, 0)
           /\ \A m \in 1100..1300 : Key(s, 1000 * m) => 1000 * m \in {1100000, 1125000}
           /\ \A i \in 17..22 : Key(s, CpuKhz(i)) => s = "Mariko" /\ i <= 18
           /\ \A i \in 1..22 : CpuKhz(i) # 600000
<1>1. \A v \in CpuVolts : ~Key(s, v)
  BY SMT DEF Key, CpuVolts
<1>2. ~Key(s, 51) /\ ~Key(s, 52) /\ ~Key(s, 0)
  BY SMT DEF Key
<1>3. ASSUME NEW m \in 1100..1300, Key(s, 1000 * m) PROVE 1000 * m \in {1100000, 1125000}
  <2>1. 1000 * m \in Int
    BY SMT
  <2> DEFINE v == 1000 * m
  <2>2. v \in {1785000, 1963500, 1120, 65487, 1267200, 600000, 1100000, 21330000, 1132, 1170, 1227,
               921600, 9216000, 1125000, 18660000, 1600000} \/ v \div 32 = 43257856
    BY <1>3, SMT DEF Key
  <2>3. v \in Int /\ 1100000 <= v /\ v <= 1300000 /\ v # 1267200
    BY SMT
  <2> HIDE DEF v
  <2>4. v \in {1100000, 1125000}
    BY <2>2, <2>3, SMT
  <2> QED
    BY <2>4 DEF v
<1>4. ASSUME NEW i \in 17..22, Key(s, CpuKhz(i)) PROVE s = "Mariko" /\ i <= 18
  <2>1. CASE i = 17 \/ i = 18
    BY <1>4, <2>1, SMT DEF Key, CpuKhz, Socs
  <2>2. CASE i = 19 \/ i = 20 \/ i = 21 \/ i = 22
    BY <1>4, <2>2, SMT DEF Key, CpuKhz
  <2> QED
    BY <2>1, <2>2
<1>5. \A i \in 1..22 : CpuKhz(i) # 600000
  BY SMT DEF CpuKhz
<1> QED
  BY <1>1, <1>2, <1>3, <1>4, <1>5, SMT

-----------------------------------------------------------------------------
(* New words of the CPU's and of the GPU's table.                          *)

(* A new word of the CPU's table is found by nothing.                      *)
LEMMA NewCpuWord ==
    ASSUME soc \in Socs, cust \in CustomizeTable, SafetyCheckPasses(cust), NEW b \in Int,
           Alone("CpuTable", b), NEW x \in DOMAIN Writes(soc, cust, nso.word, "CpuTable", b), x > b,
           x \in Int
    PROVE  Found(soc, word, x) = "none"
<1> DEFINE F == Writes(soc, cust, nso.word, "CpuTable", b)
           old == CpuOld(soc)
           n == CpuNew(soc, cust)
<1>1. \A y \in DOMAIN F : At(word, y) = F[y]
  BY AloneWrote, Zenon
<1>2. PICK rows :
         /\ F = PutTable(TableHead(b, old), rows) /\ Len(rows) = n
         /\ \A i \in 1..n : IsCpuRow(soc, cust, rows[i], CpuKhz(i))
  <2>1. PICK rows :
           /\ CpuFreqCvbTable(soc, cust, b) = PutTable(TableHead(b, old), rows)
           /\ Len(rows) = n
           /\ \A i \in 1..n : IsRow(rows[i], CpuKhz(i)) /\ IsCpuRow(soc, cust, rows[i], CpuKhz(i))
    BY CpuRowsIn, Zenon
  <2>2. F = CpuFreqCvbTable(soc, cust, b)
    BY Zenon DEF Writes
  <2> HIDE DEF F, old, n
  <2> QED
    BY <2>1, <2>2, Zenon
<1>3. /\ old \in 2..30 /\ n \in 1..30 /\ n <= 22 /\ old >= 16
      /\ soc = "Mariko" => old = 18
  BY DEF CpuOld, CpuNew
<1> HIDE DEF F, old, n
<1>4. PICK i \in 1..n, r \in 1..4 : NewCell(word, x, b, old, n, rows, i, r)
  <2>1. x \in DOMAIN F
    BY DEF F
  <2> QED
    BY <1>1, <1>2, <1>3, <2>1, CellOf, Zenon
<1>5. /\ i \in 2..n /\ old <= i /\ (i = old => r >= 2) /\ i - 1 \in 1..n /\ i \in 1..22
  BY <1>3, <1>4 DEF NewCell
<1>6. Beside(word, x, rows, i, r)
  BY <1>3, <1>4, CellsBeside, Zenon
<1>7. rows[i - 1][4] = 0
  <2>1. IsCpuRow(soc, cust, rows[i - 1], CpuKhz(i - 1))
    BY <1>2, <1>5, Zenon
  <2>2. CpuCellsAre(soc, rows[i - 1], CpuKhz(i - 1))
    BY <2>1, CpuCells, Zenon
  <2> QED
    BY <2>2, Zenon DEF CpuCellsAre
<1>8. IsCpuRow(soc, cust, rows[i], CpuKhz(i))
  BY <1>2, <1>4, Zenon
<1> DEFINE t == rows[i]
<1>9. CpuCellsAre(soc, t, CpuKhz(i))
  BY <1>8, CpuCells, Zenon
<1>a. t[1] = CpuKhz(i) /\ t[4] = 0
  <2> HIDE DEF t
  <2> QED
    BY <1>9 DEF CpuCellsAre
<1>10. /\ At(word, x) = t[r]
       /\ r >= 2 => At(word, x - 1) = t[r - 1]
       /\ r = 2 => At(word, x - 2) = 0
       /\ r = 3 => At(word, x - 2) = CpuKhz(i)
  BY <1>6, <1>7, <1>a, Zenon DEF Beside
<1>11. CpuKhz(i) # 600000
  BY <1>5, CpuCellKeys, SMT
<1> HIDE DEF t
<1>12. CASE r = 1
  <2>1. i > old /\ i \in 17..22 /\ ~(soc = "Mariko" /\ i <= 18)
    BY <1>3, <1>5, <1>12
  <2>2. ~Key(soc, CpuKhz(i))
    BY <2>1, CpuCellKeys, SMT
  <2> QED
    BY <1>a, <1>10, <1>12, <2>2, QuietNone, Zenon
<1>13. CASE r = 4
  <2>1. ~Key(soc, 0)
    BY CpuCellKeys
  <2> QED
    BY <1>a, <1>10, <1>13, <2>1, QuietNone, Zenon
<1>14. CASE r = 2
  <2>1. At(word, x) = t[2] /\ At(word, x - 1) = CpuKhz(i) /\ At(word, x - 2) = 0
    BY <1>9, <1>10, <1>14 DEF CpuCellsAre
  <2>2. CASE t[2] \in {51, 52}
    <3>1. ~Key(soc, t[2])
      BY <2>2, CpuCellKeys
    <3> QED
      BY <2>1, <3>1, QuietNone, Zenon
  <2>3. CASE \E m \in 1100..1300 : t[2] = 1000 * m
    <3>1. ~Key(soc, t[2]) \/ t[2] \in {1100000, 1125000}
      BY <2>3, CpuCellKeys, SMT
    <3>2. CASE ~Key(soc, t[2])
      BY <2>1, <3>2, QuietNone, Zenon
    <3>3. CASE t[2] \in {1100000, 1125000}
      BY <1>11, <2>1, <3>3, NoRegulator, SMT
    <3> QED
      BY <3>1, <3>2, <3>3
  <2> QED
    BY <1>9, <2>2, <2>3 DEF CpuCellsAre
<1>15. CASE r = 3
  <2>1. At(word, x) = t[3] /\ At(word, x - 1) = t[2] /\ At(word, x - 2) = CpuKhz(i)
    BY <1>10, <1>15
  <2>2. CASE t[3] \in CpuVolts
    <3>1. ~Key(soc, t[3])
      BY <2>2, CpuCellKeys
    <3> QED
      BY <2>1, <3>1, QuietNone, Zenon
  <2>3. CASE t[2] \in {51, 52} /\ \E m \in 1100..1300 : t[3] = 1000 * m
    <3>1. ~Key(soc, t[3]) \/ t[3] \in {1100000, 1125000}
      BY <2>3, CpuCellKeys, SMT
    <3>2. CASE ~Key(soc, t[3])
      BY <2>1, <3>2, QuietNone, Zenon
    <3>3. CASE t[3] \in {1100000, 1125000}
      BY <1>11, <2>1, <2>3, <3>3, NoRegulator, SMT
    <3> QED
      BY <3>1, <3>2, <3>3
  <2> QED
    BY <1>9, <2>2, <2>3 DEF CpuCellsAre
<1> QED
  BY <1>4, <1>12, <1>13, <1>14, <1>15

(* The cells of a row of the GPU's table.                                  *)
GpuCellsAre(t, f) ==
    /\ t[1] = f /\ t[2] = 0 /\ t[4] \in {0, 51, 52, 53}
    /\ \/ t[3] \in Int /\ t[3] < 1120
       \/ \E m \in Nat : t[3] = 1000 * m /\ 1000 * m < EmcClkOSLimit

LEMMA GpuCells ==
    ASSUME NEW s \in Socs, NEW c \in CustomizeTable, GpuVoltsNoLimit(c), NEW t, NEW f,
           IsGpuRow(s, c, t, f)
    PROVE  GpuCellsAre(t, f)
<1>1. PICK k \in {51, 52, 53} :
        \/ t = <<f, 0, k - c.commonGpuVoltOffset * 1000, k>>
        \/ \E i \in 1..17 : t = <<f, 0, c.marikoGpuVoltArray[i] * 1000, 0>>
  BY SMT DEF IsGpuRow
<1>2. CASE t = <<f, 0, k - c.commonGpuVoltOffset * 1000, k>>
  <2>1. c.commonGpuVoltOffset \in Nat
    BY CustomInts
  <2> DEFINE v == k - c.commonGpuVoltOffset * 1000
  <2>2. v \in Int /\ v < 1120
    BY <2>1
  <2>3. t = <<f, 0, v, k>>
    BY <1>2
  <2> HIDE DEF v
  <2> QED
    BY <2>2, <2>3 DEF GpuCellsAre
<1>3. CASE \E i \in 1..17 : t = <<f, 0, c.marikoGpuVoltArray[i] * 1000, 0>>
  <2>1. PICK i \in 1..17 : t = <<f, 0, c.marikoGpuVoltArray[i] * 1000, 0>>
    BY <1>3
  <2> DEFINE m == c.marikoGpuVoltArray[i]
  <2>2. m \in Nat /\ 1000 * m < EmcClkOSLimit
    BY CustomInts DEF GpuVoltsNoLimit
  <2>3. t = <<f, 0, 1000 * m, 0>>
    BY <2>1, <2>2
  <2> HIDE DEF m
  <2> QED
    BY <2>2, <2>3 DEF GpuCellsAre
<1> QED
  BY <1>1, <1>2, <1>3

LEMMA GpuCellKeys ==
    ASSUME NEW s \in Socs
    PROVE  /\ \A m \in Nat : 1000 * m < 1600000 /\ Key(s, 1000 * m)
                 => 1000 * m \in {600000, 1100000, 1125000}
           /\ ~Key(s, GpuKhz(13))
           /\ \A i \in 1..17 : GpuKhz(i) # 600000
<1>1. ASSUME NEW m \in Nat, 1000 * m < 1600000, Key(s, 1000 * m)
      PROVE  1000 * m \in {600000, 1100000, 1125000}
  <2> DEFINE v == 1000 * m
  <2>2. v \in {1785000, 1963500, 1120, 65487, 1267200, 600000, 1100000, 21330000, 1132, 1170, 1227,
               921600, 9216000, 1125000, 18660000, 1600000} \/ v \div 32 = 43257856
    BY <1>1, SMT DEF Key
  <2>3. /\ v \in Int /\ v < 1600000 /\ v # 1267200 /\ v # 1120 /\ v # 65487 /\ v # 1132
        /\ v # 1170 /\ v # 1227 /\ v # 921600
    BY <1>1, SMT
  <2> HIDE DEF v
  <2>4. v \in {600000, 1100000, 1125000}
    BY <2>2, <2>3, SMT
  <2> QED
    BY <2>4 DEF v
<1>2. ~Key(s, GpuKhz(13))
  BY SMT DEF Key, GpuKhz
<1>3. \A i \in 1..17 : GpuKhz(i) # 600000
  BY SMT DEF GpuKhz
<1> QED
  BY <1>1, <1>2, <1>3, SMT

(* A new word of the GPU's table is found by nothing.                      *)
LEMMA NewGpuWord ==
    ASSUME soc \in Socs, cust \in CustomizeTable, GpuVoltsNoLimit(cust), NEW b \in Int,
           Alone("GpuTable", b), NEW x \in DOMAIN Writes(soc, cust, nso.word, "GpuTable", b), x > b,
           x \in Int
    PROVE  Found(soc, word, x) = "none"
<1> DEFINE F == Writes(soc, cust, nso.word, "GpuTable", b)
           old == GpuOld(soc)
           n == GpuNew(soc)
<1>1. \A y \in DOMAIN F : At(word, y) = F[y]
  BY AloneWrote, Zenon
<1>2. PICK rows :
         /\ F = PutTable(TableHead(b, old), rows) /\ Len(rows) = n
         /\ \A i \in 1..n : IsGpuRow(soc, cust, rows[i], GpuKhz(i))
  <2>1. PICK rows :
           /\ GpuFreqCvbTable(soc, cust, b) = PutTable(TableHead(b, old), rows)
           /\ Len(rows) = n
           /\ \A i \in 1..n : IsRow(rows[i], GpuKhz(i)) /\ IsGpuRow(soc, cust, rows[i], GpuKhz(i))
    BY GpuRowsIn, Zenon
  <2>2. F = GpuFreqCvbTable(soc, cust, b)
    BY Zenon DEF Writes
  <2> HIDE DEF F, old, n
  <2> QED
    BY <2>1, <2>2, Zenon
<1>3. /\ old \in 2..30 /\ n \in 1..30 /\ n <= 17 /\ (n = old \/ (n = 13 /\ old = 12))
  <2>1. soc = "Mariko" \/ soc = "Erista"
    BY DEF Socs
  <2>2. (old = 17 /\ n = 17) \/ (old = 12 /\ n = 13)
    BY <2>1 DEF GpuOld, GpuNew
  <2> HIDE DEF old, n
  <2> QED
    BY <2>2
<1> HIDE DEF F, old, n
<1>4. PICK i \in 1..n, r \in 1..4 : NewCell(word, x, b, old, n, rows, i, r)
  <2>1. x \in DOMAIN F
    BY DEF F
  <2> QED
    BY <1>1, <1>2, <1>3, <2>1, CellOf, Zenon
<1>5. /\ i \in 2..n /\ old <= i /\ (i = old => r >= 2) /\ i - 1 \in 1..n /\ i \in 1..17
  BY <1>3, <1>4 DEF NewCell
<1>6. Beside(word, x, rows, i, r)
  BY <1>3, <1>4, CellsBeside, Zenon
<1>7. rows[i - 1][4] \in {0, 51, 52, 53}
  <2>1. IsGpuRow(soc, cust, rows[i - 1], GpuKhz(i - 1))
    BY <1>2, <1>5, Zenon
  <2> QED
    BY <2>1, GpuCells, SMT DEF GpuCellsAre
<1>8. IsGpuRow(soc, cust, rows[i], GpuKhz(i))
  BY <1>2, <1>4, Zenon
<1> DEFINE t == rows[i]
           z == rows[i - 1][4]
<1>9. /\ t[1] = GpuKhz(i) /\ t[2] = 0 /\ t[4] \in {0, 51, 52, 53}
      /\ \/ t[3] \in Int /\ t[3] < 1120
         \/ \E m \in Nat : t[3] = 1000 * m /\ 1000 * m < 1600000
  BY <1>8, GpuCells, SMT DEF GpuCellsAre, EmcClkOSLimit
<1>10. /\ At(word, x) = t[r]
       /\ r = 3 => At(word, x - 1) = t[2] /\ At(word, x - 2) = t[1] /\ At(word, x - 3) = z
  BY <1>6 DEF Beside
<1>a. t[1] = GpuKhz(i)
  <2> HIDE DEF t
  <2> QED
    BY <1>9
<1>11. GpuKhz(i) # 600000
  BY <1>5, GpuCellKeys, SMT
<1> HIDE DEF t, z
<1>12. CASE r = 1
  <2>1. i = 13
    BY <1>3, <1>5, <1>12
  <2>2. ~Key(soc, GpuKhz(i))
    BY <2>1, GpuCellKeys, SMT
  <2> QED
    BY <1>a, <1>10, <1>12, <2>2, QuietNone, Zenon
<1>13. CASE r = 2 \/ r = 4
  <2>1. t[r] \in Int /\ t[r] < 1120
    BY <1>9, <1>13
  <2> QED
    BY <1>10, <2>1, LowNone
<1>15. CASE r = 3
  <2>1. At(word, x) = t[3] /\ At(word, x - 1) = 0 /\ At(word, x - 2) = GpuKhz(i) /\ At(word, x - 3) = z
    BY <1>9, <1>10, <1>15
  <2>2. CASE t[3] \in Int /\ t[3] < 1120
    BY <2>1, <2>2, LowNone
  <2>3. CASE \E m \in Nat : t[3] = 1000 * m /\ 1000 * m < 1600000
    <3>1. ~Key(soc, t[3]) \/ t[3] \in {600000, 1100000, 1125000}
      BY <2>3, GpuCellKeys, SMT
    <3>2. CASE ~Key(soc, t[3])
      BY <2>1, <3>2, QuietNone, Zenon
    <3>3. CASE t[3] \in {1100000, 1125000}
      BY <1>11, <2>1, <3>3, NoRegulator, SMT
    <3>4. CASE t[3] = 600000
      <4>1. z # 250000
        BY <1>7, SMT DEF z
      <4> QED
        BY <2>1, <3>4, <4>1, NoVddq, SMT
    <3> QED
      BY <3>1, <3>2, <3>3, <3>4, SMT
  <2> QED
    BY <1>9, <2>2, <2>3
<1> QED
  BY <1>4, <1>12, <1>13, <1>15

-----------------------------------------------------------------------------
(* New words of an instruction, of a clock generator and of the tuning.    *)
LEMMA HighNone ==
    ASSUME NEW s \in Socs, NEW w, NEW a, At(w, a) \in Int, At(w, a) > 1500000000
    PROVE  Found(s, w, a) = "none"
<1>1. ~Key(s, At(w, a))
  <2> DEFINE v == At(w, a)
  <2>1. v \in Int /\ v > 1500000000
    OBVIOUS
  <2> HIDE DEF v
  <2>2. ~Key(s, v)
    BY <2>1, SMT DEF Key
  <2> QED
    BY <2>2 DEF v
<1> QED
  BY <1>1, QuietNone

LEMMA NewAsmWord ==
    ASSUME soc \in Socs, cust \in CustomizeTable, NEW b \in Int, Alone("GpuAsm", b),
           At(nso.word, b) \in Int,
           NEW x \in DOMAIN Writes(soc, cust, nso.word, "GpuAsm", b), x > b, x \in Int
    PROVE  Found(soc, word, x) = "none"
<1> DEFINE max == GetDvfsTableLastEntry(GpuCustomize(soc, cust).freqs)
           rd == asm_get_rd(At(nso.word, b))
           w1 == asm_set(asm_pattern[1], max % 65536, rd)
           high == max \div 65536
           w2 == asm_set(asm_pattern[2], high, rd)
           F == Writes(soc, cust, nso.word, "GpuAsm", b)
<1>1. F = Put(b, <<w1, w2>>)
  <2>1. F = GpuFreqMaxAsm(soc, cust, nso.word, b)
    BY Zenon DEF Writes
  <2>2. GpuFreqMaxAsm(soc, cust, nso.word, b) = Put(b, <<w1, w2>>)
    <3> HIDE DEF F
    <3> QED
      BY DEF GpuFreqMaxAsm
  <2> QED
    BY <2>1, <2>2
<1>2. high \in Int /\ 0 <= high
  <2>1. GpuNew(soc) \in 1..17 /\ max = GpuKhz(GpuNew(soc))
    BY Counts, LastEntries
  <2>2. max \in Int /\ 0 <= max
    BY <2>1, GpuKhzIs
  <2> HIDE DEF max
  <2> QED
    BY <2>2
<1>3. rd \in 0..31
  BY DEF asm_get_rd
<1> HIDE DEF max, high, rd
<1>4. w2 \in Int /\ w2 > 1500000000
  <2>1. asm_set(asm_pattern[2], high, rd) = 32 * (60096512 + high) + rd
    <3>1. asm_imm16(1923088832) = 14 /\ asm_get_rd(1923088832) = 0 /\ asm_pattern[2] = 1923088832
      BY SMT DEF asm_imm16, asm_get_rd, asm_pattern
    <3> QED
      BY <1>2, <1>3, <3>1, SMT DEF asm_set
  <2> QED
    BY <1>2, <1>3, <2>1
<1> HIDE DEF w1, w2
<1>5. DOMAIN F = b..(b + 1) /\ F[b + 1] = w2
  <2> HIDE DEF F
  <2> QED
    BY <1>1 DEF Put
<1>6. x \in DOMAIN F
  BY DEF F
<1>7. At(word, x) = F[x]
  BY AloneWrote
<1> HIDE DEF F
<1>8. At(word, x) = w2
  BY <1>5, <1>6, <1>7
<1> QED
  BY <1>4, <1>8, HighNone

LEMMA NewPllmWord ==
    ASSUME soc \in Socs, cust \in CustomizeTable, NEW b \in Int, Alone("Pllm", b),
           NEW x \in DOMAIN Writes(soc, cust, nso.word, "Pllm", b), x > b, x \in Int
    PROVE  Found(soc, word, x) = "none"
<1> DEFINE F == Writes(soc, cust, nso.word, "Pllm", b)
           v == 2 * At(nso.word, b)
<1>1. F = Over(Put(b, <<v>>), Put(b + 2, <<v>>))
  BY Zenon DEF Writes
<1>2. v \in {42660000, 37320000}
  <2>1. At(nso.word, b) = EmcClkPllmLimit(soc)
    BY SMT DEF Alone, Matches
  <2> QED
    BY <2>1 DEF EmcClkPllmLimit
<1>3. At(word, x) = F[x] /\ x \in DOMAIN F
  BY AloneWrote
<1> HIDE DEF F, v
<1>4. At(word, x) = v
  <2> DEFINE p == Put(b, <<v>>)
             q == Put(b + 2, <<v>>)
  <2>1. DOMAIN p = {b} /\ p[b] = v
    BY PutOne, Zenon
  <2>4. DOMAIN q = {b + 2} /\ q[b + 2] = v
    <3>1. b + 2 \in Int
      OBVIOUS
    <3> QED
      BY <3>1, PutOne, Zenon
  <2>5. F = Over(p, q)
    BY <1>1
  <2> HIDE DEF p, q
  <2>2. x \in DOMAIN p \/ x \in DOMAIN q
    BY <1>3, <2>5, OverDomain, Zenon
  <2>3. F[x] = IF x \in DOMAIN p THEN p[x] ELSE q[x]
    BY <1>3, <2>5 DEF Over
  <2> QED
    BY <1>3, <2>1, <2>2, <2>3, <2>4
<1>5. ~Key(soc, v)
  BY <1>2, SMT DEF Key
<1> QED
  BY <1>4, <1>5, QuietNone, Zenon

LEMMA NewDfllWord ==
    ASSUME soc \in Socs, cust \in CustomizeTable, NEW b \in Int, Alone("CpuDfll", b),
           NEW x \in DOMAIN Writes(soc, cust, nso.word, "CpuDfll", b), x > b, x \in Int
    PROVE  Found(soc, word, x) = "none"
<1> DEFINE F == Writes(soc, cust, nso.word, "CpuDfll", b)
           first == CASE cust.marikoCpuUV = 1 -> 65424
                      [] cust.marikoCpuUV = 2 -> 65440
                      [] cust.marikoCpuUV \notin {1, 2} -> At(nso.word, b)
<1>1. F = CpuVoltDfll(cust, nso.word, b)
  BY Zenon DEF Writes
<1>2. At(word, x) = F[x] /\ x \in DOMAIN F
  BY AloneWrote
<1>3. cust.marikoCpuUV # 0
  <2> HIDE DEF F
  <2>1. cust.marikoCpuUV = 0 => F = Nothing
    BY <1>1 DEF CpuVoltDfll
  <2> QED
    BY <1>2, <2>1, NothingIs, Zenon
<1>4. F = Put(b, <<first, 65535, 34670591, 0>>)
  <2> HIDE DEF F
  <2> QED
    BY <1>1, <1>3, SMT DEF CpuVoltDfll
<1> HIDE DEF F, first
<1>5. At(word, x) \in {65535, 34670591, 0}
  <2>1. DOMAIN F = b..(b + 3) /\ F[b + 1] = 65535 /\ F[b + 2] = 34670591 /\ F[b + 3] = 0
    BY <1>4, SMT DEF Put
  <2>2. x = b + 1 \/ x = b + 2 \/ x = b + 3
    BY <1>2, <2>1, SMT
  <2> QED
    BY <1>2, <2>1, <2>2, SMT
<1>6. ~Key(soc, At(word, x))
  BY <1>5, SMT DEF Key
<1> QED
  BY <1>6, QuietNone, Zenon

-----------------------------------------------------------------------------
(* New words of the memory's timings and of its voltage table.             *)
LEMMA NewMtcWord ==
    ASSUME soc \in Socs, cust \in CustomizeTable, SafetyCheckPasses(cust), NEW b \in Int,
           Alone("Mtc", b), NEW x \in DOMAIN Writes(soc, cust, nso.word, "Mtc", b), x > b, x \in Int
    PROVE  Found(soc, word, x) = "none"
<1> DEFINE F == Writes(soc, cust, nso.word, "Mtc", b)
           clk == EmcMaxClock(soc, cust)
           top == Put(b, MtcTop(soc, cust))
           moved == MtcMoved(soc, nso.word, b)
<1>1. F = IF Overclocked(soc, cust) THEN Over(top, moved) ELSE Nothing
  <2>1. F = MemFreqMtcTable(soc, cust, nso.word, b)
    BY Zenon DEF Writes
  <2> HIDE DEF F, top, moved
  <2> QED
    BY <2>1, MtcIs, Zenon DEF top, moved
<1>2. At(word, x) = F[x] /\ x \in DOMAIN F
  BY AloneWrote
<1>3. Overclocked(soc, cust) /\ F = Over(top, moved)
  <2> HIDE DEF F, top, moved
  <2> QED
    BY <1>1, <1>2, NothingIs, Zenon
<1>4. x \notin DOMAIN moved
  <2>1. SUFFICES ASSUME NEW i \in MtcSources(soc), x \in (MtcTable(b, i) - 1)..(MtcTable(b, i) + 2)
                 PROVE  FALSE
    BY Zenon DEF MtcMoved
  <2>2. i \in Int /\ i >= 2
    <3>1. Len(KhzList(soc)) \in {3, 10}
      BY KhzListIs
    <3> QED
      BY <3>1, MtcSourcesAre
  <2>3. MtcTable(b, i) = b - 4 * (i - 1) /\ MtcTable(b, i) \in Int
    BY <2>2, MtcTableIs
  <2> QED
    BY <2>1, <2>2, <2>3
<1> HIDE DEF F
<1>5. x \in DOMAIN top /\ F[x] = top[x]
  <2> HIDE DEF top, moved
  <2>1. x \in DOMAIN top
    BY <1>2, <1>3, <1>4, OverDomain, Zenon
  <2> QED
    BY <1>2, <1>3, <2>1 DEF Over
<1>6. soc = "Mariko"
  <2> SUFFICES ASSUME soc # "Mariko" PROVE FALSE
    OBVIOUS
  <2>1. top = Put(b, <<clk>>)
    BY Zenon DEF MtcTop
  <2>2. DOMAIN Put(b, <<clk>>) = {b}
    BY PutOne, Zenon
  <2> HIDE DEF top, clk
  <2> QED
    BY <1>5, <2>1, <2>2
<1> DEFINE d == Pllmb(clk)
<1>7. top = Put(b, <<clk, d.divm, d.divn>>)
  BY <1>6, Zenon DEF MtcTop
<1>8. clk \in Int /\ 0 <= clk /\ clk <= 2800000
  BY <1>3, ClockRange, BetweenDef, SMT
<1>9. d.divm \in Int /\ d.divn \in Int /\ d.divm < 5 /\ d.divn < 300
  <2> HIDE DEF clk
  <2> QED
    BY <1>8, PllmbIs, SMT
<1> HIDE DEF top, clk, d
<1>10. At(word, x) = d.divm \/ At(word, x) = d.divn
  <2>1. DOMAIN top = b..(b + 2) /\ top[b + 1] = d.divm /\ top[b + 2] = d.divn
    BY <1>7 DEF Put
  <2>2. x = b + 1 \/ x = b + 2
    BY <1>5, <2>1
  <2> QED
    BY <1>2, <1>5, <2>1, <2>2
<1>11. At(word, x) \in Int /\ At(word, x) < 1120
  BY <1>9, <1>10
<1> QED
  BY <1>11, LowNone

LEMMA NewDvbWord ==
    ASSUME soc \in Socs, cust \in CustomizeTable, SafetyCheckPasses(cust), NEW b \in Int,
           Alone("Dvb", b), NEW x \in DOMAIN Writes(soc, cust, nso.word, "Dvb", b), x > b, x \in Int
    PROVE  Found(soc, word, x) = "none"
<1> DEFINE F == Writes(soc, cust, nso.word, "Dvb", b)
           clk == cust.marikoEmcMaxClock
<1>1. Overclocked(soc, cust)
  <2>1. F = MemFreqDvbTable(cust, b) /\ x \in DOMAIN F
    BY Zenon DEF Writes
  <2>2. soc = "Mariko"
    BY DEF Alone, PatchOf, Socs
  <2> HIDE DEF F
  <2>3. ~Overclocked("Mariko", cust) => F = Nothing
    BY <2>1, Zenon DEF MemFreqDvbTable
  <2> QED
    BY <2>1, <2>2, <2>3, NothingIs, Zenon
<1>2. /\ soc = "Mariko" /\ EmcMaxClock(soc, cust) = clk
      /\ At(word, b) = 1600000 /\ At(word, b + 3) = 637 /\ At(word, b + 4) = clk
      /\ \E z1, z2, z3 \in Int :
            /\ At(word, b + 5) = z1 /\ At(word, b + 6) = z2 /\ At(word, b + 7) = z3
            /\ z1 <= 1050 /\ z2 <= 1050 /\ z3 <= 1050
      /\ DOMAIN F = (b + 4)..(b + 7)
  BY <1>1, DvbWords, SMT
<1>3. clk \in Int /\ 1600001 <= clk /\ clk <= 2800000
  BY <1>1, <1>2, ClockRange, BetweenDef, SMT
<1>4. x \in (b + 4)..(b + 7)
  <2>1. x \in DOMAIN F
    OBVIOUS
  <2> HIDE DEF F
  <2> QED
    BY <1>2, <2>1
<1> HIDE DEF F, clk
<1>5. CASE x = b + 4
  <2>1. At(word, x) = clk /\ x - 1 = b + 3 /\ x - 4 = b
    BY <1>2, <1>5
  <2>2. CASE clk = 1785000
    <3>1. At(word, x - 1) # 1
      BY <1>2, <2>1
    <3> QED
      BY <1>2, <2>1, <2>2, <3>1, NoCpuVdd, SMT
  <2>3. CASE clk = 1963500
    BY <1>2, <2>1, <2>3, NoCpuTable, SMT
  <2>4. CASE clk # 1785000 /\ clk # 1963500
    <3>1. ~Key(soc, clk)
      BY <1>2, <1>3, <2>4, SMT DEF Key
    <3> QED
      BY <2>1, <3>1, QuietNone, Zenon
  <2> QED
    BY <2>2, <2>3, <2>4
<1>6. CASE x # b + 4
  <2>1. At(word, x) \in Int /\ At(word, x) < 1120
    <3>1. x = b + 5 \/ x = b + 6 \/ x = b + 7
      BY <1>4, <1>6
    <3> QED
      BY <1>2, <3>1
  <2> QED
    BY <2>1, LowNone
<1> QED
  BY <1>5, <1>6

-----------------------------------------------------------------------------
(* The scan finds what the untouched firmware calls for.                   *)

(* No word that a patch writes ahead of the scan is found by another.      *)
LEMMA NothingAhead ==
    ASSUME soc \in Socs, cust \in CustomizeTable, SafetyCheckPasses(cust), GpuVoltsNoLimit(cust),
           NEW q \in Structured, NEW b \in Int, Alone(q, b), At(nso.word, b) \in Int,
           NEW x \in Structure(q, b), x \in Int, x > b, At(word, x) # At(nso.word, x)
    PROVE  Found(soc, word, x) = "none"
<1>1. x \in DOMAIN Writes(soc, cust, nso.word, q, b)
  BY Zenon DEF Alone
<1>2. PatchOf(soc, q)
  BY DEF Alone
<1>3. CASE q = "CpuTable"
  BY <1>1, <1>3, NewCpuWord, Zenon
<1>4. CASE q = "GpuTable"
  BY <1>1, <1>4, NewGpuWord, Zenon
<1>5. CASE q = "GpuAsm"
  BY <1>1, <1>5, NewAsmWord, Zenon
<1>6. CASE q = "Pllm"
  BY <1>1, <1>6, NewPllmWord, Zenon
<1>7. CASE q = "CpuDfll"
  BY <1>1, <1>7, NewDfllWord, Zenon
<1>8. CASE q = "Mtc"
  BY <1>1, <1>8, NewMtcWord, Zenon
<1>9. CASE q = "Dvb"
  BY <1>1, <1>9, NewDvbWord, Zenon
<1>10. CASE q \in {"CpuVdd", "Max"}
  <2>1. cust.marikoEmcMaxClock \in Int /\ cust.marikoEmcDvbShift \in Int
    BY CustomInts
  <2>2. x \in WriteSpan(soc, cust, nso.word, q, b)
    BY <1>1, <1>2, <2>1, InSpan
  <2>3. x \in {b}
    BY <1>10, <2>2, Zenon DEF WriteSpan
  <2> QED
    BY <2>3
<1> QED
  BY <1>3, <1>4, <1>5, <1>6, <1>7, <1>8, <1>9, <1>10 DEF Structured

(* At every word the scan comes to, the patch found is the firmware's.     *)
LEMMA FoundSame ==
    ASSUME LaidInv, AsFound, DriverImage(nso), GpuVoltsNoLimit(cust), status = "scan",
           ptr <= ScanEnd(nso)
    PROVE  Found(soc, word, ptr) = Found(soc, nso.word, ptr)
<1>1. /\ PcvTypeOK /\ Traced /\ SafetyCheckPasses(cust) /\ nso \in Nsos /\ soc \in Socs
      /\ cust \in CustomizeTable /\ NothingHalfMade(nso, Sites(nso)) /\ DOMAIN word = DOMAIN nso.word
  BY CustomsAssumption, ImageFacts
  DEF LaidInv, BootInv, SiteInv, VoltInv, PcvTypeOK, DriverImage, soc
<1>2. /\ \A y \in DOMAIN word : word[y] \in Int
      /\ \A y \in DOMAIN nso.word : nso.word[y] \in Int
      /\ ptr \in 1..ScanEnd(nso) /\ ptr \in Int
  BY <1>1, ImageFacts DEF PcvTypeOK
<1>3. LaidOut
  BY <1>1, DriverIsLaidOut
<1>4. ASSUME NEW x, At(word, x) # At(nso.word, x)
      PROVE  \E q \in Patches : \E b \in patched[q] : x \in Structure(q, b)
  <2>1. x \in DOMAIN word /\ word[x] # nso.word[x]
    BY <1>1, <1>4, Zenon DEF At
  <2> QED
    BY <1>1, <2>1, Zenon DEF Traced
<1>5. ASSUME NEW q \in Patches, NEW b \in patched[q], NEW x \in Structure(q, b)
      PROVE  x \in ReachedAt(ptr) /\ b < ptr /\ b \in Int /\ At(nso.word, b) \in Int
  <2>1. b \in 1..ScanEnd(nso) /\ b \in Int /\ Found(soc, nso.word, b) = q /\ q # "none"
    BY <1>1, <1>5, PatchedSites, Zenon
  <2>2. b < ptr
    BY <1>1, <1>5, Zenon DEF Traced
  <2>3. x \in Territory(soc, q, b)
    BY <1>1, <1>5, <2>1, InTerritory
  <2>4. x \in ReachedAt(ptr)
    BY <2>1, <2>2, <2>3, ReachedFrom, Zenon
  <2>5. At(nso.word, b) \in Int
    BY <1>2 DEF At
  <2> QED
    BY <2>1, <2>2, <2>4, <2>5
<1>6. CASE At(word, ptr) = At(nso.word, ptr)
  <2>1. \A x : At(word, x) # At(nso.word, x) => x \in ReachedAt(ptr)
    BY <1>4, <1>5, Zenon
  <2> QED
    BY <1>1, <1>2, <1>6, <2>1, FoundAgain, Zenon
<1>7. CASE At(word, ptr) # At(nso.word, ptr)
  <2>1. PICK q \in Patches : \E b \in patched[q] : ptr \in Structure(q, b)
    BY <1>4, <1>7, Zenon
  <2>2. PICK b \in patched[q] : ptr \in Structure(q, b)
    BY <2>1, Zenon
  <2>3. ptr \in ReachedAt(ptr) /\ b < ptr /\ b \in Int /\ At(nso.word, b) \in Int
    BY <1>5, <2>2, Zenon
  <2>4. Found(soc, nso.word, ptr) = "none"
    BY <1>1, <1>2, <2>3, SiteNotReached, Zenon
  <2>5. q \in Structured
    <3> SUFFICES ASSUME q \notin Structured PROVE FALSE
      OBVIOUS
    <3>1. q \in {"CpuVolt", "GpuPll", "Vddq", "MemVolt"}
      BY DEF Patches, Structured
    <3>2. ptr \in {b - 5, b - 1, b}
      BY <2>2, <3>1 DEF Structure
    <3> QED
      BY <2>3, <3>2
  <2>6. Alone(q, b)
    BY <1>3, <2>2, <2>5, FoundAlone
  <2>7. Found(soc, word, ptr) = "none"
    BY <1>1, <1>2, <1>7, <2>2, <2>3, <2>5, <2>6, NothingAhead
  <2> QED
    BY <2>4, <2>7
<1> QED
  BY <1>6, <1>7

ScanInv == LaidInv /\ (Driver => AsFound)

LEMMA ScanInit == BootInit => ScanInv
<1> SUFFICES ASSUME BootInit PROVE AsFound
  BY LaidInvInit DEF ScanInv
<1>1. PcvInit
  BY DEF BootInit, LoaderInit
<1>2. ptr = 1 /\ \A p \in Patches : patched[p] = {}
  BY <1>1 DEF PcvInit
<1> QED
  BY <1>2 DEF AsFound

LEMMA ScanStep == ScanInv /\ [BootNext]_bootVars => ScanInv'
<1> SUFFICES ASSUME ScanInv, [BootNext]_bootVars PROVE ScanInv'
  OBVIOUS
<1>1. LaidInv /\ LaidInv' /\ [PcvNext]_pcvVars
  BY LaidInvStep, BootStep DEF ScanInv
<1>2. SUFFICES ASSUME Driver' PROVE AsFound'
  BY <1>1 DEF ScanInv
<1>3. /\ nso \in Nsos /\ soc \in Socs /\ PcvTypeOK
      /\ patched \in [Patches -> SUBSET (1..ScanEnd(nso))] /\ ptr \in Int /\ ptr >= 1
  <2>1. PcvTypeOK
    BY <1>1, Zenon DEF LaidInv, BootInv
  <2>2. nso \in Nsos /\ patched \in [Patches -> SUBSET (1..ScanEnd(nso))] /\ ptr \in 1..(ScanEnd(nso) + 1)
    BY <2>1, Zenon DEF PcvTypeOK
  <2>3. nso.soc \in Socs /\ ScanEnd(nso) \in Nat
    BY <2>2, ImageFacts, Zenon
  <2>4. ptr \in Int /\ ptr >= 1
    BY <2>2, <2>3
  <2> QED
    BY <2>1, <2>2, <2>3, <2>4, Zenon DEF soc
<1>4. nso' = nso /\ cust' = cust
  BY <1>1 DEF PcvNext, SafetyCheck, PatchWord, CheckResult, pcvVars
<1>5. Driver /\ AsFound /\ soc' = soc
  BY <1>2, <1>4, Zenon DEF ScanInv, Driver, soc
<1>6. CASE UNCHANGED <<ptr, patched>>
  BY <1>4, <1>5, <1>6, Zenon DEF AsFound
<1>7. CASE PatchWord
  <2>1. /\ status = "scan" /\ ptr <= ScanEnd(nso) /\ ptr' = ptr + 1
    BY <1>3, <1>7, PatchWordIs
  <2> DEFINE f == Found(soc, nso.word, ptr)
  <2>2. Found(soc, word, ptr) = f
    BY <1>1, <1>5, <2>1, FoundSame DEF Driver
  <2>3. patched' = IF f = "none" THEN patched ELSE [patched EXCEPT ![f] = @ \cup {ptr}]
    <3> HIDE DEF f
    <3> QED
      BY <1>7, <2>2, Zenon DEF PatchWord
  <2>4. "none" \notin Patches
    BY DEF Patches
  <2>5. ASSUME NEW p \in Patches
        PROVE  patched'[p] = {a \in 1..ptr : Found(soc, nso.word, a) = p}
    <3>1. patched[p] = {a \in 1..(ptr - 1) : Found(soc, nso.word, a) = p}
      BY <1>5, <2>5, Zenon DEF AsFound
    <3>2. \A a : a \in 1..ptr <=> a \in 1..(ptr - 1) \/ a = ptr
      BY <1>3
    <3>3. patched'[p] = IF f = p THEN patched[p] \cup {ptr} ELSE patched[p]
      <4> HIDE DEF f
      <4> QED
        BY <1>3, <2>3, <2>4, <2>5
    <3>4. \A a : a \in {c \in 1..ptr : Found(soc, nso.word, c) = p}
                   <=> a \in patched[p] \/ (a = ptr /\ f = p)
      BY <3>1, <3>2, Zenon
    <3>5. \A a : a \in patched'[p] <=> a \in patched[p] \/ (a = ptr /\ f = p)
      <4> HIDE DEF f
      <4> QED
        BY <3>3
    <3> QED
      BY <3>4, <3>5, Zenon
  <2>6. ptr' - 1 = ptr
    BY <1>3, <2>1
  <2> QED
    BY <1>4, <1>5, <2>5, <2>6, Zenon DEF AsFound
<1>8. SafetyCheck \/ CheckResult \/ UNCHANGED pcvVars => UNCHANGED <<ptr, patched>>
  BY DEF SafetyCheck, CheckResult, pcvVars
<1> QED
  BY <1>1, <1>6, <1>7, <1>8 DEF PcvNext

(* For every image laid out as a driver is and every customisation whose   *)
(* voltages are no limits of the memory: at every word of the image the    *)
(* scan applies the patch the untouched firmware calls for, and no         *)
(* structure is written over by another's patch.                           *)
THEOREM ScanIsUnaffected == BootSpec => [](Driver => ScanUnaffected)
<1>1. ScanInv => (Driver => ScanUnaffected)
  <2> SUFFICES ASSUME ScanInv, Driver PROVE ScanUnaffected
    OBVIOUS
  <2>1. LaidInv /\ AsFound /\ PcvTypeOK
    BY DEF ScanInv, LaidInv, BootInv
  <2>2. LaidOut
    BY <2>1, DriverIsLaidOut DEF Driver
  <2> QED
    BY <2>1, <2>2, FoundSame, Zenon DEF ScanUnaffected, Driver
<1> QED
  BY <1>1, ScanInit, ScanStep, PTL DEF BootSpec

(* The verdict that was reached, from what was applied.                    *)
VerdictInv ==
    /\ status = "accepted" =>
          ptr > ScanEnd(nso) /\ SafetyCheckPasses(cust) /\ WithinMaximum(soc, patched)
    /\ status = "crash" =>
          \/ ~SafetyCheckPasses(cust)
          \/ ptr > ScanEnd(nso) /\ ~WithinMaximum(soc, patched)

LEMMA VerdictStep ==
    ASSUME ScanInv, VerdictInv, [BootNext]_bootVars
    PROVE  VerdictInv'
<1>1. [PcvNext]_pcvVars /\ VoltInv
  BY BootStep, Zenon DEF ScanInv, LaidInv, BootInv
<1>2. CASE SafetyCheck
  BY <1>2, Zenon DEF SafetyCheck, VerdictInv
<1>3. CASE PatchWord
  <2>1. status' = "scan"
    BY <1>3 DEF PatchWord
  <2> QED
    BY <2>1 DEF VerdictInv
<1>4. CASE CheckResult
  <2>1. /\ ptr > ScanEnd(nso) /\ SafetyCheckPasses(cust)
        /\ status' = IF WithinMaximum(soc, patched) THEN "accepted" ELSE "crash"
        /\ nso' = nso /\ cust' = cust /\ ptr' = ptr /\ patched' = patched /\ soc' = soc
    BY <1>1, <1>4, Zenon DEF CheckResult, VoltInv, soc
  <2>2. ScanEnd(nso') = ScanEnd(nso)
    BY <2>1
  <2> QED
    BY <2>1, <2>2, Zenon DEF VerdictInv
<1>5. CASE UNCHANGED pcvVars
  <2>1. /\ nso' = nso /\ cust' = cust /\ ptr' = ptr /\ patched' = patched /\ soc' = soc
        /\ status' = status
    BY <1>5 DEF pcvVars, soc
  <2> QED
    BY <2>1, Zenon DEF VerdictInv
<1> QED
  BY <1>1, <1>2, <1>3, <1>4, <1>5 DEF PcvNext

(* For every such image and customisation: which images the loader         *)
(* accepts depends on the firmware and on the ranges of SafetyCheck alone, *)
(* so what holds for the shipped customisation holds for every other.      *)
THEOREM VerdictOfFirmware == BootSpec => [](Driver => VerdictIsFirmwares)
<1>1. BootInit => VerdictInv
  BY DEF BootInit, LoaderInit, PcvInit, VerdictInv
<1>2. ScanInv /\ VerdictInv => (Driver => VerdictIsFirmwares)
  <2> SUFFICES ASSUME ScanInv, VerdictInv, Driver PROVE VerdictIsFirmwares
    OBVIOUS
  <2>1. ASSUME ptr > ScanEnd(nso) PROVE patched = FirmwareSites
    <3>1. AsFound /\ PcvTypeOK
      BY Zenon DEF ScanInv, LaidInv, BootInv
    <3>2. nso \in Nsos /\ patched \in [Patches -> SUBSET (1..ScanEnd(nso))] /\ ptr \in 1..(ScanEnd(nso) + 1)
      BY <3>1, Zenon DEF PcvTypeOK
    <3>3. ScanEnd(nso) \in Nat
      BY <3>2, ImageFacts, Zenon
    <3>4. ptr - 1 = ScanEnd(nso)
      BY <2>1, <3>2, <3>3
    <3>5. \A p \in Patches : patched[p] = FirmwareSites[p]
      BY <3>1, <3>4, Zenon DEF AsFound, FirmwareSites
    <3>6. DOMAIN patched = Patches /\ DOMAIN FirmwareSites = Patches
          /\ patched = [p \in DOMAIN patched |-> patched[p]]
          /\ FirmwareSites = [p \in DOMAIN FirmwareSites |-> FirmwareSites[p]]
      BY <3>2, Zenon DEF FirmwareSites
    <3> QED
      BY <3>5, <3>6, Zenon
  <2> QED
    BY <2>1, Zenon DEF VerdictInv, VerdictIsFirmwares
<1> QED
  BY <1>1, <1>2, ScanInit, ScanStep, VerdictStep, PTL DEF BootSpec

(* What the patches of one start owe each other.                           *)
DriverAgrees ==
    /\ ScanUnaffected /\ TablesAgree /\ MemoryAgrees /\ TimingsFit
    /\ RequestedRatesExist /\ ClocksMatchDriver

(* For every such image and customisation, what holds of an image that is  *)
(* laid out holds: tables, memory, timings and clocks agree with one       *)
(* another, in the driver, in ptm and in the sysmodule.                    *)
THEOREM DriversAgree == BootSpec => [](Driver => DriverAgrees)
<1>1. ScanInv => (Driver => LaidOut)
  <2> SUFFICES ASSUME ScanInv, Driver PROVE LaidOut
    OBVIOUS
  <2>1. AsFound /\ PcvTypeOK
    BY Zenon DEF ScanInv, LaidInv, BootInv
  <2> QED
    BY <2>1, DriverIsLaidOut DEF Driver
<1>2. BootSpec => [](Driver => LaidOut)
  BY <1>1, ScanInit, ScanStep, PTL DEF BootSpec
<1>3. /\ Driver => ScanUnaffected
      /\ Driver => LaidOut
      /\ LaidOut => TablesAgree
      /\ LaidOut => MemoryAgrees
      /\ LaidOut => TimingsFit
      /\ LaidOut => RequestedRatesExist
      /\ LaidOut => ClocksMatchDriver
      => (Driver => DriverAgrees)
  BY Zenon DEF DriverAgrees
<1> QED
  BY <1>2, <1>3, ScanIsUnaffected, TablesEndTogether, MemoryIsWhole, TimingsAlwaysFit,
     RatesSurvive, ClocksAgree, PTL
=============================================================================
