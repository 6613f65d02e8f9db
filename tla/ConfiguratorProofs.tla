------------------------- MODULE ConfiguratorProofs -------------------------
(***************************************************************************)
(* Proofs about the web page, for every set of files, every text typed and *)
(* any number of loads.                                                    *)
(*                                                                         *)
(* SavedIntact is not inductive.  The page keeps one table of offsets for  *)
(* all files, and a load that fails moves some of them; what saves the     *)
(* next file given is that such a load removes the inputs of CustTable     *)
(* first, so that Save refuses until a load succeeds and sets every        *)
(* offset.  OffsetsOfLast states that.                                     *)
(***************************************************************************)
EXTENDS Configurator, SequenceTheorems, TLAPS

AnyFile == [begin : Nat, word : Seq(Int)]

Shapes ==
    /\ buffers \in Seq(AnyFile) /\ originals \in Seq(KipFiles) /\ downloads \in Seq(Seq(Int))
    /\ Len(originals) = Len(buffers) /\ Len(downloads) = Len(buffers)
    /\ \A i \in 1..Len(buffers) :
        /\ buffers[i].begin = originals[i].begin
        /\ Len(buffers[i].word) = Len(originals[i].word)
        /\ Len(downloads[i]) \in {0, Len(originals[i].word)}
    /\ offset \in [Entries -> Nat] /\ value \in [Entries -> Int] /\ form \in [Entries -> Int]
    /\ stored # NotStored => stored \in [Names(CustTable) \cup Names(AdvTable) -> Int]

\* The inputs of CustTable come and go together; mtcConf stands for them.
HasInputs == form["mtcConf"] # NaN

Last == Len(buffers)
At(f) == OffsetIn(originals[Last], f)

\* While there are inputs, every offset is the one in the last file.
OffsetsOfLast ==
    buffers # <<>> /\ HasInputs =>
        \A f \in Entries : offset[f] = At(f) /\ offset[f] <= Len(originals[Last].word)

\* A file the page holds or gave differs from the last one at entries only.
Kept(word) ==
    \A k \in 1..Len(word) : (\A f \in Entries : k # At(f)) => word[k] = originals[Last].word[k]

LastBuffer == buffers # <<>> => Kept(buffers[Last].word)
LastDownload ==
    buffers # <<>> /\ downloads[Last] # <<>> =>
        /\ Kept(downloads[Last])
        /\ \A f \in DOMAIN stored : downloads[Last][At(f)] = stored[f]

\* What makes the customisation in such a file one the loader takes.
Validated ==
    /\ buffers # <<>> => /\ Rev(originals[Last]) = CUST_REV_ADV
                         /\ originals[Last].begin + 1 \in 1..Len(originals[Last].word)
    /\ buffers # <<>> /\ downloads[Last] # <<>> =>
           \A f \in Entries : Validate(f, downloads[Last][At(f)])

Inv == Shapes /\ OffsetsOfLast /\ LastBuffer /\ LastDownload /\ Validated

\* Each of the tables by itself.
LEMMA Parts ==
    /\ Len(CustTable) = 11 /\ Len(RamTimings) = 7 /\ Len(GpuTable) = 17
    /\ CustTable = [i \in 1..11 |-> CustTable[i]]
    /\ RamTimings = [i \in 1..7 |-> RamTimings[i]]
    /\ GpuTable = [i \in 1..17 |-> GpuTable[i]]
  <1>1. Len(CustTable) = 11 /\ CustTable = [i \in 1..11 |-> CustTable[i]]
    BY DEF CustTable
  <1>2. Len(RamTimings) = 7 /\ RamTimings = [i \in 1..7 |-> RamTimings[i]]
    BY DEF RamTimings
  <1>3. Len(GpuTable) = 17 /\ GpuTable = [i \in 1..17 |-> GpuTable[i]]
    BY DEF GpuTable
  <1> QED BY <1>1, <1>2, <1>3

LEMMA PartsAreSeqs ==
    ASSUME NEW S, Names(CustTable) \subseteq S, Names(RamTimings) \subseteq S,
           Names(GpuTable) \subseteq S
    PROVE  CustTable \in Seq(S) /\ RamTimings \in Seq(S) /\ GpuTable \in Seq(S)
  <1>1. CustTable \in Seq(S)
    BY Parts DEF Names
  <1>2. RamTimings \in Seq(S)
    BY Parts DEF Names
  <1>3. GpuTable \in Seq(S)
    BY Parts DEF Names
  <1> QED BY <1>1, <1>2, <1>3

\* What one sequence after another is, with the lengths left open.
LEMMA Concat ==
    ASSUME NEW S, NEW s \in Seq(S), NEW t \in Seq(S)
    PROVE  /\ s \o t \in Seq(S) /\ Len(s \o t) = Len(s) + Len(t)
           /\ \A i \in 1..Len(s) : (s \o t)[i] = s[i]
           /\ \A i \in (Len(s) + 1)..(Len(s) + Len(t)) : (s \o t)[i] = t[i - Len(s)]
  <1>1. s \o t \in Seq(S) /\ Len(s \o t) = Len(s) + Len(t)
    OBVIOUS
  <1>2. \A i \in 1..Len(s) : (s \o t)[i] = s[i]
    OBVIOUS
  <1>3. \A i \in (Len(s) + 1)..(Len(s) + Len(t)) : (s \o t)[i] = t[i - Len(s)]
    BY ConcatProperties
  <1> QED BY <1>1, <1>2, <1>3

LEMMA TableParts ==
    /\ Len(Table) = 36
    /\ \A i \in 1..11 : Table[i] = CustTable[i]
    /\ Table[12] = "marikoEmcDvbShift"
    /\ \A i \in 13..19 : Table[i] = RamTimings[i - 12]
    /\ \A i \in 20..36 : Table[i] = GpuTable[i - 19]
  <1> DEFINE S == Names(CustTable) \cup Names(RamTimings) \cup Names(GpuTable)
                    \cup {"marikoEmcDvbShift"}
             one == <<"marikoEmcDvbShift">>
             adv == one \o RamTimings
             front == CustTable \o adv
             all == front \o GpuTable
  <1>1. one \in Seq(S) /\ Len(one) = 1 /\ one[1] = "marikoEmcDvbShift"
    <2>1. "marikoEmcDvbShift" \in S
      OBVIOUS
    <2> HIDE DEF S
    <2> QED BY <2>1
  <1>2. Table = all
    BY DEF Table, AdvTable
  <1>3. CustTable \in Seq(S) /\ RamTimings \in Seq(S) /\ GpuTable \in Seq(S)
    BY PartsAreSeqs
  <1>4. Len(CustTable) = 11 /\ Len(RamTimings) = 7 /\ Len(GpuTable) = 17
    BY Parts
  <1> HIDE DEF S, one
  <1>5. /\ adv \in Seq(S) /\ Len(adv) = Len(one) + Len(RamTimings)
        /\ \A i \in 1..Len(one) : adv[i] = one[i]
        /\ \A i \in (Len(one) + 1)..(Len(one) + Len(RamTimings)) : adv[i] = RamTimings[i - Len(one)]
    BY ONLY <1>1, <1>3, Concat
  <1>a. adv \in Seq(S)
    BY ONLY <1>5
  <1> HIDE DEF adv
  <1>6. Len(adv) = 8 /\ adv[1] = one[1] /\ \A i \in 2..8 : adv[i] = RamTimings[i - 1]
    BY ONLY <1>1, <1>4, <1>5
  <1>7. /\ front \in Seq(S) /\ Len(front) = Len(CustTable) + Len(adv)
        /\ \A i \in 1..Len(CustTable) : front[i] = CustTable[i]
        /\ \A i \in (Len(CustTable) + 1)..(Len(CustTable) + Len(adv)) : front[i] = adv[i - Len(CustTable)]
    BY ONLY <1>3, <1>a, Concat
  <1>b. front \in Seq(S)
    BY ONLY <1>7
  <1> HIDE DEF front
  <1>8. /\ Len(front) = 19 /\ \A i \in 1..11 : front[i] = CustTable[i]
        /\ \A i \in 12..19 : front[i] = adv[i - 11]
    BY ONLY <1>4, <1>6, <1>7
  <1>9. /\ all \in Seq(S) /\ Len(all) = Len(front) + Len(GpuTable)
        /\ \A i \in 1..Len(front) : all[i] = front[i]
        /\ \A i \in (Len(front) + 1)..(Len(front) + Len(GpuTable)) : all[i] = GpuTable[i - Len(front)]
    BY ONLY <1>3, <1>b, Concat
  <1> HIDE DEF all
  <1>10. /\ Len(all) = 36 /\ \A i \in 1..19 : all[i] = front[i]
         /\ \A i \in 20..36 : all[i] = GpuTable[i - 19]
    BY ONLY <1>4, <1>8, <1>9
  <1> QED BY ONLY <1>1, <1>2, <1>6, <1>8, <1>10

\* No name comes twice.
LEMMA Distinct == \A i, j \in 1..36 : Table[i] = Table[j] => i = j
  <1>1. \A i, j \in 1..11 : CustTable[i] = CustTable[j] => i = j
    BY DEF CustTable
  <1>2. \A i, j \in 1..7 : RamTimings[i] = RamTimings[j] => i = j
    BY DEF RamTimings
  <1>3. \A i, j \in 1..17 : GpuTable[i] = GpuTable[j] => i = j
    BY DEF GpuTable
  <1>4. \A i \in 1..11, j \in 1..7 : CustTable[i] # RamTimings[j]
    BY DEF CustTable, RamTimings
  <1>5. \A i \in 1..11, j \in 1..17 : CustTable[i] # GpuTable[j]
    BY DEF CustTable, GpuTable
  <1>6. \A i \in 1..7, j \in 1..17 : RamTimings[i] # GpuTable[j]
    BY DEF RamTimings, GpuTable
  <1>7. /\ \A i \in 1..11 : CustTable[i] # "marikoEmcDvbShift"
        /\ \A i \in 1..7 : RamTimings[i] # "marikoEmcDvbShift"
        /\ \A i \in 1..17 : GpuTable[i] # "marikoEmcDvbShift"
    BY DEF CustTable, RamTimings, GpuTable
  <1> TAKE i \in 1..36, j \in 1..36
  <1> HAVE Table[i] = Table[j]
  <1>8. CASE i \in 1..11
    BY ONLY <1>8, TableParts, <1>1, <1>4, <1>5, <1>7, j \in 1..36, Table[i] = Table[j]
  <1>9. CASE i = 12
    BY ONLY <1>9, TableParts, <1>7, j \in 1..36, Table[i] = Table[j]
  <1>10. CASE i \in 13..19
    BY ONLY <1>10, TableParts, <1>2, <1>4, <1>6, <1>7, j \in 1..36, Table[i] = Table[j]
  <1>11. CASE i \in 20..36
    BY ONLY <1>11, TableParts, <1>3, <1>5, <1>6, <1>7, j \in 1..36, Table[i] = Table[j]
  <1> QED BY <1>8, <1>9, <1>10, <1>11

\* Every entry has a place of its own, every place its entry, mtcConf's is
\* the first.
LEMMA Places ==
    /\ \A f \in Entries : Place[f] \in 1..36 /\ Table[Place[f]] = f
    /\ \A i \in 1..36 : Table[i] \in Entries /\ Place[Table[i]] = i
    /\ "mtcConf" \in Names(CustTable) /\ Table[1] = "mtcConf"
    /\ Names(CustTable) \cup Names(AdvTable) \subseteq Entries
  <1>1. \A i \in 1..36 : Table[i] \in Entries
    BY TableParts DEF Entries, Names
  <1>2. \A f \in Entries : Place[f] \in 1..36 /\ Table[Place[f]] = f
    BY TableParts DEF Entries, Names, Place
  <1>3. \A i \in 1..36 : Place[Table[i]] = i
    BY <1>1, <1>2, Distinct
  <1>4. CustTable[1] = "mtcConf" /\ Len(CustTable) = 11
    BY Parts DEF CustTable
  <1>5. "mtcConf" \in Names(CustTable) /\ Table[1] = "mtcConf"
    BY <1>4, TableParts DEF Names
  <1>6. Names(CustTable) \subseteq Entries
    BY <1>1, <1>4, TableParts DEF Names
  <1>7. Len(AdvTable) = 8 /\ \A i \in 1..8 : AdvTable[i] = Table[i + 11]
    BY TableParts, Parts DEF AdvTable
  <1>8. Names(AdvTable) \subseteq Entries
    BY <1>1, <1>7 DEF Names
  <1> QED BY <1>1, <1>2, <1>3, <1>5, <1>6, <1>8

-----------------------------------------------------------------------------
\* What Save writes, whatever the offsets are.
LEMMA WrittenIsSeq ==
    ASSUME NEW file \in AnyFile, form \in [Entries -> Int], offset \in [Entries -> Nat]
    PROVE  /\ Written(file) \in Seq(Int) /\ Len(Written(file)) = Len(file.word)
           /\ \A k \in 1..Len(file.word) : Written(file)[k] =
                 IF k - (offset["mtcConf"] - 1) \in 1..36
                 THEN form[Table[k - (offset["mtcConf"] - 1)]] ELSE file.word[k]
  <1> DEFINE n == Len(file.word)
             o == offset["mtcConf"]
             e(k) == IF k - (o - 1) \in 1..36 THEN form[Table[k - (o - 1)]] ELSE file.word[k]
  <1>1. file.word \in Seq(Int) /\ n \in Nat /\ \A k \in 1..n : file.word[k] \in Int
    BY DEF AnyFile
  <1>2. o \in Nat
    BY Places
  <1>3. \A k \in 1..n : e(k) \in Int
    BY <1>1, <1>2, Places
  <1>4. Written(file) = [k \in 1..n |-> e(k)]
    <2>1. Table[1] = "mtcConf" /\ Len(Table) = 36
      BY Places, TableParts
    <2> QED BY ONLY <2>1 DEF Written
  <1> HIDE DEF e
  <1>5. [k \in 1..n |-> e(k)] \in Seq(Int) /\ Len([k \in 1..n |-> e(k)]) = n
    BY <1>1, <1>3
  <1> QED BY <1>4, <1>5 DEF e

\* What it writes when the offsets are those of a file that begins at b.
LEMMA WrittenAtOffsets ==
    ASSUME NEW file \in AnyFile, form \in [Entries -> Int], offset \in [Entries -> Nat],
           NEW b \in Nat, \A f \in Entries : offset[f] = b + 1 + Place[f]
    PROVE  /\ \A f \in Entries : b + 1 + Place[f] <= Len(file.word) =>
                 Written(file)[b + 1 + Place[f]] = form[f]
           /\ \A k \in 1..Len(file.word) : (\A f \in Entries : k # b + 1 + Place[f]) =>
                 Written(file)[k] = file.word[k]
  <1>1. offset["mtcConf"] = b + 2
    BY Places
  <1>2. Len(file.word) \in Nat
    BY DEF AnyFile
  <1>3. ASSUME NEW f \in Entries, b + 1 + Place[f] <= Len(file.word)
        PROVE  Written(file)[b + 1 + Place[f]] = form[f]
    <2>1. PICK p \in 1..36 : p = Place[f] /\ Table[p] = f
      BY Places
    <2> DEFINE k == b + 1 + p
    <2>2. k <= Len(file.word)
      BY <1>3, <2>1
    <2>3. k \in 1..Len(file.word)
      BY ONLY <1>2, <2>2, b \in Nat, p \in 1..36
    <2>4. k - (offset["mtcConf"] - 1) = p
      BY ONLY <1>1, b \in Nat, p \in 1..36
    <2>5. Written(file)[k] = IF p \in 1..36 THEN form[Table[p]] ELSE file.word[k]
      BY <2>3, <2>4, WrittenIsSeq
    <2> QED BY <2>1, <2>5
  <1>4. ASSUME NEW k \in 1..Len(file.word), \A f \in Entries : k # b + 1 + Place[f]
        PROVE  Written(file)[k] = file.word[k]
    <2> DEFINE i == k - (offset["mtcConf"] - 1)
    <2>1. i \in Int /\ k = b + 1 + i
      BY <1>1, <1>2
    <2>2. i \in 1..36 => Table[i] \in Entries /\ Place[Table[i]] = i
      BY Places
    <2>3. i \notin 1..36
      BY <1>4, <2>1, <2>2
    <2> QED BY <2>3, WrittenIsSeq
  <1> QED BY <1>3, <1>4

-----------------------------------------------------------------------------
LEMMA OffsetsAreNat ==
    ASSUME NEW file \in AnyFile, NEW f \in Entries
    PROVE  OffsetIn(file, f) \in Nat \ {0} /\ OffsetIn(file, f) = file.begin + 1 + Place[f]
  <1>1. file.begin \in Nat /\ Place[f] \in 1..36
    BY Places DEF AnyFile
  <1> QED BY <1>1 DEF OffsetIn

LEMMA InvInit == Init => Inv
  <1> SUFFICES ASSUME Init PROVE Inv
    OBVIOUS
  <1>1. Shapes
    BY DEF Init, Shapes, NaN
  <1> QED BY <1>1 DEF Init, Inv, OffsetsOfLast, LastBuffer, LastDownload, Validated

LEMMA LoadKeepsShapes ==
    ASSUME Shapes, NEW file \in KipFiles, Load(file), UNCHANGED stored
    PROVE  Shapes'
  <1> USE DEF Shapes
  <1> DEFINE Read == UpTo(file, Len(file.word))
  <1>1. file \in AnyFile
    BY KipFilesAssumption DEF AnyFile
  <1>2. offset' \in [Entries -> Nat]
    BY <1>1, OffsetsAreNat DEF Load
  <1>3. value' \in [Entries -> Int]
    <2>1. \A f \in Read : file.word[OffsetIn(file, f)] \in Int
      <3> TAKE f \in Read
      <3>1. OffsetIn(file, f) \in Nat \ {0} /\ OffsetIn(file, f) <= Len(file.word)
        BY <1>1, OffsetsAreNat DEF UpTo
      <3>2. file.word \in Seq(Int)
        BY <1>1 DEF AnyFile
      <3> QED BY <3>1, <3>2
    <2> QED BY <2>1 DEF Load
  <1>4. CASE Read = Entries
    <2>1. /\ form' = value' /\ buffers' = Append(buffers, file)
          /\ originals' = Append(originals, file) /\ downloads' = Append(downloads, <<>>)
      BY <1>4 DEF Load
    <2>2. <<>> \in Seq(Int) /\ Len(<<>>) = 0
      OBVIOUS
    <2> QED BY <1>1, <1>2, <1>3, <2>1, <2>2
  <1>5. CASE Read # Entries
    <2>1. form' = removeHTMLForm /\ UNCHANGED <<buffers, originals, downloads>>
      BY <1>5 DEF Load
    <2>2. form' \in [Entries -> Int]
      BY <2>1 DEF removeHTMLForm, NaN
    <2> QED BY <1>2, <1>3, <2>1, <2>2
  <1> QED BY <1>4, <1>5

LEMMA LoadKeeps ==
    ASSUME Inv, NEW file \in KipFiles, Load(file), UNCHANGED stored
    PROVE  Inv'
  <1> DEFINE Read == UpTo(file, Len(file.word))
             n == Len(buffers)
  <1>1. Shapes /\ Shapes'
    BY LoadKeepsShapes DEF Inv
  <1>2. file \in AnyFile
    BY KipFilesAssumption DEF AnyFile
  <1>3. CASE Read = Entries
    <2>1. /\ buffers' = Append(buffers, file)
          /\ originals' = Append(originals, file) /\ downloads' = Append(downloads, <<>>)
      BY <1>3 DEF Load
    <2>2. /\ Last' = n + 1 /\ originals'[Last'] = file /\ buffers'[Last'] = file
          /\ downloads'[Last'] = <<>>
      BY <1>1, <2>1 DEF Shapes, Last
    <2>3. \A f \in Entries : At(f)' = OffsetIn(file, f)
      BY <2>2 DEF At, OffsetIn
    <2>4. \A f \in Entries : OffsetIn(file, f) <= Len(file.word)
      BY <1>3 DEF UpTo
    <2>5. \A f \in Entries : offset'[f] = OffsetIn(file, f)
      <3>1. Len(file.word) \in Nat
        BY <1>2 DEF AnyFile
      <3>2. Entries \subseteq UpTo(file, Len(file.word) + 1)
        BY <1>2, <1>3, <3>1, OffsetsAreNat DEF UpTo
      <3> QED BY <3>2 DEF Load
    <2>6. OffsetsOfLast'
      BY <2>2, <2>3, <2>4, <2>5 DEF OffsetsOfLast
    <2>7. LastBuffer' /\ LastDownload'
      BY <2>2 DEF LastBuffer, LastDownload, Kept
    <2>8. Rev(file) = CUST_REV_ADV /\ file.begin + 1 \in 1..Len(file.word)
      <3>1. Rev(file) = CUST_REV_ADV /\ "mtcConf" \in Read
        BY <1>3, Places DEF UpTo
      <3>4. "mtcConf" \in Entries /\ Place["mtcConf"] = 1
        <4>1. Table[1] \in Entries /\ Place[Table[1]] = 1 /\ Table[1] = "mtcConf"
          BY Places
        <4> QED BY <4>1
      <3>2. OffsetIn(file, "mtcConf") = file.begin + 1 + 1
        BY ONLY <3>4 DEF OffsetIn
      <3>3. file.begin \in Nat /\ Len(file.word) \in Nat
        BY <1>2 DEF AnyFile
      <3> QED BY <3>1, <3>2, <3>3 DEF UpTo
    <2>9. Validated'
      BY <2>2, <2>8 DEF Validated, Rev
    <2> QED BY <1>1, <2>6, <2>7, <2>9 DEF Inv
  <1>4. CASE Read # Entries
    <2>1. form' = removeHTMLForm /\ UNCHANGED <<buffers, originals, downloads, stored>>
      BY <1>4 DEF Load
    <2>2. ~HasInputs'
      BY <2>1, Places DEF HasInputs, removeHTMLForm
    <2>3. UNCHANGED Last /\ \A f : At(f)' = At(f)
      BY <2>1 DEF Last, At, OffsetIn
    <2>4. LastBuffer' /\ LastDownload' /\ Validated'
      BY <2>1, <2>3 DEF Inv, LastBuffer, LastDownload, Kept, Validated, Rev
    <2> QED BY <1>1, <2>2, <2>4 DEF Inv, OffsetsOfLast
  <1> QED BY <1>3, <1>4

\* Steps on the form alone, in which no input of CustTable appears.
LEMMA FormKeeps ==
    ASSUME Inv, HasInputs' => HasInputs, form' \in [Entries -> Int], value' \in [Entries -> Int],
           UNCHANGED <<buffers, originals, downloads, offset, stored>>
    PROVE  Inv'
  <1>1. Shapes'
    BY DEF Inv, Shapes
  <1>2. UNCHANGED Last /\ \A f : At(f)' = At(f)
    BY DEF Last, At, OffsetIn
  <1>3. OffsetsOfLast'
    BY <1>2 DEF Inv, OffsetsOfLast
  <1>4. LastBuffer' /\ LastDownload' /\ Validated'
    BY <1>2 DEF Inv, LastBuffer, LastDownload, Kept, Validated, Rev
  <1> QED BY <1>1, <1>3, <1>4 DEF Inv

LEMMA SaveKeeps ==
    ASSUME Inv, Save
    PROVE  Inv'
  <1> DEFINE n == Len(buffers)
             o == originals[n]
  <1>1. Shapes /\ buffers # <<>> /\ n \in Nat \ {0} /\ n \in 1..n
    BY DEF Inv, Save, Shapes
  <1>2. /\ \A i \in 1..n : buffers[i] \in AnyFile
        /\ o \in AnyFile
        /\ form \in [Entries -> Int] /\ offset \in [Entries -> Nat]
    <2>1. o \in KipFiles
      BY <1>1 DEF Shapes
    <2>2. o \in AnyFile
      BY <2>1, KipFilesAssumption DEF AnyFile
    <2>3. \A i \in 1..n : buffers[i] \in AnyFile
      BY <1>1 DEF Shapes
    <2> QED BY <1>1, <2>2, <2>3 DEF Shapes
  <1>3. HasInputs
    BY Places DEF Save, Validate, HasInputs
  <1>4. \A f \in Entries : offset[f] = OffsetIn(o, f) /\ offset[f] <= Len(o.word)
    BY <1>1, <1>3 DEF Inv, OffsetsOfLast, Last, At
  <1>5. /\ DOMAIN buffers = 1..n
        /\ \A i \in 1..n : /\ Written(buffers[i]) \in Seq(Int)
                           /\ Len(Written(buffers[i])) = Len(buffers[i].word)
    <2>1. DOMAIN buffers = 1..n
      BY <1>1 DEF Shapes
    <2>2. ASSUME NEW i \in 1..n
          PROVE  /\ Written(buffers[i]) \in Seq(Int)
                 /\ Len(Written(buffers[i])) = Len(buffers[i].word)
      BY <1>2, <2>2, WrittenIsSeq
    <2> QED BY <2>1, <2>2
  <1>6. /\ \A i \in 1..n : buffers'[i] = [buffers[i] EXCEPT !.word = Written(buffers[i])]
        /\ buffers' \in Seq(AnyFile) /\ Len(buffers') = n
    <2>1. \A i \in 1..n : [buffers[i] EXCEPT !.word = Written(buffers[i])] \in AnyFile
      BY <1>2, <1>5 DEF AnyFile
    <2>2. buffers' = [i \in 1..n |-> [buffers[i] EXCEPT !.word = Written(buffers[i])]]
      BY <1>5 DEF Save
    <2> QED BY <1>1, <2>1, <2>2
  <1>7. /\ \A i \in 1..n : downloads'[i] =
                IF Fits(buffers[i]) THEN Written(buffers[i]) ELSE downloads[i]
        /\ downloads' \in Seq(Seq(Int)) /\ Len(downloads') = n
    <2> DEFINE d(i) == IF Fits(buffers[i]) THEN Written(buffers[i]) ELSE downloads[i]
    <2>1. \A i \in 1..n : d(i) \in Seq(Int)
      BY <1>1, <1>5 DEF Shapes
    <2>2. downloads' = [i \in 1..n |-> d(i)]
      BY <1>5 DEF Save
    <2> HIDE DEF d
    <2>3. downloads' \in Seq(Seq(Int)) /\ Len(downloads') = n /\ \A i \in 1..n : downloads'[i] = d(i)
      BY <1>1, <2>1, <2>2
    <2> QED BY <2>3 DEF d
  <1>8. Shapes'
    <2>1. stored' \in [Names(CustTable) \cup Names(AdvTable) -> Int]
      BY <1>2, Places DEF Save
    <2>2. \A i \in 1..n : /\ buffers'[i].begin = originals[i].begin
                          /\ Len(buffers'[i].word) = Len(originals[i].word)
                          /\ Len(downloads'[i]) \in {0, Len(originals[i].word)}
      <3> TAKE i \in 1..n
      <3>1. /\ buffers[i].begin = originals[i].begin
            /\ Len(buffers[i].word) = Len(originals[i].word)
            /\ Len(downloads[i]) \in {0, Len(originals[i].word)}
        BY <1>1 DEF Shapes
      <3>2. buffers'[i].begin = buffers[i].begin /\ buffers'[i].word = Written(buffers[i])
        BY <1>2, <1>6 DEF AnyFile
      <3> QED BY <1>5, <1>7, <3>1, <3>2
    <2> QED BY <1>1, <1>6, <1>7, <2>1, <2>2 DEF Shapes, Save
  <1>9. UNCHANGED <<Last, originals, offset, form>> /\ Last = n /\ \A f : At(f)' = OffsetIn(o, f)
    BY <1>6 DEF Last, At, Save, OffsetIn
  <1>10. OffsetsOfLast'
    BY <1>4, <1>9 DEF OffsetsOfLast
  <1>11. /\ Len(Written(buffers[n])) = Len(o.word)
         /\ \A f \in Entries : Written(buffers[n])[OffsetIn(o, f)] = form[f]
         /\ \A k \in 1..Len(o.word) : (\A f \in Entries : k # OffsetIn(o, f)) =>
                Written(buffers[n])[k] = o.word[k]
    <2>1. buffers[n] \in AnyFile /\ Len(buffers[n].word) = Len(o.word) /\ o.begin \in Nat
      BY <1>1, <1>2 DEF Shapes, AnyFile
    <2>2. \A f \in Entries : OffsetIn(o, f) = o.begin + 1 + Place[f]
      BY <1>2, OffsetsAreNat
    <2>3. \A f \in Entries : offset[f] = o.begin + 1 + Place[f]
      BY <1>4, <2>2
    <2>4. /\ \A f \in Entries : o.begin + 1 + Place[f] <= Len(buffers[n].word) =>
                 Written(buffers[n])[o.begin + 1 + Place[f]] = form[f]
          /\ \A k \in 1..Len(buffers[n].word) : (\A f \in Entries : k # o.begin + 1 + Place[f]) =>
                 Written(buffers[n])[k] = buffers[n].word[k]
      BY <1>2, <2>1, <2>3, WrittenAtOffsets
    <2>5. \A k \in 1..Len(o.word) : (\A f \in Entries : k # OffsetIn(o, f)) =>
              buffers[n].word[k] = o.word[k]
      BY <1>1, <2>1 DEF Inv, LastBuffer, Kept, Last, At
    <2>6. Len(Written(buffers[n])) = Len(o.word)
      BY <1>1, <1>5, <2>1
    <2>7. \A f \in Entries : Written(buffers[n])[OffsetIn(o, f)] = form[f]
      BY <1>4, <2>1, <2>2, <2>4
    <2> QED BY <2>1, <2>2, <2>4, <2>5, <2>6, <2>7
  <1>12. LastBuffer'
    <2>1. buffers'[n].word = Written(buffers[n])
      <3>1. buffers[n] \in AnyFile /\ buffers'[n] = [buffers[n] EXCEPT !.word = Written(buffers[n])]
        BY <1>1, <1>2, <1>6
      <3> QED BY <3>1 DEF AnyFile
    <2> QED BY <1>9, <1>11, <2>1 DEF LastBuffer, Kept
  <1>13. LastDownload'
    <2>1. Len(buffers[n].word) = Len(o.word)
      BY <1>1 DEF Shapes
    <2>2. Fits(buffers[n])
      BY <1>4, <2>1 DEF Fits
    <2>4. downloads'[n] = Written(buffers[n])
      BY <1>1, <1>7, <2>2
    <2>3. \A f \in DOMAIN stored' : f \in Entries /\ stored'[f] = form[f]
      BY Places DEF Save
    <2> QED BY <1>9, <1>11, <2>3, <2>4 DEF LastDownload, Kept
  <1>14. Validated'
    <2>1. Rev(o) = CUST_REV_ADV /\ o.begin + 1 \in 1..Len(o.word)
      BY <1>1 DEF Inv, Validated, Last
    <2>2. Fits(buffers[n])
      BY <1>1, <1>4 DEF Fits, Shapes
    <2>3. downloads'[n] = Written(buffers[n])
      BY <1>1, <1>7, <2>2
    <2>4. \A f \in Entries : Validate(f, form[f])
      BY DEF Save
    <2> QED BY <1>9, <1>11, <2>1, <2>3, <2>4 DEF Validated, Rev
  <1> QED BY <1>8, <1>10, <1>12, <1>13, <1>14 DEF Inv

LEMMA DefaultsAreInt == \A f \in Names(CustTable) : EntryOf[f].defval \in Int
  <1> TAKE f \in Names(CustTable)
  <1>1. f \in Entries
    BY Places
  <1>2. PICK i \in 1..11 : f = CustTable[i]
    BY Parts DEF Names
  <1>3. f \in DOMAIN EntryByName
    BY <1>2 DEF CustTable, EntryByName
  <1>4. \A g \in DOMAIN EntryByName : EntryByName[g].defval \in Int
    BY SMT DEF EntryByName, Entry
  <1> QED BY <1>1, <1>3, <1>4, SMT DEF EntryOf

LEMMA TypeInKeeps == ASSUME Inv, TypeIn PROVE Inv'
  <1> PICK t \in Typed : form[t[1]] # NaN /\ form' = [form EXCEPT ![t[1]] = t[2]]
    BY DEF TypeIn
  <1>1. t[2] \in Int /\ form \in [Entries -> Int]
    BY TypedAssumption DEF Inv, Shapes
  <1>2. form' \in [Entries -> Int]
    BY <1>1
  <1>3. HasInputs' => HasInputs
    BY <1>1, Places DEF HasInputs
  <1> QED BY <1>2, <1>3, FormKeeps DEF TypeIn, Inv, Shapes

LEMMA LoadDefaultKeeps == ASSUME Inv, LoadDefault PROVE Inv'
  <1>1. form' \in [Entries -> Int]
    BY DefaultsAreInt DEF LoadDefault, Inv, Shapes
  <1>2. HasInputs
    BY Places DEF LoadDefault, HasInputs
  <1> QED BY <1>1, <1>2, FormKeeps DEF LoadDefault, Inv, Shapes

LEMMA LoadSavedKeeps == ASSUME Inv, LoadSaved PROVE Inv'
  <1>1. value' \in [Entries -> Int]
    BY DEF LoadSaved, Inv, Shapes
  <1>2. HasInputs' => HasInputs
    BY DEF LoadSaved, HasInputs
  <1> QED BY <1>1, <1>2, FormKeeps DEF LoadSaved, Inv, Shapes

LEMMA InvStep == Inv /\ [Next]_vars => Inv'
  <1> SUFFICES ASSUME Inv, [Next]_vars PROVE Inv'
    OBVIOUS
  <1>1. CASE LoadFile
    BY <1>1, LoadKeeps DEF LoadFile
  <1>2. CASE TypeIn
    BY <1>2, TypeInKeeps
  <1>3. CASE LoadDefault
    BY <1>3, LoadDefaultKeeps
  <1>4. CASE LoadSaved
    BY <1>4, LoadSavedKeeps
  <1>5. CASE Save
    BY <1>5, SaveKeeps
  <1>6. CASE UNCHANGED vars
    <2>1. HasInputs' => HasInputs
      BY <1>6 DEF vars, HasInputs
    <2> QED BY <1>6, <2>1, FormKeeps DEF vars, Inv, Shapes
  <1> QED BY <1>1, <1>2, <1>3, <1>4, <1>5, <1>6 DEF Next

LEMMA InvImpliesTypeOK == Inv => TypeOK
  <1> SUFFICES ASSUME Inv PROVE TypeOK
    OBVIOUS
  <1>1. \A i \in DOMAIN buffers : originals[i] \in KipFiles
    BY DEF Inv, Shapes
  <1> QED BY <1>1 DEF Inv, Shapes, TypeOK

LEMMA InvImpliesSavedIntact == Inv => SavedIntact
  <1> SUFFICES ASSUME Inv, NEW i \in Saved
               PROVE  /\ \A f \in DOMAIN stored :
                            downloads[i][OffsetIn(originals[i], f)] = stored[f]
                      /\ \A k \in 1..Len(downloads[i]) :
                            k \notin {OffsetIn(originals[i], f) : f \in Entries} =>
                                downloads[i][k] = originals[i].word[k]
    BY DEF SavedIntact
  <1>1. i = Last /\ downloads[Last] # <<>> /\ buffers # <<>>
    BY DEF Saved, Last, Inv, Shapes
  <1> QED BY <1>1 DEF Inv, LastDownload, Kept, At

-----------------------------------------------------------------------------
LEMMA Within ==
    ASSUME NEW n, NEW low \in Int, NEW high \in Int, n = 0 \/ (n \in Int /\ low <= n /\ n <= high)
    PROVE  InRange(n, low, high)
  BY DEF InRange, Between

\* The page's ranges against the loader's.
AllValid(v) == \A f \in Entries : Validate(f, v[f])

InRanges(v) ==
    /\ v["commonCpuBoostClock"] # 0 /\ InRange(v["commonCpuBoostClock"], 1020000, 3000000)
    /\ InRange(v["commonEmcMemVolt"], 1100000, 1250000)
    /\ InRange(v["eristaCpuMaxVolt"], 1100, 1300)
    /\ InRange(v["eristaEmcMaxClock"], 1600000, 2131200)
    /\ InRange(v["marikoCpuMaxVolt"], 1100, 1300)
    /\ InRange(v["marikoEmcMaxClock"], 1600000, 2800000)
    /\ InRange(v["marikoEmcVddqVolt"], 550000, 650000)

LEMMA Ranges ==
    ASSUME NEW v, AllValid(v)
    PROVE  InRanges(v)
  <1>1. {"commonCpuBoostClock", "commonEmcMemVolt", "eristaCpuMaxVolt", "eristaEmcMaxClock",
         "marikoCpuMaxVolt", "marikoEmcMaxClock", "marikoEmcVddqVolt"}
            \subseteq Entries \cap DOMAIN EntryByName
    <2>1. /\ CustTable[2] = "commonCpuBoostClock" /\ CustTable[3] = "commonEmcMemVolt"
          /\ CustTable[4] = "eristaCpuMaxVolt" /\ CustTable[5] = "eristaEmcMaxClock"
          /\ CustTable[6] = "marikoCpuMaxVolt" /\ CustTable[7] = "marikoEmcMaxClock"
          /\ CustTable[8] = "marikoEmcVddqVolt"
      BY DEF CustTable
    <2> QED BY <2>1, TableParts, Places DEF EntryByName
  <1>2. /\ EntryByName.commonCpuBoostClock.min = 1020000 /\ EntryByName.commonCpuBoostClock.max = 3000000
        /\ ~EntryByName.commonCpuBoostClock.zeroable
    BY SMT DEF EntryByName, Entry
  <1>3. /\ EntryByName.commonEmcMemVolt.min = 1100000 /\ EntryByName.commonEmcMemVolt.max = 1250000
    BY SMT DEF EntryByName, Entry
  <1>4. /\ EntryByName.eristaCpuMaxVolt.min = 1120 /\ EntryByName.eristaCpuMaxVolt.max = 1300
    BY SMT DEF EntryByName, Entry
  <1>5. /\ EntryByName.eristaEmcMaxClock.min = 1600000 /\ EntryByName.eristaEmcMaxClock.max = 2131200
    BY SMT DEF EntryByName, Entry
  <1>6. /\ EntryByName.marikoCpuMaxVolt.min = 1120 /\ EntryByName.marikoCpuMaxVolt.max = 1300
    BY SMT DEF EntryByName, Entry
  <1>7. /\ EntryByName.marikoEmcMaxClock.min = 1600000 /\ EntryByName.marikoEmcMaxClock.max = 2502400
    BY SMT DEF EntryByName, Entry
  <1>8. /\ EntryByName.marikoEmcVddqVolt.min = 550000 /\ EntryByName.marikoEmcVddqVolt.max = 650000
    BY SMT DEF EntryByName, Entry
  <1>9. \A f \in Entries \cap DOMAIN EntryByName :
            LET e == EntryByName[f] IN
            \/ e.zeroable /\ v[f] = 0
            \/ v[f] \in e.min..e.max
    <2>1. \A f \in Entries \cap DOMAIN EntryByName : EntryOf[f] = EntryByName[f]
      BY SMT DEF EntryOf
    <2> QED BY <2>1 DEF Validate, AllValid
  <1>10. v["commonCpuBoostClock"] # 0 /\ InRange(v["commonCpuBoostClock"], 1020000, 3000000)
    <2> DEFINE e == EntryByName.commonCpuBoostClock
               x == v["commonCpuBoostClock"]
    <2>1. (e.zeroable /\ x = 0) \/ x \in e.min..e.max
      BY <1>1, <1>9
    <2>2. e.min = 1020000 /\ e.max = 3000000 /\ ~e.zeroable
      BY <1>2
    <2>6. e.min \in Int /\ e.max \in Int
      BY <2>2
    <2>8. ~e.zeroable
      BY <2>2
    <2> HIDE DEF e, x
    <2>7. x \in Int /\ e.min <= x /\ x <= e.max
      BY ONLY <2>1, <2>6, <2>8
    <2>3. x \in Int /\ 1020000 <= x /\ x <= 3000000
      BY <2>2, <2>7
    <2>4. x # 0
      BY <2>3
    <2>5. InRange(x, 1020000, 3000000)
      BY <2>3, Within, SMT
    <2> QED BY <2>4, <2>5 DEF x
  <1>11. InRange(v["commonEmcMemVolt"], 1100000, 1250000)
    <2> DEFINE e == EntryByName.commonEmcMemVolt
               x == v["commonEmcMemVolt"]
    <2>1. x = 0 \/ x \in e.min..e.max
      BY <1>1, <1>9
    <2>4. e.min \in Int /\ e.max \in Int
      BY <1>3
    <2> HIDE DEF e, x
    <2>2. x = 0 \/ (x \in Int /\ e.min <= x /\ x <= e.max)
      BY ONLY <2>1, <2>4
    <2>3. InRange(x, 1100000, 1250000)
      BY <1>3, <2>2, Within, SMT DEF e
    <2> QED BY <2>3 DEF x
  <1>12. InRange(v["eristaCpuMaxVolt"], 1100, 1300)
    <2> DEFINE e == EntryByName.eristaCpuMaxVolt
               x == v["eristaCpuMaxVolt"]
    <2>1. x = 0 \/ x \in e.min..e.max
      BY <1>1, <1>9
    <2>4. e.min \in Int /\ e.max \in Int
      BY <1>4
    <2> HIDE DEF e, x
    <2>2. x = 0 \/ (x \in Int /\ e.min <= x /\ x <= e.max)
      BY ONLY <2>1, <2>4
    <2>3. InRange(x, 1100, 1300)
      BY <1>4, <2>2, Within, SMT DEF e
    <2> QED BY <2>3 DEF x
  <1>13. InRange(v["eristaEmcMaxClock"], 1600000, 2131200)
    <2> DEFINE e == EntryByName.eristaEmcMaxClock
               x == v["eristaEmcMaxClock"]
    <2>1. x = 0 \/ x \in e.min..e.max
      BY <1>1, <1>9
    <2>4. e.min \in Int /\ e.max \in Int
      BY <1>5
    <2> HIDE DEF e, x
    <2>2. x = 0 \/ (x \in Int /\ e.min <= x /\ x <= e.max)
      BY ONLY <2>1, <2>4
    <2>3. InRange(x, 1600000, 2131200)
      BY <1>5, <2>2, Within, SMT DEF e
    <2> QED BY <2>3 DEF x
  <1>14. InRange(v["marikoCpuMaxVolt"], 1100, 1300)
    <2> DEFINE e == EntryByName.marikoCpuMaxVolt
               x == v["marikoCpuMaxVolt"]
    <2>1. x = 0 \/ x \in e.min..e.max
      BY <1>1, <1>9
    <2>4. e.min \in Int /\ e.max \in Int
      BY <1>6
    <2> HIDE DEF e, x
    <2>2. x = 0 \/ (x \in Int /\ e.min <= x /\ x <= e.max)
      BY ONLY <2>1, <2>4
    <2>3. InRange(x, 1100, 1300)
      BY <1>6, <2>2, Within, SMT DEF e
    <2> QED BY <2>3 DEF x
  <1>15. InRange(v["marikoEmcMaxClock"], 1600000, 2800000)
    <2> DEFINE e == EntryByName.marikoEmcMaxClock
               x == v["marikoEmcMaxClock"]
    <2>1. x = 0 \/ x \in e.min..e.max
      BY <1>1, <1>9
    <2>4. e.min \in Int /\ e.max \in Int
      BY <1>7
    <2> HIDE DEF e, x
    <2>2. x = 0 \/ (x \in Int /\ e.min <= x /\ x <= e.max)
      BY ONLY <2>1, <2>4
    <2>3. InRange(x, 1600000, 2800000)
      BY <1>7, <2>2, Within, SMT DEF e
    <2> QED BY <2>3 DEF x
  <1>16. InRange(v["marikoEmcVddqVolt"], 550000, 650000)
    <2> DEFINE e == EntryByName.marikoEmcVddqVolt
               x == v["marikoEmcVddqVolt"]
    <2>1. x = 0 \/ x \in e.min..e.max
      BY <1>1, <1>9
    <2>4. e.min \in Int /\ e.max \in Int
      BY <1>8
    <2> HIDE DEF e, x
    <2>2. x = 0 \/ (x \in Int /\ e.min <= x /\ x <= e.max)
      BY ONLY <2>1, <2>4
    <2>3. InRange(x, 550000, 650000)
      BY <1>8, <2>2, Within, SMT DEF e
    <2> QED BY <2>3 DEF x
  <1> QED BY <1>10, <1>11, <1>12, <1>13, <1>14, <1>15, <1>16, SMT DEF InRanges

LEMMA PresetRanges ==
    ASSUME NEW v, AllValid(v)
    PROVE  \A k \in 1..7 : RamTimings[k] \in Entries /\ v[RamTimings[k]] \in 0..PresetMaxima[k]
  <1> TAKE k \in 1..7
  <1> DEFINE f == RamTimings[k]
  <1>1. f \in Entries /\ f = Table[k + 12]
    BY TableParts, Places
  <1>2. \A j \in 1..7 : RamTimings[j] = f => j = k
    <2>1. \A j \in 1..7 : RamTimings[j] = Table[j + 12]
      BY TableParts
    <2> QED BY <1>1, <2>1, Distinct
  <1>4. f \notin DOMAIN EntryByName /\ f \notin Names(GpuTable)
    <2>1. f \notin DOMAIN EntryByName
      BY DEF RamTimings, EntryByName
    <2>2. \A j \in 1..17 : GpuTable[j] # f
      BY DEF RamTimings, GpuTable
    <2> QED BY <2>1, <2>2, Parts DEF Names
  <1>5. (CHOOSE j \in 1..7 : RamTimings[j] = f) = k
    BY <1>2
  <1>6. PresetMaxima[k] \in {5, 6}
    BY DEF PresetMaxima
  <1> HIDE DEF f
  <1>7. EntryOf[f] = PresetEntry(k)
    BY <1>1, <1>4, <1>5, SMT DEF EntryOf
  <1>8. v[f] \in 0..PresetMaxima[k]
    BY <1>1, <1>6, <1>7 DEF AllValid, Validate, PresetEntry, Entry
  <1> QED BY <1>1, <1>8 DEF f

\* The highest clocks of the tables the loader may choose.
LEMMA HighestClocks ==
    ASSUME NEW soc \in Socs, NEW c
    PROVE  /\ GetDvfsTableLastEntry(CpuCustomize(soc, c).freqs) \in {2091000, 2295000, 2397000}
           /\ GetDvfsTableLastEntry(GpuCustomize(soc, c).freqs) \in {998400, 1267200}
  <1>1. CpuSteps \in Seq(Nat) /\ Len(CpuSteps) = 16
    BY DEF CpuSteps
  <1>2. \A n \in Nat : GpuSteps(n) \in Seq(Nat) /\ Len(GpuSteps(n)) = n
    BY DEF GpuSteps
  <1>3. /\ GetDvfsTableLastEntry(eristaCpuDvfsTable) = 2091000
        /\ GetDvfsTableLastEntry(marikoCpuDvfsTable) = 2295000
        /\ GetDvfsTableLastEntry(marikoCpuDvfsTableSLT) = 2397000
    BY <1>1 DEF GetDvfsTableLastEntry, eristaCpuDvfsTable, marikoCpuDvfsTable,
                marikoCpuDvfsTableSLT
  <1>4. /\ GetDvfsTableLastEntry(eristaGpuDvfsTable) = 998400
        /\ GetDvfsTableLastEntry(marikoGpuDvfsTable) = 1267200
        /\ GetDvfsTableLastEntry(marikoGpuDvfsTableSLT) = 1267200
        /\ GetDvfsTableLastEntry(marikoGpuDvfsTableHiOPT) = 1267200
    BY <1>2 DEF GetDvfsTableLastEntry, eristaGpuDvfsTable, marikoGpuDvfsTable,
                marikoGpuDvfsTableSLT, marikoGpuDvfsTableHiOPT, GpuSteps
  <1>5. CpuCustomize(soc, c).freqs \in
            {eristaCpuDvfsTable, marikoCpuDvfsTable, marikoCpuDvfsTableSLT}
    BY SMT DEF CpuCustomize, Socs
  <1>6. GpuCustomize(soc, c).freqs \in {eristaGpuDvfsTable, marikoGpuDvfsTable,
            marikoGpuDvfsTableSLT, marikoGpuDvfsTableHiOPT}
    BY SMT DEF GpuCustomize, Socs
  <1> QED BY <1>3, <1>4, <1>5, <1>6

LEMMA HighestInRange == ASSUME NEW soc \in Socs, NEW c PROVE TablesInRange(soc, c)
  <1>1. ASSUME NEW cpu \in {2091000, 2295000, 2397000}, NEW gpu \in {998400, 1267200}
        PROVE  ClocksInRange(cpu, gpu)
    <2>1. InRange(cpu, 1785000, 3000000)
      BY Within, SMT
    <2>2. InRange(gpu, 768000, 1536000)
      BY Within, SMT
    <2> QED BY <2>1, <2>2, SMT DEF ClocksInRange
  <1> QED BY <1>1, HighestClocks, SMT DEF TablesInRange

LEMMA InvImpliesSavedBoots == Inv => SavedBoots
  <1> SUFFICES ASSUME Inv, NEW i \in Saved
               PROVE  LET c == CustIn(downloads[i], originals[i].begin)
                      IN  SafetyCheckPasses(c) /\ c.ramTimingPresets \in Presets
    BY DEF SavedBoots
  <1> DEFINE w == downloads[Last]
             b == originals[Last].begin
             v == [f \in Entries |-> w[b + 1 + Place[f]]]
             c == CustIn(w, b)
  <1>1. i = Last /\ w # <<>> /\ buffers # <<>> /\ Last \in 1..Len(buffers)
    BY DEF Saved, Last, Inv, Shapes
  <1>2. AllValid(v)
    BY <1>1 DEF Inv, Validated, At, OffsetIn, AllValid
  <1>3. w[b + 1] = CUST_REV
    <2>1. w \in Seq(Int) /\ Len(w) = Len(originals[Last].word) /\ b \in Nat
      <3>1. originals[Last] \in AnyFile
        BY <1>1, KipFilesAssumption DEF Inv, Shapes, AnyFile
      <3>2. w \in Seq(Int) /\ Len(w) \in {0, Len(originals[Last].word)}
        BY <1>1 DEF Inv, Shapes, Last
      <3>3. b \in Nat
        BY <3>1 DEF AnyFile
      <3> HIDE DEF w, b
      <3>4. Len(w) # 0
        BY <1>1, <3>2
      <3> QED BY <3>2, <3>3, <3>4
    <2>2. \A f \in Entries : b + 1 # At(f)
      <3> TAKE f \in Entries
      <3>1. PICK p \in 1..36 : p = Place[f]
        BY Places
      <3>2. At(f) = b + 1 + p
        BY <3>1 DEF At, OffsetIn
      <3> HIDE DEF b
      <3> QED BY ONLY <2>1, <3>2
    <2>3. Kept(w) /\ b + 1 \in 1..Len(w)
      BY <1>1, <2>1 DEF Inv, LastDownload, Validated
    <2> QED BY <1>1, <2>2, <2>3 DEF Inv, Validated, Kept, Rev, CUST_REV, CUST_REV_ADV
  <1>4. \A f \in {"commonCpuBoostClock", "commonEmcMemVolt", "eristaCpuMaxVolt",
                  "eristaEmcMaxClock", "marikoCpuMaxVolt", "marikoEmcMaxClock",
                  "marikoEmcVddqVolt"} : c[f] = v[f]
    <2>1. {"commonCpuBoostClock", "commonEmcMemVolt", "eristaCpuMaxVolt", "eristaEmcMaxClock",
           "marikoCpuMaxVolt", "marikoEmcMaxClock", "marikoEmcVddqVolt"}
              \subseteq Entries \cap DOMAIN Shipped
      <3>1. /\ CustTable[2] = "commonCpuBoostClock" /\ CustTable[3] = "commonEmcMemVolt"
            /\ CustTable[4] = "eristaCpuMaxVolt" /\ CustTable[5] = "eristaEmcMaxClock"
            /\ CustTable[6] = "marikoCpuMaxVolt" /\ CustTable[7] = "marikoEmcMaxClock"
            /\ CustTable[8] = "marikoEmcVddqVolt"
        BY DEF CustTable
      <3> QED BY <3>1, TableParts, Places DEF Shipped
    <2> HIDE DEF w, b
    <2> QED BY <2>1, SMT DEF CustIn
  <1>5. c.custRev = w[b + 1]
    <2>1. "custRev" \in DOMAIN Shipped
      BY DEF Shipped
    <2> HIDE DEF w, b
    <2> QED BY <2>1, SMT DEF CustIn
  <1>6. c.ramTimingPresets = [k \in 1..7 |-> w[b + 1 + Place[RamTimings[k]]]]
    <2>1. "ramTimingPresets" \in DOMAIN Shipped
      BY DEF Shipped
    <2> HIDE DEF w, b
    <2> QED BY <2>1, SMT DEF CustIn
  <1>7. \A f \in Entries : v[f] = w[b + 1 + Place[f]]
    OBVIOUS
  <1> HIDE DEF v, c, w, b
  <1>11. c.ramTimingPresets \in Presets
    <2> DEFINE p == c.ramTimingPresets
    <2>1. \A k \in 1..7 : RamTimings[k] \in Entries /\ v[RamTimings[k]] \in 0..PresetMaxima[k]
      BY <1>2, PresetRanges
    <2>2. \A k \in 1..7 : /\ PresetMaxima[k] \in 0..6 /\ PresetMaxima[k] <= PresetSizes[k]
                          /\ PresetSizes[k] \in 0..6
      BY DEF PresetMaxima, PresetSizes
    <2>3. \A k \in 1..7 : p[k] = v[RamTimings[k]]
      BY <1>6, <1>7, <2>1
    <2>4. p = [k \in 1..7 |-> p[k]]
      BY <1>6
    <2> HIDE DEF p
    <2>5. \A k \in 1..7 : p[k] \in 0..6 /\ p[k] <= PresetSizes[k]
      BY <2>1, <2>2, <2>3
    <2>6. p \in [1..7 -> 0..6]
      BY <2>4, <2>5
    <2>7. p \in Presets
      BY <2>5, <2>6 DEF Presets
    <2> QED BY <2>7 DEF p
  <1>8. InRanges(v)
    BY <1>2, Ranges
  <1>9. \A soc \in Socs : TablesInRange(soc, c)
    BY HighestInRange
  <1>10. SafetyCheckPasses(c)
    <2>1. c.custRev = CUST_REV
      BY <1>3, <1>5
    <2>2. c["commonCpuBoostClock"] = v["commonCpuBoostClock"]
      BY <1>4
    <2>3. c["commonEmcMemVolt"] = v["commonEmcMemVolt"]
      BY <1>4
    <2>4. c["eristaCpuMaxVolt"] = v["eristaCpuMaxVolt"]
      BY <1>4
    <2>5. c["eristaEmcMaxClock"] = v["eristaEmcMaxClock"]
      BY <1>4
    <2>6. c["marikoCpuMaxVolt"] = v["marikoCpuMaxVolt"]
      BY <1>4
    <2>7. c["marikoEmcMaxClock"] = v["marikoEmcMaxClock"]
      BY <1>4
    <2>8. c["marikoEmcVddqVolt"] = v["marikoEmcVddqVolt"]
      BY <1>4
    <2>9. InRanges(c)
      BY ONLY <1>8, <2>2, <2>3, <2>4, <2>5, <2>6, <2>7, <2>8, SMT DEF InRanges
    <2> QED BY ONLY <1>9, <2>1, <2>9, SMT DEF SafetyCheckPasses, InRanges
  <1> QED BY <1>1, <1>11, <1>10 DEF c, w, b

-----------------------------------------------------------------------------
(* Type correctness of the page.                                           *)
THEOREM ConfiguratorTyped == Spec => []TypeOK
  <1>1. Spec => []Inv
    BY InvInit, InvStep, PTL DEF Spec
  <1> QED BY <1>1, InvImpliesTypeOK, PTL

(* A file the page gives for the last one that loaded is that file with    *)
(* the settings in it, whatever was loaded, failed to load and was typed.  *)
THEOREM SavedFilesIntact == Spec => []SavedIntact
  <1>1. Spec => []Inv
    BY InvInit, InvStep, PTL DEF Spec
  <1> QED BY <1>1, InvImpliesSavedIntact, PTL

(* A file the page gives for the last one that loaded passes the loader's  *)
(* SafetyCheck and names presets that exist: no setting the page accepts   *)
(* ends the boot.                                                          *)
THEOREM SavedFilesBoot == Spec => []SavedBoots
  <1>1. Spec => []Inv
    BY InvInit, InvStep, PTL DEF Spec
  <1> QED BY <1>1, InvImpliesSavedBoots, PTL
=============================================================================
