---------------------------- MODULE Configurator ----------------------------
(***************************************************************************)
(* The web page that edits the customisation inside a loader's KIP         *)
(* (pages/src/main.ts): the tables of entries, loading a file, the form,   *)
(* the buttons, and the files and the last_saved settings they leave.      *)
(*                                                                         *)
(* A file is a sequence of words.  The tables of entries and their offsets *)
(* belong to the page, not to a file; every file that loads adds a         *)
(* listener to the Save button, which keeps that file's buffer.            *)
(***************************************************************************)
EXTENDS Customize, FiniteSets

CONSTANTS
    KipFiles,       \* files the user may choose
    Typed,          \* what the user may type: pairs of an entry and a number
    MaxLoads, MaxEdits      \* bounds

ASSUME KipFilesAssumption == KipFiles \subseteq [begin : Nat, word : Seq(Int)]
ASSUME TypedAssumption == \A t \in Typed : t[2] \in Int
ASSUME BoundsAssumption == MaxLoads \in Nat /\ MaxEdits \in Nat

VARIABLES
    buffers,        \* per Save listener, the file it keeps
    originals,      \* per Save listener, the file as it was chosen
    downloads,      \* per Save listener, the last file it gave, <<>> for none
    offset, value,  \* per entry: where the last load found it, its value
    form,           \* per entry: the input's number, NaN without an input
    stored,         \* last_saved in localStorage
    edits

vars == <<buffers, originals, downloads, offset, value, form, stored, edits>>

NaN == -1
NotStored == [f \in {} |-> 0]

(***************************************************************************)
(* CustTable, AdvTable and GpuTable.                                       *)
(***************************************************************************)
CustTable == <<"mtcConf", "commonCpuBoostClock", "commonEmcMemVolt", "eristaCpuMaxVolt",
    "eristaEmcMaxClock", "marikoCpuMaxVolt", "marikoEmcMaxClock", "marikoEmcVddqVolt",
    "marikoCpuUV", "marikoGpuUV", "commonGpuVoltOffset">>
RamTimings == <<"ramTimingPresetOne", "ramTimingPresetTwo", "ramTimingPresetThree",
    "ramTimingPresetFour", "ramTimingPresetFive", "ramTimingPresetSix", "ramTimingPresetSeven">>
AdvTable == <<"marikoEmcDvbShift">> \o RamTimings
GpuTable == <<"0", "1", "2", "3", "4", "5", "6", "7", "8", "9", "10", "11", "12", "13",
    "14", "15", "16">>
Table == CustTable \o AdvTable \o GpuTable

Names(table) == {table[i] : i \in 1..Len(table)}
Entries == Names(Table)
Place == [f \in Entries |-> CHOOSE i \in 1..Len(Table) : Table[i] = f]

Entry(low, high, step, default) ==
    [min |-> low, max |-> high, step |-> step, zeroable |-> TRUE, defval |-> default]

EntryByName ==
    [mtcConf             |-> Entry(0, 2, 1, 0),
     commonCpuBoostClock |-> [Entry(1020000, 3000000, 1, 1785000) EXCEPT !.zeroable = FALSE],
     commonEmcMemVolt    |-> Entry(1100000, 1250000, 12500, 0),
     eristaCpuMaxVolt    |-> Entry(1120, 1300, 1, 1235),
     eristaEmcMaxClock   |-> Entry(1600000, 2131200, 3200, 1862400),
     marikoCpuMaxVolt    |-> Entry(1120, 1300, 5, 1235),
     marikoEmcMaxClock   |-> Entry(1600000, 2502400, 3200, 1996800),
     marikoEmcVddqVolt   |-> Entry(550000, 650000, 5000, 0),
     marikoCpuUV         |-> Entry(0, 2, 1, 0),
     marikoGpuUV         |-> Entry(0, 3, 1, 0),
     commonGpuVoltOffset |-> Entry(0, 100, 1, 0),
     marikoEmcDvbShift   |-> Entry(0, 9, 1, 0)]
PresetMaxima == <<6, 5, 6, 6, 6, 5, 6>>
PresetEntry(k) == Entry(0, PresetMaxima[k], 1, IF k = 7 THEN 0 ELSE 1)
GpuEntry == [Entry(610, 1000, 5, 610) EXCEPT !.zeroable = FALSE]

EntryOf == [f \in Entries |->
    IF f \in DOMAIN EntryByName THEN EntryByName[f]
    ELSE IF f \in Names(GpuTable) THEN GpuEntry
    ELSE PresetEntry(CHOOSE k \in 1..7 : RamTimings[k] = f)]

ValidateZero(f, n) == n = 0 \/ n \in EntryOf[f].min..EntryOf[f].max
Validate(f, n) ==
    /\ n # NaN
    /\ \/ EntryOf[f].zeroable /\ n = 0
       \/ n \in EntryOf[f].min..EntryOf[f].max /\ n % EntryOf[f].step = 0

(***************************************************************************)
(* Files: begin is where findMagicOffset finds "CUST" (0: nowhere), the    *)
(* revision follows it, then a word for each entry.                        *)
(***************************************************************************)
CUST_REV_ADV == 11

OffsetIn(file, f) == file.begin + 1 + Place[f]
Rev(file) == file.word[file.begin + 1]

Init ==
    /\ buffers = <<>> /\ originals = <<>> /\ downloads = <<>>
    /\ offset = [f \in Entries |-> 0]
    /\ value = [f \in Entries |-> NaN] /\ form = [f \in Entries |-> NaN]
    /\ stored = NotStored /\ edits = 0

InputsKept == form
removeHTMLForm == [f \in Entries |-> IF f \in Names(CustTable) THEN NaN ELSE form[f]]

(* Without the marker nothing happens but an alert.  Otherwise the inputs  *)
(* of CustTable are removed first, and come back only when the revision is *)
(* right and no entry lies behind the end of the file; entries before the  *)
(* end have their values by then.                                          *)
UpTo(file, n) == {f \in Entries : Rev(file) = CUST_REV_ADV /\ OffsetIn(file, f) <= n}
Load(file) ==
    LET Read  == UpTo(file, Len(file.word))
        Tried == UpTo(file, Len(file.word) + 1)
    IN
    /\ file.begin # 0
    /\ offset' = [f \in Entries |-> IF f \in Tried THEN OffsetIn(file, f) ELSE offset[f]]
    /\ value' = [f \in Entries |-> IF f \in Read THEN file.word[OffsetIn(file, f)] ELSE value[f]]
    /\ \/ /\ Read = Entries
          /\ form' = value'
          /\ buffers' = Append(buffers, file) /\ originals' = Append(originals, file)
          /\ downloads' = Append(downloads, <<>>)
       \/ /\ Read # Entries
          /\ form' = removeHTMLForm
          /\ UNCHANGED <<buffers, originals, downloads>>

LoadFile ==
    /\ Len(buffers) < MaxLoads
    /\ \E file \in KipFiles : Load(file)
    /\ UNCHANGED <<stored, edits>>

TypeIn ==
    /\ edits < MaxEdits /\ edits' = edits + 1
    /\ \E t \in Typed : form[t[1]] # NaN /\ form' = [form EXCEPT ![t[1]] = t[2]]
    /\ UNCHANGED <<buffers, originals, downloads, offset, value, stored>>

LoadDefault ==
    /\ buffers # <<>>
    /\ \A f \in Names(CustTable) : form[f] # NaN
    /\ form' = [f \in Entries |-> IF f \in Names(CustTable) THEN EntryOf[f].defval ELSE form[f]]
    /\ UNCHANGED <<buffers, originals, downloads, offset, value, stored, edits>>

(* setTable gives the entries of CustTable their values, then looks for the*)
(* first entry of AdvTable in CustTable too and fails.                     *)
LoadSaved ==
    /\ buffers # <<>> /\ stored # NotStored
    /\ value' = [f \in Entries |-> IF f \in Names(CustTable) THEN stored[f] ELSE value[f]]
    /\ UNCHANGED <<buffers, originals, downloads, offset, form, stored, edits>>

(* The Save button: every listener takes the inputs, gives up when one is  *)
(* not valid, and writes the values into its own buffer at the offsets of  *)
(* the last load; one that meets the end of its buffer gives no file.      *)
Fits(file) == \A f \in Entries : offset[f] <= Len(file.word)
Written(file) ==
    LET shift == offset[Table[1]] - 1 IN
    [i \in 1..Len(file.word) |->
        IF i - shift \in 1..Len(Table) THEN form[Table[i - shift]] ELSE file.word[i]]

Save ==
    /\ buffers # <<>>
    /\ \A f \in Entries : Validate(f, form[f])
    /\ value' = form
    /\ buffers' = [i \in DOMAIN buffers |-> [buffers[i] EXCEPT !.word = Written(buffers[i])]]
    /\ downloads' = [i \in DOMAIN buffers |->
                        IF Fits(buffers[i]) THEN Written(buffers[i]) ELSE downloads[i]]
    /\ stored' = [f \in Names(CustTable) \cup Names(AdvTable) |-> form[f]]
    /\ UNCHANGED <<originals, offset, form, edits>>

Next == LoadFile \/ TypeIn \/ LoadDefault \/ LoadSaved \/ Save
Spec == Init /\ [][Next]_vars

-----------------------------------------------------------------------------
(* Type invariant.                                                         *)
TypeOK ==
    /\ DOMAIN originals = DOMAIN buffers /\ DOMAIN downloads = DOMAIN buffers
    /\ \A i \in DOMAIN buffers :
        /\ originals[i] \in KipFiles /\ buffers[i].begin = originals[i].begin
        /\ Len(buffers[i].word) = Len(originals[i].word)
        /\ Len(downloads[i]) \in {0, Len(originals[i].word)}
    /\ offset \in [Entries -> Nat]
    /\ value \in [Entries -> Int] /\ form \in [Entries -> Int]

\* The customisation that begins at begin in a file.
CustIn(word, begin) ==
    LET Word(f) == word[begin + 1 + Place[f]] IN
    [f \in DOMAIN Shipped |->
        CASE f = "custRev"            -> word[begin + 1]
          [] f = "ramTimingPresets"   -> [k \in 1..7 |-> Word(RamTimings[k])]
          [] f = "marikoGpuVoltArray" -> [k \in 1..17 |-> Word(GpuTable[k])]
          [] f \notin {"custRev", "ramTimingPresets", "marikoGpuVoltArray"} -> Word(f)]

\* Files given for the file that loaded last.
Saved == {i \in DOMAIN buffers : i = Len(buffers) /\ downloads[i] # <<>>}

(* A file the page gives passes the loader's SafetyCheck and names presets *)
(* there are: the loader, written in another language and with ranges of   *)
(* its own, never ends the boot of a console over what the page accepted.  *)
SavedBoots ==
    \A i \in Saved :
        LET c == CustIn(downloads[i], originals[i].begin) IN
        SafetyCheckPasses(c) /\ c.ramTimingPresets \in Presets

(* The file the page gives for the last one that loaded is that file with *)
(* last_saved in it: whatever failed to load in between, although that may *)
(* have moved some of the offsets, no value lands at the place of another  *)
(* or outside the customisation.                                           *)
SavedIntact ==
    \A i \in Saved :
        LET Spot(f) == OffsetIn(originals[i], f) IN
        /\ \A f \in DOMAIN stored : downloads[i][Spot(f)] = stored[f]
        /\ \A k \in 1..Len(downloads[i]) :
              k \notin {Spot(f) : f \in Entries} => downloads[i][k] = originals[i].word[k]
=============================================================================
