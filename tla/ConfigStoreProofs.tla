------------------------- MODULE ConfigStoreProofs -------------------------
(***************************************************************************)
(* Saving a section implements module SettingsStore as long as the steps   *)
(* whose result minIni ignores do not fail: for all sections and lines, at *)
(* whatever point the power goes.                                          *)
(***************************************************************************)
EXTENDS ConfigStore, TLAPS

(* What a save has got to: the copy is the old file with the one section   *)
(* replaced until the old file is gone, and the new file has the section   *)
(* when it is applied in memory.                                           *)
Replaced(file) == [file EXCEPT ![section] = lines]

Progress ==
    /\ pc # "idle" => memory \in Contents
    /\ pc = "write" => config = NoSections
    /\ pc = "copy" => config \in Contents
    /\ pc = "remove" => config \in Contents /\ temp = Replaced(config)
    /\ pc = "rename" => config = Absent /\ temp \in Contents /\ temp[section] = lines
    /\ pc = "apply" => config \in Contents /\ config[section] = lines

StoreInv == TypeOK /\ Progress

(* minIni ignores the results of these.                                    *)
NoSilentFailure == Failing \cap {"write", "remove", "rename"} = {}

LEMMA ContentsFacts ==
    /\ NoSections \in Contents
    /\ Absent \notin Contents /\ Off \notin Contents
    /\ \A file \in Contents, s \in Sections, new \in SUBSET Lines :
          /\ [file EXCEPT ![s] = new] \in Contents
          /\ [file EXCEPT ![s] = new][s] = new
  BY StoreAssumption DEF Contents, NoSections

LEMMA TornInContents == \A file : Torn(file) \subseteq Contents
  BY DEF Torn

(* The state of a save is an invariant when no step fails silently.        *)
LEMMA InvInit == Init => StoreInv
  BY ContentsFacts DEF Init, StoreInv, TypeOK, Progress, Files

LEMMA InvStep ==
    ASSUME NoSilentFailure, StoreInv, [Next]_vars
    PROVE  StoreInv'
<1> USE ContentsFacts DEF StoreInv, TypeOK, Progress, Files, Replaced
<1>1. CASE Load
  BY <1>1 DEF Load, Parsed
<1>2. CASE Edit
  BY <1>2 DEF Edit
<1>3. CASE PowerCut
  <2>1. config' \in Files /\ temp' \in Files
    BY <1>3, TornInContents DEF PowerCut
  <2> QED BY <1>3, <2>1 DEF PowerCut
<1>4. ASSUME NEW s \in Sections, NEW new \in SUBSET Lines, Save(s, new)
      PROVE  StoreInv'
  BY <1>4 DEF Save, OpenNew, OpenTemp, OpenFails
<1>5. CASE WriteNew
  <2>1. config' = Replaced(NoSections)
    BY <1>5 DEF WriteNew, Written, NoSilentFailure
  <2>2. config' \in Contents /\ config'[section] = lines
    BY <2>1
  <2> QED BY <1>5, <2>2 DEF WriteNew
<1>6. CASE CopyFile
  <2>1. temp' = Replaced(config)
    BY <1>6 DEF CopyFile, Written, NoSilentFailure
  <2> QED BY <1>6, <2>1 DEF CopyFile
<1>7. CASE RemoveOld
  BY <1>7 DEF RemoveOld, Removed, NoSilentFailure
<1>8. CASE RenameTemp
  BY <1>8 DEF RenameTemp, Renamed, NoSilentFailure
<1>9. CASE ApplyInMemory
  BY <1>9 DEF ApplyInMemory
<1>10. CASE UNCHANGED vars
  BY <1>10 DEF vars
<1> QED BY <1>1, <1>2, <1>3, <1>4, <1>5, <1>6, <1>7, <1>8, <1>9, <1>10 DEF Next

LEMMA Invariant == ASSUME NoSilentFailure PROVE Spec => []StoreInv
<1>1. Init => StoreInv
  BY InvInit
<1>2. StoreInv /\ [Next]_vars => StoreInv'
  BY InvStep
<1> QED BY <1>1, <1>2, PTL DEF Spec
-----------------------------------------------------------------------------
(* The refinement: initial states map to initial states, ...               *)
LEMMA StoreInit == Init => Store!Init
  BY ContentsFacts
  DEF Init, Files, Parsed, savedNow, memoryNow, Replacing, Store!Init, Store!Contents, Contents

(* ... and each step to one of the store or to none.  A save takes effect  *)
(* in WriteNew or in RemoveOld; the other steps of it stutter.             *)
LEMMA StoreStep ==
    ASSUME NoSilentFailure, StoreInv, [Next]_vars
    PROVE  [Store!Next]_<<savedNow, memoryNow>>
<1> USE ContentsFacts
    DEF StoreInv, TypeOK, Progress, Files, Parsed, savedNow, memoryNow, Replacing
<1> DEFINE NoStep == UNCHANGED <<savedNow, memoryNow>>
<1>1. CASE Load
  <2>1. Store!Load
    BY <1>1 DEF Load, Store!Load
  <2> QED BY <2>1 DEF Store!Next
<1>2. CASE Edit
  <2>1. Store!Edit
    BY <1>2 DEF Edit, Store!Edit, Store!Contents, Contents
  <2> QED BY <2>1 DEF Store!Next
<1>3. CASE PowerCut
  <2>1. memoryNow' = Off
    BY <1>3 DEF PowerCut
  <2>2. CASE pc = "write"
    <3>1. PICK part \in Torn([NoSections EXCEPT ![section] = lines]) : config' = part
      BY <1>3, <2>2 DEF PowerCut
    <3>2. \A s \in Sections : s # section => part[s] = {}
      BY <3>1 DEF Torn, NoSections
    <3>3. part \in Contents
      BY <3>1 DEF Torn
    <3>4. part = [NoSections EXCEPT ![section] = part[section]]
      BY <3>2, <3>3 DEF Contents, NoSections
    <3>5. savedNow = NoSections /\ savedNow' = part
      BY <1>3, <2>2, <3>1, <3>3 DEF PowerCut
    <3>6. Store!PowerCut
      BY <2>1, <3>3, <3>4, <3>5 DEF Store!PowerCut, Contents, NoSections, Store!NoSections
    <3> QED BY <3>6 DEF Store!Next
  <2>3. CASE pc # "write"
    <3>1. savedNow' \in {savedNow, NoSections}
      BY <1>3, <2>3 DEF PowerCut
    <3>2. Store!PowerCut
      BY <2>1, <3>1 DEF Store!PowerCut, NoSections, Store!NoSections
    <3> QED BY <3>2 DEF Store!Next
  <2> QED BY <2>2, <2>3
<1>4. ASSUME NEW s \in Sections, NEW new \in SUBSET Lines, Save(s, new)
      PROVE  NoStep
  BY <1>4 DEF Save, OpenNew, OpenTemp, OpenFails
<1>5. CASE WriteNew
  <2>1. config' = Replaced(NoSections)
    BY <1>5 DEF WriteNew, Written, NoSilentFailure, Replaced
  <2>2. config' # Absent
    BY <2>1 DEF Replaced
  <2>3. savedNow = NoSections /\ memoryNow = memory /\ memory # Off
    BY <1>5 DEF WriteNew
  <2>4. savedNow' = Replaced(savedNow) /\ memoryNow' = Replaced(memoryNow)
    BY <1>5, <2>1, <2>2, <2>3 DEF WriteNew, Replaced
  <2>5. Store!Save(section, lines)
    BY <2>3, <2>4 DEF Store!Save, Replaced
  <2> QED BY <2>5 DEF Store!Next
<1>6. CASE CopyFile
  BY <1>6 DEF CopyFile
<1>7. CASE RemoveOld
  <2>1. savedNow = config /\ memoryNow = memory /\ memory # Off
    BY <1>7 DEF RemoveOld
  <2>2. savedNow' = temp /\ memoryNow' = Replaced(memory)
    BY <1>7 DEF RemoveOld, Removed, NoSilentFailure, Replaced
  <2>3. Store!Save(section, lines)
    BY <1>7, <2>1, <2>2 DEF RemoveOld, Store!Save, Replaced
  <2> QED BY <2>3 DEF Store!Next
<1>8. CASE RenameTemp
  BY <1>8 DEF RenameTemp, Renamed, NoSilentFailure
<1>9. CASE ApplyInMemory
  BY <1>9 DEF ApplyInMemory
<1>10. CASE UNCHANGED vars
  BY <1>10 DEF vars
<1> QED BY <1>1, <1>2, <1>3, <1>4, <1>5, <1>6, <1>7, <1>8, <1>9, <1>10 DEF Next

(* Saving a section is atomic for the rest of the sysmodule, a power cut   *)
(* included: config.cpp's save through minIni implements SettingsStore.    *)
THEOREM SavesAreAtomicHolds == ASSUME NoSilentFailure PROVE Spec => SavesAreAtomic
<1>1. Init => Store!Init
  BY StoreInit
<1>2. StoreInv /\ [Next]_vars => [Store!Next]_<<savedNow, memoryNow>>
  BY StoreStep
<1> QED BY Invariant, <1>1, <1>2, PTL DEF Spec, SavesAreAtomic, Store!Spec

(* What SetProfiles and SetConfigValues apply in memory is on the card.    *)
THEOREM AppliedIsSavedHolds == ASSUME NoSilentFailure PROVE Spec => []AppliedIsSaved
<1>1. StoreInv => AppliedIsSaved
  BY ContentsFacts DEF StoreInv, Progress, AppliedIsSaved
<1> QED BY Invariant, <1>1, PTL
-----------------------------------------------------------------------------
(* Whatever fails: the maps have been loaded before a save begins, and the *)
(* file is there while it is copied.                                       *)
TypeInv ==
    /\ TypeOK
    /\ pc # "idle" => memory \in Contents
    /\ pc = "copy" => config \in Contents

(* Files and the copy in memory are always files and a copy, also when     *)
(* every operation may fail and the power may go.                          *)
THEOREM StoreTypeCorrect == Spec => []TypeOK
<1> USE ContentsFacts DEF TypeInv, TypeOK, Files
<1>1. Init => TypeInv
  BY DEF Init
<1>2. TypeInv /\ [Next]_vars => TypeInv'
  <2> SUFFICES ASSUME TypeInv, [Next]_vars PROVE TypeInv'
    OBVIOUS
  <2>1. CASE Load
    BY <2>1 DEF Load, Parsed
  <2>2. CASE Edit
    BY <2>2 DEF Edit
  <2>3. CASE PowerCut
    <3>1. config' \in Files /\ temp' \in Files
      BY <2>3, TornInContents DEF PowerCut
    <3> QED BY <2>3, <3>1 DEF PowerCut
  <2>4. ASSUME NEW s \in Sections, NEW new \in SUBSET Lines, Save(s, new)
        PROVE  TypeInv'
    BY <2>4 DEF Save, OpenNew, OpenTemp, OpenFails
  <2>5. CASE WriteNew
    <3>1. config' \in Contents
      BY <2>5, TornInContents DEF WriteNew, Written
    <3> QED BY <2>5, <3>1 DEF WriteNew
  <2>6. CASE CopyFile
    <3>1. temp' \in Contents
      BY <2>6, TornInContents DEF CopyFile, Written
    <3> QED BY <2>6, <3>1 DEF CopyFile
  <2>7. CASE RemoveOld
    BY <2>7 DEF RemoveOld, Removed
  <2>8. CASE RenameTemp
    BY <2>8 DEF RenameTemp, Renamed
  <2>9. CASE ApplyInMemory
    BY <2>9 DEF ApplyInMemory
  <2>10. CASE UNCHANGED vars
    BY <2>10 DEF vars
  <2> QED BY <2>1, <2>2, <2>3, <2>4, <2>5, <2>6, <2>7, <2>8, <2>9, <2>10 DEF Next
<1>3. TypeInv => TypeOK
  OBVIOUS
<1> QED BY <1>1, <1>2, <1>3, PTL DEF Spec
=============================================================================
