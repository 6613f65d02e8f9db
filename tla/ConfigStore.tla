----------------------------- MODULE ConfigStore -----------------------------
(***************************************************************************)
(* How a section of config.ini is saved: Config::SetProfiles and           *)
(* Config::SetConfigValues (sysmodule/src/config.cpp) through minIni's     *)
(* ini_putsection (sysmodule/lib/minIni/dev/minIni.c), one step per change *)
(* of the SD card.                                                         *)
(*                                                                         *)
(* The whole save runs under configMutex, so no load and no lookup comes   *)
(* in between; the power may go at any point.  A file is the set of lines  *)
(* of each section; copying it line by line, through the cache of          *)
(* ini_putsection, is one step that a power cut or a full card may leave   *)
(* half done.                                                              *)
(***************************************************************************)
EXTENDS Naturals

CONSTANTS
    Sections, Lines,   \* as in SettingsStore
    Failing,           \* the file operations that may fail
    Absent,            \* in place of a file that is not there
    Off                \* in place of a Config object that has loaded nothing

Operations == {"create", "openTemp", "write", "remove", "rename"}

Contents == [Sections -> SUBSET Lines]
NoSections == [s \in Sections |-> {}]
Files == Contents \cup {Absent}

ASSUME StoreAssumption ==
    /\ Failing \subseteq Operations
    /\ Absent \notin Contents
    /\ Off \notin Contents

VARIABLES
    config,   \* config.ini
    temp,     \* config.in~, ini_tempname's name for the copy
    memory,   \* the maps of the Config object, Off before the first load
    pc,       \* the operation the save is about to do, "idle" outside one
    section, lines   \* what it is to write
vars == <<config, temp, memory, pc, section, lines>>

TypeOK ==
    /\ config \in Files
    /\ temp \in Files
    /\ memory \in Contents \cup {Off}
    /\ pc \in {"idle", "write", "copy", "remove", "rename", "apply"}
    /\ section \in Sections
    /\ lines \in SUBSET Lines
-----------------------------------------------------------------------------
(* Config::Load: no file is a file without sections.                       *)
Parsed(file) == IF file = Absent THEN NoSections ELSE file

(* What is left of a file that was not written to its end.                 *)
Torn(contents) == {part \in Contents : \A s \in Sections : part[s] \subseteq contents[s]}

(* ini_write's result is ignored.                                          *)
Written(contents) == IF "write" \in Failing THEN Torn(contents) ELSE {contents}

Init ==
    /\ config \in Files
    /\ temp \in Files
    /\ memory = Off
    /\ pc = "idle"
    /\ section \in Sections
    /\ lines = {}

(* Config::Refresh, when the modification time says so.                    *)
Load ==
    /\ pc = "idle"
    /\ memory' = Parsed(config)
    /\ UNCHANGED <<config, temp, pc, section, lines>>

(* ini_putsection opens the file, and the copy when there is a file.       *)
OpenNew ==
    /\ config = Absent
    /\ config' = NoSections
    /\ pc' = "write"
    /\ UNCHANGED temp

OpenTemp ==
    /\ config # Absent
    /\ temp' = NoSections
    /\ pc' = "copy"
    /\ UNCHANGED config

(* SetProfiles and SetConfigValues return false, IpcService                *)
(* ConfigSaveFailed.                                                       *)
OpenFails ==
    /\ (IF config = Absent THEN "create" ELSE "openTemp") \in Failing
    /\ UNCHANGED <<config, temp, pc>>

Save(s, new) ==
    /\ pc = "idle"
    /\ memory # Off
    /\ section' = s
    /\ lines' = new
    /\ OpenNew \/ OpenTemp \/ OpenFails
    /\ UNCHANGED memory

(* A new file gets the one section.                                        *)
WriteNew ==
    /\ pc = "write"
    /\ config' \in Written([NoSections EXCEPT ![section] = lines])
    /\ pc' = "apply"
    /\ UNCHANGED <<temp, memory, section, lines>>

(* Mutant of CopyFile: the sections after the new one are left out.        *)
CopyWithoutRest ==
    /\ pc = "copy"
    /\ temp' \in Written([NoSections EXCEPT ![section] = lines])
    /\ pc' = "remove"
    /\ UNCHANGED <<config, memory, section, lines>>

(* The other sections are copied, the section is replaced.                 *)
CopyFile ==
    /\ pc = "copy"
    /\ temp' \in Written([config EXCEPT ![section] = lines])
    /\ pc' = "remove"
    /\ UNCHANGED <<config, memory, section, lines>>

(* Mutant of RemoveOld: the old file stays.                                *)
OldKept ==
    /\ pc = "remove"
    /\ pc' = "rename"
    /\ UNCHANGED <<config, temp, memory, section, lines>>

(* ini_remove and ini_rename may fail, a rename to a file that is there     *)
(* always does.  close_rename returns 1 in any case.                       *)
Removed == {Absent} \cup IF "remove" \in Failing THEN {config} ELSE {}
Renamed ==
    LET moved == {<<temp, Absent>>}
        still == {<<config, temp>>}
    IN  IF config # Absent THEN still
        ELSE IF "rename" \in Failing THEN moved \cup still ELSE moved

RemoveOld ==
    /\ pc = "remove"
    /\ config' \in Removed
    /\ pc' = "rename"
    /\ UNCHANGED <<temp, memory, section, lines>>

RenameTemp ==
    /\ pc = "rename"
    /\ \E files \in Renamed : config' = files[1] /\ temp' = files[2]
    /\ pc' = "apply"
    /\ UNCHANGED <<memory, section, lines>>

(* SetProfiles and SetConfigValues after the save.                         *)
ApplyInMemory ==
    /\ pc = "apply"
    /\ memory' = [memory EXCEPT ![section] = lines]
    /\ pc' = "idle"
    /\ UNCHANGED <<config, temp, section, lines>>

(* The user edits the file on the SD card, not during a save.              *)
Edit ==
    /\ pc = "idle"
    /\ config' \in Files
    /\ UNCHANGED <<temp, memory, pc, section, lines>>

(* What was being written is left half done, and the sysmodule starts anew.*)
PowerCut ==
    /\ memory' = Off
    /\ pc' = "idle"
    /\ config' \in IF pc = "write" THEN Torn([NoSections EXCEPT ![section] = lines]) ELSE {config}
    /\ temp' \in IF pc = "copy" THEN Torn([config EXCEPT ![section] = lines]) ELSE {temp}
    /\ UNCHANGED <<section, lines>>

Next ==
    \/ Load \/ Edit \/ PowerCut
    \/ \E s \in Sections, new \in SUBSET Lines : Save(s, new)
    \/ WriteNew \/ CopyFile \/ RemoveOld \/ RenameTemp \/ ApplyInMemory

Spec == Init /\ [][Next]_vars
-----------------------------------------------------------------------------
(* A save happens, for everybody who waits for configMutex, when the new   *)
(* version is complete and the old one gone; the copy in memory follows    *)
(* before the mutex is released.                                           *)
Replacing == pc = "rename" /\ config = Absent

savedNow  == IF Replacing THEN temp ELSE Parsed(config)
memoryNow == IF Replacing \/ pc = "apply" THEN [memory EXCEPT ![section] = lines] ELSE memory

Store == INSTANCE SettingsStore WITH saved <- savedNow, memory <- memoryNow

(* Config::SetProfiles and SetConfigValues are what module Config takes    *)
(* them for: each save is one step of SettingsStore, one that could not    *)
(* open its file is none, and a power cut never mixes two versions.        *)
SavesAreAtomic == Store!Spec

(* The comment in SetProfiles and SetConfigValues: "Only actually apply    *)
(* changes in memory after a succesful save".  What is applied is on the   *)
(* card.                                                                   *)
AppliedIsSaved == pc = "apply" => config # Absent /\ config[section] = lines
=============================================================================
