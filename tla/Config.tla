------------------------------- MODULE Config -------------------------------
(***************************************************************************)
(* The settings of the sysmodule: config.ini on the SD card, the copy of   *)
(* it that the Config object keeps in memory, and the two settings that    *)
(* are never saved, the enabled flag and the temporary overrides           *)
(* (sysmodule/src/config.cpp).  The IPC thread changes them while the tick *)
(* thread reads them; every operation below runs under configMutex or      *)
(* overrideMutex, or touches one atomic, so it is one step.                *)
(*                                                                         *)
(* The file's modification time is only ever compared with the one read at *)
(* the last load, so the model keeps the outcome of that comparison:       *)
(* fileNewer says that the two differ.                                     *)
(***************************************************************************)
EXTENDS Clocks

CONSTANTS
    Apps,           \* title ids an application may have
    ProfileLists,   \* the profile lists a title may be given (SysClkTitleProfileList)
    ValueLists,     \* the [values] sections that may be written
    OverrideFreqs,  \* the override frequencies the overlay may ask for (0: none)
    CoarseMtime     \* TRUE: two writes may get the same modification time

GLOBAL_TID == "global"   \* SYSCLK_GLOBAL_PROFILE_TID
Tids == Apps \cup {GLOBAL_TID}

SysClkConfigValues ==
    [AutoCPUBoost : BOOLEAN, SyncReverseNXMode : BOOLEAN,
     AllowUnsafeFrequencies : BOOLEAN, GovernorExperimental : BOOLEAN,
     GovernorHandheldOnly : BOOLEAN, ChargingLimitPercentage : Nat]

SysClkTitleProfileList ==
    [mhzMap : [Profiles -> [Modules -> Nat]], governorConfig : SUBSET {"CPU", "GPU"}]

(* sysclkDefaultConfigValue *)
DefaultValues ==
    [AutoCPUBoost |-> FALSE, SyncReverseNXMode |-> TRUE,
     AllowUnsafeFrequencies |-> FALSE, GovernorExperimental |-> FALSE,
     GovernorHandheldOnly |-> FALSE, ChargingLimitPercentage |-> 100]

(* A title without a section in the file.                                  *)
NoProfiles == [mhzMap |-> [p \in Profiles |-> [m \in Modules |-> 0]],
               governorConfig |-> {"CPU", "GPU"}]

ASSUME ConfigAssumption ==
    /\ GLOBAL_TID \notin Apps
    /\ NoProfiles \in ProfileLists
    /\ ProfileLists \subseteq SysClkTitleProfileList
    /\ DefaultValues \in ValueLists
    /\ ValueLists \subseteq SysClkConfigValues
    /\ OverrideFreqs \subseteq Nat
    /\ 0 \in OverrideFreqs
    /\ CoarseMtime \in BOOLEAN

VARIABLES
    file,           \* config.ini: a section per title, and the [values] section
    fileNewer,      \* CheckModificationTime() # this->mtime
    loaded,         \* this->loaded
    profiles,       \* profileMhzMap and profileGovernorMap
    configValues,   \* this->configValues
    enabled,        \* this->enabled
    overrideFreqs   \* this->overrideFreqs

configVars == <<file, fileNewer, loaded, profiles, configValues, enabled, overrideFreqs>>
fileVars   == <<file, fileNewer, loaded, profiles, configValues>>

Contents == [profiles : [Tids -> SysClkTitleProfileList], values : SysClkConfigValues]

ConfigTypeOK ==
    /\ file \in Contents
    /\ fileNewer \in BOOLEAN
    /\ loaded \in BOOLEAN
    /\ profiles \in [Tids -> SysClkTitleProfileList]
    /\ configValues \in SysClkConfigValues
    /\ configValues.ChargingLimitPercentage \in 20..100
    /\ enabled \in BOOLEAN
    /\ overrideFreqs \in [Modules -> Nat]
-----------------------------------------------------------------------------
(* sysclkValidConfigValue: out-of-range values fall back to the default.   *)
ValidValues(v) ==
    IF v.ChargingLimitPercentage \in 20..100 THEN v
    ELSE [v EXCEPT !.ChargingLimitPercentage = DefaultValues.ChargingLimitPercentage]

(* BrowseIniFunc on a title's keys: a memory clock above 1600 MHz stands   *)
(* for the customised one.                                                 *)
ParseMhz(m, mhz) == IF m = "MEM" /\ mhz > 1600 THEN maxMemFreq \div 10 ELSE mhz

ParseProfiles(list) ==
    [list EXCEPT !.mhzMap =
        [p \in Profiles |-> [m \in Modules |-> ParseMhz(m, list.mhzMap[p][m])]]]

(* Config::Config, and main's SetEnabled(true) before the first tick.      *)
ConfigInit ==
    /\ file \in [profiles : [Tids -> ProfileLists], values : ValueLists]
    /\ fileNewer = TRUE
    /\ loaded = FALSE
    /\ profiles = [t \in Tids |-> NoProfiles]
    /\ configValues = DefaultValues
    /\ enabled = TRUE
    /\ overrideFreqs = [m \in Modules |-> 0]

(* Config::Refresh returns this; Load runs exactly when it is TRUE.        *)
NeedsLoad == ~loaded \/ fileNewer

(* Config::Refresh, with Load, Close and the browse of the whole file.     *)
Refresh ==
    /\ IF NeedsLoad
       THEN /\ loaded' = TRUE
            /\ fileNewer' = FALSE
            /\ profiles' = [t \in Tids |-> ParseProfiles(file.profiles[t])]
            /\ configValues' = ValidValues(file.values)
       ELSE UNCHANGED <<loaded, fileNewer, profiles, configValues>>
    /\ UNCHANGED <<file, enabled, overrideFreqs>>

(* A write gives the file the current time.  It differs from the time of   *)
(* the last load unless both fall into one granule of the file system.     *)
Touch == fileNewer' \in IF CoarseMtime THEN {TRUE, fileNewer} ELSE {TRUE}

(* IpcService::SetProfiles and Config::SetProfiles: the section is saved,  *)
(* and the maps are updated with what was saved (not with what a load      *)
(* would make of it).  Nothing changes when the save fails.                *)
SetProfiles(tid, list) ==
    /\ loaded
    /\ file' = [file EXCEPT !.profiles[tid] = list]
    /\ Touch
    /\ profiles' = [profiles EXCEPT ![tid] = list]
    /\ UNCHANGED <<loaded, configValues, enabled, overrideFreqs>>

(* Mutant of SetConfigValues: memory has the values, so the file counts as *)
(* read.                                                                   *)
SavedIsLoaded(values) ==
    /\ loaded
    /\ file' = [file EXCEPT !.values = ValidValues(values)]
    /\ configValues' = ValidValues(values)
    /\ UNCHANGED <<fileNewer, loaded, profiles, enabled, overrideFreqs>>

(* IpcService::SetConfigValues and Config::SetConfigValues: invalid values *)
(* are not saved and read as their default.                                *)
SetConfigValues(values) ==
    /\ loaded
    /\ file' = [file EXCEPT !.values = ValidValues(values)]
    /\ Touch
    /\ configValues' = ValidValues(values)
    /\ UNCHANGED <<loaded, profiles, enabled, overrideFreqs>>

(* IpcService::SetEnabled *)
SetEnabled(on) ==
    /\ enabled' = on
    /\ UNCHANGED <<fileVars, overrideFreqs>>

(* IpcService::SetOverride *)
SetOverride(m, hz) ==
    /\ overrideFreqs' = [overrideFreqs EXCEPT ![m] = hz]
    /\ UNCHANGED <<fileVars, enabled>>
-----------------------------------------------------------------------------
(* Config::GetAutoClockHz: the profiles to look at, the first one set wins.*)
Fallbacks(profile) ==
    CASE profile = "Handheld" -> <<"Handheld">>
      [] profile \in {"HandheldCharging", "HandheldChargingUSB"} ->
            <<"HandheldChargingUSB", "HandheldCharging", "Handheld">>
      [] profile = "HandheldChargingOfficial" ->
            <<"HandheldChargingOfficial", "HandheldCharging", "Handheld">>
      [] profile = "Docked" -> <<"Docked">>

(* The first entry of a list of settings that is set; 0 when none is.      *)
FirstSet(list) ==
    LET found == {i \in DOMAIN list : list[i] # 0}
    IN  IF found = {} THEN 0 ELSE list[CHOOSE i \in found : \A j \in found : i <= j]

(* Config::FindClockHzFromProfiles: MHz become Hz.                         *)
FindClockHz(tid, m, order) ==
    IF ~loaded THEN 0
    ELSE 10 * FirstSet([i \in DOMAIN order |-> profiles[tid].mhzMap[order[i]][m]])

GetAutoClockHz(tid, m, profile) == FindClockHz(tid, m, Fallbacks(profile))

(* Config::GetTitleGovernorConfig *)
GetTitleGovernorConfig(tid) ==
    IF loaded THEN profiles[tid].governorConfig ELSE NoProfiles.governorConfig
=============================================================================
