---------------------------- MODULE SettingsStore ----------------------------
(***************************************************************************)
(* What the rest of the sysmodule takes saving a setting for, and what     *)
(* module Config models: one step that changes one section of the saved    *)
(* settings and of their copy in memory, or nothing.  A power cut may cost *)
(* all of the saved settings, or part of the first section ever saved; it  *)
(* never leaves some sections of an older version and some of a newer one. *)
(***************************************************************************)
CONSTANTS
    Sections,   \* the sections of config.ini: [values] and one per title
    Lines,      \* the lines a section may have, a key and a value each
    Off         \* in place of a Config object that has loaded nothing

VARIABLES
    saved,      \* what a load of the saved settings gives
    memory      \* what the Config object holds, or Off

Contents == [Sections -> SUBSET Lines]
NoSections == [s \in Sections |-> {}]

Init == saved \in Contents /\ memory = Off

Load == memory' = saved /\ UNCHANGED saved

Save(s, lines) ==
    /\ memory # Off
    /\ saved' = [saved EXCEPT ![s] = lines]
    /\ memory' = [memory EXCEPT ![s] = lines]

(* The user edits the file on the SD card.                                 *)
Edit == saved' \in Contents /\ UNCHANGED memory

PowerCut ==
    /\ memory' = Off
    /\ \/ saved' \in {saved, NoSections}
       \/ /\ saved = NoSections
          /\ \E s \in Sections, lines \in SUBSET Lines :
                saved' = [NoSections EXCEPT ![s] = lines]

Next ==
    \/ Load \/ Edit \/ PowerCut
    \/ \E s \in Sections, lines \in SUBSET Lines : Save(s, lines)

Spec == Init /\ [][Next]_<<saved, memory>>
=============================================================================
