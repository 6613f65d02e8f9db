------------------------------ MODULE Overlay -------------------------------
(***************************************************************************)
(* The overlay of sys-clk-OC (overlay/src): its GUIs on the stack of       *)
(* Tesla's loop, the requests they send to the sysmodule (common/src/      *)
(* client/ipc.c) and what the sysmodule answers (ipc_service.cpp).         *)
(*                                                                         *)
(* A GUI keeps copies of what it shows and writes a whole list back when   *)
(* one entry of it is changed.  A title's list is a function from items:   *)
(* the clocks of each profile, in MHz, and the governor's bit per module.  *)
(***************************************************************************)
EXTENDS Tesla, FiniteSets

CONSTANTS
    Titles,         \* applications that may run
    Fields,         \* clocks of a list: profile and module
    Governors,      \* modules the governor handles
    Modules,        \* modules with a temporary override
    Options,        \* toggles of the miscellaneous GUI
    GovernorOption, \* SysClkConfigValue_GovernorExperimental
    Freqs,          \* clocks of a frequency table
    None,           \* nothing
    MaxChanges      \* how often a setting, the application or a button may change something

ASSUME OverlayAssumption ==
    /\ GovernorOption \in Options /\ 0 \notin Freqs
    /\ Fields \cap Governors = {}
    /\ None \notin Titles \cup Fields \cup Governors \cup Modules
    /\ MaxChanges \in Nat

VARIABLES
    runningApp,     \* the application that runs
    alive,          \* the sysmodule runs and the session is open
    loaded,         \* HasProfilesLoaded
    settings,       \* what the sysmodule holds: enabled, override, lists, config, noCharge
    touched,        \* items of lists edited behind the overlay since it read its list
    changes

sysVars == <<runningApp, alive, loaded, settings>>
vars == <<teslaVars, sysVars, touched, changes>>

Global == "global"      \* SYSCLK_GLOBAL_PROFILE_TID
Items == Fields \cup Governors
Lists == Titles \cup {Global}
ItemValues(i) == IF i \in Fields THEN Freqs \cup {0} ELSE {0, 1}

Gui(kind) ==
    [kind |-> kind, title |-> None, item |-> None, owner |-> 0,
     app |-> None, list |-> None, config |-> None, governed |-> FALSE]
Top == stack[Len(stack)]
Fatal == Gui("Fatal")
MenuKinds == {"Main", "AppProfile", "Override", "FreqChoice", "Misc"}

NoConfig == [o \in Options |-> 0]

OverlayInit ==
    /\ TeslaInit
    /\ runningApp \in Titles /\ alive \in BOOLEAN /\ loaded \in BOOLEAN
    /\ settings = [enabled |-> TRUE, override |-> [m \in Modules |-> 0],
                   lists |-> [t \in Lists |-> [i \in Items |-> IF i \in Fields THEN 0 ELSE 1]],
                   config |-> [o \in Options |-> 1], noCharge |-> FALSE]
    /\ touched = {} /\ changes = 0

\* The service is there and gives a session.
sysclkIpcInitialize == alive

(* loadInitialGui: the sysmodule is not running, cannot be reached or is   *)
(* of another version.                                                     *)
loadInitialGui ==
    /\ main = "start" /\ main' = "wait"
    /\ \E same \in BOOLEAN :
        stack' = <<IF sysclkIpcInitialize /\ same THEN Gui("Main") ELSE Fatal>>
    /\ UNCHANGED <<shared, fade, shouldClose, poller, sysVars, touched, changes>>

(***************************************************************************)
(* update of the GUI on top, once a frame.                                 *)
(***************************************************************************)
(* BaseMenuGui::refresh.  The first time it is always due; a context that  *)
(* could not be read is memory as it was.  Of the context, what a GUI acts *)
(* on is the application, None until it is read.                           *)
Refreshed(gui) ==
    (IF gui.app # None THEN {[app |-> gui.app, failed |-> FALSE]} ELSE {})
    \cup (IF alive THEN {[app |-> runningApp, failed |-> FALSE]}
          ELSE {[app |-> a, failed |-> TRUE] : a \in IF gui.app = None THEN Titles ELSE {gui.app}})

(* MiscGui::refresh asks for the settings every 60 frames, beginning with  *)
(* the first, and does not look at the result.                             *)
Asks(gui) == IF gui.app = None THEN {TRUE} ELSE BOOLEAN

\* Mutant: the comparison comes before the refresh.
ChangedBefore(gui, app) ==
    gui.kind = "AppProfile" /\ gui.app # None /\ gui.title \notin {Global, gui.app}

(* AppProfileGui::update.                                                  *)
ApplicationChanged(gui, app) ==
    gui.kind = "AppProfile" /\ gui.title \notin {Global, app}

\* FatalGuis an update opens.
FatalsOf(gui, read, asked) ==
    (IF read.failed THEN <<Fatal>> ELSE <<>>)
    \o (IF gui.kind = "Misc" /\ asked /\ ~alive THEN <<Fatal>> ELSE <<>>)
    \o (IF ApplicationChanged(gui, read.app) THEN <<Fatal>> ELSE <<>>)

update ==
    /\ main = "update"
    /\ \/ /\ stack = <<>> /\ main' = "crash"
          /\ UNCHANGED stack
       \/ /\ stack # <<>> /\ Top.kind = "Fatal" /\ main' = "input"
          /\ UNCHANGED stack
       \/ /\ stack # <<>> /\ Top.kind \in MenuKinds /\ main' = "input"
          /\ \E read \in Refreshed(Top) : \E asked \in Asks(Top) :
                stack' = Popped \o
                    <<[Top EXCEPT !.app = read.app,
                                  !.config = IF Top.kind = "Misc" /\ asked /\ alive /\ loaded
                                             THEN settings.config ELSE @]>>
                    \o FatalsOf(Top, read, asked)
    /\ UNCHANGED <<shared, fade, shouldClose, poller, sysVars, touched, changes>>

(***************************************************************************)
(* handleInput, under the lock and not during a fade.                      *)
(***************************************************************************)
HandlesInput ==
    /\ main = "input" /\ ~Locked
    /\ main' = "check"
    /\ UNCHANGED <<running, overlayOpen, comboEvent, poller>>

NoKey ==
    /\ HandlesInput
    /\ UNCHANGED <<stack, fade, shouldClose, sysVars, touched, changes>>

On(kind) == HandlesInput /\ ~fadeAnimationPlaying /\ stack # <<>> /\ Top.kind = kind
Unsaved == UNCHANGED <<fade, sysVars, touched, changes>>
Changes == changes < MaxChanges /\ changes' = changes + 1

PressB ==
    /\ \E kind \in MenuKinds : On(kind)
    /\ goBack /\ Unsaved

\* Mutant: only the FatalGui is left.
DismissOne == On("Fatal") /\ goBack /\ Unsaved

\* A or B on a FatalGui.
Dismiss == On("Fatal") /\ goBackAll /\ Unsaved

TouchOutside ==
    /\ \E kind \in MenuKinds \cup {"Fatal"} : On(kind)
    /\ hide
    /\ UNCHANGED <<stack, shouldClose, sysVars, touched, changes>>

(* Opening a GUI.                                                          *)
openAppProfile ==
    /\ On("Main")
    /\ \E title \in {Top.app, Global} :
        \/ /\ alive /\ loaded
           /\ changeTo([Gui("AppProfile") EXCEPT !.title = title, !.list = settings.lists[title],
                           !.governed = (title # Global /\ settings.config[GovernorOption] = 1)])
           /\ touched' = {}
        \/ /\ ~(alive /\ loaded)
           /\ changeTo(Fatal)
           /\ UNCHANGED touched
    /\ UNCHANGED <<fade, sysVars, changes>>

openMenu ==
    /\ On("Main")
    /\ \/ changeTo(Gui("Override"))
       \/ changeTo([Gui("Misc") EXCEPT
                !.config = IF alive /\ loaded THEN settings.config ELSE NoConfig])
    /\ Unsaved

(* The constructor of FreqChoiceGui asks for the frequency table; when it  *)
(* fails, the FatalGui is pushed before the GUI itself.                    *)
\* Mutant: the listener belongs to whatever is on top.
openForTop ==
    /\ On("Override") \/ On("AppProfile")
    /\ \E item \in IF Top.kind = "Override" THEN Modules ELSE Fields :
        LET below == stack \o (IF alive THEN <<>> ELSE <<Fatal>>) IN
        stack' = Append(below, [Gui("FreqChoice") EXCEPT !.item = item, !.owner = Len(below)])
    /\ UNCHANGED shouldClose
    /\ Unsaved

openFreqChoice ==
    /\ On("Override") \/ On("AppProfile")
    /\ \E item \in IF Top.kind = "Override" THEN Modules ELSE Fields :
        stack' = stack \o (IF alive THEN <<>> ELSE <<Fatal>>)
                       \o <<[Gui("FreqChoice") EXCEPT !.item = item, !.owner = Len(stack)]>>
    /\ UNCHANGED shouldClose
    /\ Unsaved

(* A request the sysmodule may refuse; a save may fail.                    *)
Replies(possible) == IF possible THEN BOOLEAN ELSE {FALSE}

(* The listeners.  They change the GUI's copy, send the request, and open  *)
(* a FatalGui when it fails.                                               *)
pickOverride ==
    /\ On("FreqChoice") /\ stack[Top.owner].kind = "Override"
    /\ Changes
    /\ \E freq \in Freqs \cup {0} :
        \/ /\ alive
           /\ settings' = [settings EXCEPT !.override[Top.item] = freq]
           /\ goBack
        \/ /\ ~alive /\ changeTo(Fatal)
           /\ UNCHANGED settings
    /\ UNCHANGED <<fade, runningApp, alive, loaded, touched>>

WithItem(owner, item, value) == [stack EXCEPT ![owner].list[item] = value]

pickProfile ==
    /\ On("FreqChoice") /\ stack[Top.owner].kind = "AppProfile"
    /\ Changes
    /\ \E freq \in Freqs \cup {0} : \E saved \in Replies(alive /\ loaded) :
        LET edited == WithItem(Top.owner, Top.item, freq) IN
        \/ /\ saved
           /\ settings' = [settings EXCEPT !.lists[edited[Top.owner].title] = edited[Top.owner].list]
           /\ stack' = SubSeq(edited, 1, Len(edited) - 1)
        \/ /\ ~saved
           /\ stack' = Append(edited, Fatal)
           /\ UNCHANGED settings
    /\ UNCHANGED <<fade, shouldClose, runningApp, alive, loaded, touched>>

ToggleGovernor(list, module) == [list EXCEPT ![module] = 1 - @]

toggleGovernor ==
    /\ On("AppProfile") /\ Top.governed
    /\ Changes
    /\ \E module \in Governors : \E saved \in Replies(alive /\ loaded) :
        LET edited == [stack EXCEPT ![Len(stack)].list = ToggleGovernor(@, module)] IN
        \/ /\ saved
           /\ settings' = [settings EXCEPT !.lists[Top.title] = edited[Len(edited)].list]
           /\ stack' = edited
        \/ /\ ~saved
           /\ stack' = Append(edited, Fatal)
           /\ UNCHANGED settings
    /\ UNCHANGED <<fade, shouldClose, runningApp, alive, loaded, touched>>

toggleEnabled ==
    /\ On("Main")
    /\ Changes
    /\ \/ /\ alive
          /\ settings' = [settings EXCEPT !.enabled = ~@]
          /\ UNCHANGED <<stack, shouldClose>>
       \/ /\ ~alive /\ changeTo(Fatal)
          /\ UNCHANGED settings
    /\ UNCHANGED <<fade, runningApp, alive, loaded, touched>>

setConfigValue ==
    /\ On("Misc")
    /\ Changes
    /\ \E o \in Options : \E saved \in Replies(alive /\ loaded) :
        LET toggled == [stack EXCEPT ![Len(stack)].config[o] = 1 - @] IN
        \/ /\ saved
           /\ settings' = [settings EXCEPT !.config = toggled[Len(stack)].config]
           /\ stack' = toggled
        \/ /\ ~saved
           /\ stack' = Append(toggled, Fatal)
           /\ UNCHANGED settings
    /\ UNCHANGED <<fade, shouldClose, runningApp, alive, loaded, touched>>

setChargingDisabled ==
    /\ On("Misc")
    /\ Changes
    /\ \/ /\ alive
          /\ settings' = [settings EXCEPT !.noCharge = ~@]
          /\ UNCHANGED <<stack, shouldClose>>
       \/ /\ ~alive /\ changeTo(Fatal)
          /\ UNCHANGED settings
    /\ UNCHANGED <<fade, runningApp, alive, loaded, touched>>

handleInput ==
    \/ NoKey \/ PressB \/ Dismiss \/ TouchOutside
    \/ openAppProfile \/ openMenu \/ openFreqChoice
    \/ pickOverride \/ pickProfile \/ toggleGovernor \/ toggleEnabled
    \/ setConfigValue \/ setChargingDisabled

(***************************************************************************)
(* Everyone else.                                                          *)
(***************************************************************************)
StartApplication ==
    /\ Changes
    /\ runningApp' \in Titles \ {runningApp}
    /\ UNCHANGED <<teslaVars, alive, loaded, settings, touched>>

SysmoduleExits ==
    /\ alive /\ alive' = FALSE
    /\ Changes
    /\ UNCHANGED <<teslaVars, runningApp, loaded, settings, touched>>

(* The sysmodule finds config.ini, or an entry of it edited; of an edit in *)
(* a list no GUI shows nobody takes notice.                                *)
ShownLists == {stack[k].title : k \in {j \in DOMAIN stack : stack[j].kind = "AppProfile"}}

ConfigLoads ==
    /\ alive /\ Changes
    /\ loaded' = TRUE
    /\ \/ /\ ~loaded
          /\ UNCHANGED <<settings, touched>>
       \/ \E t \in ShownLists : \E i \in Items : \E v \in ItemValues(i) :
            /\ settings' = [settings EXCEPT !.lists[t][i] = v]
            /\ touched' = touched \cup {<<t, i>>}
    /\ UNCHANGED <<teslaVars, runningApp, alive>>

Tesla ==
    /\ \/ (TeslaMain \/ PollerHides) /\ UNCHANGED changes
       \/ (PressCombo \/ PressHome) /\ IF overlayOpen THEN Changes ELSE UNCHANGED changes
    /\ UNCHANGED <<sysVars, touched>>
Outside == StartApplication \/ SysmoduleExits \/ ConfigLoads

OverlayNext == Tesla \/ loadInitialGui \/ update \/ handleInput \/ Outside

(* The two threads run; nobody has to press a key.                         *)
OverlaySpec ==
    /\ OverlayInit /\ [][OverlayNext]_vars
    /\ WF_vars(TeslaMain /\ UNCHANGED <<sysVars, touched, changes>>)
    /\ WF_vars(update) /\ WF_vars(handleInput)
    /\ WF_vars(PollerHides /\ UNCHANGED <<sysVars, touched, changes>>)

-----------------------------------------------------------------------------
(* Type invariant of the loop, the GUIs and the sysmodule.                 *)
OverlayTypeOK ==
    /\ TeslaTypeOK
    /\ \A k \in DOMAIN stack :
        LET gui == stack[k] IN
        /\ gui.kind \in MenuKinds \cup {"Fatal"}
        /\ gui.kind = "AppProfile" => /\ gui.title \in Lists
                                      /\ \A i \in Items : gui.list[i] \in ItemValues(i)
        /\ gui.kind = "FreqChoice" => /\ gui.owner \in 1..(k - 1)
                                      /\ stack[gui.owner].kind \in {"Override", "AppProfile"}
        /\ gui.kind = "Misc" => gui.config \in [Options -> {0, 1}]
    /\ \A t \in Lists : \A i \in Items : settings.lists[t][i] \in ItemValues(i)
    /\ settings.config \in [Options -> {0, 1}]
    /\ changes \in 0..MaxChanges

(* A list is written as a whole from a copy that may be old, and the copy  *)
(* keeps an edit whose save failed.  Even so the user's choice changes the *)
(* one item it is about, of the title whose GUI it was made in, and beyond *)
(* it at most what was edited behind the overlay's back meanwhile: after a *)
(* failed save nothing more is written.                                    *)
Edited(t) == {i \in Items : settings'.lists[t][i] # settings.lists[t][i]}

EditsOneItem ==
    [][\A t \in Lists : main # main' /\ Edited(t) # {} =>
        LET written == {i \in Edited(t) : <<t, i>> \notin touched} IN
        /\ \E k \in DOMAIN stack : stack[k].kind = "AppProfile" /\ stack[k].title = t
        /\ IF Top.kind = "FreqChoice" THEN written \subseteq {Top.item}
           ELSE written \subseteq Governors /\ Cardinality(written) <= 1]_vars

(* Keys never reach a GUI that has not read the context they dereference,  *)
(* nor the profile of an application the GUI knows to be gone.             *)
InputIsCurrent ==
    main = "input" /\ stack # <<>> =>
        /\ Top.kind \in MenuKinds => Top.app # None
        /\ Top.kind = "AppProfile" => Top.title \in {Global, Top.app}
=============================================================================
