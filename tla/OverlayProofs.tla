--------------------------- MODULE OverlayProofs ----------------------------
(***************************************************************************)
(* The overlay's types, InputIsCurrent and EditsOneItem, for all titles,   *)
(* clocks, options and lengths of a fade.                                  *)
(***************************************************************************)
EXTENDS Overlay, FiniteSetTheorems, SequenceTheorems, TLAPS

-----------------------------------------------------------------------------
(***************************************************************************)
(* The flags of the fade.                                                  *)
(***************************************************************************)
(* A fade in ends before the counter passes FadeSteps.  A shown overlay    *)
(* whose counter is 0 is about to fade in or to be hidden, so a fade out   *)
(* that the other thread starts in between finds the counter above 0.      *)
FadeInv ==
    /\ TeslaTypeOK
    /\ fadeIn => counter <= FadeSteps
    /\ Shown /\ counter = 0 => fadeIn \/ shouldHide
    /\ shouldHide => main \in {"update", "input", "check", "leave", "crash"}
    /\ disableNextAnimation => main \in {"start", "wait", "opened"}

LEMMA FadeInit == OverlayInit => FadeInv
<1> SUFFICES ASSUME TeslaInit PROVE FadeInv
  BY DEF OverlayInit
<1>1. counter \in 0..(FadeSteps + 1) /\ counter <= FadeSteps /\ main = "start"
  BY FadeAssumption DEF TeslaInit
<1>2. disableNextAnimation \in BOOLEAN
  BY DEF TeslaInit
<1>3. TeslaTypeOK
  BY <1>1, <1>2 DEF TeslaInit, TeslaTypeOK
<1> QED BY <1>1, <1>3 DEF TeslaInit, FadeInv, Shown

LEMMA FadeOfLoop ==
    ASSUME FadeInv, TeslaMain
    PROVE  FadeInv'
<1> USE FadeAssumption DEF FadeInv, TeslaTypeOK, Shown, shared, fade
<1>1. CASE WaitForCombo
  BY <1>1 DEF WaitForCombo
<1>2. CASE show
  <2>1. counter' \in 0..FadeSteps
    BY <1>2 DEF show
  <2>2. fadeIn' \in BOOLEAN /\ disableNextAnimation' = FALSE /\ shouldHide' = FALSE
    BY <1>2 DEF show
  <2>3. counter' = 0 => fadeIn'
    BY <1>2 DEF show
  <2>4. counter' <= FadeSteps /\ counter' \in 0..(FadeSteps + 1)
    BY <2>1
  <2>5. TeslaTypeOK'
    BY <1>2, <2>2, <2>4 DEF show
  <2> QED BY <1>2, <2>2, <2>3, <2>4, <2>5 DEF show
<1>3. CASE animationLoop
  <2>1. /\ fadeIn => Faded = counter + 1
        /\ ~fadeIn => Faded = counter
        /\ fadeOut => FadedOut = Faded - 1
        /\ ~fadeOut => FadedOut = Faded
    BY <1>3 DEF animationLoop, Faded, FadedOut
  <2>2. counter' \in 0..(FadeSteps + 1)
    BY <1>3, <2>1 DEF animationLoop
  <2>3. fadeIn' => counter' <= FadeSteps
    BY <1>3, <2>1 DEF animationLoop
  <2>4. counter' = 0 => shouldHide'
    BY <1>3, <2>1 DEF animationLoop
  <2> QED BY <1>3, <2>2, <2>3, <2>4 DEF animationLoop
<1>4. CASE EndOfFrame
  BY <1>4 DEF EndOfFrame
<1>5. CASE resetFlags
  BY <1>5 DEF resetFlags
<1>6. CASE ClearCombo
  BY <1>6 DEF ClearCombo
<1>7. CASE JoinPoller
  BY <1>7 DEF JoinPoller
<1> QED BY <1>1, <1>2, <1>3, <1>4, <1>5, <1>6, <1>7 DEF TeslaMain

LEMMA HideOfPoller ==
    ASSUME FadeInv,
           NEW from, NEW next \in {"comboCounter", "homeCounter"},
           NEW closed \in {"comboClosed", "homeClosed"},
           PollerHide(from, next, closed)
    PROVE  FadeInv'
<1> USE DEF FadeInv, TeslaTypeOK, Shown, shared
<1>1. CASE disableNextAnimation
  <2>1. counter' \in 0..(FadeSteps + 1) /\ counter' <= FadeSteps
    BY <1>1, FadeAssumption DEF PollerHide
  <2>2. ~Shown' /\ disableNextAnimation' = FALSE
    BY <1>1 DEF PollerHide
  <2>3. UNCHANGED <<main, running, overlayOpen, comboEvent, fadeIn, fadeOut, shouldHide, shouldClose>>
    BY <1>1 DEF PollerHide
  <2>4. poller' = closed
    BY <1>1 DEF PollerHide
  <2> QED BY <2>1, <2>2, <2>3, <2>4
<1>2. CASE ~disableNextAnimation
  <2>1. UNCHANGED <<main, running, overlayOpen, comboEvent, fadeIn, counter, shouldHide, shouldClose,
                    disableNextAnimation>>
    BY <1>2 DEF PollerHide
  <2>2. poller' = next /\ fadeOut' = TRUE
    BY <1>2 DEF PollerHide
  <2> QED BY <2>1, <2>2
<1> QED BY <1>1, <1>2

LEMMA FadeOfPoller ==
    ASSUME FadeInv, PollerHides \/ PressCombo \/ PressHome
    PROVE  FadeInv'
<1> USE FadeAssumption DEF FadeInv, TeslaTypeOK, Shown, shared, fade
<1>1. CASE PollerHide("combo", "comboCounter", "comboClosed")
  BY <1>1, HideOfPoller
<1>2. CASE PollerHide("home", "homeCounter", "homeClosed")
  BY <1>2, HideOfPoller
<1>3. CASE PollerCounter("comboCounter", "comboClosed")
  BY <1>3 DEF PollerCounter
<1>4. CASE PollerCounter("homeCounter", "homeClosed")
  BY <1>4 DEF PollerCounter
<1>5. CASE PollerClosed("comboClosed")
  BY <1>5 DEF PollerClosed
<1>6. CASE PollerClosed("homeClosed")
  BY <1>6 DEF PollerClosed
<1>7. CASE PressCombo
  BY <1>7 DEF PressCombo, Polling
<1>8. CASE PressHome
  BY <1>8 DEF PressHome, Polling
<1> QED BY <1>1, <1>2, <1>3, <1>4, <1>5, <1>6, <1>7, <1>8 DEF PollerHides

(* A key may hide the overlay, which is a fade out from FadeSteps; no      *)
(* other step in a GUI touches the flags.                                  *)
HandlesKey ==
    /\ HandlesInput
    /\ \/ UNCHANGED fade
       \/ hide
    /\ shouldClose' \in BOOLEAN

LEMMA InputIsKey ==
    ASSUME FadeInv, handleInput
    PROVE  HandlesKey
<1> USE DEF FadeInv, TeslaTypeOK, HandlesKey, On, Unsaved, goBack, changeTo
<1>1. CASE NoKey
  BY <1>1 DEF NoKey
<1>2. CASE PressB
  BY <1>2 DEF PressB
<1>3. CASE Dismiss
  BY <1>3 DEF Dismiss, goBackAll
<1>4. CASE TouchOutside
  BY <1>4 DEF TouchOutside
<1>5. CASE openAppProfile
  BY <1>5 DEF openAppProfile
<1>6. CASE openMenu
  BY <1>6 DEF openMenu
<1>7. CASE openFreqChoice
  BY <1>7 DEF openFreqChoice
<1>8. CASE pickOverride
  BY <1>8 DEF pickOverride
<1>9. CASE pickProfile
  BY <1>9 DEF pickProfile
<1>10. CASE toggleGovernor
  BY <1>10 DEF toggleGovernor
<1>11. CASE toggleEnabled
  BY <1>11 DEF toggleEnabled
<1>12. CASE setConfigValue
  BY <1>12 DEF setConfigValue
<1>13. CASE setChargingDisabled
  BY <1>13 DEF setChargingDisabled
<1> QED BY <1>1, <1>2, <1>3, <1>4, <1>5, <1>6, <1>7, <1>8, <1>9, <1>10, <1>11, <1>12, <1>13
        DEF handleInput

LEMMA FadeStep ==
    ASSUME FadeInv, [OverlayNext]_vars
    PROVE  FadeInv'
<1> USE DEF FadeInv, TeslaTypeOK, Shown
<1>1. CASE Tesla
  BY <1>1, FadeOfLoop, FadeOfPoller DEF Tesla
<1>2. CASE loadInitialGui
  BY <1>2 DEF loadInitialGui, shared, fade
<1>3. CASE update
  BY <1>3 DEF update, shared, fade
<1>4. CASE handleInput
  <2>1. HandlesKey
    BY <1>4, InputIsKey
  <2>2. CASE UNCHANGED fade
    BY <2>1, <2>2 DEF HandlesKey, HandlesInput, fade
  <2>3. CASE hide
    <3>1. counter' = FadeSteps /\ counter' # 0 /\ counter' \in 0..(FadeSteps + 1)
      BY <2>1, <2>3, FadeAssumption DEF HandlesKey, HandlesInput, hide
    <3>2. fadeOut' = TRUE /\ UNCHANGED <<fadeIn, shouldHide, disableNextAnimation>>
      BY <2>1, <2>3 DEF HandlesKey, HandlesInput, hide
    <3> QED BY <2>1, <3>1, <3>2 DEF HandlesKey, HandlesInput
  <2> QED BY <2>1, <2>2, <2>3 DEF HandlesKey
<1>5. CASE Outside
  BY <1>5 DEF Outside, StartApplication, SysmoduleExits, ConfigLoads, teslaVars, shared, fade
<1>6. CASE UNCHANGED vars
  BY <1>6 DEF vars, teslaVars, shared, fade
<1> QED BY <1>1, <1>2, <1>3, <1>4, <1>5, <1>6 DEF OverlayNext
-----------------------------------------------------------------------------
(***************************************************************************)
(* The stack.                                                              *)
(***************************************************************************)
Kinds == MenuKinds \cup {"Fatal"}
ListSet == {l \in [Items -> Freqs \cup {0, 1}] : \A i \in Items : l[i] \in ItemValues(i)}
ConfigSet == [Options -> {0, 1}]

Guis == [kind : Kinds, title : Lists \cup {None}, item : Fields \cup Modules \cup {None},
         owner : Nat, app : Titles \cup {None}, list : ListSet \cup {None},
         config : ConfigSet \cup {None}, governed : BOOLEAN]

(* The GUI at k has what its kind needs.  There is one Main, below all, and*)
(* one AppProfile, right on it; the owner of a FreqChoice is below it.     *)
Fits(s, k) ==
    /\ s[k].kind = "Main" => k = 1
    /\ s[k].kind = "AppProfile" => k = 2 /\ s[k].title \in Lists /\ s[k].list \in ListSet
    /\ s[k].kind = "FreqChoice" =>
        /\ s[k].owner \in 1..(k - 1)
        /\ s[s[k].owner].kind \in {"Override", "AppProfile"}
        /\ s[k].item \in IF s[s[k].owner].kind = "Override" THEN Modules ELSE Fields
    /\ s[k].kind = "Misc" => s[k].config \in ConfigSet

StackOK(s) == s \in Seq(Guis) /\ \A k \in 1..Len(s) : Fits(s, k)

NoFatal(s) == \A k \in 1..Len(s) : s[k].kind # "Fatal"

(* A list that has been read and not been spoilt by a failed save differs  *)
(* from the sysmodule's only where somebody else edited that.              *)
Fresh(s, lists, known) ==
    NoFatal(s) =>
        \A k \in 1..Len(s) : s[k].kind = "AppProfile" =>
            \A i \in Items : s[k].list[i] # lists[s[k].title][i] => <<s[k].title, i>> \in known

LEMMA FatalIsGui == Fatal \in Guis /\ Fatal.kind = "Fatal"
  BY DEF Fatal, Gui, Guis, Kinds

LEMMA PopOK ==
    ASSUME NEW s, StackOK(s), s # <<>>
    PROVE  /\ StackOK(SubSeq(s, 1, Len(s) - 1))
           /\ Len(SubSeq(s, 1, Len(s) - 1)) = Len(s) - 1
           /\ \A k \in 1..(Len(s) - 1) : SubSeq(s, 1, Len(s) - 1)[k] = s[k]
<1> DEFINE t == SubSeq(s, 1, Len(s) - 1)
<1>1. t \in Seq(Guis) /\ Len(t) = Len(s) - 1 /\ \A k \in 1..(Len(s) - 1) : t[k] = s[k]
  <2>1. s \in Seq(Guis) /\ Len(s) \in Nat \ {0}
    BY DEF StackOK
  <2>2. \A k \in 1..(Len(s) - 1) : s[k] \in Guis
    BY <2>1
  <2>3. 1 \in Int /\ Len(s) - 1 \in Int
    BY <2>1
  <2>4. /\ t \in Seq(Guis)
        /\ Len(t) = IF 1 <= Len(s) - 1 THEN (Len(s) - 1) - 1 + 1 ELSE 0
        /\ \A k \in 1..((Len(s) - 1) - 1 + 1) : t[k] = s[1 + k - 1]
    BY <2>2, <2>3, SubSeqProperties
  <2> HIDE DEF t
  <2>5. Len(t) = Len(s) - 1
    <3>1. \A n \in Nat \ {0} : (IF 1 <= n - 1 THEN (n - 1) - 1 + 1 ELSE 0) = n - 1
      OBVIOUS
    <3> QED BY <2>1, <2>4, <3>1, Zenon
  <2>6. ASSUME NEW k \in 1..(Len(s) - 1) PROVE t[k] = s[k]
    <3>1. k \in 1..((Len(s) - 1) - 1 + 1) /\ 1 + k - 1 = k
      BY <2>1
    <3> QED BY <2>4, <3>1
  <2> QED BY <2>4, <2>5, <2>6
<1> HIDE DEF t
<1>2. ASSUME NEW k \in 1..Len(t) PROVE Fits(t, k)
  <2>1. Fits(s, k) /\ t[k] = s[k]
    BY <1>1 DEF StackOK
  <2>2. s[k].kind = "FreqChoice" => t[s[k].owner] = s[s[k].owner]
    BY <1>1, <2>1 DEF Fits
  <2> QED BY <2>1, <2>2 DEF Fits
<1>3. StackOK(t)
  BY <1>1, <1>2 DEF StackOK
<1> QED BY <1>1, <1>3 DEF t

LEMMA PushOK ==
    ASSUME NEW s, StackOK(s), NEW g \in Guis, Fits(Append(s, g), Len(s) + 1)
    PROVE  /\ StackOK(Append(s, g))
           /\ Len(Append(s, g)) = Len(s) + 1
           /\ \A k \in 1..Len(s) : Append(s, g)[k] = s[k]
           /\ Append(s, g)[Len(s) + 1] = g
<1> DEFINE t == Append(s, g)
<1>1. /\ t \in Seq(Guis) /\ Len(t) = Len(s) + 1 /\ t[Len(s) + 1] = g
      /\ \A k \in 1..Len(s) : t[k] = s[k]
  BY DEF StackOK
<1>0. Fits(t, Len(s) + 1)
  OBVIOUS
<1> HIDE DEF t
<1>2. ASSUME NEW k \in 1..Len(t) PROVE Fits(t, k)
  <2>0. Len(s) \in Nat
    BY DEF StackOK
  <2>1. CASE k = Len(s) + 1
    BY <2>1, <1>0
  <2>2. CASE k \in 1..Len(s)
    <3>1. Fits(s, k) /\ t[k] = s[k]
      BY <1>1, <2>2 DEF StackOK
    <3>2. s[k].kind = "FreqChoice" => t[s[k].owner] = s[s[k].owner]
      BY <1>1, <2>0, <2>2, <3>1 DEF Fits
    <3> QED BY <3>1, <3>2 DEF Fits
  <2> QED BY <1>1, <2>0, <2>1, <2>2
<1>3. StackOK(t)
  BY <1>1, <1>2 DEF StackOK
<1> QED BY <1>1, <1>3 DEF t

LEMMA PushFatalOK ==
    ASSUME NEW s, StackOK(s)
    PROVE  /\ StackOK(Append(s, Fatal))
           /\ ~NoFatal(Append(s, Fatal))
           /\ Append(s, Fatal) # <<>>
           /\ Append(s, Fatal)[Len(Append(s, Fatal))].kind = "Fatal"
<1>1. s \in Seq(Guis) /\ Len(s) \in Nat
  BY DEF StackOK
<1>2. Append(s, Fatal)[Len(s) + 1] = Fatal /\ Len(Append(s, Fatal)) = Len(s) + 1
  BY <1>1, FatalIsGui
<1>3. Fits(Append(s, Fatal), Len(s) + 1)
  BY <1>2, FatalIsGui DEF Fits
<1>4. StackOK(Append(s, Fatal))
  BY <1>3, FatalIsGui, PushOK
<1> QED BY <1>1, <1>2, <1>4, FatalIsGui DEF NoFatal

(* A GUI that changes keeps its kind.                                      *)
LEMMA ReplaceOK ==
    ASSUME NEW s, StackOK(s), NEW k \in 1..Len(s), NEW g \in Guis,
           g.kind = s[k].kind, g.owner = s[k].owner, g.item = s[k].item,
           g.kind = "AppProfile" => g.title \in Lists /\ g.list \in ListSet,
           g.kind = "Misc" => g.config \in ConfigSet
    PROVE  /\ StackOK([s EXCEPT ![k] = g])
           /\ Len([s EXCEPT ![k] = g]) = Len(s)
           /\ [s EXCEPT ![k] = g][k] = g
           /\ \A j \in 1..Len(s) : j # k => [s EXCEPT ![k] = g][j] = s[j]
           /\ NoFatal([s EXCEPT ![k] = g]) <=> NoFatal(s)
<1> DEFINE t == [s EXCEPT ![k] = g]
<1>1. /\ t \in Seq(Guis) /\ Len(t) = Len(s) /\ t[k] = g
      /\ \A j \in 1..Len(s) : j # k => t[j] = s[j]
  BY DEF StackOK
<1> HIDE DEF t
<1>2. \A j \in 1..Len(s) : t[j].kind = s[j].kind
  BY <1>1
<1>3. ASSUME NEW j \in 1..Len(t) PROVE Fits(t, j)
  <2>1. Fits(s, j) /\ Fits(s, k)
    BY <1>1 DEF StackOK
  <2>2. s[j].kind = "FreqChoice" => t[s[j].owner].kind = s[s[j].owner].kind
    BY <1>1, <1>2, <2>1 DEF Fits, StackOK
  <2>3. CASE j = k
    BY <1>1, <2>1, <2>2, <2>3 DEF Fits
  <2>4. CASE j # k
    BY <1>1, <2>1, <2>2, <2>4 DEF Fits
  <2> QED BY <2>3, <2>4
<1>4. StackOK(t) /\ (NoFatal(t) <=> NoFatal(s))
  BY <1>1, <1>2, <1>3 DEF StackOK, NoFatal
<1> QED BY <1>1, <1>4 DEF t

(* FatalGuis an update pushes.                                             *)
LEMMA PushFatalsOK ==
    ASSUME NEW s, StackOK(s), NEW f \in Seq({Fatal})
    PROVE  /\ StackOK(s \o f)
           /\ Len(s \o f) = Len(s) + Len(f)
           /\ \A k \in 1..Len(s) : (s \o f)[k] = s[k]
           /\ \A k \in (Len(s) + 1)..Len(s \o f) : (s \o f)[k] = Fatal
<1> DEFINE t == s \o f
<1>0. s \in Seq(Guis) /\ f \in Seq(Guis) /\ Len(s) \in Nat /\ Len(f) \in Nat
  BY FatalIsGui DEF StackOK
<1>1. /\ t \in Seq(Guis) /\ Len(t) = Len(s) + Len(f)
      /\ \A k \in 1..Len(s) : t[k] = s[k]
      /\ \A k \in (Len(s) + 1)..Len(t) : t[k] = Fatal
  <2>1. t \in Seq(Guis) /\ Len(t) = Len(s) + Len(f) /\ \A k \in 1..Len(s) : t[k] = s[k]
    BY <1>0, ConcatProperties
  <2>2. \A k \in (Len(s) + 1)..Len(t) : t[k] = f[k - Len(s)] /\ k - Len(s) \in 1..Len(f)
    BY <1>0, <2>1, ConcatProperties
  <2> QED BY <2>1, <2>2
<1> HIDE DEF t
<1>2. ASSUME NEW k \in 1..Len(t) PROVE Fits(t, k)
  <2>1. CASE k \in 1..Len(s)
    <3>1. Fits(s, k) /\ t[k] = s[k]
      BY <1>1, <2>1 DEF StackOK
    <3>2. s[k].kind = "FreqChoice" => t[s[k].owner] = s[s[k].owner]
      BY <1>0, <1>1, <2>1, <3>1 DEF Fits
    <3> QED BY <3>1, <3>2 DEF Fits
  <2>2. CASE k \in (Len(s) + 1)..Len(t)
    BY <1>1, <2>2, FatalIsGui DEF Fits
  <2> QED BY <1>0, <1>1, <2>1, <2>2
<1>3. StackOK(t)
  BY <1>1, <1>2 DEF StackOK
<1> QED BY <1>1, <1>3 DEF t

LEMMA TopOK ==
    ASSUME NEW s, StackOK(s), s # <<>>
    PROVE  /\ Len(s) \in Nat \ {0} /\ Len(s) \in 1..Len(s)
           /\ s[Len(s)] \in Guis /\ Fits(s, Len(s))
<1>1. s \in Seq(Guis) /\ Len(s) \in Nat \ {0}
  BY DEF StackOK
<1> QED BY <1>1 DEF StackOK

-----------------------------------------------------------------------------
(***************************************************************************)
(* The invariant of the GUIs.                                              *)
(***************************************************************************)
Held == [enabled : BOOLEAN, override : [Modules -> Freqs \cup {0}],
         lists : [Lists -> ListSet], config : ConfigSet, noCharge : BOOLEAN]

(* While the sysmodule answers, a FatalGui is only left by leaving all.    *)
FatalOnTop == NoFatal(stack) \/ ~alive \/ Top.kind = "Fatal"

GuiInv ==
    /\ StackOK(stack)
    /\ runningApp \in Titles /\ alive \in BOOLEAN /\ loaded \in BOOLEAN
    /\ settings \in Held
    /\ changes \in 0..MaxChanges
    /\ InputIsCurrent
    /\ FatalOnTop
    /\ Fresh(stack, settings.lists, touched)

LEMMA GuiInit == OverlayInit => GuiInv
<1> SUFFICES ASSUME OverlayInit PROVE GuiInv
  OBVIOUS
<1>1. stack = <<>> /\ main = "start"
  BY DEF OverlayInit, TeslaInit
<1>2. Len(stack) = 0 /\ StackOK(stack) /\ NoFatal(stack) /\ Fresh(stack, settings.lists, touched)
  BY <1>1 DEF StackOK, NoFatal, Fresh
<1>3. [i \in Items |-> IF i \in Fields THEN 0 ELSE 1] \in ListSet
  BY DEF ListSet, ItemValues
<1>4. settings \in Held
  BY <1>3 DEF OverlayInit, Held, ConfigSet
<1>5. changes \in 0..MaxChanges
  BY OverlayAssumption DEF OverlayInit
<1> QED BY <1>1, <1>2, <1>4, <1>5 DEF OverlayInit, GuiInv, InputIsCurrent, FatalOnTop

(* What leaves the GUIs and the sysmodule's settings alone.                *)
LEMMA SameGuis ==
    ASSUME GuiInv, UNCHANGED <<stack, settings, touched>>,
           runningApp' \in Titles, loaded' \in BOOLEAN,
           alive' \in BOOLEAN, ~alive => ~alive',
           main' = "input" => main = "input",
           changes' \in 0..MaxChanges
    PROVE  GuiInv'
<1>1. InputIsCurrent'
  BY DEF GuiInv, InputIsCurrent, Top
<1>2. FatalOnTop'
  BY DEF GuiInv, FatalOnTop, NoFatal, Top
<1> QED BY <1>1, <1>2 DEF GuiInv

(* What a key has to keep.                                                 *)
LEMMA KeyKeeps ==
    ASSUME GuiInv, HandlesInput,
           StackOK(stack'), settings' \in Held, changes' \in 0..MaxChanges,
           UNCHANGED <<runningApp, alive, loaded>>,
           FatalOnTop', Fresh(stack', settings'.lists, touched')
    PROVE  GuiInv'
  BY DEF GuiInv, HandlesInput, InputIsCurrent

LEMMA PopKeeps ==
    ASSUME NEW s, StackOK(s), s # <<>>, s[Len(s)].kind # "Fatal",
           NEW lists, NEW known, Fresh(s, lists, known)
    PROVE  LET t == SubSeq(s, 1, Len(s) - 1) IN
           StackOK(t) /\ (NoFatal(t) <=> NoFatal(s)) /\ Fresh(t, lists, known)
<1> DEFINE t == SubSeq(s, 1, Len(s) - 1)
<1>1. /\ StackOK(t) /\ Len(t) = Len(s) - 1
      /\ \A k \in 1..(Len(s) - 1) : t[k] = s[k]
  BY PopOK
<1>2. Len(s) \in Nat \ {0}
  BY TopOK
<1> HIDE DEF t
<1>3. NoFatal(t) <=> NoFatal(s)
  <2>1. \A k \in 1..Len(s) : k = Len(s) \/ k \in 1..(Len(s) - 1)
    BY <1>2
  <2>2. \A k \in 1..(Len(s) - 1) : k \in 1..Len(s)
    BY <1>2
  <2> QED BY <1>1, <2>1, <2>2 DEF NoFatal
<1>4. Fresh(t, lists, known)
  <2>1. \A k \in 1..Len(t) : k \in 1..Len(s) /\ t[k] = s[k]
    BY <1>1, <1>2
  <2> QED BY <1>3, <2>1 DEF Fresh
<1> QED BY <1>1, <1>3, <1>4 DEF t

LEMMA PushFatalKeeps ==
    ASSUME NEW s, StackOK(s), stack' = Append(s, Fatal), NEW lists, NEW known
    PROVE  StackOK(stack') /\ FatalOnTop' /\ Fresh(stack', lists, known)
<1>1. StackOK(stack') /\ ~NoFatal(stack') /\ stack'[Len(stack')].kind = "Fatal"
  BY PushFatalOK
<1> QED BY <1>1 DEF FatalOnTop, Top, Fresh

(* A GUI without a list, opened from one that is no FatalGui.              *)
LEMMA PushKeeps ==
    ASSUME NEW s, StackOK(s), NEW g \in Guis, Fits(Append(s, g), Len(s) + 1),
           g.kind # "Fatal", g.kind # "AppProfile",
           NEW lists, NEW known, Fresh(s, lists, known)
    PROVE  LET t == Append(s, g) IN
           StackOK(t) /\ (NoFatal(t) <=> NoFatal(s)) /\ Fresh(t, lists, known)
<1> DEFINE t == Append(s, g)
<1>1. /\ StackOK(t) /\ Len(t) = Len(s) + 1
      /\ \A k \in 1..Len(s) : t[k] = s[k]
      /\ t[Len(s) + 1] = g
  BY PushOK
<1>2. Len(s) \in Nat
  BY DEF StackOK
<1> HIDE DEF t
<1>3. \A k \in 1..Len(t) : k = Len(s) + 1 \/ k \in 1..Len(s)
  BY <1>1, <1>2
<1>4. NoFatal(t) <=> NoFatal(s)
  <2>1. \A k \in 1..Len(s) : k \in 1..Len(t)
    BY <1>1, <1>2
  <2> QED BY <1>1, <1>3, <2>1 DEF NoFatal
<1>5. Fresh(t, lists, known)
  BY <1>1, <1>3, <1>4 DEF Fresh
<1> QED BY <1>1, <1>4, <1>5 DEF t

(* GUIs that a menu opens.                                                 *)
LEMMA GuiIsGui ==
    ASSUME NEW kind \in Kinds PROVE Gui(kind) \in Guis /\ Gui(kind).kind = kind
  BY DEF Gui, Guis

LEMMA NoneIsNone ==
    None \notin Titles /\ None \notin Fields \cup Modules
  BY OverlayAssumption

-----------------------------------------------------------------------------
(***************************************************************************)
(* The steps.                                                              *)
(***************************************************************************)
LEMMA TeslaKeeps ==
    ASSUME GuiInv, Tesla
    PROVE  GuiInv'
<1>1. UNCHANGED stack /\ (main' = "input" => main = "input")
  BY DEF Tesla, TeslaMain, PollerHides, WaitForCombo, show, animationLoop, EndOfFrame, resetFlags,
       ClearCombo, JoinPoller, PollerHide, PollerCounter, PollerClosed, PressCombo, PressHome
<1>2. changes' \in 0..MaxChanges
  BY OverlayAssumption DEF Tesla, Changes, GuiInv
<1>3. UNCHANGED <<runningApp, alive, loaded, settings, touched>>
  BY DEF Tesla, sysVars
<1>4. runningApp' \in Titles /\ loaded' \in BOOLEAN /\ alive' \in BOOLEAN /\ (~alive => ~alive')
  BY <1>3 DEF GuiInv
<1> QED BY <1>1, <1>2, <1>3, <1>4, SameGuis

LEMMA LoadKeeps ==
    ASSUME GuiInv, loadInitialGui
    PROVE  GuiInv'
<1>1. PICK g \in {Gui("Main"), Fatal} : stack' = <<g>>
  BY DEF loadInitialGui
<1>2. g \in Guis /\ g.kind \in {"Main", "Fatal"}
  BY <1>1, GuiIsGui DEF Fatal, Kinds, MenuKinds
<1>3. stack' \in Seq(Guis) /\ Len(stack') = 1 /\ stack'[1] = g
  BY <1>1, <1>2
<1>4. StackOK(stack') /\ FatalOnTop'
  BY <1>2, <1>3 DEF StackOK, Fits, FatalOnTop, NoFatal, Top
<1>5. Fresh(stack', settings'.lists, touched')
  BY <1>2, <1>3 DEF Fresh
<1>6. UNCHANGED <<runningApp, alive, loaded, settings, touched, changes>> /\ main' # "input"
  BY DEF loadInitialGui, sysVars
<1> QED BY <1>4, <1>5, <1>6 DEF GuiInv, InputIsCurrent

LEMMA UpdateKeeps ==
    ASSUME GuiInv, update
    PROVE  GuiInv'
<1>0. UNCHANGED <<runningApp, alive, loaded, settings, touched, changes>>
  BY DEF update, sysVars
<1>1. CASE stack = <<>> /\ UNCHANGED stack /\ main' = "crash"
  BY <1>0, <1>1, SameGuis DEF GuiInv
<1>2. CASE stack # <<>> /\ Top.kind = "Fatal" /\ UNCHANGED stack
  <2>1. InputIsCurrent' /\ FatalOnTop'
    BY <1>2 DEF InputIsCurrent, FatalOnTop, Top, MenuKinds
  <2> QED BY <1>0, <1>2, <2>1 DEF GuiInv
<1>3. CASE
      /\ stack # <<>> /\ Top.kind \in MenuKinds
      /\ \E read \in Refreshed(Top) : \E asked \in Asks(Top) :
            stack' = Popped \o
                <<[Top EXCEPT !.app = read.app,
                              !.config = IF Top.kind = "Misc" /\ asked /\ alive /\ loaded
                                         THEN settings.config ELSE Top.config]>>
                \o FatalsOf(Top, read, asked)
  <2>1. PICK read \in Refreshed(Top), asked \in Asks(Top) :
            stack' = Popped \o
                <<[Top EXCEPT !.app = read.app,
                              !.config = IF Top.kind = "Misc" /\ asked /\ alive /\ loaded
                                         THEN settings.config ELSE Top.config]>>
                \o FatalsOf(Top, read, asked)
    BY <1>3
  <2> DEFINE n == Len(stack)
             g == [Top EXCEPT !.app = read.app,
                              !.config = IF Top.kind = "Misc" /\ asked /\ alive /\ loaded
                                         THEN settings.config ELSE Top.config]
             f == FatalsOf(Top, read, asked)
             s == [stack EXCEPT ![n] = g]
  <2>2. /\ n \in Nat \ {0} /\ n \in 1..n /\ Top \in Guis /\ Fits(stack, n) /\ StackOK(stack)
        /\ Top = stack[n]
    BY <1>3, TopOK DEF GuiInv, Top
  <2>3. read.app \in Titles /\ read.app # None
    BY <2>1, <2>2, NoneIsNone DEF Refreshed, Guis, GuiInv
  <2>4. g \in Guis
    BY <2>2, <2>3 DEF Guis, GuiInv, Held
  <2>5. /\ g.kind = Top.kind /\ g.owner = Top.owner /\ g.item = Top.item /\ g.title = Top.title
        /\ g.list = Top.list /\ g.app = read.app
        /\ g.kind = "AppProfile" => g.title \in Lists /\ g.list \in ListSet
        /\ g.kind = "Misc" => g.config \in ConfigSet
    BY <2>2 DEF Guis, Fits, GuiInv, Held
  <2>6. f \in Seq({Fatal})
    <3> HIDE DEF g, s
    <3>1. <<Fatal>> \in Seq({Fatal}) /\ <<>> \in Seq({Fatal})
      OBVIOUS
    <3>2. \A a, b, c \in Seq({Fatal}) : a \o b \o c \in Seq({Fatal})
      OBVIOUS
    <3>3. /\ (IF read.failed THEN <<Fatal>> ELSE <<>>) \in Seq({Fatal})
          /\ (IF Top.kind = "Misc" /\ asked /\ ~alive THEN <<Fatal>> ELSE <<>>) \in Seq({Fatal})
          /\ (IF ApplicationChanged(Top, read.app) THEN <<Fatal>> ELSE <<>>) \in Seq({Fatal})
      BY <3>1, Zenon
    <3> QED BY <3>2, <3>3, Zenon DEF FatalsOf
  <2>7. stack' = (Popped \o <<g>>) \o f
    BY <2>1
  <2> HIDE DEF n, g, f
  <2>8. /\ StackOK(s) /\ Len(s) = n /\ s[n] = g
        /\ \A j \in 1..n : j # n => s[j] = stack[j]
        /\ NoFatal(s) <=> NoFatal(stack)
    BY <2>2, <2>4, <2>5, ReplaceOK DEF n
  <2>9. Popped \o <<g>> = s
    <3>1. /\ StackOK(Popped) /\ Len(Popped) = n - 1
          /\ \A k \in 1..(n - 1) : Popped[k] = stack[k]
      BY <1>3, <2>2, PopOK DEF Popped, n
    <3>2. Popped \in Seq(Guis) /\ <<g>> \in Seq(Guis) /\ Len(<<g>>) = 1 /\ <<g>>[1] = g
      BY <2>4, <3>1 DEF StackOK
    <3> DEFINE p == Popped \o <<g>>
    <3>3. /\ p \in Seq(Guis) /\ Len(p) = (n - 1) + 1
          /\ \A i \in 1..((n - 1) + 1) : p[i] = IF i <= n - 1 THEN Popped[i] ELSE <<g>>[i - (n - 1)]
      BY <3>1, <3>2, ConcatProperties
    <3> HIDE DEF p, s
    <3>4. Len(p) = n /\ (n - 1) + 1 = n
      BY <2>2, <3>3
    <3>5. p[n] = g
      <4>1. n \in 1..n /\ ~(n <= n - 1) /\ n - (n - 1) = 1
        BY <2>2
      <4> QED BY <3>2, <3>3, <3>4, <4>1
    <3>6. ASSUME NEW i \in 1..n, i # n PROVE p[i] = s[i]
      <4>1. i \in 1..(n - 1) /\ i <= n - 1 /\ i \in 1..((n - 1) + 1)
        BY <2>2, <3>6
      <4>2. p[i] = Popped[i]
        BY <3>3, <4>1
      <4> QED BY <2>8, <3>1, <3>6, <4>1, <4>2
    <3>7. s \in Seq(Guis)
      BY <2>8 DEF StackOK
    <3>8. Len(s) = Len(p) /\ \A i \in 1..Len(p) : p[i] = s[i]
      BY <2>8, <3>4, <3>5, <3>6
    <3>9. p = s
      BY <3>3, <3>7, <3>8, SeqEqual
    <3> QED BY <3>9 DEF p
  <2> HIDE DEF s
  <2>10. stack' = s \o f
    BY <2>7, <2>9
  <2>11. /\ StackOK(stack') /\ Len(stack') = n + Len(f)
         /\ \A k \in 1..n : stack'[k] = s[k]
         /\ \A k \in (n + 1)..Len(stack') : stack'[k] = Fatal
    BY <2>6, <2>8, <2>10, PushFatalsOK
  <2>12. Len(f) \in Nat /\ (Len(f) = 0 <=> f = <<>>)
    BY <2>6
  <2>13. CASE f = <<>>
    <3>1. Len(stack') = n /\ Len(stack') # 0 /\ stack' # <<>> /\ stack'[n] = g
      BY <2>2, <2>8, <2>11, <2>12, <2>13
    <3>2. ~ApplicationChanged(Top, read.app)
      BY <2>13 DEF f, FatalsOf
    <3>3. InputIsCurrent'
      BY <2>3, <2>5, <3>1, <3>2 DEF InputIsCurrent, ApplicationChanged, Top
    <3>4. NoFatal(stack') <=> NoFatal(stack)
      BY <2>8, <2>11, <3>1 DEF NoFatal
    <3>5. FatalOnTop'
      BY <1>0, <1>3, <3>4 DEF GuiInv, FatalOnTop, MenuKinds
    <3>6. Fresh(stack', settings'.lists, touched')
      <4>1. \A k \in 1..n : /\ stack'[k].kind = stack[k].kind /\ stack'[k].list = stack[k].list
                            /\ stack'[k].title = stack[k].title
        BY <2>2, <2>5, <2>8, <2>11
      <4> QED BY <1>0, <3>1, <3>4, <4>1 DEF GuiInv, Fresh, n
    <3> QED BY <1>0, <2>11, <3>3, <3>5, <3>6 DEF GuiInv
  <2>14. CASE f # <<>>
    <3>1. Len(stack') \in (n + 1)..Len(stack') /\ Len(stack') \in 1..Len(stack')
      BY <2>2, <2>11, <2>12, <2>14
    <3>2. stack'[Len(stack')].kind = "Fatal" /\ ~NoFatal(stack')
      BY <2>11, <3>1, FatalIsGui DEF NoFatal
    <3>3. InputIsCurrent' /\ FatalOnTop' /\ Fresh(stack', settings'.lists, touched')
      BY <3>2 DEF InputIsCurrent, FatalOnTop, Fresh, Top, MenuKinds
    <3> QED BY <1>0, <2>11, <3>3 DEF GuiInv
  <2> QED BY <2>13, <2>14
<1> QED BY <1>1, <1>2, <1>3 DEF update

LEMMA OutsideKeeps ==
    ASSUME GuiInv, Outside
    PROVE  GuiInv'
<1>0. changes' \in 0..MaxChanges /\ UNCHANGED <<main, stack>>
  BY OverlayAssumption DEF Outside, StartApplication, SysmoduleExits, ConfigLoads, Changes, teslaVars,
       GuiInv
<1>1. CASE StartApplication
  <2>1. UNCHANGED <<stack, settings, touched, alive, loaded>> /\ runningApp' \in Titles
    BY <1>0, <1>1 DEF StartApplication
  <2> QED BY <1>0, <2>1, SameGuis DEF GuiInv
<1>2. CASE SysmoduleExits
  BY <1>0, <1>2, SameGuis DEF SysmoduleExits, GuiInv
<1>3. CASE ConfigLoads /\ UNCHANGED <<settings, touched>>
  <2>1. loaded' = TRUE /\ UNCHANGED <<runningApp, alive>>
    BY <1>3 DEF ConfigLoads
  <2> QED BY <1>0, <1>3, <2>1, SameGuis DEF GuiInv
<1>4. CASE ConfigLoads /\ ~UNCHANGED <<settings, touched>>
  <2>0. PICK t \in ShownLists, i \in Items : \E v \in ItemValues(i) :
            /\ settings' = [settings EXCEPT !.lists[t][i] = v]
            /\ touched' = touched \cup {<<t, i>>}
    BY <1>4 DEF ConfigLoads
  <2>1. PICK v \in ItemValues(i) :
            /\ settings' = [settings EXCEPT !.lists[t][i] = v]
            /\ touched' = touched \cup {<<t, i>>}
    BY <2>0
  <2>2. t \in Lists
    <3>1. \A k \in 1..Len(stack) : Fits(stack, k)
      BY DEF GuiInv, StackOK
    <3>2. DOMAIN stack = 1..Len(stack)
      BY DEF GuiInv, StackOK
    <3> QED BY <2>1, <3>1, <3>2 DEF ShownLists, Fits
  <2>3. settings.lists[t] \in ListSet /\ settings \in Held
    BY <2>2 DEF GuiInv, Held
  <2>4. [settings.lists[t] EXCEPT ![i] = v] \in ListSet
    <3>1. v \in Freqs \cup {0, 1}
      BY <2>1 DEF ItemValues
    <3> QED BY <2>1, <2>3, <3>1 DEF ListSet
  <2>5. settings' \in Held
    BY <2>1, <2>3, <2>4 DEF Held
  <2>6. \A u \in Lists : \A j \in Items :
            settings'.lists[u][j] # settings.lists[u][j] => u = t /\ j = i
    BY <2>1, <2>2, <2>3 DEF Held, ListSet
  <2>7. Fresh(stack', settings'.lists, touched')
    <3>1. SUFFICES ASSUME NoFatal(stack), NEW k \in 1..Len(stack), stack[k].kind = "AppProfile",
                          NEW j \in Items, stack[k].list[j] # settings'.lists[stack[k].title][j]
                   PROVE  <<stack[k].title, j>> \in touched'
      BY <1>0 DEF Fresh
    <3>2. stack[k].title \in Lists
      BY <3>1 DEF GuiInv, StackOK, Fits
    <3>3. CASE stack[k].list[j] # settings.lists[stack[k].title][j]
      BY <2>1, <3>1, <3>3 DEF GuiInv, Fresh
    <3>4. CASE stack[k].list[j] = settings.lists[stack[k].title][j]
      BY <2>1, <2>6, <3>1, <3>2, <3>4
    <3> QED BY <3>3, <3>4
  <2>8. InputIsCurrent'
    BY <1>0 DEF GuiInv, InputIsCurrent, Top
  <2>9. FatalOnTop'
    BY <1>0, <1>4 DEF GuiInv, FatalOnTop, Top, ConfigLoads
  <2> QED BY <1>0, <1>4, <2>5, <2>7, <2>8, <2>9 DEF GuiInv, ConfigLoads
<1> QED BY <1>1, <1>2, <1>3, <1>4 DEF Outside

(* Where the keys go.                                                      *)
LEMMA OnTop ==
    ASSUME GuiInv, NEW kind, On(kind)
    PROVE  /\ HandlesInput /\ stack # <<>> /\ StackOK(stack)
           /\ Len(stack) \in Nat \ {0} /\ Len(stack) \in 1..Len(stack)
           /\ Top = stack[Len(stack)] /\ Top \in Guis /\ Fits(stack, Len(stack))
           /\ Top.kind = kind
           /\ kind \in MenuKinds => Top.app \in Titles
  BY TopOK DEF GuiInv, On, Top, HandlesInput, InputIsCurrent, Guis

LEMMA AppendedAt ==
    ASSUME NEW s, StackOK(s), NEW g \in Guis
    PROVE  /\ Append(s, g)[Len(s) + 1] = g
           /\ \A k \in 1..Len(s) : Append(s, g)[k] = s[k]
           /\ Len(s) \in Nat
  BY AppendProperties DEF StackOK

LEMMA NoneBelow ==
    ASSUME GuiInv, alive, Top.kind # "Fatal"
    PROVE  NoFatal(stack)
  BY DEF GuiInv, FatalOnTop

LEMMA LeaveKeeps ==
    ASSUME GuiInv, NoKey \/ PressB \/ Dismiss \/ TouchOutside
    PROVE  GuiInv'
<1>0. /\ UNCHANGED <<runningApp, alive, loaded, settings, touched, changes>>
      /\ HandlesInput
  BY DEF NoKey, PressB, Dismiss, TouchOutside, Unsaved, sysVars, On
<1>1. CASE UNCHANGED stack
  <2>1. FatalOnTop'
    BY <1>0, <1>1 DEF GuiInv, FatalOnTop, Top
  <2> QED BY <1>0, <1>1, <2>1, KeyKeeps DEF GuiInv
<1>2. CASE PressB
  <2>1. PICK kind \in MenuKinds : On(kind)
    BY <1>2 DEF PressB
  <2>2. stack # <<>> /\ Top.kind # "Fatal" /\ Top = stack[Len(stack)]
    BY <2>1, OnTop DEF MenuKinds
  <2>3. stack' = SubSeq(stack, 1, Len(stack) - 1)
    BY <1>2 DEF PressB, goBack, Popped
  <2>4. /\ StackOK(stack') /\ (NoFatal(stack') <=> NoFatal(stack))
        /\ Fresh(stack', settings.lists, touched)
    BY <2>2, <2>3, PopKeeps DEF GuiInv
  <2>5. FatalOnTop'
    BY <1>0, <2>2, <2>4 DEF GuiInv, FatalOnTop
  <2> QED BY <1>0, <2>4, <2>5, KeyKeeps DEF GuiInv
<1>3. CASE Dismiss
  <2>1. stack' = <<>> /\ Len(stack') = 0
    BY <1>3 DEF Dismiss, goBackAll
  <2>2. StackOK(stack') /\ NoFatal(stack') /\ Fresh(stack', settings'.lists, touched')
    BY <2>1 DEF StackOK, NoFatal, Fresh
  <2>3. FatalOnTop'
    BY <2>2 DEF FatalOnTop
  <2> QED BY <1>0, <2>2, <2>3, KeyKeeps DEF GuiInv
<1> QED BY <1>1, <1>2, <1>3 DEF NoKey, TouchOutside

LEMMA OpenAppKeeps ==
    ASSUME GuiInv, openAppProfile
    PROVE  GuiInv'
<1>0. /\ UNCHANGED <<runningApp, alive, loaded, settings, changes>>
      /\ On("Main")
  BY DEF openAppProfile, sysVars
<1>1. /\ HandlesInput /\ StackOK(stack) /\ Len(stack) = 1 /\ Top.kind = "Main"
      /\ Top = stack[1] /\ Top.app \in Titles
  BY <1>0, OnTop DEF Fits, MenuKinds
<1>2. PICK title \in {Top.app, Global} :
        \/ /\ alive /\ loaded
           /\ changeTo([Gui("AppProfile") EXCEPT !.title = title, !.list = settings.lists[title],
                           !.governed = (title # Global /\ settings.config[GovernorOption] = 1)])
           /\ touched' = {}
        \/ /\ ~(alive /\ loaded)
           /\ changeTo(Fatal)
           /\ UNCHANGED touched
  BY DEF openAppProfile
<1>3. CASE /\ changeTo([Gui("AppProfile") EXCEPT !.title = title, !.list = settings.lists[title],
                           !.governed = (title # Global /\ settings.config[GovernorOption] = 1)])
           /\ alive
  <2> DEFINE g == [Gui("AppProfile") EXCEPT !.title = title, !.list = settings.lists[title],
                       !.governed = (title # Global /\ settings.config[GovernorOption] = 1)]
  <2>1. title \in Lists /\ settings.lists[title] \in ListSet
    BY <1>1 DEF Lists, GuiInv, Held
  <2>2. /\ g \in Guis /\ g.kind = "AppProfile" /\ g.title = title
        /\ g.list = settings.lists[title]
    <3>1. (title # Global /\ settings.config[GovernorOption] = 1) \in BOOLEAN
      OBVIOUS
    <3>2. Gui("AppProfile") \in Guis /\ Gui("AppProfile").kind = "AppProfile"
      BY GuiIsGui DEF Kinds, MenuKinds
    <3> QED BY <2>1, <3>1, <3>2 DEF Guis
  <2>3. stack' = Append(stack, g)
    BY <1>3 DEF changeTo
  <2> HIDE DEF g
  <2>4. Append(stack, g)[Len(stack) + 1] = g
    <3>1. StackOK(stack)
      BY <1>1
    <3> QED BY <2>2, <3>1, AppendedAt
  <2>5. Len(stack) + 1 = 2
    BY <1>1
  <2>6. Fits(Append(stack, g), Len(stack) + 1)
    BY <2>1, <2>2, <2>4, <2>5 DEF Fits
  <2>7. /\ StackOK(Append(stack, g)) /\ Len(Append(stack, g)) = Len(stack) + 1
        /\ Append(stack, g)[Len(stack) + 1] = g
        /\ \A k \in 1..Len(stack) : Append(stack, g)[k] = stack[k]
    BY <1>1, <2>2, <2>6, PushOK
  <2>8. StackOK(stack') /\ Len(stack') = 2 /\ stack'[2] = g /\ stack'[1] = stack[1]
    BY <1>1, <2>3, <2>7, <2>5
  <2>9. Fresh(stack', settings'.lists, touched')
    <3>1. \A k \in 1..Len(stack') : k = 1 \/ k = 2
      BY <2>8
    <3> QED BY <1>0, <1>1, <2>2, <2>8, <3>1 DEF Fresh
  <2>10. NoFatal(stack')
    BY <1>1, <2>2, <2>8 DEF NoFatal
  <2> QED BY <1>0, <1>1, <2>8, <2>9, <2>10, KeyKeeps DEF GuiInv, FatalOnTop
<1>4. CASE changeTo(Fatal)
  BY <1>0, <1>1, <1>4, PushFatalKeeps, KeyKeeps DEF GuiInv, changeTo
<1> QED BY <1>2, <1>3, <1>4

LEMMA OpenMenuKeeps ==
    ASSUME GuiInv, openMenu
    PROVE  GuiInv'
<1>0. /\ UNCHANGED <<runningApp, alive, loaded, settings, touched, changes>>
      /\ On("Main")
  BY DEF openMenu, Unsaved, sysVars
<1>1. /\ HandlesInput /\ StackOK(stack) /\ Len(stack) = 1 /\ Top.kind = "Main"
  BY <1>0, OnTop DEF Fits
<1>2. PICK g \in {Gui("Override"), [Gui("Misc") EXCEPT
                        !.config = IF alive /\ loaded THEN settings.config ELSE NoConfig]} :
        stack' = Append(stack, g)
  BY DEF openMenu, changeTo
<1>3. /\ g \in Guis /\ g.kind \in {"Override", "Misc"}
      /\ g.kind = "Misc" => g.config \in ConfigSet
  <2>1. \A kind \in {"Override", "Misc"} : Gui(kind) \in Guis /\ Gui(kind).kind = kind
    BY GuiIsGui DEF Kinds, MenuKinds
  <2>2. settings.config \in ConfigSet /\ NoConfig \in ConfigSet
    BY DEF GuiInv, Held, NoConfig, ConfigSet
  <2> QED BY <1>2, <2>1, <2>2 DEF Guis
<1>4. Append(stack, g)[Len(stack) + 1] = g
  BY <1>1, <1>3, AppendedAt
<1>5. Fits(Append(stack, g), Len(stack) + 1)
  BY <1>3, <1>4 DEF Fits
<1>6. /\ StackOK(stack') /\ (NoFatal(stack') <=> NoFatal(stack))
      /\ Fresh(stack', settings.lists, touched)
  BY <1>1, <1>2, <1>3, <1>5, PushKeeps DEF GuiInv
<1>7. FatalOnTop'
  BY <1>0, <1>1, <1>6 DEF GuiInv, FatalOnTop
<1> QED BY <1>0, <1>1, <1>6, <1>7, KeyKeeps DEF GuiInv

LEMMA OpenFreqKeeps ==
    ASSUME GuiInv, openFreqChoice
    PROVE  GuiInv'
<1>0. /\ UNCHANGED <<runningApp, alive, loaded, settings, touched, changes>>
      /\ On("Override") \/ On("AppProfile")
  BY DEF openFreqChoice, Unsaved, sysVars
<1>1. /\ HandlesInput /\ StackOK(stack) /\ stack # <<>> /\ Len(stack) \in Nat \ {0}
      /\ Top.kind \in {"Override", "AppProfile"} /\ Top = stack[Len(stack)]
  BY <1>0, OnTop
<1>2. PICK item \in IF Top.kind = "Override" THEN Modules ELSE Fields :
        stack' = stack \o (IF alive THEN <<>> ELSE <<Fatal>>)
                       \o <<[Gui("FreqChoice") EXCEPT !.item = item, !.owner = Len(stack)]>>
  BY DEF openFreqChoice
<1> DEFINE g == [Gui("FreqChoice") EXCEPT !.item = item, !.owner = Len(stack)]
           s == IF alive THEN stack ELSE Append(stack, Fatal)
<1>3. g \in Guis /\ g.kind = "FreqChoice" /\ g.item = item /\ g.owner = Len(stack)
  <2>1. Gui("FreqChoice") \in Guis /\ Gui("FreqChoice").kind = "FreqChoice"
    BY GuiIsGui DEF Kinds, MenuKinds
  <2> QED BY <1>1, <1>2, <2>1 DEF Guis
<1>4. stack' = (stack \o (IF alive THEN <<>> ELSE <<Fatal>>)) \o <<g>>
  BY <1>2
<1> HIDE DEF g
<1>5. /\ StackOK(s) /\ Len(stack) \in 1..Len(s) /\ s[Len(stack)] = Top
      /\ alive => (NoFatal(s) <=> NoFatal(stack))
      /\ Fresh(s, settings.lists, touched)
      /\ s = stack \o (IF alive THEN <<>> ELSE <<Fatal>>)
  <2>1. CASE alive
    BY <1>1, <2>1, ConcatEmptySeq DEF GuiInv, StackOK
  <2>2. CASE ~alive
    <3>1. StackOK(s) /\ ~NoFatal(s)
      BY <1>1, <2>2, PushFatalOK
    <3>2. Len(s) = Len(stack) + 1 /\ s[Len(stack)] = Top
      BY <1>1, <2>2, FatalIsGui DEF StackOK
    <3>3. s = stack \o <<Fatal>>
      BY <1>1, <2>2, FatalIsGui, AppendIsConcat DEF StackOK
    <3> QED BY <1>1, <2>2, <3>1, <3>2, <3>3 DEF Fresh
  <2> QED BY <2>1, <2>2
<1> HIDE DEF s
<1>6. stack' = Append(s, g)
  BY <1>3, <1>4, <1>5, AppendIsConcat DEF StackOK
<1>7. /\ Append(s, g)[Len(s) + 1] = g
      /\ \A k \in 1..Len(s) : Append(s, g)[k] = s[k]
      /\ Len(s) \in Nat
  BY <1>3, <1>5 DEF StackOK
<1>8. Fits(Append(s, g), Len(s) + 1)
  <2>1. g.owner \in 1..((Len(s) + 1) - 1)
    BY <1>3, <1>5, <1>7
  <2>2. Append(s, g)[g.owner] = Top
    BY <1>3, <1>5, <1>7
  <2> QED BY <1>1, <1>2, <1>3, <1>7, <2>1, <2>2 DEF Fits
<1>9. /\ StackOK(stack') /\ (NoFatal(stack') <=> NoFatal(s))
      /\ Fresh(stack', settings.lists, touched)
  BY <1>3, <1>5, <1>6, <1>8, PushKeeps
<1>10. FatalOnTop'
  BY <1>0, <1>1, <1>5, <1>9 DEF GuiInv, FatalOnTop
<1> QED BY <1>0, <1>1, <1>9, <1>10, KeyKeeps DEF GuiInv

(***************************************************************************)
(* The listeners.                                                          *)
(***************************************************************************)
LEMMA ChangesOK ==
    ASSUME GuiInv, Changes PROVE changes' \in 0..MaxChanges
  BY OverlayAssumption DEF GuiInv, Changes

LEMMA PickOverrideKeeps ==
    ASSUME GuiInv, pickOverride
    PROVE  GuiInv'
<1>0. /\ UNCHANGED <<runningApp, alive, loaded, touched>> /\ changes' \in 0..MaxChanges
      /\ On("FreqChoice") /\ stack[Top.owner].kind = "Override"
  BY ChangesOK DEF pickOverride
<1>1. /\ HandlesInput /\ StackOK(stack) /\ stack # <<>> /\ Top.kind = "FreqChoice"
      /\ Top = stack[Len(stack)] /\ Fits(stack, Len(stack))
  BY <1>0, OnTop
<1>2. PICK freq \in Freqs \cup {0} :
        \/ /\ alive
           /\ settings' = [settings EXCEPT !.override[Top.item] = freq]
           /\ goBack
        \/ /\ ~alive /\ changeTo(Fatal)
           /\ UNCHANGED settings
  BY DEF pickOverride
<1>3. CASE alive /\ settings' = [settings EXCEPT !.override[Top.item] = freq] /\ goBack
  <2>1. Top.item \in Modules
    BY <1>0, <1>1 DEF Fits
  <2>2. settings' \in Held /\ settings'.lists = settings.lists
    BY <1>2, <1>3, <2>1 DEF GuiInv, Held
  <2>3. stack' = SubSeq(stack, 1, Len(stack) - 1)
    BY <1>3 DEF goBack, Popped
  <2>4. /\ StackOK(stack') /\ (NoFatal(stack') <=> NoFatal(stack))
        /\ Fresh(stack', settings'.lists, touched')
    BY <1>0, <1>1, <2>2, <2>3, PopKeeps DEF GuiInv
  <2>5. FatalOnTop'
    BY <1>0, <1>1, <2>4 DEF GuiInv, FatalOnTop
  <2> QED BY <1>0, <1>1, <2>2, <2>4, <2>5, KeyKeeps
<1>4. CASE changeTo(Fatal) /\ UNCHANGED settings
  BY <1>0, <1>1, <1>4, PushFatalKeeps, KeyKeeps DEF GuiInv, changeTo
<1> QED BY <1>2, <1>3, <1>4

(* The GUI that gets the choice.                                           *)
LEMMA PickIsEdit ==
    ASSUME GuiInv, On("FreqChoice"), stack[Top.owner].kind = "AppProfile",
           NEW freq \in Freqs \cup {0}
    PROVE  LET o == Top.owner
               g == [stack[o] EXCEPT !.list = [@ EXCEPT ![Top.item] = freq]] IN
           /\ o \in 1..(Len(stack) - 1) /\ o \in 1..Len(stack) /\ o # Len(stack)
           /\ Top.item \in Fields /\ stack[o].title \in Lists /\ stack[o].list \in ListSet
           /\ WithItem(o, Top.item, freq) = [stack EXCEPT ![o] = g]
           /\ g \in Guis /\ g.list \in ListSet /\ g.title = stack[o].title
           /\ g.kind = "AppProfile" /\ g.owner = stack[o].owner /\ g.item = stack[o].item
           /\ g.list = [stack[o].list EXCEPT ![Top.item] = freq]
<1> DEFINE o == Top.owner
           l == [stack[o].list EXCEPT ![Top.item] = freq]
           g == [stack[o] EXCEPT !.list = [@ EXCEPT ![Top.item] = freq]]
<1>1. /\ StackOK(stack) /\ Top.kind = "FreqChoice" /\ Len(stack) \in Nat \ {0}
      /\ Top = stack[Len(stack)] /\ Fits(stack, Len(stack))
  BY OnTop
<1>2. o \in 1..(Len(stack) - 1) /\ Top.item \in Fields
  BY <1>1 DEF Fits
<1>3. o \in 1..Len(stack) /\ o # Len(stack)
  BY <1>1, <1>2
<1>4. stack[o] \in Guis /\ stack[o].title \in Lists /\ stack[o].list \in ListSet
  BY <1>1, <1>3 DEF StackOK, Fits
<1>5. l \in ListSet
  BY <1>2, <1>4 DEF ListSet, Items, ItemValues
<1>6. /\ g \in Guis /\ g.list = l /\ g.title = stack[o].title
      /\ g.kind = "AppProfile" /\ g.owner = stack[o].owner /\ g.item = stack[o].item
  BY <1>4, <1>5 DEF Guis
<1>7. WithItem(o, Top.item, freq) = [stack EXCEPT ![o] = g]
  BY DEF WithItem
<1> QED BY <1>2, <1>3, <1>4, <1>5, <1>6, <1>7

LEMMA PickProfileKeeps ==
    ASSUME GuiInv, pickProfile
    PROVE  GuiInv'
<1>0. /\ UNCHANGED <<runningApp, alive, loaded, touched>> /\ changes' \in 0..MaxChanges
      /\ On("FreqChoice") /\ stack[Top.owner].kind = "AppProfile"
  BY ChangesOK DEF pickProfile
<1>1. /\ HandlesInput /\ StackOK(stack) /\ stack # <<>> /\ Top.kind = "FreqChoice"
      /\ Top = stack[Len(stack)] /\ Len(stack) \in Nat \ {0}
  BY <1>0, OnTop
<1>2. PICK freq \in Freqs \cup {0} : \E saved \in Replies(alive /\ loaded) :
        LET edited == WithItem(Top.owner, Top.item, freq) IN
        \/ /\ saved
           /\ settings' = [settings EXCEPT !.lists[edited[Top.owner].title] = edited[Top.owner].list]
           /\ stack' = SubSeq(edited, 1, Len(edited) - 1)
        \/ /\ ~saved
           /\ stack' = Append(edited, Fatal)
           /\ UNCHANGED settings
  BY DEF pickProfile
<1> DEFINE o == Top.owner
           g == [stack[o] EXCEPT !.list = [@ EXCEPT ![Top.item] = freq]]
           edited == WithItem(o, Top.item, freq)
<1>3. /\ o \in 1..(Len(stack) - 1) /\ o \in 1..Len(stack) /\ o # Len(stack)
      /\ edited = [stack EXCEPT ![o] = g]
      /\ g \in Guis /\ g.list \in ListSet /\ g.title = stack[o].title /\ g.title \in Lists
      /\ g.kind = stack[o].kind /\ g.owner = stack[o].owner /\ g.item = stack[o].item
      /\ g.kind = "AppProfile"
  BY <1>0, PickIsEdit
<1>4. \/ /\ alive
         /\ settings' = [settings EXCEPT !.lists[edited[o].title] = edited[o].list]
         /\ stack' = SubSeq(edited, 1, Len(edited) - 1)
      \/ /\ stack' = Append(edited, Fatal)
         /\ UNCHANGED settings
  BY <1>2 DEF Replies
<1> HIDE DEF g, o
<1>5. /\ StackOK(edited) /\ Len(edited) = Len(stack) /\ edited[o] = g
      /\ \A j \in 1..Len(stack) : j # o => edited[j] = stack[j]
      /\ NoFatal(edited) <=> NoFatal(stack)
  <2> HIDE DEF edited
  <2>1. g.kind = "AppProfile" => g.title \in Lists /\ g.list \in ListSet
    BY <1>3
  <2>2. g.kind = "Misc" => g.config \in ConfigSet
    BY <1>3
  <2>3. StackOK(stack) /\ o \in 1..Len(stack) /\ g \in Guis
    BY <1>1, <1>3
  <2>4. g.kind = stack[o].kind /\ g.owner = stack[o].owner /\ g.item = stack[o].item
    BY <1>3
  <2>5. edited = [stack EXCEPT ![o] = g]
    BY <1>3
  <2>6. /\ StackOK([stack EXCEPT ![o] = g])
        /\ Len([stack EXCEPT ![o] = g]) = Len(stack)
        /\ [stack EXCEPT ![o] = g][o] = g
        /\ \A j \in 1..Len(stack) : j # o => [stack EXCEPT ![o] = g][j] = stack[j]
        /\ NoFatal([stack EXCEPT ![o] = g]) <=> NoFatal(stack)
    BY <2>1, <2>2, <2>3, <2>4, ReplaceOK
  <2> QED BY <2>5, <2>6, Zenon
<1> HIDE DEF edited
<1>6. CASE /\ alive
           /\ settings' = [settings EXCEPT !.lists[edited[o].title] = edited[o].list]
           /\ stack' = SubSeq(edited, 1, Len(edited) - 1)
  <2>1. settings' \in Held
    BY <1>3, <1>5, <1>6 DEF GuiInv, Held
  <2>2. settings'.lists = [settings.lists EXCEPT ![g.title] = g.list]
    BY <1>5, <1>6 DEF GuiInv, Held
  <2>3. \A k \in 1..Len(edited) : edited[k].kind = "AppProfile" => k = o
    <3>1. o = 2
      BY <1>3, <1>5 DEF StackOK, Fits
    <3> QED BY <1>5, <3>1 DEF StackOK, Fits
  <2>4. Fresh(edited, settings'.lists, touched')
    <3>1. settings'.lists[g.title] = g.list
      BY <1>3, <2>2 DEF GuiInv, Held
    <3> QED BY <1>5, <2>3, <3>1 DEF Fresh
  <2>5. edited # <<>> /\ edited[Len(edited)].kind = "FreqChoice"
    <3>1. edited[Len(stack)] = stack[Len(stack)]
      BY <1>1, <1>3, <1>5
    <3>2. edited # <<>>
      BY <1>1, <1>5
    <3> QED BY <1>1, <1>5, <3>1, <3>2
  <2>6. /\ StackOK(stack') /\ (NoFatal(stack') <=> NoFatal(edited))
        /\ Fresh(stack', settings'.lists, touched')
    BY <1>5, <1>6, <2>4, <2>5, PopKeeps
  <2>7. FatalOnTop'
    BY <1>1, <1>5, <1>6, <2>6, NoneBelow DEF FatalOnTop
  <2> QED BY <1>0, <1>1, <2>1, <2>6, <2>7, KeyKeeps
<1>7. CASE stack' = Append(edited, Fatal) /\ UNCHANGED settings
  BY <1>0, <1>1, <1>5, <1>7, PushFatalKeeps, KeyKeeps DEF GuiInv
<1> QED BY <1>4, <1>6, <1>7

(* The listener of the governor's toggles.                                 *)
LEMMA ToggleIsEdit ==
    ASSUME GuiInv, On("AppProfile"), NEW module \in Governors
    PROVE  LET n == Len(stack)
               l == [Top.list EXCEPT ![module] = 1 - @]
               g == [Top EXCEPT !.list = l] IN
           /\ n = 2 /\ Top.title \in Lists /\ Top.list \in ListSet /\ Top.kind = "AppProfile"
           /\ [stack EXCEPT ![n].list = ToggleGovernor(@, module)] = [stack EXCEPT ![n] = g]
           /\ g \in Guis /\ g.list = l /\ l \in ListSet /\ g.title = Top.title
           /\ g.kind = Top.kind /\ g.owner = Top.owner /\ g.item = Top.item
<1> DEFINE n == Len(stack)
           l == [Top.list EXCEPT ![module] = 1 - @]
           g == [Top EXCEPT !.list = l]
<1>1. /\ StackOK(stack) /\ Top.kind = "AppProfile" /\ Top = stack[n] /\ Top \in Guis
      /\ Fits(stack, n)
  BY OnTop
<1>2. n = 2 /\ Top.title \in Lists /\ Top.list \in ListSet
  BY <1>1 DEF Fits
<1>3. l \in ListSet
  <2>1. module \notin Fields /\ module \in Items
    BY OverlayAssumption DEF Items
  <2>2. Top.list[module] \in {0, 1}
    BY <1>2, <2>1 DEF ListSet, ItemValues
  <2>3. 1 - Top.list[module] \in {0, 1}
    BY <2>2
  <2> QED BY <1>2, <2>1, <2>3 DEF ListSet, ItemValues
<1>4. /\ g \in Guis /\ g.list = l /\ g.title = Top.title
      /\ g.kind = Top.kind /\ g.owner = Top.owner /\ g.item = Top.item
  BY <1>1, <1>3 DEF Guis
<1>5. [stack EXCEPT ![n].list = ToggleGovernor(@, module)] = [stack EXCEPT ![n] = g]
  BY <1>1 DEF ToggleGovernor
<1> QED BY <1>1, <1>2, <1>3, <1>4, <1>5

LEMMA ToggleGovernorKeeps ==
    ASSUME GuiInv, toggleGovernor
    PROVE  GuiInv'
<1>0. /\ UNCHANGED <<runningApp, alive, loaded, touched>> /\ changes' \in 0..MaxChanges
      /\ On("AppProfile")
  BY ChangesOK DEF toggleGovernor
<1>1. /\ HandlesInput /\ StackOK(stack) /\ stack # <<>> /\ Top = stack[Len(stack)]
      /\ Len(stack) \in 1..Len(stack)
  BY <1>0, OnTop
<1>2. PICK module \in Governors : \E saved \in Replies(alive /\ loaded) :
        LET edited == [stack EXCEPT ![Len(stack)].list = ToggleGovernor(@, module)] IN
        \/ /\ saved
           /\ settings' = [settings EXCEPT !.lists[Top.title] = edited[Len(edited)].list]
           /\ stack' = edited
        \/ /\ ~saved
           /\ stack' = Append(edited, Fatal)
           /\ UNCHANGED settings
  BY DEF toggleGovernor
<1> DEFINE n == Len(stack)
           l == [Top.list EXCEPT ![module] = 1 - @]
           g == [Top EXCEPT !.list = l]
           edited == [stack EXCEPT ![n].list = ToggleGovernor(@, module)]
<1>3. /\ n = 2 /\ Top.title \in Lists /\ edited = [stack EXCEPT ![n] = g]
      /\ g \in Guis /\ g.list \in ListSet /\ g.title = Top.title
      /\ g.kind = Top.kind /\ g.owner = Top.owner /\ g.item = Top.item /\ Top.kind = "AppProfile"
  BY <1>0, ToggleIsEdit
<1>4. \/ /\ alive
         /\ settings' = [settings EXCEPT !.lists[Top.title] = edited[Len(edited)].list]
         /\ stack' = edited
      \/ /\ stack' = Append(edited, Fatal)
         /\ UNCHANGED settings
  BY <1>2 DEF Replies
<1> HIDE DEF g, l, edited
<1>5. /\ StackOK(edited) /\ Len(edited) = n /\ edited[n] = g
      /\ \A j \in 1..n : j # n => edited[j] = stack[j]
      /\ NoFatal(edited) <=> NoFatal(stack)
  <2>1. g.kind = stack[n].kind /\ g.owner = stack[n].owner /\ g.item = stack[n].item
    BY <1>1, <1>3
  <2>2. g.kind = "AppProfile" => g.title \in Lists /\ g.list \in ListSet
    BY <1>1, <1>3
  <2>3. g.kind = "Misc" => g.config \in ConfigSet
    BY <1>1, <1>3
  <2>4. edited = [stack EXCEPT ![n] = g]
    BY <1>3
  <2>5. StackOK(stack) /\ n \in 1..Len(stack) /\ g \in Guis
    BY <1>1, <1>3
  <2> HIDE DEF edited
  <2>6. /\ StackOK([stack EXCEPT ![n] = g])
        /\ Len([stack EXCEPT ![n] = g]) = Len(stack)
        /\ [stack EXCEPT ![n] = g][n] = g
        /\ \A j \in 1..Len(stack) : j # n => [stack EXCEPT ![n] = g][j] = stack[j]
        /\ NoFatal([stack EXCEPT ![n] = g]) <=> NoFatal(stack)
    BY <2>1, <2>2, <2>3, <2>5, ReplaceOK
  <2> QED BY <2>4, <2>6, Zenon
<1>6. CASE /\ alive
           /\ settings' = [settings EXCEPT !.lists[Top.title] = edited[Len(edited)].list]
           /\ stack' = edited
  <2>1. settings' \in Held
    BY <1>3, <1>5, <1>6 DEF GuiInv, Held
  <2>2. settings'.lists[g.title] = g.list
    BY <1>3, <1>5, <1>6 DEF GuiInv, Held
  <2>3. \A k \in 1..Len(edited) : edited[k].kind = "AppProfile" => k = n
    BY <1>3, <1>5 DEF StackOK, Fits
  <2>4. Fresh(stack', settings'.lists, touched')
    BY <1>5, <1>6, <2>2, <2>3 DEF Fresh
  <2>5. FatalOnTop'
    BY <1>3, <1>5, <1>6, NoneBelow DEF FatalOnTop
  <2> QED BY <1>0, <1>1, <1>5, <1>6, <2>1, <2>4, <2>5, KeyKeeps
<1>7. CASE stack' = Append(edited, Fatal) /\ UNCHANGED settings
  BY <1>0, <1>1, <1>5, <1>7, PushFatalKeeps, KeyKeeps DEF GuiInv
<1> QED BY <1>4, <1>6, <1>7

LEMMA ToggleKeeps ==
    ASSUME GuiInv, toggleEnabled \/ setChargingDisabled
    PROVE  GuiInv'
<1>0. /\ UNCHANGED <<runningApp, alive, loaded, touched>> /\ changes' \in 0..MaxChanges
      /\ On("Main") \/ On("Misc")
  BY ChangesOK DEF toggleEnabled, setChargingDisabled
<1>1. HandlesInput /\ StackOK(stack)
  BY <1>0, OnTop
<1>2. \/ /\ UNCHANGED stack
         /\ settings' \in {[settings EXCEPT !.enabled = ~@], [settings EXCEPT !.noCharge = ~@]}
      \/ changeTo(Fatal) /\ UNCHANGED settings
  BY DEF toggleEnabled, setChargingDisabled
<1>3. CASE /\ UNCHANGED stack
           /\ settings' \in {[settings EXCEPT !.enabled = ~@], [settings EXCEPT !.noCharge = ~@]}
  <2>1. settings' \in Held /\ settings'.lists = settings.lists
    <3>1. (~settings.enabled) \in BOOLEAN /\ (~settings.noCharge) \in BOOLEAN
      BY Zenon
    <3> QED BY <1>3, <3>1 DEF GuiInv, Held
  <2>2. FatalOnTop'
    BY <1>0, <1>3 DEF GuiInv, FatalOnTop, Top
  <2> QED BY <1>0, <1>1, <1>3, <2>1, <2>2, KeyKeeps DEF GuiInv
<1>4. CASE changeTo(Fatal) /\ UNCHANGED settings
  BY <1>0, <1>1, <1>4, PushFatalKeeps, KeyKeeps DEF GuiInv, changeTo
<1> QED BY <1>2, <1>3, <1>4

LEMMA SetConfigKeeps ==
    ASSUME GuiInv, setConfigValue
    PROVE  GuiInv'
<1>0. /\ UNCHANGED <<runningApp, alive, loaded, touched>> /\ changes' \in 0..MaxChanges
      /\ On("Misc")
  BY ChangesOK DEF setConfigValue
<1>1. /\ HandlesInput /\ StackOK(stack) /\ stack # <<>> /\ Top = stack[Len(stack)]
      /\ Len(stack) \in 1..Len(stack) /\ Top.kind = "Misc" /\ Top \in Guis
      /\ Fits(stack, Len(stack))
  BY <1>0, OnTop
<1>2. PICK opt \in Options : \E saved \in Replies(alive /\ loaded) :
        LET toggled == [stack EXCEPT ![Len(stack)].config[opt] = 1 - @] IN
        \/ /\ saved
           /\ settings' = [settings EXCEPT !.config = toggled[Len(stack)].config]
           /\ stack' = toggled
        \/ /\ ~saved
           /\ stack' = Append(toggled, Fatal)
           /\ UNCHANGED settings
  BY DEF setConfigValue
<1> DEFINE n == Len(stack)
           c == [Top.config EXCEPT ![opt] = 1 - @]
           g == [Top EXCEPT !.config = c]
           toggled == [stack EXCEPT ![n].config[opt] = 1 - @]
<1>3. c \in ConfigSet
  <2>1. Top.config \in ConfigSet
    BY <1>1 DEF Fits
  <2>2. 1 - Top.config[opt] \in {0, 1}
    BY <2>1 DEF ConfigSet
  <2> QED BY <2>1, <2>2 DEF ConfigSet
<1>4. /\ g \in Guis /\ g.config = c /\ g.kind = Top.kind /\ g.owner = Top.owner
      /\ g.item = Top.item /\ g.list = Top.list /\ g.title = Top.title
  BY <1>1, <1>3 DEF Guis
<1>5. toggled = [stack EXCEPT ![n] = g]
  BY <1>1
<1>6. \/ /\ alive
         /\ settings' = [settings EXCEPT !.config = toggled[n].config]
         /\ stack' = toggled
      \/ /\ stack' = Append(toggled, Fatal)
         /\ UNCHANGED settings
  BY <1>2 DEF Replies
<1> HIDE DEF c, g, toggled
<1>7. /\ StackOK(toggled) /\ Len(toggled) = n /\ toggled[n] = g
      /\ \A j \in 1..n : j # n => toggled[j] = stack[j]
      /\ NoFatal(toggled) <=> NoFatal(stack)
  <2>1. g.kind = stack[n].kind /\ g.owner = stack[n].owner /\ g.item = stack[n].item
    BY <1>1, <1>3, <1>4
  <2>2. g.kind = "AppProfile" => g.title \in Lists /\ g.list \in ListSet
    BY <1>1, <1>3, <1>4
  <2>3. g.kind = "Misc" => g.config \in ConfigSet
    BY <1>1, <1>3, <1>4
  <2>4. toggled = [stack EXCEPT ![n] = g]
    BY <1>5
  <2>5. StackOK(stack) /\ n \in 1..Len(stack) /\ g \in Guis
    BY <1>1, <1>3, <1>4
  <2> HIDE DEF toggled
  <2>6. /\ StackOK([stack EXCEPT ![n] = g])
        /\ Len([stack EXCEPT ![n] = g]) = Len(stack)
        /\ [stack EXCEPT ![n] = g][n] = g
        /\ \A j \in 1..Len(stack) : j # n => [stack EXCEPT ![n] = g][j] = stack[j]
        /\ NoFatal([stack EXCEPT ![n] = g]) <=> NoFatal(stack)
    BY <2>1, <2>2, <2>3, <2>5, ReplaceOK
  <2> QED BY <2>4, <2>6, Zenon
<1>8. CASE /\ alive
           /\ settings' = [settings EXCEPT !.config = toggled[n].config]
           /\ stack' = toggled
  <2>1. settings' \in Held /\ settings'.lists = settings.lists
    BY <1>3, <1>4, <1>7, <1>8 DEF GuiInv, Held
  <2>2. Fresh(stack', settings'.lists, touched')
    <3>1. \A k \in 1..n : /\ toggled[k].kind = stack[k].kind /\ toggled[k].list = stack[k].list
                          /\ toggled[k].title = stack[k].title
      BY <1>1, <1>4, <1>7
    <3> QED BY <1>0, <1>7, <1>8, <2>1, <3>1 DEF GuiInv, Fresh
  <2>3. FatalOnTop'
    BY <1>1, <1>7, <1>8, NoneBelow DEF FatalOnTop
  <2> QED BY <1>0, <1>1, <1>7, <1>8, <2>1, <2>2, <2>3, KeyKeeps
<1>9. CASE stack' = Append(toggled, Fatal) /\ UNCHANGED settings
  BY <1>0, <1>1, <1>7, <1>9, PushFatalKeeps, KeyKeeps DEF GuiInv
<1> QED BY <1>6, <1>8, <1>9

LEMMA GuiStep ==
    ASSUME GuiInv, [OverlayNext]_vars
    PROVE  GuiInv'
<1>1. CASE UNCHANGED vars
  BY <1>1, SameGuis DEF vars, teslaVars, sysVars, GuiInv
<1>2. CASE handleInput
  BY <1>2, LeaveKeeps, OpenAppKeeps, OpenMenuKeeps, OpenFreqKeeps, PickOverrideKeeps,
     PickProfileKeeps, ToggleGovernorKeeps, ToggleKeeps, SetConfigKeeps DEF handleInput
<1> QED BY <1>1, <1>2, TeslaKeeps, LoadKeeps, UpdateKeeps, OutsideKeeps DEF OverlayNext

-----------------------------------------------------------------------------
(***************************************************************************)
(* The theorems.                                                           *)
(***************************************************************************)
LEMMA FadeAlways == OverlaySpec => []FadeInv
<1>1. OverlayInit => FadeInv
  BY FadeInit
<1>2. FadeInv /\ [OverlayNext]_vars => FadeInv'
  BY FadeStep
<1> QED BY <1>1, <1>2, PTL DEF OverlaySpec

LEMMA GuiAlways == OverlaySpec => []GuiInv
<1>1. OverlayInit => GuiInv
  BY GuiInit
<1>2. GuiInv /\ [OverlayNext]_vars => GuiInv'
  BY GuiStep
<1> QED BY <1>1, <1>2, PTL DEF OverlaySpec

(* The loop, the GUIs and the sysmodule's settings keep their types: the   *)
(* u8 that counts the frames of a fade never wraps, and the GUI a listener *)
(* belongs to is on the stack as long as the listener's.                   *)
THEOREM OverlayTyped == OverlaySpec => []OverlayTypeOK
<1>1. FadeInv /\ GuiInv => OverlayTypeOK
  <2> SUFFICES ASSUME FadeInv, GuiInv PROVE OverlayTypeOK
    OBVIOUS
  <2>1. \A t \in Lists : \A i \in Items : settings.lists[t][i] \in ItemValues(i)
    BY DEF GuiInv, Held, ListSet
  <2>2. settings.config \in [Options -> {0, 1}]
    BY DEF GuiInv, Held, ConfigSet
  <2>3. ASSUME NEW k \in DOMAIN stack
        PROVE  LET gui == stack[k] IN
               /\ gui.kind \in MenuKinds \cup {"Fatal"}
               /\ gui.kind = "AppProfile" => /\ gui.title \in Lists
                                             /\ \A i \in Items : gui.list[i] \in ItemValues(i)
               /\ gui.kind = "FreqChoice" => /\ gui.owner \in 1..(k - 1)
                                             /\ stack[gui.owner].kind \in {"Override", "AppProfile"}
               /\ gui.kind = "Misc" => gui.config \in [Options -> {0, 1}]
    <3>1. k \in 1..Len(stack) /\ stack[k] \in Guis /\ Fits(stack, k)
      BY <2>3 DEF GuiInv, StackOK
    <3>2. stack[k].kind \in Kinds
      BY <3>1 DEF Guis
    <3> QED BY <3>1, <3>2 DEF Fits, Kinds, ListSet, ConfigSet
  <2> QED BY <2>1, <2>2, <2>3 DEF FadeInv, GuiInv, OverlayTypeOK
<1> QED BY <1>1, FadeAlways, GuiAlways, PTL

(* No key reaches a GUI that has not read the context its handlers         *)
(* dereference, nor the profile of an application that has gone.           *)
THEOREM InputIsCurrentHolds == OverlaySpec => []InputIsCurrent
<1>1. GuiInv => InputIsCurrent
  BY DEF GuiInv
<1> QED BY <1>1, GuiAlways, PTL

(* A set without two elements.                                             *)
LEMMA AtMostOne ==
    ASSUME NEW S, NEW x, S \subseteq {x}
    PROVE  Cardinality(S) <= 1
<1>1. IsFiniteSet({x}) /\ Cardinality({x}) = 1
  BY FS_Singleton
<1>2. Cardinality(S) <= Cardinality({x})
  BY <1>1, FS_Subset
<1> QED BY <1>1, <1>2

LEMMA ListsStay ==
    ASSUME GuiInv, [OverlayNext]_vars, main # main', settings'.lists # settings.lists
    PROVE  pickProfile \/ toggleGovernor
<1> SUFFICES ASSUME ~pickProfile, ~toggleGovernor PROVE FALSE
  OBVIOUS
<1>1. ~UNCHANGED settings /\ ~UNCHANGED main
  OBVIOUS
<1>2. handleInput
  BY <1>1 DEF OverlayNext, Tesla, loadInitialGui, update, Outside, StartApplication, SysmoduleExits,
     ConfigLoads, vars, sysVars, teslaVars
<1>3. pickOverride \/ toggleEnabled \/ setConfigValue \/ setChargingDisabled
  BY <1>1, <1>2 DEF handleInput, NoKey, PressB, Dismiss, TouchOutside, openAppProfile, openMenu,
     openFreqChoice, Unsaved, sysVars
<1>4. settings \in Held
  BY DEF GuiInv
<1> QED BY <1>1, <1>3, <1>4 DEF pickOverride, toggleEnabled, setConfigValue, setChargingDisabled, Held

(* A choice in the overlay, which writes a whole list from a copy that may *)
(* be old, changes one item of one title's list and at most what was       *)
(* edited behind it, whatever saves have failed before.                    *)
THEOREM EditsOneItemHolds == OverlaySpec => EditsOneItem
<1> DEFINE Step == \A t \in Lists : main # main' /\ Edited(t) # {} =>
        LET written == {i \in Edited(t) : <<t, i>> \notin touched} IN
        /\ \E k \in DOMAIN stack : stack[k].kind = "AppProfile" /\ stack[k].title = t
        /\ IF Top.kind = "FreqChoice" THEN written \subseteq {Top.item}
           ELSE written \subseteq Governors /\ Cardinality(written) <= 1
<1>1. GuiInv /\ [OverlayNext]_vars => Step
  <2> SUFFICES ASSUME GuiInv, [OverlayNext]_vars,
                      NEW t \in Lists, main # main', Edited(t) # {}
               PROVE  LET written == {i \in Edited(t) : <<t, i>> \notin touched} IN
                      /\ \E k \in DOMAIN stack :
                            stack[k].kind = "AppProfile" /\ stack[k].title = t
                      /\ IF Top.kind = "FreqChoice" THEN written \subseteq {Top.item}
                         ELSE written \subseteq Governors /\ Cardinality(written) <= 1
    OBVIOUS
  <2> DEFINE written == {i \in Edited(t) : <<t, i>> \notin touched}
  <2>1. PICK i0 \in Items : settings'.lists[t][i0] # settings.lists[t][i0]
    BY DEF Edited
  <2>2. pickProfile \/ toggleGovernor
    BY <2>1, ListsStay
  <2>3. CASE pickProfile
    <3>1. On("FreqChoice") /\ stack[Top.owner].kind = "AppProfile"
      BY <2>3 DEF pickProfile
    <3>2. PICK freq \in Freqs \cup {0} : \E saved \in Replies(alive /\ loaded) :
        LET edited == WithItem(Top.owner, Top.item, freq) IN
        \/ /\ saved
           /\ settings' = [settings EXCEPT !.lists[edited[Top.owner].title] = edited[Top.owner].list]
        \/ /\ ~saved
           /\ UNCHANGED settings
      BY <2>3 DEF pickProfile
    <3> DEFINE o == Top.owner
               g == [stack[o] EXCEPT !.list = [@ EXCEPT ![Top.item] = freq]]
    <3>3. /\ o \in 1..Len(stack) /\ Top.item \in Fields
          /\ stack[o].title \in Lists /\ stack[o].list \in ListSet
          /\ WithItem(o, Top.item, freq) = [stack EXCEPT ![o] = g]
          /\ g.title = stack[o].title
          /\ g.list = [stack[o].list EXCEPT ![Top.item] = freq]
      BY <3>1, PickIsEdit
    <3>4. DOMAIN stack = 1..Len(stack) /\ Top.kind = "FreqChoice"
      BY <3>1, OnTop DEF StackOK
    <3>5. /\ alive
          /\ settings' = [settings EXCEPT !.lists[WithItem(o, Top.item, freq)[o].title] =
                                                  WithItem(o, Top.item, freq)[o].list]
      BY <2>1, <3>2 DEF Replies
    <3> HIDE DEF g, o
    <3>6. WithItem(o, Top.item, freq)[o] = g
      BY <3>3, <3>4
    <3>7. settings'.lists = [settings.lists EXCEPT ![g.title] = g.list] /\ settings \in Held
      BY <3>5, <3>6 DEF GuiInv, Held
    <3>8. t = g.title
      BY <2>1, <3>3, <3>7 DEF Held
    <3>9. ASSUME NEW i \in Edited(t), i # Top.item PROVE <<t, i>> \in touched
      <4>1. i \in Items /\ g.list[i] # settings.lists[t][i]
        BY <3>7, <3>8, <3>9 DEF Edited, Held
      <4>2. stack[o].list[i] # settings.lists[stack[o].title][i]
        BY <3>3, <3>8, <3>9, <4>1 DEF ListSet
      <4>3. NoFatal(stack)
        BY <3>4, <3>5, NoneBelow
      <4>4. stack[o].kind = "AppProfile"
        BY <3>1 DEF o
      <4> QED BY <3>3, <3>8, <4>1, <4>2, <4>3, <4>4 DEF GuiInv, Fresh
    <3>10. written \subseteq {Top.item}
      BY <3>9
    <3>11. stack[o].kind = "AppProfile" /\ stack[o].title = t /\ o \in DOMAIN stack
      BY <3>1, <3>3, <3>4, <3>8 DEF o
    <3> QED BY <3>4, <3>10, <3>11
  <2>4. CASE toggleGovernor
    <3>1. On("AppProfile")
      BY <2>4 DEF toggleGovernor
    <3>2. PICK module \in Governors : \E saved \in Replies(alive /\ loaded) :
        LET edited == [stack EXCEPT ![Len(stack)].list = ToggleGovernor(@, module)] IN
        \/ /\ saved
           /\ settings' = [settings EXCEPT !.lists[Top.title] = edited[Len(edited)].list]
        \/ /\ ~saved
           /\ UNCHANGED settings
      BY <2>4 DEF toggleGovernor
    <3> DEFINE n == Len(stack)
               l == [Top.list EXCEPT ![module] = 1 - @]
               g == [Top EXCEPT !.list = l]
               edited == [stack EXCEPT ![n].list = ToggleGovernor(@, module)]
    <3>3. /\ n = 2 /\ Top.title \in Lists /\ Top.list \in ListSet /\ Top.kind = "AppProfile"
          /\ edited = [stack EXCEPT ![n] = g] /\ g.list = l
      BY <3>1, ToggleIsEdit
    <3>4. /\ alive
          /\ settings' = [settings EXCEPT !.lists[Top.title] = edited[Len(edited)].list]
      BY <2>1, <3>2 DEF Replies
    <3>5. StackOK(stack) /\ Top = stack[n] /\ n \in 1..n
      BY <3>1, OnTop
    <3> HIDE DEF g, l, edited
    <3>6. Len(edited) = n /\ edited[n] = g
      BY <3>3, <3>5 DEF StackOK
    <3>7. settings'.lists = [settings.lists EXCEPT ![Top.title] = l] /\ settings \in Held
      BY <3>3, <3>4, <3>6 DEF GuiInv, Held
    <3>8. t = Top.title
      BY <2>1, <3>3, <3>7 DEF Held
    <3>9. ASSUME NEW i \in Edited(t), i # module PROVE <<t, i>> \in touched
      <4>1. i \in Items /\ l[i] # settings.lists[t][i]
        BY <3>7, <3>8, <3>9 DEF Edited, Held
      <4>2. Top.list[i] # settings.lists[Top.title][i]
        BY <3>3, <3>8, <3>9, <4>1 DEF l, ListSet
      <4>3. NoFatal(stack)
        BY <3>3, <3>4, NoneBelow
      <4> QED BY <3>3, <3>5, <3>8, <4>1, <4>2, <4>3 DEF GuiInv, Fresh
    <3>10. written \subseteq {module}
      BY <3>9
    <3>11. Cardinality(written) <= 1 /\ written \subseteq Governors
      BY <3>2, <3>10, AtMostOne
    <3>12. n \in DOMAIN stack /\ stack[n].kind = "AppProfile" /\ stack[n].title = t
      BY <3>3, <3>5, <3>8 DEF StackOK
    <3> QED BY <3>3, <3>11, <3>12
  <2> QED BY <2>2, <2>3, <2>4
<1>2. GuiInv /\ [OverlayNext]_vars => [Step]_vars
  BY <1>1
<1>3. EditsOneItem <=> [][Step]_vars
  BY DEF EditsOneItem
<1> QED BY <1>2, <1>3, GuiAlways, PTL DEF OverlaySpec
=============================================================================
