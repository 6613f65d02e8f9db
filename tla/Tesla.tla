------------------------------- MODULE Tesla --------------------------------
(***************************************************************************)
(* The loop of an overlay (overlay/lib/tesla/include/tesla.hpp): the thread*)
(* of tsl::loop, which waits for the key combination and then draws frames *)
(* until the overlay is hidden or closed, and backgroundEventPoller, which *)
(* hides it.  The two share the flags of the fade and overlayOpen without  *)
(* a lock; only the keys, and what the poller does for the combination,    *)
(* are under dataMutex.                                                    *)
(*                                                                         *)
(* What the keys do in a GUI is left to the module that has the GUIs: it   *)
(* takes the steps at "start", "update" and "input".                       *)
(***************************************************************************)
EXTENDS Integers, Sequences

CONSTANT
    FadeSteps       \* frames of a fade, 5 in the code

ASSUME FadeAssumption == FadeSteps \in 1..254

VARIABLES
    main,           \* where the thread of tsl::loop is
    stack,          \* m_guiStack
    running, overlayOpen, comboEvent,                   \* of SharedThreadData
    fadeIn, fadeOut, counter, shouldHide, shouldClose,  \* m_... of Overlay
    disableNextAnimation,
    poller          \* where backgroundEventPoller is

fade == <<fadeIn, fadeOut, counter, shouldHide, disableNextAnimation>>
shared == <<running, overlayOpen, comboEvent>>
teslaVars == <<main, stack, shared, fade, shouldClose, poller>>

\* With --skipCombo the overlay shows at once, without fading in.
TeslaInit ==
    /\ main = "start" /\ stack = <<>>
    /\ running = TRUE /\ overlayOpen = FALSE /\ comboEvent \in BOOLEAN
    /\ fadeIn = TRUE /\ fadeOut = FALSE /\ counter = 0
    /\ shouldHide = FALSE /\ shouldClose = FALSE
    /\ disableNextAnimation = comboEvent
    /\ poller = "idle"

fadeAnimationPlaying == fadeIn \/ fadeOut
Locked == poller \in {"combo", "comboCounter", "comboClosed"}

(***************************************************************************)
(* The frames.                                                             *)
(***************************************************************************)
WaitForCombo ==
    /\ main = "wait" /\ comboEvent
    /\ comboEvent' = FALSE /\ overlayOpen' = TRUE
    /\ main' = "opened"
    /\ UNCHANGED <<stack, running, fade, shouldClose, poller>>

show ==
    /\ main = "opened" /\ main' = "animate"
    /\ \/ /\ disableNextAnimation
          /\ counter' = FadeSteps /\ disableNextAnimation' = FALSE
          /\ UNCHANGED fadeIn
       \/ /\ ~disableNextAnimation
          /\ fadeIn' = TRUE /\ counter' = 0
          /\ UNCHANGED disableNextAnimation
    /\ UNCHANGED <<stack, shared, fadeOut, shouldHide, shouldClose, poller>>

\* The counter is a u8.
Faded == IF fadeIn THEN counter + 1 ELSE counter
FadedOut == IF fadeOut THEN (Faded - 1) % 256 ELSE Faded

\* Mutant: the end of a fade hides the overlay only while it counts as open.
HideWhileOpen ==
    /\ main = "animate" /\ main' = "update"
    /\ counter' = FadedOut
    /\ fadeIn' = (fadeIn /\ Faded < FadeSteps)
    /\ fadeOut' = (fadeOut /\ FadedOut # 0)
    /\ shouldHide' = (shouldHide \/ (fadeOut /\ overlayOpen /\ FadedOut = 0))
    /\ UNCHANGED <<stack, shared, shouldClose, disableNextAnimation, poller>>

animationLoop ==
    /\ main = "animate" /\ main' = "update"
    /\ counter' = FadedOut
    /\ fadeIn' = (fadeIn /\ Faded < FadeSteps)
    /\ fadeOut' = (fadeOut /\ FadedOut # 0)
    /\ shouldHide' = (shouldHide \/ (fadeOut /\ FadedOut = 0))
    /\ UNCHANGED <<stack, shared, shouldClose, disableNextAnimation, poller>>

(* After the input: hiding is looked at before closing, and resetFlags     *)
(* forgets both.                                                           *)
EndOfFrame ==
    /\ main = "check"
    /\ main' = IF shouldHide \/ shouldClose THEN "leave" ELSE "animate"
    /\ running' = (running /\ (shouldHide \/ ~shouldClose))
    /\ UNCHANGED <<stack, overlayOpen, comboEvent, fade, shouldClose, poller>>

resetFlags ==
    /\ main = "leave" /\ main' = "clear"
    /\ shouldHide' = FALSE /\ shouldClose' = FALSE
    /\ overlayOpen' = FALSE
    /\ UNCHANGED <<stack, running, comboEvent, fadeIn, fadeOut, counter,
                   disableNextAnimation, poller>>

ClearCombo ==
    /\ main = "clear"
    /\ main' = IF running THEN "wait" ELSE "join"
    /\ comboEvent' = FALSE
    /\ UNCHANGED <<stack, running, overlayOpen, fade, shouldClose, poller>>

JoinPoller ==
    /\ main = "join" /\ poller = "idle"
    /\ main' = "done"
    /\ UNCHANGED <<stack, shared, fade, shouldClose, poller>>

TeslaMain ==
    WaitForCombo \/ show \/ animationLoop \/ EndOfFrame \/ resetFlags \/ ClearCombo \/ JoinPoller

(***************************************************************************)
(* What a GUI does to the stack and the overlay.                           *)
(***************************************************************************)
changeTo(gui) == stack' = Append(stack, gui) /\ UNCHANGED shouldClose

Popped == SubSeq(stack, 1, Len(stack) - 1)

goBack ==
    /\ stack' = Popped
    /\ shouldClose' = (shouldClose \/ Popped = <<>>)

goBackAll == stack' = <<>> /\ shouldClose' = TRUE

\* Overlay::hide by the thread of the loop.
hide ==
    IF disableNextAnimation
    THEN counter' = 0 /\ disableNextAnimation' = FALSE /\ UNCHANGED <<fadeIn, fadeOut, shouldHide>>
    ELSE counter' = FadeSteps /\ fadeOut' = TRUE
         /\ UNCHANGED <<fadeIn, shouldHide, disableNextAnimation>>

(***************************************************************************)
(* backgroundEventPoller.  hide, called from here, is several writes, with *)
(* dataMutex held for the combination and without it for the home and the  *)
(* power button.                                                           *)
(***************************************************************************)
Polling == poller = "idle" /\ running /\ main # "start"

PressCombo ==
    /\ Polling
    /\ \/ /\ overlayOpen /\ poller' = "combo" /\ UNCHANGED comboEvent
       \/ /\ ~overlayOpen /\ comboEvent' = TRUE /\ UNCHANGED poller
    /\ UNCHANGED <<main, stack, running, overlayOpen, fade, shouldClose>>

PressHome ==
    /\ Polling /\ overlayOpen
    /\ poller' = "home"
    /\ UNCHANGED <<main, stack, shared, fade, shouldClose>>

PollerHide(from, next, closed) ==
    /\ poller = from
    /\ \/ /\ disableNextAnimation
          /\ counter' = 0 /\ disableNextAnimation' = FALSE
          /\ poller' = closed
          /\ UNCHANGED fadeOut
       \/ /\ ~disableNextAnimation
          /\ fadeOut' = TRUE
          /\ poller' = next
          /\ UNCHANGED <<counter, disableNextAnimation>>
    /\ UNCHANGED <<main, stack, shared, fadeIn, shouldHide, shouldClose>>

\* animationLoop, which counts without a lock, may overwrite the counter with
\* what it makes of the value from before.
PollerCounter(from, next) ==
    /\ poller = from
    /\ counter' = FadeSteps \/ (main = "animate" /\ UNCHANGED counter)
    /\ poller' = next
    /\ UNCHANGED <<main, stack, shared, fadeIn, fadeOut, shouldHide,
                   disableNextAnimation, shouldClose>>

PollerClosed(from) ==
    /\ poller = from
    /\ overlayOpen' = FALSE
    /\ poller' = "idle"
    /\ UNCHANGED <<main, stack, running, comboEvent, fade, shouldClose>>

PollerHides ==
    \/ PollerHide("combo", "comboCounter", "comboClosed")
    \/ PollerCounter("comboCounter", "comboClosed")
    \/ PollerClosed("comboClosed")
    \/ PollerHide("home", "homeCounter", "homeClosed")
    \/ PollerCounter("homeCounter", "homeClosed")
    \/ PollerClosed("homeClosed")

-----------------------------------------------------------------------------
(* Type invariant of the loop.  The counter never wraps.                   *)
TeslaTypeOK ==
    /\ main \in {"start", "wait", "opened", "animate", "update", "input", "check",
                 "leave", "clear", "join", "done", "crash"}
    /\ counter \in 0..(FadeSteps + 1)
    /\ poller \in {"idle", "combo", "comboCounter", "comboClosed",
                   "home", "homeCounter", "homeClosed"}
    /\ running \in BOOLEAN /\ overlayOpen \in BOOLEAN /\ comboEvent \in BOOLEAN
    /\ fadeIn \in BOOLEAN /\ fadeOut \in BOOLEAN
    /\ shouldHide \in BOOLEAN /\ shouldClose \in BOOLEAN
    /\ disableNextAnimation \in BOOLEAN

Shown == main \in {"animate", "update", "input", "check"}

(* A fade out is under way when its counter has been set or no fade in is  *)
(* left to count against it.                                               *)
FadesOut == fadeOut /\ (fadeIn => counter = FadeSteps)

(* An overlay that fades out while it shows does go away, whichever of the *)
(* two threads told it to and wherever the other one was.  One that the    *)
(* poller hides in the middle of a fade in may never get that far: when    *)
(* the poller's write of the counter is lost, every later frame counts one *)
(* up and one down, and no key is handled during a fade.                   *)
HideCompletes == (FadesOut /\ Shown /\ stack # <<>>) ~> (main \in {"wait", "join", "done"})
=============================================================================
