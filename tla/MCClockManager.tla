--------------------------- MODULE MCClockManager ---------------------------
(***************************************************************************)
(* Small consoles for TLC.  The tables are excerpts of the real ones that  *)
(* keep every frequency the code names.                                    *)
(***************************************************************************)
EXTENDS ClockManager

CONSTANTS
    MaxEvents,   \* how often anyone but the tick thread may act
    FirstFiles   \* what the file's titles may have at the start

VARIABLES
    events,      \* how often they have
    said         \* the mode ReverseNX-RT has sent for the running application

mcVars == <<vars, events, said>>

MCInit ==
    /\ file \in FirstFiles
    /\ Init
    /\ events = 0 /\ said = "NotFound"

Tick == TickThread /\ UNCHANGED <<events, said>>

(* The profiles of another application than the game are left as they are. *)
MCNext ==
    \/ Tick
    \/ Terminated /\ UNCHANGED <<events, said>>
    \/ /\ events < MaxEvents
       /\ events' = events + 1
       /\ \/ /\ Ipc
             /\ said' = IF m_rt_mode' # m_rt_mode THEN m_rt_mode' ELSE said
          \/ /\ Console
             /\ said' = IF runningApp' # runningApp THEN "NotFound" ELSE said
          \/ GovernorThreads /\ UNCHANGED said
       /\ \A t \in Apps \ {"game"} : file'.profiles[t] = file.profiles[t]

MCSpec == MCInit /\ [][MCNext]_mcVars /\ WF_mcVars(Tick)

(* The same: Tick is enabled until its thread has left main's loop.  TLC   *)
(* recognises a step sooner than it decides whether there is one.          *)
TickingSpec ==
    /\ MCInit /\ [][MCNext]_mcVars
    /\ []<><<TickStep>>_<<pc, module>> \/ <>(pc = "exited")

(* sys-clk's README: "Sync nominal profile (mode) with ReverseNX (-Tool    *)
(* and -RT)".  A mode ReverseNX-RT sends while an application runs ends up *)
(* in the nominal profile.                                                 *)
NominalProfileSyncs ==
    AtRest => <>[](SavedValues.SyncReverseNXMode /\ said # "NotFound" /\ pc # "exited"
                   => profile = NominalProfile(said))

EristaTable == [m \in {"CPU", "GPU", "MEM"} |->
    CASE m = "CPU" -> <<6120, 10200, 17850, 20910>>
      [] m = "GPU" -> <<768, 3840, 4608, 7680, 9216, 9984>>
      [] m = "MEM" -> <<13312, 16000, 18624>>]

MarikoTable == [m \in {"CPU", "GPU", "MEM"} |->
    CASE m = "CPU" -> <<6120, 10200, 17850, 19635>>
      [] m = "GPU" -> <<768, 3840, 4608, 7680, 9984>>
      [] m = "MEM" -> <<13312, 16000, 19968>>]

List(f, governor) ==
    [mhzMap |-> [p \in Profiles |-> [m \in Modules |->
        IF <<p, m>> \in DOMAIN f THEN f[<<p, m>>] ELSE 0]],
     governorConfig |-> governor]

Both == {"CPU", "GPU"}
None == List(<<>>, Both)

(* A title that asks for more than any cap when docked or charging.        *)
Hot == List([x \in {<<"Docked", "CPU">>, <<"Docked", "GPU">>,
                    <<"HandheldCharging", "GPU">>, <<"Handheld", "GPU">>} |->
                IF x[2] = "CPU" THEN 2091 ELSE 998], Both)

(* Wishes for the same clocks that a title and the global profile differ   *)
(* in, one of them a memory clock above 1600 MHz.                          *)
Title == List([x \in {<<"Handheld", "MEM">>, <<"Handheld", "GPU">>, <<"Docked", "CPU">>} |->
                CASE x[2] = "MEM" -> 1700 [] x[2] = "GPU" -> 384 [] OTHER -> 1224], {"GPU"})
Global == List([x \in {<<"Handheld", "MEM">>, <<"HandheldCharging", "GPU">>, <<"Docked", "CPU">>} |->
                CASE x[2] = "MEM" -> 1331 [] x[2] = "GPU" -> 768 [] OTHER -> 612], Both)
TitleGlobal == {None, Title, Global}
NoneHot     == {None, Hot}
JustNone    == {None}

Default  == DefaultValues
Unsafe   == [Default EXCEPT !.AllowUnsafeFrequencies = TRUE, !.ChargingLimitPercentage = 0]
Boosting == [Default EXCEPT !.AutoCPUBoost = TRUE]
Roaming  == [Default EXCEPT !.GovernorExperimental = TRUE, !.GovernorHandheldOnly = TRUE,
                            !.ChargingLimitPercentage = 0]
Limited  == [Default EXCEPT !.ChargingLimitPercentage = 80, !.SyncReverseNXMode = FALSE]

JustDefault    == {Default}
UnsafeBoosting == {Default, Unsafe, Boosting}
Mixed          == {Default, Roaming, Limited}

(* A console that has been in use for a while.                             *)
Used == [profiles |-> [t \in Tids |-> CASE t = "game" -> Title
                                        [] t = GLOBAL_TID -> Global [] OTHER -> None],
         values |-> Roaming]
JustUsed == {Used}
AnyFile  == [profiles : [Tids -> ProfileLists], values : ValueLists]

Handheld == <<FALSE, "Unconnected">>
Official == <<FALSE, "EnoughPower">>
Dock     == <<TRUE, "EnoughPower">>
HandheldDock     == {Handheld, Dock}
HandheldOfficial == {Handheld, Official}

NoTool       == [a \in Apps |-> "NotFound"]
HandheldGame == [a \in Apps |-> IF a = "game" THEN "Handheld" ELSE "NotFound"]
=============================================================================
