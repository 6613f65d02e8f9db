----------------------------- MODULE ClockOwner -----------------------------
(***************************************************************************)
(* What the clock manager takes the governor for: the owner of the modules *)
(* it was given last.  It sets their clocks, to clocks a range, a table or *)
(* a boost names.  While it is told of another set of modules it may set   *)
(* those of either; when it has been told, one call that was under way may *)
(* still reach a module it has just lost, and no call reaches any once it  *)
(* has lost them all.  Module Governor implements this with a thread per   *)
(* core, a manager thread and no lock; the actions GovernorStep,           *)
(* LateGovernorStep and SetGovernorConfig of ClockManager are Set, SetLate *)
(* and SetConfig with Return.                                              *)
(***************************************************************************)
CONSTANTS
    Governable,   \* the modules a governor may own
    Targets,      \* per module, the clocks it may be set to by its owner
    StockClocks   \* per module, the clocks anybody else may set it to

VARIABLES
    hw,           \* the clocks
    config,       \* the modules the owner was given last
    busy,         \* TRUE while it is being told
    owned,        \* the modules whose clocks it decides on
    late          \* the module that is not its own and that it may yet set

Init ==
    /\ hw \in [Governable -> UNION {StockClocks[m] : m \in Governable}]
    /\ config = {} /\ busy = FALSE
    /\ owned = {} /\ late = {}

(* A module that is given up may have a call under way, and only one has.  *)
OneLate ==
    /\ late' \subseteq (late \cup owned) \ owned'
    /\ \A m, n \in late' : m = n

(* The threads for a module that is no longer the owner's end.             *)
LetGo == config' \subseteq owned' /\ owned' \subseteq owned /\ OneLate

(* Governor::SetConfig and the destructor, which leaves it no module.      *)
SetConfig(c) ==
    /\ ~busy /\ busy'
    /\ config' = c
    /\ c \subseteq owned' /\ owned' \subseteq owned \cup c
    /\ OneLate
    /\ UNCHANGED hw

Release == busy /\ LetGo /\ UNCHANGED <<hw, config, busy>>

(* They return.                                                            *)
Return ==
    /\ busy /\ ~busy'
    /\ owned' = config /\ LetGo
    /\ config = {} => late' = {}
    /\ UNCHANGED <<hw, config>>

(* BaseGovernor::ApplyTargetFreq, which may be the last call of a thread.  *)
Set(m, hz) ==
    /\ m \in owned
    /\ hw' = [hw EXCEPT ![m] = hz]
    /\ LetGo
    /\ UNCHANGED <<config, busy>>

SetLate(m, hz) ==
    /\ m \in late
    /\ hw' = [hw EXCEPT ![m] = hz]
    /\ late' = {}
    /\ UNCHANGED <<config, busy, owned>>

(* The clock manager, or apm.                                              *)
Reset ==
    /\ \E m \in Governable : \E hz \in StockClocks[m] : hw' = [hw EXCEPT ![m] = hz]
    /\ UNCHANGED <<config, busy, owned, late>>

Next ==
    \/ \E c \in SUBSET Governable : SetConfig(c)
    \/ Release \/ Return \/ Reset
    \/ \E m \in Governable : \E hz \in Targets[m] : Set(m, hz) \/ SetLate(m, hz)

Spec == Init /\ [][Next]_<<hw, config, busy, owned, late>>
=============================================================================
