----------------------------- MODULE MCGovernor -----------------------------
(***************************************************************************)
(* A small governor for TLC: the system core and one other, short tables.  *)
(***************************************************************************)
EXTENDS Governor

CONSTANT MaxEvents   \* how often the threads' surroundings may act
VARIABLE events      \* how often they have

MCInit ==
    /\ Init
    /\ load["CPU"] = load["GPU"]
    /\ auto_boost = workerRunning
    /\ m_perf_conf_id # "none"
    /\ events = 0

MCNext ==
    \/ Threads /\ UNCHANGED events
    \/ events < MaxEvents /\ events' = events + 1 /\ Environment

mcVars == <<vars, events>>
MCSpec == MCInit /\ [][MCNext]_mcVars /\ Fairness

Table == [m \in {"CPU", "GPU", "MEM"} |->
    CASE m = "CPU" -> <<6120, 10200, 17850>>
      [] m = "GPU" -> <<768, 3840, 7680>>
      [] m = "MEM" -> <<16000>>]

Range == [m \in {"CPU", "GPU"} |-> IF m = "CPU" THEN {17850} ELSE {7680}]
=============================================================================
