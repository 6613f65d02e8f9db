----------------------------- MODULE MCHomebrew -----------------------------
(* The two programs one starts from the homebrew menu, one at a time.      *)
(* MemTesterNX on a small memory: one byte per word, two words per half of *)
(* a worker's memory, and one for the last worker's.  TinyMemBenchNX with  *)
(* its three workers and the sizes of the code, and four repetitions for   *)
(* ten: from the third on they may be given up.                            *)
EXTENDS MemTester, TinyMemBench
Fault(c, k, b) == [cell |-> c, kind |-> k, bits |-> b]
SomeFaults == {Fault(0, "stuck0", {b}) : b \in {0, 5}}
              \cup {Fault(1, "stuck1", {b}) : b \in {3, 7}}
              \cup {Fault(0, "short", s) : s \in {{3, 4}, {3, 5}, {0, 7}}}

VARIABLE app    \* the program that runs

HomebrewInit == app \in {"MemTesterNX", "TinyMemBenchNX"} /\ Init /\ BenchInit
HomebrewNext ==
    \/ app = "MemTesterNX" /\ Next /\ UNCHANGED <<app, benchVars>>
    \/ app = "TinyMemBenchNX" /\ BenchNext /\ UNCHANGED <<app, vars>>
HomebrewSpec ==
    /\ HomebrewInit /\ [][HomebrewNext]_<<app, vars, benchVars>>
    /\ WF_vars(Main) /\ \A w \in Threads : WF_vars(Worker(w))
    /\ BenchFairness
=============================================================================
