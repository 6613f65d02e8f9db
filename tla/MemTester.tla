----------------------------- MODULE MemTester -----------------------------
(***************************************************************************)
(* MemTesterNX (Source/MemTesterNX): a main thread that hands one test     *)
(* after the other to the worker threads through testJobId, collects their *)
(* answers from testWorkerReport, and stops at the first error.            *)
(*                                                                         *)
(* The contents of memory are kept for one worker, watched, whose first    *)
(* half may hold one faulty word; the memory of the other workers is good, *)
(* and no test fails on good memory (checked with fault = Good).  A word   *)
(* has WordBits bits, and sizes are in words, so sizeof(ul) is 1.          *)
(***************************************************************************)
EXTENDS Integers, FiniteSets, SequencesExt, Bitwise

CONSTANTS
    Heap, Ram,       \* the first address and the size of the heap
    Header,          \* what malloc() takes for itself in front of a block
    pagesize,
    wantbytes_orig,  \* 2048 MB
    AlmostAll,       \* 2047 MB
    WordBits,        \* UL_LEN
    Rands,           \* what rand_ul() may return
    Faults,          \* the faults the watched memory may have
    FrameCoversPoll  \* a consoleUpdate() lasts longer than a worker's sleep

Good == [cell |-> -1, kind |-> "good", bits |-> {}]

ASSUME MemAssumption ==
    /\ {Heap, Ram, Header} \subseteq Nat
    /\ {pagesize, wantbytes_orig, AlmostAll, WordBits} \subseteq Nat \ {0}
    /\ Heap + Ram < 2^WordBits
    /\ Rands \subseteq 0..(2^WordBits - 1) /\ FrameCoversPoll \in BOOLEAN
    /\ \A f \in Faults : f.bits \subseteq 0..(WordBits - 1) /\ f.cell \in Nat

VARIABLES
    phase,      \* what main() is doing
    dividend,   \* 1 for the long test, 4 for the fast one, 16 for the stress test
    wantbytes,  \* the blocks main() has, by size, in the order it got them
    leaked,     \* what is still taken when it divides the memory
    testThreads, totalmem,
    job,        \* the test main() is at, -1 for the stuck-address test
    next,       \* the worker the loop over j is at
    testJobId, testWorkerReport,
    at,         \* of each worker: "unready", "working" or "returned"
    current,    \* its currentJobId
    fault, watched,
    mem         \* the watched worker's two halves

division == <<wantbytes, leaked, testThreads, totalmem>>
vars == <<phase, dividend, division, job, next, testJobId, testWorkerReport, at, current,
          fault, watched, mem>>

Threads == 0..3     \* the arrays have four places
Workers == 0..(testThreads - 1)

(***************************************************************************)
(* How main() divides the memory.  Nothing is freed before all of it is,   *)
(* so the heap is its first free place; a block malloc() does not have is  *)
(* asked for again with a page less.                                       *)
(***************************************************************************)
FirstFit(want, used) ==
    Max({0} \cup {n \in 1..want : (want - n) % pagesize = 0 /\ used + Header + n <= Ram})
Taken(blocks) == FoldLeft(LAMBDA sum, n : sum + n + Header, 0, blocks)

\* What is in use before the workers' blocks: a stack for each and for keyListener.
BeforeShares == leaked + (testThreads + 1) * pagesize
Share(w) == IF testThreads = 4 THEN (IF w # 3 THEN totalmem \div 3 ELSE 2047)
            ELSE totalmem \div testThreads

buf(w) == Heap + BeforeShares + Taken(SubSeq(wantbytes, 1, w)) + Header
aligned(w) == buf(w) + ((-buf(w)) % pagesize)
\* A size_t, as wide as a word.
bufsize(w) == (wantbytes[w + 1] - (aligned(w) - buf(w))) % 2^WordBits

Base == aligned(watched)
Count == bufsize(watched) \div 2
Cells == 0..(Count - 1)
Ones == 2^WordBits - 1
Word == 0..Ones

tests == <<"random_value", "xor", "sub", "mul", "div", "or", "and", "seqinc",
           "solidbits", "blockseq", "checkerboard", "bitspread", "bitflip",
           "walkbits1", "walkbits0">>
stress_tests == <<"stress_memcpy", "stress_memset", "stress_memcmp">>
test_select == IF dividend = 16 THEN stress_tests ELSE tests

-----------------------------------------------------------------------------
(* What a word of the first half holds after v was written to it: a stuck  *)
(* bit keeps its value, two shorted bits both read as the lower of them.   *)
Bit(v, b) == (v \div 2^b) % 2
WithBit(v, b, x) == v + (x - Bit(v, b)) * 2^b
Held(i, v) ==
    IF fault.cell # i THEN v
    ELSE CASE fault.kind = "stuck0" -> WithBit(v, CHOOSE b \in fault.bits : TRUE, 0)
           [] fault.kind = "stuck1" -> WithBit(v, CHOOSE b \in fault.bits : TRUE, 1)
           [] OTHER -> IF \A b \in fault.bits : Bit(v, b) = 1 THEN v
                       ELSE v - (v & (LET b == CHOOSE b \in fault.bits : TRUE
                                          c == CHOOSE c \in fault.bits : c # b
                                      IN  2^b + 2^c))

Stored(p) == [a |-> [i \in Cells |-> Held(i, p[i])], b |-> p]

\* Mutant: only the last pair of words decides.
compare_last(m) == m.a[Count - 1] = m.b[Count - 1]
compare_regions(m) == \A i \in Cells : m.a[i] = m.b[i]

-----------------------------------------------------------------------------
(* The patterns a test writes to both halves, each compared before the     *)
(* next; r holds the random words it draws.  A shift by WordBits or more   *)
(* is undefined: wraps says whether this build takes it modulo WordBits,   *)
(* as the AArch64 instruction does, or folds it to 0.                      *)
Loops(n) == 1..((n \div dividend) \div dividend)
Alternating(q) == [i \in Cells |-> IF i % 2 = 0 THEN q ELSE Ones - q]
Uniform(q) == [i \in Cells |-> q]
Shl(n, wraps) == IF n < WordBits THEN 2^n ELSE IF wraps THEN 2^(n % WordBits) ELSE 0
\* The bit that walks up and down again, in the loop's round j + 1.
Walk(j) == IF j < WordBits THEN j ELSE 2 * WordBits - j - 1

seqinc(q) == <<[i \in Cells |-> (i + q) % 2^WordBits]>>
solidbits == [k \in Loops(64) |-> Alternating(IF k % 2 = 1 THEN Ones ELSE 0)]
checkerboard1 == (Ones * 1) \div 3
checkerboard == [k \in Loops(64) |->
    Alternating(IF k % 2 = 1 THEN checkerboard1 ELSE Ones - checkerboard1)]
blockseq == [k \in Loops(64) |-> Uniform((k - 1) % 2^WordBits)]
walkbits0 == [k \in Loops(2 * WordBits) |-> Uniform(2^Walk(k - 1))]
walkbits1 == [k \in Loops(2 * WordBits) |-> Uniform(Ones - 2^Walk(k - 1))]
bitspread(wraps) == [k \in Loops(2 * WordBits) |->
    Alternating(Shl(Walk(k - 1), wraps) | Shl(Walk(k - 1) + 2, wraps))]
bitflip == [n \in 1..(8 * Cardinality(Loops(WordBits))) |->
    LET q == 2^((n - 1) \div 8) IN Alternating(IF n % 2 = 1 THEN Ones - q ELSE q)]
stress_memcmp(r) == [j \in 1..Count |-> [i \in Cells |-> IF i < j THEN r[i] ELSE r[0]]]

Patterns(t, r, wraps) ==
    CASE t = "random_value" -> <<r>>
      [] t = "seqinc" -> seqinc(r[0])
      [] t = "solidbits" -> solidbits
      [] t = "blockseq" -> blockseq
      [] t = "checkerboard" -> checkerboard
      [] t = "bitspread" -> bitspread(wraps)
      [] t = "bitflip" -> bitflip
      [] t = "walkbits1" -> walkbits1
      [] t = "walkbits0" -> walkbits0
      [] t = "stress_memset" -> <<Uniform(r[0])>>
      [] t = "stress_memcmp" -> stress_memcmp(r)

(* The tests that change what is there: the same operation with the same q *)
(* on both halves, compared once.                                          *)
InPlace == {"xor", "sub", "mul", "div", "or", "and"}
Changed(t, v, q) ==
    CASE t = "xor" -> v ^^ q
      [] t = "sub" -> (v - q) % 2^WordBits
      [] t = "mul" -> (v * q) % 2^WordBits
      [] t = "div" -> v \div (IF q = 0 THEN 1 ELSE q)
      [] t = "or" -> v | q
      [] t = "and" -> v & q
ChangedMem(t, q) ==
    [a |-> [i \in Cells |-> Held(i, Changed(t, mem.a[i], q))],
     b |-> [i \in Cells |-> Changed(t, mem.b[i], q)]]

(* test_stress_memcpy: the first half is a copy of the second.             *)
Copied(q) == Stored(Uniform(q))

(* test_stuck_address: every word holds its address or the complement.     *)
AddressRounds == 0..(16 \div dividend - 1)
Address(i, j) == IF (i + j) % 2 = 0 THEN Base + i ELSE Ones - (Base + i)
test_stuck_address == \A j \in AddressRounds : \A i \in Cells :
                          Held(i, Address(i, j)) = Address(i, j)
AddressesLeft == LET j == 16 \div dividend - 1 IN
    [a |-> [i \in Cells |-> Held(i, Address(i, j))],
     b |-> [i \in Cells |-> Address(Count + i, j)]]

-----------------------------------------------------------------------------
Init ==
    /\ phase = "menu" /\ dividend = 1 /\ job = -1 /\ next = 0
    /\ wantbytes = <<>> /\ leaked = 0 /\ testThreads = 3 /\ totalmem = 0
    /\ testJobId = [w \in Threads |-> 0]
    /\ testWorkerReport = [w \in Threads |-> 0]
    /\ at = [w \in Threads |-> "unready"] /\ current = [w \in Threads |-> -1]
    /\ watched = 0 /\ fault = Good /\ mem = [a |-> <<>>, b |-> <<>>]

work == <<job, next, testJobId, testWorkerReport, at, current>>
memory == <<fault, watched, mem>>

\* A, X or Y at the menu; any other key exits.
Choose ==
    /\ phase = "menu"
    /\ \/ \E d \in {1, 4, 16} : dividend' = d /\ phase' = "probe"
       \/ phase' = "exited" /\ UNCHANGED dividend
    /\ UNCHANGED <<division, work, memory>>

\* As much as there is, in up to four blocks.
ProbeBlock ==
    /\ phase = "probe"
    /\ LET block == FirstFit(wantbytes_orig, Taken(wantbytes)) IN
       /\ wantbytes' = Append(wantbytes, block)
       /\ phase' = IF block >= AlmostAll /\ Len(wantbytes) < 3 THEN "probe" ELSE "free"
    /\ UNCHANGED <<dividend, leaked, testThreads, totalmem, work, memory>>

(* numOfMallocs is only set when a block is not full: nothing is freed     *)
(* otherwise.  Each worker's stack is taken off the total.                 *)
FreeBlocks ==
    /\ phase = "free" /\ phase' = "divide"
    /\ LET got == Taken(wantbytes) - Len(wantbytes) * Header
           threads == IF got > 3 * AlmostAll THEN 4 ELSE 3
       IN  testThreads' = threads /\ totalmem' = got - threads * pagesize
    /\ leaked' = IF Last(wantbytes) >= AlmostAll THEN Taken(wantbytes) ELSE 0
    /\ wantbytes' = <<>>
    /\ UNCHANGED <<dividend, work, memory>>

DivideShare ==
    /\ phase = "divide" /\ Len(wantbytes) < testThreads
    /\ wantbytes' = Append(wantbytes,
                           FirstFit(Share(Len(wantbytes)), BeforeShares + Taken(wantbytes)))
    /\ UNCHANGED <<phase, dividend, leaked, testThreads, totalmem, work, memory>>

(* threadStart of the workers; from here on the memory of one of them is   *)
(* watched, and may have a fault.                                          *)
StartWorkers ==
    /\ phase = "divide" /\ Len(wantbytes) = testThreads
    /\ phase' = "mark"
    /\ watched' \in Workers
    /\ LET cells == 0..(bufsize(watched') \div 2 - 1) IN
       /\ fault' \in {Good} \cup {f \in Faults : f.cell \in cells}
       /\ mem' = [a |-> [i \in cells |-> 0], b |-> [i \in cells |-> 0]]
    /\ UNCHANGED <<dividend, division, work>>

(* The next worker of a loop over j, and what follows the loop.            *)
Step(follows) == IF next + 1 < testThreads THEN next' = next + 1 /\ UNCHANGED phase
                 ELSE next' = 0 /\ phase' = follows

\* The top of the endless loop: every testJobId becomes -2.
MarkReady ==
    /\ phase = "mark"
    /\ testJobId' = [testJobId EXCEPT ![next] = -2]
    /\ Step("print")
    /\ UNCHANGED <<dividend, division, job, testWorkerReport, at, current, fault, watched, mem>>

\* The name of the test goes to the screen, which takes a frame.
ShowTest ==
    /\ phase = "print"
    /\ FrameCoversPoll => \A w \in Workers : at[w] # "unready"
    /\ phase' = "set"
    /\ UNCHANGED <<dividend, division, job, next, testJobId, testWorkerReport, at, current,
                   fault, watched, mem>>

SetJob ==
    /\ phase = "set"
    /\ testJobId' = [testJobId EXCEPT ![next] = job]
    /\ Step("poll")
    /\ UNCHANGED <<dividend, division, job, testWorkerReport, at, current, fault, watched, mem>>

(* A worker has passed: main() waits for the next one, and after the last  *)
(* it goes on to the next test or to the next loop.                        *)
Collect ==
    /\ phase = "poll" /\ testWorkerReport[next] = 1
    /\ testWorkerReport' = [testWorkerReport EXCEPT ![next] = 0]
    /\ IF next + 1 < testThreads
       THEN next' = next + 1 /\ UNCHANGED <<phase, job>>
       ELSE /\ next' = 0
            /\ IF job + 1 < Len(test_select)
               THEN phase' = "print" /\ job' = job + 1
               ELSE phase' = "mark" /\ job' = -1
    /\ UNCHANGED <<dividend, division, testJobId, at, current, fault, watched, mem>>

ShowError ==
    /\ phase = "poll" /\ testWorkerReport[next] = -1
    /\ phase' = "error"
    /\ UNCHANGED <<dividend, division, job, next, testJobId, testWorkerReport, at, current,
                   fault, watched, mem>>

\* waitForAnyKey(), and the process is gone.
AnyKey ==
    /\ phase = "error" /\ phase' = "exited"
    /\ UNCHANGED <<dividend, division, job, next, testJobId, testWorkerReport, at, current,
                   fault, watched, mem>>

-----------------------------------------------------------------------------
Testing == phase \in {"mark", "print", "set", "poll", "error"}

GetReady(w) ==
    /\ Testing /\ at[w] = "unready" /\ testJobId[w] = -2
    /\ at' = [at EXCEPT ![w] = "working"]
    /\ UNCHANGED <<phase, dividend, division, job, next, testJobId, testWorkerReport, current,
                   fault, watched, mem>>

Answer(w, passed) ==
    /\ testWorkerReport' = [testWorkerReport EXCEPT ![w] = IF passed THEN 1 ELSE -1]
    /\ IF passed
       THEN /\ current' = [current EXCEPT ![w] =
                               IF @ + 1 < Len(test_select) THEN @ + 1 ELSE -1]
            /\ UNCHANGED at
       ELSE at' = [at EXCEPT ![w] = "returned"] /\ UNCHANGED current

(* The watched worker's test, on its memory.                               *)
Tested(w) ==
    LET t == test_select[current[w] + 1] IN
    IF current[w] = -1 THEN mem' = AddressesLeft /\ Answer(w, test_stuck_address)
    ELSE \E r \in [Cells -> Rands], wraps \in BOOLEAN :
        CASE t \in InPlace ->
                LET m == ChangedMem(t, r[0]) IN mem' = m /\ Answer(w, compare_regions(m))
          [] t = "stress_memcpy" -> mem' = Copied(r[0]) /\ Answer(w, compare_regions(mem'))
          [] OTHER ->
                LET p == Patterns(t, r, wraps) IN
                /\ mem' = IF p = <<>> THEN mem ELSE Stored(p[Len(p)])
                /\ Answer(w, \A n \in DOMAIN p : compare_regions(Stored(p[n])))

testWorker(w) ==
    /\ Testing /\ at[w] = "working" /\ testJobId[w] = current[w]
    /\ IF w = watched THEN Tested(w) ELSE Answer(w, TRUE) /\ UNCHANGED mem
    /\ UNCHANGED <<phase, dividend, division, job, next, testJobId, fault, watched>>

Divide == ProbeBlock \/ FreeBlocks \/ DivideShare \/ StartWorkers
Main == Divide \/ MarkReady \/ ShowTest \/ SetJob \/ Collect \/ ShowError
Worker(w) == GetReady(w) \/ testWorker(w)
Next == Choose \/ AnyKey \/ Main \/ \E w \in Workers : Worker(w)

(* The threads run; the user need not press a key.                         *)
Spec == Init /\ [][Next]_vars /\ WF_vars(Main) /\ \A w \in Threads : WF_vars(w \in Workers /\ Worker(w))
-----------------------------------------------------------------------------
(* Every worker writes only to what main() allocated for it, although the  *)
(* block is moved to the next page: no worker sees the words of another.   *)
OwnMemory == Testing => \A w \in Workers :
    aligned(w)..(aligned(w) + bufsize(w) - 1) \subseteq buf(w)..(buf(w) + wantbytes[w + 1] - 1)

(* The program's verdict is right.  An error is shown only for memory that *)
(* has a fault, and never because two workers share a word; with good      *)
(* memory the loop comes round for ever; and a word                        *)
(* of the first half with a stuck bit, or in the long test with two bits   *)
(* shorted, is finally reported: some test's pattern tells the halves      *)
(* apart, the worker's answer is not lost between two loops, and main()    *)
(* comes to the worker although the others keep answering.                 *)
Shown == dividend = 1 \/ (dividend = 4 /\ fault.kind # "short")
Verdict ==
    /\ []OwnMemory
    /\ [](phase = "error" => fault # Good)
    /\ (phase = "set" /\ fault = Good) ~> (phase = "mark")
    /\ (phase = "mark" /\ fault # Good /\ Shown) ~> (phase = "error")
=============================================================================
