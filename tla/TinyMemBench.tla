---------------------------- MODULE TinyMemBench ----------------------------
(***************************************************************************)
(* TinyMemBenchNX (Source/TinyMemBenchNX): main() lets worker threads copy *)
(* and fill memory, each its own part of a pool, and takes the time of a   *)
(* round; or reads at random from a buffer.  The workers of a round are    *)
(* created anew, meet at a barrier of one mutex and two condition          *)
(* variables, and are joined.                                              *)
(*                                                                         *)
(* A section under p_lock is one action: nobody sees its middle.  Time is  *)
(* not kept: any number of rounds may fill half a second.                  *)
(***************************************************************************)
EXTENDS Integers, Sequences

CONSTANTS
    THREADS,        \* three
    MAXREPEATS,     \* ten
    Addresses,      \* what malloc() returns for the pool and the latency buffer
    Random32,       \* what rand32() may return
    Wakeups         \* wake-ups without a signal in one round

ASSUME BenchAssumption ==
    /\ {THREADS, MAXREPEATS} \subseteq Nat \ {0} /\ Wakeups \in Nat
    /\ Addresses \subseteq Nat \ {0} /\ Random32 \subseteq Nat

SIZE == 33554432                \* 32 MB
BLOCKSIZE == 2048
ALIGN_PADDING == 1048576
LatbenchSize == 2 * SIZE

VARIABLES
    mainAt,         \* what main() is about to do
    mode,           \* "quick", "bandwidth" or "latency"
    threads,
    poolbuf,        \* the pool, 0 for none
    benchmark, repeat, timed,   \* which round it is; the first is not timed
    nth,            \* the worker a loop of main() is at
    entries,        \* how many p_worker and worker_data have room for, -1 before
    p_worker_not_ready, p_workers_ready,
    worker_data,
    threadAt,       \* of each worker
    wakeups,
    latbuf, testsize, testoffs  \* latency_bench()

barrier == <<p_worker_not_ready, p_workers_ready, threadAt, wakeups>>
round == <<benchmark, repeat, timed>>
latency == <<latbuf, testsize, testoffs>>
benchVars == <<mainAt, mode, threads, poolbuf, round, nth, entries, barrier, worker_data, latency>>

(***************************************************************************)
(* The benchmarks: what a function does to its two blocks.  None of the    *)
(* listed ones goes through tmpbuf.                                        *)
(***************************************************************************)
Times(n, f) == [i \in 1..n |-> f]
libc_benchmarks == <<"copy", "fill">>
c_benchmarks == Times(6, "copy") \o <<"fetch">> \o Times(4, "fill")
aarch64_neon == <<"fetch">> \o Times(6, "copy") \o Times(2, "fill")
                \o <<"fetch", "copy">> \o Times(2, "fill")
Benchmarks == IF mode = "quick" THEN libc_benchmarks
              ELSE c_benchmarks \o libc_benchmarks \o aarch64_neon

\* A run of bytes, and what a function with its arguments reads and writes.
Bytes(from, length) == [from |-> from, to |-> from + length]
Blocks(size) == size - (size % 64)
Reads(d) == Bytes(d.arg2, IF Benchmarks[d.func] = "fill" THEN 8 ELSE Blocks(d.arg3))
Writes(d) == Bytes(d.arg1, IF Benchmarks[d.func] = "fetch" THEN 0 ELSE Blocks(d.arg3))

(***************************************************************************)
(* alloc_four_nonaliased_buffers                                           *)
(***************************************************************************)
align_up(p, align) == ((p + align - 1) \div align) * align

PoolSize(t) == 2 * (SIZE * t) + BLOCKSIZE * t + 9 * ALIGN_PADDING
srcbuf(p) == align_up(p, ALIGN_PADDING) + 699008                            \* 0xAAA80
\* Mutant of dstbuf: room for one worker's part.
dstbufForOne(p, t) == align_up(srcbuf(p) + SIZE, ALIGN_PADDING) + 349440
dstbuf(p, t) == align_up(srcbuf(p) + SIZE * t, ALIGN_PADDING) + 349440      \* 0x55500
tmpbuf(p, t) == align_up(dstbuf(p, t) + SIZE * t, ALIGN_PADDING) + 838784   \* 0xCCC80

BenchInit ==
    /\ mainAt = "menu" /\ mode = "quick" /\ threads = 0 /\ poolbuf = 0
    /\ benchmark = 1 /\ repeat = 1 /\ timed = FALSE /\ nth = 0 /\ entries = -1
    /\ p_worker_not_ready = 0 /\ p_workers_ready = 0 /\ wakeups = 0
    /\ worker_data = [w \in 0..(THREADS - 1) |-> [func |-> 0, arg1 |-> 0, arg2 |-> 0, arg3 |-> 0]]
    /\ threadAt = [w \in 0..(THREADS - 1) |-> "none"]
    /\ latbuf = 0 /\ testsize = 0 /\ testoffs = 0

\* Once appletMainLoop() is false, the menu falls into the quick test.
Begin(m, t) ==
    /\ mainAt = "menu"
    /\ mode' = m /\ threads' = t
    /\ mainAt' = IF m = "latency" THEN "malloc" ELSE "pool"
    /\ UNCHANGED <<poolbuf, round, nth, entries, barrier, worker_data, latency>>

Leave(to) ==
    /\ mainAt' = to
    /\ UNCHANGED <<mode, threads, poolbuf, round, nth, entries, barrier, worker_data, latency>>

MenuKey ==
    \/ \E m \in {"quick", "bandwidth", "latency"} : Begin(m, THREADS)
    \/ Begin("quick", threads)
    \/ mainAt = "menu" /\ Leave("exited")
waitForKeyA == mainAt = "key" /\ (Leave("menu") \/ Leave("exited"))

(***************************************************************************)
(* parallel_init, the arguments, parallel_run and the joins                *)
(***************************************************************************)
AllocPool ==
    /\ mainAt = "pool"
    /\ poolbuf' \in Addresses
    /\ benchmark' = 1 /\ repeat' = 1 /\ timed' = FALSE /\ mainAt' = "init"
    /\ UNCHANGED <<mode, threads, nth, entries, barrier, worker_data, latency>>

\* Mutant of InitBarrier: p_workers_ready is left as it is.
InitWithoutReset ==
    /\ mainAt = "init"
    /\ p_worker_not_ready' = threads /\ entries' = IF entries = -1 THEN threads ELSE entries
    /\ mainAt' = IF entries' < threads THEN "overrun" ELSE "create"
    /\ nth' = 0 /\ wakeups' = 0
    /\ UNCHANGED <<mode, threads, poolbuf, round, p_workers_ready, worker_data, threadAt, latency>>

\* The arrays are as long as the first test wanted them; writing past their end is
\* followed no further.
InitBarrier ==
    /\ mainAt = "init"
    /\ p_worker_not_ready' = threads /\ p_workers_ready' = 0
    /\ entries' = IF entries = -1 THEN threads ELSE entries
    /\ mainAt' = IF entries' < threads THEN "overrun" ELSE "create"
    /\ nth' = 0 /\ wakeups' = 0
    /\ UNCHANGED <<mode, threads, poolbuf, round, worker_data, threadAt, latency>>

CreateWorker ==
    /\ mainAt = "create"
    /\ IF nth < threads THEN /\ threadAt' = [threadAt EXCEPT ![nth] = "created"]
                             /\ nth' = nth + 1 /\ UNCHANGED mainAt
       ELSE mainAt' = "unready" /\ UNCHANGED <<threadAt, nth>>
    /\ UNCHANGED <<mode, threads, poolbuf, round, entries, p_worker_not_ready, p_workers_ready,
                   wakeups, worker_data, latency>>

AwaitWorkers ==
    /\ mainAt = "unready"
    /\ mainAt' = IF p_worker_not_ready # 0 THEN "waiting" ELSE "data"
    /\ nth' = 0
    /\ UNCHANGED <<mode, threads, poolbuf, round, entries, barrier, worker_data, latency>>

DataOf(w) == [func |-> benchmark, arg1 |-> dstbuf(poolbuf, threads) + SIZE * w,
              arg2 |-> srcbuf(poolbuf) + SIZE * w, arg3 |-> SIZE]

SetData ==
    /\ mainAt = "data"
    /\ IF nth < threads THEN /\ worker_data' = [worker_data EXCEPT ![nth] = DataOf(nth)]
                             /\ nth' = nth + 1 /\ UNCHANGED mainAt
       ELSE mainAt' = "run" /\ UNCHANGED <<worker_data, nth>>
    /\ UNCHANGED <<mode, threads, poolbuf, round, entries, barrier, latency>>

\* The clock is read before the first and after the last of the next three.
parallel_run ==
    /\ mainAt = "run"
    /\ p_workers_ready' = 1 /\ mainAt' = "broadcast"
    /\ UNCHANGED <<mode, threads, poolbuf, round, nth, entries, p_worker_not_ready, threadAt,
                   wakeups, worker_data, latency>>

\* Mutant of Broadcast: pthread_cond_signal.
SignalStart ==
    /\ mainAt = "broadcast"
    /\ \/ \E w \in DOMAIN threadAt : threadAt[w] = "waiting" /\ threadAt' = [threadAt EXCEPT ![w] = "woken"]
       \/ (\A w \in DOMAIN threadAt : threadAt[w] # "waiting") /\ UNCHANGED threadAt
    /\ mainAt' = "join" /\ nth' = 0
    /\ UNCHANGED <<mode, threads, poolbuf, round, entries, p_worker_not_ready, p_workers_ready,
                   wakeups, worker_data, latency>>

Broadcast ==
    /\ mainAt = "broadcast"
    /\ threadAt' = [w \in DOMAIN threadAt |->
                       IF threadAt[w] = "waiting" THEN "woken" ELSE threadAt[w]]
    /\ mainAt' = "join" /\ nth' = 0
    /\ UNCHANGED <<mode, threads, poolbuf, round, entries, p_worker_not_ready, p_workers_ready,
                   wakeups, worker_data, latency>>

JoinWorker ==
    /\ mainAt = "join"
    /\ IF nth < threads THEN /\ threadAt[nth] = "done"
                             /\ threadAt' = [threadAt EXCEPT ![nth] = "none"]
                             /\ nth' = nth + 1 /\ UNCHANGED mainAt
       ELSE mainAt' = "joined" /\ UNCHANGED <<threadAt, nth>>
    /\ UNCHANGED <<mode, threads, poolbuf, round, entries, p_worker_not_ready, p_workers_ready,
                   wakeups, worker_data, latency>>

(***************************************************************************)
(* bandwidth_bench_helper and bandwidth_bench                              *)
(***************************************************************************)
Again(b, n, t) ==
    /\ benchmark' = b /\ repeat' = n /\ timed' = t /\ mainAt' = "init"
    /\ UNCHANGED <<mode, threads, poolbuf, nth, entries, barrier, worker_data, latency>>

NextBenchmark ==
    IF benchmark < Len(Benchmarks) THEN Again(benchmark + 1, 1, FALSE)
    ELSE /\ poolbuf' = 0
         /\ mainAt' = IF mode = "quick" THEN "malloc" ELSE "key"
         /\ UNCHANGED <<mode, threads, round, nth, entries, barrier, worker_data, latency>>

MoreTime == mainAt = "joined" /\ Again(benchmark, repeat, TRUE)

\* From the third measurement on they may agree, if any worker was measured.
TimeIsUp ==
    /\ mainAt = "joined" /\ timed
    /\ \/ repeat < MAXREPEATS /\ Again(benchmark, repeat + 1, FALSE)
       \/ repeat = MAXREPEATS /\ NextBenchmark
       \/ repeat \in 3..(MAXREPEATS - 1) /\ threads > 0 /\ NextBenchmark

(***************************************************************************)
(* thread_func                                                             *)
(***************************************************************************)
AfterTest == IF p_workers_ready = 1 THEN "running" ELSE "waiting"

Arrive(w) ==
    /\ threadAt[w] = "created"
    /\ p_worker_not_ready' = p_worker_not_ready - 1
    /\ mainAt' = IF p_worker_not_ready' = 0 /\ mainAt = "waiting" THEN "unready" ELSE mainAt
    /\ threadAt' = [threadAt EXCEPT ![w] = AfterTest]
    /\ UNCHANGED <<mode, threads, poolbuf, round, nth, entries, p_workers_ready, wakeups,
                   worker_data, latency>>

Goes(w, from, to) ==
    /\ threadAt[w] = from
    /\ threadAt' = [threadAt EXCEPT ![w] = to]
    /\ UNCHANGED <<mainAt, mode, threads, poolbuf, round, nth, entries, p_worker_not_ready,
                   p_workers_ready, worker_data, latency>>

thread_func(w) == \/ Arrive(w)
                  \/ Goes(w, "woken", AfterTest) /\ UNCHANGED wakeups
                  \/ Goes(w, "running", "done") /\ UNCHANGED wakeups

\* pthread_cond_wait may return without a signal.
WakeUp ==
    /\ wakeups < Wakeups /\ wakeups' = wakeups + 1
    /\ \/ \E w \in 0..(THREADS - 1) : Goes(w, "waiting", "woken")
       \/ /\ mainAt = "waiting" /\ mainAt' = "unready"
          /\ UNCHANGED <<mode, threads, poolbuf, round, nth, entries, p_worker_not_ready,
                         p_workers_ready, threadAt, worker_data, latency>>

(***************************************************************************)
(* latency_bench; the calls that ask for huge pages return at once.  The   *)
(* first reads, of two bytes, measure what a read without a miss takes.    *)
(***************************************************************************)
buffer == align_up(latbuf, 4096)

Latency(to, buf, size, offs) ==
    /\ mainAt' = to /\ latbuf' = buf /\ testsize' = size /\ testoffs' = offs
    /\ UNCHANGED <<mode, threads, poolbuf, benchmark, timed, nth, entries, barrier, worker_data>>

Malloc ==
    /\ mainAt = "malloc"
    /\ \/ \E p \in Addresses : Latency("read", p, 2, 0)
       \/ Latency("key", 0, 0, 0)
    /\ repeat' = 1

RandomReads == Bytes(buffer + testoffs, testsize)
TestOffs(size) == {(r % (LatbenchSize \div size)) * size : r \in Random32}

FirstSize == IF mode = "quick" THEN 1048576 ELSE 1024

NextSize ==
    LET size == IF testsize > 2 THEN 2 * testsize ELSE FirstSize
    IN  /\ repeat' = 1
        /\ IF size <= LatbenchSize THEN \E o \in TestOffs(size) : Latency("read", latbuf, size, o)
           ELSE Latency("key", 0, 0, 0)

RandomRead ==
    /\ mainAt = "read"
    /\ \/ /\ repeat < MAXREPEATS /\ repeat' = repeat + 1
          /\ \E o \in IF testsize > 2 THEN TestOffs(testsize) ELSE {0} :
                Latency("read", latbuf, testsize, o)
       \/ repeat = MAXREPEATS /\ NextSize
       \/ repeat \in 3..(MAXREPEATS - 1) /\ testsize > 2 /\ NextSize

(***************************************************************************)
(* The program.  Half a second passes: a benchmark's rounds end.           *)
(***************************************************************************)
BenchMain ==
    \/ AllocPool \/ InitBarrier \/ CreateWorker \/ AwaitWorkers \/ SetData \/ parallel_run
    \/ Broadcast \/ JoinWorker \/ MoreTime \/ TimeIsUp \/ Malloc \/ RandomRead
BenchWorker(w) == w < threads /\ thread_func(w)
BenchNext == MenuKey \/ waitForKeyA \/ BenchMain \/ WakeUp \/ \E w \in 0..(THREADS - 1) : BenchWorker(w)

BenchFairness ==
    /\ WF_benchVars(BenchMain) /\ SF_benchVars(TimeIsUp)
    /\ \A w \in 0..(THREADS - 1) : WF_benchVars(BenchWorker(w))
BenchSpec == BenchInit /\ [][BenchNext]_benchVars /\ BenchFairness

(* What is timed is the work of the round, all of it and nothing else:     *)
(* when the clock starts every worker has come to the barrier and none has *)
(* passed it, a worker that passed it has the arguments of this round, and *)
(* when the clock stops none is left (thread_func, bandwidth_bench_helper).*)
RoundIsWhole ==
    /\ mainAt \in {"data", "run"} => \A w \in 0..(threads - 1) : threadAt[w] \in {"waiting", "woken"}
    /\ \A w \in DOMAIN threadAt :
          /\ threadAt[w] = "running" => worker_data[w] = DataOf(w)
          /\ mainAt \in {"menu", "init", "joined", "malloc", "read", "key"} => threadAt[w] = "none"

Within(b, from, length) == from <= b.from /\ b.to <= from + length
Apart(b, c) == b.to <= c.from \/ c.to <= b.from

(* Whatever is read or written lies in memory that is allocated, and no    *)
(* worker writes what another one reads or writes (the offsets of          *)
(* bandwidth_bench_helper and alloc_four_nonaliased_buffers, the masks and *)
(* offsets of latency_bench).                                              *)
AccessesInside ==
    /\ \A w \in DOMAIN threadAt : threadAt[w] = "running" =>
          LET d == worker_data[w] IN
          /\ poolbuf # 0
          /\ Within(Reads(d), poolbuf, PoolSize(threads)) /\ Within(Writes(d), poolbuf, PoolSize(threads))
          /\ Apart(Reads(d), Writes(d))
          /\ \A v \in DOMAIN threadAt \ {w} : threadAt[v] = "running" =>
                Apart(Writes(d), Reads(worker_data[v])) /\ Apart(Writes(d), Writes(worker_data[v]))
    /\ mainAt = "read" => /\ latbuf # 0
                          /\ Within(RandomReads, latbuf, LatbenchSize + 4095)

(* A test that was begun ends: no signal of the barrier is lost, however   *)
(* the workers and the wake-ups interleave.                                *)
TestsEnd == mainAt \in {"pool", "malloc"} ~> mainAt \in {"key", "overrun"}
=============================================================================
