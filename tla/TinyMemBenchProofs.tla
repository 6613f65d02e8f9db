------------------------- MODULE TinyMemBenchProofs -------------------------
(***************************************************************************)
(* The rounds and the memory of TinyMemBenchNX, for any number of workers, *)
(* repetitions and wake-ups, and wherever malloc() puts its blocks.        *)
(***************************************************************************)
EXTENDS TinyMemBench, FiniteSetTheorems, TLAPS

Pts == 0..(THREADS - 1)
Idle == {"menu", "exited", "pool", "init", "joined", "malloc", "read", "key", "overrun"}
Meeting == {"create", "unready", "waiting", "data", "run"}
Started == {"broadcast", "join"}
Waiting == {"waiting", "woken"}

BenchTypeOK ==
    /\ mainAt \in Idle \cup Meeting \cup Started
    /\ mode \in {"quick", "bandwidth", "latency"} /\ threads \in {0, THREADS}
    /\ repeat \in Nat /\ timed \in BOOLEAN
    /\ nth \in Nat /\ entries \in Int /\ wakeups \in Nat
    /\ p_worker_not_ready \in Int /\ p_workers_ready \in {0, 1}
    /\ DOMAIN worker_data = Pts
    /\ threadAt \in [Pts -> {"none", "created", "waiting", "woken", "running", "done"}]

\* Where a worker may be, by where main() is.
Places(w) ==
    IF w >= threads \/ mainAt \in Idle THEN {"none"}
    ELSE IF mainAt = "create" THEN (IF w < nth THEN {"created"} \cup Waiting ELSE {"none"})
    ELSE IF mainAt \in {"unready", "waiting"} THEN {"created"} \cup Waiting
    ELSE IF mainAt \in {"data", "run"} THEN Waiting
    ELSE IF mainAt = "broadcast" THEN Waiting \cup {"running", "done"}
    ELSE IF w < nth THEN {"none"} ELSE {"woken", "running", "done"}

Uncounted == {w \in Pts : w < threads /\ threadAt[w] \in {"none", "created"}}

BarrierInv ==
    /\ \A w \in Pts : threadAt[w] \in Places(w)
    /\ mainAt \in Meeting => p_workers_ready = 0 /\ p_worker_not_ready = Cardinality(Uncounted)
    /\ mainAt \in Started => p_workers_ready = 1
    /\ mainAt \in {"create", "data", "join"} => nth <= threads

MemoryInv ==
    /\ mainAt \in {"init", "joined"} \cup Meeting \cup Started => poolbuf \in Addresses
    /\ mainAt = "data" => \A w \in Pts : w < nth => worker_data[w] = DataOf(w)
    /\ mainAt \in {"run"} \cup Started => \A w \in Pts : w < threads => worker_data[w] = DataOf(w)
    /\ mainAt = "read" => /\ latbuf \in Addresses /\ testsize \in Nat /\ testoffs \in Nat
                          /\ 1 < testsize /\ testoffs + testsize <= LatbenchSize

BenchInv == BenchTypeOK /\ BarrierInv /\ MemoryInv

LEMMA BenchInvInit == BenchInit => BenchInv
<1> SUFFICES ASSUME BenchInit
             PROVE  BenchInv
  OBVIOUS
<1> USE BenchAssumption DEF BenchInit
<1>1. BenchTypeOK
  <2>1. timed \in BOOLEAN
    OBVIOUS
  <2> QED
    BY <2>1 DEF BenchTypeOK, Idle, Meeting, Started, Pts
<1>2. BarrierInv
  BY DEF BarrierInv, Places, Idle, Meeting, Started, Pts
<1>3. MemoryInv
  BY DEF MemoryInv, Meeting, Started
<1> QED
  BY <1>1, <1>2, <1>3 DEF BenchInv

(* A step of a worker that is none of the threads' is no step.             *)
LEMMA WorkerCases ==
    ASSUME BenchInv, NEW w \in Pts, BenchWorker(w)
    PROVE  \/ mainAt \in Meeting /\ Arrive(w) /\ AfterTest = "waiting"
           \/ /\ mainAt \in Meeting /\ AfterTest = "waiting"
              /\ Goes(w, "woken", "waiting") /\ UNCHANGED wakeups
           \/ mainAt \in Started /\ Goes(w, "woken", "running") /\ UNCHANGED wakeups
           \/ mainAt \in Started /\ Goes(w, "running", "done") /\ UNCHANGED wakeups
<1>1. threadAt[w] \in Places(w) /\ mainAt \in Idle \cup Meeting \cup Started
  BY DEF BenchInv, BarrierInv, BenchTypeOK
<1>2. CASE mainAt \in Idle
  BY <1>1, <1>2 DEF BenchWorker, thread_func, Arrive, Goes, Places
<1>3. CASE mainAt \in Meeting
  <2>1. AfterTest = "waiting" /\ threadAt[w] # "running"
    BY <1>1, <1>3 DEF BenchInv, BarrierInv, AfterTest, Places, Idle, Meeting, Waiting
  <2> QED
    BY <1>3, <2>1 DEF BenchWorker, thread_func, Goes
<1>4. CASE mainAt \in Started
  <2>1. AfterTest = "running" /\ threadAt[w] # "created"
    BY <1>1, <1>4 DEF BenchInv, BarrierInv, AfterTest, Places, Idle, Started, Waiting
  <2> QED
    BY <1>4, <2>1 DEF BenchWorker, thread_func, Arrive, Goes
<1> QED
  BY <1>1, <1>2, <1>3, <1>4

LEMMA UncountedFinite == IsFiniteSet(Uncounted)
<1>1. IsFiniteSet(Pts)
  BY FS_Interval, BenchAssumption DEF Pts
<1> QED
  BY <1>1, FS_Subset DEF Uncounted
(* Types: every action gives every variable a value of its type.           *)
LEMMA TypeStep ==
    ASSUME BenchInv, [BenchNext]_benchVars
    PROVE  BenchTypeOK'
<1> USE BenchAssumption DEF BenchInv, BenchTypeOK, Idle, Meeting, Started, Pts
<1>1. CASE MenuKey
  BY <1>1 DEF MenuKey, Begin, Leave, barrier, round, latency
<1>2. CASE waitForKeyA
  BY <1>2 DEF waitForKeyA, Leave, barrier, round, latency
<1>3. CASE AllocPool
  BY <1>3 DEF AllocPool, barrier, latency
<1>4. CASE InitBarrier
  BY <1>4 DEF InitBarrier, round, latency
<1>5. CASE CreateWorker
  BY <1>5 DEF CreateWorker, round, latency
<1>6. CASE AwaitWorkers
  BY <1>6 DEF AwaitWorkers, barrier, round, latency
<1>7. CASE SetData
  BY <1>7 DEF SetData, barrier, round, latency
<1>8. CASE parallel_run
  BY <1>8 DEF parallel_run, round, latency
<1>9. CASE Broadcast
  BY <1>9 DEF Broadcast, round, latency
<1>10. CASE JoinWorker
  BY <1>10 DEF JoinWorker, round, latency
<1>11. CASE MoreTime
  BY <1>11 DEF MoreTime, Again, barrier, latency
<1>12. CASE TimeIsUp
  BY <1>12 DEF TimeIsUp, NextBenchmark, Again, barrier, round, latency
<1>13. CASE Malloc
  BY <1>13 DEF Malloc, Latency, barrier
<1>14. CASE RandomRead
  <2>1. mainAt' \in {"read", "key"} /\ repeat' \in Nat
    <3>1. CASE NextSize
      BY <3>1 DEF NextSize, Latency
    <3>2. CASE repeat' = repeat + 1
      BY <1>14, <3>1, <3>2 DEF RandomRead, Latency
    <3> QED
      BY <1>14, <3>1, <3>2 DEF RandomRead
  <2>2. UNCHANGED <<mode, threads, timed, nth, entries, barrier, worker_data>>
    BY <1>14 DEF RandomRead, NextSize, Latency
  <2> QED
    BY <2>1, <2>2 DEF barrier
<1>15. CASE WakeUp
  BY <1>15 DEF WakeUp, Goes, round, latency
<1>16. ASSUME NEW w \in Pts, BenchWorker(w)
       PROVE  BenchTypeOK'
  <2>1. CASE Arrive(w)
    BY <1>16, <2>1 DEF Arrive, AfterTest, round, latency
  <2>2. CASE Goes(w, "woken", AfterTest) /\ UNCHANGED wakeups
    BY <1>16, <2>2 DEF Goes, AfterTest, round, latency
  <2>3. CASE Goes(w, "running", "done") /\ UNCHANGED wakeups
    BY <1>16, <2>3 DEF Goes, round, latency
  <2> QED
    BY <1>16, <2>1, <2>2, <2>3 DEF BenchWorker, thread_func
<1>17. CASE UNCHANGED benchVars
  BY <1>17 DEF benchVars, barrier, round, latency
<1> QED
  BY <1>1, <1>2, <1>3, <1>4, <1>5, <1>6, <1>7, <1>8, <1>9, <1>10, <1>11, <1>12, <1>13, <1>14,
     <1>15, <1>16, <1>17 DEF BenchNext, BenchMain

(* The barrier: what main() counts is who has not come.                    *)
LEMMA BarrierStep ==
    ASSUME BenchInv, BenchTypeOK', [BenchNext]_benchVars
    PROVE  BarrierInv'
<1> USE BenchAssumption DEF BenchInv, BenchTypeOK, BarrierInv, Idle, Meeting, Started, Pts, Places, Waiting
<1>1. CASE MenuKey
  BY <1>1 DEF MenuKey, Begin, Leave, barrier, round, latency
<1>2. CASE waitForKeyA
  BY <1>2 DEF waitForKeyA, Leave, barrier, round, latency
<1>3. CASE AllocPool
  BY <1>3 DEF AllocPool, barrier, latency
<1>4. CASE InitBarrier
  <2>1. \A w \in Pts : threadAt'[w] = "none"
    BY <1>4 DEF InitBarrier
  <2>2. Uncounted' = 0..(threads - 1)
    BY <1>4, <2>1 DEF InitBarrier, Uncounted
  <2>3. Cardinality(Uncounted') = threads
    <3>1. Cardinality(0..(threads - 1)) = IF 0 > threads - 1 THEN 0 ELSE (threads - 1) - 0 + 1
      BY FS_Interval
    <3> QED
      BY <2>2, <3>1
  <2> QED
    BY <1>4, <2>1, <2>3 DEF InitBarrier
<1>5. CASE CreateWorker
  <2>1. Uncounted' = Uncounted
    BY <1>5 DEF CreateWorker, Uncounted
  <2> QED
    BY <1>5, <2>1 DEF CreateWorker
<1>6. CASE AwaitWorkers
  <2>1. Uncounted' = Uncounted
    BY <1>6 DEF AwaitWorkers, Uncounted, barrier
  <2>2. ASSUME p_worker_not_ready = 0
        PROVE  \A w \in Pts : w < threads => threadAt[w] \in Waiting
    <3>1. Uncounted = {}
      BY <1>6, <2>2, UncountedFinite, FS_EmptySet DEF AwaitWorkers
    <3> QED
      BY <1>6, <3>1 DEF AwaitWorkers, Uncounted
  <2> QED
    BY <1>6, <2>1, <2>2 DEF AwaitWorkers, barrier
<1>7. CASE SetData
  <2>1. Uncounted' = Uncounted
    BY <1>7 DEF SetData, Uncounted, barrier
  <2> QED
    BY <1>7, <2>1 DEF SetData, barrier
<1>8. CASE parallel_run
  BY <1>8 DEF parallel_run
<1>9. CASE Broadcast
  BY <1>9 DEF Broadcast
<1>10. CASE JoinWorker
  BY <1>10 DEF JoinWorker
<1>11. CASE MoreTime
  BY <1>11 DEF MoreTime, Again, barrier
<1>12. CASE TimeIsUp
  BY <1>12 DEF TimeIsUp, NextBenchmark, Again, barrier
<1>13. CASE Malloc
  BY <1>13 DEF Malloc, Latency, barrier
<1>14. CASE RandomRead
  BY <1>14 DEF RandomRead, NextSize, Latency, barrier
<1>15. CASE WakeUp
  <2>1. Uncounted' = Uncounted
    BY <1>15 DEF WakeUp, Goes, Uncounted
  <2> QED
    BY <1>15, <2>1 DEF WakeUp, Goes
<1>16. ASSUME NEW w \in Pts, BenchWorker(w)
       PROVE  BarrierInv'
  <2>1. CASE mainAt \in Meeting /\ Arrive(w) /\ AfterTest = "waiting"
    <3>1. Uncounted' = Uncounted \ {w} /\ w \in Uncounted
      BY <1>16, <2>1 DEF Arrive, Uncounted, BenchWorker
    <3>2. Cardinality(Uncounted') = Cardinality(Uncounted) - 1
      BY <3>1, UncountedFinite, FS_RemoveElement
    <3> QED
      BY <2>1, <3>2 DEF Arrive
  <2>2. CASE mainAt \in Meeting /\ Goes(w, "woken", "waiting")
    <3>1. Uncounted' = Uncounted
      BY <2>2 DEF Goes, Uncounted
    <3> QED
      BY <2>2, <3>1 DEF Goes
  <2>3. CASE mainAt \in Started /\ (Goes(w, "woken", "running") \/ Goes(w, "running", "done"))
    BY <2>3 DEF Goes
  <2> QED
    BY <1>16, <2>1, <2>2, <2>3, WorkerCases
<1>17. CASE UNCHANGED benchVars
  <2>1. Uncounted' = Uncounted
    BY <1>17 DEF benchVars, barrier, Uncounted
  <2> QED
    BY <1>17, <2>1 DEF benchVars, barrier
<1> QED
  BY <1>1, <1>2, <1>3, <1>4, <1>5, <1>6, <1>7, <1>8, <1>9, <1>10, <1>11, <1>12, <1>13, <1>14,
     <1>15, <1>16, <1>17 DEF BenchNext, BenchMain

(* random_read_test: an offset of latency_bench leaves room for the reads. *)
LEMMA OffsInside ==
    ASSUME NEW size \in Nat, 0 < size, size <= LatbenchSize, NEW o \in TestOffs(size)
    PROVE  o \in Nat /\ o + size <= LatbenchSize
<1> DEFINE q == LatbenchSize \div size
<1>1. LatbenchSize \in Nat
  BY DEF LatbenchSize, SIZE
<1>2. q \in Nat /\ 1 <= q /\ q * size <= LatbenchSize
  BY <1>1
<1>3. PICK r \in Nat : o = (r % q) * size
  BY BenchAssumption DEF TestOffs
<1> HIDE DEF q
<1>4. r % q \in 0..(q - 1)
  BY <1>2, <1>3
<1>5. PICK k \in 0..(q - 1) : o = k * size
  BY <1>3, <1>4
<1>6. (k + 1) * size <= q * size
  BY <1>2, <1>5
<1>7. (k + 1) * size = k * size + size /\ k * size \in Nat
  BY <1>5
<1> QED
  BY <1>1, <1>2, <1>5, <1>6, <1>7

(* The memory: what a worker is given stays with the round.                *)
LEMMA MemoryStep ==
    ASSUME BenchInv, BenchTypeOK', [BenchNext]_benchVars
    PROVE  MemoryInv'
<1> USE BenchAssumption DEF BenchInv, BenchTypeOK, MemoryInv, Idle, Meeting, Started, Pts, DataOf
<1>1. CASE MenuKey
  BY <1>1 DEF MenuKey, Begin, Leave, barrier, round, latency
<1>2. CASE waitForKeyA
  BY <1>2 DEF waitForKeyA, Leave, barrier, round, latency
<1>3. CASE AllocPool
  BY <1>3 DEF AllocPool, barrier, latency
<1>4. CASE InitBarrier
  BY <1>4 DEF InitBarrier, round, latency
<1>5. CASE CreateWorker
  BY <1>5 DEF CreateWorker, round, latency
<1>6. CASE AwaitWorkers
  BY <1>6 DEF AwaitWorkers, barrier, round, latency
<1>7. CASE SetData
  BY <1>7 DEF SetData, BarrierInv, barrier, round, latency
<1>8. CASE parallel_run
  BY <1>8 DEF parallel_run, round, latency
<1>9. CASE Broadcast
  BY <1>9 DEF Broadcast, round, latency
<1>10. CASE JoinWorker
  BY <1>10 DEF JoinWorker, round, latency
<1>11. CASE MoreTime
  BY <1>11 DEF MoreTime, Again, barrier, latency
<1>12. CASE TimeIsUp
  BY <1>12 DEF TimeIsUp, NextBenchmark, Again, barrier, round, latency
<1>13. CASE Malloc
  BY <1>13, SMT DEF Malloc, Latency, barrier, LatbenchSize, SIZE
<1>14. CASE RandomRead
  <2>1. ASSUME NextSize
        PROVE  mainAt' = "read" => /\ latbuf' = latbuf
                                   /\ testsize' \in Nat /\ 1 < testsize' /\ testsize' <= LatbenchSize
                                   /\ testoffs' \in TestOffs(testsize')
    <3>1. FirstSize \in Nat /\ 1 < FirstSize
      BY SMT DEF FirstSize
    <3> QED
      BY <1>14, <2>1, <3>1 DEF RandomRead, NextSize, Latency
  <2>2. ASSUME ~NextSize
        PROVE  /\ latbuf' = latbuf /\ testsize' = testsize
               /\ IF testsize > 2 THEN testoffs' \in TestOffs(testsize) ELSE testoffs' = 0
    BY <1>14, <2>2 DEF RandomRead, Latency
  <2>3. mainAt' \in {"read", "key"}
    BY <1>14 DEF RandomRead, NextSize, Latency
  <2>4. LatbenchSize \in Nat /\ 2 <= LatbenchSize
    BY SMT DEF LatbenchSize, SIZE
  <2>5. CASE NextSize
    BY <1>14, <2>1, <2>3, <2>5, OffsInside DEF RandomRead
  <2>6. CASE ~NextSize
    <3>1. testsize \in Nat /\ 1 < testsize /\ testsize <= LatbenchSize /\ latbuf \in Addresses
      BY <1>14, <2>4 DEF RandomRead
    <3>2. CASE testsize > 2
      BY <2>2, <2>3, <2>6, <3>1, <3>2, OffsInside
    <3>3. CASE ~(testsize > 2)
      BY <2>2, <2>3, <2>4, <2>6, <3>1, <3>3
    <3> QED
      BY <3>2, <3>3
  <2> QED
    BY <2>5, <2>6
<1>15. CASE WakeUp
  BY <1>15 DEF WakeUp, Goes, round, latency
<1>16. ASSUME NEW w \in Pts, BenchWorker(w)
       PROVE  MemoryInv'
  BY <1>16, WorkerCases DEF Arrive, Goes, round, latency
<1>17. CASE UNCHANGED benchVars
  BY <1>17 DEF benchVars, barrier, round, latency
<1> QED
  BY <1>1, <1>2, <1>3, <1>4, <1>5, <1>6, <1>7, <1>8, <1>9, <1>10, <1>11, <1>12, <1>13, <1>14,
     <1>15, <1>16, <1>17 DEF BenchNext, BenchMain

LEMMA BenchInvStep == BenchInv /\ [BenchNext]_benchVars => BenchInv'
BY TypeStep, BarrierStep, MemoryStep DEF BenchInv

(* For any number of workers and repetitions, and wherever malloc() puts   *)
(* its blocks: every variable of the program keeps its type.               *)
THEOREM BenchTyped == BenchSpec => []BenchTypeOK
BY BenchInvInit, BenchInvStep, PTL DEF BenchSpec, BenchInv

(* For any number of workers that may wake without a signal: a timed round *)
(* is the work of the round, all of it and nothing else.                   *)
THEOREM RoundsAreWhole == BenchSpec => []RoundIsWhole
<1>1. BenchInv => RoundIsWhole
  <2> SUFFICES ASSUME BenchInv
               PROVE  RoundIsWhole
    OBVIOUS
  <2>1. /\ DOMAIN threadAt = Pts /\ threads \in {0, THREADS} /\ nth \in Nat
        /\ mainAt \in Idle \cup Meeting \cup Started
        /\ \A w \in Pts : threadAt[w] \in Places(w)
    BY DEF BenchInv, BenchTypeOK, BarrierInv
  <2>2. ASSUME mainAt \in {"data", "run"}, NEW w \in 0..(threads - 1)
        PROVE  threadAt[w] \in {"waiting", "woken"}
    BY <2>1, <2>2, BenchAssumption DEF Places, Idle, Waiting, Pts
  <2>3. ASSUME NEW w \in Pts, threadAt[w] = "running"
        PROVE  worker_data[w] = DataOf(w)
    <3>1. w < threads /\ mainAt \in Started
      BY <2>1, <2>3, BenchAssumption DEF Places, Idle, Meeting, Started, Waiting, Pts
    <3> QED
      BY <3>1 DEF BenchInv, MemoryInv
  <2>4. ASSUME NEW w \in Pts, mainAt \in {"menu", "init", "joined", "malloc", "read", "key"}
        PROVE  threadAt[w] = "none"
    BY <2>1, <2>4 DEF Places, Idle
  <2> QED
    BY <2>1, <2>2, <2>3, <2>4 DEF RoundIsWhole
<1> QED
  BY <1>1, BenchInvInit, BenchInvStep, PTL DEF BenchSpec

(* alloc_four_nonaliased_buffers: the sources, then the destinations, then *)
(* the small buffers, all in the pool.                                     *)
LEMMA PoolLayout ==
    ASSUME NEW p \in Nat, NEW t \in Nat
    PROVE  /\ srcbuf(p) \in Nat /\ dstbuf(p, t) \in Nat /\ SIZE * t \in Nat
           /\ p <= srcbuf(p)
           /\ srcbuf(p) + SIZE * t <= dstbuf(p, t)
           /\ dstbuf(p, t) + SIZE * t <= tmpbuf(p, t)
           /\ tmpbuf(p, t) + BLOCKSIZE * t <= p + PoolSize(t)
<1> DEFINE S == SIZE * t
<1> DEFINE B == BLOCKSIZE * t
<1>1. S \in Nat /\ B \in Nat
  BY DEF SIZE, BLOCKSIZE
<1>2. \A x \in Nat : align_up(x, ALIGN_PADDING) \in x..(x + 1048575)
  BY SMT DEF align_up, ALIGN_PADDING
<1> HIDE DEF S, B
<1>3. srcbuf(p) \in (p + 699008)..(p + 699008 + 1048575)
  BY <1>2, SMT DEF srcbuf
<1>4. dstbuf(p, t) \in (srcbuf(p) + S + 349440)..(srcbuf(p) + S + 349440 + 1048575)
  BY <1>1, <1>2, <1>3, SMT DEF dstbuf, S
<1>5. tmpbuf(p, t) \in (dstbuf(p, t) + S + 838784)..(dstbuf(p, t) + S + 838784 + 1048575)
  BY <1>1, <1>2, <1>3, <1>4, SMT DEF tmpbuf, S
<1>6. PoolSize(t) = 2 * S + B + 9437184
  BY SMT DEF PoolSize, S, B, ALIGN_PADDING
<1> QED
  BY <1>1, <1>3, <1>4, <1>5, <1>6, SMT DEF S, B

(* The parts of the workers follow each other.                             *)
LEMMA PartsFollow ==
    ASSUME NEW t \in Nat, NEW w \in 0..(t - 1)
    PROVE  /\ SIZE * w \in Nat /\ SIZE * w + SIZE <= SIZE * t
           /\ \A v \in 0..(t - 1) : v # w => \/ SIZE * w + SIZE <= SIZE * v
                                             \/ SIZE * v + SIZE <= SIZE * w
BY SMT DEF SIZE

InPart(b, start, w) == /\ b.from = start + SIZE * w /\ b.to \in Nat
                       /\ b.to <= start + SIZE * w + SIZE

(* What a benchmark reads and writes lies in the two blocks it is given.   *)
LEMMA BlocksOf ==
    ASSUME NEW w \in Nat, SIZE * w \in Nat,
           srcbuf(poolbuf) \in Nat, dstbuf(poolbuf, threads) \in Nat
    PROVE  /\ InPart(Reads(DataOf(w)), srcbuf(poolbuf), w)
           /\ InPart(Writes(DataOf(w)), dstbuf(poolbuf, threads), w)
<1> DEFINE d == DataOf(w)
<1>1. SIZE \in Nat /\ 8 <= SIZE /\ Blocks(SIZE) \in Nat /\ Blocks(SIZE) <= SIZE
  BY SMT DEF SIZE, Blocks
<1>2. d.arg1 = dstbuf(poolbuf, threads) + SIZE * w /\ d.arg2 = srcbuf(poolbuf) + SIZE * w /\ d.arg3 = SIZE
  BY DEF DataOf
<1> HIDE DEF d
<1>3. PICK m \in Nat : m <= SIZE /\ Reads(d) = Bytes(d.arg2, m)
  BY <1>1, <1>2 DEF Reads
<1>4. PICK n \in Nat : n <= SIZE /\ Writes(d) = Bytes(d.arg1, n)
  BY <1>1, <1>2 DEF Writes
<1>5. InPart(Reads(d), srcbuf(poolbuf), w)
  BY <1>1, <1>2, <1>3 DEF Bytes, InPart
<1>6. InPart(Writes(d), dstbuf(poolbuf, threads), w)
  BY <1>1, <1>2, <1>4 DEF Bytes, InPart
<1> QED
  BY <1>5, <1>6 DEF d

(* For any number of workers and wherever malloc() puts its blocks: what   *)
(* is read or written is allocated, and no worker writes what another one  *)
(* reads or writes.                                                        *)
THEOREM AccessesStayInside == BenchSpec => []AccessesInside
<1>1. BenchInv => AccessesInside
  <2> SUFFICES ASSUME BenchInv
               PROVE  AccessesInside
    OBVIOUS
  <2>1. /\ DOMAIN threadAt = Pts /\ threads \in Nat
        /\ mainAt \in Idle \cup Meeting \cup Started
        /\ \A w \in Pts : threadAt[w] \in Places(w)
    BY BenchAssumption DEF BenchInv, BenchTypeOK, BarrierInv
  <2>2. ASSUME NEW w \in Pts, threadAt[w] = "running"
        PROVE  w \in 0..(threads - 1) /\ worker_data[w] = DataOf(w) /\ poolbuf \in Nat \ {0}
    <3>1. w < threads /\ mainAt \in Started
      BY <2>1, <2>2, BenchAssumption DEF Places, Idle, Meeting, Started, Waiting, Pts
    <3>2. w \in 0..(threads - 1)
      BY <2>1, <3>1, BenchAssumption DEF Pts
    <3>3. poolbuf \in Addresses /\ worker_data[w] = DataOf(w)
      BY <3>1 DEF BenchInv, MemoryInv
    <3> QED
      BY <3>2, <3>3, BenchAssumption
  <2>3. ASSUME NEW w \in Pts, threadAt[w] = "running"
        PROVE  /\ SIZE * w \in Nat /\ SIZE * w + SIZE <= SIZE * threads
               /\ \A v \in 0..(threads - 1) : v # w => \/ SIZE * w + SIZE <= SIZE * v
                                                       \/ SIZE * v + SIZE <= SIZE * w
               /\ InPart(Reads(worker_data[w]), srcbuf(poolbuf), w)
               /\ InPart(Writes(worker_data[w]), dstbuf(poolbuf, threads), w)
    <3>1. w \in 0..(threads - 1) /\ worker_data[w] = DataOf(w) /\ poolbuf \in Nat /\ w \in Nat
      BY <2>2, <2>3
    <3>2. /\ SIZE * w \in Nat /\ SIZE * w + SIZE <= SIZE * threads
          /\ \A v \in 0..(threads - 1) : v # w => \/ SIZE * w + SIZE <= SIZE * v
                                                  \/ SIZE * v + SIZE <= SIZE * w
      BY <2>1, <3>1, PartsFollow
    <3>3. srcbuf(poolbuf) \in Nat /\ dstbuf(poolbuf, threads) \in Nat
      BY <2>1, <3>1, PoolLayout
    <3>4. InPart(Reads(worker_data[w]), srcbuf(poolbuf), w)
      BY <3>1, <3>2, <3>3, BlocksOf
    <3>5. InPart(Writes(worker_data[w]), dstbuf(poolbuf, threads), w)
      BY <3>1, <3>2, <3>3, BlocksOf
    <3> QED
      BY <3>2, <3>4, <3>5
  <2>4. ASSUME NEW w \in Pts, threadAt[w] = "running", NEW v \in Pts \ {w}, threadAt[v] = "running"
        PROVE  /\ Apart(Writes(worker_data[w]), Reads(worker_data[v]))
               /\ Apart(Writes(worker_data[w]), Writes(worker_data[v]))
    <3>1. v \in 0..(threads - 1) /\ poolbuf \in Nat
      BY <2>2, <2>4
    <3>2. /\ SIZE * w \in Nat /\ SIZE * v \in Nat /\ SIZE * v + SIZE <= SIZE * threads
          /\ SIZE * w + SIZE <= SIZE * v \/ SIZE * v + SIZE <= SIZE * w
      BY <2>3, <2>4, <3>1
    <3>3. /\ srcbuf(poolbuf) \in Nat /\ dstbuf(poolbuf, threads) \in Nat /\ SIZE * threads \in Nat
          /\ srcbuf(poolbuf) + SIZE * threads <= dstbuf(poolbuf, threads)
      BY <2>1, <3>1, PoolLayout
    <3>4. /\ InPart(Reads(worker_data[v]), srcbuf(poolbuf), v)
          /\ InPart(Writes(worker_data[v]), dstbuf(poolbuf, threads), v)
          /\ InPart(Writes(worker_data[w]), dstbuf(poolbuf, threads), w)
      BY <2>3, <2>4
    <3> QED
      BY <3>2, <3>3, <3>4, SMT DEF InPart, Apart, SIZE
  <2>5. ASSUME NEW w \in Pts, threadAt[w] = "running"
        PROVE  /\ poolbuf # 0
               /\ Within(Reads(worker_data[w]), poolbuf, PoolSize(threads))
               /\ Within(Writes(worker_data[w]), poolbuf, PoolSize(threads))
               /\ Apart(Reads(worker_data[w]), Writes(worker_data[w]))
    <3>1. poolbuf \in Nat \ {0}
      BY <2>2, <2>5
    <3>2. /\ srcbuf(poolbuf) \in Nat /\ dstbuf(poolbuf, threads) \in Nat /\ SIZE * threads \in Nat
          /\ poolbuf <= srcbuf(poolbuf) /\ srcbuf(poolbuf) + SIZE * threads <= dstbuf(poolbuf, threads)
          /\ dstbuf(poolbuf, threads) + SIZE * threads <= poolbuf + PoolSize(threads)
      <4> DEFINE tmp == tmpbuf(poolbuf, threads)
      <4>1. /\ dstbuf(poolbuf, threads) + SIZE * threads <= tmp
            /\ tmp + BLOCKSIZE * threads <= poolbuf + PoolSize(threads)
            /\ dstbuf(poolbuf, threads) \in Nat
        BY <2>1, <3>1, PoolLayout
      <4>2. tmp \in Int /\ PoolSize(threads) \in Int /\ BLOCKSIZE * threads \in Nat
        BY <2>1, <4>1, SMT DEF tmpbuf, align_up, ALIGN_PADDING, PoolSize, SIZE, BLOCKSIZE
      <4> HIDE DEF tmp
      <4>3. /\ srcbuf(poolbuf) \in Nat /\ SIZE * threads \in Nat
            /\ poolbuf <= srcbuf(poolbuf) /\ srcbuf(poolbuf) + SIZE * threads <= dstbuf(poolbuf, threads)
        BY <2>1, <3>1, PoolLayout
      <4> QED
        BY <3>1, <4>1, <4>2, <4>3
    <3>3. SIZE * w \in Nat /\ SIZE * w + SIZE <= SIZE * threads
      BY <2>3, <2>5
    <3>4. /\ InPart(Reads(worker_data[w]), srcbuf(poolbuf), w)
          /\ InPart(Writes(worker_data[w]), dstbuf(poolbuf, threads), w)
      BY <2>3, <2>5
    <3>5. PoolSize(threads) \in Int /\ SIZE \in Nat
      BY <2>1, SMT DEF PoolSize, SIZE, BLOCKSIZE, ALIGN_PADDING
    <3> QED
      BY <3>1, <3>2, <3>3, <3>4, <3>5, SMT DEF InPart, Apart, Within
  <2>6. ASSUME mainAt = "read"
        PROVE  latbuf # 0 /\ Within(RandomReads, latbuf, LatbenchSize + 4095)
    <3>1. /\ latbuf \in Nat \ {0} /\ testsize \in Nat /\ testoffs \in Nat
          /\ testoffs + testsize <= LatbenchSize
      BY <2>6, BenchAssumption DEF BenchInv, MemoryInv
    <3>2. buffer \in latbuf..(latbuf + 4095)
      BY <3>1, SMT DEF buffer, align_up
    <3>3. LatbenchSize \in Nat
      BY SMT DEF LatbenchSize, SIZE
    <3> QED
      BY <3>1, <3>2, <3>3 DEF RandomReads, Bytes, Within
  <2> QED
    BY <2>1, <2>4, <2>5, <2>6 DEF AccessesInside
<1> QED
  BY <1>1, BenchInvInit, BenchInvStep, PTL DEF BenchSpec
=============================================================================
