# Formal models of the Switch OC Suite

The repository overclocks a Nintendo Switch.  A patched *loader* widens the
frequency tables of the system's `pcv` and `ptm` services at boot, from a
customisation table in its own binary that a *web page* edits.  A *sysmodule*
(`Source/sys-clk-OC(deprecated)/sysmodule`) reads that table from the SD card and
decides, twice a second, at which of those frequencies the CPU, the GPU and the
memory run.  An *overlay* and other tools talk to the sysmodule over IPC; a
*memory tester* tells whether the memory stands it and a *benchmark* what it gains.

The models follow the chain: page, loader, sysmodule, overlay, tester, benchmark.  The
sysmodule has most of them: it keeps state, runs concurrently with everything
else on the console (its own IPC thread, a governor with up to five threads, the
system's power management, the user) and can leave the console outside the
limits it promises.  Paths below are relative to
`Source/sys-clk-OC(deprecated)/` unless they start with `Source/` or `pages/`.

Contents: [inventory](#inventory), [modules](#modules-and-the-code-they-model),
[runs](#what-is-checked), [proofs](#what-is-proved),
[disagreements found](#disagreements-between-code-and-text),
[abstractions](#abstractions), [what is not modelled](#what-is-not-modelled),
[plan](#plan).

## Inventory

| Part | State | Operations | Talks to |
|---|---|---|---|
| `Clocks` (`clocks.cpp`) | frequency tables and ranges, `allowUnsafe` | `GetNearestHz`, `UpdateFreqRange`, `SetHz`, `ResetToStock`, `GetCurrentProfile` | pcv, apm, psm |
| `Config` (`config.cpp`) | `config.ini`, its copy in memory, enabled flag, overrides | `Refresh`, `SetProfiles`, `SetConfigValues`, `SetEnabled`, `SetOverrideHz`, lookups | SD card; called by the tick thread and the IPC thread |
| minIni (`ini_putsection`) | `config.ini` and its copy `config.in~` | replace one section | SD card; called by `Config` under its mutex |
| `ClockManager` (`clock_manager.cpp`) | last tick's context, boost flag, real power state | `Tick`, `RefreshContext`, `WaitForNextTick` | all the others |
| `ReverseNXSync` (`oc_extra.cpp`) | modes forced by ReverseNX-RT and -Tool | `GetProfile`, `GetMode`, `Reset`, `SetRTMode`, `ToggleSync` | tick thread, IPC thread |
| `PsmExt` (`oc_extra.cpp`, `psm_ext.c`) | none of its own | `ChargingHandler` | psm |
| `Governor` (`oc_extra.cpp`, `oc_extra.h`) | owned modules, ranges, target clocks, two running flags, one thread per core and a manager thread | `SetConfig`, `SetMaxHz`, `SetMinHz`, `Apply`, destructor | tick thread, pcv |
| IPC server (`ipc_server.c`, `ipc_service.cpp`, `main.cpp`) | session table, worker thread | accept, serve, reply, shut down | overlay, ReverseNX-RT, main |
| `CustParser` (`file_utils.cpp`) | the tables it fills, once | search for the loader's KIP, `ParseLoaderKip`, DRAM voltages | `Clocks`, SD card |
| loader patcher (`Source/Atmosphere/.../oc`) | a code image being scanned, a count per patch | `SafetyCheck`, `pcv::Patch`, `ptm::Patch` | boot |
| timing tables (`mtc_timing_value.hpp`, `mtc_timing_table.hpp`) | none: functions of clock and presets | the adjustments of a timing table | `pcv::Patch` |
| Configurator (`pages/src/main.ts`) | files loaded, form, `last_saved` | load, type, defaults, last saved, save | its user, the loader |
| overlay (`overlay/src`) | stack of GUIs, each with copies of what it shows | open, pick, toggle, dismiss | sysmodule over IPC |
| Tesla (`overlay/lib/tesla`) | fade flags, `overlayOpen`, `running`, two threads | frame loop, `backgroundEventPoller`, `hide`, `close` | overlay, buttons |
| TinyMemBenchNX (`Source/TinyMemBenchNX`) | the pool, the barrier, arguments per worker, the round it is in | menu, pool, rounds of `parallel_init`, `parallel_run` and joins, `thread_func`, latency test | its user |
| MemTesterNX (`Source/MemTesterNX`) | job and report per worker, the memory under test | divide memory, tests, handshake of `main` and its workers | its user |

How they interact: `main` runs `Tick` and `WaitForNextTick` in a loop.  The IPC
thread runs a handler at any point of that loop; apart from
`GetCurrentContext`, no handler takes the mutex that `Tick` holds, so a handler
changes settings, overrides, the ReverseNX mode and flags between any two calls
of a tick.  The governor's threads set the clocks of the modules they own without
any lock.  `apm` sets all three clocks whenever it chooses another performance
configuration.  The user edits `config.ini` and docks, undocks and charges the
console.

Around the sysmodule: the page writes the customisation the loader patches with
and the sysmodule later finds on the card, in three languages with three copies
of the table's layout and ranges.  The overlay works on copies of the
sysmodule's lists and settings, over a session that may be gone, in an event
loop whose flags a second thread writes without a lock.

What is hard here, and what makes each part correct:

| Part | Hard behaviour | Correct when |
|---|---|---|
| `ClockManager` | a decision is spread over some twenty calls, each reading something another actor may have changed; what one call finds out must survive until a later one acts on it; the boost decision is taken before a sleep and acted on after it | no finished tick leaves a clock above its cap; every request, docking and reset is finally acted on; the boost goes when its reasons go |
| `Config` | two threads, a file with a coarse modification time, invalid values, a file that is edited from outside | values in memory are valid; what was saved is what is finally used |
| saving `config.ini` | several file operations, some with ignored results; power cuts | a save is all or nothing for everybody else; applied means saved |
| `ReverseNXSync` | a mode arrives before, during or after the tick that notices an application | the forced mode is finally the one used |
| `PsmExt` | two tests in one handler on a state read once | charging follows the limit and the forced disable |
| `Governor` | five threads of its own and the tick thread on unlocked fields, flags that are uninitialised, a manager that waits for the console to wake | stopped threads are gone when `Stop` returns, which it does; only clocks of owned modules are set; the clocks follow the load |
| IPC server | clients go away at any point; the exit request is served by the thread that `main` joins; table and kernel count sessions differently | table and open handles agree; shutdown ends; no handler runs on a deleted manager |
| loader patcher | one pass in which each patch must not see what another wrote; a dozen places that name the same clock; rounding and subtraction on unsigned words | what is accepted is consistent, within the limits, and asked for only what exists; everything else aborts |
| `CustParser` | blocks, file sizes and directories at their ends; a layout written twice | the sysmodule's tables are the driver's, and usable; a good KIP is found |
| Configurator | listeners of every load stay and share the offsets of the last one | a saved file is the loaded one with the values at their places, and boots |
| overlay and Tesla | whole lists written back from old copies; a failed request opens a screen under, over or instead of another; two threads on the flags of a fade | a choice changes what it is about; keys reach a GUI that knows the present; a fade out ends |
| TinyMemBenchNX | a barrier of one mutex and two condition variables, set up anew for every round; wake-ups nobody asked for; offsets into a shared pool | what is timed is the round, no more and no less; every test ends; nothing outside the pool is touched, and nothing by two |
| MemTesterNX | an untimed handshake through two words per worker; patterns that depend on two halves | the verdict is right |

`PROJECT.json` lists every component, modelled or not, and under "hazards" the
lines where these things bite.

## Modules and the code they model

```
Clocks ── Config ── ClockManager ── MCClockManager        (Caps, Synced, ForceDisable, ReverseNX)
   │                     └── ClockManagerProofs
   └── Governor ──┬── MCGovernor                          (Governor, StaleTarget)
         │        └── GovernorProofs
         └──> ClockOwner
IpcServer ── IpcServerProofs                              (IpcServer)
SettingsStore <── ConfigStore ── ConfigStoreProofs        (ConfigStore)

Timings ── Customize ──┬── PcvPatcher ──┬── Loader ──┬── Boot ──┬── MCBoot     (Boot)
                       │       └── DriverImages ─────┼──────────┤
                       │   PtmPatcher ──┘            │          └── BootProofs
                       ├── CustParser ───────────────┘
                       └── Configurator ──┬── MCConfigurator              (Configurator)
                                          └── ConfiguratorProofs
Tesla ── Overlay ── OverlayProofs                                         (Overlay)
MemTester ──────┬── MCHomebrew                                            (Homebrew)
TinyMemBench ───┘
   └── TinyMemBenchProofs
```

**Clocks** has no variables.  A frequency is a number of 100 kHz (`10200` is
1020 MHz; `mhz * 10` is the code's `mhz * 1000000`), a table is a sequence, and
the pointers `min` and `max` of a `FreqRange` are indices.  `CpuCap` and `GpuCap`
are the cap tables of `UpdateFreqRange`, `GetNearestHz` is `GetNearestHzPtr` with
the range of a module in a power state, `GetStockClock` is apm's table.
`TableAssumption` and `SortedAssumption` say what `ParseLoaderKip` takes out of
the loader's image: non-empty tables with room for the terminating zero, in
ascending order, `maxMemFreq` last in the memory table.

**Config** is the settings: `file` (`config.ini`), `profiles` and `configValues`
(the copy in memory), `enabled` and `overrideFreqs`.  Each operation holds
`configMutex` or `overrideMutex` to its end, or touches one atomic, and is one
step.  A modification time is only ever compared with the one of the last load;
the model keeps the outcome, `fileNewer`.  With `CoarseMtime` a write may leave
the outcome as it was (two writes in one granule of the file system).
`ParseMhz` and `ValidValues` are the two conversions a load makes.

**ClockManager** composes the two with the console (power, application,
performance configuration, clocks, battery), `ReverseNXSync`, the charging
handler and the governor as the tick thread sees it.  The tick thread is a
program counter `pc` over the calls of `Tick`, `RefreshContext` and
`WaitForNextTick` that read something others may change: 19 steps and the end,
in the order of the code, with its early exits.

| `pc` | Action | Code (`clock_manager.cpp`) |
|---|---|---|
| `charging` | `ChargingHandler` | `PsmExt::ChargingHandler`, called first in `Tick` |
| `profile`, `config` | `RefreshProfile`, `RefreshConfig` | real profile, then `Config::Refresh`, which overwrites `hasChanged` |
| `sync`, `unsafe`, `boost` | `ToggleSync`, `SetAllowUnsafe`, `SetGovernorBoost` | what a reloaded file changes at once, each value read under a lock of its own |
| `enabled`, `app` | `RefreshEnabled`, `RefreshApplication` | enabled flag; a new application resets ReverseNX's modes |
| `governor` | `SetGovernorConfig` | `Governor::SetConfig` as a whole (module `Governor` opens it up) |
| `perfConf`, `nominal` | `RefreshPerfConf`, `RefreshNominalProfile` | apm's configuration, the profile after ReverseNX |
| `reset`, `stock` | `ResetToStock`, `SetStock` | the reset when something changed |
| `clocks`, `drop` | `RefreshClock`, `DropOverride` | the loop over the modules of `RefreshContext` |
| `apply`, `readback` | `Apply`, `ReadBack` | the loop of `Tick`: `GetHz`, the governor's range, `SetHz`, read back |
| `wait`, `measure` | `WaitForNextTick`, `MeasureCore3` | the automatic boost before and after its sleep |

Around it, `Ipc` is the handlers that change state, `Console` the power state,
the application, apm, the battery and edits of the file, and `GovernorThreads`
the governor's threads seen from outside: a module they own goes to any clock of
`GovernorTargets`, and one call may still reach a module they have just lost.

**Governor** has the governor's threads one by one.  `setter` is the tick thread
inside `SetConfig` or the destructor (start, clear the flag, join), `manager` the
manager thread's loop, `worker[c]` one thread per core.  `ApplyTargetFreq` is two
steps everywhere, the store of `m_target_hz` and the call of `SetHz`.  Fields the
constructor leaves uninitialised start with any value of `HeapFlags` and `HeapHz`.

**ClockOwner** is the abstract specification of it, the governor as the tick
thread may think of it: an owner of the modules it was given last.  While it is
told of others (`SetConfig` to `Return`) it may set those of either; a thread that
ends (`Release`) owns nothing any more; one call may be `late`, for a module that
has gone, and none is when the last module or the governor itself has gone.
`Governor` is shown to implement it, by TLC and for every value of the constants by
proof.  The mapping: owned is what a live manager looks up in `m_config`, and the
CPU as long as a worker lives; late is a call of the manager for anything else.  The
clocks it may set are those that a table, a range or a boost names (`Named`).
`GovernorStep`, `LateGovernorStep` and `SetGovernorConfig` of `ClockManager` are its
`Set`, `SetLate` and `SetConfig` with `Return`; a clock may be one that was found
before the range or the configuration changed, so `GovernorTargets` does not
depend on the range alone.

**IpcServer** is the session table, the thread that serves it, and `main` around
them, against clients that connect, ask and vanish.  What a request asks for is
reduced to how the server treats it (`Requests`).  The kernel is modelled as the
code relies on it: a wait prefers a ready object to a cancellation, a
cancellation that finds no wait is kept for the next one, and the port admits
`max_sessions` sessions.

**SettingsStore** is the abstract specification of a save: one step that changes
one section of the saved settings and of their copy in memory, or nothing.
It is what module Config takes `SetProfiles` and `SetConfigValues` for.
**ConfigStore** is how the code does it, `ini_putsection` and `close_rename` one
change of the SD card at a time, with operations that fail (`Failing`) and power
cuts.  The refinement mapping shows the new version as soon as the old file is
removed (`Replacing`).  What a load makes of a section (`ValidValues`,
`ParseProfiles`) is left to Config.

**Timings** is the arithmetic of the memory controller: cycles of a time at a
clock, the presets, the arbiter's bytes, the PLL's divisors.  Times are integers
in the smallest unit the code's constants need, and rounding is the code's.
**Customize** is the customisation table, as shipped, with the ranges
`SafetyCheck` allows and the tables each undervolting level selects.

**PcvPatcher** is `pcv::Patch`.  An image is `word`, the 32-bit words of the
driver that matter (tables with their rows, limits, instructions, regulators),
and `regs`, the registers behind a timing table's rate.  The patcher looks at one
address in one step: every patch whose pattern matches there checks its
surroundings; the first to pass writes and counts, and none need pass.  A value
out of range before the scan, or a patch applied too often after it, is the
loader's `CRASH`.  **DriverImages** has no state: it says when an untouched image and a
customisation let this scan work (`Driver`).  **PtmPatcher** is the search for ptm's table of
configurations and its entries.  **Loader** runs the one after the other.  **CustParser** is the
sysmodule's search through four directory listings, block by block through each
candidate file, and what it makes of the table it finds.  **Boot** composes
loader and sysmodule on one console: the loader's customisation, the KIP on the
card and the tables of the driver are then three states that should agree.

**Configurator** is the page.  `buffers`, `originals` and `downloads` have an
element for every file loaded, because every load adds its own listener to the
Save button and none is removed; `offset` is shared and the last load's.  A load
that fails half-way has moved some offsets and taken the form away, which is why
`form` may be `NaN`.

**Tesla** is the frame loop (`main`) and `backgroundEventPoller` (`poller`), one
step per group of writes to the flags they share without a lock, including
`animationLoop` overwriting the counter the poller just set.  **Overlay** is the
GUIs on its stack: a GUI is a record of what it has read (`app`, `list`,
`config`), the frequency chooser also of the GUI its listener belongs to
(`owner`).  Each key is an action, with the request it sends, the reply and the
`FatalGui`s a failure pushes.  Around it the application changes, the sysmodule
goes away, and `config.ini` is loaded or edited.

**MemTester** is MemTesterNX: `main` dividing the heap between the workers, a
step per block it probes, frees and shares out, the handshake over `testJobId` and `testWorkerReport`, and the tests, carried out in
full on the words of one watched worker whose memory has one fault or none.  The
others answer as good memory does.

**TinyMemBench** is TinyMemBenchNX: `main` through menu, pool, rounds and latency
test, and a thread per worker.  `InitBarrier`, `CreateWorker` and `AwaitWorkers`
are `parallel_init`; `SetData`, `parallel_run`, `Broadcast` and `JoinWorker` are
what `bandwidth_bench_helper` does with the workers before it looks at the clock
again; `thread_func` is a worker.  A section under `p_lock` is one step, as is a
`pthread_cond_wait` up to its return, which may come without a signal (`WakeUp`).
A benchmark is what it reads and what it writes, runs of bytes computed from the
real sizes and offsets.  Time is not kept: half a second may hold any number of
rounds.  Threads can be created and the pool can be had.  `p_worker` and
`worker_data` are allocated once, for as many workers as the first test has;
"overrun" is where a later test with more of them writes past their end, and the
model does not follow it further.

**MCHomebrew** starts either MemTesterNX or TinyMemBenchNX (`app`) and instantiates
both modules.  **MCClockManager** and **MCGovernor** bound how often anyone but the modelled
thread acts (`MaxEvents`) and define the tables and settings of the runs.  In
`MCClockManager` the first `config.ini` is one of `FirstFiles`, only the profiles of the
game and the global ones are edited, and `said` remembers which mode ReverseNX-RT has
sent for the application that runs.  `TickingSpec` is `MCSpec` with its fairness
written as what it comes to: the tick thread goes on until it has left `main`'s loop.

## What is checked

Runs that pass:

| Run | Shows | Properties |
|---|---|---|
| `Caps` | docking, undocking, loading screens, unsafe clocks and settings at any point of a tick; a coarse file time; clocks moved between a set and its read-back | `CapHeld`, `BoostNeedsCharger`, `SetWithinCap` |
| `Synced` | a title and the global profile that wish for different clocks, memory clocks above 1600 MHz among them; two applications, one of them patched to handheld mode, and modes sent by ReverseNX-RT; synchronisation switched on and off; a governor that comes and goes with the power state and with settings noticed in the middle of a tick; loading screens, a charger, charging limits, a temporary override: no request is lost | `SettingsCurrent`, `SettlesOnRequest`, `ChargeLimitHolds`, `GovernorRangeSettles`, `OneOwner` |
| `Governor` | the governor's own threads, started and stopped, with sleep, resets and load changes, implement `ClockOwner` | `OwnsItsClocks`, `NoThreadLeft`, `SetConfigReturns`, `GpuFollowsLoad`, `BoostSettles` |
| `IpcServer` | three clients at a service for two, and its shutdown | `TableIsOpen`, `RoomForSession`, `NoHandlerAfterDelete`, `ExitCompletes`, `EveryRequestEnds` |
| `ConfigStore` | a save with files that do not open and a power cut at any point implements `SettingsStore` | `AppliedIsSaved`, `SavesAreAtomic` |
| `Boot` | both chips, firmwares laid out in two ways and one that must be refused, eight customisations, four ptm tables, SD cards with good, cut, misplaced and foreign KIPs | `BootTypeOK`, `ScanUnaffected`, `TablesAgree`, `MemoryAgrees`, `TimingsFit`, `RequestedRatesExist`, `ClocksMatchDriver`, `TablesUsable`, `KipFound`, `VoltagesSafe` |
| `Configurator` | six files, two loads, a value typed at or beyond the end of its range, defaults and last saved in any order | `SavedIntact`, `SavedBoots` |
| `Overlay` | both threads of the overlay, a sysmodule that leaves, two applications, an edited file | `OverlayTypeOK`, `InputIsCurrent`, `EditsOneItem`, `HideCompletes` |
| `Homebrew` | the tester: three workers, memory without a fault and with a stuck or a shorted bit; the benchmark: three workers, every benchmark of the quick and the bandwidth test, a wake-up nobody asked for in each round, and the latency test | `Verdict`, `RoundIsWhole`, `AccessesInside`, `TestsEnd` |

Runs that find a violation are under
[disagreements](#disagreements-between-code-and-text).  Every property of a
passing run has a mutant in `PROJECT.json`: a plausible mistake in the code (a
dropped guard, a forgotten read, a missing join) that breaks it.  The type
invariants of `ClockManager`, `ConfigStore`, `Configurator`, `Governor` and
`IpcServer` have no run: they are proved.

How the properties read:

- `CapHeld`: when a tick is finished and no application is loading, each clock is
  within the cap of the power state that tick saw, or one that apm itself asks
  for, or a fixed CPU clock.  It relates the clocks to what was read some fifteen
  calls earlier.
- `SetWithinCap`: no call of `SetHz` outside a reset passes a clock above the
  cap, in whatever mode the console is.
- `BoostNeedsCharger`: a boost that outlives a tick is one that the charger, the
  enabled flag and the CPU clock allowed when they were last looked at.
- `SettingsCurrent`: a change of the settings reaches the tick thread by the file's
  modification time alone.  Between the `Refresh` that takes it in and the next
  change, the maps, the values and the tick thread's copies of three of them are
  what the file says, although clients save at any point of a tick.
- `SettlesOnRequest`: once everybody but the tick thread stops acting, the clocks
  end up as override, title profile, global profile, ReverseNX preset and cap say.
  The exception is the *preset* of a mode ReverseNX-RT sends that does not change the
  nominal profile (`UnnoticedPreset`): no change is signalled for it, so a clock that
  nothing else names stays as it was.
  The right-hand side, `Expected`, is computed from the console and the *file*,
  not from the tick thread's variables.
- `GovernorRangeSettles`, `OneOwner`: the range the governor was given settles on
  what was asked for, and while it owns a module the tick thread sets that
  module's clock only to reset it.
- `OwnsItsClocks`: the threads, with no lock between them, implement `ClockOwner`:
  every clock they set is a named one of a module that is theirs, or the one late
  call.
- `NoThreadLeft`, `SetConfigReturns`: what `SetConfig` and the destructor stop is
  gone when they return, and they return.
- `GpuFollowsLoad`, `BoostSettles`: under a constant load the GPU clock ends at
  the end of its range the load calls for, and in a loading screen at the boost
  clocks, whatever moved the clocks in between.
- `TableIsOpen`, `RoomForSession`, `EveryRequestEnds`, `ExitCompletes`,
  `NoHandlerAfterDelete`: see the inventory's row of the IPC server.
- `SavesAreAtomic`, `AppliedIsSaved`: see `SettingsStore` above.
- `ScanUnaffected`: every patch is applied exactly where its pattern was in the
  *unpatched* image; no patch makes or destroys a place another one looks for,
  although the scan reads words that patches before it have written.
- `TablesAgree`, `MemoryAgrees`: the places of an accepted image that name the
  same clock do agree: table, voltage rail and instructions; timing tables,
  limits and voltage table.  Of the firmware's memory rates exactly the displaced one
  is gone (1331.2 MHz on Mariko, 40.8 MHz on Erista), a moved timing table keeps its
  registers, and Mariko's new table has divisors that make its rate, to within 9.6 MHz
  from below.
- `TimingsFit`: the registers of the overclocked table are not negative and none that
  may not be 0 becomes 0; the turns, covers, hold-off and latency allowance are not cut
  by the `u8` they pass through; and the self-refresh control, extrapolated in a `u32`
  from two tables of the firmware, does not wrap.  The last needs what the code takes
  for granted, that it grows from the one table to the other, and by no more than
  2924 (`SelfRefGrows`): a smaller one of the faster table would make the difference huge.
- `RequestedRatesExist`: ptm asks for no memory rate whose table was given up.
- `ClocksMatchDriver`: the frequencies the sysmodule offers are the driver's.
- `TablesUsable`: `TableAssumption` and `SortedAssumption`, on which the proofs
  about the sysmodule rest, are what `CustParser` leaves behind.
- `KipFound`: the sysmodule gives up only when there is no usable KIP.
- `VoltagesSafe`: rounding never takes a memory voltage out of its limits or off its
  regulator's step.  CPU and GPU voltages are copied as they are.
- `SavedIntact`, `SavedBoots`: what the page saves for the last loaded file is
  that file with the values where they belong, and passes the *loader's* checks.  An
  *older* file's listener runs on the same click and writes its own buffer at offsets that
  need not be its own: that download may be corrupt, and no property is about it.
- `InputIsCurrent`: no key reaches a GUI that has not read its context, or the
  profile of an application that is known to be gone.  (A list of frequencies opened
  above that profile still takes keys; `EditsOneItem` says what a choice then changes.)
- `EditsOneItem`: writing a whole list back changes one item, plus at most what
  was edited behind the overlay since the list was read.
- `HideCompletes`: an overlay that fades out does go away, whichever thread told it to,
  unless the poller told it to in the middle of a fade in, which may go wrong; see
  [below](#disagreements-between-code-and-text).
- `Verdict`: workers stay within their memory; an error is shown only for a
  fault; good memory is tested for ever; and a fault in the first half is
  reported although the workers' answers are polled without a lock.
- `RoundIsWhole`: when the clock of a round starts, every worker has come to the
  barrier and none has passed it; one that passed it has this round's arguments;
  when the clock stops none is left.
- `AccessesInside`: what a worker or the latency test touches is allocated, and no
  worker writes where another one reads or writes.
- `TestsEnd`: no signal of the barrier is lost, so a test that began ends.

### Bounds, and why they are enough

| Bound | Value | Why |
|---|---|---|
| `MaxEvents`, `MCClockManager` | 2 actions by anyone but the tick thread | The tick thread's memory of the past is one tick deep (it compares with the last tick's value), and initial states already cover every first file, power state and application of the run.  Two actions, each at any of the 19 points of any tick, are every pair of a change and a second change that hides, undoes or races it. |
| `MaxEvents`, `MCGovernor` | 3 (`StaleTarget`: 4) | start, change, stop; the counterexample of `StaleTarget` needs four. |
| tables | 3 to 6 entries per module | every frequency the code names, one below and one above each; caps, boost clock, stock clocks fall on different entries |
| applications | 1 or 2 | two where an application changes |
| profile lists | 2 in `Caps`, 3 in `Synced` | nothing set and clocks above every cap in three profiles; nothing, a title's and a global list that name the same clocks differently, one with a governed GPU |
| cores | 2 | the system core and one other; workers are alike |
| `UpdateRate` | 2 (code: 20) | only that some loops refresh and some do not matters |
| sessions | 3 for a limit of 2 | one more than fits |
| sections, lines | 2, 2 | the one saved and one that must not change, each with two keys |
| images of `Boot` | the structures the patches look for, in either order, once or twice, among words that resemble one of them | a patch looks at most a table's length around its address; what separates structures in the binary changes nothing |
| customisations | five that are accepted, three that are not | each undervolting level, each `mtcConf`, presets off, middle and high, values that round, and the memory clock below, at, between and above the stock rates |
| `entryCnt` | 4 (code: 16) | one entry of each case `PtmPatcher` tells apart |
| `MaxLoads`, `MaxEdits` | 2, 1 | a second load is what moves the offsets of the first; edits are independent per input; saves are not bounded |
| `FadeSteps` | 5, as in the code | with fewer the two threads do not meet in the middle of a fade |
| `MaxChanges`, `Overlay` | 2 | a list read, changed by one side, then by the other |
| memory of `MemTester` in `Homebrew` | 8-bit words, 24 words of RAM, 3 workers; random words from `{0, 93}` | two halves with neighbours on both sides, one worker with a block that must be moved to its page; all patterns and their complements |
| `THREADS`, `MAXREPEATS`, `Wakeups`, `Addresses`, `Random32` of `TinyMemBench` | 3 (as in the code), 4 (code: 10), 1, one address, three numbers | three measurements and one more are all the cases of the loop over measurements; a wake-up in each round falls on any worker or on `main` at any point; the proofs cover every other value |

Constants in a `.cfg` that are switched off name what a run leaves out; the
next paragraph names what happens with them on.
`CHECK_DEADLOCK FALSE` is set where the system may really stop: a governor
without modules or after its destructor, a service after its shutdown, a console
that has booted or aborted, an overlay that has ended, a memory tester that
shows its error, and a benchmark its user has left.

Not kept as runs, but found with the same modules: `SettlesOnRequest` is refuted
without its exception (a mode sent by ReverseNX-RT signals no change, so a clock of its
preset follows only when the profile changes too), with `CoarseMtime = TRUE` (an edit
of the file in the same granule as the load is never noticed) and with
`SlowCalls = TRUE` (a clock moved by apm between `SetHz` and the read-back is taken for
the one just set, and one between the question to apm and the reset for the stock
clock).  The last two contradict nothing the repository says in words; they are hazards.
What the first comes to is told with the run `ReverseNX`.

### Fairness

- `MCClockManager`: weak fairness of the tick thread, in `TickingSpec` put as infinitely
  many steps of it until the exit (it is always enabled until then).  It runs in a loop of
  its own and only waits for mutexes that are held for one operation.  Nobody else,
  user, apm, clients, governor, is obliged to act.
- `Governor`: weak fairness of the setter, of the manager and of each worker
  (each is a thread of its own that sleeps with `svcSleepThread`, one worker per
  core), and of waking up: a console that sleeps for ever is off.
- `IpcServer`: weak fairness of the IPC thread and of `main`; none of a client.
- `Overlay`: weak fairness of the frame loop, of the steps it takes in the GUIs
  (`update`, `handleInput`, which a frame without a key fulfils) and of the
  poller once it has begun to hide; none of the user, the sysmodule or the
  applications.
- `MemTester`: weak fairness of `main` and of each worker, which are threads of
  their own; none of the user.  `FrameCoversPoll` says that a frame of `main` is
  longer than a worker's sleep between two looks at its job.
- `TinyMemBench`: weak fairness of `main` between two keys and of each worker, which
  are threads, and strong fairness of `TimeIsUp`: rounds repeat until half a second
  of work has been timed, and time passes in each.  None of the user or of
  wake-ups without a signal.
- The liveness properties of the sysmodule all start from "the others come to
  rest" (`AtRest == <>[][...]_vars`), so they ask nothing of the environment but
  to stop.

## What is proved

TLAPS checks these for every value of the constants that satisfies the named
assumptions (`TableAssumption`, `SortedAssumption`, `ConfigAssumption`,
`EnvironmentAssumption`, `GovernorAssumption`, `SessionsAssumption`,
`StoreAssumption`, `BoundsAssumption`, `KipFilesAssumption`, `TypedAssumption`,
`OverlayAssumption`, `FadeAssumption`, `NsosAssumption`, `CustomsAssumption`,
`PtmImagesAssumption`, `entryCntAssumption`, `CardsAssumption`,
`BenchAssumption`), so for all tables, titles, settings, cores, sessions, sections,
files, firmware images, customisations, cards and addresses, and with no bound on
events, loads or edits.

What the assumptions of the boot say: an image is any sequence of numbers longer
than a timing table; wherever it has a rate of the memory's list with the revision
in front, registers stand behind it, and those of the firmware's own tables are
in the range `FirmwareTimings` gives (counts that are not negative, an
arbiter's delays that fit seven bits).  A customisation is any record of numbers
(`CustomizeTable`): what `SafetyCheck` refuses it refuses in the model, too.  A
card is any four lists of files.

| Theorem | Statement | Argument |
|---|---|---|
| `ClockManagerProofs!NearestWithinCap` | a request becomes an entry of the module's table inside its range, so a positive clock not above the cap, and one below the request only at the cap | The index found is the least of a non-empty set or the end of the range; sortedness turns an index bound into a frequency bound. |
| `ClockManagerProofs!TypeCorrect` | `Spec => []TypeOK` | `TypeOK` alone is not inductive: the application and the configuration are "none" until asked for.  `ContextKnown` says at which `pc` they are known. |
| `ClockManagerProofs!SetsWithinCap` | `Spec => SetWithinCap` | from `TypeInv` and `NearestWithinCap`, step by step |
| `ClockManagerProofs!CapSafe` | without ReverseNX and the governor, `Spec => []CapHeld` | `CapInv`: outside a loading screen the clocks are within the caps, *or* the tick is still to find out that the power state changed (`profile # realProfile`), *or* it has found out that something changed (`hasChanged`) and is about to reset.  `RnxOff` and `GovernorOff` carry the hypotheses. |
| `ClockManagerProofs!BoostSafe` | without the governor, `Spec => []BoostNeedsCharger` | `BoostInv`: what was seen before the sleep still holds after it, because only the tick thread writes it |
| `ClockManagerProofs!OneOwnerHolds` | `Spec => OneOwner` | `MeasuresOwnClock`: the owner is chosen in `RefreshContext` only, so the CPU measured before the sleep is still nobody's after it |
| `ClockManagerProofs!SettingsAreCurrent` | without coarse times, `Spec => []SettingsCurrent` | inductive as it stands: only `Refresh` makes the time known, and the steps that copy the values follow it before anything else of the tick; whoever changes file or values in between makes the time unknown again |
| `GovernorProofs!GovernorTypeCorrect`, `NoThreadLeftHolds` | `Spec => []TypeOK`, `Spec => []NoThreadLeft` | `ThreadInv`: a thread that lives has its flag set or the setter waits for it (`WaitedFor`); what the setter has waited for is dead, and the configuration says so (`SetterInv`) |
| `GovernorProofs!OwnsItsClocksHolds` | `Spec => OwnsItsClocks`: `Governor` implements `ClockOwner` | `OwnerInv`: `ThreadInv`, and whatever a field or a thread about to set a clock holds is named (`FieldsNamed`, `CallsNamed`).  A worker or the manager that ends is one the setter waits for (`WaitedFor`), so it is a `Release`; the setter's last step is the `Return`, with every thread for a lost module dead (`SetterInv`) and no call left when there is no module; the second half of `ApplyTargetFreq` is `Set`, or `SetLate` when the configuration has changed since the first; the other steps stutter. |
| `IpcServerProofs!ServiceTypeCorrect`, `TableIsOpenHolds`, `NoHandlerAfterDeleteHolds`, `RoomForSessionHolds` | the safety invariants of the service | `ServiceInv`: queue, table and the session in hand share nothing (`TableInv`); what the thread was woken for is still there (`WokenInv`); the port's limit (`LimitInv`, with a counting argument over distinct handles for `RoomForSession`); `ShutdownInv` |
| `ConfigStoreProofs!SavesAreAtomicHolds`, `AppliedIsSavedHolds` | without silent failures, `ConfigStore` implements `SettingsStore`, and what is applied is saved | `Progress` says what the files are at each step of a save; `WriteNew` or `RemoveOld` maps to the abstract save, `Load`, `Edit` and `PowerCut` to theirs, the other steps to stuttering |
| `ConfigStoreProofs!StoreTypeCorrect` | `Spec => []TypeOK`, whatever fails | `TypeInv`: `TypeOK` allows a store that has read nothing yet; a save starts only after a load, and copies a file only if there is one, so what it writes are contents |
| `ConfiguratorProofs!ConfiguratorTyped`, `SavedFilesIntact`, `SavedFilesBoot` | the safety invariants of the page | `Inv`: every load has left a listener with its buffer and download (`Shapes`), the offsets are those of the last file that was looked at (`OffsetsOfLast`), and a download is made from the buffer of its own listener only (`LastBuffer`, `LastDownload`) after the form was validated (`Validated`).  A load that fails moves the offsets, but it takes the inputs away first, so nothing is saved until a load succeeds. |
| `OverlayProofs!OverlayTyped`, `InputIsCurrentHolds`, `EditsOneItemHolds` | the safety properties of the overlay | `FadeInv`: a shown overlay with a counter of 0 is about to fade in or to be hidden, so no fade starts where the `u8` would wrap.  `GuiInv`: one `Main`, below all, and one `AppProfile`, on it (`Fits`); while the sysmodule answers, a `FatalGui` is on top or nowhere (`FatalOnTop`), so the one GUI whose copy a failed save has spoilt can only be left; a copy not spoilt differs from the sysmodule's list only where that was edited since (`Fresh`). |
| `BootProofs!BootTypeCorrect` | `BootSpec => []BootTypeOK` | `BootInv`: a patch writes where its pattern was read, so inside the image; `Holds` at an address puts the whole pattern there |
| `BootProofs!BootIsSafe` | `BootSpec => []VoltagesSafe` | `VoltInv`: a regulator that was found keeps the words it is known by, whatever is found after it.  Each patch validates the words around what it writes, and those of a regulator fail that.  A timing table is the hard case, for the displaced table moves words nothing validates; but the words beside them are validated, and one of those would be the regulator's.  With the safety check's ranges, rounding leaves each voltage within limits and on its step (`RoundedMemVoltRange`, `RoundedVddqRange`). |
| `BootProofs!KipIsFound` | `BootSpec => []KipFound` | `SearchInv`: everything before directory `dir` and position `pos` was looked at and not taken; and the search by blocks takes what is whole |
| `BootProofs!MemoryIsWhole`, `TablesEndTogether`, `TimingsAlwaysFit` | `BootSpec => [](LaidOut => P)` for `MemoryAgrees`, `TablesAgree`, `TimingsFit` | `SiteInv`: a word that differs from the firmware's lies in a structure that was found (`Traced`), and each structure is the firmware's with its own patch applied and nothing else (`Alone`).  The accepted image is then that of one application of each patch, which arithmetic settles: the rows of a table before and after (`TableLen`), the places the rates stand at, and for `TimingsFit` bounds on the formulas of a timing table over the whole range of clocks and presets, those that pass through a `u8` or an extrapolation included, and on what the PLL makes of its divisors. |
| `BootProofs!RatesSurvive` | `BootSpec => [](LaidOut => RequestedRatesExist)` | `RatesInv`: the entries ptm's patcher has passed name only clocks of `KeptRates`; `MemoryIsWhole`'s invariant says that those are the ones that keep a table |
| `BootProofs!TablesAreUsable` | `BootSpec => []TablesUsable` | `ReadyInv`: nothing is filled in before a KIP is taken, and everything then, from that KIP; each table the loader ships begins with the rows of the stock one and ascends (`CpuTables`, `GpuTables`) |
| `BootProofs!ClocksAgree` | `BootSpec => [](LaidOut => ClocksMatchDriver)` | the last three together, with `BoostInv`: the boost clock in the sysmodule's copy and the one ptm was given are the same value of the customisation; that it is an entry of a table is not said |
| `BootProofs!ScanIsUnaffected` | `BootSpec => [](Driver => ScanUnaffected)` | `ScanInv`: what was applied so far is what the untouched image calls for (`AsFound`), so the image is laid out so far.  For the word the scan is at there are two cases.  It is still the firmware's: then its pattern matches as it did, and a check of its surroundings that now comes out otherwise would need words an earlier patch has changed, which `NothingHalfMade` excludes (`FoundAgain`).  Or it was written ahead of the scan by an earlier patch: then the firmware has nothing there (`SiteNotReached`), and none of the nine kinds of words a patch writes ahead is found by another (`NothingAhead`): it is no word any pattern begins with (`Key`), or the words beside it, which the same patch wrote, are not those that pattern needs. |
| `BootProofs!VerdictOfFirmware` | `BootSpec => [](Driver => VerdictIsFirmwares)`: an image is accepted exactly when the customisation is in range and the untouched image calls for each patch as often as it should | `AsFound` at the end of the scan.  So a firmware that is accepted with one customisation in range is accepted with every other that asks for the same patches. |
| `BootProofs!DriversAgree` | `BootSpec => [](Driver => P)` for the six properties about patched images together | `DriverIsLaidOut`: with `AsFound`, a driver's image is `LaidOut` at every step |
| `TinyMemBenchProofs!BenchTyped`, `RoundsAreWhole` | `BenchSpec => []BenchTypeOK`, `BenchSpec => []RoundIsWhole` | `BarrierInv`: where a worker may be follows from where `main` is (`Places`); `p_worker_not_ready` is the number of workers that have not come (`Uncounted`), a cardinality that one step changes by one; `p_workers_ready` is 1 only between broadcast and joins.  It uses that the counters are set up anew before the threads are |
| `TinyMemBenchProofs!AccessesStayInside` | `BenchSpec => []AccessesInside` | `MemoryInv`: arguments are complete before the workers start and stay until they are joined.  `PoolLayout`: the three parts of the pool follow each other for every address and number of workers, rounding up takes less than the nine megabytes of slack; `PartsFollow`: so do the workers' shares; `OffsInside`: a masked random offset and its block are within the latency buffer |

`LaidOut` says that the structures the loader finds in an image have words of their
own, lie inside it, and that a CPU or GPU table has room to grow.  It speaks of the
structures found, which only the scan knows, so it is a hypothesis under the box
and not an assumption.  The last three theorems replace it by `Driver`, which looks
only at what is loaded (module `DriverImages`):

- `DriverImage(nso)`, of the *untouched* image: every structure has its words to
  itself, with the longest table it may be replaced by and an empty row
  (`SitesApart`, `RoomToGrow`), and nothing is half made (`NothingHalfMade`): where a
  word looks like the beginning of a structure that would reach into words a patch
  before it may have changed, a word that cannot have changed rules it out.  It is
  a fact about Nintendo's binaries, not about this code: an image in which a timing
  table overlaps a voltage table would be patched to nonsense by design.  `MCBoot`
  assumes it of the images of the run (`ImagesAreLaidOut`), so TLC shows that it
  is met, by images with look-alikes of structures among them.
- `GpuVoltsNoLimit(cust)`, of the customisation: no voltage for GPU undervolting is
  1600 mV or more.  `SafetyCheck` does not look at these voltages, they are written
  in uV ahead of the scan, and 1600000 is also the rate in kHz that the memory's
  patchers look for.  With 1600 mV in `marikoGpuVoltArray` and `marikoGpuUV` 3
  TLC finds `ScanUnaffected` violated.  The voltages as shipped are 610 to 815 mV.

`KipIsFound`, `BootTypeCorrect`, `BootIsSafe` and `TablesAreUsable` need neither.

The attempt to prove `TablesUsable` showed that it needs a condition: the sysmodule
appends the memory clock of the KIP to its table without looking at it, so a KIP
with a clock below the last stock rate leaves a table that does not ascend.  The
loader refuses to boot with such a clock, so the property asks for a whole KIP whose clock
the loader would take.  The proof of `TimingsFit` likewise needed to know what
the firmware's own registers are (`FirmwareTimings`): a register the presets leave
alone is only as good as the firmware's, and the self-refresh control only if the two
tables it is extrapolated from ascend (`SelfRefGrows`).

The hypotheses are not conveniences.  `SettingsCurrent` is violated with
`CoarseMtime = TRUE`.  `CapHeld`, `BoostNeedsCharger` and
`AppliedIsSaved` have counterexamples without `NoReverseNX`, `NoGovernor` and
`NoSilentFailure` (the three entries without a run of their own in the first list under
[disagreements](#disagreements-between-code-and-text); switch on `ToolMode`, the
governor's setting or `Failing = {"rename"}` in the `.cfg` to see them).
`CapHeld` needs `NoGovernor` as well: with `Caps.cfg` and a governor in its
settings, the governor raises the GPU to the end of its old range between the
reset and the call of `SetMaxHz` of the same tick, and the clock stays above the
new cap until the governor's next step.

Only model-checked:

- everything under fairness: `SettlesOnRequest`, `ChargeLimitHolds`,
  `GovernorRangeSettles`, `SetConfigReturns`, `GpuFollowsLoad`, `BoostSettles`,
  `ExitCompletes`, `EveryRequestEnds`, `HideCompletes`, `TestsEnd`, `Verdict`.
  Liveness is beyond the prover.
- the safety half of `Verdict`: `MemTester` works with bitwise operators, which are
  recursive definitions.

## Disagreements between code and text

Three runs end in a counterexample:

| Run | What happens | What the repository says |
|---|---|---|
| `ForceDisable` | The handler disables charging on one tick and, since the second test does not look at the forced disable, enables it on the next. | "Force Disable Charging", `overlay/src/ui/gui/misc_gui.cpp:127` |
| `ReverseNX` | ReverseNX-RT sends a mode for the application that has just started; the tick that then notices the application resets the modes (`clock_manager.cpp:256`), and this one with them.  The nominal profile never follows. | "Sync nominal profile (mode) with ReverseNX (-Tool and -RT)", `README.md:220` |
| `StaleTarget` | Two threads interleave store and call; the CPU clock then differs from `m_target_hz`, which is never read back for the CPU, and a loaded CPU stays at its lowest clock. | the formula in the comment at `oc_extra.cpp:144` |

Three more are what the hypotheses of the proofs exclude, and show as
counterexamples once the constants allow them:

- A console that ReverseNX-Tool forces to docked mode loses its charger.
  `RefreshContext` sets `hasChanged` for the new power state at
  `clock_manager.cpp:228` and overwrites it at 231; the nominal profile is
  "docked" before and after, so nothing lowers the clocks, which `README.md:79`
  says are capped depending on the current profile.  (`NoReverseNX` of `CapSafe`.)
- The governor is switched on while the automatic boost is on;
  `WaitForNextTick` then returns early and never clears the flag, also when the
  charger is gone (comment at `clock_manager.cpp:181`).  (`NoGovernor` of `BoostSafe`.)
- `ini_rename` fails after the old file was removed (`minIni.c:616`);
  `close_rename` returns 1, `SetProfiles` updates the maps, and there is no
  `config.ini` (comment at `config.cpp:273`).

Read off the code while modelling, without a run of their own:

- Sysmodule: the cap table printed for Mariko in `README.md` (lines 102 and 109)
  is not that of `clocks.cpp:56-59`; line 93 caps Erista's CPU while it charges over USB
  and unsafe clocks are allowed, `clocks.cpp:49-51` caps it in handheld mode only; a mode sent by ReverseNX-RT
  that agrees with the power state is not noticed until something else changes, so its
  preset clocks are not set (`clock_manager.cpp:287`); line 174 of the README says that the CPU runs at its
  stock clock when nothing is set, `clock_manager.cpp:133` sets 1020 MHz; the
  governor keeps working while sys-clk is disabled; with an uninitialised
  `GovernorWorker` flag that happens to be true the workers never start; and the
  sysmodule takes customisation revision 10 only, while the loader beside it
  writes 11.
- Loader (`Source/Atmosphere/.../oc`): with `CUSTOM_ADJ_ALL` the presets do not
  reach Erista's timing tables (`customize.cpp:29`); a memory voltage that is a
  multiple of 12.5 mV, as `customize.cpp:46` asks, can come out a step lower, since
  it is first cut to whole millivolts (1112500 becomes 1100000); `oc_test.cpp:83`
  expects 12 GPU rows of Erista, the table has 13, so the test stops before it gives
  a verdict on an image.  In Mariko's automatic adjustment the two priority-inversion
  thresholds are always 0, for a value shifted beyond bit 7 is cast to a `u8`
  (`pcv_mariko.cpp:269`, 271), and `ADJUST` divides integers (231), so it multiplies by
  one below 3.2 GHz and the PTSA rates it should scale stay as they are.
- `CustParser`: a KIP that ends inside the table is read as far as it goes, and the
  sysmodule works with half a table (`file_utils.cpp:279`).
- Configurator (`pages/src`): "Load Last Saved" does not fill the form, because
  `setTable` stops at the first advanced entry (`index.html:428`); the DVB shift
  has no effect below 2400 MHz (`main.ts:358`); memory clocks are offered in other
  steps than the PLL takes them (`main.ts:285`, `customize.cpp:75`).
- Overlay: a press of the home button during a fade in can leave a fade that never ends.
  The poller sets `fadeOut` and then the counter without the lock (`tesla.hpp:3470-3475`);
  between the frame loop's reading and writing of the counter (3074-3089) the poller's
  write is lost, both flags stay set, each later frame counts up and down again, and no
  key is handled during a fade.  A close that falls into the frame in which a hide ends is forgotten by
  `resetFlags`, and the overlay opens again without a GUI (`tesla.hpp:3590-3598`,
  3316); a failed `GetConfigValues` is ignored and the whole list is later
  written back (`misc_gui.cpp:61`, 41); the `FatalGui` for a failed table request
  lies under the list (`freq_choice_gui.cpp:21`).
- MemTesterNX (`main.c`), "up to 8GB" (246): when all four first blocks are full,
  `numOfMallocs` is never set and none of them is freed before the division (312-322), and the
  fourth worker of an 8 GB console asks for 2047 bytes, not megabytes (371).  Moving such a block to
  a page takes more bytes from its size than it has: the `size_t` wraps (394; `bufsize`).
- TinyMemBenchNX (`main.c`): when `appletMainLoop()` turns false in the menu (930), the
  program falls into the quick test with no worker; `parallel_init` allocates its
  arrays for none and keeps them (113), and a later test with three
  writes past their end (121; "overrun").

## Abstractions

- The calls of `GetHz` read several settings under one lock each; a model step
  reads them together.  The reads of one `GetHz` are microseconds apart, and so are
  the three settings `RefreshContext` reads for `Governor::SetConfig`
  (`clock_manager.cpp:261-264`).  Other reads under locks of their own are steps of their own.
- Temperatures, logging, the CSV file and the polling interval are left out: no
  decision reads them.
- The governor's utilisation filters are abstracted to the sample they end up at
  under a steady load, so the liveness of `Governor` is about steady loads.  In
  `ClockManager` the governor may choose any clock it could choose now or could
  have chosen before.
- A worker looks at its flag at the end of a loop; that look and the next sample
  are one step.
- Copying a file line by line, with minIni's cache, is one step that may be left
  half done.
- A driver's image is the structures the patches look for and decoys, a few
  hundred words; of a timing table the registers the loader computes are kept
  apart (registers that always get the same value as another, like the shadow copies, the
  `la_scale_regs` of one formula and the two halves of the spread spectrum, are one),
  the others are one value that must travel with its table.
- A shift whose distance is undefined in C (`bitspread` and its kin in
  MemTesterNX) has any of the outcomes the build can produce.
- In the overlay a context, a list and the settings are the parts a GUI acts on;
  touch is one gesture, outside the overlay.
- Titles, profiles and settings are members of small sets; keys and values are
  never strings.
- An uninitialised field is any value of a small set; a division by an
  uninitialised 0 gives 0, as AArch64's does.

## What is not modelled

- Utilisation filters (`PeltUtil`, `SWindowMax`, `MaxWindow`): in the plan.
- Read-only IPC handlers, among them `GetTable` and `GetProfileCount`, which read
  without a lock what the tick thread rewrites (listed as a hazard).
- The charger's registers over I2C, psm registers, the fuel gauge, pm queries:
  pure I/O.
- Drawing, layout, focus and scrolling in Tesla and the GUIs; the list of
  releases and the tabs of the page.
- The narrow-write tests of MemTesterNX, which are compiled out.
- TinyMemBenchNX's measurements: durations, their statistics, and the two-pass
  copies through the third buffer, which no benchmark of the lists uses.
- Loader tests (`oc_test.cpp`) and scripts: they keep no state.  What the tests
  assert was read for the images of `Boot`.
- The rest of minIni and the vendored image and JSON code.

## Plan

Done:

1. `Clocks`, `Config`, `ClockManager`: tick thread against everything.
2. `CapHeld`, `BoostNeedsCharger`, `SetWithinCap`, `OneOwner` proved.
3. `Governor` with `NoThreadLeft` proved.
4. `IpcServer` with its safety invariants proved.
5. `SettingsStore`, `ConfigStore`: the abstract save and its refinement, checked
   and proved.
6. `MCClockManager`, `MCGovernor`.
7. `Timings`, `Customize`, `PcvPatcher`, `PtmPatcher`, `Loader`: the patcher.
8. `CustParser` and `Boot`: the outcome `TableAssumption` takes for granted.
9. `Configurator` with its invariants proved.
10. `Tesla`, `Overlay` with its safety properties proved, `MemTester`.
11. `DriverImages`, `BootProofs`: the ten properties of `Boot` for every image,
    customisation and card, six of them under `Driver`.
12. `TinyMemBench` with its safety invariants proved.
13. `SettingsCurrent`: the copies of the settings against the file, proved.
14. `ClockOwner` and its refinement by `Governor`, checked and proved.

Left:

- The utilisation filters of `oc_extra.h` against a reference definition (the
  maximum of the last samples).
- `ClockManager` composed with `ClockOwner` itself.  Now its three governor actions
  are those of `ClockOwner`, with the steps from `SetConfig` to `Return` taken as one,
  and that correspondence is reviewed, not checked.
- The read-only handlers, as torn reads of tables being rewritten.
