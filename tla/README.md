# A TLA+ model of the SWAM third-party tools

The repository archives the packages that are integrated into the SWAM mobile
platform. Two of them are programs with real concurrency (`stress-tool/stress-ng`
and `stress-tool/stress-apptest`), one is a small daemon that manages kernel
state (`adaptive-swapd`); the rest is vendored code, data or empty submodules.
This directory holds TLA+ models of the parts that are hard to test, the TLC
configurations that check them and TLAPS proofs of all their safety properties.

## Inventory

### stress-apptest (C++, threads)

A memory test: `Sat::Run` fills memory, starts worker threads, pauses and
resumes them ("power spikes"), stops and joins them, and checks the result.

| component | state | operations | what makes it correct |
|---|---|---|---|
| `WorkerStatus` (worker.h, worker.cc) | status word, worker count, two rwlocks, a mutex, a pthread barrier | `AddWorkers`, `Initialize`, `PauseWorkers`, `ResumeWorkers`, `StopWorkers`, `ContinueRunning`, `RemoveSelf`, `Destroy` | while paused nobody works; a barrier is never rebuilt under a waiting thread; every pause returns; a stop ends everything |
| `FineLockPEQueue` (finelock_queue.cc) | page entries, one lock per entry, four random seeds | `GetValid`, `GetEmpty`, `PutValid`, `PutEmpty` | a page belongs to one thread at a time; a page that is there is found; no page is lost |
| `PageEntryQueue` (queue.cc) | ring buffer behind a mutex | `Push`, `PopRandom` | nothing lost or duplicated |
| `Logger` (logger.cc) | bounded queue of lines, writer thread | `QueueLogLine`, `ThreadMain`, `StopThread` | bound kept, no line lost, order per thread |
| `Sat` (sat.cc) | phases, worker vectors, queues | `Initialize`, `Run`, `Cleanup` | every page is filled, and PASS means that every page was checked |
| `DiskBlockTable` (disk_blocks.cc) | blocks in use, with a reference count each, by address and by position | allocate, remove, random pick, release | the two maps agree; no block is handed out twice or freed under a reader |
| worker threads (worker.cc) | pages held | copy, check, fill, invert, file, disk, network loops | a flipped bit is found, good memory is never blamed |

Interaction: the control thread talks to all workers of a group through one
`WorkerStatus`; workers exchange pages through a queue; all of them log.

### stress-ng (C, processes)

The parent (`stress-ng.c`) forks one process per stressor instance, waits for
them and turns what became of them into an exit status. State: the list of
stressors with their pids, the flags `g_keep_stressing_flag` (private to each
process) and `wait_flag`, signal dispositions, shared counters with checksums.
Parent and children interact by `fork`, signals (SIGALRM to stop, SIGKILL after
five attempts), `waitpid` and shared memory. The hard parts: signals at any
moment of the start-up, instances that die in any order, a failing `fork`, the
OOM killer, and the three special modes `--sequential`, `--abort`,
`--aggressive`. Correct means: nobody is left behind, the exit status tells the
truth, the run ends.

### adaptive-swapd (C, one process and its signal handler)

`swamd` reads the free memory once per interval, adds a swam file when it is
below `lower` and removes one when more than `upper` would remain. State: the
number of files, their names, and what the kernel and the file system know.
Every system call can fail and a signal can arrive anywhere. Correct means: the
daemon's books agree with the kernel, shortage is answered, no oscillation,
nothing is left behind at exit.

## Modules

| module | models | composed with |
|---|---|---|
| `PauseService` | what `WorkerStatus` promises: the abstract specification | refined by `WorkerStatus` |
| `WorkerStatus` | the class and its callers, one step per access to shared state | `INSTANCE PauseService` |
| `WorkerStatusProofs` | inductive invariant, theorems and refinement | extends `WorkerStatus` |
| `StressRun` | parent, instances and signals of stress-ng | |
| `Swamd` | the swap daemon | |
| `Logger` | stressapptest's log queue and its writer thread | |
| `CongruentialGenerator` | the path on which the page queue searches: pure functions | used by `FineLockQueue` |
| `PagePool` | what the page queue promises: the abstract specification | refined by `FineLockQueue`, used by `SatRun` |
| `FineLockQueue` | `FineLockPEQueue`, one step per access to shared state | `INSTANCE PagePool` |
| `FineLockQueueProofs` | inductive invariant, theorems and refinement | extends `FineLockQueue` |
| `SatRun` | a run of stressapptest: fill, work, last check, verdict | `INSTANCE PagePool` |
| `DiskBlocks` | `DiskBlockTable`, `DiskThread` and `RandomDiskThread` | |
| `StressRunProofs`, `SwamdProofs`, `LoggerProofs`, `SatRunProofs`, `DiskBlocksProofs` | inductive invariants and theorems | each extends its module |
| `MCFineLockQueue`, `MCSatRun`, `MCDiskBlocks` | constants and symmetry for TLC | extend the above |

### WorkerStatus

`pc` says where each thread is; the other variables carry the names of the
fields. `readers` and `wrQueued` are the status rwlock (writers are preferred,
as `Initialize` asks for), `numLock` the mutex. The barrier is its threshold
`barrierCount` (0 when not initialised) and the set `arrived`. A `GetStatus()`
holds the read lock for one step only; `RemoveSelf()` keeps it, which is why it
appears in `readers`. `pause_rwlock_` is never write-locked and so left out.
`HAVE_PTHREAD_BARRIERS` and `SpawnMayFail` are constants because the build and
the system decide them. The model has one group; `Sat` uses up to four, which
share nothing.

The refinement mapping (`absMode`, `absAt`) calls a worker *parked* from its
arrival at the first barrier to its release from the second.

### StressRun

One call of `stress_run` per element of `1 .. NumRuns`, with `PerRun` instances
each: `NumRuns = 1` is the parallel mode, `PerRun = 1` with more runs is
`--sequential`. The instances of different stressors in one parallel run differ
in nothing that the parent looks at, so they are one list. A process handles its pending
signals before its next step; a handler runs in one step. `child[c].handlers`
remembers the dispositions inherited at the fork. `dirty` says that the
bogo-op counter and its checksum differ. A time-out may expire whenever its
timer is armed. Signals that mean a crash of stress-ng itself (SIGSEGV and the
like), SIGHUP (handled like SIGINT) and the SIGKILL of `shim_waitpid` after 120
interruptions are left out.

### Swamd

Program points are the system calls of `addswap`, `delswap` and the loop. `file`
is what the kernel and the file system hold, `swamfile` and `chunks` what the
daemon believes. `lost` is a history variable: the files whose `swapoff` or
`unlink` failed. `base` is changed by the rest of the system at any time. The
sum `chunksz + upper` is an `int`; where it overflows, `IntSums` allows both
the wrapped and the widened result.

### Logger

A critical section of `queued_lines_mutex_` is one step; the two condition
variables are the `writer` state "wait" and the `pc` "full". `n` counts the lines
a thread has handed over, `out` holds what has been written, per thread, since
no order between threads is promised. `OnTheWay` is the writer's queue followed
by the shared one, `Places(t)` where in it the lines of a thread are; the
properties are stated by these indices. `StopThread` is four steps, the last of
which joins. Its callers are `Sat::Cleanup`, after all workers were joined, and
`sat_assert`, in the workers that the constant `Asserts` names; both log one
more line and end the process.

### PagePool and FineLockQueue

`FineLockPEQueue` keeps valid and empty pages in one array. A Get walks over all
indices, looks at a page without its lock, tries the lock, and looks again. In
the model `kind` is whether the entry has a pattern, `lock` the mutexes, and
`first` and `tries` where the walk is; `held` are the pages that Get has
returned. `Put` stores the entry, clears the pattern (`PutEmpty`) and unlocks in
three steps, because a search may look in between. The constants `PageTag` and
`Calls` give pages and callers their tags, which no Put changes after the pages
were tagged.

`PagePool` says what the callers rely on: a page is empty, valid or taken by one
thread, and Get fails only if no page fitted *all through the call*. A search
that has locked a page and finds that its kind has changed hides the page for a
moment from the others (`Peek`), so that "a page that is there is found" is too
strong: `steady`, a history variable in both modules, is the set of pages that
nobody has touched since the call began.

`CongruentialGenerator` computes the walk the way the constructor does, with
recursive functions. `WalkAssumption` (every index is visited in `q_size_`
tries) is evaluated by TLC for the sizes 1 to 40; some of these have a modulus
larger than the queue.

### SatRun

The threads of stressapptest meet in the page queue, so `SatRun` uses the
actions of `PagePool` for it, and a step is what a thread does to pages of its
own with the Put that follows. A Get is a call, any number of peeks and an
outcome. `data` is what a page holds, `pattern` what its entry says; a flaw is
either in a word that the sector tags of a `FileThread` overwrite or not. The
same threads play the fill threads, a crew of workers and the last check
threads, in the three phases, so that there are as many of each; `running` holds
the groups that have not been stopped, since `JoinThreads` stops one after the
other. A check that fails mends the page (`ProcessError`), and a copy that is
not checked copies the flaw: a copy is checked if the run is strict, and a
`CopyThread`'s also if it is warm (`-W`). The regions that a thread's tag asks
for (sat.cc:1214-1226) are left out, all pages have the same tag: with regions a
Get can fail for want of a page of the right one. That makes no difference to
the safety properties, which allow a worker's Get to fail, but the run does not
show it; `FineLockQueue` has the tags. Pages are tested for faults while nobody has
them: a flip in a page that is in use may be overwritten, which no test could
notice. What an empty page holds is dead and stands as `None`. A failing `mmap`
in `PrepareTestMem` is a `sat_assert` and ends the process.

### DiskBlocks

The methods of the table hold `data_mutex_` where they change it and only one
thread allocates and removes, so each is a step. `data` are the fields of the
`BlockData` objects, `alive` those that are allocated, and `disk` what the
addresses hold. The flag that `DoWork()` does not set is the constant `Marks`:
the passing run has both values, to show that the table would be right if the
blocks were marked; `DiskBlocksInit.cfg` has the code's. Only with the other
value does a reader ever hold a block, so that what `GetRandomBlock` and
`ReleaseBlock` do is a statement about the table and not about today's
`DoWork()`. When `GetUnusedBlock()` finds no address in 100 attempts, which may
happen with any table since all its picks may be out of range, `DoWork()` uses
the null pointer (`NoBlock`, the state "crashed").

## Runs

| run | bounds | shows |
|---|---|---|
| `worker_status` | 3 workers | safety, `PauseReturns`, `RunTerminates`, refinement of `PauseService` |
| `worker_status_android` | 2 workers, no barriers | *violation*: `PauseWorkers()` returns too early |
| `stress_parallel` | 2 instances, 1 signal, 4 command lines | all reaped before the report, exit status honest, run ends |
| `stress_sequential` | 2 stressors, 2 signals, all faults | no overlap, all reaped, exit status honest |
| `stress_aggressive` | 2 instances, one fails | *violation*: a failure is not reported |
| `stress_exit` | 2 instances, the OOM killer | *violation*: exit status 2 where the manual has 7 |
| `swamd` | 2 slots, 3 names, 1 lost file, 3 levels of memory | books right, every lasting shortage answered, settles |
| `swamd_exit` | as above, signals only | *violation*: a file is left behind |
| `logger` | 2 workers and main, 2 lines each, queue of 2, 1 spurious wakeup | no line lost or overtaken, stop flushes, bound of the queue, the process ends |
| `finelock` | 2 threads, 3 pages, 2 tags, 2 pages held at once; walks of sizes 1 to 40 | a lock is ownership, failures are justified, searches end, refinement of `PagePool` |
| `sat_run` | 2 threads in 5 crews, strict, warm or neither, 5 pages, 2 patterns, files of 2 pages, 1 fault | filling never starves, no false error, PASS means checked, flipped bits are reported |
| `disk_blocks` | 2 readers, 4 addresses, 3 blocks in flight | maps agree, references right, written blocks read back, no entry left behind |

Six more configurations are kept for the disagreements described below and are
not in the list of runs: `WorkerStatusSpawnFails.cfg`, `StressRunAbort.cfg`,
`StressRunStartup.cfg`, `StressRunMasked.cfg`, `SwamdTemplate.cfg` and
`DiskBlocksInit.cfg`. TLC finds their one property violated.

Two properties need a word. `ExitStatusIsHonest` compares the exit status with
the wait statuses of the instances: no failure is hidden by what the others did,
every status but 0 has an instance to blame, and after 0 nobody failed. It does
not say *which* status an outcome should have, because there manual and code
disagree; that is `ExitIsDocumented`, the subject of `stress_exit`.
`ShortageIsAnswered` is `[]<>(...)`: however often memory was ample before, the
daemon is never for ever short with a slot to spare.

Why the bounds are enough. Three workers are the least number for which one
leaves, one is paused and one still works; the theorems below cover every other
number. Two instances are enough for the parent to wait for the wrong one, two
runs for inherited handlers. `MaxSoftKills = 1` instead of 5 brings SIGKILL
within reach of two signals. The daemon's limits are chosen such that two files do not
satisfy the largest shortage (`base = 0`), one satisfies the middle one, and the
highest level makes it give files back; `chunksz + upper = IntMax` is the last
value before the overflow (with one less, `Settles` fails).

Three pages are enough for a search to pass a page that comes back behind it.
In `sat_run`, five pages are the fewest of which `pages_ / 5 * 2` are as many
as the two threads need. The crews are chosen so that two threads compete for
empty pages, a check thread throws pages out beside one that copies, and pages
travel through copies, the network and files. Four addresses and three blocks
in flight let the last entry of the table move into a gap in the middle.

Two lines per thread let both workers block on a queue of two that main then
fills again, which is the largest overrun (`QueueBound` is attained).

Deadlock is checked in every passing run except `stress_parallel`, where an
instance without a time-out and without bogo-op limit may stress for ever,
`logger`, where the process exits and `ProcessEnds` rules out every other halt,
and `disk_blocks`, where the threads end or the process dies.

Every property of a passing run has a mutant, a wrong variant of one definition
(marked "Wrong variant" in the modules) under which TLC finds it violated.

## Fairness

* `WorkerStatus`: weak fairness of every thread, since the kernel schedules
  them and a worker's loop body is finite. Strong fairness of `CallStop`,
  because `Sat::Run`'s loop ends at its deadline however often it pauses.
* `StressRun`: weak fairness of the parent, of signal delivery, of each
  instance's own steps and of its timer. A stressor is assumed to return once
  its flag is cleared, since every stressor polls `keep_stressing`; nothing is
  assumed of one that was not told to stop. A `fork()` that fails with EAGAIN is
  tried again (stress-ng.c:2033) and is assumed to stop failing so: the retries
  are part of `Fork`. `SignalEndsRun` is checked without `--no-group`, where a
  signal sent to the parent alone may not reach an instance.
* `Swamd`: weak fairness of the daemon and strong fairness of the calls that it
  retries (`statfs`, the writes, `swapon`): they may fail any number of times
  but not for ever. `Mkstemp` needs none, because its failure ends the daemon.

* `Logger`: weak fairness of every thread; no wakeup without a signal is
  assumed to happen.
* `FineLockQueue`: weak fairness of a thread that is inside the queue's code;
  `trylock` never blocks. Nothing is assumed of the callers, who may keep a page
  for ever.

`SatRun` and `DiskBlocks` have safety properties only (and use symmetry).

## Proofs

Every invariant that a passing run checks, and both refinements, are also
theorems. Each proof module defines an inductive invariant `IInv`, of which TLC
was first asked on the instances of the runs, proves `Init => IInv` and
`IInv /\ [Next]_vars => IInv'` with one lemma per action or kind of action, and
ends with one theorem per property. The theorems hold for every value of the
constants that the `ASSUME`s of the module allow; TLC evaluates those for the
instances of the runs.

### WorkerStatusProofs

The module proves, for every finite set of workers and for workers
that never start, `TypeCorrect`, `QuietPause`, `RebuildIsSafe`, `BarrierAlive`,
`ThresholdExact` and `Refinement`; all but the first are conditional on
`HAVE_PTHREAD_BARRIERS` (for `BarrierAlive` inside the property), as they must
be: the run `worker_status_android` shows what happens without. The assumptions
are `WorkersAssumption` and `FlagsAssumption`.

None of the properties is inductive. The invariant `IInv` adds

* `CountInv`: `num_workers_` is the number of registered workers;
* `LockInv`: who holds the read lock and the mutex, by program counter;
* `StageInv`: the control thread's position determines the status and whether
  workers exist;
* `PhaseInv` (with barriers): the protocol is in one of three phases.
  *Running*: nobody is at the barrier. *Gathering*: workers are on their way to
  the first wait. *Held*: all workers that are still in the group are at the
  second wait. `BarrierInv` ties the threshold to the count except between
  the two statements of a rebuild.

The central step is `Completion`: a barrier trips when the arrivals are as
many as the threshold, the arrivals are a subset of the group, the threshold is
the size of the group, hence (`FullHouse`) everybody has arrived and the phase
changes for all at once. `RebuildIsSafe` then follows since a rebuild only
happens with the read lock held and a status other than PAUSE, which rules out
*Gathering* and *Held*.

`Refinement` shows that every step is one of `PauseService` or hidden from it.
The phases are the modes of `PauseService`; a worker's arrival at the first wait
is its `Park`, an arrival that completes the barrier is the last `Park` or the
`Quiesce` of the control thread, or else the `Release`, and the decrement in
`RemoveSelf()` is the `Leave`, which `IInv` places outside a pause.

### FineLockQueueProofs

The module proves, for every set of threads and every number of pages
for which `WalkAssumption` holds, `TypeCorrect`, `Ownership`,
`JustifiedFailure` and `Refinement`. The invariant `IInv` adds to `TypeOK` and
`LockIsOwnership`

* `CallInv`: a thread's program point determines whether it is in a call, which
  page it puts, and that it owns it;
* `SteadyInv`: a page that has been steady since a call began is free, fits the
  call, and lies ahead of the walk.

The walk enters by `WalkCovers`: from any start the indices of the `q_size_`
iterations are all the pages (`VisitCovers`, `VisitInside`). At the end of a
search no page lies ahead, so none is steady (`NothingMissed`), which is
`FailIsJustified`. The refinement mapping calls a page taken from the `trylock`
on a page of the right kind until the `unlock` of its Put, and hidden while a
search has locked a page of the wrong kind; each action is shown to be one step
of `PagePool` or a stutter, with one lemma per action. That the walk covers the
queue is an assumption on the generator, because it is a fact of number theory
about a recursive definition; TLC evaluates it.

### StressRunProofs

`TypeCorrect`, `AllReaped`, `OneAtATime` and `HonestExit`, for any number of
runs and instances, any set of command lines and faults, and any number of
signals. The invariant adds

* `SigInv`: only a living process has pending signals, which keeps a signal from
  reaching an instance before its fork;
* `RecordedInv`: whoever lives or waits to be reaped is in `ss->pids`, but for
  the one instance between `fork()` and the assignment of its pid;
* `PidsInv`: the recorded pids are of the current run, none precedes the instance
  that `stress_wait_stressors` has come to, and none is left after it;
* `FutureInv`: nothing was forked for later positions of the loop;
* `ResultInv`: without `--aggressive` the flags `success`, `resource` and
  `metrics` are at every moment what the instances reaped so far make them, and
  the exit status is the `Verdict` that follows from all of them;
* `DirtyInv`: a counter that differs from its checksum once its instance is gone
  is that of one that was killed or left by `exit(2)`.

`AllReaped` and `OneAtATime` follow from `RecordedInv` and `PidsInv`; the latter
says nothing of the instances that a killed parent leaves behind. `HonestExit`
needs `DirtyInv` for the status that a failed metrics check causes, and is only
claimed without `--aggressive`, whose polling loop drops statuses (run
`stress_aggressive`).

### SwamdProofs

`TypeCorrect`, `RightBooks` and `ValidSwapOff`, for any limits that `ckconf()`
lets through, any failing calls and a signal at any point. `BooksAreRight` is
about the moments when the daemon is in its loop; the invariant says at every
program point which slots are in use (`SlotInv`), that the counted slots hold
different files that are swapped on (`HeldInv`), what the slot at `chunks` holds
while it is added or removed (`CurrentInv`), and that until shutdown every other
file is one whose removal failed (`KnownInv`). A signal between two system calls
of `addswap()` or `delswap()` then leaves `HeldInv` intact, which is all that
`cleanup()` relies on.

### LoggerProofs

`TypeCorrect` and `BoundedQueue`, and, as long as no `sat_assert()` fails
(`Asserts = {}`), `OrderKept` and `StopFlushes`: for any finite set of workers,
any limit of the queue, any number of lines and of wakeups without a signal. The
hypothesis is needed, as the end of the next section explains. `QueueBound` is not
inductive because a woken thread adds its line without looking; `RoomInv` counts
the woken threads with the lines in the queue. For the order, `StageInv` says
when workers can still log, and `WriterInv` that the writer takes the queue only
when its own is empty and that the null line that ends it is the last one.

### SatRunProofs

`TypeCorrect`, `FillsAll`, `NeverBlames`, `AllChecked` and `FlawsReported`, for
any finite sets of threads, pages and patterns, any roles of the threads, any
size of the files and any faults. The assumptions are `PagesAssumption` (the
numbers that `InitializePages` computes), `FiniteAssumption`, `ValueAssumption`
(flawed data are no pattern) and `SatAssumption`. The invariant adds, besides
types,

* `OwnerInv`, `CallInv`, `LocalInv`, `FileInv`: a thread's place in its loop
  determines which pages it has, what it asks the queue for and what its file
  holds;
* `HeldInv`: a page gets lost with a thread only if the run has failed;
* `PatternInv`, `CleanInv`: pages with data have a pattern, and match it if the
  hardware is good;
* `FillInv`: while pages are filled, the quotas of the threads add up to the
  pages that are not yet valid (two finite sets of the same cardinality). The
  pages in the hands of other threads are part of those threads' quotas, so a
  thread with a quota of its own has an empty page left that has been steady
  since its call, and its Get does not fail;
* `ReapInv`: a last check thread that ends has found no valid page, and valid
  pages do not come back;
* `FlawInv`: a flaw stays in some page that counts until it is reported, also
  while it travels through copies, the network and strict file threads.

### DiskBlocksProofs

`ConsistentTable`, `CountsHolders`, `ReadsItsOwn` and `NoEntryLeft`, for any
finite set of readers (`ReadersAssumption`) and any addresses, blocks and length
of the queue. `TableConsistent` survives the swap with the last entry that
`RemoveBlock()` makes, but only because the `DiskThread` removes blocks that are
in the table, each once (`WriterInv`). `CountInv` is the reference count: one per
reader that holds the block and one for the table. `DiskInv` says that what was
written for a block in flight is still at its address.
`SizeInv` counts the entries of the table by the `DiskThread`'s program point:
those in flight, and one more from `GetUnusedBlock()` until the block is queued
and from the moment it leaves the queue until it is removed.

### What is only model-checked

Liveness (`PauseReturns`, `RunTerminates`, `RunEnds`, `SignalEndsRun`,
`ShortageIsAnswered`, `Settles`, `ProcessEnds`, `GetReturns`): fairness and
ENABLED are beyond the prover. What the recursive functions of
`CongruentialGenerator` compute: that is an induction over data. And the runs
that expect a violation, which show a behaviour and need no proof.

## What the disagreements are

The violation runs are listed with their source lines under `findings` in
`PROJECT.json`. Six more are shown by the configurations named above:

* `SpawnThreads()` ignores that a thread did not start (sat.cc:1808), although
  it was counted; `PauseWorkers()` then waits for ever
  (`WorkerStatusSpawnFails.cfg`, `PauseReturns`).
* With `--abort` the parent, blocked in `waitpid` on the first instance, does
  not act on the failure of the second (stress-ng.c:1763 against stress-ng.1:63;
  `StressRunAbort.cfg`, `AbortStopsAll`).
* A terminating signal during start-up makes stress-ng kill its own parent
  process by SIGALRM (stress-ng.c:1497 against the comment at line 95;
  `StressRunStartup.cfg`, `ParentCleansUp`).
* The template of `mkstemp` has three X's (swamd.h:12), which glibc rejects, so
  that the daemon exits at the first shortage (`SwamdTemplate.cfg`,
  `ShortageAddsFile`).
* `DoWork()` calls `block->initialized()`, which only reads the flag, where its
  comment says that the block "is either initialized by writing, or ..."
  (worker.cc:2938-2940); `set_initialized()` has no caller, so that
  `GetRandomBlock()` never returns a block and the `RandomDiskThread`s read
  nothing (`DiskBlocksInit.cfg`, `InFlightIsInitialized`).
* A stressor that fails with its bogo-op counter in the non-ready state has its
  status replaced by `EXIT_METRICS_UNTRUSTWORTHY` (stress-ng.c:2117-2121), and
  stress-ng exits with 7 instead of 2 (stress-ng.1:5103; `StressRunMasked.cfg`,
  `FailureIsReported`). The model allows it for every status of a stressor.

The run `stress_exit` shows the simplest disagreement over exit statuses: the
manual gives an OOM-killed instance's counter status 7 (stress-ng.1:5122), and
a comment does not want it flagged as a failure (stress-ng.c:1785-1789), but
`stress_metrics_check` makes it a failure. With signals and the faults
`NOT_IMPLEMENTED` and `sys_exit` in the configuration, TLC finds the same
property violated for the statuses 4, 5 and 6, which the manual lists
(stress-ng.1:5110-5120) and `main` never returns after a run (stress-ng.c:3790).

Others have no configuration of their own:

* When no free address is found, `DoWork()` goes on with a null block although
  its comment says "skip to the next block" (worker.cc:2912; `NoBlock`).
* A thread's Get may fail because a search for the other kind has the page
  locked for a moment (finelock_queue.cc:358-363), and a check thread that was
  stopped throws pages out while others still look for them; either ends the run
  with "test encountered procedural errors". `SatRun` allows both, and therefore
  does not claim that good hardware always passes.
* A non-strict `FileThread` overwrites flaws in the words of its sector tags,
  and bails out silently when a Get or `FlushPageCache` fails (worker.cc:2032),
  with its pages unread in the file: the exceptions in `CorruptionIsReported`.
* sat.cc:510 says "Only get valid pages with uninitialized tags here", but
  `kInvalidTag` is 0xf001, which a page of region 0 or 12 to 15 matches as well,
  so that a page may be tagged twice and another never.
* `QueueStats()` (sat.cc:1608) uses `finelock_q_` also when the coarse-grained
  queue was chosen and the pointer is null.

In the logger, logger.h:29
allows "up to twice" `kMaxQueueSize` outstanding lines; since a woken thread does
not look at the size again (logger.cc:105), the queue alone can hold
`kMaxQueueSize` lines and one of each other thread, which is what `QueueBound`
states. logger.h:107 lets `StopThread` be called only when no other thread runs,
but `sat_assert` calls it anywhere (sattypes.h:86); with a worker in `Asserts`,
`LinesInOrder` fails on the way to `exit(1)`.

## Not modelled

* The stressors themselves: independent load generators of which the parent
  sees an exit status only.
* Memory patterns, checksums, hardware error diagnosis: arithmetic on data.
  `SatRun` has "matches" and "does not match".
* `PageEntryQueue`, the coarse-grained alternative to the page queue: each of
  its two operations holds one mutex throughout.
* Threads of stressapptest that share only their status with the others: CPU,
  cache coherency, CPU frequency, error polling, memory regions, and the
  listening side of the network test. Error injection, an option for tests of
  the tool itself.
* Option parsing, formatting, YAML and log output.
* Vendored `e2fsprogs`, the Android sample, device trees, and the directories
  that are empty submodules.

Most of the repository's lines are in the last two groups and in the stressors:
of some 316,000 lines, e2fsprogs and the 270 stressors are the bulk. They have
no state shared with the modelled parts, and a model of them would say nothing
about how the programs work together; a large share of the repository's lines
is therefore out of reach of this project by design.

## Plan

1. `stress_oomable_child`'s restart policy of stress-ng.
2. Proofs: `SatRun` uses the pages only as `PagePool` allows, so that with the
   refinement of `FineLockQueue` its theorems carry over to the real queue; what
   can be said of `Logger` when a worker's `sat_assert()` fails.
