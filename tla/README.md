# A TLA+ verification of workload-kit

workload-kit is a collection of small programs that produce known patterns of
threads, processes, messages, locks and signals, so that tracers and trace
analyses can be tried on something whose behaviour is understood in advance,
together with `lttng-simple`, the script that runs a command under the LTTng
tracers. A workload is useful only if the pattern it promises is the pattern it
makes, under every schedule the kernel may choose. That is what this project
states, model-checks and, where the argument is general, proves.

Paths below are relative to the repository.

## Inventory

| Part | State it keeps | Operations | What is hard |
|---|---|---|---|
| `src/pipeline.c` | two ring queues, two counting semaphores each, indices private to a thread | three workers, an end marker | no lock on the slots; full and empty queues; order of the semaphore calls |
| `src/spin.c` | flags `run`, `cont`; a start and a done semaphore per worker; `ITIMER_REAL` | `spin_init`, `spin_run`, `spin_exit`, the SIGALRM handler | an alarm may come before, between or after the workers' steps; reuse after `spin_exit` |
| `src/pulse.c` | the options, a loop counter, the time of day | the loop of bursts over `spin.c` | late wake-ups, bursts longer than a period, the wrap of the second |
| `src/schedfreq.c` | a ring of semaphores | workers of two "libraries", `init`, `done` | one token among workers that start in any order; the last post goes to a worker that has returned |
| `ust/threadtree/threadtree.c` | stages with `exit_count`, `mutex`, `sem_ready`, `ready[]` | `spawn_stage`, `thread_worker`, `wait_task`, `free_task` | the last thread of a stage starts the next; order of posts against order of indices |
| `src/rpc-client.c`, `src/rpc-server.c` | a TCP connection per client, the message in hand, `~/.wk-calibrate` | connect, command, terminate; accept, execute, answer | one connection at a time, clients that die, resets, the end of a stream read as a command |
| `utils/lttng-simple` | tracing sessions, output directories | about ten lttng commands per target, clean-up, batch loop | any command may fail; retry of `create`; what is cleaned up and by whom |
| `src/pipette.c` | a pipe and who has its ends open | `do_transfer` by pages, producer, consumer | pipe full or empty, failed forks, end of file |
| `rt_kernel_lock/` | an rt_mutex behind `/proc/wk_lock`, a barrier, priorities and CPUs | open and close of the file, busy loops | priority inversion, failures before a barrier, module unload |
| `src/calibrate.c` | a periodic alarm, the flag `run`, a counter | `calibrate`, `do_hog` | alarms between two samples, loss of the CPU |
| `src/perfuser.c` | a perf counter and a descriptor per thread, `g_counters`, a barrier | six experiments, the SIGIO handler | a signal at any instruction: before the counter is set up, after it is closed, inside the handler |
| `src/utils.c` | the times of a profile | time arithmetic, `profile_*`, `do_sleep` | borrow and carry |
| `src/cpm1.c`, `cpm2.c`, `cpm3.c` | child processes, a TCP connection | critical-path patterns | who waits for whom; waits that do not wait; grouping of bytes |
| `src/inception.c`, `proclife.c`, `reparent.c` | process trees, files | fork, wait, exit | failed forks, orphans, two writers of one file |
| `src/dthread.c`, `mutex.c`, `deadlock.c`, `lockfight.c`, `imbalance.c` | mutexes, record locks, a barrier | create, join, lock, kill | deadlock that may or may not happen; lockstep |
| `ust/heartbeat`, `burnust`, `bossthread` | memory shared by threads | emit tracepoints | who frees what the others record |
| `pingpong/src/pingpong.py` | a socket, a stop flag | threads with `join(timeout)` | a blocked receive against a stop |
| `src/signest.c`, `sigbench.c` | nested signal handlers | raise, handle | pending signals of one kind coalesce |
| `ust/cputemp`, `ust/functrace`, `src/pincpu.c`, `src/sockpair.c` | none or a loop counter | sample, emit, one system call | little |
| micro-benchmarks, tracepoint providers, profiles, fsa, scripts | none | | timing or data only |

The parts interact as follows: `pulse` calls `spin` and is called back by it
(`init` on each worker); `rpc`, `perfuser`, `cpm`, `imbalance` and
`bossthread` call `calibrate`; `perfuser` and others profile with `utils`; two rpc
programs talk over TCP; several rpc clients share one cache file; the kernel
lock workload opens a file served by its kernel module; `lttng-simple` drives
the LTTng session daemon through its command line. Everything else is a program
of its own.

PROJECT.json lists every part with its status, and under "hazards" what a test
would hardly reach, each at its line.

## Modules

| Module | Models | How |
|---|---|---|
| `Pipeline` | `pipeline.c` | one action per access to a slot or semaphore; a slot carries the char of the code and the number of its item as history |
| `PipelineStages` | what the pipeline promises | three stages, bounded buffers, four counters |
| `PipelineRefinement` | the refinement mapping, `ImplementsStages`, the inductive invariant `IInv` | `made` and `moved` are read off the counters and labels of the workers |
| `PipelineProofs` | the theorems about the pipeline | with the lemmas on `%` for the ring indices |
| `Spin` | `spin.c` as a library: no client, no Next | each call is a chain of actions through the variable `api` |
| `SpinClient` | any single-threaded client of `Spin` | up to `MAX_CALLS` calls in any order |
| `Pulse` | `pulse.c` over `Spin` | adds the time of day; sleeps and alarms may be `LATE` |
| `SpinUsers`, `SpinProofs` | `Spin` with either of its users, `SpinClient` or `Pulse` | one library, one run; the proofs, about all four modules |
| `SchedFreq` | `schedfreq.c` | semaphores, workers, main |
| `ThreadTree`, `ThreadTreeProofs` | `threadtree.c` | every statement of `thread_worker` that touches the stage is a step, the read and the write of `exit_count++` included; the proofs |
| `Rpc`, `ChannelProofs` | the rpc client and server | TCP as two queues per connection, end of stream and reset; the proofs, with those of `Pipette` |
| `RpcCalibrate` | the calibration cache | stat, open, truncate and close as separate steps |
| `LttngSimple`, `MCLttngSimple`, `LttngSimpleProofs` | `lttng-simple` | the set-up is a sequence of commands computed from the options, each of which succeeds, fails or raises an exception; the proofs |
| `Pipette` | `pipette.c` | bytes in a pipe, chunks, open ends, failing pipe, fork and calloc, short reads |
| `KernelLock`, `KernelLockProofs` | `wk_kernel_lock.c`, `wk_lock.c` | fixed-priority scheduling per CPU, priority inheritance, the barrier, removal of the module at any time; the proofs |
| `Calibrate` | `calibrate.c` | time in turns of the counting loop, which pass with or without the process |
| `Profile` | the time arithmetic and statistics of `utils.c` | operators |
| `PerfUser`, `MCPerfUser`, `PerfUserProofs` | `perfuser.c`, composed with `Calibrate` and `Profile` | an experiment is a sequence of jobs; each ioctl, unit of work and handler step is an action, before which the counter may overflow; the proofs, about all three modules |
| `Syscalls` | the kernel and the thread library, external | a task runs a script, a sequence of calls; one action per call and per way it can fail |
| `Workloads`, `WorkloadsProofs` | `cpm1-3`, `inception`, `reparent`, `proclife`, `dthread`, `mutex`, `deadlock`, `lockfight`, `imbalance`, `bossthread`, `heartbeat`, `burnust` | each program is the set of tuples of scripts its options and checked failures select; the proofs, with those of `SchedFreq` |

### Abstractions

* Formatting, tracepoints and messages are left out, and so are delays, except
  in `Pulse`, which is about time.
* A semaphore is its value; `sem_wait`, `sem_post`, `setitimer`, `pthread_create`
  and `pthread_join` are atomic. `pthread_create` succeeds except in
  `KernelLock`, whose code handles its failure.
* `Spin`: `run` and `cont` are volatile and every write is followed by a full
  barrier, so they are read and written sequentially consistently. `usec` is 0,
  valid, or refused by setitimer.
* `Pulse` scales a second to 12 microseconds, so that frequencies 1, 2 and 4
  divide it and a burst can be longer than a period. Other frequencies are left
  out: main counts the periods anew at each second, so the last one is cut short.
* `ThreadTree`: a join of an entry of `ready` that is still zero ends the
  behaviour in the state "crash", since what pthread_join does with it is
  undefined; the other properties are about what happens before.
* `Rpc`: messages arrive whole (16 bytes). A reset caused by an answer to a
  client that has gone may reach the server before its next call or too late to
  matter; a client's write to a connection that was reset fails, and the client
  goes on, or raises SIGPIPE. The server may exit while it sets up its socket; a
  failing accept is left out. The listen queue (5) is longer than the number of
  clients.
* `RpcCalibrate`: when stat fails the mode it leaves behind is uninitialised, so
  both branches are taken.
* `LttngSimple`: a failing lttng command changes nothing, except that a failing
  create may leave a stalled session. The commands that name no session act on
  the one created last; a second instance that interferes is not modelled.
  Where the script calls `subprocess.call` or `shutil.rmtree`, a program that
  cannot be started or a directory that cannot be removed raises an exception,
  which ends in main's handler: `destroy -a`, and no further target.
* `Pipette`: a page is 2 bytes and the pipe holds two pages, so that a block may
  be smaller than a page, an odd number of pages or larger than the pipe. Writes
  of up to a page are atomic; a read may return less than it asked for.
* `KernelLock`: the loop counter `cnt` of the code is never initialised, so the
  length of a busy loop is any number up to `WORK`. A section under
  `priv_spin_lock` is one step, except in `wk_exit`, which calls
  `remove_proc_entry` with the lock held. An open `/proc` file does not keep the
  module loaded, so `wk_exit` may come at any time. procfs then waits for the
  calls under way and calls `wk_release` itself for the files that are open;
  `wk_release` wants the spin lock, so `wk_exit` waits for ever if the file is in use.
  An rt_mutex unlocked by a thread that does not own it goes to the waiter.
* `Workloads`: the programs decide nothing at run time but whether a call
  failed, so their loops are unrolled into scripts. Sleeping, counting, sound
  and memory are delays of any length; in particular the delays that are meant
  to order two tasks (the 10 ms before the client of `cpm3.c`, the waits of
  `deadlock.c`) order nothing. `waitpid(pid)`, called with one argument and no
  prototype, waits or returns at once. The one TCP connection of `cpm3.c` counts
  half buffers, and `recv` returns whatever has arrived. `inception` with no
  children recurses until fork fails, which four tasks stand for.
* `Calibrate`: one turn of the counting loop is the unit of time. The calls that
  set up the handler succeed.
* `PerfUser`: a counter counts units of work; in a call it may count none or
  one, also while a thread waits at the barrier. A failing assertion of
  `open_counter` ends the process; the error exits of `perf_event_open` in the
  experiment of that name are left out. Every experiment that starts threads sets `DISABLE_EARLY`, so the handler
  is modelled in that mode; the other modes reach only `open_counter`. One
  repetition of each experiment is modelled: the next one starts from the same
  state. Numbers of hits and printed results are left out, and unwinding the
  stack is a delay.
* `Profile`: a second has `NSEC` nanoseconds; doubles are integers.

Operators whose comment begins with "Mutant" are faulty variants of the
definition that follows them. No specification uses them: they show that the
properties can fail.

## Runs

Each passing run checks its properties on all interleavings of its instance;
deadlock is checked in all of them.

| Run | Instance | Shows |
|---|---|---|
| `pipeline` | the code's constants, 4 slots and 10 items | `NoSlotRace` (producer and consumer are never in one slot), `InOrder` (each item once, in order, after every earlier stage), `DrainedAtExit`, `ImplementsStages`, `Termination` |
| `spin` | 3 workers; 7 calls, durations 0, valid and refused, failing allocation; wk-pulse with 12 command lines, lateness 0 or 1 | `QuietBetweenCalls` (nothing left over that could disturb the next call), `BurstEndsByAlarm`, `NoUseAfterFree`, `BurstsOnTime` (delays do not add up, and each burst has a period of its own), `BurstsCoverDuration` (each worker makes exactly `freq` bursts for every whole second of the duration, none for less than a second), `UsersReturn` (all calls but `spin_run(0)`, whose timer is never armed, and wk-pulse) |
| `schedfreq` | 4 workers, 4 turns | `RoundRobin`, `NoUseAfterFree`, `Termination` |
| `threadtree` | stages of 3, 2 and 1 threads | `StagesInOrder`, `NoUseAfterFree`, `Termination` |
| `threadtree_ready` | stages of 2 and 1 threads | violated: `JoinsAThread`. A thread that has its index but has not yet filled `ready[index]` is overtaken by the next one, whose post sends main to the empty entry |
| `rpc` | 3 clients, up to 2 commands each, one may be killed, the server may not come up | `Synchronous`, `OnePhantom` (the end of a stream is executed and answered as one more command), `ServerOutlivesOrderlyClients`, `ClientsEnd` |
| `rpc_calibrate_count` | 2 clients | violated: `CountIsCalibrated`. The cache is read while another client has truncated it, and the count of 0 is used |
| `lttng_simple` | every command line of one target, batches of 0 to 3, up to 3 failures, exceptions, interrupts, with or without a command | `TracedAsAsked`, `SessionsAtEnd` (no session of the run is left, others are kept unless the run was aborted, an interrupt leaves one), `TargetsInTurn` (each once and in order, and only an exception keeps the later ones from being run) |
| `pipette` | blocks of 1, 2, 3 and 5 bytes, 1 to 4 of them, 2 failures | `BlocksIntact`, `NeverEndOfFile`, `Ends` |
| `kernel_lock` | 1 or 2 CPUs, loops up to 3, 2 failures, rmmod at any time | `LockedWhileOpen` (the lock excludes, and the module is removed cleanly or not at all), `CleanAtExit`, `InversionBounded`, `Ends` (main returns unless lowprio1 gave up before the barrier or the module was removed in use) |
| `workloads` | the code's 4 threads and 8 cycles, 3 processes, files of 2 parts, up to 2 repetitions | `UncheckedCallsHold` (joined threads, recorded memory, streams and files are there when used), `NoOrphans`, `OneSlowest` (lockstep of `imbalance.c`, and each thread is the slowest in turn), `ProgramsEnd` (all but a server of `cpm3.c` without its client) |
| `perfuser` | 2 threads, 4 units of work, handlers of 0 and 2 units, periods 2 and 3, profiles of 3 calls, calibration with 2 samples of 3 turns | `AtMostOneInterval`, `OwnCounterOnly`, `HandlerUncounted`, `DeltasAddUp`, `ExperimentsEnd` |

What some of the passing runs say about the code is an exception in the property
rather than a violation. In `perfuser`, a counter that overflows between the
`REFRESH` and the `ENABLE` of `open_counter` (perfuser.c:197-198) runs without a
limit from then on: `HandlerUncounted` excepts that thread, and `ExperimentsEnd`
excepts the handler whose own work then lasts a period or more and interrupts
itself for ever. In experiment `perf_event_open` an overflow reads through the
null `g_counters`, and the crash counts as an end. In `kernel_lock`, `Ends`
excepts main waiting at the barrier for a lowprio1 that gave up
(`StuckAtBarrier`), and `wk_exit` and a user of the file waiting for each other
(`RemovedInUse`): what `LockedWhileOpen` shows of the unlock in `wk_exit` is that
the deadlock keeps a second thread out. In `pipette`, `Ends` is about runs in
which no call fails: a failed fork of the consumer leaves a producer that waits
for ever for room in the pipe. In `workloads`, a client of `cpm3.c` that is refused leaves the
server in `accept`.

One more disagreement of documentation and code has no run of its own: without
`-k` and `-u`, `lttng-simple` makes one trace with both tracers (lines 224-226 and
266-271), while its usage (lines 24-25), the comment at lines 222-223 and
`doc/man/lttng-simple.1` (lines 17-19) promise three traces. `TargetsInTurn`
states what the code does.

Why the bounds are enough. A ring of 4 slots with 10 items fills, empties and
wraps twice at every relative position of producer and consumer. Three spin
workers give a first, a middle and a last iteration to each loop over the
workers, and seven calls a full init-run-exit cycle followed by another. The
ring of semaphores repeats itself after one round, and the proofs cover every
size. Three stages give threadtree a first, an inner and a last one. Three rpc
clients put two in the backlog while one is served. Three failures are what it
takes for lttng-simple to fail the first create, the clean-up of the stalled
session and the retry. Four threads and eight cycles are the constants of
`imbalance.c`; three of the ten processes of `proclife.c` give one that shares
its file with main, and two that do not. Two perf threads are enough for one to
close its descriptor while the other opens or refreshes one, and a handler of 2
units is as long as the shorter period, which is what the race of `REFRESH` and
`ENABLE` needs; the calibration of a task is proved for every size.

Fairness. The threads and processes are ordinary ones of a scheduler that runs
every runnable task, hence weak fairness of each thread's (or process's) steps;
semaphores have a single waiter each, except the mutex of a threadtree stage,
where each waiter gets its turn because every other thread takes the mutex only
once. An armed timer expires. No fairness is assumed for failures, crashes or
interrupts, nor for the removal of the kernel module. In `Calibrate` an alarm may
come each time before the process has reached the next statement; that the
process gets the CPU between two alarms again and again is strong fairness of
the steps that enter and leave `counter`, without which a timer of a few turns
would keep it from ever counting. `LttngSimple` is
sequential and states safety only.

## Proofs

tlapm checks every obligation of the eight modules whose names end in `Proofs`.
They hold for every value of the constants that satisfies the named assumption
of the module. Together they state 31 of the 40 properties of the passing runs,
among them every invariant. Each was checked by TLC first, and so was each
inductive invariant.

`PipelineProofs`, for every `QUEUE_LENGTH > 0` and `MAX_ITEMS`
(`ConstantsAssumption`):

* `TypeCorrect`, `SlotsNeverRace`, `ItemsInOrder`, `Drained`: `FairSpec`'s safety
  part `Spec` keeps `TypeOK`, `NoSlotRace`, `InOrder` and `DrainedAtExit`;
* `Refinement`: `Spec => Stages!Spec`, the semaphore implementation implements
  the abstract stages (`Stages == INSTANCE PipelineStages WITH ...` in
  `PipelineRefinement`).

None of these is inductive. Mutual exclusion on the slots follows from counting:
each of the `QUEUE_LENGTH` slots is either counted by one of the two semaphores
or held by the thread whose label says so (`TokenInv`); the entries written and
not consumed are counted in the same way (`OccupancyInv`); the private indices
are the counts of the two sides modulo the length (`IndexInv`), so two sides
that differ by less than the length are in different slots, which is the lemma
`ModApart`; and the occupied slots hold consecutive items (`ContentsInv`).
`IInv` is the conjunction of these with the labels, the local variables and the
order of ending. Each action is a lemma that shows that it preserves every
conjunct.

`SpinProofs`, for every number of workers, also none, and every sequence of
calls (`SpinAssumption`): `LibraryQuiet`, `BurstsEnd`, `NothingFreedUnderAWorker`.
`SpinInv` says for each statement of the caller and each worker where the token
of the round is: in `sem_start`, in the worker's hands or in `sem_done`, on which
side of the loop variable `todo` (`WorkerInv`); that the alarm of the round is
the only one under way (`AlarmInv`, which needs a worker: with none, `spin_run`
returns before its alarm); and what the flags and the heap are (`CallInv`). For
`wk-pulse` there are `PulseOnTime` and `PulseCovers`, under the hypothesis
`WholePeriods`: the options are natural numbers and the frequency divides a
second. It is needed, for otherwise the last period of each second is cut
short, and it holds for the default of 4 bursts per second. `PulseOnTime` also
needs a worker, for the same reason as `AlarmInv`. `UserInv` adds to `SpinInv` the
number of bursts made (`CountInv`) and that once its alarm has come a burst lies in
the past (`OnTimeInv`), so that the multiple of the period to which the next
sleep leads is a later one; where a sleep ends is the lemma `SleepLands`.

`ThreadTreeProofs`, for every number of stages and threads (`TreeAssumption`: no
more stages than threads, since `make_task` gives each stage one thread less than
the one before): `StagesDoNotOverlap`,
`FreedAfterJoins`. The mutex makes the increment of `exit_count` atomic
(`MutexInv`), so the counter is the cardinality of the set of threads that have
an index, and these are distinct (`CountInv`); the last index is therefore taken
when all threads of the stage have theirs (`SpawnInv`), and the entries of
`ready`, which are threads with the index of the entry (`ReadyInv`), are joined
once each, so that as many joins as threads are joins of all (`JoinInv`). The
cardinalities are those of `FiniteSetTheorems`.

`ChannelProofs` is about `Rpc` and `Pipette`. For any set of clients, any
`--repeat` and any number of killed clients (`RpcAssumption`) there are
`CommandsInTurn`, `PhantomIsLast` and `OrderlyClientsAreHarmless`. `DialogueInv`
says where the one command of a client is: not made, in the request, read,
executed, answered, or lost with its client; then the phantom, read and
executed; or closed. With each place go the state of the server, the number of
commands executed and the count of the last one. `PlaceInv` says that a
connection is in the backlog, in the hands of the server or closed, and that the
server closes none before its client has; `CountInv` that the commands executed
count down and only the last one is a phantom. A reset that the server can meet
in a read or a write occurs in the place `Lost` alone, which is that of a killed
client.

For any sizes of a page, the pipe and the blocks, any number of blocks and of
failures (`PipetteAssumption`: a page is not empty and fits in the pipe, a block
is not empty and there is at least one, as `parse_opts` sees to), there are `BlocksArriveIntact` and
`PipeStaysOpen`. `Moved(c)` is the number of bytes a child has moved since it
started. `StreamInv` says that the pipe holds exactly the bytes between the
consumer's position and the producer's, and that a byte has the value of the
block that its position falls in; a position falls in one block only
(`OneBlock`). `BufferInv` says that what the consumer has of its block has that
block's value, so a full buffer is the block. `EndsInv` says at which of main's
statements a child may run and that main has both ends open there. The bytes of
a block are all equal, as `memset` makes them, so the order of the bytes inside
one block is not observed, neither by the program nor here.

`LttngSimpleProofs`, for every set of command lines, any number of targets and
of failures (`LttngAssumption`): `EveryRunIsTraced`, `NoSessionIsLeft`,
`EveryTargetInTurn`. `EnableInv` says that every command before the current one
has taken effect, except the one for system calls, whose failure the script
ignores; `SessionInv`, `TracesInv` and `LoopInv` say which sessions are there, which
targets have been run and how far the loop has come, also when an exception has
been raised, which the history variable `raised` records. The commands are
concatenations, and what occurs in them is the lemma `CommandList`.

`KernelLockProofs`, for loops of any length and any number of failures
(`KernelLockAssumption`): `FlagFollowsMutex`, `MainLeavesNothing`, and the action
property `InheritanceBoundsInversion`. `LockInv` says that, as long as `wk_exit`
does not hold the spin lock, the thread between open and close owns the mutex,
that at no time two threads are past `wk_open`, who waits, and that nobody is in
the file once `wk_exit` has returned; `PrioInv` that a thread past `set_affinity_prio` has the CPU and the priority
it asked for; `MainInv` which threads exist at each statement of main. From
`LockInv` and `PrioInv` the owner that highprio0 waits for has a priority above
that of highprio1 on the same CPU.

`PerfUserProofs`:

* `OneInterval`, for every interval and number of samples
  (`CalibrateAssumption`), and `MeasuredInOneInterval`, the same for `Calibrate` in
  its composition with `PerfUser`. `AtMostOneInterval` is not inductive: `CalInv`
  adds that while `counter` counts, its count and the time to the next alarm fit
  in one interval, and that the sum of `n` samples fits in `n` intervals; the
  division at the end is `AverageBounded`.
* `TimeArithmetic`, for every length of a second (`ProfileAssumption`): `time_sub`
  and `time_add` keep times normalised and are exact.
* `StatsAddUp`: what `profile_stats` computes by recursion telescopes. The
  induction over the data is made by hand, as the library's induction theorems
  cannot be instantiated here: a function with the recursion equations is shown
  to exist for every length (`TotalsExist`, `StatsAreTotals`), and the sums are the
  differences of the end points (`Telescope`), each because a least index for
  which it fails (lemma `Smallest`) is contradicted by the step.
* `RefreshesItsOwn` and `HandlerIsNotCounted`, for every number of threads, any
  plan of periods of at least 2 units and any lengths of the handler
  (`PerfUserAssumption`). `FdInv` says that the open descriptors and the threads
  that are between open and close correspond one to one, so a descriptor can be
  closed under a pending signal but is not given to another thread, because all
  threads open theirs before the barrier and close them after it (`BarrierInv`).
  `ThreadInv` says of each counter that did not overflow between `REFRESH` and
  `ENABLE` that it is either counting with a limit of one and no signal pending,
  or stopped. That a descriptor is always free for the next thread is a
  counting argument (`OneIsFree`).

`WorkloadsProofs` is about `Workloads` and `SchedFreq`. For every number of
threads, cycles, processes, samples and repetitions (`WorkloadsAssumption`: at
least one of each, and the code has 10 processes where the run has 3), there are
`CallsAreOrderly`, `NobodyIsOrphaned`, `UncheckedCallsAreSafe` and
`SlowestRotates`. The programs are data, so the argument is made once for all of
them, between two interfaces:

* what a script may look like (`Orderly`: a task is made by one call and main by
  none, a call that may leave its script in the middle does not leave a thread
  behind, a process with children ends at the end of its script, main joins only
  what exists by then, and frees after the joins; `Waited`: each fork is followed
  by its wait). This is shown for each program, by its lemma `...Orderly`, and
  `Waited` for each but `reparent.c`;
* what a step may do (`Effects`: positions go forward by one call or to the end,
  a task is born by its maker, dies at its end or with its process, and a wait, a
  create or a join that has been passed has had its effect). This is shown for
  each call of `Syscalls`.

From these two follows `CallsInv`: a task that is still to be made does not
exist, a living child of a process will be waited for (unless a one-argument
`waitpid` returned early), a thread past its creator exists, one past its join
has ended, and how a task can have ended at all. It implies `NoOrphans` and the
first two parts of `UncheckedCallsHold`. The rest needs an invariant for one
program each:

* `imbalance.c`, `CycleInv`: all threads are in one cycle. The barrier opens when
  as many wait as there are threads, and these are all of them by the theorems
  on cardinalities; two different ranks in one cycle, or one rank in two of
  `THREADS` cycles in a row, have different remainders (`RemaindersDiffer`);
* `proclife.c`, `FileInv`: a file that was opened holds at least what one of its
  writers has written. It is needed because main and process 0 truncate and
  write the same file;
* `cpm3.c`, `SockInv`: what has been sent and what has been asked for are those of
  two tables indexed by the positions of the server and the client. Both end
  with the same sum, so a `recv` that finds nothing is made while the server
  still has something to send, and the server does not die before, because only
  the end of the client gives it SIGPIPE.

For `SchedFreq`, with every number of workers and repetitions
(`SchedAssumption`), there are `TypeCorrect`, `TurnsRoundRobin` and
`SemaphoresOutliveWorkers`. The inductive invariant `IInv` says that there is a
rank `p` and a round such that the one token is at `p`, in its semaphore or in
the hands of its worker, and exactly the ranks below `p` are one turn ahead
(`TokenAt`); it also records how far main has come.

What stays with TLC, on the instances above:

* the liveness properties `Termination`, `UsersReturn`, `ClientsEnd`, `Ends`,
  `ProgramsEnd` and `ExperimentsEnd`: fairness and `ENABLED` are out of the
  prover's reach;
* the two runs that show a violation, `threadtree_ready` and
  `rpc_calibrate_count`, which have nothing to prove.

## Plan

Every component that is modelled has its runs, and every safety property its
theorem. What is left is liveness, for which the prover has no support.

## Not modelled

* `pingpong.py`: a client and a server thread in Python 2. Whether the program
  ends depends on `SocketServer`, `threading` and the order in which the
  interpreter shuts down, none of which is in the repository. What a reader
  should know: a connection made after `server.shutdown()` (line 137) is accepted
  by the kernel and never served, and the client's worker, which is no daemon,
  then waits for the end of the stream for ever.
* `signest.c` and `sigbench.c`: one thread that sends signals to itself; what is
  queued, merged or dropped is decided by the kernel.
* `cputemp.c`: one thread that reads sensors through lm-sensors and emits what it
  has read; it keeps no state from one sample to the next.
* `sockpair.c`, `pincpu.c`, `functrace`: a straight line of system calls, one
  system call, and a compiler hook.
* The stack unwinding of `perfuser.c` and `do_page_faults` of `utils.c`: no state.
* The micro-benchmarks (`timemalloc`, `copymm`, `ioburst`, `evfreq`, `stp`) measure
  time. The tracepoint providers are generated. `hello-openmp` is scheduled by
  the OpenMP runtime. Profiles, fsa files, build files and shell scripts are data
  or a line of commands.
