# Formal models of tms-sim

tms-sim is a discrete-time simulator for real-time scheduling, with evaluation
programs built on it. This directory holds TLA+ models of its parts, TLC runs over
small instances and TLAPS proofs for all instances. Paths of the code are given
below `src/src/`.

Contents: [1 The system](#1-the-system), [2 Modules](#2-modules),
[3 Runs](#3-runs), [4 Findings](#4-findings-and-observations), [5 Proofs](#5-proofs),
[6 What is not modelled](#6-what-is-not-modelled), [7 Plan](#7-plan),
[8 How to run](#8-how-to-run).

## 1 The system

A *taskset* is a list of tasks. A task activates jobs; a scheduler holds the
active jobs and decides in each time step which one executes; a job finishes or
is cancelled, and its task counts that and, for an (m,k)-firm task, records it in
a window of the last k jobs, m of which have to succeed. Evaluation programs run
many such simulations in parallel, on randomly generated tasksets or on tasksets
from XML files.

| Component | State | Operations | Interacts with | What makes it correct |
|---|---|---|---|---|
| Simulation loop (`core/simulation.cpp`) | `now`, `finalised`, counters | `run`, `finalise`, `initStep`, `doActivations`, `doExecutions`, `performCancellations`, `getResults` | calls the scheduler and the tasks, owns both | every step of time is accounted for; the exit condition says whether an (m,k) constraint was violated; both calls return; the printed numbers agree |
| Task, Job (`core/task.cpp`, `core/job.cpp`) | next activation, counters, delays; remaining time, latest start time | `spawnJob`, `completeJob`, `cancelJob`; `execStep`, `preempt` | jobs are created by a task, passed to the scheduler as pointers and deleted by the task's hook | each job is deleted once, after everybody has forgotten it |
| Deadline monitor (`core/deadlinemonitor.cpp`) | list of job pointers by latest start time | `addJob`, `check`, `jobExecuted`, `removeJob` | part of a scheduler; the key of an entry changes when the job executes | stays ordered although keys change in place; holds live jobs only |
| ALD scheduler, EDF, FPP (`schedulers/ald.cpp`, `edf.cpp`, `fpp.cpp`) | `mySchedule`, `dlmon`, `execMissJobs`, `currentJob`, `scheduleChanged` | `enqueueJob`, `initStep`, `schedule`, `dispatch`, `removeJob`, `hasPendingJobs` | the simulation | hands every job back exactly once; executes no hopeless job; policy order |
| OEDF family (`schedulers/oedf*.cpp`, `hcedf`, `phcedf`, `dvdedf`, `dbpedf`, `mkuedf`, `gmuamk`, `beedf`) | as EDF | `schedule` picks jobs to cancel by value | `removeJob`, task utilities and distances | cancels only what may be cancelled; what it gives up costs no constraint it could keep |
| GDPA, GDPA-S (`schedulers/gdpa*.cpp`) | `readyQueue` beside `mySchedule`; three lists | `schedule` rebuilds or chooses a list | tasks' distances | every accepted job comes back; no idling over work |
| Task models (`taskmodels/`) | period, sporadic seed, (m,k) parameters, patterns | hooks called by Task, copies, clones | the (m,k) monitor | a copy behaves as the original |
| (m,k) monitor (`taskmodels/mkmonitor.cpp`) | ring buffer, sum, number of recorded values, violations | `push`, `getCurrentSum`, `isStateValid`, `getState` | (m,k) tasks, feasibility simulations | sum and ring agree with the last k outcomes |
| Feasibility simulations (`mkeval/gstsimulation.cpp`, `mkpsimulation.cpp`, `fixedtimesimulation.cpp`, `mkallocators.cpp`) | (m,k) states per hyperperiod | `simulate` | repeated `Simulation::run` | success means that the simulation never fails |
| Worker pools (`utils/mtrunner.h`, `mtlgrunner.h`) | two pools, two mutexes, two condition variables, two flags | `run`, per thread `putWork`, `getWork`, `putResult`, `getResult` | generator, workers, aggregator, main thread | no work and no notification is lost, `run` returns when all is done |
| mkdse, mkbdexcsearch, mkeval (`mkeval/mkdse*.cpp`, `bdexcsearch.cpp`, `eval.cpp`) | simulation sets, maps from simulations to sets, bitmaps of results, tallies, more locks | callbacks of the pool, `finishInitialisation`, signal handler | worker pool | a set is written and deleted when all of its simulations are finished; the logs and tables say what was found |
| Taskset generation (`mkeval/mkgenerator.cpp`, `abstractmktaskset.cpp`, `prseedsearch.cpp`, period generators) | seeds | draws, sufficient test, rotation values | its programs | a seed leads to the same taskset again; the search for seeds ends; the test is sound |
| XML input and output (`xmlio/`) | | `writeData`, builders | everything that reads tasks | files carry the tasks |
| tseval (`tseval/`) | producers' buffers, dependency matrix | data exchange between jobs, response times | Simulation, worker pool | consumers read the newest data their model allows; response times are bounds |
| Utilities (`utility/`) | windows of utilities | `addUtility`, `predictUtility` | tasks, OEDF | the value is that of the jobs that ended |
| Programs (their `main`s) | globals, open files, options | initialise, calculate, clean up, signal handlers | all of the above | no object is used before it exists or after its end; 0 means done |
| Viewer (`vis/`) | traces, models of logs, selected step | `LogFileReader`, `DisplayData`, `DisplayWidget`, `VisWindow` | the execution log | paints what was executed, shows the states of then |

Hard behaviours. The simulator itself is sequential, so its hazards are not
interleavings but long sequences of legal calls: jobs are shared by pointer
between several lists of the scheduler and a result list, leave them at three
places, and are deleted by a third party; a call can end in the middle of a step
and be followed by another. Concurrency exists in the evaluation programs, in the
worker pools, mkdse and prseedsearch, and in signal handlers. Nothing is
persisted across a crash, and no message can be lost; what files there are, one
program writes and another reads. `PROJECT.json` lists the hazards with their lines
and the properties that cover them.

## 2 Modules

```
JobLife                    promise of a scheduler, with its proof
DeadlineMonitor            operators on the monitor's list
ALDScheduler               EXTENDS DeadlineMonitor
MkMonitor                  operators on an (m,k) ring
Simulation                 EXTENDS ALDScheduler, MkMonitor; refines JobLife
SimulationProofs           EXTENDS Simulation
ScheduleProofs             EXTENDS SimulationProofs: order, constraints, time
TaskModels                 EXTENDS MkMonitor: constructors, copies, allocators of tasks
TmsSim                     EXTENDS Simulation, TaskModels: clones in tms-sim

Utility                    aggregators of utilities
OEDF                       EXTENDS Simulation, Utility
GDPA, GDPAS                EXTEND Simulation
Overload                   EXTENDS OEDF, GDPAS: one of these schedulers
OverloadProofs             EXTENDS Overload, ScheduleProofs
OptimalityProofs           EXTENDS OverloadProofs: what EDF and MKUEDF achieve
Vis                        EXTENDS Overload: the viewer reads and shows the log
Reports                    EXTENDS Vis: results and delay counters
TmsMath                    gcd, lcm, binomial coefficients
Feasibility                EXTENDS Overload, TmsMath, TaskModels

WorkPromise                promise of a worker pool
MtRunner                   refines WorkPromise
MtRunnerProofs
UtilisationStatistics, Bitmap
Evaluation                 EXTENDS MtRunner and these: mkdse, mkbdexcsearch, mkeval, tseval
EvaluationProofs           EXTENDS Evaluation, MtRunnerProofs

PeriodGenerators, DependencyMatrix
TsEval                     EXTENDS Simulation and these: producers and consumers
Generator                  EXTENDS MkMonitor, TmsMath, PeriodGenerators
TasksetFile                what is written, accepted and read
Generation                 EXTENDS Generator, TasksetFile

KvFile, Logger, ProgramTables
Programs                   EXTENDS these: the mains of all programs
```

Each `MC...` module gives the constants of the module it is named after finite
values. Definitions whose comment begins with *Mutant* are variants of the
definition that follows them with a plausible mistake. No specification uses them.
For every property of a passing run, `PROJECT.json` names one that violates it.

### Simulation

**DeadlineMonitor** models the four methods of the class as operators from lists
to the set of lists they can leave. A list contains identifiers of jobs; the
second parameter `L` gives the latest start time of each job that exists. Real
entries are pointers, so an entry outside `DOMAIN L` is a pointer to a deleted
job; comparing with it may go either way, and the operators return both results.

**ALDScheduler** has the scheduler's variables, which are named as in `ald.h`,
and the jobs that exist (`job`, the heap). Each operator is a method or one round
of a loop: `KeepMissJob` and `DropMissJob` are the two branches of `initStep`,
`DispatchIdle`, `DispatchStep` and `DispatchFinish` the three outcomes of
`dispatch`. EDF and FPP differ in `Key` only. A configuration record holds the
policy and the flags of `SchedulerConfiguration`.

**MkMonitor** models the ring buffer: constructor, `push`, `getCurrentSum`,
`isStateValid`, `getViolations`, `getState` and `getReducedState`, and what the
(m,k) task models compute from it. `recorded`, which the code increments for ever,
stops at k, because it is only compared with k.

**Simulation** is the loop. `pc` is the point inside a step:

```
api -> initStep -> (cancelInit) -> activate -> schedule -> (cancelSchedule) -> dispatch -> initStep | api
```

`Run` and `Finalise` are the calls (`finalise` skips `activate`), `MissKept`,
`MissDropped`, `InitStepDone` a round and the end of `Scheduler::initStep`,
`CancelJob` and `CancelDone` a round and the end of `performCancellations`,
`Activate` and `NotYetActive` a round of `doActivations`, and `Idle`, `Execute`,
`Complete` the outcomes of `doExecutions`. Task hooks run inside the action that
calls them: `CancelJob` counts, pushes 0 to the monitor of an (m,k) task and
deletes the job. A periodic task has one distance between activations (`gaps`), a
sporadic or SP task several; the number of losing `rand_r` draws is the
nondeterministic choice. A job is named by its task and its number there; `jobId`,
which some task models do not increment, is used for printing only.

Tasks have execution times and relative deadlines of at least 1. With execution
time 0 the remaining time wraps around; with relative deadline 0 a job can finish
in the step that activates it, at its deadline, and the deadline monitor keeps it
as with `dlMissCancellations` off, which the run `late_entries` shows.

**JobLife** is what `core/scheduler.h:96-99` asks for: "Any job that is enqueued
must be returned to the simulation later", once. It counts, per task, activated
and returned jobs. Simulation implements it with the mapping *pending = jobs that
exist*, *returned = completions + cancellations*.

**TaskModels** has a constructor for each task class, the copy constructors and
`clone`, and the allocators that convert one class of (m,k) task into another.
**TmsSim** is `main` of tms-sim: the tasks that were read, a clone of each, `run`
and then `finalise` whatever `run` returned.

### Schedulers that choose

**Utility** models the aggregators on a record: `UAWindow`, `UAWMean`, `UAWMK`,
`UAMean`, with values as rationals. **OEDF** adds `schedule` of `OEDFMax` and
`OEDFMin`: each round of its loop, with `checkEDFSchedule` and `removeJob`; a variant
(HCEDF, PHCEDF, DVDEDF, DBPEDF, MKUEDF, GMUA-MK, BEEDF) is a value per job and a
filter of candidates. **GDPA** has `readyQueue` beside `mySchedule`, **GDPAS** three
lists; each replaces `enqueueJob`, `schedule`, `dispatch` and `hasPendingJobs` of
Simulation's scheduler where the class overrides them. **Overload** is the simulation
with one of them; `owned` are the variables only they have.

**Vis** reads each line of the execution log in the step that writes it:
`LogFileReader` builds the traces and `DisplayWidget` paints them. What a user does with
them is modelled as functions on a session: `VisWindow` loads logs into `DisplayData`,
which makes a model by log and one by task of them; `SetStep` and the operations that lead
to it (dragging, stepping, at the start) select what the widgets of both show. **Reports**
adds `SimulationResults`, what is printed of them, and the delay counters.

**Feasibility** has an action for each part of `GstSimulation::simulate`,
`MkpSimulation::simulate` and `FixedTimeSimulation::simulate` around the steps of
Overload, with the table of `MkAllocators`. After the verdict `GoOn` lets the
simulation continue, so that invariants can say what the verdict is worth.

### Programs

**MtRunner** models both pools. The body of each `unique_lock` scope is one action,
since threads touch the shared state only there; the wait inside `getWork` and
`getResult` ends the action, and the woken thread evaluates the loop condition
again. `notify_one` wakes one waiting thread, chosen arbitrarily, and any waiting
thread may wake without a notification. `MtRunner`'s generation function returns
one piece of work, `MtLgRunner`'s a list; `plan` holds the lengths of the lists.
All threads have been started in `Init`: a thread that is started later is one
that is slow. The work function lies between `GetWork` and `PutResult`. That it
never returns NULL, which would end the aggregator early, was checked at the
callers. **WorkPromise** is what the header promises: run() aggregates the result
of every generated piece of work once, and returns then.

**Evaluation** puts the callbacks of mkdse, mkbdexcsearch, mkeval and tseval into
the threads of MtRunner. A section under one of mkdse's locks (`mgtLock`, `genLock`,
`initLock`) is one action; whether a simulation succeeds is part of the input, so the
invariants can compare what is logged, tallied and printed with what was put in.
**Bitmap** has words of `ElemSize` bits, with the bits behind the end set in advance as
in the code; the run uses words of two bits, so that sets end inside and at the end of
a word. **UtilisationStatistics** computes in fractions.

**Generator** computes a taskset from drawn numbers: (m,k) utilisations, execution
times, order, the sufficient test, the rotation values and the feasibility periods.
The draws are the sets in **PeriodGenerators** and `ProduceInt`; floating-point numbers
are rationals. **TasksetFile** says what each class writes, what `tasksets/taskset.xsd`
accepts, and what each builder makes of an element. **Generation** has the threads of
prseedsearch and the programs that write task files and read them (mkwrite, mkrun,
extwrite, tswrite, mkrun-xml, mkcs-check, mkdse's task files).

**TsEval** generates the tasksets of tseval or takes those of tsrun, analyses their
response times and simulates them under FPP with the hooks of `PProducerTask` and
`PConsumerTask`; **DependencyMatrix** is the set of matrices the constructor can draw.

**ProgramTables** has one row per program - the options, the steps of `initialise`,
`main` and the clean-up in their order, what each creates, uses, opens, deletes, and
what is done after a failure - and **Programs** executes a row: `ParseBoostOptions` or
`ParseArgs`, then step after step, any of which may fail where the code says so, with
signals in between. **KvFile** is the configuration reader, **Logger** the table of log
classes.

## 3 Runs

| Run | Shows | States |
|---|---|---|
| `simulation` | 10 invariants, termination of calls, refinement of JobLife | 142,203 |
| `overload` | 6 invariants, termination, work conservation | 29,362 |
| `feasibility` | 3 invariants | 78,851 |
| `worker_pool` | 3 invariants, termination, refinement of WorkPromise | 30,506 |
| `evaluation` | 2 invariants, termination | 163,067 |
| `generation` | 3 invariants, termination | 39,178 |
| `tseval` | 2 invariants | 132,261 |
| `programs` | 3 invariants | 258,803 |
| `repeated_time`, `late_entries`, `clones`, `recurrence` | findings, see section 4 | |

### simulation

* `JobsHeld`, `CurrentJobScheduled`, `EveryJobReturnedOnce`: ownership of jobs.
  Every job is in the schedule or in the cancelled list, exactly once;
  `currentJob` is alive; what was enqueued comes back once.
* `MonitorCoversSchedule`, `MonitorSorted`: with `dlMissCancellations` on, the
  monitor and `execMissJobs` divide the schedule between them, and the list is
  ordered by the present keys.
* `NoHopelessJob`: what the monitor is for. No job anywhere in the schedule has
  become hopeless when a step is dispatched, unless it may not be cancelled or
  has just been activated.
* `EDFOptimal`: the other direction. A taskset whose processor demand fits into
  every interval loses no job under EDF and has no late one. The intervals are those
  that end with the deadline of a job which `run` can activate, so they are as long as
  the horizon and the relative deadline (`DemandFits`).
* `ScheduleInPolicyOrder`: deadline or priority order, ties in activation order.
* `TimeAccounted`: now = idle steps + steps spent on completed, cancelled and
  pending jobs, over calls that were left early.
* `ResultMatchesConstraints`: with `EC_CANCEL` in the exit condition, calls that
  returned 0 mean that no (m,k) constraint was violated, and a non-zero result
  comes with a violated one.
* `CallsReturn`: `run` and `finalise` return.

Bounds: `run` is called with 4 or 8 steps as often as fits before `Horizon` = 12,
and `finalise` at any time; after an early exit both may be called again.
Tasksets: two periodic tasks with periods 3 and 4 (hyperperiod 12, so the horizon
sees every phase), all execution times from 1 to 3 — utilisations from 0.58 to
1.75 — with and without offset and with both priority orders; tasks with
deadlines shorter than periods; (m,k)-firm tasks with windows of two, which start
full or empty, next to a sporadic task; DBP, MKP and SP tasks, rotated and
relaxed. `NoHopelessJob` needs jobs that overtake each other in the monitor, which
the two-task sets have; cancelling several jobs in one step needs three tasks. All
eight combinations of the flags are run with both policies; with
`dlMissCancellations` off only small tasksets, because every dangling entry doubles
the branches. Early exits do not advance time, but each removes at least one job, so
the runs are finite.

Fairness: `WF_vars(Step)`. The simulation is a sequential program; inside a call
some step is always enabled and the caller waits, so the only assumption is that
the thread keeps running. Calls themselves are not fair: nobody has to call. The same
holds for `overload` and the other sequential runs.

### overload

* `JobsHeldOnce`: jobs and the scheduler's lists, for schedulers with one, two or
  three lists.
* `EDFOptimal`: what fits loses no job, although these schedulers look for jobs to
  cancel in every step.
* `StartedJobsSpared`: with `execCancellations` off no job that has executed is
  cancelled, by any of the ways.
* `MKUKeepsConstraints`: what MKUEDF gives up costs no task its constraint, where a
  task has one job at a time and MkpTasks are relaxed. A strict MkpTask answers a
  cancellation from its pattern: `cancelHook` fails for a mandatory job even if the window
  of the last k jobs could take it, and MKUEDF decides by the window. The run contains an
  MkpTask of each kind.
* `GDPAReturnsJobs`, `CallsReturn`, `WorkConserving`: GDPA's jobs come back where
  everything may be cancelled; calls return; no scheduler idles over a job that could
  still meet its deadline.
* `ReportsAreTrue`: the printed results add up, the delay counters count the runs of
  late jobs, and the viewer paints what was executed (for logs of (m,k) tasks without
  late jobs, which is what the reader can decode). Whatever way a session comes to a step
  in which a job executes, both of its models show the (m,k) state its task had then, once
  for each log that matches (a log is loaded twice, and once with its tasks turned round).

Bounds: overloaded tasksets of two and three tasks, in a horizon of 12 with calls of 4
or 8 steps; all variants. `finalise` is not called for GDPA unless both kinds of
cancellation are on: it would not return (section 4).

### feasibility

* `RecurrenceIsFinal`: if no job was pending at the ends of the hyperperiods and no
  task follows a pattern, a recurring (m,k) state means that the simulation never
  violates a constraint.
* `MkpSuccessIsFinal`: neither does one that passed the sufficient test, nor an MKP
  simulation of the feasibility period without rotations.
* `RecursInTime`: the bound on the number of hyperperiods is never what ends a
  successful simulation; what is logged of each simulation is what happened.

Bounds: two and three tasks with periods up to 4, windows up to (2,3), all ten
allocators. `Horizon` = 60 is five hyperperiods of 12 and more than ten of the others;
the longest feasibility period of the instances lies below it.

### worker_pool

* `WorkConserved`: each generated piece of work is at exactly one place.
* `NoLostWakeup`: work in the pool implies a worker that is awake; announced end
  implies nobody asleep.
* `BoundedOvertaking`: a result overtakes fewer pieces of older work than there
  are workers, which is the disorder a reader of the logs may meet.
* `RunReturns`, `ResultsAggregatedOnce`: termination and refinement.

Bounds: three workers (two that compete and one that sleeps), up to four pieces of
work, as single pieces, as lists, none at all, and with an empty list in between,
which ends the generation. Fairness is weak fairness of each thread's own
statements: the operating system runs every thread, mutexes are held for a few
statements, the number of critical sections is finite, and the work function
returns. Spurious wake-ups are not fair.

### evaluation

* `SignalsFindSets`: the signal handler of mkdse, in any moment in which it gets
  `mgtLock`, finds the set of every simulation that is running.
* `LogsAreRight`: each log record, map, tally, printed table and statistic says what
  the simulations found, once per seed, and nothing is left over at the end. The breakdown of
  mkbdexcsearch is the last success before the first failure at any utilisation; that of
  mkdse, which simulates no utilisation with U_mk > 1, is the smaller of it and of its last
  utilisation.
* `EvaluationReturns`: the three waits of mkdse - results for the initialisation, that
  for the generator, main for all - end, under the fairness of `worker_pool`. The work
  function is assumed to return: a search of mkbdexcsearch is one step, and that its loop
  ends is part of `InputsAssumption` (section 4 has the case in which it does not).

Bounds: two workers; up to three seeds (four for mkeval) with up to three utilisations
and three allocators, one of them twice; sets of which the last utilisation is a dummy;
no seeds; for mkbdexcsearch also successes at utilisations with U_mk > 1. Buckets that
the code does not clear start with 0 or 7.

### generation

* `SeedsReproduce`: every seed in the file of prseedsearch leads to the taskset that
  was found, without another draw, and when the threads are joined there are as many seeds
  as were asked for and one more for each other thread.
* `SearchReturns`: prseedsearch ends if there are that many seeds that lead to valid
  tasksets, whatever its threads draw meanwhile. Fairness: each thread goes on, and strong
  fairness for each number: `rand_r` has a full period, so that a number comes back as long
  as anybody draws, from the shared sequence or from the one of a constructor that replaces
  its seed. Weak fairness would not do, since a thread that builds a taskset draws nothing.
* `SufficientIsSafe`: what passes the sufficient test meets all mandatory deadlines in
  a simulation of its whole cycle, with and without rotations; where it does not pass,
  MKP's feasibility period is long enough for tasks without rotation.
* `FilesKeepTasks`: what is read from an accepted file is what was written, apart from
  the two differences named in the definition; rotations are found again from files.

Bounds: two threads, four seeds, two and three tasks of periods up to 9; a file has two
tasks out of one of every class with every aggregator. Deadlock checking is off since the
programs end, and prseedsearch may run out of seeds (section 4).

### tseval

* `ResponseTimesBound`: no job is pending for longer than its computed response time.
* `DataFresh`: consumers see the newest data each availability model allows, ages are in
  the order LIB, RTA, LET, and the statistics are those of the ages.

Bounds: tasksets with two or three producers and consumers, periods 4, 7 and 14, one run of
17 steps, and files of tsrun with equal and inverted priorities and with buffers of 0 to 4
entries. Both properties assume that priorities differ, as they do in tasksets of tseval, and
`DataFresh` speaks of producers whose buffers have two entries at least: tseval's have two,
tsrun takes what the file says (section 4).

### programs

* `NothingWildUsed`: whatever is given, missing or malformed, and whenever a signal
  arrives, no object is used that does not exist or deleted twice, except in the cases
  listed in `KnownCrash`.
* `ResultFilesWhole`: a program that ends has left former result files alone or finished
  its own, except in the cases listed.
* `ZeroMeansDone`: exit code 0 means that the work was done, with the configuration from
  the files and exactly the log lines asked for, except in the cases of `ToleratedFailure`.

Not every run ends. A step that may go on for ever can end with the status "looping", which
only a signal leaves: reading an overlong seed line, `-S` with a joined value, the draws of a
generator, which are repeated until they fit the utilisation or the response times, and the
searches and simulations in `MayNotEnd`. Whether the inputs let them end is outside of this
module, so no property of it says that programs end; `EvaluationReturns`, `SearchReturns`
and `CallsReturn` say it of their parts.

Bounds: all seventeen programs; each combination of values of the given options, and each
set of given options; configuration files that are whole, lack a line, a key or the last
newline, or hold ranges from which nothing can be drawn or parameters for which there is no
matrix. Integers have `IntBits` = 8 bits.
Deadlock checking is off, since programs end.

## 4 Findings and observations

`repeated_time`: `run` leaves its loop with `break` when cancellations violate an
(m,k) constraint (`core/simulation.cpp:173-177`), so `now` is not advanced, and
the next call starts with the same time. `tms-sim/tms-sim.cpp:173-174` calls
`finalise` whatever `run` returned. `core/scheduler.h:123-124` demands: "Point in
time, succeeding calls to this functions must have increasing times".
`TimeAccounted` and `EveryJobReturnedOnce` show that EDF and FPP get over it.

`late_entries`: `dispatch` takes a finished job out of the deadline monitor only if
its deadline is still ahead (`schedulers/ald.cpp:182-203`); later ones are
expected in `execMissJobs`, where only `initStep` with `dlMissCancellations` moves
them. With that flag off (it can be set in the econf file) the entry stays when
the job is deleted, although `core/deadlinemonitor.h:88-91` says "Contains
current jobs ordered increasingly by their latest starting times." Each later
`addJob` compares with the deleted job. The outcome does not reach the schedule,
since `check` is not called in this configuration; it is undefined behaviour.

`clones`: the copy constructor of `PeriodicTask` sets the offset to 0
(`taskmodels/periodictask.cpp:52`), and `MkTask` inherits `clone` from it, so that a
clone of an `mktask` is a periodic task without a constraint. tms-sim simulates clones
only (`tms-sim/tms-sim.cpp:161`). `core/icloneable.h:43` promises "A pointer to a
deep-copied clone of the object".

`recurrence`: `GstSimulation` compares (m,k) states at the ends of hyperperiods, not
the jobs that are pending there (`mkeval/gstsimulation.cpp:95`), and returns true for
a taskset that violates a constraint afterwards.

Observed while modelling, without a run of their own; the models contain all of them
unless it says otherwise:

* Simulation: GDPA keeps a job that has become infeasible in `readyQueue` for ever when
  it may not be cancelled (`schedulers/gdpa.cpp:62`), and `finalise` does not return.
  The flag `(F,M)` of a log line uses `dl <= now` where `misses` counts `dl < now`.
* Copies of an (m,k) task reverse its history: the constructor takes the least significant
  bit for the oldest value, `getState` makes it the most significant.
* `SporadicTask` and `SPTask` with a probability of 1 draw for ever (not modelled: the
  number of draws is bounded).
* `MkpSimulation`: with rotations its feasibility period, the lcm of all periods and all
  k, can be shorter than the cycle of the patterns, the lcm of the products k * period, and
  MKP-S can succeed before a violation. Without rotations it is long enough, which
  `SufficientIsSafe` and `MkpSuccessIsFinal` check. `GstSimulation`'s message names one
  hyperperiod less than it simulated when it succeeds.
* Generation: the programs test only that the keys of the generator's configuration
  exist. An empty range (`minK` = `maxK`) ends in an assertion and a negative number in a
  division by zero, after result files were opened. `produceInt` may return max + 1, so
  m may be k + 1. A thread of prseedsearch that finds no further seed never ends, nor does
  a generator whose draws never come near the utilisation (`mkeval/mkgenerator.cpp:77`,
  `mkeval/abstractmktaskset.cpp:82`).
  `GmPeriodGenerator` keeps the product of 1/2 across its rounds.
* XML: the builder of `dbptask` is not registered, so these tasks are dropped.
* mkdse, mkeval: `Bitmap::str` leaves out the last word when the size is a multiple of
  64, so that the map of 64 utilisations is empty. Buckets above the first `nEvals` are not
  cleared. mkeval sets the success bit in both branches; its average `succ` is an integer
  division; the statistics assert at least two tasksets, and the upper index of the median
  interval lies behind the data for two or three.
* mkbdexcsearch goes on above U_mk = 1, where `GstSimulation` may succeed for the reason of
  `recurrence`, so that it can log a higher breakdown than mkdse. Without
  `dlMissCancellations` an allocator may never fail, and the search does not end
  (`mkeval/bdexcsearch.cpp:466`).
* tsrun: the size of a producer's buffer comes from the file (`xmlio/pproducertaskbuilder.cpp:64`)
  and is not tested. With one entry `getData` returns data of the future, without any it
  returns a time of -1.
* tseval: the matrix has rows for producers where `tstaskset.h:134` says consumers, a
  producer need not have a consumer, and `validate` only prints a message, so that the
  exceptions and assertions of `DependencyMatrix` end the program. The variance is
  summed up in an integer, and the mean of no samples is 0/0.
* Programs: `parseArgs` of tsrun, tswrite and tseval is a `bool`, so that missing options
  end with 0; `-Sx` loops for ever; `-l` of tms-sim has no effect after `setClass(0)`;
  excrun and cexcrun use an allocator that was not found; `genseeds -f 0` divides by zero;
  a seed line longer than the buffer is read for ever; the handler of prseedsearch uses what
  `cleanup` has deleted; the last line of a configuration file counts only with a newline.
* Viewer: tasks without (m,k) state are not decoded, a late completion is not
  recorded, a cancelled executing job gets another entry, entries of one time are several
  although `jobinfo.h` says at most one, and the chart starts at the first activation. The
  last step is not painted. Stepping back before a task's first entry leaves the old state,
  a finished job's entry shows the state before its outcome, and a log that is opened later
  removes every state until a step is selected again. `DisplayData::clear` keeps `tMax`,
  `VisWindow::clear` does nothing (these two are not modelled: nothing calls them to effect).

## 5 Proofs

Everything here holds for every value of the constants. What is assumed of them, besides
that sets of workers are finite and not empty:

* `TasksetsAssumption` and `TypesAssumption` (Simulation): tasksets are non-empty sequences
  of task records, a task has a distance between activations, its initial (m,k) state has
  length k, m <= k. Parameters, arguments of `run` and the horizon are arbitrary, and so
  are the variant of the scheduler and its parameters.
* `PlansAssumption` (MtRunner): a generation function returns lists;
* `InputsAssumption` (Evaluation): at least one allocator, at least one utilisation per
  seed, and the first of them is no dummy, since `generateTaskset` compares with the
  previous one; only finitely many simulations succeed; `ElemSizeAssumption` (Bitmap): a
  word has bits.

### The simulation loop, EDF and FPP

`SimulationProofs` begins with what inserting and moving does to the list of the deadline
monitor: which elements it has (`InsertByKeyRange`, `JobExecutedRange`) and that it stays
ordered (`AddJobSorted`, `JobExecutedSorted`). The second is the delicate one: the key of one
entry has grown, the entries in front of it are ordered under the old and the new keys, and
the entry is put before the first one behind it that is not smaller.

`SimulationInv` proves `IInv`, from which follow `SimulationTypeOK`,
`SimulationJobsHeld`, `SimulationCurrentJobScheduled`, `SimulationMonitorCovers`,
`SimulationMonitorSorted`, and with it `SimulationImplementsJobLife`. `LifeAccounted` in
`JobLife` has the books of JobLife, which the refinement carries over. `IInv` is the
conjunction of these invariants and of what they need to be inductive:

* `JobsNumbered`: a job's number is below its task's activation count, so a new
  job's name is fresh.
* `StepsLeft`: a scheduled job has at least one step left. Otherwise a step could
  leave a job with no or negative remaining time.
* `DeadlinesAhead`: an entry of the monitor whose job is executed has its deadline
  ahead of now after `initStep`. `dispatch` takes a job out of the monitor only
  under that condition, so without this conjunct MonitorCoversSchedule would not
  survive `Complete`. It is where the relative deadline of at least 1 is used.
* `ScheduleIsSeen`: if `scheduleChanged` was never set, the schedule is empty,
  which makes `currentJob`, when there is one, the first of the schedule.
* `SchedInv`: type and shape of the scheduler's part.

`ScheduleProofs` strengthens it four times.

* `OrderInv` gives `SimulationPolicyOrder` and `SimulationNoHopelessJob`. Order is
  inductive given `OneByOne`: the jobs in the schedule have been activated before this step
  or, while `doActivations` is running, by tasks before its index, so a new job of equal
  key belongs behind them. That no hopeless job is left needs `LateAreStarted`: of what
  `check` has named, only started jobs that may not be cancelled are still there.
* `ConstraintInv` gives `SimulationResultMatches` and `SimulationExitHasReason`. It says that
  the ring of a monitor is filled from its start (otherwise a new window could be read
  before it is full), that a failed cancellation in the present step or an exit condition
  comes with a violated constraint, and that without either none was ever violated. An
  MkpTask that is not relaxed looks at its mandatory jobs only, so what its window says
  differs from what it reports; the first theorem is therefore stated for tasksets without
  such a task (`NoneStrict`), the second for all. With such tasks,
  `ResultMatchesConstraints` is model-checked.
* `TimeInv` gives `SimulationTimeAccounted`. Time is a sum over the heap and the tasks, so
  the module first has the sum over a finite set: adding, removing and changing one element
  (`SumRemove`, `SumChange`, ...). Induction over finite sets is replaced by a minimal
  counterexample (`MinimalSubset`), which needs no operator as a parameter.
* `SumInv` gives `SimulationWindows` and `SimulationOutcomes`. The code updates a ring and a
  sum in place and counts entries from a turning position; `Outcomes` reads from them the
  last k outcomes in order. `push` shifts these by one (`PushShifts`), the sum stays that of
  the ring (`PushSumRight`), and what `getCurrentSum` returns is the number of successes in
  them (`CountOutcomes`, by a bijection between places and positions). So each end of a job
  shifts the outcomes of its task once, and a violation is counted exactly when fewer than m
  of k known outcomes are completions.

### Schedulers that choose

`OverloadProofs`: `OverInv` is, besides the variant that never changes, one invariant per
family. `OEDFInv` adds to `IInv` that scheduled jobs are watched by the deadline monitor or
are in `execMissJobs`, also while `schedule` cancels one after the other, and that the
aggregators of utilities keep their windows. `GDPAInv` has two parts: `Queued` relates
`readyQueue`, `mySchedule` and the monitor between the steps, and `Building` describes the
schedule while it is rebuilt, when some of the queue has been tried and what was accepted
still needs to be a part of the queue. `GDPASInv` says the same of three lists. `Spared` says where a
started job may be. From these follow `OverloadJobsHeldOnce`, `OverloadStartedJobsSpared`,
`OverloadGDPAReturnsJobs`, and the action property `OverloadWorkConserving`. The refinement
`OverloadImplementsJobLife` shares its lemmas with that of the simulation (`SpawnLife`,
`CancelJobLife`, `CompleteJobLife`): what the schedulers choose, refuse and drop changes no
counter, and the job which each of them finishes is one that exists.

### What EDF and MKUEDF achieve

`OptimalityProofs` proves that EDF is optimal for the code's own loop, in which jobs are
activated, cancelled, executed and completed in turn. It needs no induction over a schedule:
the state has enough to say how far behind the processor can be. `OptimalInv` is `CallInv`,
which says where calls may stand, and, for a taskset whose demand fits (`Loaded`), `OnTime`:

* `Busy`: for every deadline d from now on there is a start, not after now, such that the
  steps since then and those which the pending jobs due by d still need are at most what the
  tasks may release from then on with deadlines up to d. When the processor is idle or
  executes a job due after d, no job due by d is pending, because the schedule is in the
  order of deadlines, and the start moves to now. Otherwise a step is paid by the job it is
  given to, and an activation by one more release.
* `InTime`: every pending job would be in time if it was next. It follows from `Busy` and
  `DemandFits`, and makes `initStep` and `check` find nothing to cancel.
* `NextAhead`: `run` misses no activation. A job which was activated late would have less
  than its relative deadline, and the number of releases in an interval would not be bounded.
* `NothingLost` is the property, with the two phases that never come.

`SimulationEDFOptimal` is for EDF, `OverloadEDFOptimal` for the schedulers that choose. These
cancel, refuse or drop jobs when the jobs in front of one need too many steps, so the proof
turns `Busy` into their own question: a list of pending jobs in the order of deadlines is
feasible (`FeasibleFits`, where the steps of the jobs in front are at most those owed by the
deadline, `SumInjected`). Hence OEDF repairs nothing, GDPA accepts every job it tries, and
GDPA-S drops none and stays on the list of deadlines; `OnSchedule` says what order their lists
have, also while GDPA is rebuilding its schedule.

`OverloadMKUKeepsConstraints` is about two histories of the same jobs. MKUEDF decides by the
window of an aggregator, the task reports by its monitor. `MkuInv` relates them:

* `WindowsAgree`: the aggregator counts no success that the monitor does not. They differ,
  since a late job is a failure for the aggregator and a success for the monitor, and the
  relation is kept by every end of a job. So what the aggregator predicts for one more
  failure holds for the monitor (`PredictionHolds`).
* `GivenUpAffordable`: the task of each job that waits to be cancelled can take one failure.
  It would not survive a second cancellation for the same task in the same step, so the
  proof needs that a task has only one job that may be given up:
* `AllButOneStarted`: of the jobs of a task all but one must still be executed. It is kept
  when a job is activated, because an older one that could still be given up is watched by
  the deadline monitor with its deadline ahead of now (`LateAreStarted`), while its deadline
  is not after the next activation of its task (`ReleasesApart`, `ActivationsAhead`, and the
  premise that deadlines are not longer than the distance of activations).
* `rv`, the result of the cancellations, is true wherever initStep is not cancelling: what
  initStep gives up is late in any case, and that may violate a constraint.

The theorem was attempted without the premise on MkpTasks first. It is false, as described
under `overload` in section 3.

### Worker pools and the programs on them

`MtRunnerProofs` looks at two lists only, `Queue`, the pool and behind it what the generator
still has in hand, and `Results`, what was aggregated and behind it the pool of results: most
steps move an item within one of them and change nothing (`QuietFlow`). `IInv` is

* `Control`: what the place of one thread tells of the others, for example that a worker
  that has ended has seen the pool empty and the generation finished;
* `NoLostWakeup`, which is inductive on top of `Control`;
* `Conserved`: every generated item is in one of the lists or in one hand, once;
* `StartedInOrder`: work is started in the order of its generation, without which
  `BoundedOvertaking` could not be kept: only work in hands can be older than a result.

It gives `MtRunnerWorkConserved`, `MtRunnerNoLostWakeup`, `MtRunnerBoundedOvertaking`,
`MtRunnerOneWorkerInOrder` (one worker keeps the order), `MtRunnerPromiseKept`, and step by
step the refinement `MtRunnerImplementsPromise`. The fairness of WorkPromise is not
involved; that `run()` returns is model-checked.

`EvaluationProofs` has five layers. A bitmap is the set of its bits for words of any size
(`NewBitmapEmpty`, `SetBitAdds`, `AllSet`), so a set is finished exactly when each of its
concrete tasksets is (`SetFinishedIsAll`). The callbacks of mkdse, mkbdexcsearch and mkeval
take the steps of MtRunner or leave the pool alone (`PoolStep`), so its invariants carry
over (`EvaluationPool`); tseval, which has no aggregator, comes last. `EvInv` is for
`EvaluationSignalsFindSets`:

* `MapsRight`: what is *open* - generated and not yet processed, or registered and not
  yet returned to the pool - is in both maps, belongs to a set that exists, and has not been
  notified. The last part makes the deletion of a set safe: it happens when all bits of
  the set are notified, and an open simulation is not.
* `ProcessingRight`: the result in processing is an aggregated one, so that no other open
  piece of work stands for the same simulation (`SimOfInjective`).
* `RunningRight`: a worker runs what it has in hand, and nobody has its result yet.

The handler that interrupts a thread inside `mgtLock` is outside this theorem: it would
wait for itself (a hazard without a property).

The next layer is about what is written, the part of `LogsAreRight` that needs no fold.

* `DseInv`, for `EvaluationSetsWritten`: `MapsExact` turns the inclusions of `MapsRight` into
  equations - the maps, the sets and the bits that are set are functions of the simulations
  that are open -, so the last result of a set is recognised as such (`ProcessSets`: a set is
  over exactly when none of its simulations is open) and nothing is left in the end.
  `UtilisationsKnown` says why `nUtils` covers every set when the initialisation is over: the
  end is announced when all sets are registered. `ResultsSimulated` and `SetSimulated` give
  the results of all simulations of a set that is over, those that dummies use among them
  (`BaseInSet`).
* `SearchInv` and `CountsRight`, for `EvaluationSeedsWritten`: mkbdexcsearch and mkeval write
  in the order of the aggregation, one record behind it at most, so no seed is counted
  twice, and the counters of mkeval are the numbers of seeds they ought to be.

The last layer is tseval, whose workers write their results themselves. `LogPool` is an
instance of `MtRunnerProofs` under a refinement mapping: what is written is the pool of
results of an aggregator that never looks, and the return of `runMulti` is the announcement
that the work is finished. Each step of tseval is a step of that pool (`NextTseval`), so its
invariant carries over without a new proof, and gives `EvaluationTsevalWritten`.

### Only model-checked

* Everything with fairness (`CallsReturn`, `RunReturns`, `EvaluationReturns`,
  `SearchReturns`), which the prover does not handle.
* `RecurrenceIsFinal`, `MkpSuccessIsFinal`, `RecursInTime`, `SufficientIsSafe` and
  `ResponseTimesBound`: theorems of scheduling theory about the hyperperiods and quotients of
  an instance, whose proofs are inductions over a schedule. Everything that uses gcd and lcm (Feasibility, Generation, TsEval) reaches the RECURSIVE operators of
  TmsMath besides, which takes the prover its arithmetic.
* `ReportsAreTrue`, `DataFresh`, `SeedsReproduce`, `FilesKeepTasks` and, of `LogsAreRight`, the
  breakdowns, anomalies and buckets: what folds over lists and files compute for every
  input is an induction over data.
* `NothingWildUsed`, `ResultFilesWhole` and `ZeroMeansDone` quantify over the rows of
  `ProgramTables`, which are finite and all covered by the run: a proof would be the same
  enumeration. The values of `IntBits` and the numbers in files are the bounded part.

## 6 What is not modelled

`PROJECT.json` has the list with reasons.

* `excdse.cpp` is in no build file. `FPPNat` and the `Dummy` scheduler are compiled, but no
  program creates or calls them. Other dead code, such as `utils/stat.cpp`, `calcStat` of
  tms-sim, `sortData` of the consumer and the test functions of tseval, is left out.
* `UAExp` has weights that are real numbers. Utilities, utilisations and statistics that are
  `float` or `double` in the code are exact fractions here, so rounding errors are not
  covered.
* Numbers are unbounded, except in what the configuration reader returns: overflow of
  hyperperiods (`utils/tmsmath.cpp:41`) and execution times of 0, which wrap, are hazards
  without a property.
* The sequence of `rand_r` is any sequence of numbers it may return.
* `TLogger` and `GlobalConfig`, which print and hold three values; the wording of messages
  other than what they claim; the Qt widgets of the viewer, its legend and geometry.
* No scheduler returns an error, so the exit conditions `EC_INIT_STEP`, `EC_SCHEDULE` and
  `EC_DISPATCH` never arise.

## 7 Plan

What is left needs more of the prover than it has: induction over data for the folds of
`LogsAreRight`, `ReportsAreTrue` and `FilesKeepTasks`, and gcd and lcm without RECURSIVE
operators, with their number theory, for Feasibility, Generation and TsEval.

## 8 How to run

```
tlc -config MCSimulation.cfg MCSimulation
tlc -config MCTmsSim_clone.cfg MCTmsSim
tlapm ScheduleProofs.tla
```

and likewise for the other modules and configurations; `PROJECT.json` lists the pairs.
