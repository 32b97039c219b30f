----------------------------- MODULE Simulation -----------------------------
(***************************************************************************)
(* core/simulation.cpp and core/task.cpp over the scheduler of             *)
(* ALDScheduler: the discrete-time loop that a caller drives with run()    *)
(* and finalise().  A step of time goes through the program points         *)
(*                                                                         *)
(*    initStep -> cancel -> activate -> schedule -> cancel -> dispatch     *)
(*                                                                         *)
(* (finalise() leaves activate out) and every action is one call, or one   *)
(* round of a loop over tasks or jobs.                                     *)
(***************************************************************************)
EXTENDS ALDScheduler, MkMonitor, FiniteSets

CONSTANTS
  Tasksets,  \* the tasksets to simulate, each a sequence of tasks
  Configs,   \* the scheduler configurations and exit conditions
  RunSteps,  \* the arguments run() is called with
  MinPriority, \* TMS_MIN_PRIORITY, the largest value of a priority
  Horizon    \* bound: run() is not called beyond this time

\* A task: its model, first activation, distances to the next one (one for
\* PeriodicTask and the (m,k) tasks, several for SporadicTask and SPTask),
\* execution time, relative deadline, priority, (m,k) constraint (k = 0: none),
\* initial (m,k) state, and MkpTask's actSpin and relaxed.  A relative deadline
\* of 0 is left out: its job may finish in the step that starts it, at its
\* deadline, and then stays in the deadline monitor (MonitorAfterFinish).
TaskRecord ==
  [model : {"plain", "mk", "dbp", "mkp"},
   first : Nat, gaps : SUBSET (Nat \ {0}), et : Nat \ {0},
   ct : Nat \ {0}, prio : Nat,
   m : Nat, k : Nat, init : Seq(Bit), spin : Nat, relaxed : BOOLEAN]

ConfigRecord ==
  [policy : {"EDF", "FPP"}, execCancellations : BOOLEAN,
   dlMissCancellations : BOOLEAN, exitOnCancel : BOOLEAN]

ASSUME TasksetsAssumption ==
  \A ts \in Tasksets :
    /\ ts # << >>
    /\ \A t \in DOMAIN ts :
         /\ ts[t].gaps # {}
         /\ Len(ts[t].init) = ts[t].k
         /\ ts[t].m <= ts[t].k
         /\ ts[t].model # "plain" => ts[t].k > 0
         /\ ts[t].model = "mkp" => ts[t].m > 0

ASSUME TypesAssumption ==
  /\ Tasksets \subseteq Seq(TaskRecord)
  /\ Configs \subseteq ConfigRecord
  /\ RunSteps \subseteq Nat \ {0}
  /\ Horizon \in Nat
  /\ MinPriority \in Nat

VARIABLES
  taskset,     \* the taskset of this simulation
  task,        \* the counters of each task and its next activation
  monitor,     \* the (m,k) monitor of each task
  pc,          \* program point; "api" between two calls
  mode,        \* the call that is running or has returned: "none", "run" or "finalise"
  now,         \* current time
  end,         \* where run() stops
  index,       \* the task doActivations looks at
  cancelled,   \* ScheduleStat::cancelled
  rv,          \* conjunction of the results of cancelJob in performCancellations
  ec,          \* the exit condition the last call returned: TRUE for EC_CANCEL
  finalised,   \* finalise() has returned
  idleSteps,   \* steps in which no job was executed
  cancelSteps, \* calls of performCancellations
  clean,       \* history: no call has returned an exit condition yet
  lastInit     \* history: time of the last call of Scheduler::initStep

tasks == <<task, monitor>>
fixed == <<config, taskset>>
results == <<ec, finalised, clean>>
vars == <<fixed, job, sched, tasks, pc, mode, now, end, index, cancelled, rv,
          results, idleSteps, cancelSteps, lastInit>>

Tasks == DOMAIN taskset

TaskState ==
  [next : Int, activations : Nat, completions : Nat, cancellations : Nat,
   execCancellations : Nat, performanceLost : Nat, misses : Nat,
   preemptions : Nat, useful : Nat]

\* Task::start
Start(t, at) ==
  [next |-> at + t.first, activations |-> 0, completions |-> 0,
   cancellations |-> 0, execCancellations |-> 0, performanceLost |-> 0,
   misses |-> 0, preemptions |-> 0, useful |-> 0]

\* Simulation::Simulation, which starts every task at time 0
Init ==
  /\ config \in Configs
  /\ taskset \in Tasksets
  /\ SchedulerInit
  /\ task = [t \in Tasks |-> Start(taskset[t], 0)]
  /\ monitor = [t \in Tasks |->
                  NewMonitor(taskset[t].k,
                             [i \in 0 .. taskset[t].k - 1 |-> taskset[t].init[i + 1]])]
  /\ pc = "api" /\ mode = "none"
  /\ now = 0 /\ end = 0 /\ index = 1
  /\ cancelled = << >> /\ rv = TRUE
  /\ ec = FALSE /\ finalised = FALSE /\ clean = TRUE
  /\ idleSteps = 0 /\ cancelSteps = 0 /\ lastInit = -1
-----------------------------------------------------------------------------
\* Simulation::run up to its first step; it throws once the simulation is finalised.
Run(steps) ==
  /\ pc = "api" /\ ~ finalised
  /\ now + steps <= Horizon
  /\ pc' = "initStep" /\ mode' = "run"
  /\ end' = now + steps
  /\ lastInit' = now
  /\ UNCHANGED <<fixed, job, sched, tasks, now, index, cancelled, rv, results,
                 idleSteps, cancelSteps>>

\* Simulation::finalise up to its first step, or to its end if nothing is pending.
FinaliseWith(pending) ==
  /\ pc = "api" /\ ~ finalised
  /\ mode' = "finalise"
  /\ IF pending
     THEN /\ pc' = "initStep" /\ lastInit' = now
          /\ UNCHANGED results
     ELSE /\ finalised' = TRUE /\ ec' = FALSE
          /\ UNCHANGED <<pc, lastInit, clean>>
  /\ UNCHANGED <<fixed, job, sched, tasks, now, end, index, cancelled, rv,
                 idleSteps, cancelSteps>>

Finalise == FinaliseWith(HasPendingJobs(mySchedule))

\* Mutant: the abandoned step is counted.
ExitOnCancelCounts ==
  /\ pc' = "api"
  /\ ec' = TRUE /\ clean' = FALSE
  /\ finalised' = (mode = "finalise")
  /\ now' = now + 1

\* The caller gets an exit condition.  The step is not counted, except by
\* finalise() when doExecutions gives up.
ExitOnCancel ==
  /\ pc' = "api"
  /\ ec' = TRUE /\ clean' = FALSE
  /\ finalised' = (mode = "finalise")
  /\ now' = IF mode = "finalise" /\ pc = "cancelSchedule" THEN now + 1 ELSE now

AfterInitStep == IF mode = "run" THEN "activate" ELSE "schedule"

\* Scheduler::initStep, one round of its loop
MissKept ==
  /\ pc = "initStep"
  /\ KeepMissJob(now)
  /\ UNCHANGED <<fixed, job, tasks, pc, mode, now, end, index, cancelled, rv,
                 results, idleSteps, cancelSteps, lastInit>>

MissDropped ==
  /\ pc = "initStep"
  /\ DropMissJob(now)
  /\ cancelled' = Append(cancelled, Head(dlmon))
  /\ UNCHANGED <<fixed, job, tasks, pc, mode, now, end, index, rv, results,
                 idleSteps, cancelSteps, lastInit>>

\* A phase of the scheduler has ended at point p; its cancellations come next.
PerformCancellations(p, next) ==
  /\ IF cancelled # << >>
     THEN pc' = p /\ cancelSteps' = cancelSteps + 1
     ELSE pc' = next /\ UNCHANGED cancelSteps
  /\ UNCHANGED <<fixed, job, sched, tasks, mode, now, end, index, cancelled, rv,
                 results, idleSteps, lastInit>>

InitStepDone ==
  /\ pc = "initStep"
  /\ ~ MissFound(now)
  /\ PerformCancellations("cancelInit", AfterInitStep)

\* What cancelHook returns for job j, after which its task's monitor is mon:
\* MkpTask's rests on the mandatory jobs unless it is relaxed, that of the other
\* (m,k) tasks on the state of the monitor.
CancelHook(j, mon) ==
  LET t == taskset[j[1]]
  IN  IF t.model = "mkp" /\ ~ t.relaxed
      THEN job[j].prio = MinPriority
      ELSE t.k > 0 => IsStateValid(mon, t.m, t.k)

\* Mutant: "rv =" for "rv &=".
CancelResultLast(j, mon) == CancelHook(j, mon)

\* rv &= task->cancelJob(job)
CancelResult(j, mon) == rv /\ CancelHook(j, mon)

\* The counters of Task::cancelJob
CountCancel(counters, j) ==
  [counters EXCEPT !.cancellations = @ + 1,
                   !.preemptions = @ + job[j].preemptions,
                   !.execCancellations = @ + (IF Started(j) THEN 1 ELSE 0),
                   !.performanceLost = @ + (job[j].et - job[j].rem)]

\* Task::cancelJob and the cancelHook of the task models
CancelJob ==
  /\ pc \in {"cancelInit", "cancelSchedule"}
  /\ cancelled # << >>
  /\ LET j  == Head(cancelled)
         t  == j[1]
         ts == taskset[t]
         mon == IF ts.k > 0 THEN Push(monitor[t], ts.m, ts.k, 0) ELSE monitor[t]
     IN  /\ task' = [task EXCEPT ![t] = CountCancel(@, j)]
         /\ monitor' = [monitor EXCEPT ![t] = mon]
         /\ rv' = CancelResult(j, mon)
         /\ job' = Delete(job, j)
  /\ cancelled' = Tail(cancelled)
  /\ UNCHANGED <<fixed, sched, pc, mode, now, end, index, results, idleSteps,
                 cancelSteps, lastInit>>

\* The end of performCancellations and the test of its result
CancelDone ==
  /\ pc \in {"cancelInit", "cancelSchedule"}
  /\ cancelled = << >>
  /\ rv' = TRUE
  /\ IF ~ rv /\ config.exitOnCancel
     THEN ExitOnCancel
     ELSE /\ pc' = IF pc = "cancelInit" THEN AfterInitStep ELSE "dispatch"
          /\ UNCHANGED <<now, results>>
  /\ UNCHANGED <<fixed, job, sched, tasks, mode, end, index, cancelled,
                 idleSteps, cancelSteps, lastInit>>
-----------------------------------------------------------------------------
\* One round of Simulation::doActivations: Task::spawnJob for the task at index,
\* and Scheduler::enqueueJob.
Advance ==
  /\ index' = IF index = Len(taskset) THEN 1 ELSE index + 1
  /\ pc' = IF index = Len(taskset) THEN "schedule" ELSE pc

\* The counters of Task::spawnJob, and spawnJobHook's next activation
CountActivation(counters, gap) ==
  [counters EXCEPT !.next = @ + gap, !.activations = @ + 1]

\* The priority that spawnHook gives to the next job of task t: DbpTask's is the
\* distance to failure, MkpTask's the lowest one for jobs that are not mandatory.
JobPriority(t) ==
  LET ts == taskset[t]
  IN  CASE ts.model = "dbp" -> GetDistance(monitor[t], ts.m, ts.k)
        [] ts.model = "mkp" ->
             IF IsJobMandatory(task[t].activations, ts.m, ts.k, ts.spin)
             THEN ts.prio ELSE MinPriority
        [] OTHER -> ts.prio

\* The next job of task t, and what spawnHook creates
NextJobId(t) == <<t, task[t].activations>>

NewJob(t) ==
  [dl |-> now + taskset[t].ct, et |-> taskset[t].et, rem |-> taskset[t].et,
   prio |-> JobPriority(t), preemptions |-> 0]

\* A job is due ...
SpawnJob ==
  /\ pc = "activate"
  /\ now >= task[index].next
  /\ \E gap \in taskset[index].gaps :
       task' = [task EXCEPT ![index] = CountActivation(@, gap)]
  /\ Advance
  /\ UNCHANGED <<fixed, monitor, mode, now, end, cancelled, rv, results,
                 idleSteps, cancelSteps, lastInit>>

\* ... and gets enqueued.
Activate == SpawnJob /\ EnqueueJob(NextJobId(index), NewJob(index))

NotYetActive ==
  /\ pc = "activate"
  /\ now < task[index].next
  /\ Advance
  /\ UNCHANGED <<fixed, job, sched, tasks, mode, now, end, cancelled, rv, results,
                 idleSteps, cancelSteps, lastInit>>

\* EDFScheduler::schedule and FPPScheduler::schedule do nothing
ScheduleDone ==
  /\ pc = "schedule"
  /\ PerformCancellations("cancelSchedule", "dispatch")
-----------------------------------------------------------------------------
\* The end of a step in run() and in finalise(), which goes on while jobs are pending
StepEndWith(pending) ==
  /\ now' = now + 1
  /\ IF \/ mode = "run" /\ now' < end
        \/ mode = "finalise" /\ pending
     THEN /\ pc' = "initStep" /\ lastInit' = now'
          /\ UNCHANGED results
     ELSE /\ pc' = "api" /\ ec' = FALSE
          /\ finalised' = (mode = "finalise")
          /\ UNCHANGED <<clean, lastInit>>
  /\ UNCHANGED <<fixed, mode, end, index, cancelled, rv, cancelSteps>>

StepEnd == StepEndWith(HasPendingJobs(mySchedule'))

IdleStep ==
  /\ pc = "dispatch"
  /\ DispatchIdle
  /\ idleSteps' = idleSteps + 1
  /\ UNCHANGED tasks

Idle == IdleStep /\ StepEnd

ExecuteStep ==
  /\ pc = "dispatch"
  /\ DispatchStep
  /\ UNCHANGED <<tasks, idleSteps>>

Execute == ExecuteStep /\ StepEnd

\* The counters of Task::completeJob.  The utility is UCFirmRT's: 1 up to the
\* deadline, 0 after it.
CountCompletion(counters, j) ==
  [counters EXCEPT !.completions = @ + 1,
                   !.misses = @ + (IF job[j].dl < now THEN 1 ELSE 0),
                   !.preemptions = @ + job[j].preemptions,
                   !.useful = @ + (IF now <= job[j].dl THEN 1 ELSE 0)]

\* Task::completeJob and the completionHooks of the task models, for job j
CompleteJob(j) ==
  LET t  == j[1]
      ts == taskset[t]
  IN  /\ task' = [task EXCEPT ![t] = CountCompletion(@, j)]
      /\ monitor' = [monitor EXCEPT ![t] =
           IF ts.k > 0 THEN Push(@, ts.m, ts.k, 1) ELSE @]
      /\ job' = Delete(AfterStep(j), j)

\* The step finishes a job.
CompleteStep ==
  /\ pc = "dispatch"
  /\ DispatchFinish(now)
  /\ CompleteJob(NextJob)
  /\ UNCHANGED idleSteps

Complete == CompleteStep /\ StepEnd

\* After finalise() the caller only reads the results.
Finished == finalised /\ UNCHANGED vars

Call == Finalise \/ \E steps \in RunSteps : Run(steps)

Step ==
  \/ MissKept \/ MissDropped \/ InitStepDone
  \/ CancelJob \/ CancelDone
  \/ Activate \/ NotYetActive
  \/ ScheduleDone
  \/ Idle \/ Execute \/ Complete

Next == Call \/ Step \/ Finished

Spec == Init /\ [][Next]_vars /\ WF_vars(Step)
-----------------------------------------------------------------------------
\* Every variable ranges over the values its C++ declaration stands for, and
\* every identifier names a task of the taskset.
JobIds == Tasks \X Nat

TypeOK ==
  /\ config \in Configs /\ taskset \in Tasksets
  /\ DOMAIN job \subseteq JobIds
  /\ job \in [DOMAIN job -> JobRecord]
  /\ {mySchedule, dlmon, execMissJobs, cancelled} \subseteq Seq(JobIds)
  /\ currentJob \in JobIds \cup {NoJob}
  /\ task \in [Tasks -> TaskState]
  /\ DOMAIN monitor = Tasks
  /\ \A t \in Tasks : monitor[t] \in Monitors(taskset[t].k)
  /\ pc \in {"api", "initStep", "cancelInit", "activate", "schedule",
             "cancelSchedule", "dispatch"}
  /\ mode \in {"none", "run", "finalise"}
  /\ {now, end, idleSteps, cancelSteps} \subseteq Nat
  /\ lastInit \in Nat \cup {-1}
  /\ index \in Tasks
  /\ {scheduleChanged, rv, ec, finalised, clean} \subseteq BOOLEAN

\* Every job that exists is held exactly once: by the scheduler until it is
\* finished or given up, by ScheduleStat::cancelled until cancelJob deletes it.
\* A job in neither would leak, a job in both would be deleted twice.
JobsHeld ==
  /\ DOMAIN job = Range(mySchedule) \cup Range(cancelled)
  /\ Range(mySchedule) \cap Range(cancelled) = {}
  /\ IsInjective(mySchedule) /\ IsInjective(cancelled)

\* While deadline misses are cancelled, a scheduled job is watched by the monitor
\* or known to execMissJobs, not by both, and the monitor watches nothing else:
\* check() and addJob() dereference its entries.
MonitorCoversSchedule ==
  config.dlMissCancellations =>
    /\ IsInjective(dlmon)
    /\ Range(dlmon) \cup (Range(execMissJobs) \cap DOMAIN job) = Range(mySchedule)
    /\ Range(dlmon) \cap Range(execMissJobs) = {}

\* The monitor's list is ordered by the jobs' present latest start times,
\* although every executed step changes one of them in place: check() looks at
\* the first entry only.
MonitorSorted ==
  config.dlMissCancellations =>
    LET L == LatestStart(job)
    IN  \A i, h \in DOMAIN dlmon : i <= h => L[dlmon[i]] <= L[dlmon[h]]

\* initStep has removed every job that can no longer meet its deadline, wherever
\* it is in the schedule, before dispatching; only a job that was activated in
\* this step may be hopeless from the start.
NoHopelessJob ==
  config.dlMissCancellations /\ pc \in {"activate", "schedule", "dispatch"} =>
    \A j \in Range(mySchedule) :
      \/ LatestStart(job)[j] >= now
      \/ MustStillExecute(j)
      \/ job[j].dl = now + taskset[j[1]].ct

\* What the jobs of ts activated and due within an interval of this length may take
Demand(ts, length) ==
  LET Jobs(t) == (length - t.ct) \div Min(t.gaps) + 1
  IN  MapThenSumSet(LAMBDA i : IF length < ts[i].ct THEN 0 ELSE ts[i].et * Jobs(ts[i]),
                    DOMAIN ts)

\* The demand fits into every interval from time 0 on that ends with the deadline
\* of a job which run() activates.
DemandFits ==
  \A t \in Tasks : \A length \in 1 .. Horizon + taskset[t].ct :
    Demand(taskset, length) <= length

\* EDF is optimal: a taskset whose demand fits into every interval loses no job
\* and has no late one, whatever the configuration.
EDFOptimal ==
  config.policy = "EDF" /\ DemandFits
    => \A t \in Tasks : task[t].cancellations = 0 /\ task[t].misses = 0

\* The list is in the policy's order, and jobs that are equal for the policy
\* keep the order in which doActivations enqueued them.
ScheduleInPolicyOrder ==
  LET key == Key(job)
      activation(j) == job[j].dl - taskset[j[1]].ct
      First(a, b) ==
        \/ key[a] < key[b]
        \/ key[a] = key[b] /\ activation(a) < activation(b)
        \/ key[a] = key[b] /\ activation(a) = activation(b) /\ a[1] < b[1]
  IN  \A i, h \in DOMAIN mySchedule : i < h => First(mySchedule[i], mySchedule[h])

\* The job that dispatch may preempt through currentJob has not been deleted.
CurrentJobScheduled ==
  currentJob # NoJob => currentJob \in Range(mySchedule)

\* No step of the processor is lost or counted twice: the time that has passed is
\* the idle steps plus the steps given to completed, cancelled and pending jobs,
\* over calls that ended early and calls made after them.
TimeAccounted ==
  now = idleSteps
        + MapThenSumSet(LAMBDA t : task[t].completions * taskset[t].et
                                   + task[t].performanceLost, Tasks)
        + MapThenSumSet(LAMBDA j : job[j].et - job[j].rem, DOMAIN job)

Constrained == {t \in Tasks : taskset[t].k > 0}

Satisfied(t) == IsStateValid(monitor[t], taskset[t].m, taskset[t].k)

\* With EC_CANCEL in the exit condition the result of a call can be trusted: as
\* long as every call returned 0, no (m,k) constraint was ever violated - also for
\* MkpTask, which looks at its mandatory jobs only - and an exit condition comes
\* with a violated constraint, or with an MkpTask that may have lost a mandatory job.
ResultMatchesConstraints ==
  config.exitOnCancel /\ pc = "api" =>
    /\ clean => \A t \in Constrained : monitor[t].violations = 0 /\ Satisfied(t)
    /\ ec => \E t \in Constrained :
                ~ Satisfied(t) \/ (taskset[t].model = "mkp" /\ ~ taskset[t].relaxed)

\* run() and finalise() return.
CallsReturn == pc # "api" ~> pc = "api"

\* Simulation and scheduler together keep the promise of JobLife.
Life == INSTANCE JobLife WITH
  TaskCounts <- {Len(ts) : ts \in Tasksets},
  pending    <- DOMAIN job,
  activated  <- [t \in Tasks |-> task[t].activations],
  returned   <- [t \in Tasks |-> task[t].completions + task[t].cancellations]

EveryJobReturnedOnce == Life!LifeSpec

-----------------------------------------------------------------------------
(* What comments of the code say and the code does not do                   *)

\* core/scheduler.h asks for increasing times in succeeding calls of initStep;
\* a call of run() or finalise() after one that ended early repeats the time.
InitStepTimesIncrease ==
  [][pc # "initStep" /\ pc' = "initStep" => now' > lastInit]_vars

\* core/deadlinemonitor.h says that the list contains current jobs; with
\* dlMissCancellations off, dispatch leaves the late ones there when they finish.
MonitorHoldsCurrentJobs == Range(dlmon) \subseteq DOMAIN job
=============================================================================
