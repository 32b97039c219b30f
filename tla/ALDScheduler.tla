---------------------------- MODULE ALDScheduler ----------------------------
(***************************************************************************)
(* schedulers/ald.cpp with the two job orders of schedulers/edf.cpp and    *)
(* schedulers/fpp.cpp: the list of active jobs, the deadline monitor and   *)
(* the job that is running.  Every operator below is one method, or one    *)
(* round of its loop, as an action on the scheduler's variables.           *)
(***************************************************************************)
EXTENDS DeadlineMonitor

VARIABLES
  config,          \* scheduler configuration: [policy, execCancellations, dlMissCancellations, exitOnCancel]
  job,             \* the jobs that exist: job identifier -> [dl, et, rem, prio, preemptions]
  mySchedule,      \* active jobs in execution order
  dlmon,           \* the deadline monitor's list
  execMissJobs,    \* jobs that miss their deadline but are executed
  currentJob,      \* the job executed last, or NoJob
  scheduleChanged  \* set by every change of mySchedule, never reset

sched == <<mySchedule, dlmon, execMissJobs, currentJob, scheduleChanged>>

NoJob == <<0, 0>>   \* the NULL pointer; task numbers start at 1

JobRecord == [dl : Int, et : Nat \ {0}, rem : Nat, prio : Int, preemptions : Nat]

\* Job::updateLatestStartTime, of every job in jobs
LatestStart(jobs) == [j \in DOMAIN jobs |-> jobs[j].dl - jobs[j].rem]

\* A job that has executed at least one step.
Started(j) == job[j].rem < job[j].et

SchedulerInit ==
  /\ job = << >>
  /\ mySchedule = << >>
  /\ dlmon = << >>
  /\ execMissJobs = << >>
  /\ currentJob = NoJob
  /\ scheduleChanged = FALSE

\* EDFScheduler::enqueueJob orders by deadline, FPPScheduler::enqueueJob by priority.
Key(jobs) ==
  [j \in DOMAIN jobs |-> IF config.policy = "EDF" THEN jobs[j].dl ELSE jobs[j].prio]

EnqueueJob(j, record) ==
  LET jobs == [i \in DOMAIN job \cup {j} |-> IF i = j THEN record ELSE job[i]]
  IN  /\ job' = jobs
      /\ mySchedule' \in InsertByKey(mySchedule, j, Key(jobs))
      /\ dlmon' \in AddJob(dlmon, j, LatestStart(jobs))
      /\ scheduleChanged' = TRUE
      /\ UNCHANGED <<execMissJobs, currentJob>>

\* Mutant: ">=" for ">".
MissPositionsStrict(schedule, now) ==
  { i \in DOMAIN schedule :
      now + MapThenSumSet(LAMBDA h : job[schedule[h]].rem, 1 .. i)
        >= job[schedule[i]].dl }

\* EDFScheduler::checkEDFSchedule: where executing the schedule in order from now
\* on misses a deadline; the function returns the first such job.
MissPositions(schedule, now) ==
  { i \in DOMAIN schedule :
      now + MapThenSumSet(LAMBDA h : job[schedule[h]].rem, 1 .. i)
        > job[schedule[i]].dl }

\* Mutant: the job stays in the schedule.
InternalRemoveJobKeepsEntry(j) ==
  /\ currentJob' = IF currentJob = j THEN NoJob ELSE currentJob
  /\ scheduleChanged' = TRUE
  /\ UNCHANGED mySchedule

\* ALDScheduler::internalRemoveJob
InternalRemoveJob(j) ==
  /\ mySchedule' = RemoveFirst(mySchedule, j)
  /\ currentJob' = IF currentJob = j THEN NoJob ELSE currentJob
  /\ scheduleChanged' = TRUE

\* The deadline monitor names a job and initStep handles it.
MissFound(now) ==
  config.dlMissCancellations /\ CheckFires(dlmon, LatestStart(job), now)

MustStillExecute(j) == ~ config.execCancellations /\ Started(j)

\* Mutant: check() leaves the job at the front of its list.
KeepMissJobPeeks(now) ==
  /\ MissFound(now)
  /\ MustStillExecute(Head(dlmon))
  /\ UNCHANGED sched

\* One round of the loop of ALDScheduler::initStep: a started job stays when it
\* may not be cancelled.
KeepMissJob(now) ==
  /\ MissFound(now)
  /\ MustStillExecute(Head(dlmon))
  /\ execMissJobs' = Append(execMissJobs, Head(dlmon))
  /\ dlmon' = Tail(dlmon)
  /\ UNCHANGED <<mySchedule, currentJob, scheduleChanged>>

\* ... and any other is taken out, for the caller to cancel.
DropMissJob(now) ==
  /\ MissFound(now)
  /\ ~ MustStillExecute(Head(dlmon))
  /\ InternalRemoveJob(Head(dlmon))
  /\ dlmon' = Tail(dlmon)
  /\ UNCHANGED execMissJobs

\* ALDScheduler::hasPendingJobs
HasPendingJobs(schedule) == schedule # << >>

\* ALDScheduler::dispatch: the job to be executed next ...
NextJob ==
  IF currentJob = NoJob \/ scheduleChanged
  THEN IF mySchedule # << >> THEN Head(mySchedule) ELSE NoJob
  ELSE currentJob

\* ... and the jobs after the previous one was preempted and the next one has
\* executed one step.
AfterStep(next) ==
  [j \in DOMAIN job |->
     CASE j = next -> [job[j] EXCEPT !.rem = @ - 1]
       [] j = currentJob /\ j # next -> [job[j] EXCEPT !.preemptions = @ + 1]
       [] OTHER -> job[j]]

DispatchIdle ==
  /\ NextJob = NoJob
  /\ currentJob' = NoJob
  /\ UNCHANGED <<job, mySchedule, dlmon, execMissJobs, scheduleChanged>>

\* Mutant: the end of the job is not noticed.
DispatchStepOverruns ==
  /\ NextJob # NoJob
  /\ job' = AfterStep(NextJob)
  /\ dlmon' \in JobExecuted(dlmon, NextJob, LatestStart(job'))
  /\ currentJob' = NextJob
  /\ UNCHANGED <<mySchedule, execMissJobs, scheduleChanged>>

\* The step leaves the job unfinished.
DispatchStep ==
  /\ NextJob # NoJob
  /\ job[NextJob].rem > 1
  /\ job' = AfterStep(NextJob)
  /\ dlmon' \in JobExecuted(dlmon, NextJob, LatestStart(job'))
  /\ currentJob' = NextJob
  /\ UNCHANGED <<mySchedule, execMissJobs, scheduleChanged>>

\* Mutant: the deadline monitor is not told.
MonitorAfterFinishForgets(j, now) == dlmon

\* The deadline monitor is told only when the deadline is still ahead.
MonitorAfterFinish(j, now) ==
  IF job[j].dl <= now THEN dlmon ELSE RemoveJob(dlmon, j)

\* Mutant: the pointer to the finished job is kept.
DispatchFinishKeepsCurrent(now) ==
  /\ NextJob # NoJob
  /\ job[NextJob].rem = 1
  /\ mySchedule' = Tail(mySchedule)
  /\ dlmon' = MonitorAfterFinish(NextJob, now)
  /\ currentJob' = NextJob
  /\ UNCHANGED <<execMissJobs, scheduleChanged>>

\* The step finishes the job; execMissJobs is searched but never changed.
DispatchFinish(now) ==
  /\ NextJob # NoJob
  /\ job[NextJob].rem = 1
  /\ mySchedule' = Tail(mySchedule)
  /\ dlmon' = MonitorAfterFinish(NextJob, now)
  /\ currentJob' = NoJob
  /\ UNCHANGED <<execMissJobs, scheduleChanged>>

\* Mutant: a leak.
DeleteNothing(jobs, j) == jobs

\* delete job
Delete(jobs, j) == [i \in DOMAIN jobs \ {j} |-> jobs[i]]
=============================================================================
