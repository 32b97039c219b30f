--------------------------------- MODULE GDPA ---------------------------------
(***************************************************************************)
(* schedulers/gdpa.cpp: an EDF scheduler that accepts every job into       *)
(* readyQueue and builds mySchedule anew in every step, from the jobs that *)
(* fit together.  initStep and dispatch are those of ALDScheduler.         *)
(***************************************************************************)
EXTENDS Simulation

VARIABLES
  readyQueue,
  tried   \* how many jobs of readyQueue schedule() has tried in this step

gdpa == <<readyQueue, tried>>

GDPAInit == readyQueue = << >> /\ tried = 0

\* Mutant: the job is not watched.
GDPAEnqueueUnwatched(j, record) ==
  /\ job' = [i \in DOMAIN job \cup {j} |-> IF i = j THEN record ELSE job[i]]
  /\ readyQueue' = Append(readyQueue, j)
  /\ UNCHANGED sched

\* GDPAScheduler::enqueueJob
GDPAEnqueue(j, record) ==
  LET jobs == [i \in DOMAIN job \cup {j} |-> IF i = j THEN record ELSE job[i]]
  IN  /\ job' = jobs
      /\ readyQueue' = Append(readyQueue, j)
      /\ dlmon' \in AddJob(dlmon, j, LatestStart(jobs))
      /\ UNCHANGED <<mySchedule, execMissJobs, currentJob, scheduleChanged>>

\* Insertion after the jobs whose deadline is not later
InsertByDeadline(schedule, j) ==
  CHOOSE s \in InsertByKey(schedule, j, [h \in DOMAIN job |-> job[h].dl]) : TRUE

EDFFeasible(schedule) == MissPositions(schedule, now) = {}

\* schedule() begins with an empty schedule.
Built == IF tried = 0 THEN << >> ELSE mySchedule

\* One round of the second loop of GDPAScheduler::schedule.  Task::getDistance is
\* not virtual and returns 1, so the first loop, the sort by distance, leaves the
\* order of readyQueue as it is.
TryJob ==
  /\ pc = "schedule"
  /\ tried < Len(readyQueue)
  /\ LET with == InsertByDeadline(Built, readyQueue[tried + 1])
     IN  mySchedule' = IF EDFFeasible(with) THEN with ELSE Built
  /\ tried' = tried + 1
  /\ UNCHANGED <<fixed, job, dlmon, execMissJobs, currentJob, scheduleChanged, tasks, pc,
                 mode, now, end, index, cancelled, rv, results, idleSteps, cancelSteps,
                 lastInit, readyQueue>>

Rebuilt ==
  /\ pc = "schedule"
  /\ tried = Len(readyQueue)
  /\ mySchedule' = Built
  /\ scheduleChanged' = TRUE
  /\ tried' = 0
  /\ pc' = "dispatch"
  /\ UNCHANGED <<fixed, job, dlmon, execMissJobs, currentJob, tasks, mode, now, end,
                 index, cancelled, rv, results, idleSteps, cancelSteps, lastInit, readyQueue>>

\* GDPAScheduler::jobFinished, which initStep and dispatch of ALDScheduler call
QueueWithout(queue, j) == RemoveFirst(queue, j)

\* GDPAScheduler::hasPendingJobs
Pending == readyQueue # << >>

GDPAStep ==
  \/ TryJob \/ Rebuilt
  \/ /\ \/ MissDropped /\ readyQueue' = QueueWithout(readyQueue, Head(dlmon))
        \/ SpawnJob /\ GDPAEnqueue(NextJobId(index), NewJob(index))
        \/ /\ CompleteStep
           /\ readyQueue' = QueueWithout(readyQueue, NextJob)
           /\ StepEndWith(readyQueue' # << >>)
        \/ /\ IdleStep \/ ExecuteStep
           /\ StepEndWith(Pending)
           /\ UNCHANGED readyQueue
        \/ /\ MissKept \/ InitStepDone \/ CancelJob \/ CancelDone \/ NotYetActive
           /\ UNCHANGED readyQueue
     /\ UNCHANGED tried

GDPACall ==
  /\ FinaliseWith(Pending) \/ \E steps \in RunSteps : Run(steps)
  /\ UNCHANGED gdpa
-----------------------------------------------------------------------------
\* A job in readyQueue is in the schedule, or the deadline monitor is going to
\* cancel it: otherwise it would never be returned to the simulation, and
\* finalise() would wait for it for ever.
AcceptedJobsReturn ==
  pc = "dispatch" =>
    \A j \in Range(readyQueue) :
      \/ j \in Range(mySchedule)
      \/ config.dlMissCancellations /\ j \in Range(dlmon)
=============================================================================
