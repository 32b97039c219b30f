-------------------------------- MODULE GDPAS --------------------------------
(***************************************************************************)
(* schedulers/gdpas.cpp: GDPA-S keeps three lists of the same jobs and     *)
(* follows the one by deadline while that is feasible, else the one by     *)
(* distance.  mySchedule stands for its edfList, scheduleChanged for its   *)
(* dispatchListsChanged; it has no deadline monitor.                       *)
(***************************************************************************)
EXTENDS GDPA

VARIABLES readyList, sdfList

lists == <<readyList, sdfList>>

GDPASInit == readyList = << >> /\ sdfList = << >>

\* Mutant: the job is missing in edfList.
GDPASEnqueueForgets(j, record) ==
  /\ job' = [i \in DOMAIN job \cup {j} |-> IF i = j THEN record ELSE job[i]]
  /\ readyList' = Append(readyList, j)
  /\ sdfList' = Append(sdfList, j)
  /\ scheduleChanged' = TRUE
  /\ UNCHANGED <<mySchedule, dlmon, execMissJobs, currentJob>>

\* GDPASScheduler::enqueueJob; getDistance() is 1 for every job.
GDPASEnqueue(j, record) ==
  LET jobs == [i \in DOMAIN job \cup {j} |-> IF i = j THEN record ELSE job[i]]
  IN  /\ job' = jobs
      /\ readyList' = Append(readyList, j)
      /\ sdfList' = Append(sdfList, j)
      /\ mySchedule' \in InsertByKey(mySchedule, j, [h \in DOMAIN jobs |-> jobs[h].dl])
      /\ scheduleChanged' = TRUE
      /\ UNCHANGED <<dlmon, execMissJobs, currentJob>>

\* Mutants: a job that can just make it is dropped; started jobs are not spared.
ToDropEarly(j) == LatestStart(job)[j] <= now /\ ~ MustStillExecute(j)
ToDropStarted(j) == LatestStart(job)[j] < now

\* The condition in GDPASScheduler::initStep
ToDrop(j) == LatestStart(job)[j] < now /\ ~ MustStillExecute(j)

\* One round of the loop of GDPASScheduler::initStep: the first job to drop that
\* is left in readyList leaves all lists.
DropInfeasible ==
  /\ pc = "initStep"
  /\ \E i \in DOMAIN readyList :
       LET j == readyList[i]
       IN  /\ ToDrop(j) /\ \A h \in 1 .. i - 1 : ~ ToDrop(readyList[h])
           /\ readyList' = QueueWithout(readyList, j)
           /\ mySchedule' = RemoveFirst(mySchedule, j)
           /\ sdfList' = RemoveFirst(sdfList, j)
           /\ cancelled' = Append(cancelled, j)
           /\ currentJob' = IF currentJob = j THEN NoJob ELSE currentJob
  /\ scheduleChanged' = TRUE
  /\ UNCHANGED <<fixed, job, dlmon, execMissJobs, tasks, pc, mode, now, end, index,
                 rv, results, idleSteps, cancelSteps, lastInit>>

GDPASInitStepDone ==
  /\ pc = "initStep"
  /\ \A j \in Range(readyList) : ~ ToDrop(j)
  /\ PerformCancellations("cancelInit", AfterInitStep)

\* GDPASScheduler::dispatch: what the lists propose ...
FromLists ==
  CASE readyList = << >> -> NoJob
    [] readyList # << >> /\ EDFFeasible(mySchedule) -> Head(mySchedule)
    [] OTHER -> Head(sdfList)

\* ... and the job to be executed
Chosen == IF currentJob = NoJob \/ scheduleChanged THEN FromLists ELSE currentJob

GDPASIdle ==
  /\ pc = "dispatch"
  /\ Chosen = NoJob
  /\ scheduleChanged' = FALSE
  /\ idleSteps' = idleSteps + 1
  /\ UNCHANGED <<job, mySchedule, dlmon, execMissJobs, currentJob, tasks, lists>>

GDPASExecute ==
  /\ pc = "dispatch"
  /\ Chosen # NoJob
  /\ job[Chosen].rem > 1
  /\ job' = AfterStep(Chosen)
  /\ currentJob' = Chosen
  /\ scheduleChanged' = FALSE
  /\ UNCHANGED <<mySchedule, dlmon, execMissJobs, tasks, idleSteps, lists>>

\* The step finishes the job; jobFinished takes it from all lists.
GDPASComplete ==
  /\ pc = "dispatch"
  /\ Chosen # NoJob
  /\ job[Chosen].rem = 1
  /\ CompleteJob(Chosen)
  /\ readyList' = QueueWithout(readyList, Chosen)
  /\ mySchedule' = RemoveFirst(mySchedule, Chosen)
  /\ sdfList' = RemoveFirst(sdfList, Chosen)
  /\ currentJob' = NoJob
  /\ scheduleChanged' = TRUE
  /\ UNCHANGED <<dlmon, execMissJobs, idleSteps>>

GDPASStep ==
  \/ DropInfeasible
  \/ SpawnJob /\ GDPASEnqueue(NextJobId(index), NewJob(index))
  \/ (GDPASIdle \/ GDPASExecute \/ GDPASComplete) /\ StepEndWith(readyList' # << >>)
  \/ /\ GDPASInitStepDone \/ CancelJob \/ CancelDone \/ NotYetActive \/ ScheduleDone
     /\ UNCHANGED lists

GDPASCall ==
  /\ FinaliseWith(readyList # << >>) \/ \E steps \in RunSteps : Run(steps)
  /\ UNCHANGED lists
=============================================================================
