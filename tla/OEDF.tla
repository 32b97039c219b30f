--------------------------------- MODULE OEDF ---------------------------------
(***************************************************************************)
(* schedulers/oedf.cpp and the schedulers derived from it: EDF schedulers  *)
(* whose schedule() cancels jobs of low value as long as it finds a job in *)
(* the schedule that cannot meet its deadline.  OEDFMax picks the job of   *)
(* largest value, OEDFMin that of the smallest one.                        *)
(***************************************************************************)
EXTENDS Simulation, Utility

VARIABLES
  variant,    \* the scheduler class
  ua,         \* the utility aggregator of each task
  lastFound   \* lastFoundJob, local to schedule()

oedf == <<variant, ua, lastFound>>

MaxVariants == {"HCEDF", "PHCEDF", "DBPEDF", "MKUEDF"}
MinVariants == {"DVDEDF", "BEEDF", "GMUAMK"}

\* The constructors of the other variants take no configuration and leave the
\* default one: everything may be cancelled.
Configured == {"DBPEDF", "MKUEDF", "GMUAMK"}

\* The aggregators that the task generators choose: UAWMK(m, k) for an (m,k)
\* task; the other tasks have a UAMean here.
AggregatorOf(ts) ==
  IF ts.k > 0 THEN NewAggregator("UAWMK", ts.m, ts.k) ELSE NewAggregator("UAMean", 1, 0)

OEDFInit ==
  /\ config.policy = "EDF"
  /\ variant \in MaxVariants \cup MinVariants \cup {"GDPA", "GDPA-S"}
  /\ variant \in (MaxVariants \cup MinVariants) \ Configured => config.execCancellations /\ config.dlMissCancellations
  /\ ua = [t \in Tasks |-> AggregatorOf(taskset[t])]
  /\ lastFound = NoJob

\* Job::getPossibleExecValue, getPossibleHistoryValue, getPossibleFailHistoryValue
PossibleExecValue(j, time) == FirmUtility(job[j].dl, time + job[j].rem)
PossibleHistoryValue(j, time) == PredictUtility(ua[j[1]], PossibleExecValue(j, time))
PossibleFailHistoryValue(j) == PredictUtility(ua[j[1]], 0)

\* Task::getDistance: not virtual, so this is what a scheduler gets for any task.
TaskDistance(t) == 1

\* calcValue of each variant
CalcValue(j, time) ==
  LET history == PossibleHistoryValue(j, time)
      exec    == PossibleExecValue(j, time)
  IN  CASE variant = "HCEDF"  -> <<history[1] * job[j].rem, history[2]>>
        [] variant = "PHCEDF" -> history
        [] variant = "DBPEDF" -> <<TaskDistance(j[1]), 1>>
        [] variant = "MKUEDF" ->
             IF MustStillExecute(j) THEN Zero ELSE PossibleFailHistoryValue(j)
        [] variant = "DVDEDF" -> <<exec, job[j].rem>>
        [] variant = "BEEDF"  -> <<exec, job[j].et>>
        [] variant = "GMUAMK" -> <<exec, job[j].et * TaskDistance(j[1])>>

\* Mutant: one more failure is always taken for allowed.
IsCancelCandidateAny(j, value) == ~ MustStillExecute(j)

\* isCancelCandidate
IsCancelCandidate(j, value) ==
  /\ ~ MustStillExecute(j)
  /\ variant = "DBPEDF" => Less(One, value)
  /\ variant \in {"MKUEDF", "GMUAMK"} => ~ Less(value, One)

\* EDFScheduler::checkEDFSchedule of the present schedule
Misses == MissPositions(mySchedule, now)

\* What schedule() looks at for the missing job at position miss: the value of
\* every job up to it, at the time the jobs in front would end if each took its
\* whole execution time, also what it has had already.
Values(miss) ==
  [i \in 1 .. miss |->
     CalcValue(mySchedule[i], now + MapThenSumSet(LAMBDA h : job[mySchedule[h]].et, 1 .. i - 1))]

\* A value of 0 is the neutral element of OEDFMax (DBL_MIN, more precisely).
Candidates(miss) ==
  LET value == Values(miss)
  IN  { i \in 1 .. miss :
          /\ IsCancelCandidate(mySchedule[i], value[i])
          /\ variant \in MaxVariants => Less(Zero, value[i]) }

\* The first one of the best candidates
Best(miss) ==
  LET value == Values(miss)
      Better(a, b) == IF variant \in MaxVariants THEN Less(b, a) ELSE Less(a, b)
      best == { i \in Candidates(miss) :
                  \A h \in Candidates(miss) : ~ Better(value[h], value[i]) }
  IN  Min(best)

\* ALDScheduler::removeJob, of a job in mySchedule
RemoveScheduled(j) ==
  IF j \in Range(dlmon) \/ j \in Range(execMissJobs)
  THEN /\ dlmon' = RemoveJob(dlmon, j)
       /\ execMissJobs' = IF j \in Range(dlmon) THEN execMissJobs
                                                ELSE RemoveFirst(execMissJobs, j)
       /\ InternalRemoveJob(j)
  ELSE UNCHANGED sched

\* The loop of OEDFScheduler::schedule goes on with the job that misses.
MissToRepair ==
  /\ Misses # {}
  /\ mySchedule[Min(Misses)] # lastFound

\* Mutant: the loop does not remember the job.
RepairForever ==
  /\ pc = "schedule"
  /\ MissToRepair
  /\ LET miss == Min(Misses)
     IN  /\ IF Candidates(miss) = {}
            THEN UNCHANGED <<sched, cancelled>>
            ELSE LET j == mySchedule[Best(miss)]
                 IN  RemoveScheduled(j) /\ cancelled' = Append(cancelled, j)
  /\ UNCHANGED <<fixed, job, tasks, pc, mode, now, end, index, rv, results,
                 idleSteps, cancelSteps, lastInit, variant, ua, lastFound>>

\* One round of that loop: the best candidate, if there is one, gets cancelled.
Repair ==
  /\ pc = "schedule"
  /\ MissToRepair
  /\ LET miss == Min(Misses)
     IN  /\ lastFound' = mySchedule[miss]
         /\ IF Candidates(miss) = {}
            THEN UNCHANGED <<sched, cancelled>>
            ELSE LET j == mySchedule[Best(miss)]
                 IN  RemoveScheduled(j) /\ cancelled' = Append(cancelled, j)
  /\ UNCHANGED <<fixed, job, tasks, pc, mode, now, end, index, rv, results,
                 idleSteps, cancelSteps, lastInit, variant, ua>>

RepairDone ==
  /\ ~ MissToRepair
  /\ ScheduleDone
  /\ lastFound' = NoJob
  /\ UNCHANGED <<variant, ua>>

\* The part of Task::completeJob and cancelJob that aggregates the utility
CancelUtility ==
  LET j == Head(cancelled)
  IN  ua' = [ua EXCEPT ![j[1]] = AddUtility(@, 0)]

CompleteUtility(j) ==
  ua' = [ua EXCEPT ![j[1]] = AddUtility(@, FirmUtility(job[j].dl, now))]

\* Everything else is as in Simulation.
OEDFStep ==
  \/ Repair \/ RepairDone
  \/ CancelJob /\ CancelUtility /\ UNCHANGED <<variant, lastFound>>
  \/ Complete /\ CompleteUtility(NextJob) /\ UNCHANGED <<variant, lastFound>>
  \/ /\ MissKept \/ MissDropped \/ InitStepDone \/ CancelDone
        \/ Activate \/ NotYetActive \/ Idle \/ Execute
     /\ UNCHANGED oedf

OEDFCall == Call /\ UNCHANGED oedf
=============================================================================
