------------------------------- MODULE Overload -------------------------------
(***************************************************************************)
(* The simulation loop with each of the schedulers that choose the jobs    *)
(* they give up: the OEDF family, GDPA and GDPA-S.                         *)
(***************************************************************************)
EXTENDS OEDF, GDPAS

OEDFVariants == MaxVariants \cup MinVariants

owned == <<oedf, gdpa, lists>>

\* schedulerFor: the variant is fixed when the simulation is created.
OverloadInit ==
  /\ Init
  /\ OEDFInit
  /\ GDPAInit
  /\ GDPASInit

\* Every configuration but one leaves GDPA with jobs that it never returns, and
\* finalise() waiting for them while time goes on (see AcceptedJobsReturn): the
\* caller stops without it then.
FinaliseEnds == config.execCancellations /\ config.dlMissCancellations

OverloadStep ==
  \/ variant \in OEDFVariants /\ OEDFStep /\ UNCHANGED <<gdpa, lists>>
  \/ variant = "GDPA" /\ GDPAStep /\ UNCHANGED <<oedf, lists>>
  \/ variant = "GDPA-S" /\ GDPASStep /\ UNCHANGED <<oedf, gdpa>>

OverloadCall ==
  \/ variant \in OEDFVariants /\ OEDFCall /\ UNCHANGED <<gdpa, lists>>
  \/ /\ variant = "GDPA" /\ GDPACall /\ UNCHANGED <<oedf, lists>>
     /\ mode' = "finalise" => FinaliseEnds
  \/ variant = "GDPA-S" /\ GDPASCall /\ UNCHANGED <<oedf, gdpa>>

CallerStops ==
  /\ pc = "api" /\ variant = "GDPA" /\ ~ FinaliseEnds
  /\ UNCHANGED <<vars, owned>>

OverloadNext ==
  OverloadStep \/ OverloadCall \/ (Finished /\ UNCHANGED owned) \/ CallerStops

OverloadSpec ==
  /\ OverloadInit
  /\ [][OverloadNext]_<<vars, owned>>
  /\ WF_<<vars, owned>>(OverloadStep)
-----------------------------------------------------------------------------
\* The lists in which a scheduler keeps the jobs it was given
Accepted ==
  CASE variant \in OEDFVariants -> mySchedule
    [] variant = "GDPA" -> readyQueue
    [] variant = "GDPA-S" -> readyList

\* Every job that exists is held once, by the list the scheduler owns or by
\* ScheduleStat::cancelled; the lists derived from it hold the same jobs, GDPA's
\* mySchedule some of them: the destructors and dispatch rely on it.
JobsHeldOnce ==
  /\ DOMAIN job = Range(Accepted) \cup Range(cancelled)
  /\ Range(Accepted) \cap Range(cancelled) = {}
  /\ IsInjective(Accepted) /\ IsInjective(cancelled) /\ IsInjective(mySchedule)
  /\ pc = "dispatch" => Range(mySchedule) \subseteq Range(Accepted)
  /\ variant = "GDPA-S" =>
       /\ Range(mySchedule) = Range(readyList)
       /\ Range(sdfList) = Range(readyList) /\ IsInjective(sdfList)

\* With execCancellations off, no job that has executed is ever cancelled:
\* neither by initStep, nor by schedule(), however low its value is.
StartedJobsSpared ==
  ~ config.execCancellations => \A t \in Tasks : task[t].execCancellations = 0

\* What MKUEDF::schedule gives up costs no task its (m,k) constraint: the
\* aggregator's window, which the choice rests on, and the task's own monitor
\* agree, although they are different histories of the same jobs.  Tasks with
\* several jobs at a time are left out: a call may cancel two of them, and each
\* is judged by the same prediction; and so are MkpTasks that are not relaxed,
\* whose cancelHook rests on their pattern, which the window does not know.
OneJobAtATime ==
  config.dlMissCancellations /\ \A t \in Tasks : taskset[t].ct <= Min(taskset[t].gaps)

PatternsRelaxed == \A t \in Tasks : taskset[t].model = "mkp" => taskset[t].relaxed

MKUKeepsConstraints ==
  variant = "MKUEDF" /\ OneJobAtATime /\ PatternsRelaxed /\ pc = "cancelSchedule" => rv

\* Where nothing keeps a job from being cancelled, GDPA returns every job.
GDPAReturnsJobs == variant = "GDPA" /\ FinaliseEnds => AcceptedJobsReturn

\* No scheduler lets the processor idle while it holds a job that could still
\* meet its deadline, whatever it has cancelled or refused before.
WorkConserving ==
  [][idleSteps' # idleSteps =>
       \A j \in Range(Accepted) : LatestStart(job)[j] < now]_<<vars, owned>>
=============================================================================
