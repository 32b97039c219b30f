-------------------------------- MODULE Reports --------------------------------
(***************************************************************************)
(* What is reported of a simulation: SimulationResults, which getResults() *)
(* adds up over the tasks, the tasks' counters of successive delays, and   *)
(* the chart that Vis paints of the log.                                   *)
(***************************************************************************)
EXTENDS Vis

VARIABLES
  delays,   \* delayCounter and delayCounters of each task
  outcomes  \* history: the utilities of each task's jobs in the order they ended

reports == <<delays, outcomes>>

\* Task::Task; Task::start leaves these counters alone.
ReportsInit ==
  /\ delays = [t \in Tasks |-> [counter |-> 0, counters |-> << >>]]
  /\ outcomes = [t \in Tasks |-> << >>]

RecordDelay(d) == [d EXCEPT !.counter = @ + 1]

\* counters[n] is the number of runs of n delayed jobs; the vector grows with 0.
CountRun(counters, n) ==
  LET size == IF Len(counters) < n THEN n ELSE Len(counters)
      old(i) == IF i \in DOMAIN counters THEN counters[i] ELSE 0
  IN  [i \in 1 .. size |-> old(i) + (IF i = n THEN 1 ELSE 0)]

\* Mutant: the run that was counted goes on.
RecordNoDelayRunsOn(d) ==
  IF d.counter = 0 THEN d ELSE [d EXCEPT !.counters = CountRun(@, d.counter)]

RecordNoDelay(d) ==
  IF d.counter = 0 THEN d
  ELSE [counter |-> 0, counters |-> CountRun(d.counters, d.counter)]

RecordUtility(t, u) ==
  /\ delays' = [delays EXCEPT ![t] = IF u <= 0 THEN RecordDelay(@) ELSE RecordNoDelay(@)]
  /\ outcomes' = [outcomes EXCEPT ![t] = Append(@, u)]

\* completeJob and cancelJob call record() with the utility of the job they delete.
RecordStep ==
  LET ended == DOMAIN job \ DOMAIN job'
  IN  IF ended = {} THEN UNCHANGED reports
      ELSE \E j \in ended :
             RecordUtility(j[1], IF pc = "dispatch" THEN FirmUtility(job[j].dl, now) ELSE 0)

ReportsStep == VisStep /\ RecordStep

ReportsNext == ReportsStep \/ (VisIdle /\ UNCHANGED reports)

reportsVars == <<vars, owned, viewer, executed, reports>>

ReportsSpec ==
  /\ OverloadInit /\ VisInit /\ ReportsInit
  /\ [][ReportsNext]_reportsVars
  /\ WF_reportsVars(ReportsStep)
-----------------------------------------------------------------------------
\* SimulationResults::SimulationResults
NoStatistics ==
  [activations |-> 0, completions |-> 0, cancellations |-> 0, execCancellations |-> 0,
   ecPerformanceLost |-> 0, misses |-> 0, preemptions |-> 0, usum |-> 0, esum |-> 0,
   cancelSteps |-> 0, idleSteps |-> 0]

\* Only the schedulers of the OEDF family ask the aggregators; for the others usum and
\* esum are not part of the model.
AddTask(t, stats) ==
  [stats EXCEPT !.activations = @ + task[t].activations,
                !.completions = @ + task[t].completions,
                !.cancellations = @ + task[t].cancellations,
                !.execCancellations = @ + task[t].execCancellations,
                !.ecPerformanceLost = @ + task[t].performanceLost,
                !.misses = @ + task[t].misses,
                !.preemptions = @ + task[t].preemptions,
                !.usum = @ + ua[t].total,
                !.esum = @ + ua[t].count]

CalculateStatistics ==
  [FoldSet(AddTask, NoStatistics, Tasks) EXCEPT !.cancelSteps = cancelSteps,
                                                !.idleSteps = idleSteps]

\* What finalise() writes to the log: a line for each task, and the sums
PrintExecStats ==
  [lines |-> [t \in Tasks |-> AddTask(t, NoStatistics)],
   sums  |-> CalculateStatistics]

\* ... and, of each task, how many jobs were in runs of n delayed ones, for each n that
\* occurred, and the length of the longest run
PrintDelayCounters ==
  [t \in Tasks |->
     LET counters == delays[t].counters
         occurred == {n \in DOMAIN counters : counters[n] # 0}
     IN  [runs |-> {<<n, counters[n] * n>> : n \in occurred}, max |-> Len(counters)]]

GetResults == CalculateStatistics @@ [simulatedTime |-> now]

\* The results of a call agree with each other, although each number is counted at a
\* place of its own: every job that was activated is pending, completed or cancelled, the
\* utility is that of the jobs that were neither cancelled nor late, a task was cancelled
\* in at most as many steps as jobs, and the time that passed went into completed jobs,
\* cancelled ones, pending ones and idle steps.
ResultsAddUp ==
  pc = "api" =>
    LET r == GetResults
        Held(t) == Cardinality({j \in DOMAIN job : j[1] = t})
        line == PrintExecStats.lines
    IN  /\ r.activations = r.completions + r.cancellations + Cardinality(DOMAIN job)
        /\ \A t \in Tasks :
             line[t].activations = line[t].completions + line[t].cancellations + Held(t)
        /\ variant \in OEDFVariants =>
             /\ r.esum = r.completions + r.cancellations
             /\ r.usum = r.completions - r.misses
        /\ r.cancelSteps <= r.cancellations
        /\ r.execCancellations <= Min({r.cancellations, r.ecPerformanceLost})
        /\ r.simulatedTime >= r.idleSteps + r.completions + r.ecPerformanceLost

\* The positions where a run of n delayed jobs ended with one in time
RunsOf(seq, n) ==
  {i \in DOMAIN seq : /\ seq[i] = 1 /\ i > n
                      /\ \A h \in i - n .. i - 1 : seq[h] = 0
                      /\ i - n > 1 => seq[i - n - 1] = 1}

\* counters[n] counts the runs of n delayed jobs, whatever came between them; the run
\* that is going on is in counter only.
DelaysCounted ==
  \A t \in Tasks :
    LET d == delays[t]
    IN  /\ \A n \in 1 .. Len(outcomes[t]) :
             Cardinality(RunsOf(outcomes[t], n))
               = IF n \in DOMAIN d.counters THEN d.counters[n] ELSE 0
        /\ d.counter = Len(outcomes[t])
             - (IF 1 \in Range(outcomes[t]) THEN Max({i \in DOMAIN outcomes[t] : outcomes[t][i] = 1}) ELSE 0)

\* What is printed of the delays accounts for every delayed job that a job in time
\* followed, and names the longest run of them.
DelaysPrinted ==
  \A t \in Tasks :
    LET printed == PrintDelayCounters[t]
        delayed == {i \in DOMAIN outcomes[t] : outcomes[t][i] # 1}
    IN  /\ MapThenSumSet(LAMBDA r : r[2], printed.runs) + delays[t].counter
             = Cardinality(delayed)
        /\ printed.max = Max({0} \cup {n \in 1 .. Len(outcomes[t]) : RunsOf(outcomes[t], n) # {}})

\* What a user is shown of a simulation is what happened in it.
ReportsAreTrue ==
  /\ ChartShowsExecution /\ ViewersShowStates
  /\ ResultsAddUp /\ DelaysCounted /\ DelaysPrinted
=============================================================================
