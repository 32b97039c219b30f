------------------------------ MODULE Feasibility ------------------------------
(***************************************************************************)
(* mkeval/gstsimulation.cpp, mkpsimulation.cpp, fixedtimesimulation.cpp    *)
(* and the table of mkallocators.cpp: tests of whether a set of            *)
(* (m,k)-firm tasks is schedulable, which run the simulation loop of       *)
(* Overload a hyperperiod at a time until a state comes back.              *)
(***************************************************************************)
EXTENDS Overload, TmsMath, TaskModels

CONSTANT Generated  \* the tasksets of MkTasks that are tested, as MkGenerator makes them

VARIABLES
  alloc,          \* the allocator in use
  class,          \* the subclass of MkSimulation
  phase,          \* "start" of a round, "running" one, "done"
  states,         \* (m,k) states at the beginnings of the hyperperiods
  reducedStates,  \* the same without the oldest entries
  hpCount,
  recurring,      \* recurringState
  reducedAt,      \* hpCount when a reduced state recurred first; -1 before
  verdict,        \* success, or "none"
  message,        \* what is logged of the simulation when it is over
  tidy            \* history: no job was pending at those times, nor at the end

test == <<alloc, class, phase, states, reducedStates, hpCount, recurring, reducedAt,
          verdict, message, tidy>>

\* MkAllocators::MkAllocators: the scheduler, the task model and the test
Allocator(variantUsed, model, spinUsed, relaxed, simulation) ==
  [variant |-> variantUsed, model |-> model, spin |-> spinUsed, relaxed |-> relaxed,
   simulation |-> simulation]

Allocators ==
  ("DBP"    :> Allocator("FPP", "dbp", FALSE, FALSE, "gst")) @@
  ("MKP"    :> Allocator("FPP", "mkp", FALSE, FALSE, "mkp")) @@
  ("MKP-S"  :> Allocator("FPP", "mkp", TRUE, FALSE, "mkp")) @@
  ("rMKP"   :> Allocator("FPP", "mkp", FALSE, TRUE, "gst")) @@
  ("rMKP-S" :> Allocator("FPP", "mkp", TRUE, TRUE, "gst")) @@
  ("GDPA"   :> Allocator("GDPA", "mk", FALSE, FALSE, "gst")) @@
  ("GDPA-S" :> Allocator("GDPA-S", "mk", FALSE, FALSE, "gst")) @@
  ("MKU"    :> Allocator("MKUEDF", "mk", FALSE, FALSE, "gst")) @@
  ("DMU"    :> Allocator("DBPEDF", "mk", FALSE, FALSE, "gst")) @@
  ("GMUA-MK" :> Allocator("GMUAMK", "mk", FALSE, FALSE, "gst"))

\* taskAllocator
AllocateTask(a, t) ==
  CASE a.model = "mk"  -> MkTaskAllocator(t)
    [] a.model = "dbp" -> DbpTaskAllocator(t)
    [] a.model = "mkp" /\ ~ a.relaxed ->
         IF a.spin THEN MkpTaskWithSpinAllocator(t) ELSE MkpTaskAllocator(t)
    [] a.model = "mkp" /\ a.relaxed ->
         IF a.spin THEN RelaxedMkpTaskWithSpinAllocator(t) ELSE RelaxedMkpTaskAllocator(t)

\* The concrete tasks that an allocator makes of a generated taskset
Allocate(a, ts) == [t \in DOMAIN ts |-> AllocateTask(Allocators[a], ts[t])]

Policy(a) == IF Allocators[a].variant = "FPP" THEN "FPP" ELSE "EDF"

FeasibilityInit ==
  /\ alloc \in DOMAIN Allocators
  /\ taskset \in {Allocate(alloc, ts) : ts \in Generated}
  /\ Init /\ GDPAInit /\ GDPASInit
  /\ config = [policy |-> Policy(alloc), execCancellations |-> TRUE,
               dlMissCancellations |-> TRUE, exitOnCancel |-> TRUE]
  /\ variant = Allocators[alloc].variant
  /\ ua = [t \in Tasks |-> AggregatorOf(taskset[t])]
  /\ lastFound = NoJob
  /\ class \in {Allocators[alloc].simulation, "fixed"}
  /\ phase = "start"
  /\ states = {} /\ reducedStates = {}
  /\ hpCount = 0 /\ recurring = FALSE /\ reducedAt = -1
  /\ verdict = "none" /\ message = << >> /\ tidy = TRUE
-----------------------------------------------------------------------------
Period(t) == CHOOSE gap \in taskset[t].gaps : TRUE

LcmOf(numbers) == FoldFunction(CalculateLcm, 1, numbers)

HyperPeriod == LcmOf([t \in Tasks |-> Period(t)])

\* Mutant: "j = m + 1" for "j = m".
WindowsSmall(m, k) == MapThenSumSet(LAMBDA j : BinomialCoefficient(k, j), m + 1 .. k)

\* The number of windows that satisfy an (m,k) constraint
Windows(m, k) == MapThenSumSet(LAMBDA j : BinomialCoefficient(k, j), m .. k)

\* GstSimulation::initData
MkFeasibilityMultiplicator ==
  FoldFunction(LAMBDA a, b : a * b, 1,
               [t \in Tasks |-> Windows(taskset[t].m, taskset[t].k)])

\* MkpSimulation::calcFeasibilityPeriod
FeasibilityPeriod ==
  CalculateLcm(HyperPeriod, LcmOf([t \in Tasks |-> taskset[t].k]))

CeilDiv(a, b) == (a + b - 1) \div b

\* Mutant: floor for ceil.
MandatoryJobsFloor(th, length) ==
  (taskset[th].m * CeilDiv(length, Period(th))) \div taskset[th].k

\* How many mandatory jobs task th releases in an interval of this length
MandatoryJobs(th, length) ==
  CeilDiv(taskset[th].m * CeilDiv(length, Period(th)), taskset[th].k)

\* MkGenerator::testSufficientSchedulability, of tasks by increasing period
TestSufficientSchedulability ==
  \A ti \in Tasks :
    MapThenSumSet(LAMBDA th : taskset[th].et * MandatoryJobs(th, Period(ti)), 1 .. ti - 1)
      + taskset[ti].et <= Period(ti)

CurrentState == [t \in Tasks |-> GetState(monitor[t], taskset[t].k)]

CurrentReducedState == [t \in Tasks |-> GetReducedState(monitor[t], taskset[t].k)]

\* Mutant: "|=" for "&=".
CheckStateAny == \E s \in states : \E t \in Tasks : s[t] = CurrentState[t]

\* GstSimulation::checkState and checkReducedState
CheckState == CurrentState \in states

CheckReducedState == CurrentReducedState \in reducedStates

\* getSimulationMessage() of the three classes, for the log: "after" is the number of
\* hyperperiods it names.
GstMessage(recurred, hyperperiods, reduced) ==
  [success |-> ~ ec, dueTo |-> IF recurred THEN "recurring state" ELSE "",
   after |-> hyperperiods - 1, cycle |-> now, reducedAt |-> reduced]

MkpMessage(byTest) ==
  [success |-> byTest \/ ~ ec, dueTo |-> IF byTest THEN "test" ELSE "simulation",
   cycle |-> now]

FixedTimeMessage == [success |-> ~ ec, dueTo |-> "", cycle |-> now]
-----------------------------------------------------------------------------
\* The head of the loop in GstSimulation::simulate
GstRound ==
  /\ phase = "start" /\ class = "gst"
  /\ Run(HyperPeriod) /\ UNCHANGED owned
  /\ states' = states \cup {CurrentState}
  /\ reducedStates' = reducedStates \cup {CurrentReducedState}
  /\ tidy' = (tidy /\ DOMAIN job = {})
  /\ phase' = "running"
  /\ UNCHANGED <<alloc, class, hpCount, recurring, reducedAt, verdict,
                 message>>

\* ... and its tail, when run() has returned
GstCheck ==
  /\ phase = "running" /\ class = "gst" /\ pc = "api"
  /\ recurring' = (~ ec /\ CheckState)
  /\ reducedAt' = IF ~ ec /\ CheckReducedState /\ reducedAt = -1 THEN hpCount ELSE reducedAt
  /\ hpCount' = hpCount + 1
  /\ tidy' = (tidy /\ DOMAIN job = {})
  /\ IF ec \/ recurring' \/ hpCount' > MkFeasibilityMultiplicator
     THEN /\ phase' = "done" /\ verdict' = IF ec THEN "failed" ELSE "success"
          /\ message' = GstMessage(recurring', hpCount', reducedAt')
     ELSE phase' = "start" /\ UNCHANGED <<verdict, message>>
  /\ UNCHANGED <<vars, owned, alloc, class, states, reducedStates>>

\* MkpSimulation::simulate: the test, else a simulation
MkpTest ==
  /\ phase = "start" /\ class = "mkp"
  /\ TestSufficientSchedulability
  /\ phase' = "done" /\ verdict' = "success" /\ message' = MkpMessage(TRUE)
  /\ UNCHANGED <<vars, owned, alloc, class, states, reducedStates, hpCount, recurring,
                 reducedAt, tidy>>

MkpRun ==
  /\ phase = "start" /\ class = "mkp"
  /\ ~ TestSufficientSchedulability
  /\ Run(FeasibilityPeriod) /\ UNCHANGED owned
  /\ phase' = "running"
  /\ UNCHANGED <<alloc, class, states, reducedStates, hpCount, recurring, reducedAt,
                 verdict, message, tidy>>

\* FixedTimeSimulation::simulate
FixedTimeRun ==
  /\ phase = "start" /\ class = "fixed"
  /\ \E steps \in RunSteps : Run(steps)
  /\ UNCHANGED owned
  /\ phase' = "running"
  /\ UNCHANGED <<alloc, class, states, reducedStates, hpCount, recurring, reducedAt,
                 verdict, message, tidy>>

\* The end of the simulate() of both
RunCheck ==
  /\ phase = "running" /\ class \in {"mkp", "fixed"} /\ pc = "api"
  /\ phase' = "done" /\ verdict' = IF ec THEN "failed" ELSE "success"
  /\ message' = IF class = "mkp" THEN MkpMessage(FALSE) ELSE FixedTimeMessage
  /\ tidy' = (DOMAIN job = {})
  /\ UNCHANGED <<vars, owned, alloc, class, states, reducedStates, hpCount, recurring,
                 reducedAt>>

\* What would happen if the simulation went on after the test has succeeded
GoOn ==
  /\ phase = "done" /\ verdict = "success" /\ class # "fixed"
  /\ pc = "api" /\ ~ ec
  /\ Run(HyperPeriod) /\ UNCHANGED <<owned, test>>

Settled ==
  /\ phase = "done" /\ pc = "api"
  /\ UNCHANGED <<vars, owned, test>>

\* A step of the simulation loop with the allocator's scheduler
SimulationStep ==
  /\ IF Policy(alloc) = "FPP" THEN Step /\ UNCHANGED owned ELSE OverloadStep
  /\ UNCHANGED test

TestStep ==
  GstRound \/ GstCheck \/ MkpTest \/ MkpRun \/ FixedTimeRun \/ RunCheck \/ SimulationStep

FeasibilityNext == TestStep \/ GoOn \/ Settled

FeasibilitySpec ==
  /\ FeasibilityInit
  /\ [][FeasibilityNext]_<<vars, owned, test>>
  /\ WF_<<vars, owned, test>>(TestStep)
-----------------------------------------------------------------------------
\* Success means that the taskset is schedulable: no job is ever cancelled in
\* violation of an (m,k) constraint, however long the simulation goes on.
SuccessIsFinal == verdict = "success" /\ class # "fixed" => ~ ec

\* As SuccessIsFinal, where the (m,k) states say all there is to say about the
\* future: no job was pending at the end of a hyperperiod, and no task follows
\* a pattern of its own.
RecurrenceIsFinal ==
  class = "gst" /\ tidy /\ Allocators[alloc].model # "mkp" => SuccessIsFinal

\* The sufficient test is right, also where patterns are rotated.  For MKP, whose
\* first jobs are all mandatory and released together, so is the simulation, if it
\* ends without a pending job.
MkpSuccessIsFinal ==
  class = "mkp" /\ (TestSufficientSchedulability \/ (alloc = "MKP" /\ tidy))
    => SuccessIsFinal

\* What is logged of a simulation is what happened: when it went well, it ended with
\* a recurring state in the last step of the hyperperiod after the one that is named,
\* and when not, in the one that is named; the test of MkpSimulation takes no time.
MessageTrue ==
  CASE class = "gst" ->
         /\ message.after >= 0
         /\ message.dueTo = "recurring state" <=> message.success
         /\ message.success => /\ message.cycle = (message.after + 1) * HyperPeriod
                               /\ message.reducedAt \in 0 .. message.after
         /\ ~ message.success => message.cycle \div HyperPeriod = message.after
    [] class = "mkp" ->
         /\ message.dueTo = "test" => message.success /\ message.cycle = 0
         /\ message.dueTo = "simulation" =>
              /\ message.success <=> message.cycle = FeasibilityPeriod
              /\ message.cycle <= FeasibilityPeriod
    [] class = "fixed" -> \E steps \in RunSteps : message.cycle \in 0 .. steps

\* As there are no more valid states than the multiplicator says, a simulation that
\* never violates a constraint meets a recorded state before the loop gives up; and
\* the log of every simulation says what happened.
RecursInTime ==
  /\ class = "gst" /\ verdict = "success" => recurring
  /\ phase = "done" => (message.success <=> verdict = "success") /\ MessageTrue

\* mkeval/gstsimulation.h says of simulate() that true means a schedulable taskset;
\* a job that is pending at the end of a hyperperiod and about to be cancelled is
\* not part of the states that are compared.
GstSuccessIsFinal == class = "gst" => SuccessIsFinal
=============================================================================
