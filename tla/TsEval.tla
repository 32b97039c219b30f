------------------------------- MODULE TsEval -------------------------------
(***************************************************************************)
(* tseval: producers, whose data become available by three models (LIB:    *)
(* when the job has finished, LET: at its deadline, RTA: when its worst-   *)
(* case response time has passed), and consumers that read them.  The      *)
(* tasksets are those that tstaskset.cpp generates for tseval.cpp and      *)
(* those that tsrun.cpp reads; both are simulated with FPPScheduler.       *)
(***************************************************************************)
EXTENDS Simulation, DependencyMatrix, PeriodGenerators, TmsMath

CONSTANTS
  TsConfigs,   \* configuration files of tseval
  XmlTasksets  \* task files of tsrun

ASSUME TsConfigsAssumption ==
  \A c \in TsConfigs :
    /\ {c.numberOfProducers, c.numberOfConsumers, c.maxConsumerInputs} \subseteq Nat \ {0}
    /\ c.maxWC \in Nat \ {0, 1} \* getIntervalRand() asserts that its bounds differ
    /\ c.numberOfConsumers <= c.numberOfProducers
    /\ ValidParameters(c.numberOfProducers, c.numberOfConsumers, c.maxConsumerInputs)
    /\ c.producerPeriods \subseteq GetNumber(Tables.LOW, Horizon)
    /\ c.consumerPeriods \subseteq GetNumber(Tables.HIGH, Horizon)

VARIABLES
  system,    \* the producers, their buffers' sizes, the response times, and what each
             \* consumer reads
  data,      \* for each producer, its buffers
  reading,   \* for each consumer job that exists, what it has read
  samples,   \* for each consumer, the ages and gaps it has recorded
  history    \* all data a producer has made so far

tsVars == <<system, data, reading, samples, history>>

Models == {"lib", "let", "rta"}
-----------------------------------------------------------------------------
(* Generation and analysis of a taskset: sequences of tasks, producers first *)

\* llround of the quotient of two positive integers
LRound(a, b) == (2 * a + b) \div (2 * b)

\* generateTempTasks: the utilisation u = <<numerator, denominator>> is shared out
\* by the weights wc.
GenerateTempTasks(periods, wc, u) ==
  LET sumWC == MapThenSumSet(LAMBDA i : wc[i], DOMAIN wc)
      fci(i) == LRound(u[1] * periods[i] * wc[i], u[2] * sumWC)
  IN  [i \in DOMAIN periods |-> [period |-> periods[i], et |-> Max({1, fci(i)})]]

\* Each task is inserted before the first with a longer period, and the place in
\* the list becomes the priority.
RateMonotonic(ts) ==
  [i \in DOMAIN ts |->
     Cardinality({j \in DOMAIN ts : \/ ts[j].period < ts[i].period
                                    \/ ts[j].period = ts[i].period /\ j < i})]

\* insertRtaTask of tsrun: tasks of equal priority in the order of their insertion
Before(prio, j, i) == prio[j] < prio[i] \/ (prio[j] = prio[i] /\ j < i)

\* Mutant: floor for ceil.
InterferenceFloor(ts, prio, i, length) ==
  MapThenSumSet(LAMBDA j : (length \div ts[j].period) * ts[j].et,
                {j \in DOMAIN ts : Before(prio, j, i)})

\* The demand of the tasks before task i in an interval of this length
Interference(ts, prio, i, length) ==
  MapThenSumSet(LAMBDA j : ((length + ts[j].period - 1) \div ts[j].period) * ts[j].et,
                {j \in DOMAIN ts : Before(prio, j, i)})

\* The loop of responseTimeAnalysis for task i, which stops at a fixed point or
\* beyond the period
ResponseTime(ts, prio, i) ==
  LET initial == ts[i].et + Interference(ts, prio, i, 1)
      round[n \in 0 .. ts[i].period + 1] ==
        IF n = 0 THEN initial
        ELSE LET last == round[n - 1]
             IN  IF last > ts[i].period THEN last
                 ELSE ts[i].et + Interference(ts, prio, i, last)
  IN  round[ts[i].period + 1]

\* responseTimeAnalysis
ResponseTimesOk(ts, prio) == \A i \in DOMAIN ts : ResponseTime(ts, prio, i) <= ts[i].period

\* What is simulated: the tasks, all released at time 0
SimTasks(ts, prio) ==
  [i \in DOMAIN ts |->
     [model |-> "plain", first |-> 0, gaps |-> {ts[i].period}, et |-> ts[i].et,
      ct |-> ts[i].period, prio |-> prio[i], m |-> 0, k |-> 0, init |-> << >>,
      spin |-> 0, relaxed |-> FALSE]]

SystemOf(ts, prio, nProducers, bufferSize, reads) ==
  [nProducers |-> nProducers, bufferSize |-> bufferSize, tasks |-> SimTasks(ts, prio),
   responseTime |-> [i \in DOMAIN ts |-> ResponseTime(ts, prio, i)], reads |-> reads]

\* createConsumersFromTempTasks: consumer i reads what row i of the matrix says.
ReadsOf(matrix, np, nc) ==
  [i \in np + 1 .. np + nc |-> {j \in 1 .. np : j - 1 \in matrix[i - np]}]

\* TsTaskSet::TsTaskSet; the matrix has a row for each producer and a column for
\* each consumer.
GeneratedSystems(c) ==
  LET np == c.numberOfProducers
      nc == c.numberOfConsumers
      Temp(n, periods, u) == {GenerateTempTasks(p, wc, u) : p \in [1 .. n -> periods],
                                                            wc \in [1 .. n -> GetIntervalRand(1, c.maxWC)]}
      TempTasksets == {p \o q : p \in Temp(np, c.producerPeriods, c.producerUtilisation),
                                q \in Temp(nc, c.consumerPeriods, c.consumerUtilisation)}
  IN  {SystemOf(ts, RateMonotonic(ts), np, [p \in 1 .. np |-> 2], ReadsOf(matrix, np, nc)) :
         ts \in {t \in TempTasksets : ResponseTimesOk(t, RateMonotonic(t))},
         matrix \in Matrices(np, nc, c.maxConsumerInputs)}

\* init() and responseTimeAnalysis() of tsrun; the sizes of the buffers are those of the
\* file, 0 where it has none.
ReadSystems(xml) ==
  LET prio == [i \in DOMAIN xml.tasks |-> xml.tasks[i].prio]
  IN  IF ResponseTimesOk(xml.tasks, prio)
      THEN {SystemOf(xml.tasks, prio, xml.nProducers, xml.bufferSize, xml.reads)} ELSE {}

Systems ==
  UNION {GeneratedSystems(c) : c \in TsConfigs} \cup UNION {ReadSystems(x) : x \in XmlTasksets}

Producers == 1 .. system.nProducers
Consumers == Tasks \ Producers

TsHyperPeriod == FoldFunction(CalculateLcm, 1, [t \in Tasks |-> taskset[t].ct])
-----------------------------------------------------------------------------
(* PProducerTask and PConsumerTask *)

\* A TmsTimeElement, and as history the activation it is from
Element(tReal, tLogical, from) == [tReal |-> tReal, tLogical |-> tLogical, from |-> from]

\* circular_buffer::push_back: a full buffer loses its oldest element, one of size 0
\* takes none.
PushBack(buffer, element, size) ==
  IF size = 0 THEN buffer
  ELSE Append(IF Len(buffer) < size THEN buffer ELSE Tail(buffer), element)

\* PProducerTask::PProducerTask pushes two elements of time 0.
NewBuffer(size) == PushBack(PushBack(<< >>, Element(0, 0, -1), size), Element(0, 0, -1), size)

\* Mutant: off by one, data are read a step before they are available.
GetDataEarly(p, model, time) ==
  LET buffer == data[p][model]
      future == {n \in 2 .. Len(buffer) : buffer[n].tLogical > time + 1}
  IN  IF buffer = << >> THEN Element(-1, -1, -1) ELSE buffer[Min(future \cup {Len(buffer) + 1}) - 1]

\* PProducerTask::getData: the entry before the first that lies in the future; the oldest
\* one is not asked for its time.
GetData(p, model, time) ==
  LET buffer == data[p][model]
      future == {n \in 2 .. Len(buffer) : buffer[n].tLogical > time}
  IN  IF buffer = << >> THEN Element(-1, -1, -1) ELSE buffer[Min(future \cup {Len(buffer) + 1}) - 1]

ReadAll(j, model, time) == [p \in system.reads[j[1]] |-> GetData(p, model, time)]

\* PConsumerJob::PConsumerJob reads at the activation.
NewReading(j) ==
  [let |-> ReadAll(j, "let", now), rta |-> ReadAll(j, "rta", now), lib |-> << >>, firstStep |-> 0]

\* PProducerTask::completionHook
Produce(p, activation) ==
  LET timeLet == activation + taskset[p].ct
      timeRta == activation + system.responseTime[p]
      new == [lib |-> Element(now + 1, now + 1, activation),
              let |-> Element(now, timeLet, activation),
              rta |-> Element(now, timeRta, activation)]
  IN  /\ data' = [data EXCEPT ![p] = [m \in Models |-> PushBack(@[m], new[m], system.bufferSize[p])]]
      /\ history' = [history EXCEPT ![p] = Append(@, new)]

\* PConsumerJob::execStep: the first step reads what is the latest.
AfterExecStep(j) ==
  IF job[j].rem = job[j].et
  THEN [reading[j] EXCEPT !.firstStep = now, !.lib = ReadAll(j, "lib", now)]
  ELSE reading[j]

\* Mutant: the gap counts from the first step of the job.
SampleFromStart(j, read, activation) ==
  [p \in system.reads[j[1]] |->
     [m \in Models |-> read.firstStep - read[m][p].tReal]
       @@ [gap |-> read.firstStep - read.rta[p].tLogical]]

\* PConsumerTask::completionHook
Sample(j, read, activation) ==
  [p \in system.reads[j[1]] |->
     [m \in Models |-> read.firstStep - read[m][p].tReal]
       @@ [gap |-> activation - read.rta[p].tLogical]]

Activation(j) == job[j].dl - taskset[j[1]].ct
-----------------------------------------------------------------------------
(* PConsumerTask::calculateStatistics, when the simulation is over         *)

\* PConsumerTask::PConsumerTask: the lists ages and rtaGaps are empty.
NoSamples == [c \in Consumers |-> << >>]

Ages(c, p, m) == [i \in DOMAIN samples[c] |-> samples[c][i][p][m]]
RtaGaps(c, p) == [i \in DOMAIN samples[c] |-> samples[c][i][p].gap]

\* <<sum, number>>, which is 0/0 when no job was completed
CalculateMu(ages) == <<FoldLeft(LAMBDA sum, a : sum + a, 0, ages), Len(ages)>>

\* The sum is an integer, so what is added is rounded down each time.
CalculateVar(ages, mu) ==
  LET Deviation(a) == mu[2] * a - mu[1]
      Add(sum, a) == sum + (Deviation(a) * Deviation(a)) \div (mu[2] * mu[2])
  IN  <<FoldLeft(Add, 0, ages), Len(ages)>>

\* The loop for minGap and maxGap; unlimited stands for TMS_TIME_INTERVAL_MAX.
GapRange(gaps) ==
  FoldLeft(LAMBDA r, g : [min |-> Min({r.min, g}), max |-> Max({r.max, g})],
           [min |-> Horizon, max |-> 0], gaps)

CalculateStatistics(c, p) ==
  [mu  |-> [m \in Models |-> CalculateMu(Ages(c, p, m))],
   var |-> [m \in Models |-> LET ages == Ages(c, p, m)
                             IN  CalculateVar(ages, CalculateMu(ages))],
   gap |-> GapRange(RtaGaps(c, p))]
-----------------------------------------------------------------------------
TsInit ==
  /\ system \in Systems
  /\ taskset = system.tasks
  /\ Init
  /\ data = [p \in Producers |-> [m \in Models |-> NewBuffer(system.bufferSize[p])]]
  /\ reading = << >>
  /\ samples = NoSamples
  /\ history = [p \in Producers |-> << >>]

\* The hyperperiod, or what tsrun was told
TsCall ==
  /\ mode = "none"
  /\ \E steps \in {TsHyperPeriod} \cup RunSteps : Run(steps)
  /\ UNCHANGED tsVars

TsActivate ==
  /\ Activate
  /\ LET j == NextJobId(index)
     IN  reading' = IF index \in Producers THEN reading
                    ELSE (j :> NewReading(j)) @@ reading
  /\ UNCHANGED <<system, data, samples, history>>

TsExecute ==
  /\ Execute
  /\ reading' = IF NextJob[1] \in Producers THEN reading
                ELSE [reading EXCEPT ![NextJob] = AfterExecStep(NextJob)]
  /\ UNCHANGED <<system, data, samples, history>>

TsComplete ==
  /\ Complete
  /\ IF NextJob[1] \in Producers
     THEN Produce(NextJob[1], Activation(NextJob)) /\ UNCHANGED <<reading, samples>>
     ELSE /\ samples' = [samples EXCEPT ![NextJob[1]] =
               Append(@, Sample(NextJob, AfterExecStep(NextJob), Activation(NextJob)))]
          /\ reading' = Restrict(reading, DOMAIN reading \ {NextJob})
          /\ UNCHANGED <<data, history>>
  /\ UNCHANGED system

\* The rest of the simulation loop; a job that is cancelled takes its readings along.
\* In FPPScheduler's default configuration no late job is kept.
TsOtherStep ==
  /\ \/ MissDropped \/ InitStepDone \/ CancelJob \/ CancelDone
     \/ NotYetActive \/ ScheduleDone \/ Idle
  /\ reading' = Restrict(reading, DOMAIN reading \cap DOMAIN job')
  /\ UNCHANGED <<system, data, samples, history>>

TsOver == mode = "run" /\ pc = "api" /\ UNCHANGED <<vars, tsVars>>

TsNext == TsCall \/ TsActivate \/ TsExecute \/ TsComplete \/ TsOtherStep \/ TsOver

TsSpec == TsInit /\ [][TsNext]_<<vars, tsVars>>
-----------------------------------------------------------------------------
\* tsrun takes the priorities from its file, where they need not differ; the analysis
\* then counts on an order that FPPScheduler does not keep.
PrioritiesDiffer == \A s, t \in Tasks : taskset[s].prio = taskset[t].prio => s = t

\* The analysis holds in the simulation: no job is pending any longer than its
\* task's response time, and none is cancelled.  The assertions in
\* PProducerTask::completionHook rest on it.
ResponseTimesBound ==
  PrioritiesDiffer =>
    /\ \A j \in DOMAIN job : now < Activation(j) + system.responseTime[j[1]]
    /\ \A t \in Tasks : task[t].cancellations = 0

\* The newest of all data that were available by a model at a time
NewestAvailable(p, model, time) ==
  LET available == {n \in DOMAIN history[p] : history[p][n][model].tLogical <= time}
  IN  IF available = {} THEN Element(0, 0, -1) ELSE history[p][Max(available)][model]

\* tsrun takes the size of a buffer from its file unchecked: from one of size 1 the data
\* of a job are read before they are available, from one of size 0 none.
Buffered == {p \in Producers : system.bufferSize[p] >= 2}

\* Two entries are enough: when data are read, the buffer of each model yields the
\* newest that are available by then, although newer ones may lie in it already.
FreshestRead ==
  \A p \in Buffered, m \in Models :
    pc \in {"activate", "dispatch"} => GetData(p, m, now) = NewestAvailable(p, m, now)

\* What a consumer records of the three models: LIB is at most as old as RTA, RTA as
\* LET (real times differ by one step), no data come from the future, and RTA data
\* are never older than a period and the response time.
AgesOrdered ==
  \A c \in Consumers : \A i \in DOMAIN samples[c] : \A p \in DOMAIN samples[c][i] \cap Buffered :
    LET s == samples[c][i][p]
    IN  /\ 0 <= s.lib /\ s.lib <= s.rta /\ s.rta <= s.let
        /\ 0 <= s.gap /\ s.gap < taskset[p].ct

\* What is printed of the samples: the mean ages are in the order of the models, the
\* gaps lie between the printed ones and those occur; the printed variance is below
\* that of the ages by less than one.
StatisticsTrue ==
  mode = "run" /\ pc = "api" =>
    \A c \in Consumers : samples[c] # << >> => \A p \in system.reads[c] \cap Buffered :
      LET st == CalculateStatistics(c, p)
          n == Len(samples[c])
          gaps == {samples[c][i][p].gap : i \in 1 .. n}
      IN  /\ st.mu.lib[1] <= st.mu.rta[1] /\ st.mu.rta[1] <= st.mu.let[1]
          /\ st.gap = [min |-> Min(gaps), max |-> Max(gaps)]
          /\ \A m \in Models :
               LET square(i) == samples[c][i][p][m] * samples[c][i][p][m]
                   \* n * n times the sum of the squared deviations
                   exact == n * (n * MapThenSumSet(square, 1 .. n) - st.mu[m][1] * st.mu[m][1])
               IN  /\ n * n * st.var[m][1] <= exact
                   /\ exact < n * n * (st.var[m][1] + n)

\* Consumers see the newest data that each model allows, if the buffer has two entries, and the ages and gaps they
\* record, and the statistics of them, are those of the models.
DataFresh == PrioritiesDiffer => FreshestRead /\ AgesOrdered /\ StatisticsTrue
=============================================================================
