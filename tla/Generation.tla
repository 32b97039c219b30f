----------------------------- MODULE Generation -----------------------------
(***************************************************************************)
(* The programs that make tasksets and their files: prseedsearch, whose    *)
(* threads look for seeds that lead to valid tasksets, and mkwrite, mkrun, *)
(* extwrite and tswrite, which write a taskset for mkrun-xml and mkcs-check *)
(* to read.                                                                *)
(***************************************************************************)
EXTENDS Generator, TasksetFile

CONSTANTS
  Threads,        \* of prseedsearch
  Seeds,          \* what rand_r() returns
  NTasksets,      \* how many tasksets prseedsearch looks for
  GenConfig,      \* the generator's configuration and utilisations
  SearchDraws,    \* the draws that a seed may lead to, in prseedsearch
  GeneratorDraws, \* the draws of the other programs
  RunUtilisations,\* extwrite's -u
  OtherTasksets   \* tasksets of other kinds of tasks

ASSUME GenerationAssumption ==
  /\ NTasksets \in Nat \ {0}
  /\ GenConfig.minK > 1 /\ GenConfig.maxK > GenConfig.minK /\ GenConfig.maxWC > 1
  /\ GenConfig.minPeriod \in Nat \ {0} /\ GenConfig.maxPeriod > GenConfig.minPeriod
  /\ \A ds \in SearchDraws :
       Range(ds) \subseteq Draws(GenConfig, GmPeriods("HIGH", 100))
  /\ \A ds \in GeneratorDraws :
       Range(ds) \subseteq Draws(GenConfig, IntervalPeriods(GenConfig.minPeriod, GenConfig.maxPeriod))
  /\ \A u \in RunUtilisations : u[1] * GenConfig.u[2] >= GenConfig.u[1] * u[2]

VARIABLES
  draws,      \* what follows from each seed, and whether that is a valid taskset
  worker,     \* prseedsearch's threads
  seeds, nSeeds, seedsFound, seedFile,
  stage,      \* how far the writing and reading programs have come
  written,    \* the taskset that was generated and written
  sufficient, \* MkTaskset::suffMKSched
  rotated,    \* whether the rotations were calculated
  file,       \* the document in the task file
  tasks       \* the taskset read from it

searchVars == <<worker, seeds, nSeeds, seedsFound, seedFile>>
fileVars == <<stage, written, sufficient, rotated, file, tasks>>
generationVars == <<draws, searchVars, fileVars>>

Outcomes ==
  {[tasks |-> ds, valid |-> TsValid(AbstractTasks(ds, GenConfig), GenConfig)] : ds \in SearchDraws}

GenerationInit ==
  /\ \/ draws \in [Seeds -> Outcomes] /\ stage = "search"
     \/ draws = << >> /\ stage = "start"
  /\ worker = [t \in Threads |-> [at |-> "draw", seed |-> 0]]
  /\ seeds = {} /\ nSeeds = 0 /\ seedsFound = [t \in Threads |-> 0] /\ seedFile = << >>
  /\ written = << >> /\ sufficient = FALSE /\ rotated = FALSE /\ file = << >> /\ tasks = << >>
-----------------------------------------------------------------------------
(* prseedsearch: workerThread *)

\* Under seedLock, rand_r() returns s.
DrawSeed(t, s) ==
  /\ stage = "search" /\ worker[t].at = "draw"
  /\ worker' = [worker EXCEPT ![t] = [at |-> "build", seed |-> s]]
  /\ UNCHANGED <<draws, seeds, nSeeds, seedsFound, seedFile, fileVars>>

\* AbstractMkTaskset::tsValid, for what the seed leads to
Valid(s) == draws[s].valid

\* AbstractMkTaskset's constructor, without a lock
BuildTaskset(t) ==
  /\ worker[t].at = "build" /\ Valid(worker[t].seed)
  /\ worker' = [worker EXCEPT ![t].at = "record"]
  /\ UNCHANGED <<draws, seeds, nSeeds, seedsFound, seedFile, fileVars>>

\* A seed that leads to an invalid taskset is replaced by another one, which getSeed()
\* returns then; it comes from the constructor's own sequence of numbers.
ReplaceSeed(t, s) ==
  /\ worker[t].at = "build" /\ ~Valid(worker[t].seed)
  /\ worker' = [worker EXCEPT ![t].seed = s]
  /\ UNCHANGED <<draws, seeds, nSeeds, seedsFound, seedFile, fileVars>>

\* Mutant: one more than was asked for.
RecordSeedOneMore(t) ==
  LET tss == worker[t].seed
  IN  /\ worker[t].at = "record"
      /\ IF tss \in seeds
         THEN /\ worker' = [worker EXCEPT ![t].at = "draw"]
              /\ UNCHANGED <<seeds, nSeeds, seedsFound, seedFile>>
         ELSE /\ seeds' = seeds \cup {tss}
              /\ nSeeds' = nSeeds + 1
              /\ seedsFound' = [seedsFound EXCEPT ![t] = @ + 1]
              /\ seedFile' = Append(seedFile, tss)
              /\ worker' = [worker EXCEPT ![t].at = IF nSeeds' > NTasksets THEN "end" ELSE "draw"]
      /\ UNCHANGED <<draws, fileVars>>

\* Mutant: the end is only seen by the thread that completes the number.
RecordSeedExactly(t) ==
  LET tss == worker[t].seed
  IN  /\ worker[t].at = "record"
      /\ IF tss \in seeds
         THEN /\ worker' = [worker EXCEPT ![t].at = "draw"]
              /\ UNCHANGED <<seeds, nSeeds, seedsFound, seedFile>>
         ELSE /\ seeds' = seeds \cup {tss}
              /\ nSeeds' = nSeeds + 1
              /\ seedsFound' = [seedsFound EXCEPT ![t] = @ + 1]
              /\ seedFile' = Append(seedFile, tss)
              /\ worker' = [worker EXCEPT ![t].at = IF nSeeds' = NTasksets THEN "end" ELSE "draw"]
      /\ UNCHANGED <<draws, fileVars>>

\* Under outLock.  Only a thread that records a seed notices that there are enough:
\* each of the others has to find one more.
RecordSeed(t) ==
  LET tss == worker[t].seed
  IN  /\ worker[t].at = "record"
      /\ IF tss \in seeds
         THEN /\ worker' = [worker EXCEPT ![t].at = "draw"]
              /\ UNCHANGED <<seeds, nSeeds, seedsFound, seedFile>>
         ELSE /\ seeds' = seeds \cup {tss}
              /\ nSeeds' = nSeeds + 1
              /\ seedsFound' = [seedsFound EXCEPT ![t] = @ + 1]
              /\ seedFile' = Append(seedFile, tss)
              /\ worker' = [worker EXCEPT ![t].at = IF nSeeds' >= NTasksets THEN "end" ELSE "draw"]
      /\ UNCHANGED <<draws, fileVars>>

\* joinThreads
JoinThreads ==
  /\ stage = "search" /\ \A t \in Threads : worker[t].at = "end"
  /\ stage' = "joined"
  /\ UNCHANGED <<draws, searchVars, written, sufficient, rotated, file, tasks>>
-----------------------------------------------------------------------------
(* Writing and reading programs *)

\* The MkTask made from a generated task.  A new task has only successes behind it.
MkTaskOf(ts, i) ==
  [class |-> "mktask", uc |-> "ucfirmrt",
   ua   |-> [class |-> "uawmk", data |-> [m |-> ts[i].m, k |-> ts[i].k]],
   data |-> [id |-> i - 1, executiontime |-> ts[i].et, criticaltime |-> ts[i].period,
             priority |-> i - 1, period |-> ts[i].period, offset |-> 0, m |-> ts[i].m,
             k |-> ts[i].k, spin |-> ts[i].spin, mkstate |-> [n \in 1 .. ts[i].k |-> 1]]]

\* mkwrite and mkrun: nextTaskset, up to the draws that are near the utilisation
GenerateTasks ==
  /\ stage = "start"
  /\ \E ds \in GeneratorDraws :
       LET ts == NextTaskset(ds, GenConfig)
       IN  /\ Within(RealUtilisation(ts), GenConfig)
           /\ written' = [i \in DOMAIN ts |-> MkTaskOf(ts, i)]
           /\ sufficient' = TestSufficientSchedulability(ts)
           /\ rotated' = sufficient'
  /\ stage' = "generated"
  /\ UNCHANGED <<draws, searchVars, file, tasks>>

\* extwrite: a valid abstract taskset at a higher utilisation
ExtendTasks ==
  /\ stage = "start"
  /\ \E ds \in GeneratorDraws, u \in RunUtilisations :
       LET abstract == AbstractTasks(ds, GenConfig)
           ts       == GetMkTasks(abstract, u)
       IN  /\ TsValid(abstract, GenConfig)
           /\ written' = [i \in DOMAIN ts |-> MkTaskOf(ts, i)]
  /\ rotated' = TRUE
  /\ stage' = "generated"
  /\ UNCHANGED <<draws, searchVars, sufficient, file, tasks>>

\* mkdse with a prefix for task files: generateTaskset and writeCtsToXml, for the
\* concrete tasksets of a MkDseSimulationSet, whose (m,k) utilisation is at most 1
DseTasks ==
  /\ stage = "start"
  /\ \E ds \in GeneratorDraws, u \in RunUtilisations \cup {GenConfig.u} :
       LET abstract == AbstractTasks(ds, GenConfig)
           ts       == GetMkTasks(abstract, u)
       IN  /\ TsValid(abstract, GenConfig)
           /\ MkUtilisation(ts)[1] <= MkUtilisation(ts)[2]
           /\ written' = [i \in DOMAIN ts |-> MkTaskOf(ts, i)]
  /\ rotated' = TRUE
  /\ stage' = "generated"
  /\ UNCHANGED <<draws, searchVars, sufficient, file, tasks>>

\* tswrite, and tasksets put together by hand
OtherTasks ==
  /\ stage = "start"
  /\ written' \in OtherTasksets
  /\ stage' = "generated"
  /\ UNCHANGED <<draws, searchVars, sufficient, rotated, file, tasks>>

\* TasksetWriter::write
WriteTasks ==
  /\ stage = "generated"
  /\ file' = DocumentOf(written)
  /\ stage' = "written"
  /\ UNCHANGED <<draws, searchVars, written, sufficient, rotated, tasks>>

\* TasksetReader::read
ReadFile ==
  /\ stage = "written"
  /\ tasks' = ReadTasks(file)
  /\ stage' = "read"
  /\ UNCHANGED <<draws, searchVars, written, sufficient, rotated, file>>

OnlyMkTasks == tasks # << >> /\ \A i \in DOMAIN tasks : tasks[i].class = "mktask"

Parameters(t) ==
  [period |-> t.data["period"], k |-> t.data["k"], m |-> t.data["m"],
   et |-> t.data["executiontime"], spin |-> t.data["spin"]]

\* mkcs-check: the rotations are reset and calculated again; the taskset is written
\* if that changes one of them.
CheckRotations ==
  LET reset   == [i \in DOMAIN tasks |-> [Parameters(tasks[i]) EXCEPT !.spin = 0]]
      again   == CalcRotationValues(reset)
      changed == [i \in DOMAIN tasks |-> [tasks[i] EXCEPT !.data["spin"] = again[i].spin]]
  IN  /\ stage = "read" /\ OnlyMkTasks
      /\ tasks' = changed
      /\ file' = IF changed = tasks THEN file ELSE DocumentOf(changed)
      /\ stage' = "checked"
      /\ UNCHANGED <<draws, searchVars, written, sufficient, rotated>>

WorkerThread(t) ==
  \/ \E s \in Seeds : DrawSeed(t, s) \/ ReplaceSeed(t, s)
  \/ BuildTaskset(t) \/ RecordSeed(t)

GenerationNext ==
  \/ \E t \in Threads : WorkerThread(t)
  \/ JoinThreads
  \/ GenerateTasks \/ ExtendTasks \/ DseTasks \/ OtherTasks
  \/ WriteTasks \/ ReadFile \/ CheckRotations

\* Threads go on while they can.  rand_r() has a full period: while seeds are being drawn,
\* from the shared sequence or from that of a constructor, every number comes back.
GenerationSpec ==
  /\ GenerationInit /\ [][GenerationNext]_generationVars
  /\ \A t \in Threads : WF_generationVars(WorkerThread(t))
  /\ WF_generationVars(JoinThreads)
  /\ \A s \in Seeds : SF_generationVars(\E t \in Threads : DrawSeed(t, s) \/ ReplaceSeed(t, s))
-----------------------------------------------------------------------------
(* Properties *)

\* prseedsearch: a seed in the file leads to a valid taskset without another draw, so
\* that mkdse and bdexcsearch get the taskset that was found; each is there once, the
\* counters agree, and in the end there are as many as were asked for and one more for
\* each other thread.
SeedsReproduce ==
  /\ Range(seedFile) = seeds
  /\ nSeeds = Len(seedFile) /\ nSeeds = Cardinality(seeds)
  /\ nSeeds = MapThenSumSet(LAMBDA t : seedsFound[t], Threads)
  /\ \A s \in seeds : Valid(s)
  /\ stage = "joined" => nSeeds = NTasksets + Cardinality(Threads) - 1

\* prseedsearch ends, whatever its threads find and however often they meet seeds that
\* are there already - if there are enough seeds for each of its threads to record one
\* after the number is complete.  With fewer it does not, as SeedsReproduce says.
SearchReturns ==
  (stage = "search" /\ Cardinality({s \in Seeds : Valid(s)})
                          >= NTasksets + Cardinality(Threads) - 1)
    ~> (stage = "joined")

\* What fixed priorities leave of the mandatory jobs, from one step to the next: each
\* task's remaining time, or the news that a deadline has passed.
MandatorySteps(ts, rem, t) ==
  LET arrive == {i \in DOMAIN ts : t % ts[i].period = 0}
      late   == \E i \in arrive : rem[i] > 0
      fresh  == [i \in DOMAIN ts |->
                   IF i \notin arrive THEN rem[i]
                   ELSE IF IsJobMandatory(t \div ts[i].period, ts[i].m, ts[i].k, ts[i].spin)
                        THEN ts[i].et ELSE 0]
      ready  == {i \in DOMAIN ts : fresh[i] > 0}
  IN  IF rem = << >> \/ late THEN << >>
      ELSE [i \in DOMAIN ts |-> IF ready # {} /\ i = Min(ready) THEN fresh[i] - 1 ELSE fresh[i]]

MandatoryJobsInTimeFor(ts, length) ==
  LET idle  == [i \in DOMAIN ts |-> 0]
      steps == [n \in 1 .. length + 1 |-> n - 1]
  IN  FoldLeft(LAMBDA rem, t : MandatorySteps(ts, rem, t), idle, steps) # << >>

MandatoryJobsInTime(ts) ==
  MandatoryJobsInTimeFor(ts, FoldLeft(LAMBDA l, t : CalculateLcm(l, t.period * t.k), 1, ts))

\* The sufficient test is sound for what is simulated in the end: in a taskset that
\* passed it, every mandatory job of the MKP tasks made from the task file meets its
\* deadline, with the rotations the generator chose and without any.  Where it failed,
\* what MKP simulates instead is long enough without rotations, although it is shorter
\* than the cycle of the patterns if a period and its k have a common divisor.
SufficientIsSafe ==
  stage = "read" /\ OnlyMkTasks =>
    LET ts       == [i \in DOMAIN tasks |-> Parameters(tasks[i])]
        unspun   == [i \in DOMAIN ts |-> [ts[i] EXCEPT !.spin = 0]]
        inTime   == MandatoryJobsInTimeFor(unspun, GetMkpFeasibilityPeriod(ts))
    IN  /\ sufficient => MandatoryJobsInTime(ts)
        /\ sufficient \/ inTime => MandatoryJobsInTime(unspun)

\* A taskset whose file was accepted is read as it was written, but for DBP tasks,
\* which are dropped, and the direction of the (m,k) state.
ReadAs(t) ==
  [data |-> IF t.class = "mktask" THEN [t.data EXCEPT !["mkstate"] = Reverse(@)] ELSE t.data,
   ua   |-> IF t.ua.class = "uanone" THEN << >> ELSE t.ua]

ReadsAsWritten ==
  stage = "read" /\ IsValid(file) =>
    LET kept == SelectSeq(written, LAMBDA t : t.class # "dbptask")
    IN  /\ Len(tasks) = Len(kept)
        /\ \A i \in DOMAIN kept :
             /\ tasks[i].data = ReadAs(kept[i]).data
             /\ ReadAs(kept[i]).ua \in {<< >>, tasks[i].ua}

\* mkcs-check, which starts from the file, finds the rotations of the generator.
RotationsReproduced ==
  stage = "checked" /\ rotated =>
    \A i \in DOMAIN tasks : tasks[i].data["spin"] = written[i].data["spin"]

\* Task files carry everything the programs that read them need.
FilesKeepTasks == ReadsAsWritten /\ RotationsReproduced
=============================================================================
