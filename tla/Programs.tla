------------------------------- MODULE Programs -------------------------------
(***************************************************************************)
(* A run of one of the programs, from its command line to its end: which   *)
(* objects exist, which result files are open, which configuration the     *)
(* calculation gets, and with what status the process ends.  The           *)
(* calculations themselves are those of the other modules: here they are a *)
(* step that needs its objects.                                            *)
(***************************************************************************)
EXTENDS ProgramTables, KvFile, Logger, DependencyMatrix, FiniteSets, FiniteSetsExt

CONSTANTS
  CommandLines,   \* for each program, the command lines it is started with
  GenConfigFiles, \* readable contents of a file for -c
  TsConfigFiles,  \* the same for the programs of tseval
  EconfFiles,     \* readable contents of a file for -e
  IntBits         \* the width of unsigned int

Absent == "absent"

GeneratorKeys == {"minPeriod", "maxPeriod", "minK", "maxK", "maxWC"}

\* validate() reads these three numbers, too.
MatrixKeys == {"maxConsumerInputs", "numberOfConsumers", "numberOfProducers"}
TsKeys == MatrixKeys \cup {"producerUtilisation", "consumerUtilisation", "maxWC"}

BoostPrograms == DOMAIN Main \ {"tsrun", "tswrite", "tseval"}
Simulators == {"mkeval", "bdexcsearch", "mkdse", "mkrun", "mkrunXml", "excrun", "cexcrun"}

ASSUME ProgramsAssumption ==
  /\ IntBits \in Nat \ {0}
  /\ DOMAIN CommandLines = DOMAIN Main
  /\ \A p \in DOMAIN Main : \A a \in CommandLines[p] :
       DOMAIN a = DOMAIN Options[p] \cup {"line"}
  /\ \A f \in GenConfigFiles \cup TsConfigFiles \cup EconfFiles :
       \A i \in DOMAIN f.lines : f.lines[i].kind \in Kinds

VARIABLES
  program,
  args,      \* what the command line gives for each option, and how it ends
  gcfgFile,  \* the content of the file for -c
  econfFile, \* the content of the file for -e
  status,    \* "starting", "running", how the process ended, or "looping"
  rv,        \* what main() returns
  todo,      \* the steps that are left
  live,      \* the objects that exist
  deleted,   \* the objects that were deleted
  opened,    \* the result files that were opened, and truncated
  closed,    \* those that were closed
  scc,       \* the scheduler configuration
  logging,   \* the log classes that are active
  done       \* whether the calculation took place

inputs == <<program, args, gcfgFile, econfFile>>
outputs == <<opened, closed, done>>
programVars == <<inputs, status, rv, todo, live, deleted, outputs, scc, logging>>

DefaultConfiguration == [execCancellations |-> TRUE, dlMissCancellations |-> TRUE]

Given(o) == o \in DOMAIN args /\ args[o] # Absent

Readable(o) == Given(o) /\ args[o] = "good"

NoFile == [lines |-> << >>, ended |-> TRUE]

ProgramsInit ==
  /\ program \in DOMAIN Main
  /\ args \in CommandLines[program]
  /\ gcfgFile \in CASE ~Readable("config") -> {NoFile}
                  [] program \in BoostPrograms -> GenConfigFiles
                  [] OTHER -> TsConfigFiles
  /\ econfFile \in IF Readable("econf") THEN EconfFiles ELSE {NoFile}
  /\ status = "starting" /\ rv = 0
  /\ todo = Initialise[program] \o Main[program] \o Cleanup[program]
  /\ live = {} /\ deleted = {} /\ opened = {} /\ closed = {} /\ done = FALSE
  /\ scc = DefaultConfiguration /\ logging = {}

Complete == \A o \in DOMAIN Options[program] :
              Options[program][o] = "required" => Given(o)
-----------------------------------------------------------------------------
(* The command line                                                        *)

Exit(value) == status' = "exited" /\ rv' = value /\ todo' = << >>

\* boost::program_options: a value that cannot be parsed is found before --help is
\* looked for, a missing option only afterwards.  tms-sim goes to its cleanup.
ParseBoostOptions ==
  /\ status = "starting" /\ program \in BoostPrograms
  /\ IF args.line = "whole" /\ Complete
     THEN status' = "running" /\ UNCHANGED <<rv, todo>>
     ELSE IF program = "tmsSim"
          THEN status' = "running" /\ rv' = 0 /\ todo' = Cleanup[program]
          ELSE Exit(IF args.line = "help" \/ program = "genseeds" THEN 1 ELSE -1)
  /\ UNCHANGED <<inputs, live, deleted, outputs, scc, logging>>

\* parseArgs() of tsrun, tswrite and tseval, whose result is a bool: any value but 0 is
\* taken for the one of --help, and an error in the line ends the parsing with 0.
ParseArgs ==
  /\ status = "starting" /\ program \notin BoostPrograms
  /\ CASE args.line = "dangling" ->      \* strcmp(NULL, "help")
            status' = "crashed" /\ UNCHANGED <<rv, todo>>
       [] args.line = "joined" ->        \* --p after "-Sx" stays at the same argument
            status' = "looping" /\ UNCHANGED <<rv, todo>>
       [] args.line = "help" \/ (args.line = "whole" /\ ~Complete) ->
            Exit(0)
       [] OTHER -> status' = "running" /\ UNCHANGED <<rv, todo>>
  /\ opened' = IF Given("logfile") THEN {"logptr"} ELSE {}
  /\ UNCHANGED <<inputs, live, deleted, closed, done, scc, logging>>
-----------------------------------------------------------------------------
(* The steps of initialise()                                               *)

At(what) == status = "running" /\ todo # << >> /\ Head(todo).do = what

Continue == todo' = Tail(todo) /\ UNCHANGED <<status, rv>>

\* What main() does when initialise() has returned false
InitialisationFails ==
  CASE program = "tmsSim"  -> todo' = Cleanup[program] /\ UNCHANGED <<status, rv>>
    [] program = "tswrite" -> todo' = Cleanup[program] /\ rv' = -1 /\ UNCHANGED status
    [] program = "tsrun"   -> todo' = Main[program] /\ rv' = -1 /\ UNCHANGED status
    [] OTHER -> Exit(-1)

Ends(how) == status' = how /\ UNCHANGED <<rv, todo>>

ReadGenConfig ==
  /\ At("ReadGenConfig")
  /\ LET readable == Readable("config") /\ ~Throws(gcfgFile)
     IN /\ live' = IF readable THEN live \cup {"gcfg"} ELSE live
        /\ IF readable /\ \A k \in GeneratorKeys : ContainsKey(ReadConfig(gcfgFile), k)
           THEN Continue ELSE InitialisationFails
  /\ UNCHANGED <<inputs, deleted, outputs, scc, logging>>

\* Nobody catches the exceptions of the constructor and of validate().
ReadTsConfig ==
  /\ At("ReadTsConfig")
  /\ LET readable == Readable("config") /\ ~Throws(gcfgFile)
         map == ReadConfig(gcfgFile)
     IN /\ live' = IF readable THEN live \cup {"gcfg"} ELSE live
        /\ IF ~readable \/ \E k \in MatrixKeys : ~ContainsKey(map, k)
           THEN Ends("aborted")
           ELSE IF \A k \in TsKeys : ContainsKey(map, k)
           THEN Continue ELSE InitialisationFails
  /\ UNCHANGED <<inputs, deleted, outputs, scc, logging>>

ReadEconf ==
  /\ At("ReadEconf")
  /\ IF ~Given("econf")
     THEN Continue /\ UNCHANGED <<live, scc>>
     ELSE IF args.econf = "bad" \/ Throws(econfFile)
     THEN InitialisationFails /\ UNCHANGED <<live, scc>>
     ELSE /\ live' = live \cup {"econf"}
          /\ scc' = SchedulerConfiguration(ReadConfig(econfFile))
          /\ Continue
  /\ UNCHANGED <<inputs, deleted, outputs, logging>>

\* A line that does not fit into the buffer sets failbit: eof() stays false.
ReadSeeds ==
  /\ At("ReadSeeds")
  /\ CASE args.seedfile = "bad"      -> InitialisationFails
       [] args.seedfile = "overlong" -> Ends("looping")
       [] OTHER -> Continue
  /\ UNCHANGED <<inputs, live, deleted, outputs, scc, logging>>

FindAllocators ==
  /\ At("FindAllocators")
  /\ IF args.allocators = "good" THEN Continue ELSE InitialisationFails
  /\ UNCHANGED <<inputs, live, deleted, outputs, scc, logging>>

\* excrun and cexcrun keep the NULL of an unknown allocator.
FindAllocator ==
  /\ At("FindAllocator")
  /\ live' = IF args.allocators = "good" THEN live \cup {"theAllocator"} ELSE live
  /\ Continue
  /\ UNCHANGED <<inputs, deleted, outputs, scc, logging>>

\* A file that cannot be read leaves mkTasks empty.
ReadTasks ==
  /\ At("ReadTasks")
  /\ live' = IF args.infile = "bad" THEN live ELSE live \cup {"mkTasks"}
  /\ IF args.infile = "foreign" THEN InitialisationFails ELSE Continue
  /\ UNCHANGED <<inputs, deleted, outputs, scc, logging>>

ReadTaskset ==
  /\ At("ReadTaskset")
  /\ live' = live \cup {"tasks"}
  /\ IF args.infile = "bad" THEN InitialisationFails ELSE Continue
  /\ UNCHANGED <<inputs, deleted, outputs, scc, logging>>

\* producerMap[name] gives NULL for a producer that is not in the file.
ReadTsTasks ==
  /\ At("ReadTsTasks")
  /\ IF args.infile \in {"bad", Absent}
     THEN InitialisationFails /\ UNCHANGED live
     ELSE /\ live' = live \cup IF args.infile = "orphan" THEN {"tasks"}
                                                        ELSE {"tasks", "producers"}
          /\ Continue
  /\ UNCHANGED <<inputs, deleted, outputs, scc, logging>>

\* What is given for -l
LogNames ==
  CASE args.log = "good" -> {"EXEC", "SIM", "TASK", "EVAL_TS"}
    [] args.log = "bad"  -> {"EXEC", "SCHEDULER"}
    [] OTHER -> {}

\* activateClass() throws for an unknown class, and nobody catches it.
SetLogClasses ==
  /\ At("SetLogClasses")
  /\ IF KnownClasses(LogNames) THEN Continue ELSE Ends("aborted")
  /\ logging' = ActivateClasses(logging, LogNames)
  /\ UNCHANGED <<inputs, live, deleted, outputs, scc>>

CheckUtilisations ==
  /\ At("CheckUtilisations")
  /\ IF args.utilisations = "bad" THEN InitialisationFails ELSE Continue
  /\ UNCHANGED <<inputs, live, deleted, outputs, scc, logging>>

CheckNTasksets ==
  /\ At("CheckNTasksets")
  /\ IF args.ntasksets = "bad" THEN InitialisationFails ELSE Continue
  /\ UNCHANGED <<inputs, live, deleted, outputs, scc, logging>>
-----------------------------------------------------------------------------
(* The steps of main()                                                     *)

Objects == Head(todo).on

Create ==
  /\ At("Create")
  /\ live' = live \cup Objects /\ Continue
  /\ UNCHANGED <<inputs, deleted, outputs, scc, logging>>

\* A result file is opened with trunc.
Open ==
  /\ At("Open")
  /\ opened' = opened \cup Objects /\ live' = live \cup Objects /\ Continue
  /\ UNCHANGED <<inputs, deleted, closed, done, scc, logging>>

\* A pointer that is NULL or dangling is dereferenced.
Use ==
  /\ At("Use")
  /\ IF Objects \subseteq live THEN Continue ELSE Ends("crashed")
  /\ UNCHANGED <<inputs, live, deleted, outputs, scc, logging>>

RandMax == 2 ^ (IntBits - 1) - 1

\* How drawing a number from a range ends: produceInt() and IntervalPeriodGenerator
\* assert min < max, and divide by RAND_MAX / len, which is 0 for a range that is
\* larger than RAND_MAX.
DrawnFrom(min, max) ==
  CASE min >= max -> "aborted"
    [] max - min + 1 > RandMax -> "crashed"
    [] OTHER -> "running"

\* The assertions of getIntervalRand()
IntervalRand(min, max) == min < max /\ max - min + 1 <= RandMax

Number(key) == GetUInt(ReadConfig(gcfgFile), key, IntBits)

PeriodsDrawn == DrawnFrom(Number("minPeriod"), Number("maxPeriod"))

\* With --restrict-periods, and in prseedsearch, the periods are those of a
\* GmPeriodGenerator.
RestrictedPeriods == Given("restrictPeriods") \/ program = "prseedsearch"

\* How drawing the tasks may end: a period, k, m from 1 to k, and the weight.
\* checkGCfg() has only seen that there are numbers.  They are drawn again until they are
\* near the utilisation, which they may never be.
TasksDrawn ==
  LET ends  == << IF RestrictedPeriods THEN "running" ELSE PeriodsDrawn,
                  DrawnFrom(Number("minK"), Number("maxK")),
                  DrawnFrom(1, Number("maxWC")) >>
      first == Min({i \in DOMAIN ends : ends[i] # "running"} \cup {Len(ends)})
  IN  {ends[first]}
        \cup (IF Number("minK") <= 1 /\ first = 3 THEN {"aborted"} ELSE {})
        \cup (IF ends[first] = "running" THEN {"looping"} ELSE {})

\* The same for TsTaskSet: weights, until the response times are short enough, and then the
\* matrix, in which a consumer needs a row of its own.  A row of all columns is the only
\* one of its kind, and none can be drawn from one.
TsTasksDrawn ==
  LET rows    == Number("numberOfProducers")
      columns == Number("numberOfConsumers")
      most    == Number("maxConsumerInputs")
      RowDrawn(sum) == IntervalRand(0, MatrixBinomial(columns, sum) - 1)
      matrix  ==
        IF ~ValidParameters(rows, columns, most) \/ columns > rows \/ ~IntervalRand(1, most)
        THEN {"aborted"}
        ELSE {"running"} \cup IF \E sum \in 1 .. most : ~RowDrawn(sum) THEN {"aborted"} ELSE {}
  IN  IF rows + columns = 0 THEN IF most = 0 THEN {"running"} ELSE {"aborted"}
      ELSE IF ~IntervalRand(1, Number("maxWC")) THEN {"aborted"}
      ELSE {"looping"} \cup matrix

Drawn == IF program \in BoostPrograms THEN TasksDrawn ELSE TsTasksDrawn

\* Without a simulation thread MtRunner's run() returns with nothing done, while tseval
\* still generates its tasksets; tseval -S needs none.
Workless == Given("threads") /\ args.threads = "none" /\ ~Given("single")

\* A file that cannot be read leaves a program without tasks, one that cannot be opened
\* or written takes the results with it.
Unnoticed == \E o \in {"infile", "outfile", "prefix"} : Given(o) /\ args[o] = "bad"

CreatePeriodGenerator ==
  /\ At("CreatePeriodGenerator")
  /\ IF "gcfg" \notin live THEN Ends("crashed") /\ UNCHANGED live
     ELSE IF ~RestrictedPeriods /\ PeriodsDrawn = "aborted"
     THEN Ends("aborted") /\ UNCHANGED live
     ELSE Continue /\ live' = live \cup {"thePeriodGenerator"}
  /\ UNCHANGED <<inputs, deleted, outputs, scc, logging>>

Draw ==
  /\ At("Draw")
  /\ IF Workless /\ program \in BoostPrograms THEN Continue
     ELSE IF ~Objects \subseteq live THEN Ends("crashed")
     ELSE \E how \in Drawn : IF how = "running" THEN Continue ELSE Ends(how)
  /\ UNCHANGED <<inputs, live, deleted, outputs, scc, logging>>

\* Calculations that may never end: a search for seeds of which there are too few, a
\* search for breakdowns where late jobs are not cancelled and no allocator fails, and
\* finalise() of an MkEval with GDPA, which does not return a job it may not cancel.
MayNotEnd ==
  \/ program = "prseedsearch"
  \/ program = "bdexcsearch" /\ ~scc.dlMissCancellations
  \/ program \in {"mkeval", "mkrun", "mkrunXml"}
       /\ ~(scc.execCancellations /\ scc.dlMissCancellations)

Calculate ==
  /\ At("Calculate")
  /\ IF Objects \subseteq live
     THEN \/ Continue /\ done' = (~Workless /\ ~Unnoticed)
          \/ MayNotEnd /\ ~Workless /\ Ends("looping") /\ UNCHANGED done
     ELSE Ends("crashed") /\ UNCHANGED done
  /\ UNCHANGED <<inputs, live, deleted, opened, closed, scc, logging>>

\* The analysis of no tasks succeeds.
AnalyseResponseTimes ==
  /\ At("AnalyseResponseTimes")
  /\ rv' = IF args.infile = "heavy" THEN -2 ELSE rv
  /\ todo' = Tail(todo)
  /\ UNCHANGED <<inputs, status, live, deleted, outputs, scc, logging>>

RunIfWell ==
  /\ At("RunIfWell")
  /\ IF rv # 0
     THEN Continue /\ UNCHANGED <<live, deleted, done>>
     ELSE IF Objects \subseteq live
     THEN /\ Continue /\ done' = TRUE
          /\ live' = live \ {"tasks"} /\ deleted' = deleted \cup {"tasks"} \* ~Simulation
     ELSE Ends("crashed") /\ UNCHANGED <<live, deleted, done>>
  /\ UNCHANGED <<inputs, opened, closed, scc, logging>>

\* TasksetWriter's failure is only reported.
WriteTasks ==
  /\ At("WriteTasks")
  /\ Continue
  /\ UNCHANGED <<inputs, live, deleted, outputs, scc, logging>>

\* i % theNFiles
SpreadSeeds ==
  /\ At("SpreadSeeds")
  /\ IF args.files = "none"
     THEN Ends("crashed") /\ UNCHANGED done
     ELSE Continue /\ done' = TRUE
  /\ UNCHANGED <<inputs, live, deleted, opened, closed, scc, logging>>

\* logger::setClass((1 << verboseLevel) - 1), and verboseLevel is 0
ResetLogClasses ==
  /\ At("ResetLogClasses")
  /\ logging' = SetClass(0) /\ Continue
  /\ UNCHANGED <<inputs, live, deleted, outputs, scc>>

\* delete of NULL does nothing, of a dangling pointer it is an error.
Delete ==
  /\ At("Delete")
  /\ IF Objects \cap deleted = {} THEN Continue ELSE Ends("crashed")
  /\ live' = live \ Objects
  /\ deleted' = deleted \cup (Objects \cap live)
  /\ UNCHANGED <<inputs, outputs, scc, logging>>

\* close() and delete
Close ==
  /\ At("Close")
  /\ IF Objects \subseteq live THEN Continue ELSE Ends("crashed")
  /\ live' = live \ Objects /\ deleted' = deleted \cup (Objects \cap live)
  /\ closed' = closed \cup (Objects \cap live)
  /\ UNCHANGED <<inputs, opened, done, scc, logging>>

CloseLogfile ==
  /\ At("CloseLogfile")
  /\ closed' = opened /\ Continue
  /\ UNCHANGED <<inputs, live, deleted, opened, done, scc, logging>>

Return ==
  /\ status = "running" /\ todo = << >>
  /\ status' = "exited"
  /\ UNCHANGED <<inputs, rv, todo, live, deleted, outputs, scc, logging>>

\* SIGUSR1, which only mkdse and prseedsearch expect.  Before the registration it ends
\* the process; afterwards the handler reads what the threads write.
HandlerReads == [prseedsearch |-> {"seedsFound", "tids"}, mkdse |-> {"currentSim"}]

Signal ==
  /\ program \in DOMAIN HandlerReads /\ status \in {"starting", "running", "looping"}
  /\ IF "handler" \notin live THEN Ends("killed")
     ELSE /\ ~ HandlerReads[program] \subseteq live
          /\ Ends("crashed")
  /\ UNCHANGED <<inputs, live, deleted, outputs, scc, logging>>
-----------------------------------------------------------------------------
ProgramStep ==
  \/ ParseBoostOptions \/ ParseArgs
  \/ ReadGenConfig \/ ReadTsConfig \/ ReadEconf \/ ReadSeeds
  \/ FindAllocators \/ FindAllocator \/ ReadTasks \/ ReadTaskset \/ ReadTsTasks
  \/ SetLogClasses \/ CheckUtilisations \/ CheckNTasksets
  \/ Create \/ Open \/ Use \/ CreatePeriodGenerator \/ Draw \/ Calculate \/ AnalyseResponseTimes \/ RunIfWell
  \/ WriteTasks \/ SpreadSeeds \/ ResetLogClasses
  \/ Delete \/ Close \/ CloseLogfile \/ Return

ProgramsNext == ProgramStep \/ Signal

ProgramsSpec == ProgramsInit /\ [][ProgramsNext]_programVars
-----------------------------------------------------------------------------
(* Properties                                                              *)

Ended == status \in {"exited", "aborted", "crashed", "killed"}

DrawMayEnd(how) ==
  /\ program \in BoostPrograms /\ "gcfg" \in live
  /\ GeneratorKeys \subseteq DOMAIN ReadConfig(gcfgFile)
  /\ how \in TasksDrawn

\* Whatever the arguments and the files, a program neither uses an object that does not
\* exist nor deletes one twice, but for the cases in which the code asks for it: the
\* unchecked allocator of excrun and cexcrun, tsrun going on without tasks or with an
\* unknown producer, a remainder by no files, a range for the generator that is larger
\* than RAND_MAX, the option at the end of the line that
\* parseArgs() announces in a comment, and SIGUSR1 after prseedsearch's cleanup().
KnownCrash ==
  \/ program \in {"excrun", "cexcrun"} /\ args.allocators = "bad"
  \/ program = "tsrun" /\ args.infile \in {"bad", "orphan", Absent}
  \/ program = "genseeds" /\ args.files = "none"
  \/ DrawMayEnd("crashed")
  \/ program \notin BoostPrograms /\ args.line = "dangling"
  \/ program = "prseedsearch" /\ "seedsFound" \in deleted

NothingWildUsed ==
  /\ status = "crashed" => KnownCrash
  /\ live \cap deleted = {}

\* A program that ends has either left the result files of former runs alone or has
\* finished its own: they are truncated only when nothing can fail any more.  mkeval
\* opens them before it looks at the log classes, tseval's parser opens the file of -f,
\* a signal may come at any time, and a range from which the generator cannot draw is
\* not noticed before it tries.
ResultFilesWhole ==
  Ended => \/ opened = closed
           \/ status \in {"killed", "crashed"}
           \/ program = "mkeval" /\ args.log = "bad"
           \/ status = "aborted" /\ DrawMayEnd("aborted")
           \/ program = "tseval" /\ ~done

\* What the file says of a key: its last entry, for a file in which every line is
\* terminated
Says(file, key, value) ==
  /\ file.ended
  /\ \E i \in DOMAIN file.lines :
       /\ file.lines[i].kind = "entry" /\ file.lines[i].key = key
       /\ file.lines[i].value = value
       /\ \A j \in i + 1 .. Len(file.lines) : file.lines[j].key # key

Honoured ==
  program \in Simulators /\ Given("econf") =>
    \A key \in DOMAIN scc : \A value \in {0, 1} :
      Says(econfFile, key, value) => scc[key] = (value = 1)

\* A program that returns 0 has done what it was asked for, with the configuration the
\* file for -e states, and has printed the lines of the log classes of -l and no others.
\* It also returns 0: tms-sim after every failure and without log classes; the programs of
\* tseval when an option is missing or for --help; those that read tasks without noticing
\* that the file is unreadable; without threads; and when only the output could not be
\* written.
ToleratedFailure ==
  \/ program = "tmsSim" /\ (args.line # "whole" \/ ~Complete \/ Given("log"))
  \/ program \notin BoostPrograms /\ (args.line = "help" \/ ~Complete)
  \/ Workless \/ Unnoticed

ZeroMeansDone ==
  status = "exited" /\ rv = 0 =>
    (done /\ Honoured /\ (Given("log") => PrintsExactly(logging, LogNames)))
      \/ ToleratedFailure
=============================================================================
