---------------------------- MODULE ProgramTables ----------------------------
(***************************************************************************)
(* What each of the programs does from main() to its end, as a sequence of *)
(* steps: the options it declares, the order in which initialise() looks   *)
(* at them, what main() creates, uses, opens and deletes, and what is done *)
(* after a failure.  Programs says what a step of each kind does.          *)
(***************************************************************************)
EXTENDS Sequences

Do(what) == [do |-> what, on |-> {}]
On(what, objects) == [do |-> what, on |-> objects]
-----------------------------------------------------------------------------
(* Options that decide something, and whether they are required            *)

MkevalOptions ==
  [config |-> "required", econf |-> "optional", allocators |-> "required",
   prefix |-> "required", log |-> "optional", threads |-> "optional"]

BdexcsearchOptions ==
  [config |-> "required", econf |-> "optional", allocators |-> "required",
   prefix |-> "required", log |-> "optional", threads |-> "optional",
   seedfile |-> "optional", restrictPeriods |-> "optional"]

MkdseOptions ==
  [config |-> "required", econf |-> "optional", allocators |-> "required",
   prefix |-> "required", log |-> "optional", threads |-> "optional",
   seedfile |-> "optional", restrictPeriods |-> "optional"]

MkrunOptions ==
  [config |-> "required", econf |-> "optional", allocators |-> "required",
   log |-> "optional", outfile |-> "optional"]

MkrunXmlOptions ==
  [infile |-> "required", econf |-> "optional", allocators |-> "required",
   log |-> "optional"]

ExcrunOptions ==
  [infile |-> "required", econf |-> "optional", allocators |-> "required",
   log |-> "optional"]

CexcrunOptions ==
  [infile |-> "required", econf |-> "optional", allocators |-> "required",
   log |-> "optional"]

ExtwriteOptions ==
  [config |-> "required", utilisations |-> "required", outfile |-> "required"]

MkwriteOptions == [config |-> "required", outfile |-> "required"]

MkcsCheckOptions == [infile |-> "required", log |-> "optional"]

TsprintOptions == [infile |-> "required"]

PrseedsearchOptions ==
  [config |-> "required", threads |-> "optional", outfile |-> "required"]

GenseedsOptions == [files |-> "optional"]

TmsSimOptions == [infile |-> "required", log |-> "optional"]

TsrunOptions == [infile |-> "required"]

TswriteOptions == [config |-> "required", outfile |-> "required"]

TsevalOptions ==
  [config |-> "required", threads |-> "optional", ntasksets |-> "optional",
   single |-> "optional", logfile |-> "optional"]
-----------------------------------------------------------------------------
(* initialise()                                                            *)

MkevalInitialise ==
  << Do("ReadGenConfig"), Do("ReadEconf"), Do("FindAllocators"),
     On("Create", {"results"}), On("Open", {"tsLogs", "taskSuccessLog"}),
     Do("SetLogClasses") >>

BdexcsearchInitialise ==
  << Do("ReadGenConfig"), Do("ReadEconf"), Do("ReadSeeds"), Do("FindAllocators"),
     Do("CreatePeriodGenerator"), Do("SetLogClasses"),
     On("Open", {"resultLog"}) >>

\* Mutant: the logs are opened before the allocators are looked up.
MkdseInitialiseEarly ==
  << Do("SetLogClasses"), Do("ReadGenConfig"), Do("ReadEconf"), Do("ReadSeeds"),
     On("Open", {"bdfLog", "bdlLog", "mapLog", "anLog"}),
     Do("FindAllocators"), On("Create", {"nSuccesses"}), Do("CreatePeriodGenerator"),
     On("Create", {"currentSim"}) >>

MkdseInitialise ==
  << Do("SetLogClasses"), Do("ReadGenConfig"), Do("ReadEconf"), Do("ReadSeeds"),
     Do("FindAllocators"), On("Create", {"nSuccesses"}), Do("CreatePeriodGenerator"),
     On("Open", {"bdfLog", "bdlLog", "mapLog", "anLog"}), On("Create", {"currentSim"}) >>

MkrunInitialise ==
  << Do("ReadGenConfig"), Do("ReadEconf"), Do("SetLogClasses"), Do("FindAllocators") >>

MkrunXmlInitialise ==
  << Do("ReadTasks"), Do("ReadEconf"), Do("SetLogClasses"), Do("FindAllocators") >>

ExcrunInitialise ==
  << Do("ReadTasks"), Do("ReadEconf"), Do("FindAllocator"), Do("SetLogClasses") >>

CexcrunInitialise ==
  << Do("ReadEconf"), Do("ReadTasks"), Do("FindAllocator"), Do("SetLogClasses") >>

ExtwriteInitialise == << Do("ReadGenConfig"), Do("CheckUtilisations") >>

MkwriteInitialise == << Do("ReadGenConfig") >>

MkcsCheckInitialise == << Do("ReadTasks"), Do("SetLogClasses") >>

TsprintInitialise == << Do("ReadTasks") >>

PrseedsearchInitialise == << Do("ReadGenConfig"), On("Open", {"seedFile"}) >>

TmsSimInitialise ==
  << On("Create", {"schedulers"}), Do("SetLogClasses"), Do("ReadTaskset") >>

TsrunInit == << Do("ReadTsTasks") >>

TswriteInit == << Do("ReadTsConfig") >>

TsevalInit == << Do("ReadTsConfig"), Do("CheckNTasksets") >>
-----------------------------------------------------------------------------
(* main() after initialise(), with the functions it calls                  *)

MkevalMain ==
  << On("Create", {"theSimulation"}), On("Draw", {"gcfg"}),
     On("Calculate", {"gcfg", "theSimulation", "results", "tsLogs", "taskSuccessLog"}) >>

MkevalCleanup ==
  << On("Delete", {"econf"}), On("Delete", {"gcfg"}),
     On("Close", {"tsLogs", "taskSuccessLog"}), On("Delete", {"results"}) >>

BdexcsearchMain ==
  << On("Create", {"theSimulation"}), On("Draw", {"gcfg", "thePeriodGenerator"}),
     On("Calculate", {"gcfg", "theSimulation", "thePeriodGenerator", "resultLog"}) >>

BdexcsearchCleanup ==
  << On("Delete", {"econf"}), On("Delete", {"gcfg"}), On("Close", {"resultLog"}),
     On("Delete", {"theSimulation"}), On("Delete", {"thePeriodGenerator"}) >>

MkdseMain ==
  << On("Create", {"handler"}), On("Create", {"theSimulation"}),
     On("Draw", {"gcfg", "thePeriodGenerator"}),
     On("Calculate", {"gcfg", "theSimulation", "thePeriodGenerator", "currentSim",
                      "bdfLog", "bdlLog", "mapLog", "anLog"}),
     On("Open", {"succLog"}), On("Use", {"nSuccesses"}), On("Close", {"succLog"}) >>

MkdseCleanup ==
  << On("Delete", {"econf"}), On("Delete", {"gcfg"}),
     On("Close", {"bdfLog", "bdlLog", "mapLog", "anLog"}),
     On("Delete", {"theSimulation"}), On("Delete", {"nSuccesses"}),
     On("Delete", {"thePeriodGenerator"}) >>

\* MkEval's destructor, which is never called, would delete the taskset too.
MkrunSimulation ==
  << On("Draw", {"gcfg"}), On("Create", {"mkts"}), Do("WriteTasks"),
     On("Create", {"eval"}), On("Calculate", {"mkts", "eval"}) >>

MkrunMain == MkrunSimulation \o << On("Delete", {"gcfg"}), On("Delete", {"econf"}) >>

\* The taskset is a local object: it is destroyed at the end, with the tasks of the
\* file, while eval keeps its address.
MkrunXmlMain ==
  << On("Create", {"mkts"}), On("Create", {"eval"}), On("Calculate", {"mkts", "eval"}),
     On("Delete", {"mkts", "mkTasks"}) >>

\* ~MkSimulation deletes the simulation, which deletes its tasks and its scheduler.
ExcrunMain ==
  << On("Use", {"theAllocator"}), On("Create", {"concreteTasks", "mksim"}),
     On("Calculate", {"mksim", "concreteTasks"}),
     On("Delete", {"mksim", "concreteTasks"}), On("Delete", {"econf"}) >>

\* Mutant: the simulation is deleted, and then its tasks.
CexcrunMainTwice ==
  << On("Use", {"theAllocator"}), On("Create", {"concreteTasks"}),
     On("Create", {"simulation"}), On("Calculate", {"simulation", "concreteTasks"}),
     On("Delete", {"simulation", "concreteTasks"}), On("Delete", {"concreteTasks"}),
     On("Delete", {"econf"}) >>

\* The simulation, which owns the tasks, is not deleted: the tasks are, one by one.
CexcrunMain ==
  << On("Use", {"theAllocator"}), On("Create", {"concreteTasks"}),
     On("Create", {"simulation"}), On("Calculate", {"simulation", "concreteTasks"}),
     On("Delete", {"concreteTasks"}), On("Delete", {"econf"}) >>

\* cleanup() is not called.
ExtwriteMain ==
  << On("Draw", {"gcfg"}), On("Create", {"ats"}), On("Create", {"mkts"}),
     On("Calculate", {"ats", "mkts"}), Do("WriteTasks"), On("Delete", {"ats"}) >>

\* main's own tasks hide the global ones, which cleanup() finds NULL.
MkwriteMain ==
  << On("Draw", {"gcfg"}), On("Create", {"ts"}), On("Calculate", {"ts"}),
     Do("WriteTasks"), On("Delete", {"gcfg"}), On("Delete", {"tasks"}) >>

MkcsCheckMain == << Do("Calculate") >>

TsprintMain == << Do("Calculate") >>

\* The threads run before the handler is registered.
PrseedsearchMain ==
  << On("Create", {"workers", "seedsFound", "tids"}), On("Create", {"handler"}),
     On("Draw", {"gcfg"}),
     On("Calculate", {"gcfg", "workers", "seedsFound", "tids", "seedFile"}) >>

PrseedsearchCleanup ==
  << On("Delete", {"workers"}), On("Delete", {"seedsFound"}), On("Delete", {"tids"}),
     On("Close", {"seedFile"}) >>

GenseedsMain ==
  << On("Open", {"outfiles"}), Do("SpreadSeeds"), On("Close", {"outfiles"}) >>

TmsSimMain ==
  << Do("ResetLogClasses"), On("Use", {"schedulers"}), On("Create", {"simulations"}),
     On("Calculate", {"simulations", "schedulers"}),
     On("Delete", {"simulations", "schedulers"}) >>

TmsSimCleanup == << On("Delete", {"tasks"}) >>

\* Neither the end of init() nor that of the analysis is waited for before the tasks
\* are printed.
TsrunMain ==
  << Do("AnalyseResponseTimes"), On("Use", {"tasks"}),
     On("RunIfWell", {"tasks", "producers"}) >>

\* TsTaskSet's destructor deletes its own tasks: getSimTasks() made others.
TswriteMain ==
  << On("Draw", {"gcfg"}), On("Create", {"ts"}), On("Create", {"tasks"}),
     On("Calculate", {"ts", "tasks"}), Do("WriteTasks"), On("Delete", {"ts"}) >>

TswriteCleanup == << On("Delete", {"gcfg"}), On("Delete", {"tasks"}) >>

TsevalMain == << On("Draw", {"gcfg"}), On("Calculate", {"gcfg"}), Do("CloseLogfile") >>
-----------------------------------------------------------------------------
Options ==
  [mkeval |-> MkevalOptions, bdexcsearch |-> BdexcsearchOptions, mkdse |-> MkdseOptions,
   mkrun |-> MkrunOptions, mkrunXml |-> MkrunXmlOptions, excrun |-> ExcrunOptions,
   cexcrun |-> CexcrunOptions, extwrite |-> ExtwriteOptions, mkwrite |-> MkwriteOptions,
   mkcsCheck |-> MkcsCheckOptions, tsprint |-> TsprintOptions,
   prseedsearch |-> PrseedsearchOptions, genseeds |-> GenseedsOptions,
   tmsSim |-> TmsSimOptions, tsrun |-> TsrunOptions, tswrite |-> TswriteOptions,
   tseval |-> TsevalOptions]

Initialise ==
  [mkeval |-> MkevalInitialise, bdexcsearch |-> BdexcsearchInitialise,
   mkdse |-> MkdseInitialise, mkrun |-> MkrunInitialise, mkrunXml |-> MkrunXmlInitialise,
   excrun |-> ExcrunInitialise, cexcrun |-> CexcrunInitialise,
   extwrite |-> ExtwriteInitialise, mkwrite |-> MkwriteInitialise,
   mkcsCheck |-> MkcsCheckInitialise, tsprint |-> TsprintInitialise,
   prseedsearch |-> PrseedsearchInitialise, genseeds |-> << >>,
   tmsSim |-> TmsSimInitialise, tsrun |-> TsrunInit, tswrite |-> TswriteInit,
   tseval |-> TsevalInit]

Main ==
  [mkeval |-> MkevalMain, bdexcsearch |-> BdexcsearchMain, mkdse |-> MkdseMain,
   mkrun |-> MkrunMain, mkrunXml |-> MkrunXmlMain, excrun |-> ExcrunMain,
   cexcrun |-> CexcrunMain, extwrite |-> ExtwriteMain, mkwrite |-> MkwriteMain,
   mkcsCheck |-> MkcsCheckMain, tsprint |-> TsprintMain,
   prseedsearch |-> PrseedsearchMain, genseeds |-> GenseedsMain, tmsSim |-> TmsSimMain,
   tsrun |-> TsrunMain, tswrite |-> TswriteMain, tseval |-> TsevalMain]

Cleanup ==
  [p \in DOMAIN Main |->
     CASE p = "mkeval" -> MkevalCleanup
       [] p = "bdexcsearch" -> BdexcsearchCleanup
       [] p = "mkdse" -> MkdseCleanup
       [] p = "prseedsearch" -> PrseedsearchCleanup
       [] p = "tmsSim" -> TmsSimCleanup
       [] p = "tswrite" -> TswriteCleanup
       [] OTHER -> << >>]
=============================================================================
