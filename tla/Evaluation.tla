----------------------------- MODULE Evaluation -----------------------------
(***************************************************************************)
(* The evaluation programs that simulate tasksets in parallel, on the      *)
(* worker pool of MtRunner: mkeval/mkdse.cpp with its simulation sets,     *)
(* mkeval/bdexcsearch.cpp, mkeval/eval.cpp with mkeval.cpp, and the pool   *)
(* of tseval/tseval.cpp.                                                   *)
(*                                                                         *)
(* A simulation is named by the place of its seed, of its utilisation and  *)
(* of its allocator; whether it succeeds is part of the input.  A section  *)
(* under mgtLock, genLock or initLock is one action, a wait at genCond or  *)
(* initCond is a guard: what is waited for never becomes false again.      *)
(***************************************************************************)
EXTENDS MtRunner, UtilisationStatistics, Bitmap

CONSTANT Inputs  \* the command lines and what the simulations will find

Programs == {"mkdse", "mkbdexcsearch", "mkeval", "tseval"}

\* "sets" has, for each seed, a flag for each utilisation with U_mk <= 1: whether
\* the execution times are the same as at the previous one.  "passes" are the
\* simulations that succeed - for mkbdexcsearch, which has no limit, also at utilisations
\* with U_mk > 1, but not at all of them: where an allocator never fails, the search does
\* not end.  "sufficient" are the seeds whose taskset passes the sufficient test,
\* "utilisation" the utilisations of the tasksets.
ASSUME InputsAssumption ==
  \A in \in Inputs :
    /\ in.program \in Programs
    /\ in.allocators \in Seq(Nat) /\ in.allocators # << >>
    /\ in.sets \in Seq(Seq(BOOLEAN))
    /\ \A n \in DOMAIN in.sets : in.sets[n] # << >> /\ ~ in.sets[n][1]
    /\ in.passes \subseteq Nat \X Nat \X Nat /\ IsFiniteSet(in.passes)
    /\ in.sufficient \subseteq Nat
    /\ in.utilisation \in [DOMAIN in.sets -> Nat \ {0}]

VARIABLES
  input,
  registered,      \* how many simulation sets generateTaskset() has registered
  announced,       \* the generationFinished of mkdse
  initAt,          \* finishInitialisation: "waiting", "done", and "joined" by main
  nUtils, uMax,
  simulationSets, ctsToSs, mkSimToCts,  \* what mgtLock protects
  notified,        \* the bits in the finishedMaps of both classes
  finishedSims,
  currentSim,
  simulated,       \* what executeTaskset() has got a result for
  processing,      \* the result processResult() has in hand
  nSuccesses,
  written,         \* what has been logged, in order
  tally            \* the counters of mkeval

dseVars == <<registered, announced, initAt, nUtils, uMax, simulationSets, ctsToSs,
             mkSimToCts, notified, finishedSims, currentSim, nSuccesses>>
evalVars == <<input, dseVars, simulated, processing, written, tally>>

Is(program) == input.program = program

\* initialise(): each allocator is inserted before the first that is not less.
Sorted(allocators) ==
  LET Insert(sorted, a) ==
        LET less == Cardinality({i \in DOMAIN sorted : sorted[i] < a})
        IN  SubSeq(sorted, 1, less) \o <<a>> \o SubSeq(sorted, less + 1, Len(sorted))
  IN  FoldLeft(Insert, << >>, allocators)

theAllocators == Sorted(input.allocators)
NEvals == Len(input.allocators)
Evals == 1 .. NEvals
Seeds == DOMAIN input.sets

\* How long the lists are that generateTaskset() returns: mkdse returns all
\* simulations of a set, the others one piece of work.
PlanOf(in) ==
  [n \in DOMAIN in.sets |->
     IF in.program = "mkdse" THEN Len(in.sets[n]) * Len(in.allocators) ELSE 1]

\* The simulation a piece of work stands for in mkdse
SimOf(item) ==
  <<item[1], (item[2] - 1) \div NEvals + 1, ((item[2] - 1) % NEvals) + 1>>

\* What the tallies count up from: eval.cpp allocates a bucket for each combination
\* and clears the first nEvals only, so the others start with anything.
Buckets == 0 .. 2 ^ NEvals - 1
SchedBuckets == 0 .. 2 ^ (NEvals + 1) - 1

\* The counters of MkResults that depend on the (m,k)-constraints
NoResults == [mkfails |-> 0, mksuccs |-> 0]

CountResult(r, mkfail) ==
  IF mkfail THEN [r EXCEPT !.mkfails = @ + 1] ELSE [r EXCEPT !.mksuccs = @ + 1]

EvaluationInit ==
  /\ input \in Inputs
  /\ Init /\ plan = PlanOf(input)
  /\ registered = 0 /\ announced = FALSE
  /\ initAt = IF Is("mkdse") THEN "waiting" ELSE "joined"
  /\ nUtils = 0 /\ uMax = 0
  /\ simulationSets = {} /\ ctsToSs = << >> /\ mkSimToCts = << >>
  /\ notified = {} /\ finishedSims = 0
  /\ currentSim = [w \in Workers |-> Null]
  /\ simulated = {} /\ processing = Null
  /\ nSuccesses = [e \in Evals |-> 0]
  /\ written = << >>
  /\ \E junk \in IF Is("mkeval") THEN {0, 7} ELSE {0} :
       tally = [results |-> [e \in Evals |-> NoResults], schedTestPass |-> 0,
                successResults |-> [e \in Evals |-> NoResults],
                uStats |-> NoUtilisations,
                initial |-> [b \in SchedBuckets |-> IF b < NEvals THEN 0 ELSE junk],
                bucket  |-> [b \in Buckets |-> IF b < NEvals THEN 0 ELSE junk],
                schedBucket |-> [b \in SchedBuckets |-> IF b < NEvals THEN 0 ELSE junk]]
-----------------------------------------------------------------------------
(* MkDseSimulationSet, ConcreteMkTaskset and DummyConcreteMkTaskset *)

CtssOf(n) == {n} \X DOMAIN input.sets[n]
SimsOf(cts) == {<<cts[1], cts[2], e>> : e \in Evals}
SimsOfSet(n) == UNION {SimsOf(cts) : cts \in CtssOf(n)}

\* The simulation whose result a DummySimulation reports: that of the last taskset
\* with execution times of its own
Base(sim) ==
  LET same == input.sets[sim[1]]
  IN  <<sim[1], Max({u \in 1 .. sim[2] : u \in DOMAIN same => ~ same[u]}), sim[3]>>

Passes(sim) == <<sim[1], sim[2], theAllocators[sim[3]]>> \in input.passes

GetSuccess(sim) == Base(sim) \in simulated /\ Passes(Base(sim))

\* isFinished of both classes, with these bits set
CtsFinished(cts, bits) == SimsOf(cts) \subseteq bits

FinishedMap(n, bits) ==
  FoldSet(LAMBDA cts, map : SetBit(map, cts[2] - 1), NewBitmap(Len(input.sets[n])),
          CtssOf(n) \cap bits)

SetFinished(n, bits) == All(FinishedMap(n, bits))
-----------------------------------------------------------------------------
(* What is written about the results.  A row has, for each allocator, whether    *)
(* the simulation succeeded at each utilisation; a utilisation is its place.     *)

\* The loop for "first BD": the last success before the first failure; 0 for NULL
FirstBreakdown(row) ==
  LET Next1(best, u) == IF best = u - 1 /\ row[u] THEN u ELSE best
  IN  FoldLeft(Next1, 0, [u \in DOMAIN row |-> u])

\* "last BD": the loop does not stop at a failure.
LastBreakdown(row) ==
  LET Next1(best, u) == IF row[u] THEN u ELSE best
  IN  FoldLeft(Next1, 0, [u \in DOMAIN row |-> u])

\* The loop that lists the allocators with the highest breakdown utilisation; mkdse
\* passes over those that have none, mkbdexcsearch does not.
MaxList(breakdown, skipNone) ==
  LET Next1(best, e) ==
        IF skipNone /\ breakdown[e] = 0 THEN best
        ELSE IF breakdown[e] > best.u THEN [u |-> breakdown[e], list |-> <<e>>]
        ELSE IF breakdown[e] = best.u THEN [best EXCEPT !.list = Append(@, e)]
        ELSE best
  IN  FoldLeft(Next1, [u |-> 0, list |-> << >>], [e \in DOMAIN breakdown |-> e]).list

\* What writeDssLog and writeDssToGlobalLogs find when they are called
FoundOf(n) ==
  [seed |-> n, nUtils |-> nUtils,
   row |-> [e \in Evals |-> [u \in DOMAIN input.sets[n] |-> GetSuccess(<<n, u, e>>)]]]

\* The Bitmap of an allocator, in which the utilisations of the set are the first bits
SuccessMap(row, size) ==
  FoldSet(LAMBDA u, map : SetBit(map, u - 1), NewBitmap(size),
          {u \in DOMAIN row : row[u]})

\* The first allocator has the most significant bit.
Anomalies(first, last) ==
  MapThenSumSet(LAMBDA e : 2 ^ (NEvals - e), {e \in Evals : first[e] # last[e]})

\* ... and what they write of it
LogOf(found) ==
  LET row == found.row
      first == [e \in Evals |-> FirstBreakdown(row[e])]
      last  == [e \in Evals |-> LastBreakdown(row[e])]
  IN  [first |-> first, last |-> last,
       maxFirst |-> MaxList(first, TRUE), maxLast |-> MaxList(last, TRUE),
       anomalies |-> BitString(Anomalies(first, last), NEvals),
       maps |-> [e \in Evals |-> Str(SuccessMap(row[e], found.nUtils))]]

\* An allocator that was given twice has two places in the list but one in the results.
ResultPlace(e) == Max({d \in Evals : theAllocators[d] = theAllocators[e]})

\* No allocator succeeds at this utilisation of the seed any more.
AllFail(n) == Max({sim[2] : sim \in {s \in input.passes : s[1] = n}} \cup DOMAIN input.sets[n]) + 1

\* What one utilisation leaves of the allocators and writes into the results
SearchAt(n, u, previous) ==
  LET success == {e \in previous.left : Passes(Base(<<n, u, e>>))}
  IN  [left |-> success,
       data |-> [d \in Evals |-> IF d \in {ResultPlace(e) : e \in success} THEN u
                                ELSE previous.data[d]]]

NothingFound == [left |-> Evals, data |-> [e \in Evals |-> 0]]

\* Mutant: the search ends where mkdse ends, at the last utilisation with U_mk <= 1.
BreakdownSearchCapped(n) ==
  LET round[u \in 0 .. Len(input.sets[n])] ==
        IF u = 0 THEN NothingFound ELSE SearchAt(n, u, round[u - 1])
  IN  round[Len(input.sets[n])].data

\* simulate() of mkbdexcsearch: one utilisation after the other, until no allocator is
\* left, and on beyond U_mk = 1, where a GstSimulation may still succeed because it
\* compares only (m,k) states and not the jobs that are pending.
BreakdownSearch(n) ==
  LET round[u \in 0 .. AllFail(n)] ==
        IF u = 0 THEN NothingFound ELSE SearchAt(n, u, round[u - 1])
  IN  round[AllFail(n)].data
-----------------------------------------------------------------------------
(* Generation *)

\* generateTaskset() of mkdse under mgtLock
RegisterTaskset ==
  /\ Is("mkdse") /\ generatorAt = "generate"
  /\ registered = calls /\ calls < Len(input.sets)
  /\ LET n == registered + 1
     IN  /\ registered' = n
         /\ simulationSets' = simulationSets \cup {n}
         /\ ctsToSs' = [cts \in CtssOf(n) \cup DOMAIN ctsToSs |->
                          IF cts \in CtssOf(n) THEN n ELSE ctsToSs[cts]]
         /\ mkSimToCts' = [sim \in SimsOfSet(n) \cup DOMAIN mkSimToCts |->
                             IF sim \in SimsOfSet(n) THEN <<sim[1], sim[2]>>
                             ELSE mkSimToCts[sim]]
         /\ uMax' = Max({uMax, Len(input.sets[n])})
  /\ UNCHANGED <<vars, input, announced, initAt, nUtils, notified, finishedSims,
                 currentSim, nSuccesses, simulated, processing, written, tally>>

\* Mutant: the end is announced only after a seed has been taken.
AnnounceEndAfterSeed == calls < Len(input.sets) /\ calls + 1 >= Len(input.sets)

\* ... and under genLock: no seeds are left after this call.
AnnounceEnd == calls + 1 >= Len(input.sets)

\* The end of generateTaskset(), which returns the work
ReturnTaskset ==
  /\ Is("mkdse") /\ calls < Len(input.sets) => registered = calls + 1
  /\ Generate
  /\ announced' = (announced \/ (Is("mkdse") /\ AnnounceEnd))
  /\ UNCHANGED <<input, registered, initAt, nUtils, uMax, simulationSets, ctsToSs,
                 mkSimToCts, notified, finishedSims, currentSim, nSuccesses, simulated,
                 processing, written, tally>>

\* finishInitialisation, when genCond lets it go on
FinishInitialisation ==
  /\ initAt = "waiting" /\ announced
  /\ nUtils' = uMax
  /\ initAt' = "done"
  /\ UNCHANGED <<vars, input, registered, announced, uMax, simulationSets, ctsToSs,
                 mkSimToCts, notified, finishedSims, currentSim, nSuccesses, simulated,
                 processing, written, tally>>
-----------------------------------------------------------------------------
(* executeTaskset *)

StartSimulation(w) ==
  /\ Is("mkdse") /\ workerAt[w] = "work"
  /\ currentSim[w] # held[w] /\ SimOf(held[w]) \notin simulated
  /\ currentSim' = [currentSim EXCEPT ![w] = held[w]]
  /\ UNCHANGED <<vars, input, registered, announced, initAt, nUtils, uMax, simulationSets,
                 ctsToSs, mkSimToCts, notified, finishedSims, nSuccesses, simulated,
                 processing, written, tally>>

\* Mutant: the simulation stays the current one until the next begins.
ClearCurrentSimLater(w) == UNCHANGED currentSim

ClearCurrentSim(w) == currentSim' = [currentSim EXCEPT ![w] = Null]

FinishSimulation(w) ==
  /\ Is("mkdse") /\ workerAt[w] = "work"
  /\ currentSim[w] = held[w]
  /\ simulated' = simulated \cup {SimOf(held[w])}
  /\ ClearCurrentSim(w)
  /\ UNCHANGED <<vars, input, registered, announced, initAt, nUtils, uMax, simulationSets,
                 ctsToSs, mkSimToCts, notified, finishedSims, nSuccesses, processing,
                 written, tally>>

\* Outside mkdse the whole work function is one step.
PutResultOf(w) ==
  /\ ~ Is("tseval") /\ PutResult(w)
  /\ IF Is("mkdse")
     THEN SimOf(held[w]) \in simulated /\ UNCHANGED simulated
     ELSE simulated' = simulated \cup {held[w]}
  /\ UNCHANGED <<input, dseVars, processing, written, tally>>

\* simulatorThread of tseval writes its own log and returns nothing.
ExecuteTaskSet(w) ==
  /\ Is("tseval") /\ workerAt[w] = "work"
  /\ written' = Append(written, [seed |-> held[w][1]])
  /\ simulated' = simulated \cup {held[w]}
  /\ held' = [held EXCEPT ![w] = Null]
  /\ workerAt' = [workerAt EXCEPT ![w] = "get"]
  /\ UNCHANGED <<plan, generatorVars, workPool, resultPool, generationFinished,
                 workFinished, aggregatorAt, mainAt, aggregated, input, dseVars,
                 processing, tally>>
-----------------------------------------------------------------------------
(* processResult *)

TakeResult ==
  /\ ~ Is("tseval") /\ processing = Null
  /\ GetResult
  /\ processing' = IF aggregated' # aggregated THEN Last(aggregated') ELSE Null
  /\ UNCHANGED <<input, dseVars, simulated, written, tally>>

\* Mutant: the results do not wait for the end of the initialisation.
InitialisationAwaitedNot == TRUE

InitialisationAwaited == initAt # "waiting"

\* mkdse, under mgtLock: the simulation is struck off; the last one of a concrete
\* taskset strikes that off, and the last one of a set writes the logs and
\* deletes the set.
ProcessSimulation ==
  /\ Is("mkdse") /\ processing # Null /\ InitialisationAwaited
  /\ LET sim == SimOf(processing)
         cts == mkSimToCts[sim]
         n == ctsToSs[cts]
         bits == notified \cup {sim}
         ctsBits == IF CtsFinished(cts, bits) THEN bits \cup {cts} ELSE bits
         over == CtsFinished(cts, bits) /\ SetFinished(n, ctsBits)
         goneCtss == IF over THEN CtssOf(n) ELSE ctsBits \cap {cts}
         goneSims == IF over THEN SimsOfSet(n) ELSE {sim}
     IN  /\ mkSimToCts' = Restrict(mkSimToCts, DOMAIN mkSimToCts \ goneSims)
         /\ ctsToSs' = Restrict(ctsToSs, DOMAIN ctsToSs \ goneCtss)
         /\ IF over
            THEN /\ written' = Append(written, FoundOf(n))
                 /\ nSuccesses' = [e \in Evals |-> nSuccesses[e] +
                       Cardinality({u \in DOMAIN input.sets[n] : GetSuccess(<<n, u, e>>)})]
                 /\ simulationSets' = simulationSets \ {n}
                 /\ notified' = ctsBits \ (CtssOf(n) \cup SimsOfSet(n))
            ELSE notified' = ctsBits /\ UNCHANGED <<written, nSuccesses, simulationSets>>
  /\ finishedSims' = finishedSims + 1
  /\ processing' = Null
  /\ UNCHANGED <<vars, input, registered, announced, initAt, nUtils, uMax, currentSim,
                 simulated, tally>>

\* mkbdexcsearch, which writes the breakdowns of BreakdownSearch
ProcessBreakdowns ==
  /\ Is("mkbdexcsearch") /\ processing # Null
  /\ written' = Append(written, [seed |-> processing[1]])
  /\ processing' = Null
  /\ UNCHANGED <<vars, input, dseVars, simulated, tally>>

\* MkEval::runEval marks a simulation whose tasks' constraints were violated, in its run
\* or in finalise() afterwards
MkFail(n, e) == ~ Passes(<<n, 1, e>>)

\* MkEval::run: runEval sets the bit that says it was run whether the simulation failed
\* or not, so the branch for unfinished tasksets is never taken.
MkEval(n) ==
  [mkfail |-> [e \in Evals |-> MkFail(n, e)],
   successMap |-> MapThenSumSet(LAMBDA e : 2 ^ (e - 1), Evals)]

Bits(eval) == MapThenSumSet(LAMBDA e : IF eval.mkfail[e] THEN 0 ELSE 2 ^ (e - 1), Evals)

CountResults(counters, eval) ==
  [e \in Evals |-> CountResult(counters[e], eval.mkfail[e])]

\* mkeval: a bit for each allocator that kept the constraints makes the bucket
ProcessEval ==
  /\ Is("mkeval") /\ processing # Null
  /\ LET eval == MkEval(processing[1])
         n == processing[1]
         rb == Bits(eval)
         rsb == rb + (IF n \in input.sufficient THEN 2 ^ NEvals ELSE 0)
     IN  /\ eval.successMap = 2 ^ NEvals - 1
         /\ tally' = [tally EXCEPT
              !.results = CountResults(@, eval),
              !.successResults = IF rb = 2 ^ NEvals - 1 THEN CountResults(@, eval) ELSE @,
              !.schedTestPass = @ + (IF n \in input.sufficient THEN 1 ELSE 0),
              !.uStats = AddUtilisation(@, input.utilisation[n]),
              !.bucket = [@ EXCEPT ![rb] = @ + 1],
              !.schedBucket = [@ EXCEPT ![rsb] = @ + 1]]
         /\ written' = Append(written, [seed |-> n, rsb |-> rsb])
  /\ processing' = Null
  /\ UNCHANGED <<vars, input, dseVars, simulated>>

\* binString(), in which the highest bit is the first character
BinString(n, width) == [i \in 1 .. width |-> (n \div 2 ^ (width - i)) % 2]

\* printResults(): the line ==RSBI== names the columns - the sufficient test, then the
\* allocators from the last to the first -, the lines ==RSB== count the tasksets.
PrintResults ==
  [columns |-> Reverse(theAllocators),
   rsb  |-> [b \in SchedBuckets |->
               [digits |-> BinString(b, NEvals + 1), count |-> tally.schedBucket[b]]],
   stat |-> [e \in Evals |-> <<theAllocators[e], tally.results[e].mksuccs>>],
   succ |-> [e \in Evals |-> <<theAllocators[e], tally.successResults[e].mksuccs>>],
   util |-> Evaluate(tally.uStats)]

ProcessResult == ProcessSimulation \/ ProcessBreakdowns \/ ProcessEval
-----------------------------------------------------------------------------
(* The threads: those of the pool, finishInitialisation, and main *)

GenerationThread == ReturnTaskset \/ ((PutWork \/ FinishGeneration) /\ UNCHANGED evalVars)

\* generatorThread of tseval: as many tasksets as were asked for, then the end
TsevalGeneratorThread == Is("tseval") /\ GenerationThread

GeneratorThread ==
  \/ RegisterTaskset
  \/ ~ Is("tseval") /\ GenerationThread
  \/ TsevalGeneratorThread

WorkerThread(w) ==
  \/ GetWork(w) /\ UNCHANGED evalVars
  \/ StartSimulation(w) \/ FinishSimulation(w) \/ PutResultOf(w) \/ ExecuteTaskSet(w)

Wakes ==
  ((\E w \in Workers : WorkerWakes(w)) \/ AggregatorWakes) /\ UNCHANGED evalVars

AggregatorThread == TakeResult \/ ProcessResult

\* runMulti of tseval has no aggregator to join.
ReturnFromRunMulti ==
  /\ Is("tseval") /\ mainAt = "joinWorkers"
  /\ \A w \in Workers : workerAt[w] = "done"
  /\ mainAt' = "returned"
  /\ UNCHANGED <<plan, generatorVars, workPool, resultPool, held, generationFinished,
                 workFinished, workerAt, aggregatorAt, aggregated, evalVars>>

JoinInitialisation ==
  /\ mainAt = "returned" /\ initAt = "done"
  /\ initAt' = "joined"
  /\ UNCHANGED <<vars, input, registered, announced, nUtils, uMax, simulationSets, ctsToSs,
                 mkSimToCts, notified, finishedSims, currentSim, nSuccesses, simulated,
                 processing, written, tally>>

MainThread ==
  \/ JoinGenerator /\ UNCHANGED evalVars
  \/ ~ Is("tseval") /\ (FinishWork \/ JoinAggregator) /\ UNCHANGED evalVars
  \/ ReturnFromRunMulti \/ JoinInitialisation

EvaluationNext ==
  \/ GeneratorThread
  \/ \E w \in Workers : WorkerThread(w)
  \/ AggregatorThread \/ Wakes \/ FinishInitialisation \/ MainThread
  \/ Returned /\ initAt = "joined" /\ UNCHANGED evalVars

all == <<vars, evalVars>>

\* As for MtRunner; the threads of the programs do not starve each other either.
EvaluationSpec ==
  /\ EvaluationInit /\ [][EvaluationNext]_all
  /\ WF_all(GeneratorThread)
  /\ \A w \in Workers : WF_all(WorkerThread(w))
  /\ WF_all(AggregatorThread)
  /\ WF_all(FinishInitialisation)
  /\ WF_all(MainThread)
-----------------------------------------------------------------------------
\* The signal handler of mkdse, which may run whenever mgtLock is free, finds for
\* each simulation that is being run its concrete taskset and the set of that,
\* and the set has not been deleted: at() does not throw, no pointer dangles.
SignalsFindSets ==
  \A w \in Workers : currentSim[w] # Null =>
    LET sim == SimOf(currentSim[w])
    IN  /\ sim \in DOMAIN mkSimToCts
        /\ mkSimToCts[sim] \in DOMAIN ctsToSs
        /\ ctsToSs[mkSimToCts[sim]] \in simulationSets

\* What the logs ought to say of a seed
FirstFailure(n, e) ==
  Min({u \in DOMAIN input.sets[n] : ~ Passes(Base(<<n, u, e>>))}
        \cup {Len(input.sets[n]) + 1})
Highest(n, e) == Max({u \in DOMAIN input.sets[n] : Passes(Base(<<n, u, e>>))} \cup {0})
Best(breakdown) == {e \in DOMAIN breakdown : \A d \in DOMAIN breakdown :
                                               breakdown[d] <= breakdown[e]}

\* A set of mkdse is logged when nUtils is known and covers it (the assertion of
\* writeDssToGlobalLogs), and when all its results are in: the breakdowns, the
\* lists of the best allocators, the anomalies and the maps are right - the maps but
\* for the last word, which is left out when the utilisations fill it.
DseLogRight(found) ==
  LET n == found.seed
      log == LogOf(found)
  IN  /\ Len(input.sets[n]) <= found.nUtils
      /\ \A e \in Evals :
           /\ log.first[e] = FirstFailure(n, e) - 1
           /\ log.last[e] = Highest(n, e)
           /\ log.anomalies[e] = 1 <=> \E u, v \in DOMAIN input.sets[n] :
                u < v /\ Passes(Base(<<n, v, e>>)) /\ ~ Passes(Base(<<n, u, e>>))
           /\ DOMAIN log.maps[e] =
                1 .. found.nUtils - (IF found.nUtils % ElemSize = 0 THEN ElemSize ELSE 0)
           /\ \A u \in DOMAIN log.maps[e] : log.maps[e][u] <=>
                u \in DOMAIN input.sets[n] /\ Passes(Base(<<n, u, e>>))
      /\ Range(log.maxFirst) = {e \in Best(log.first) : log.first[e] > 0}
      /\ Range(log.maxLast) = {e \in Best(log.last) : log.last[e] > 0}

\* mkbdexcsearch finds, for each allocator, the last utilisation before its first
\* failure, beyond U_mk = 1 too: what mkdse, which stops there, logs as the first
\* breakdown is the smaller of that and of its last utilisation.  An allocator given
\* twice has its result at its last place, and the list of the best is complete.
SearchLogRight(n) ==
  LET found == BreakdownSearch(n)
      DseRow(e) == [u \in DOMAIN input.sets[n] |-> Passes(Base(<<n, u, e>>))]
      Given(e)  == {d \in Evals : theAllocators[d] = theAllocators[e]}
  IN  /\ \A e \in Evals :
           IF \E d \in Given(e) : d > e THEN found[e] = 0
           ELSE /\ \A u \in 1 .. found[e] : Passes(Base(<<n, u, e>>))
                /\ ~ Passes(Base(<<n, found[e] + 1, e>>))
                /\ FirstBreakdown(DseRow(e)) = Min({found[e], Len(input.sets[n])})
      /\ Range(MaxList(found, FALSE)) = Best(found)

\* A row of the printed table counts the tasksets that its digits describe, read with
\* the names of the columns.
TableRowRight(printed, b) ==
  LET row == printed.rsb[b]
      Described(n) ==
        /\ row.digits[1] = 1 <=> n \in input.sufficient
        /\ \A c \in DOMAIN printed.columns :
             row.digits[c + 1] = 1 <=> <<n, 1, printed.columns[c]>> \in input.passes
  IN  row.count - tally.initial[b] = Cardinality({n \in Seeds : Described(n)})

\* The logs of all programs are right whenever they are written, and when the program
\* ends there is one for each seed, with nothing left over; the counters of mkdse
\* and mkeval agree with them.
LogsAreRight ==
  /\ \A i \in DOMAIN written :
       /\ Is("mkdse") => DseLogRight(written[i])
       /\ Is("mkbdexcsearch") => SearchLogRight(written[i].seed)
  /\ \A i, j \in DOMAIN written : written[i].seed = written[j].seed => i = j
  /\ mainAt = "returned" =>
       /\ {written[i].seed : i \in DOMAIN written} = Seeds
       /\ simulationSets = {} /\ ctsToSs = << >> /\ mkSimToCts = << >> /\ notified = {}
       /\ Is("mkdse") =>
            /\ finishedSims = Cardinality(UNION {SimsOfSet(n) : n \in Seeds})
            /\ \A e \in Evals : nSuccesses[e] =
                 Cardinality({cts \in UNION {CtssOf(n) : n \in Seeds} :
                                Passes(Base(Append(cts, e)))})
       /\ Is("mkeval") =>
            /\ \A e \in Evals :
                 /\ tally.results[e].mksuccs = MapThenSumSet(
                      LAMBDA b : tally.bucket[b] - tally.initial[b],
                      {b \in Buckets : (b \div 2 ^ (e - 1)) % 2 = 1})
                 /\ tally.results[e].mksuccs + tally.results[e].mkfails = Cardinality(Seeds)
                 /\ tally.successResults[e] = [mkfails |-> 0, mksuccs |->
                      tally.bucket[2 ^ NEvals - 1] - tally.initial[2 ^ NEvals - 1]]
            /\ tally.schedTestPass =
                 Cardinality({i \in DOMAIN written : written[i].rsb >= 2 ^ NEvals})
            /\ Evaluable(tally.uStats)
            /\ DescribesAll(PrintResults.util, Seeds, LAMBDA n : input.utilisation[n], 50)
            /\ \A b \in SchedBuckets : TableRowRight(PrintResults, b)

\* If each simulation or search ends, the programs do: the results of mkdse wait for the
\* initialisation, that for the generation, and main for all of them.
EvaluationReturns == <>(mainAt = "returned" /\ initAt = "joined")
=============================================================================
