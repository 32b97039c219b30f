------------------------------ MODULE MtRunner ------------------------------
(***************************************************************************)
(* utils/mtrunner.h and utils/mtlgrunner.h: run() starts a generator, the  *)
(* workers and an aggregator, which hand work and results to each other    *)
(* through two pools, each with a mutex and a condition variable, and joins *)
(* them.  The two classes differ in the generation function only: that of  *)
(* MtLgRunner returns a list of work, that of MtRunner one piece, which is a *)
(* list of length one here; the empty list stands for NULL as well.        *)
(*                                                                         *)
(* Everything between lock and unlock is one action.  A wait gives the     *)
(* mutex up and is left by a notification or spuriously; either way the    *)
(* thread goes through its loop condition again.                           *)
(***************************************************************************)
EXTENDS Integers, Sequences, FiniteSets, SequencesExt

CONSTANTS
  Workers,  \* the worker threads, of which there is at least one
  Plans     \* the generation functions: lengths of the lists they return in turn

ASSUME WorkersAssumption == Workers # {} /\ IsFiniteSet(Workers)

ASSUME PlansAssumption == Plans \subseteq Seq(Nat)

VARIABLES
  plan,                \* the generation function of this run
  calls,               \* calls of the generation function so far
  batch,               \* what the generator still has to put into the pool
  workPool, resultPool,
  held,                \* the work each worker has in hand, or Null
  generationFinished, workFinished,
  generatorAt, workerAt, aggregatorAt, mainAt,  \* where each thread stands
  aggregated           \* history: the results in the order they were aggregated

generatorVars == <<calls, batch, generatorAt>>
vars == <<plan, generatorVars, workPool, resultPool, held, generationFinished,
          workFinished, workerAt, aggregatorAt, mainAt, aggregated>>

\* Work is named by the call that returned it and its place in that list; its
\* result, which is never NULL, has the same name.
Null == <<0, 0>>

\* The list the n-th call returns
ListOf(n) == IF n \in DOMAIN plan THEN [i \in 1 .. plan[n] |-> <<n, i>>] ELSE << >>

\* All work there will be: an empty list ends the generation.
WorkOf(p) ==
  UNION {{<<n, i>> : i \in 1 .. p[n]} :
           n \in {m \in DOMAIN p : \A l \in 1 .. m : p[l] > 0}}

Work == WorkOf(plan)

\* All threads have been started; what they have not done yet, they may do late.
Init ==
  /\ plan \in Plans
  /\ calls = 0 /\ batch = << >>
  /\ workPool = << >> /\ resultPool = << >>
  /\ held = [w \in Workers |-> Null]
  /\ generationFinished = FALSE /\ workFinished = FALSE
  /\ generatorAt = "generate"
  /\ workerAt = [w \in Workers |-> "get"]
  /\ aggregatorAt = "get"
  /\ mainAt = "joinGenerator"
  /\ aggregated = << >>

Waiting == {w \in Workers : workerAt[w] = "waiting"}

\* workCond.notify_one and notify_all: what workerAt can be afterwards
NotifyOne ==
  IF Waiting = {} THEN {workerAt}
  ELSE {[workerAt EXCEPT ![w] = "get"] : w \in Waiting}

NotifyAll == [w \in Workers |-> IF w \in Waiting THEN "get" ELSE workerAt[w]]

\* resultCond, on which the aggregator alone waits
NotifyAggregator == IF aggregatorAt = "waiting" THEN "get" ELSE aggregatorAt
-----------------------------------------------------------------------------
(* generationThread *)

Generate ==
  /\ generatorAt = "generate"
  /\ calls' = calls + 1
  /\ batch' = ListOf(calls')
  /\ generatorAt' = IF batch' = << >> THEN "finish" ELSE "put"
  /\ UNCHANGED <<plan, workPool, resultPool, held, generationFinished, workFinished,
                 workerAt, aggregatorAt, mainAt, aggregated>>

\* Mutant: nobody is notified of the new work.
PutWorkSilently ==
  /\ generatorAt = "put"
  /\ workPool' = Append(workPool, Head(batch))
  /\ batch' = Tail(batch)
  /\ generatorAt' = IF batch' = << >> THEN "generate" ELSE "put"
  /\ UNCHANGED <<plan, calls, resultPool, held, generationFinished, workFinished,
                 workerAt, aggregatorAt, mainAt, aggregated>>

PutWork ==
  /\ generatorAt = "put"
  /\ workPool' = Append(workPool, Head(batch))
  /\ workerAt' \in NotifyOne
  /\ batch' = Tail(batch)
  /\ generatorAt' = IF batch' = << >> THEN "generate" ELSE "put"
  /\ UNCHANGED <<plan, calls, resultPool, held, generationFinished, workFinished,
                 aggregatorAt, mainAt, aggregated>>

\* Mutant: notify_one for notify_all.
FinishGenerationWakesOne ==
  /\ generatorAt = "finish"
  /\ generationFinished' = TRUE
  /\ workerAt' \in NotifyOne
  /\ generatorAt' = "done"
  /\ UNCHANGED <<plan, calls, batch, workPool, resultPool, held, workFinished,
                 aggregatorAt, mainAt, aggregated>>

FinishGeneration ==
  /\ generatorAt = "finish"
  /\ generationFinished' = TRUE
  /\ workerAt' = NotifyAll
  /\ generatorAt' = "done"
  /\ UNCHANGED <<plan, calls, batch, workPool, resultPool, held, workFinished,
                 aggregatorAt, mainAt, aggregated>>

Generator == Generate \/ PutWork \/ FinishGeneration
-----------------------------------------------------------------------------
(* workThread *)

\* Mutants: the newest work is taken; the work stays in the pool.
TakeWorkNewest(w) ==
  /\ held' = [held EXCEPT ![w] = Last(workPool)]
  /\ workPool' = Front(workPool)

TakeWorkShared(w) ==
  /\ held' = [held EXCEPT ![w] = Head(workPool)]
  /\ UNCHANGED workPool

TakeWork(w) ==
  /\ held' = [held EXCEPT ![w] = Head(workPool)]
  /\ workPool' = Tail(workPool)

\* getWork, from taking the mutex to giving it up
GetWork(w) ==
  /\ workerAt[w] = "get"
  /\ IF workPool # << >>
     THEN TakeWork(w) /\ workerAt' = [workerAt EXCEPT ![w] = "work"]
     ELSE /\ workerAt' = [workerAt EXCEPT ![w] =
                            IF generationFinished THEN "done" ELSE "waiting"]
          /\ UNCHANGED <<held, workPool>>
  /\ UNCHANGED <<plan, generatorVars, resultPool, generationFinished, workFinished,
                 aggregatorAt, mainAt, aggregated>>

\* The end of the work function, and putResult
PutResult(w) ==
  /\ workerAt[w] = "work"
  /\ resultPool' = Append(resultPool, held[w])
  /\ aggregatorAt' = NotifyAggregator
  /\ held' = [held EXCEPT ![w] = Null]
  /\ workerAt' = [workerAt EXCEPT ![w] = "get"]
  /\ UNCHANGED <<plan, generatorVars, workPool, generationFinished, workFinished,
                 mainAt, aggregated>>

\* workCond.wait returns without a notification.
WorkerWakes(w) ==
  /\ workerAt[w] = "waiting"
  /\ workerAt' = [workerAt EXCEPT ![w] = "get"]
  /\ UNCHANGED <<plan, generatorVars, workPool, resultPool, held, generationFinished,
                 workFinished, aggregatorAt, mainAt, aggregated>>

Worker(w) == GetWork(w) \/ PutResult(w)
-----------------------------------------------------------------------------
(* aggregationThread *)

\* Mutant: workFinished is looked at before the pool.
GetResultUnlessFinished ==
  /\ aggregatorAt = "get"
  /\ IF resultPool # << >> /\ ~ workFinished
     THEN /\ aggregated' = Append(aggregated, Head(resultPool))
          /\ resultPool' = Tail(resultPool)
          /\ UNCHANGED aggregatorAt
     ELSE /\ aggregatorAt' = IF workFinished THEN "done" ELSE "waiting"
          /\ UNCHANGED <<resultPool, aggregated>>
  /\ UNCHANGED <<plan, generatorVars, workPool, held, generationFinished,
                 workFinished, workerAt, mainAt>>

\* getResult, and the aggregation function
GetResult ==
  /\ aggregatorAt = "get"
  /\ IF resultPool # << >>
     THEN /\ aggregated' = Append(aggregated, Head(resultPool))
          /\ resultPool' = Tail(resultPool)
          /\ UNCHANGED aggregatorAt
     ELSE /\ aggregatorAt' = IF workFinished THEN "done" ELSE "waiting"
          /\ UNCHANGED <<resultPool, aggregated>>
  /\ UNCHANGED <<plan, generatorVars, workPool, held, generationFinished,
                 workFinished, workerAt, mainAt>>

\* resultCond.wait returns without a notification.
AggregatorWakes ==
  /\ aggregatorAt = "waiting"
  /\ aggregatorAt' = "get"
  /\ UNCHANGED <<plan, generatorVars, workPool, resultPool, held, generationFinished,
                 workFinished, workerAt, mainAt, aggregated>>
-----------------------------------------------------------------------------
(* The thread that called run() *)

JoinGenerator ==
  /\ mainAt = "joinGenerator"
  /\ generatorAt = "done"
  /\ mainAt' = "joinWorkers"
  /\ UNCHANGED <<plan, generatorVars, workPool, resultPool, held, generationFinished,
                 workFinished, workerAt, aggregatorAt, aggregated>>

\* Mutant: the workers are not waited for.
FinishWorkUnjoined ==
  /\ mainAt = "joinWorkers"
  /\ workFinished' = TRUE
  /\ aggregatorAt' = NotifyAggregator
  /\ mainAt' = "joinAggregator"
  /\ UNCHANGED <<plan, generatorVars, workPool, resultPool, held, generationFinished,
                 workerAt, aggregated>>

FinishWork ==
  /\ mainAt = "joinWorkers"
  /\ \A w \in Workers : workerAt[w] = "done"
  /\ workFinished' = TRUE
  /\ aggregatorAt' = NotifyAggregator
  /\ mainAt' = "joinAggregator"
  /\ UNCHANGED <<plan, generatorVars, workPool, resultPool, held, generationFinished,
                 workerAt, aggregated>>

JoinAggregator ==
  /\ mainAt = "joinAggregator"
  /\ aggregatorAt = "done"
  /\ mainAt' = "returned"
  /\ UNCHANGED <<plan, generatorVars, workPool, resultPool, held, generationFinished,
                 workFinished, workerAt, aggregatorAt, aggregated>>

Main == JoinGenerator \/ FinishWork \/ JoinAggregator

\* run() has returned.
Returned == mainAt = "returned" /\ UNCHANGED vars

Next ==
  \/ Generator
  \/ \E w \in Workers : Worker(w) \/ WorkerWakes(w)
  \/ GetResult \/ AggregatorWakes
  \/ Main \/ Returned

\* Every thread keeps running: the mutexes are held for a few statements only,
\* each thread takes them finitely often, and the work function returns.
Fairness ==
  /\ WF_vars(Generator)
  /\ \A w \in Workers : WF_vars(Worker(w))
  /\ WF_vars(GetResult)
  /\ WF_vars(Main)

Spec == Init /\ [][Next]_vars /\ Fairness
-----------------------------------------------------------------------------
\* Every item in a pool, a list or a hand is work that the generation function returns,
\* and every thread stands where its function has a place to stand.
TypeOK ==
  /\ plan \in Plans
  /\ calls \in 0 .. Len(plan) + 1
  /\ {batch, workPool, resultPool, aggregated} \subseteq Seq(Work)
  /\ held \in [Workers -> Work \cup {Null}]
  /\ {generationFinished, workFinished} \subseteq BOOLEAN
  /\ generatorAt \in {"generate", "put", "finish", "done"}
  /\ workerAt \in [Workers -> {"get", "waiting", "work", "done"}]
  /\ aggregatorAt \in {"get", "waiting", "done"}
  /\ mainAt \in {"joinGenerator", "joinWorkers", "joinAggregator", "returned"}

\* The work that the generation function has returned so far
Generated == {item \in Work : item[1] <= calls}

InHand == {held[w] : w \in Workers} \ {Null}

\* Work that was generated is in exactly one place - with the generator, in a
\* pool, with one worker, or aggregated - and only once there: nothing is lost on
\* the way, nothing is worked on twice.
WorkConserved ==
  LET lists == <<batch, workPool, resultPool, aggregated>>
  IN  /\ Generated = InHand \cup UNION {Range(lists[i]) : i \in 1 .. 4}
      /\ \A i \in 1 .. 4 :
           /\ IsInjective(lists[i])
           /\ Range(lists[i]) \cap InHand = {}
           /\ \A h \in 1 .. i - 1 : Range(lists[i]) \cap Range(lists[h]) = {}
      /\ \A v, w \in Workers : held[v] = held[w] /\ v # w => held[v] = Null

\* While there is something in a pool, or the end has been announced, somebody who
\* looks at it is not asleep: no notification comes too early or to nobody.
NoLostWakeup ==
  /\ workPool # << >> => \E w \in Workers : workerAt[w] \in {"get", "work"}
  /\ generationFinished => Waiting = {}
  /\ resultPool # << >> \/ workFinished => aggregatorAt # "waiting"

\* Results come in the order of the generation up to what the other workers have
\* in hand: a result overtakes fewer pieces of older work than there are workers.
Older(a, b) == a[1] < b[1] \/ (a[1] = b[1] /\ a[2] < b[2])

BoundedOvertaking ==
  LET results == aggregated \o resultPool
  IN  \A i \in DOMAIN results :
        LET before == {results[h] : h \in 1 .. i - 1}
        IN  Cardinality({item \in Work \ before : Older(item, results[i])})
              < Cardinality(Workers)

\* run() returns.
RunReturns == <>(mainAt = "returned")

\* run() keeps the promise of WorkPromise.
Promise == INSTANCE WorkPromise WITH
  WorkSets <- {WorkOf(p) : p \in Plans},
  work     <- Work,
  results  <- aggregated,
  over     <- mainAt = "returned"

ResultsAggregatedOnce == Promise!PromiseSpec
=============================================================================
