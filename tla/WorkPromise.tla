----------------------------- MODULE WorkPromise -----------------------------
(***************************************************************************)
(* What utils/mtrunner.h and utils/mtlgrunner.h promise their callers:     *)
(* run() hands the result of every generated piece of work to the          *)
(* aggregation function, each once, and returns when all of them have been *)
(* aggregated.  A result is named by the work it belongs to.               *)
(***************************************************************************)
EXTENDS Sequences, SequencesExt

CONSTANT WorkSets   \* the sets of work that may have to be done

VARIABLES
  work,     \* all work of this run
  results,  \* the results that have been aggregated
  over      \* run() has returned

promiseVars == <<work, results, over>>

PromiseInit == work \in WorkSets /\ results = << >> /\ over = FALSE

Due == work \ Range(results)

Aggregate(item) ==
  /\ ~ over
  /\ results' = Append(results, item)
  /\ UNCHANGED <<work, over>>

Return ==
  /\ Due = {}
  /\ over' = TRUE
  /\ UNCHANGED <<work, results>>

PromiseNext == (\E item \in Due : Aggregate(item)) \/ Return

PromiseSpec == PromiseInit /\ [][PromiseNext]_promiseVars
=============================================================================
