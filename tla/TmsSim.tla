-------------------------------- MODULE TmsSim --------------------------------
(***************************************************************************)
(* tms-sim: main() reads a taskset and simulates a clone of each task with *)
(* each of the schedulers, one after the other: run() for the steps of -n, *)
(* finalise(), getResults().  Here is the simulation for one of them.      *)
(***************************************************************************)
EXTENDS Simulation, TaskModels

CONSTANT Files  \* what TasksetReader makes of a file: tasks and their classes

VARIABLE loaded \* the original taskset

CloneAll(file) == [t \in DOMAIN file |-> Clone(file[t].class, file[t].task)]

TmsSimInit ==
  /\ loaded \in Files
  /\ taskset = CloneAll(loaded)
  /\ Init

\* run() and then finalise(), whatever run() returned
TmsSimCall ==
  \/ mode = "none" /\ \E steps \in RunSteps : Run(steps)
  \/ mode = "run" /\ Finalise

TmsSimOver == mode = "finalise" /\ pc = "api" /\ UNCHANGED vars

TmsSimNext == (TmsSimCall \/ Step \/ TmsSimOver) /\ UNCHANGED loaded

TmsSimSpec == TmsSimInit /\ [][TmsSimNext]_<<vars, loaded>>
-----------------------------------------------------------------------------
\* What is simulated is what was read: ICloneable::clone returns a deep copy.
ClonesAreCopies == \A t \in Tasks : taskset[t] = loaded[t].task
===============================================================================
