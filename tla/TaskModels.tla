------------------------------ MODULE TaskModels ------------------------------
(***************************************************************************)
(* taskmodels/: what the constructors of the task classes set up, how a    *)
(* task is copied, and the allocators that make one class of another.  A   *)
(* task is the record that Simulation simulates; its (m,k) state is the    *)
(* sequence of the bits of a CompressedMkState, the least significant one  *)
(* first.  Only MkpTask's hooks use spin, as actSpin.                      *)
(***************************************************************************)
EXTENDS MkMonitor, Sequences, SequencesExt

\* Task::Task
NewTask(et, ct, prio) ==
  [model |-> "plain", first |-> 0, gaps |-> {}, et |-> et, ct |-> ct, prio |-> prio,
   m |-> 0, k |-> 0, init |-> << >>, spin |-> 0, relaxed |-> FALSE]

PeriodicTask(period, et, ct, offset, prio) ==
  [NewTask(et, ct, prio) EXCEPT !.first = offset, !.gaps = {period}]

\* getNextActivationOffset draws until a number is not below the probability; draws
\* bounds how often one is.
SporadicTask(minPeriod, et, ct, offset, prio, draws) ==
  [NewTask(et, ct, prio) EXCEPT !.first = offset, !.gaps = {minPeriod + i : i \in 0 .. draws}]

SPTask(period, et, ct, offset, prio, draws) ==
  [NewTask(et, ct, prio) EXCEPT !.first = offset, !.gaps = {i * period : i \in 1 .. draws + 1}]

MkTask(period, et, ct, prio, m, k, spin, is) ==
  [PeriodicTask(period, et, ct, 0, prio) EXCEPT
     !.model = "mk", !.m = m, !.k = k, !.spin = spin, !.init = is]

\* The initial state is passed where MkTask expects the rotation, so the monitor starts
\* with the default, successes only.
DbpTask(period, et, ct, prio, m, k, is) ==
  LET spin == MapThenSumSet(LAMBDA i : is[i] * 2 ^ (i - 1), 1 .. k)
  IN  [MkTask(period, et, ct, prio, m, k, spin, [i \in 1 .. k |-> 1]) EXCEPT !.model = "dbp"]

MkpTask(period, et, ct, prio, m, k, spin, useSpin, is, relaxed) ==
  [MkTask(period, et, ct, prio, m, k, IF useSpin THEN spin ELSE 0, is) EXCEPT
     !.model = "mkp", !.relaxed = relaxed]
-----------------------------------------------------------------------------
(* Copies: the copy constructors                                           *)

\* The offset is not copied.
CopyPeriodicTask(t) == [t EXCEPT !.first = 0]

\* getState() writes the oldest entry to the most significant bit, and the monitor's
\* constructor takes the least significant one for the oldest.
CopyState(t) ==
  Reverse(GetState(NewMonitor(t.k, [i \in 0 .. t.k - 1 |-> t.init[i + 1]]), t.k))

CopyMkTask(t) == [CopyPeriodicTask(t) EXCEPT !.init = CopyState(t)]

\* The allocators copy an MkTask.
MkTaskAllocator(t) == CopyMkTask(t)

DbpTaskAllocator(t) == [CopyMkTask(t) EXCEPT !.model = "dbp"]

\* useSpin is FALSE for the copy, and enableSpin sets actSpin.
MkpTaskAllocator(t) == [CopyMkTask(t) EXCEPT !.model = "mkp", !.spin = 0, !.relaxed = FALSE]
MkpTaskWithSpinAllocator(t) == [MkpTaskAllocator(t) EXCEPT !.spin = CopyMkTask(t).spin]
RelaxedMkpTaskAllocator(t) == [MkpTaskAllocator(t) EXCEPT !.relaxed = TRUE]
RelaxedMkpTaskWithSpinAllocator(t) == [MkpTaskWithSpinAllocator(t) EXCEPT !.relaxed = TRUE]
-----------------------------------------------------------------------------
(* Clones                                                                  *)

\* PeriodicTask::clone, which MkTask does not override
ClonePeriodicTask(t) ==
  [NewTask(t.et, t.ct, t.prio) EXCEPT !.gaps = t.gaps, !.first = CopyPeriodicTask(t).first]

CloneSporadicTask(t) == t
CloneSPTask(t) == t

\* clone(): virtual, by the class of the element a task was read from
Clone(class, t) ==
  CASE class \in {"periodictask", "mktask"} -> ClonePeriodicTask(t)
    [] class = "sporadictask" -> CloneSporadicTask(t)
    [] class = "sptask" -> CloneSPTask(t)
===============================================================================
