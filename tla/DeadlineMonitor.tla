--------------------------- MODULE DeadlineMonitor ---------------------------
(***************************************************************************)
(* core/deadlinemonitor.cpp: a list of jobs kept in the order of their     *)
(* latest start times.  A list is a sequence of job identifiers and L maps *)
(* every job that still exists to its latest start time.  The monitor      *)
(* stores pointers; an entry outside DOMAIN L points to a deleted job, and *)
(* comparing with it reads freed memory, so both outcomes are possible.    *)
(* Each operator returns the SET of lists the call can leave behind, which *)
(* has one element as long as every entry exists.                          *)
(***************************************************************************)
EXTENDS Integers, Sequences, SequencesExt

\* Mutant: "<" for "<=".
InsertPositionsStrict(list, j, key) ==
  { p \in 1 .. Len(list) + 1 :
      /\ \A i \in 1 .. p - 1 : list[i] \in DOMAIN key => key[list[i]] < key[j]
      /\ (p <= Len(list) /\ list[p] \in DOMAIN key) => key[list[p]] >= key[j] }

\* Where the loop "while (it != end && key(*it) <= key(job)) it++" can stop.
InsertPositions(list, j, key) ==
  { p \in 1 .. Len(list) + 1 :
      /\ \A i \in 1 .. p - 1 : list[i] \in DOMAIN key => key[list[i]] <= key[j]
      /\ (p <= Len(list) /\ list[p] \in DOMAIN key) => key[list[p]] > key[j] }

InsertByKey(list, j, key) ==
  { InsertAt(list, p, j) : p \in InsertPositions(list, j, key) }

\* DeadlineMonitor::addJob
AddJob(list, j, L) == InsertByKey(list, j, L)

\* Mutants: the test is one time unit off, either way.
CheckFiresLate(list, L, now) == list # <<>> /\ L[Head(list)] + 1 < now
CheckFiresEarly(list, L, now) == list # <<>> /\ L[Head(list)] <= now

\* DeadlineMonitor::check pops the first entry exactly when this holds.
CheckFires(list, L, now) == list # <<>> /\ L[Head(list)] < now

\* Mutant: the list is not reordered.
JobExecutedInPlace(list, j, L) == {list}

\* DeadlineMonitor::jobExecuted: the latest start time of j has grown, so j
\* moves towards the back, in front of the first later entry that is not smaller.
JobExecuted(list, j, L) ==
  IF \A i \in DOMAIN list : list[i] # j THEN {list}
  ELSE LET at   == CHOOSE i \in DOMAIN list :
                     list[i] = j /\ \A h \in 1 .. i - 1 : list[h] # j
           rest == RemoveAt(list, at)
           Fits(p) ==
             /\ \A i \in at .. p - 1 : rest[i] \in DOMAIN L => L[rest[i]] < L[j]
             /\ (p <= Len(rest) /\ rest[p] \in DOMAIN L) => L[rest[p]] >= L[j]
       IN  { InsertAt(rest, p, j) : p \in {q \in at .. Len(list) : Fits(q)} }

\* DeadlineMonitor::removeJob: the first entry of j, if there is one.
RemoveJob(list, j) == RemoveFirst(list, j)
=============================================================================
