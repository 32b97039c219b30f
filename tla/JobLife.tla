------------------------------- MODULE JobLife -------------------------------
(***************************************************************************)
(* What core/scheduler.h promises of a job: once it has been enqueued it   *)
(* is handed back to the simulation, by a cancellation or by finishing,    *)
(* exactly once.  A job is named by its task and the number of jobs the    *)
(* task had activated before it.                                           *)
(***************************************************************************)
EXTENDS Integers, FiniteSets, FiniteSetTheorems, TLAPS

CONSTANT TaskCounts   \* the numbers of tasks a system may have

VARIABLES
  pending,    \* jobs that were enqueued and not handed back
  activated,  \* activated[t]: jobs of task t enqueued so far
  returned    \* returned[t]: jobs of task t handed back so far

lifeVars == <<pending, activated, returned>>

LifeInit ==
  \E n \in TaskCounts :
    /\ pending = {}
    /\ activated = [t \in 1 .. n |-> 0]
    /\ returned = [t \in 1 .. n |-> 0]

Enqueue(t) ==
  /\ pending' = pending \cup {<<t, activated[t]>>}
  /\ activated' = [activated EXCEPT ![t] = @ + 1]
  /\ UNCHANGED returned

Return(j) ==
  /\ pending' = pending \ {j}
  /\ returned' = [returned EXCEPT ![j[1]] = @ + 1]
  /\ UNCHANGED activated

LifeNext ==
  \/ \E t \in DOMAIN activated : Enqueue(t)
  \/ \E j \in pending : Return(j)

LifeSpec == LifeInit /\ [][LifeNext]_lifeVars

LifeTypeOK ==
  \E n \in TaskCounts :
    /\ activated \in [1 .. n -> Nat]
    /\ returned \in [1 .. n -> Nat]
    /\ pending \subseteq (1 .. n) \X Nat

PendingOf(t) == {j \in pending : j[1] = t}

\* No job is lost and none is handed back twice: per task, what was enqueued
\* is what came back and what is still pending.
Accounted ==
  \A t \in DOMAIN activated :
    /\ IsFiniteSet(PendingOf(t))
    /\ activated[t] = returned[t] + Cardinality(PendingOf(t))
-----------------------------------------------------------------------------
(* The promise keeps the books of activated, returned and pending jobs for  *)
(* any number of tasks.                                                     *)

\* A job that is pending has a number below its task's activation count, so
\* the next activation gets a name that is not in use.
Numbered == \A j \in pending : j[2] < activated[j[1]]

LifeInv == LifeTypeOK /\ Numbered /\ Accounted

\* A new system has no jobs, and its books are even.
LEMMA LifeInitInv == LifeInit => LifeInv
<1> SUFFICES ASSUME LifeInit PROVE LifeInv
  OBVIOUS
<1>1. PICK n \in TaskCounts : /\ pending = {}
                              /\ activated = [t \in 1 .. n |-> 0]
                              /\ returned = [t \in 1 .. n |-> 0]
  BY DEF LifeInit
<1>2. LifeTypeOK
  BY <1>1 DEF LifeTypeOK
<1>3. \A t : PendingOf(t) = {}
  BY <1>1 DEF PendingOf
<1>4. Accounted
  BY <1>1, <1>3, FS_EmptySet DEF Accounted
<1> QED
  BY <1>1, <1>2, <1>4 DEF LifeInv, Numbered

\* Enqueueing keeps the books: the new job's name is fresh, so its task has one
\* pending job more.
LEMMA EnqueueInv ==
  ASSUME LifeInv, NEW t \in DOMAIN activated, Enqueue(t)
  PROVE  LifeInv'
<1> DEFINE new == <<t, activated[t]>>
<1>1. PICK n \in TaskCounts : /\ activated \in [1 .. n -> Nat]
                              /\ returned \in [1 .. n -> Nat]
                              /\ pending \subseteq (1 .. n) \X Nat
  BY DEF LifeInv, LifeTypeOK
<1>2. /\ t \in 1 .. n
      /\ activated' = [activated EXCEPT ![t] = activated[t] + 1]
      /\ pending' = pending \cup {new}
      /\ returned' = returned
  BY <1>1 DEF Enqueue
<1>3. LifeTypeOK'
  <2>1. activated' \in [1 .. n -> Nat]
    BY <1>1, <1>2
  <2>2. pending' \subseteq (1 .. n) \X Nat
    BY <1>1, <1>2
  <2> QED
    BY <1>1, <1>2, <2>1, <2>2 DEF LifeTypeOK
<1>4. new \notin pending
  BY <1>1, <1>2 DEF LifeInv, Numbered
<1>5. Numbered'
  BY <1>1, <1>2 DEF LifeInv, Numbered
<1>6. Accounted'
  <2> SUFFICES ASSUME NEW u \in 1 .. n
               PROVE  /\ IsFiniteSet(PendingOf(u)')
                      /\ activated'[u] = returned'[u] + Cardinality(PendingOf(u)')
    BY <1>1, <1>2 DEF Accounted, PendingOf
  <2>1. IsFiniteSet(PendingOf(u)) /\ activated[u] = returned[u] + Cardinality(PendingOf(u))
    BY <1>1 DEF LifeInv, Accounted
  <2>2. CASE u = t
    <3>1. PendingOf(u)' = PendingOf(u) \cup {new} /\ new \notin PendingOf(u)
      BY <1>2, <1>4, <2>2 DEF PendingOf
    <3>2. /\ IsFiniteSet(PendingOf(u)')
          /\ Cardinality(PendingOf(u)') = Cardinality(PendingOf(u)) + 1
      BY <2>1, <3>1, FS_AddElement
    <3>3. Cardinality(PendingOf(u)) \in Nat
      BY <2>1, FS_CardinalityType
    <3> QED
      BY <1>1, <1>2, <2>1, <2>2, <3>2, <3>3
  <2>3. CASE u # t
    <3>1. PendingOf(u)' = PendingOf(u)
      BY <1>2, <2>3 DEF PendingOf
    <3> QED
      BY <1>1, <1>2, <2>1, <2>3, <3>1
  <2> QED
    BY <2>2, <2>3
<1> QED
  BY <1>3, <1>5, <1>6 DEF LifeInv

\* Handing a job back keeps the books.
LEMMA ReturnInv ==
  ASSUME LifeInv, NEW j \in pending, Return(j)
  PROVE  LifeInv'
<1>1. PICK n \in TaskCounts : /\ activated \in [1 .. n -> Nat]
                              /\ returned \in [1 .. n -> Nat]
                              /\ pending \subseteq (1 .. n) \X Nat
  BY DEF LifeInv, LifeTypeOK
<1>2. /\ j[1] \in 1 .. n
      /\ activated' = activated
      /\ pending' = pending \ {j}
      /\ returned' = [returned EXCEPT ![j[1]] = returned[j[1]] + 1]
  BY <1>1 DEF Return
<1>3. LifeTypeOK'
  <2>1. returned' \in [1 .. n -> Nat]
    BY <1>1, <1>2
  <2> QED
    BY <1>1, <1>2, <2>1 DEF LifeTypeOK
<1>4. Numbered'
  BY <1>2 DEF LifeInv, Numbered
<1>5. Accounted'
  <2> SUFFICES ASSUME NEW u \in 1 .. n
               PROVE  /\ IsFiniteSet(PendingOf(u)')
                      /\ activated'[u] = returned'[u] + Cardinality(PendingOf(u)')
    BY <1>1, <1>2 DEF Accounted, PendingOf
  <2>1. IsFiniteSet(PendingOf(u)) /\ activated[u] = returned[u] + Cardinality(PendingOf(u))
    BY <1>1 DEF LifeInv, Accounted
  <2>2. CASE u = j[1]
    <3>1. PendingOf(u)' = PendingOf(u) \ {j} /\ j \in PendingOf(u)
      BY <1>2, <2>2 DEF PendingOf
    <3>2. /\ IsFiniteSet(PendingOf(u)')
          /\ Cardinality(PendingOf(u)') = Cardinality(PendingOf(u)) - 1
      BY <2>1, <3>1, FS_RemoveElement
    <3>3. Cardinality(PendingOf(u)) \in Nat
      BY <2>1, FS_CardinalityType
    <3> QED
      BY <1>1, <1>2, <2>1, <2>2, <3>2, <3>3
  <2>3. CASE u # j[1]
    <3>1. PendingOf(u)' = PendingOf(u)
      BY <1>2, <2>3 DEF PendingOf
    <3> QED
      BY <1>1, <1>2, <2>1, <2>3, <3>1
  <2> QED
    BY <2>2, <2>3
<1> QED
  BY <1>3, <1>4, <1>5 DEF LifeInv

\* In every behaviour in which each enqueued job is handed back at most once, per
\* task the enqueued jobs are the returned and the pending ones.
THEOREM LifeAccounted == LifeSpec => []Accounted
<1>1. LifeInv /\ [LifeNext]_lifeVars => LifeInv'
  <2> SUFFICES ASSUME LifeInv, [LifeNext]_lifeVars PROVE LifeInv'
    OBVIOUS
  <2>1. CASE \E t \in DOMAIN activated : Enqueue(t)
    BY <2>1, EnqueueInv
  <2>2. CASE \E j \in pending : Return(j)
    BY <2>2, ReturnInv
  <2>3. CASE UNCHANGED lifeVars
    BY <2>3 DEF lifeVars, LifeInv, LifeTypeOK, Numbered, Accounted, PendingOf
  <2> QED
    BY <2>1, <2>2, <2>3 DEF LifeNext
<1>2. LifeInv => Accounted
  BY DEF LifeInv
<1> QED
  BY LifeInitInv, <1>1, <1>2, PTL DEF LifeSpec
=============================================================================
