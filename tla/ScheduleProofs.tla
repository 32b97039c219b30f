--------------------------- MODULE ScheduleProofs ---------------------------
(***************************************************************************)
(* More proofs about Simulation: the order of the schedule, the jobs that  *)
(* can no longer meet their deadlines, what an exit condition says of the  *)
(* (m,k) constraints, and where the time goes.  The order needs that       *)
(* doActivations looks at the tasks one after the other and that no step   *)
(* repeats its activations, although a call that ended early repeats the   *)
(* time.  The constraints need what (m,k) monitors, the jobs that are      *)
(* pending and the exit condition have to do with each other in the middle *)
(* of a step.  The time needs sums over finite sets, which come first.     *)
(* The end compares the ring of a monitor with the last outcomes of jobs.  *)
(***************************************************************************)
EXTENDS SimulationProofs, FiniteSetsExt, WellFoundedInduction

-----------------------------------------------------------------------------
(* Sums over finite sets.  MapThenSumSet is a fold over a set that is taken  *)
(* apart in the order of CHOOSE; here it is shown that the order does not    *)
(* matter, for the sum of the values of a function.  The induction is over   *)
(* the finite subsets of a set: one of them that is minimal among the        *)
(* exceptions to a statement contradicts it.                                 *)

Choice(s) == CHOOSE x \in s : TRUE

\* What MapThenSumSet computes, for every subset of S
SumsTo(g, f, S) ==
  g = [s \in SUBSET S |-> IF s = {} THEN 0 ELSE f[Choice(s)] + g[s \ {Choice(s)}]]

SumOf(f, S) == (CHOOSE g : SumsTo(g, f, S))[S]

LEMMA ChoiceIn ==
  ASSUME NEW s, s # {}
  PROVE  Choice(s) \in s
BY DEF Choice

\* Of a set of subsets, one has no strict subset that belongs to it, too.
LEMMA MinimalSubset ==
  ASSUME NEW S, IsFiniteSet(S), NEW T \in SUBSET (SUBSET S), T # {}
  PROVE  \E s \in T : \A r \in T : r \subseteq s => r = s
<1> DEFINE R == StrictSubsetOrdering(S)
<1>1. IsWellFoundedOn(R, FiniteSubsetsOf(S)) /\ FiniteSubsetsOf(S) = SUBSET S
  BY FS_StrictSubsetOrderingWellFounded, FS_FiniteSubsetsOfFinite
<1>2. PICK s \in T : \A r \in T : <<r, s>> \notin R
  <2> HIDE DEF R
  <2> QED
    BY <1>1, WFMin
<1>3. ASSUME NEW r \in T, r \subseteq s, r # s PROVE <<r, s>> \in R
  <2>1. r \in SUBSET S /\ s \in SUBSET S
    OBVIOUS
  <2> QED
    BY <1>3, <2>1 DEF StrictSubsetOrdering
<1>4. \A r \in T : r \subseteq s => r = s
  <2> HIDE DEF R
  <2> QED
    BY <1>2, <1>3
<1> HIDE DEF R
<1> QED
  BY <1>4

\* The sums are unique.
LEMMA SumsUnique ==
  ASSUME NEW S, IsFiniteSet(S), NEW f, NEW g, NEW h, SumsTo(g, f, S), SumsTo(h, f, S),
         NEW t \in SUBSET S
  PROVE  g[t] = h[t]
<1> DEFINE T == {s \in SUBSET S : g[s] # h[s]}
<1> SUFFICES ASSUME T # {} PROVE FALSE
  OBVIOUS
<1>0. T \in SUBSET (SUBSET S)
  OBVIOUS
<1>1. PICK s \in T : \A r \in T : r \subseteq s => r = s
  <2> HIDE DEF T
  <2> QED
    BY <1>0, MinimalSubset
<1>2. /\ g[s] = IF s = {} THEN 0 ELSE f[Choice(s)] + g[s \ {Choice(s)}]
      /\ h[s] = IF s = {} THEN 0 ELSE f[Choice(s)] + h[s \ {Choice(s)}]
  BY DEF SumsTo
<1>3. s # {} /\ g[s \ {Choice(s)}] # h[s \ {Choice(s)}]
  BY <1>1, <1>2
<1>4. s \ {Choice(s)} \in T
  BY <1>3
<1> QED
  BY <1>1, <1>3, <1>4, ChoiceIn

\* The sums over the subsets of a subset
LEMMA SumsRestrict ==
  ASSUME NEW S, NEW f, NEW g, SumsTo(g, f, S), NEW s \in SUBSET S
  PROVE  SumsTo([t \in SUBSET s |-> g[t]], f, s)
<1> DEFINE h == [t \in SUBSET s |-> g[t]]
<1>1. ASSUME NEW t \in SUBSET s
      PROVE  h[t] = IF t = {} THEN 0 ELSE f[Choice(t)] + h[t \ {Choice(t)}]
  <2>1. t \in SUBSET S /\ t \ {Choice(t)} \in SUBSET s
    OBVIOUS
  <2>2. g[t] = IF t = {} THEN 0 ELSE f[Choice(t)] + g[t \ {Choice(t)}]
    BY <2>1 DEF SumsTo
  <2> QED
    BY <2>1, <2>2
<1> QED
  BY <1>1 DEF SumsTo

LEMMA SumsExist ==
  ASSUME NEW S, IsFiniteSet(S), NEW f
  PROVE  \E g : SumsTo(g, f, S)
<1> DEFINE T == {s \in SUBSET S : \A g : ~ SumsTo(g, f, s)}
<1> SUFFICES ASSUME T # {} PROVE FALSE
  <2>1. S \notin T
    OBVIOUS
  <2> QED
    BY <2>1
<1>0. T \in SUBSET (SUBSET S)
  OBVIOUS
<1>1. PICK s \in T : \A r \in T : r \subseteq s => r = s
  <2> HIDE DEF T
  <2> QED
    BY <1>0, MinimalSubset
<1> DEFINE Sums(r) == CHOOSE g : SumsTo(g, f, r)
           total == [t \in SUBSET s |-> IF t = {} THEN 0
                       ELSE f[Choice(t)] + SumOf(f, t \ {Choice(t)})]
<1>2. ASSUME NEW r \in SUBSET s, r # s PROVE SumsTo(Sums(r), f, r) /\ IsFiniteSet(r)
  <2>1. \E g : SumsTo(g, f, r)
    BY <1>1, <1>2
  <2>2. SumsTo(Sums(r), f, r)
    BY <2>1
  <2> QED
    BY <2>2, FS_Subset
<1>3. ASSUME NEW r \in SUBSET s, r # s PROVE total[r] = SumOf(f, r)
  <2>1. SumOf(f, r) = Sums(r)[r]
    BY DEF SumOf
  <2>0. SumsTo(Sums(r), f, r)
    BY <1>2, <1>3
  <2>2. Sums(r)[r] = IF r = {} THEN 0 ELSE f[Choice(r)] + Sums(r)[r \ {Choice(r)}]
    <3> HIDE DEF Sums
    <3> QED
      BY <2>0 DEF SumsTo
  <2>3. CASE r = {}
    BY <2>1, <2>2, <2>3
  <2>4. CASE r # {}
    <3> DEFINE q == r \ {Choice(r)}
               h == [t \in SUBSET q |-> Sums(r)[t]]
    <3>1. q \in SUBSET r /\ q \in SUBSET s /\ q # s /\ SumsTo(Sums(r), f, r)
      BY <1>2, <1>3, <2>4, ChoiceIn
    <3>2. SumsTo(h, f, q)
      BY <3>1, SumsRestrict
    <3>3. SumsTo(Sums(q), f, q) /\ IsFiniteSet(q)
      BY <1>2, <3>1
    <3>4. h[q] = Sums(q)[q]
      <4> HIDE DEF h, q, Sums
      <4> QED
        BY <3>2, <3>3, SumsUnique
    <3>5. Sums(r)[q] = SumOf(f, q)
      BY <3>4 DEF SumOf
    <3> QED
      BY <2>1, <2>2, <2>4, <3>5
  <2> QED
    BY <2>3, <2>4
<1>4. ASSUME NEW t \in SUBSET s
      PROVE  total[t] = IF t = {} THEN 0 ELSE f[Choice(t)] + total[t \ {Choice(t)}]
  <2>1. CASE t = {}
    BY <2>1
  <2>2. CASE t # {}
    <3>1. t \ {Choice(t)} \in SUBSET s /\ t \ {Choice(t)} # s
      BY <2>2, ChoiceIn
    <3>2. total[t \ {Choice(t)}] = SumOf(f, t \ {Choice(t)})
      BY <1>3, <3>1
    <3> QED
      BY <2>2, <3>2
  <2> QED
    BY <2>1, <2>2
<1>5. SumsTo(total, f, s)
  <2>1. total = [t \in SUBSET s |->
                   IF t = {} THEN 0 ELSE f[Choice(t)] + total[t \ {Choice(t)}]]
    BY <1>4
  <2> HIDE DEF total
  <2> QED
    BY <2>1 DEF SumsTo
<1> QED
  BY <1>1, <1>5

LEMMA SumsAre ==
  ASSUME NEW S, IsFiniteSet(S), NEW f, NEW g, SumsTo(g, f, S)
  PROVE  g[S] = SumOf(f, S)
<1>1. SumsTo(CHOOSE h : SumsTo(h, f, S), f, S)
  OBVIOUS
<1> QED
  BY <1>1, SumsUnique DEF SumOf

LEMMA SumEmpty ==
  ASSUME NEW f
  PROVE  SumOf(f, {}) = 0
<1>1. PICK g : SumsTo(g, f, {})
  BY SumsExist, FS_EmptySet
<1>2. g[{}] = 0
  BY <1>1 DEF SumsTo
<1> QED
  BY <1>1, <1>2, SumsAre, FS_EmptySet

\* The element that is chosen may be taken out, ...
LEMMA SumChoice ==
  ASSUME NEW S, IsFiniteSet(S), NEW f, S # {}
  PROVE  SumOf(f, S) = f[Choice(S)] + SumOf(f, S \ {Choice(S)})
<1> DEFINE r == S \ {Choice(S)}
<1>1. PICK g : SumsTo(g, f, S)
  BY SumsExist
<1>2. g[S] = f[Choice(S)] + g[r]
  BY <1>1 DEF SumsTo
<1>3. SumsTo([t \in SUBSET r |-> g[t]], f, r)
  BY <1>1, SumsRestrict
<1>4. IsFiniteSet(r)
  BY FS_Subset
<1> HIDE DEF r
<1>5. [t \in SUBSET r |-> g[t]][r] = SumOf(f, r)
  BY <1>3, <1>4, SumsAre
<1>6. g[S] = SumOf(f, S)
  BY <1>1, SumsAre
<1> QED
  BY <1>2, <1>5, <1>6 DEF r

\* The sum of integers is one.
LEMMA SumType ==
  ASSUME NEW S, IsFiniteSet(S), NEW f, \A x \in S : f[x] \in Int, NEW t \in SUBSET S
  PROVE  SumOf(f, t) \in Int
<1> DEFINE T == {s \in SUBSET S : SumOf(f, s) \notin Int}
<1> SUFFICES ASSUME T # {} PROVE FALSE
  OBVIOUS
<1>0. T \in SUBSET (SUBSET S)
  OBVIOUS
<1>1. PICK s \in T : \A r \in T : r \subseteq s => r = s
  <2> HIDE DEF T
  <2> QED
    BY <1>0, MinimalSubset
<1>2. s # {} /\ IsFiniteSet(s)
  <2>1. SumOf(f, {}) \in Int
    BY SumEmpty
  <2> QED
    BY <2>1, FS_Subset
<1>3. Choice(s) \in s /\ SumOf(f, s) = f[Choice(s)] + SumOf(f, s \ {Choice(s)})
  BY <1>2, ChoiceIn, SumChoice
<1>4. SumOf(f, s \ {Choice(s)}) \in Int
  BY <1>1, <1>3
<1> QED
  BY <1>3, <1>4

\* ... and that of natural numbers a natural number.
LEMMA SumNat ==
  ASSUME NEW S, IsFiniteSet(S), NEW f, \A x \in S : f[x] \in Nat, NEW t \in SUBSET S
  PROVE  SumOf(f, t) \in Nat
<1> DEFINE T == {s \in SUBSET S : SumOf(f, s) \notin Nat}
<1> SUFFICES ASSUME T # {} PROVE FALSE
  OBVIOUS
<1>0. T \in SUBSET (SUBSET S)
  OBVIOUS
<1>1. PICK s \in T : \A r \in T : r \subseteq s => r = s
  <2> HIDE DEF T
  <2> QED
    BY <1>0, MinimalSubset
<1>2. s # {} /\ IsFiniteSet(s)
  <2>1. SumOf(f, {}) \in Nat
    BY SumEmpty
  <2> QED
    BY <2>1, FS_Subset
<1>3. Choice(s) \in s /\ SumOf(f, s) = f[Choice(s)] + SumOf(f, s \ {Choice(s)})
  BY <1>2, ChoiceIn, SumChoice
<1>4. SumOf(f, s \ {Choice(s)}) \in Nat
  BY <1>1, <1>3
<1> QED
  BY <1>3, <1>4

\* Not only the element that is chosen may be taken out, every one may.
LEMMA SumRemove ==
  ASSUME NEW S, IsFiniteSet(S), NEW f, \A x \in S : f[x] \in Int, NEW x \in S
  PROVE  SumOf(f, S) = f[x] + SumOf(f, S \ {x})
<1> DEFINE T == {s \in SUBSET S : \E y \in s : SumOf(f, s) # f[y] + SumOf(f, s \ {y})}
<1> SUFFICES ASSUME T # {} PROVE FALSE
  OBVIOUS
<1>0. T \in SUBSET (SUBSET S)
  OBVIOUS
<1>1. PICK s \in T : \A r \in T : r \subseteq s => r = s
  <2> HIDE DEF T
  <2> QED
    BY <1>0, MinimalSubset
<1>2. PICK y \in s : SumOf(f, s) # f[y] + SumOf(f, s \ {y})
  BY <1>1
<1> DEFINE c == Choice(s)
<1>3. c \in s /\ SumOf(f, s) = f[c] + SumOf(f, s \ {c})
  BY ChoiceIn, SumChoice, FS_Subset
<1> HIDE DEF c
<1>4. c # y
  BY <1>2, <1>3
<1>5. SumOf(f, s \ {c}) = f[y] + SumOf(f, (s \ {c}) \ {y})
  <2>1. s \ {c} \notin T /\ s \ {c} \in SUBSET S /\ y \in s \ {c}
    BY <1>1, <1>3, <1>4
  <2> QED
    BY <2>1
<1>6. SumOf(f, s \ {y}) = f[c] + SumOf(f, (s \ {y}) \ {c})
  <2>1. s \ {y} \notin T /\ s \ {y} \in SUBSET S /\ c \in s \ {y}
    BY <1>1, <1>3, <1>4
  <2> QED
    BY <2>1
<1>7. (s \ {c}) \ {y} = (s \ {y}) \ {c} /\ (s \ {c}) \ {y} \in SUBSET S
  OBVIOUS
<1> DEFINE rest == SumOf(f, (s \ {c}) \ {y})
<1>8. rest \in Int /\ f[c] \in Int /\ f[y] \in Int
  BY <1>3, <1>7, SumType
<1>9. SumOf(f, s) = f[c] + (f[y] + rest) /\ SumOf(f, s \ {y}) = f[c] + rest
  BY <1>3, <1>5, <1>6, <1>7
<1> HIDE DEF rest
<1> QED
  BY <1>2, <1>8, <1>9

\* Only the values on the set count.
LEMMA SumSame ==
  ASSUME NEW S, IsFiniteSet(S), NEW f, NEW h, \A x \in S : f[x] = h[x]
  PROVE  SumOf(f, S) = SumOf(h, S)
<1>1. PICK g : SumsTo(g, f, S)
  BY SumsExist
<1>2. \A s \in SUBSET S : s # {} => f[Choice(s)] = h[Choice(s)]
  BY ChoiceIn
<1>3. SumsTo(g, h, S)
  BY <1>1, <1>2 DEF SumsTo
<1> QED
  BY <1>1, <1>3, SumsAre

LEMMA SumOfZeros ==
  ASSUME NEW S, IsFiniteSet(S), NEW f, \A x \in S : f[x] = 0
  PROVE  SumOf(f, S) = 0
<1> DEFINE T == {s \in SUBSET S : SumOf(f, s) # 0}
<1> SUFFICES ASSUME T # {} PROVE FALSE
  OBVIOUS
<1>0. T \in SUBSET (SUBSET S)
  OBVIOUS
<1>1. PICK s \in T : \A r \in T : r \subseteq s => r = s
  <2> HIDE DEF T
  <2> QED
    BY <1>0, MinimalSubset
<1>2. s # {} /\ IsFiniteSet(s)
  <2>1. SumOf(f, {}) = 0
    BY SumEmpty
  <2> QED
    BY <2>1, FS_Subset
<1>3. Choice(s) \in s /\ SumOf(f, s) = f[Choice(s)] + SumOf(f, s \ {Choice(s)})
  BY <1>2, ChoiceIn, SumChoice
<1>4. SumOf(f, s \ {Choice(s)}) = 0
  BY <1>1, <1>3
<1> QED
  BY <1>3, <1>4

LEMMA SumOfOnes ==
  ASSUME NEW S, IsFiniteSet(S), NEW f, \A x \in S : f[x] = 1
  PROVE  SumOf(f, S) = Cardinality(S)
<1> DEFINE T == {s \in SUBSET S : SumOf(f, s) # Cardinality(s)}
<1> SUFFICES ASSUME T # {} PROVE FALSE
  OBVIOUS
<1>0. T \in SUBSET (SUBSET S)
  OBVIOUS
<1>1. PICK s \in T : \A r \in T : r \subseteq s => r = s
  <2> HIDE DEF T
  <2> QED
    BY <1>0, MinimalSubset
<1>2. s # {} /\ IsFiniteSet(s)
  <2>1. SumOf(f, {}) = Cardinality({})
    BY SumEmpty, FS_EmptySet
  <2> QED
    BY <2>1, FS_Subset
<1>3. Choice(s) \in s /\ SumOf(f, s) = f[Choice(s)] + SumOf(f, s \ {Choice(s)})
  BY <1>2, ChoiceIn, SumChoice
<1>4. SumOf(f, s \ {Choice(s)}) = Cardinality(s \ {Choice(s)})
  BY <1>1, <1>3
<1>5. Cardinality(s \ {Choice(s)}) = Cardinality(s) - 1 /\ Cardinality(s) \in Nat
  BY <1>2, <1>3, FS_RemoveElement, FS_CardinalityType
<1>6. f[Choice(s)] = 1
  BY <1>3
<1> QED
  BY <1>3, <1>4, <1>5, <1>6

\* One value changes.
LEMMA SumChange ==
  ASSUME NEW S, IsFiniteSet(S), NEW f, NEW h, NEW x \in S,
         \A y \in S : f[y] \in Int /\ h[y] \in Int,
         \A y \in S \ {x} : f[y] = h[y]
  PROVE  SumOf(h, S) = SumOf(f, S) + h[x] - f[x]
<1>1. IsFiniteSet(S \ {x})
  BY FS_Subset
<1>2. SumOf(f, S \ {x}) = SumOf(h, S \ {x})
  BY <1>1, SumSame
<1>3. SumOf(f, S \ {x}) \in Int
  BY SumType
<1>4. SumOf(f, S) = f[x] + SumOf(f, S \ {x}) /\ SumOf(h, S) = h[x] + SumOf(h, S \ {x})
  BY SumRemove
<1> QED
  BY <1>2, <1>3, <1>4
-----------------------------------------------------------------------------
(* Order, hopeless jobs and (m,k) constraints                               *)

\* Of the jobs that check() has named, only started ones are still there.
LateAreStarted ==
  config.dlMissCancellations =>
    \A j \in Range(execMissJobs) \cap DOMAIN job : MustStillExecute(j)

\* NoHopelessJob, in the phases of cancellation as well
NoHopelessLeft ==
  config.dlMissCancellations /\ pc \notin {"api", "initStep"} =>
    \A j \in Range(mySchedule) :
      \/ LatestStart(job)[j] >= now
      \/ MustStillExecute(j)
      \/ job[j].dl = now + taskset[j[1]].ct

Activation(j) == job[j].dl - taskset[j[1]].ct

\* A task is activated once in a step: at its turn, its older jobs are from earlier
\* steps.  No step is given up after its activations.
OneByOne ==
  /\ pc # "cancelSchedule"
  /\ cancelled # << >> => pc \in {"initStep", "cancelInit"}
  /\ pc # "activate" => index = 1
  /\ \A j \in Range(mySchedule) :
       /\ Activation(j) <= now
       /\ pc \in {"api", "initStep", "cancelInit"} => Activation(j) < now
       /\ pc = "activate" => Activation(j) < now \/ j[1] < index

OrderInv == LateAreStarted /\ NoHopelessLeft /\ OneByOne /\ ScheduleInPolicyOrder

\* The order of the schedule
Before(jobs, a, b) ==
  LET key == Key(jobs)
      activation(j) == jobs[j].dl - taskset[j[1]].ct
  IN  \/ key[a] < key[b]
      \/ key[a] = key[b] /\ activation(a) < activation(b)
      \/ key[a] = key[b] /\ activation(a) = activation(b) /\ a[1] < b[1]

LEMMA PolicyOrder ==
  ScheduleInPolicyOrder <=>
    \A i, h \in DOMAIN mySchedule : i < h => Before(job, mySchedule[i], mySchedule[h])
BY DEF ScheduleInPolicyOrder, Before

LEMMA PolicyOrderNext ==
  ASSUME config' = config, taskset' = taskset
  PROVE  ScheduleInPolicyOrder' <=>
           \A i, h \in DOMAIN mySchedule' :
             i < h => Before(job', mySchedule'[i], mySchedule'[h])
BY DEF ScheduleInPolicyOrder, Before, Key

-----------------------------------------------------------------------------
(* Steps that add no job                                                    *)

\* The entries of t are entries of s in the same order.
KeepsOrder(t, s) ==
  \A i, h \in DOMAIN t : i < h =>
    \E a, b \in DOMAIN s : a < b /\ s[a] = t[i] /\ s[b] = t[h]

LEMMA RemoveAtKeepsOrder ==
  ASSUME NEW S, NEW s \in Seq(S), NEW p \in 1 .. Len(s)
  PROVE  KeepsOrder(RemoveAt(s, p), s)
<1> DEFINE r == RemoveAt(s, p)
<1>1. /\ r \in Seq(S) /\ Len(r) = Len(s) - 1
      /\ \A i \in 1 .. Len(s) - 1 : r[i] = IF i < p THEN s[i] ELSE s[i + 1]
  BY RemoveAtEntries
<1> HIDE DEF r
<1>2. Len(s) \in Nat /\ DOMAIN s = 1 .. Len(s) /\ DOMAIN r = 1 .. Len(s) - 1
  BY <1>1, LenProperties
<1> SUFFICES ASSUME NEW i \in DOMAIN r, NEW h \in DOMAIN r, i < h
             PROVE  \E a, b \in DOMAIN s : a < b /\ s[a] = r[i] /\ s[b] = r[h]
  BY DEF KeepsOrder, r
<1> DEFINE a == IF i < p THEN i ELSE i + 1
           b == IF h < p THEN h ELSE h + 1
<1>3. a \in DOMAIN s /\ b \in DOMAIN s /\ a < b
  BY <1>2
<1>4. r[i] = s[a] /\ r[h] = s[b]
  BY <1>1, <1>2
<1> HIDE DEF a, b
<1> QED
  BY <1>3, <1>4

LEMMA TailKeepsOrder ==
  ASSUME NEW S, NEW s \in Seq(S), s # << >>
  PROVE  KeepsOrder(Tail(s), s)
<1> DEFINE r == Tail(s)
<1>1. /\ r \in Seq(S) /\ Len(r) = Len(s) - 1
      /\ \A i \in 1 .. Len(r) : r[i] = s[i + 1]
  BY HeadTailProperties
<1> HIDE DEF r
<1>2. Len(s) \in Nat /\ DOMAIN s = 1 .. Len(s) /\ DOMAIN r = 1 .. Len(s) - 1
  BY <1>1, LenProperties
<1> SUFFICES ASSUME NEW i \in DOMAIN r, NEW h \in DOMAIN r, i < h
             PROVE  \E a, b \in DOMAIN s : a < b /\ s[a] = r[i] /\ s[b] = r[h]
  BY DEF KeepsOrder, r
<1>3. i + 1 \in DOMAIN s /\ h + 1 \in DOMAIN s /\ i + 1 < h + 1
  BY <1>2
<1>4. r[i] = s[i + 1] /\ r[h] = s[h + 1]
  BY <1>1, <1>2
<1> QED
  BY <1>3, <1>4

LEMMA RemoveFirstKeepsOrder ==
  ASSUME NEW S, NEW s \in Seq(S), NEW e, IsInjective(s)
  PROVE  KeepsOrder(RemoveFirst(s, e), s)
<1>1. DOMAIN s = 1 .. Len(s) /\ Len(s) \in Nat
  BY LenProperties
<1>2. CASE \A i \in 1 .. Len(s) : s[i] # e
  <2>1. RemoveFirst(s, e) = s
    BY <1>2 DEF RemoveFirst
  <2> QED
    BY <2>1 DEF KeepsOrder
<1>3. CASE \E i \in 1 .. Len(s) : s[i] = e
  <2>1. PICK i \in 1 .. Len(s) : s[i] = e
    BY <1>3
  <2>2. {h \in 1 .. Len(s) : s[h] = e} = {i}
    BY <1>1, <2>1 DEF IsInjective
  <2>3. Min({i}) = i
    BY <2>1 DEF Min
  <2>4. SelectInSeq(s, LAMBDA v : v = e) = i
    BY <2>2, <2>3 DEF SelectInSeq
  <2>5. RemoveFirst(s, e) = RemoveAt(s, i)
    BY <1>3, <2>4 DEF RemoveFirst
  <2> QED
    BY <2>1, <2>5, RemoveAtKeepsOrder
<1> QED
  BY <1>2, <1>3

\* No job is new, and those that are kept have at most come closer to their end.
JobsKept ==
  /\ config' = config /\ taskset' = taskset
  /\ DOMAIN job' \subseteq DOMAIN job
  /\ \A j \in DOMAIN job' :
       /\ job'[j].dl = job[j].dl /\ job'[j].prio = job[j].prio
       /\ job'[j].et = job[j].et /\ job'[j].rem <= job[j].rem

LEMMA KeptInOrder ==
  ASSUME IInv, IInv', ScheduleInPolicyOrder, JobsKept, KeepsOrder(mySchedule', mySchedule)
  PROVE  ScheduleInPolicyOrder'
<1> SUFFICES ASSUME NEW i \in DOMAIN mySchedule', NEW h \in DOMAIN mySchedule', i < h
             PROVE  Before(job', mySchedule'[i], mySchedule'[h])
  BY PolicyOrderNext DEF JobsKept
<1>1. PICK a \in DOMAIN mySchedule, b \in DOMAIN mySchedule :
        a < b /\ mySchedule[a] = mySchedule'[i] /\ mySchedule[b] = mySchedule'[h]
  BY DEF KeepsOrder
<1>2. Before(job, mySchedule[a], mySchedule[b])
  BY <1>1, PolicyOrder
<1>3. mySchedule'[i] \in DOMAIN job' /\ mySchedule'[h] \in DOMAIN job'
  BY DEF IInv, SchedInv, JobsHeld, Range
<1>4. \A j \in DOMAIN job' :
        /\ j \in DOMAIN job
        /\ Key(job')[j] = Key(job)[j]
        /\ job'[j].dl = job[j].dl
  BY DEF JobsKept, Key
<1> QED
  BY <1>1, <1>2, <1>3, <1>4 DEF Before

\* The same of the two properties that speak of each job by itself
LEMMA KeptLate ==
  ASSUME IInv, IInv', LateAreStarted, JobsKept,
         execMissJobs' = execMissJobs
  PROVE  LateAreStarted'
<1> SUFFICES ASSUME config.dlMissCancellations,
                    NEW j \in Range(execMissJobs), j \in DOMAIN job'
             PROVE  MustStillExecute(j)'
  BY DEF LateAreStarted, JobsKept
<1>1. j \in DOMAIN job /\ MustStillExecute(j)
  BY DEF LateAreStarted, JobsKept
<1>2. job[j].rem < job[j].et /\ job'[j].et = job[j].et /\ job'[j].rem <= job[j].rem
  BY <1>1 DEF MustStillExecute, Started, JobsKept
<1>3. job[j].rem \in Nat /\ job[j].et \in Nat /\ job'[j].rem \in Nat
  BY <1>1 DEF IInv, TypeOK, JobRecord
<1> QED
  BY <1>1, <1>2, <1>3 DEF MustStillExecute, Started, JobsKept

\* Where nothing is inserted the order of a list is its own.
LEMMA SameKeepsOrder ==
  ASSUME NEW s
  PROVE  KeepsOrder(s, s)
BY DEF KeepsOrder

LEMMA QuietOrder ==
  ASSUME LateAreStarted, ScheduleInPolicyOrder,
         UNCHANGED <<config, taskset, job, mySchedule, execMissJobs>>
  PROVE  LateAreStarted' /\ ScheduleInPolicyOrder'
<1>1. LateAreStarted'
  BY DEF LateAreStarted, MustStillExecute, Started
<1>2. ScheduleInPolicyOrder'
  BY DEF ScheduleInPolicyOrder, Key
<1> QED
  BY <1>1, <1>2

\* Neither the start of a call nor the end of a phase changes the jobs.
LEMMA CallOrder ==
  ASSUME IInv, OrderInv, Call
  PROVE  OrderInv'
<1>1. /\ UNCHANGED <<config, taskset, job, mySchedule, execMissJobs, cancelled, now, index>>
      /\ pc = "api" /\ pc' \in {"api", "initStep"}
  BY DEF Call, Run, Finalise, FinaliseWith, fixed, sched
<1>2. LateAreStarted' /\ ScheduleInPolicyOrder'
  BY <1>1, QuietOrder DEF OrderInv
<1>3. NoHopelessLeft'
  BY <1>1 DEF NoHopelessLeft
<1>4. OneByOne'
  BY <1>1 DEF OrderInv, OneByOne, Activation
<1> QED
  BY <1>2, <1>3, <1>4 DEF OrderInv

\* When check() names no job, every watched one can still be in time, and the
\* others it has named before.
LEMMA NothingHopeless ==
  ASSUME IInv, OrderInv, ~ MissFound(now), config.dlMissCancellations,
         NEW j \in Range(mySchedule)
  PROVE  LatestStart(job)[j] >= now \/ MustStillExecute(j)
<1>1. dlmon \in Seq(JobIds) /\ now \in Nat /\ job \in [DOMAIN job -> JobRecord]
  BY DEF IInv, TypeOK
<1>2. j \in Range(dlmon) \/ j \in Range(execMissJobs) \cap DOMAIN job
  BY DEF IInv, SchedInv, MonitorCoversSchedule
<1>3. CASE j \in Range(execMissJobs) \cap DOMAIN job
  BY <1>3 DEF OrderInv, LateAreStarted
<1>4. CASE j \in Range(dlmon)
  <2>1. PICK i \in DOMAIN dlmon : dlmon[i] = j
    BY <1>4 DEF Range
  <2>2. DOMAIN dlmon = 1 .. Len(dlmon) /\ 1 \in DOMAIN dlmon /\ 1 <= i /\ dlmon # << >>
    BY <1>1, <2>1, LenProperties, EmptySeq
  <2>3. Range(dlmon) \subseteq DOMAIN job
    BY DEF IInv, SchedInv, MonitorCoversSchedule, JobsHeld
  <2>4. Head(dlmon) = dlmon[1] /\ dlmon[1] \in DOMAIN job /\ j \in DOMAIN job
    BY <1>1, <1>4, <2>2, <2>3 DEF Range
  <2>5. LatestStart(job)[dlmon[1]] <= LatestStart(job)[j]
    BY <2>1, <2>2 DEF IInv, SchedInv, MonitorSorted
  <2>6. ~ (LatestStart(job)[dlmon[1]] < now)
    BY <2>2, <2>4 DEF MissFound, CheckFires
  <2>7. LatestStart(job)[dlmon[1]] \in Int /\ LatestStart(job)[j] \in Int
    BY <1>1, <2>4 DEF LatestStart, JobRecord
  <2> QED
    BY <1>1, <2>5, <2>6, <2>7
<1> QED
  BY <1>2, <1>3, <1>4

LEMMA InitStepDoneOrder ==
  ASSUME IInv, OrderInv, InitStepDone
  PROVE  OrderInv'
<1>1. /\ UNCHANGED <<config, taskset, job, mySchedule, execMissJobs, cancelled, now, index>>
      /\ pc = "initStep" /\ ~ MissFound(now)
      /\ \/ pc' = "cancelInit"
         \/ pc' \in {"activate", "schedule"} /\ cancelled = << >>
  BY DEF InitStepDone, PerformCancellations, AfterInitStep, fixed, sched
<1>2. LateAreStarted' /\ ScheduleInPolicyOrder'
  BY <1>1, QuietOrder DEF OrderInv
<1>3. NoHopelessLeft'
  <2> SUFFICES ASSUME config.dlMissCancellations, NEW j \in Range(mySchedule)
               PROVE  LatestStart(job')[j] >= now \/ MustStillExecute(j)'
    BY <1>1 DEF NoHopelessLeft, LatestStart
  <2>1. LatestStart(job)[j] >= now \/ MustStillExecute(j)
    BY <1>1, NothingHopeless
  <2> QED
    BY <1>1, <2>1 DEF MustStillExecute, Started
<1>4. OneByOne'
  BY <1>1 DEF OrderInv, OneByOne, Activation
<1> QED
  BY <1>2, <1>3, <1>4 DEF OrderInv

LEMMA MissKeptOrder ==
  ASSUME IInv, OrderInv, MissKept
  PROVE  OrderInv'
<1> DEFINE h == Head(dlmon)
<1>1. /\ UNCHANGED <<config, taskset, job, mySchedule, cancelled, now, index, pc>>
      /\ pc = "initStep" /\ MissFound(now) /\ MustStillExecute(h)
      /\ execMissJobs' = Append(execMissJobs, h)
  BY DEF MissKept, KeepMissJob, fixed
<1>2. Range(execMissJobs') = Range(execMissJobs) \cup {h}
  <2>1. execMissJobs \in Seq(JobIds) /\ h \in JobIds
    BY <1>1, MissedJob DEF IInv, TypeOK
  <2> QED
    BY <1>1, <2>1, AppendRange
<1>3. LateAreStarted'
  BY <1>1, <1>2 DEF OrderInv, LateAreStarted, MustStillExecute, Started
<1>4. ScheduleInPolicyOrder'
  BY <1>1 DEF OrderInv, ScheduleInPolicyOrder, Key
<1>5. NoHopelessLeft' /\ OneByOne'
  BY <1>1 DEF OrderInv, NoHopelessLeft, OneByOne, Activation
<1> QED
  BY <1>3, <1>4, <1>5 DEF OrderInv

LEMMA MissDroppedOrder ==
  ASSUME IInv, IInv', OrderInv, MissDropped
  PROVE  OrderInv'
<1> DEFINE h == Head(dlmon)
<1>1. /\ UNCHANGED <<config, taskset, job, execMissJobs, now, index, pc>>
      /\ pc = "initStep"
      /\ mySchedule' = RemoveFirst(mySchedule, h)
  BY DEF MissDropped, DropMissJob, InternalRemoveJob, fixed
<1>2. mySchedule \in Seq(JobIds) /\ IsInjective(mySchedule)
  BY DEF IInv, TypeOK, SchedInv, JobsHeld
<1>3. KeepsOrder(mySchedule', mySchedule) /\ Range(mySchedule') \subseteq Range(mySchedule)
  BY <1>1, <1>2, RemoveFirstKeepsOrder, RemoveFirstRange
<1>4. JobsKept
  <2>1. \A j \in DOMAIN job : job[j].rem \in Nat
    BY DEF IInv, TypeOK, JobRecord
  <2> QED
    BY <1>1, <2>1 DEF JobsKept
<1>5. ScheduleInPolicyOrder'
  BY <1>3, <1>4, KeptInOrder DEF OrderInv
<1>6. LateAreStarted'
  BY <1>1 DEF OrderInv, LateAreStarted, MustStillExecute, Started
<1>7. NoHopelessLeft' /\ OneByOne'
  BY <1>1, <1>3 DEF OrderInv, NoHopelessLeft, OneByOne, Activation
<1> QED
  BY <1>5, <1>6, <1>7 DEF OrderInv

LEMMA CancelJobOrder ==
  ASSUME IInv, IInv', OrderInv, CancelJob
  PROVE  OrderInv'
<1> DEFINE j == Head(cancelled)
<1>1. /\ UNCHANGED <<config, taskset, mySchedule, execMissJobs, now, index, pc>>
      /\ cancelled # << >> /\ job' = Delete(job, j)
  BY DEF CancelJob, fixed, sched
<1>2. DOMAIN job' = DOMAIN job \ {j} /\ \A i \in DOMAIN job' : job'[i] = job[i]
  BY <1>1 DEF Delete
<1>3. Range(mySchedule) \subseteq DOMAIN job'
  BY <1>1, <1>2, CancelledJob DEF IInv, SchedInv, JobsHeld
<1>4. JobsKept
  <2>1. \A i \in DOMAIN job : job[i].rem \in Nat
    BY DEF IInv, TypeOK, JobRecord
  <2> QED
    BY <1>1, <1>2, <2>1 DEF JobsKept
<1>5. ScheduleInPolicyOrder'
  BY <1>1, <1>4, SameKeepsOrder, KeptInOrder DEF OrderInv
<1>6. LateAreStarted'
  BY <1>1, <1>4, KeptLate DEF OrderInv
<1>7. NoHopelessLeft'
  <2>1. \A i \in Range(mySchedule) :
          /\ LatestStart(job')[i] = LatestStart(job)[i]
          /\ MustStillExecute(i) => MustStillExecute(i)'
          /\ job'[i].dl = job[i].dl
    BY <1>1, <1>2, <1>3 DEF LatestStart, MustStillExecute, Started
  <2>2. LatestStart(job)' = LatestStart(job')
    BY DEF LatestStart
  <2> QED
    BY <1>1, <2>1, <2>2 DEF OrderInv, NoHopelessLeft
<1>8. OneByOne'
  <2>1. \A i \in Range(mySchedule) : Activation(i)' = Activation(i)
    BY <1>1, <1>2, <1>3 DEF Activation
  <2>2. pc' # "cancelSchedule" /\ pc' \in {"initStep", "cancelInit"} /\ index' = 1
    BY <1>1 DEF OrderInv, OneByOne
  <2> QED
    BY <1>1, <2>1, <2>2 DEF OrderInv, OneByOne
<1> QED
  BY <1>5, <1>6, <1>7, <1>8 DEF OrderInv

\* As only initStep cancels jobs, a call that ends early does not count its step.
LEMMA CancelDoneOrder ==
  ASSUME IInv, OrderInv, CancelDone
  PROVE  OrderInv'
<1>1. pc = "cancelInit"
  BY DEF CancelDone, OrderInv, OneByOne
<1>2. /\ UNCHANGED <<config, taskset, job, mySchedule, execMissJobs, cancelled, now, index>>
      /\ cancelled = << >> /\ pc' \in {"api", "activate", "schedule"}
  BY <1>1 DEF CancelDone, ExitOnCancel, AfterInitStep, fixed, sched
<1>3. LateAreStarted' /\ ScheduleInPolicyOrder'
  BY <1>2, QuietOrder DEF OrderInv
<1>4. NoHopelessLeft'
  BY <1>1, <1>2 DEF OrderInv, NoHopelessLeft, LatestStart, MustStillExecute, Started
<1>5. OneByOne'
  BY <1>1, <1>2 DEF OrderInv, OneByOne, Activation
<1> QED
  BY <1>3, <1>4, <1>5 DEF OrderInv

LEMMA NotYetActiveOrder ==
  ASSUME IInv, OrderInv, NotYetActive
  PROVE  OrderInv'
<1>1. /\ UNCHANGED <<config, taskset, job, mySchedule, execMissJobs, cancelled, now>>
      /\ pc = "activate" /\ Advance
  BY DEF NotYetActive, fixed, sched
<1>2. LateAreStarted' /\ ScheduleInPolicyOrder'
  BY <1>1, QuietOrder DEF OrderInv
<1>3. NoHopelessLeft'
  BY <1>1 DEF OrderInv, NoHopelessLeft, LatestStart, MustStillExecute, Started, Advance
<1>4. OneByOne'
  <2>1. index \in Nat /\ \A j \in Range(mySchedule) : j[1] \in Nat
    <3>1. Range(mySchedule) \subseteq JobIds /\ Tasks \subseteq Nat
      BY RangeOfSeq, TaskParameters DEF IInv, TypeOK
    <3> QED
      BY <3>1 DEF IInv, TypeOK, JobIds
  <2>2. \/ pc' = "schedule" /\ index' = 1
        \/ pc' = "activate" /\ index' = index + 1
    BY <1>1 DEF Advance
  <2>3. \A j \in Range(mySchedule) : Activation(j) < now \/ j[1] < index
    BY <1>1 DEF OrderInv, OneByOne
  <2>4. \A j \in Range(mySchedule) : Activation(j) < now \/ j[1] < index + 1
    BY <2>1, <2>3
  <2>5. \A j \in Range(mySchedule) : Activation(j)' = Activation(j)
    BY <1>1 DEF Activation
  <2>6. \A j \in Range(mySchedule) : Activation(j) <= now
    BY DEF OrderInv, OneByOne
  <2>7. cancelled = << >>
    BY <1>1 DEF OrderInv, OneByOne
  <2> QED
    BY <1>1, <2>2, <2>4, <2>5, <2>6, <2>7 DEF OneByOne
<1> QED
  BY <1>2, <1>3, <1>4 DEF OrderInv

LEMMA ScheduleDoneOrder ==
  ASSUME IInv, OrderInv, ScheduleDone
  PROVE  OrderInv'
<1>1. /\ UNCHANGED <<config, taskset, job, mySchedule, execMissJobs, cancelled, now, index>>
      /\ pc = "schedule" /\ pc' = "dispatch" /\ cancelled = << >>
  BY DEF ScheduleDone, PerformCancellations, fixed, sched, OrderInv, OneByOne
<1>2. LateAreStarted' /\ ScheduleInPolicyOrder'
  BY <1>1, QuietOrder DEF OrderInv
<1>3. NoHopelessLeft'
  BY <1>1 DEF OrderInv, NoHopelessLeft, LatestStart, MustStillExecute, Started
<1>4. OneByOne'
  BY <1>1 DEF OrderInv, OneByOne, Activation
<1> QED
  BY <1>2, <1>3, <1>4 DEF OrderInv
-----------------------------------------------------------------------------
(* doExecutions                                                             *)

LEMMA AfterStepKeepsPriority ==
  ASSUME IInv, NEW next \in DOMAIN job, NEW i \in DOMAIN job
  PROVE  AfterStep(next)[i].prio = job[i].prio
<1>1. job[i] \in JobRecord
  BY DEF IInv, TypeOK
<1>2. \/ AfterStep(next)[i] = [job[i] EXCEPT !.rem = @ - 1]
      \/ AfterStep(next)[i] = [job[i] EXCEPT !.preemptions = @ + 1]
      \/ AfterStep(next)[i] = job[i]
  BY DEF AfterStep
<1> QED
  BY <1>1, <1>2 DEF JobRecord

\* When a step ends, all activations are of an earlier step.
LEMMA StepEndOneByOne ==
  ASSUME IInv, IInv', OneByOne, pc = "dispatch", StepEnd,
         Range(mySchedule') \subseteq Range(mySchedule),
         \A j \in Range(mySchedule') : job'[j].dl = job[j].dl
  PROVE  OneByOne'
<1>1. /\ pc' \in {"api", "initStep"} /\ now' = now + 1
      /\ UNCHANGED <<index, cancelled, taskset>>
  BY DEF StepEnd, StepEndWith, fixed
<1>2. cancelled = << >> /\ index = 1
  BY DEF OneByOne
<1>3. \A j \in Range(mySchedule) : Activation(j) \in Int
  <2> SUFFICES ASSUME NEW j \in Range(mySchedule) PROVE Activation(j) \in Int
    OBVIOUS
  <2>1. j \in DOMAIN job /\ j \in JobIds
    BY DEF IInv, TypeOK, SchedInv, JobsHeld
  <2>2. job[j].dl \in Int /\ taskset[j[1]].ct \in Nat
    BY <2>1, TaskParameters DEF IInv, TypeOK, JobIds, JobRecord, TaskRecord
  <2> QED
    BY <2>2 DEF Activation
<1>4. \A j \in Range(mySchedule') : Activation(j)' = Activation(j)
  BY <1>1 DEF Activation
<1>5. now \in Nat
  BY DEF IInv, TypeOK
<1>6. \A j \in Range(mySchedule') : Activation(j) < now'
  BY <1>1, <1>3, <1>5 DEF OneByOne
<1> QED
  BY <1>1, <1>2, <1>3, <1>4, <1>5, <1>6 DEF OneByOne

LEMMA IdleOrder ==
  ASSUME IInv, IInv', OrderInv, Idle
  PROVE  OrderInv'
<1>1. /\ UNCHANGED <<config, taskset, job, mySchedule, execMissJobs>>
      /\ pc = "dispatch" /\ pc' \in {"api", "initStep"} /\ StepEnd
  BY DEF Idle, IdleStep, DispatchIdle, StepEnd, StepEndWith, fixed
<1>2. LateAreStarted' /\ ScheduleInPolicyOrder'
  BY <1>1, QuietOrder DEF OrderInv
<1>3. OneByOne'
  BY <1>1, StepEndOneByOne DEF OrderInv
<1> QED
  BY <1>1, <1>2, <1>3 DEF OrderInv, NoHopelessLeft

LEMMA ExecuteOrder ==
  ASSUME IInv, IInv', OrderInv, Execute
  PROVE  OrderInv'
<1> DEFINE j == NextJob
<1>1. /\ UNCHANGED <<config, taskset, mySchedule, execMissJobs>>
      /\ j # NoJob /\ job' = AfterStep(j)
      /\ pc = "dispatch" /\ pc' \in {"api", "initStep"} /\ StepEnd
  BY DEF Execute, ExecuteStep, DispatchStep, StepEnd, StepEndWith, fixed
<1>2. j \in DOMAIN job
  BY <1>1, NextJobIsFirst
<1> HIDE DEF j
<1>3. /\ DOMAIN job' = DOMAIN job
      /\ \A i \in DOMAIN job :
           /\ job'[i].dl = job[i].dl /\ job'[i].et = job[i].et
           /\ job'[i].prio = job[i].prio
           /\ job'[i].rem = IF i = j THEN job[i].rem - 1 ELSE job[i].rem
  BY <1>1, <1>2, AfterStepJobs, AfterStepKeepsPriority DEF IInv, SchedInv
<1>4. JobsKept
  <2>1. \A i \in DOMAIN job : job[i].rem \in Nat
    BY DEF IInv, TypeOK, JobRecord
  <2> QED
    BY <1>1, <1>3, <2>1 DEF JobsKept
<1>5. ScheduleInPolicyOrder'
  BY <1>1, <1>4, SameKeepsOrder, KeptInOrder DEF OrderInv
<1>6. LateAreStarted'
  BY <1>1, <1>4, KeptLate DEF OrderInv
<1>7. OneByOne'
  <2>1. Range(mySchedule) \subseteq DOMAIN job
    BY DEF IInv, SchedInv, JobsHeld
  <2> QED
    BY <1>1, <1>3, <2>1, StepEndOneByOne DEF OrderInv
<1> QED
  BY <1>1, <1>5, <1>6, <1>7 DEF OrderInv, NoHopelessLeft

LEMMA CompleteOrder ==
  ASSUME IInv, IInv', OrderInv, Complete
  PROVE  OrderInv'
<1> DEFINE j == NextJob
<1>1. /\ UNCHANGED <<config, taskset, execMissJobs>>
      /\ j # NoJob /\ job' = Delete(AfterStep(j), j)
      /\ mySchedule' = Tail(mySchedule)
      /\ pc = "dispatch" /\ pc' \in {"api", "initStep"} /\ StepEnd
  BY DEF Complete, CompleteStep, CompleteJob, DispatchFinish, StepEnd, StepEndWith, fixed
<1>2. /\ j \in DOMAIN job /\ mySchedule # << >> /\ mySchedule \in Seq(JobIds)
      /\ IsInjective(mySchedule)
  BY <1>1, NextJobIsFirst
<1> HIDE DEF j
<1>3. /\ DOMAIN job' = DOMAIN job \ {j}
      /\ \A i \in DOMAIN job' :
           /\ job'[i].dl = job[i].dl /\ job'[i].et = job[i].et
           /\ job'[i].prio = job[i].prio
           /\ job'[i].rem = job[i].rem
  BY <1>1, <1>2, AfterStepJobs, AfterStepKeepsPriority DEF Delete, IInv, SchedInv
<1>4. JobsKept
  <2>1. \A i \in DOMAIN job : job[i].rem \in Nat
    BY DEF IInv, TypeOK, JobRecord
  <2> QED
    BY <1>1, <1>3, <2>1 DEF JobsKept
<1>5. KeepsOrder(mySchedule', mySchedule) /\ Range(mySchedule') \subseteq Range(mySchedule)
  BY <1>1, <1>2, TailKeepsOrder, TailRange
<1>6. ScheduleInPolicyOrder'
  BY <1>4, <1>5, KeptInOrder DEF OrderInv
<1>7. LateAreStarted'
  BY <1>1, <1>4, KeptLate DEF OrderInv
<1>8. OneByOne'
  <2>1. Range(mySchedule') \subseteq DOMAIN job'
    BY DEF IInv, SchedInv, JobsHeld
  <2> QED
    BY <1>1, <1>3, <1>5, <2>1, StepEndOneByOne DEF OrderInv
<1> QED
  BY <1>1, <1>6, <1>7, <1>8 DEF OrderInv, NoHopelessLeft
-----------------------------------------------------------------------------
(* doActivations                                                            *)

\* An entry put behind those it may not precede and in front of those it precedes.
LEMMA InsertedInOrder ==
  ASSUME NEW S, NEW s \in Seq(S), NEW e \in S, NEW p \in 1 .. Len(s) + 1, NEW jobs,
         \A i, h \in DOMAIN s : i < h => Before(jobs, s[i], s[h]),
         \A i \in DOMAIN s : i < p => Before(jobs, s[i], e),
         \A i \in DOMAIN s : i >= p => Before(jobs, e, s[i])
  PROVE  \A i, h \in DOMAIN InsertAt(s, p, e) :
           i < h => Before(jobs, InsertAt(s, p, e)[i], InsertAt(s, p, e)[h])
<1> DEFINE r == InsertAt(s, p, e)
<1>1. /\ r \in Seq(S) /\ Len(r) = Len(s) + 1
      /\ \A i \in 1 .. Len(s) + 1 :
           r[i] = IF i < p THEN s[i] ELSE IF i = p THEN e ELSE s[i - 1]
  BY InsertAtEntries
<1> HIDE DEF r
<1>2. Len(s) \in Nat /\ DOMAIN s = 1 .. Len(s) /\ DOMAIN r = 1 .. Len(s) + 1
  BY <1>1, LenProperties
<1> SUFFICES ASSUME NEW i \in DOMAIN r, NEW h \in DOMAIN r, i < h
             PROVE  Before(jobs, r[i], r[h])
  BY DEF r
<1>3. CASE h < p
  <2>1. i \in DOMAIN s /\ h \in DOMAIN s /\ r[i] = s[i] /\ r[h] = s[h]
    BY <1>1, <1>2, <1>3
  <2> QED
    BY <2>1
<1>4. CASE h = p
  <2>1. i \in DOMAIN s /\ i < p /\ r[i] = s[i] /\ r[h] = e
    BY <1>1, <1>2, <1>4
  <2> QED
    BY <2>1
<1>5. CASE h > p /\ i < p
  <2>1. i \in DOMAIN s /\ h - 1 \in DOMAIN s /\ i < h - 1 /\ r[i] = s[i] /\ r[h] = s[h - 1]
    BY <1>1, <1>2, <1>5
  <2> QED
    BY <2>1
<1>6. CASE h > p /\ i = p
  <2>1. h - 1 \in DOMAIN s /\ h - 1 >= p /\ r[i] = e /\ r[h] = s[h - 1]
    BY <1>1, <1>2, <1>6
  <2> QED
    BY <2>1
<1>7. CASE i > p
  <2>1. /\ i - 1 \in DOMAIN s /\ h - 1 \in DOMAIN s /\ i - 1 < h - 1
        /\ r[i] = s[i - 1] /\ r[h] = s[h - 1]
    BY <1>1, <1>2, <1>7
  <2> QED
    BY <2>1
<1> QED
  BY <1>2, <1>3, <1>4, <1>5, <1>6, <1>7

\* Among jobs that are equal for the policy the new one is the last: the others
\* were activated in an earlier step, or belong to a task that had its turn.
LEMMA ActivateOrder ==
  ASSUME IInv, IInv', OrderInv, Activate
  PROVE  OrderInv'
<1> DEFINE t == taskset[index]
           j == <<index, task[index].activations>>
           record == [dl |-> now + t.ct, et |-> t.et, rem |-> t.et,
                      prio |-> JobPriority(index), preemptions |-> 0]
           jobs == [i \in DOMAIN job \cup {j} |-> IF i = j THEN record ELSE job[i]]
<1>1. /\ pc = "activate" /\ Advance
      /\ job' = jobs
      /\ mySchedule' \in InsertByKey(mySchedule, j, Key(jobs))
      /\ UNCHANGED <<config, taskset, execMissJobs, now, cancelled>>
  BY DEF Activate, SpawnJob, NextJobId, NewJob, EnqueueJob, fixed
<1>2. /\ index \in Tasks /\ t \in TaskRecord /\ task[index] \in TaskState /\ now \in Nat
      /\ Tasks \subseteq Nat
  <2>1. Tasks \subseteq Nat
    BY TaskParameters DEF IInv
  <2> QED
    BY <2>1, TaskParameters DEF IInv, TypeOK
<1>3. j \in JobIds /\ j[1] = index /\ j[2] = task[index].activations
  BY <1>2 DEF JobIds, TaskState
<1>4. j \notin DOMAIN job /\ j \notin Range(execMissJobs)
  BY <1>2, <1>3 DEF IInv, SchedInv, JobsNumbered, TaskState
<1>5. /\ mySchedule \in Seq(JobIds) /\ IsInjective(mySchedule)
      /\ Range(mySchedule) \subseteq DOMAIN job
  BY DEF IInv, TypeOK, SchedInv, JobsHeld
<1>6. record.dl = now + t.ct /\ t.ct \in Nat
  BY <1>2 DEF TaskRecord
<1> HIDE DEF t, j, record
<1>7. /\ DOMAIN job' = DOMAIN job \cup {j}
      /\ job'[j] = record
      /\ \A i \in DOMAIN job : job'[i] = job[i]
  BY <1>1, <1>4
<1>8. Range(mySchedule') = Range(mySchedule) \cup {j}
  <2> HIDE DEF jobs
  <2> QED
    BY <1>1, <1>3, <1>5, InsertByKeyRange
<1>9. \A i \in Range(mySchedule) :
        /\ i[1] \in Tasks
        /\ Activation(i) \in Int
        /\ job'[i].dl - taskset[i[1]].ct = Activation(i)
  <2> SUFFICES ASSUME NEW i \in Range(mySchedule)
               PROVE  /\ i[1] \in Tasks /\ Activation(i) \in Int
                      /\ job'[i].dl - taskset[i[1]].ct = Activation(i)
    OBVIOUS
  <2>1. i \in DOMAIN job /\ i \in JobIds
    BY <1>5 DEF IInv, TypeOK
  <2>2. i[1] \in Tasks /\ job[i].dl \in Int /\ taskset[i[1]].ct \in Nat
    BY <2>1, TaskParameters DEF IInv, TypeOK, JobIds, JobRecord, TaskRecord
  <2> QED
    BY <1>7, <2>1, <2>2 DEF Activation
<1>10. job'[j].dl - taskset[j[1]].ct = now
  BY <1>2, <1>3, <1>6, <1>7 DEF t
<1>11. \A i \in Range(mySchedule) :
         Activation(i) <= now /\ (Activation(i) < now \/ i[1] < index)
  BY <1>1 DEF OrderInv, OneByOne
<1>12. LateAreStarted'
  BY <1>1, <1>4, <1>7 DEF OrderInv, LateAreStarted, MustStillExecute, Started
<1>13. NoHopelessLeft'
  <2> SUFFICES ASSUME config.dlMissCancellations, NEW i \in Range(mySchedule')
               PROVE  \/ LatestStart(job')[i] >= now
                      \/ MustStillExecute(i)'
                      \/ job'[i].dl = now + taskset[i[1]].ct
    BY <1>1 DEF NoHopelessLeft, LatestStart
  <2>1. CASE i = j
    BY <1>3, <1>6, <1>7, <2>1 DEF t
  <2>2. CASE i \in Range(mySchedule)
    <3>1. \/ LatestStart(job)[i] >= now
          \/ MustStillExecute(i)
          \/ job[i].dl = now + taskset[i[1]].ct
      BY <1>1, <2>2 DEF OrderInv, NoHopelessLeft
    <3>2. i \in DOMAIN job /\ i \in DOMAIN job' /\ job'[i] = job[i]
      BY <1>5, <1>7, <2>2
    <3>3. LatestStart(job')[i] = LatestStart(job)[i]
      BY <3>2 DEF LatestStart
    <3>4. MustStillExecute(i)' <=> MustStillExecute(i)
      BY <1>1, <3>2 DEF MustStillExecute, Started
    <3> QED
      BY <3>1, <3>2, <3>3, <3>4
  <2> QED
    BY <1>8, <2>1, <2>2
<1>14. OneByOne'
  <2>1. \/ pc' = "schedule" /\ index' = 1
        \/ pc' = "activate" /\ index' = index + 1
    BY <1>1 DEF Advance
  <2>2. cancelled = << >>
    BY <1>1 DEF OrderInv, OneByOne
  <2>3. \A i : Activation(i)' = job'[i].dl - taskset[i[1]].ct
    BY <1>1 DEF Activation
  <2>4. \A i \in Range(mySchedule) :
          /\ Activation(i)' <= now
          /\ Activation(i)' < now \/ i[1] < index + 1
    <3>1. \A i \in Range(mySchedule) : i[1] \in Nat /\ index \in Nat
      BY <1>2, <1>9
    <3> QED
      BY <1>9, <1>11, <2>3, <3>1
  <2>5. \A i \in Range(mySchedule') :
          /\ Activation(i)' <= now
          /\ Activation(i)' < now \/ i[1] < index + 1
    <3> SUFFICES ASSUME NEW i \in Range(mySchedule')
                 PROVE  /\ Activation(i)' <= now
                        /\ Activation(i)' < now \/ i[1] < index + 1
      OBVIOUS
    <3>1. CASE i = j
      <4>1. Activation(i)' = now
        BY <1>10, <2>3, <3>1
      <4>2. i[1] < index + 1
        BY <1>2, <1>3, <3>1
      <4> QED
        BY <1>2, <4>1, <4>2
    <3> QED
      BY <1>8, <2>4, <3>1
  <2> QED
    BY <1>1, <2>1, <2>2, <2>5 DEF OneByOne
<1>15. ScheduleInPolicyOrder'
  <2> DEFINE K == Key(job')
  <2>1. PICK p \in InsertPositions(mySchedule, j, K) : mySchedule' = InsertAt(mySchedule, p, j)
    BY <1>1 DEF InsertByKey
  <2>2. DOMAIN K = DOMAIN job' /\ \A x \in DOMAIN job' : K[x] \in Int
    <3>1. \A x \in DOMAIN job' : job'[x].dl \in Int /\ job'[x].prio \in Int
      BY DEF IInv, TypeOK, JobRecord
    <3> QED
      BY <3>1 DEF Key
  <2>3. \A x \in DOMAIN job : K[x] = Key(job)[x]
    BY <1>7 DEF Key
  <2>5. \A x, y \in Range(mySchedule) : Before(job, x, y) => Before(job', x, y)
    BY <1>5, <1>9, <2>3 DEF Before, Activation
  <2>6. DOMAIN mySchedule = 1 .. Len(mySchedule) /\ Len(mySchedule) \in Nat
        /\ \A i \in DOMAIN mySchedule : mySchedule[i] \in Range(mySchedule)
    BY <1>5, LenProperties DEF Range
  <2>7. \A i, h \in DOMAIN mySchedule : i < h => Before(job', mySchedule[i], mySchedule[h])
    BY <2>5, <2>6, PolicyOrder DEF OrderInv
  <2> HIDE DEF K
  <2>8. /\ p \in 1 .. Len(mySchedule) + 1
        /\ \A i \in 1 .. p - 1 : mySchedule[i] \in DOMAIN K => K[mySchedule[i]] <= K[j]
        /\ p <= Len(mySchedule) /\ mySchedule[p] \in DOMAIN K => K[mySchedule[p]] > K[j]
    BY <2>1 DEF InsertPositions
  <2>9. \A i \in DOMAIN mySchedule : mySchedule[i] \in DOMAIN K
    BY <1>5, <1>7, <2>2, <2>6
  <2>10. K[j] \in Int /\ \A i \in DOMAIN mySchedule : K[mySchedule[i]] \in Int
    BY <1>7, <2>2, <2>9
  <2>11. ASSUME NEW i \in DOMAIN mySchedule, i < p PROVE Before(job', mySchedule[i], j)
    <3>1. K[mySchedule[i]] <= K[j]
      BY <2>6, <2>8, <2>9, <2>11
    <3>2. /\ job'[mySchedule[i]].dl - taskset[mySchedule[i][1]].ct = Activation(mySchedule[i])
          /\ Activation(mySchedule[i]) <= now
          /\ Activation(mySchedule[i]) < now \/ mySchedule[i][1] < index
          /\ Activation(mySchedule[i]) \in Int
      BY <1>9, <1>11, <2>6
    <3>3. K[mySchedule[i]] < K[j] \/ K[mySchedule[i]] = K[j]
      BY <2>10, <3>1
    <3>4. \/ Activation(mySchedule[i]) < now
          \/ Activation(mySchedule[i]) = now /\ mySchedule[i][1] < index
      BY <1>2, <3>2
    <3> QED
      BY <1>3, <1>10, <3>2, <3>3, <3>4 DEF Before, K
  <2>12. ASSUME NEW i \in DOMAIN mySchedule, i >= p PROVE Before(job', j, mySchedule[i])
    <3>1. p \in DOMAIN mySchedule /\ K[mySchedule[p]] > K[j]
      BY <2>6, <2>8, <2>9, <2>12
    <3>2. K[mySchedule[p]] <= K[mySchedule[i]]
      <4>1. CASE i = p
        BY <2>10, <3>1, <4>1
      <4>2. CASE i # p
        <5>1. Before(job', mySchedule[p], mySchedule[i])
          BY <2>6, <2>7, <2>8, <2>12, <3>1, <4>2
        <5>2. K[mySchedule[p]] < K[mySchedule[i]] \/ K[mySchedule[p]] = K[mySchedule[i]]
          BY <5>1 DEF Before, K
        <5> QED
          BY <2>10, <3>1, <5>2
      <4> QED
        BY <4>1, <4>2
    <3>3. K[j] < K[mySchedule[i]]
      BY <2>10, <3>1, <3>2
    <3> QED
      BY <3>3 DEF Before, K
  <2>13. \A i, h \in DOMAIN mySchedule' :
           i < h => Before(job', mySchedule'[i], mySchedule'[h])
    BY <1>3, <1>5, <2>1, <2>7, <2>8, <2>11, <2>12, InsertedInOrder
  <2> QED
    BY <1>1, <2>13, PolicyOrderNext
<1> QED
  BY <1>12, <1>13, <1>14, <1>15 DEF OrderInv
-----------------------------------------------------------------------------
(* The invariant and what follows from it                                   *)

LEMMA InitOrder == Init => OrderInv
<1> SUFFICES ASSUME Init PROVE OrderInv
  OBVIOUS
<1>1. /\ job = << >> /\ mySchedule = << >> /\ execMissJobs = << >> /\ cancelled = << >>
      /\ pc = "api" /\ index = 1
  BY DEF Init, SchedulerInit
<1>2. DOMAIN mySchedule = {} /\ Range(mySchedule) = {} /\ Range(execMissJobs) = {}
  BY <1>1 DEF Range
<1> QED
  BY <1>1, <1>2
     DEF OrderInv, LateAreStarted, NoHopelessLeft, OneByOne, ScheduleInPolicyOrder

LEMMA NextOrder == IInv /\ IInv' /\ OrderInv /\ [Next]_vars => OrderInv'
<1> SUFFICES ASSUME IInv, IInv', OrderInv, [Next]_vars PROVE OrderInv'
  OBVIOUS
<1>1. CASE UNCHANGED vars
  <2>1. UNCHANGED <<config, taskset, job, mySchedule, execMissJobs, cancelled, now,
                    index, pc>>
    BY <1>1 DEF vars, fixed, sched
  <2>2. LateAreStarted' /\ ScheduleInPolicyOrder'
    BY <2>1, QuietOrder DEF OrderInv
  <2>3. NoHopelessLeft' /\ OneByOne'
    BY <2>1 DEF OrderInv, NoHopelessLeft, OneByOne, Activation, LatestStart,
                MustStillExecute, Started
  <2> QED
    BY <2>2, <2>3 DEF OrderInv
<1>2. CASE Call
  BY <1>2, CallOrder
<1>3. CASE Step
  BY <1>3, MissKeptOrder, MissDroppedOrder, InitStepDoneOrder, CancelJobOrder,
     CancelDoneOrder, ActivateOrder, NotYetActiveOrder, ScheduleDoneOrder, IdleOrder,
     ExecuteOrder, CompleteOrder
  DEF Step
<1>4. CASE Finished
  BY <1>1, <1>4 DEF Finished
<1> QED
  BY <1>1, <1>2, <1>3, <1>4 DEF Next

LEMMA SimulationOrderInv == Spec => []OrderInv
<1> QED
  BY InitOrder, NextOrder, SimulationInv, PTL DEF Spec

\* The schedule is in the order of the policy, and in that of doActivations where
\* the policy does not decide, through every insertion and removal and over calls
\* that ended early.
THEOREM SimulationPolicyOrder == Spec => []ScheduleInPolicyOrder
<1>1. OrderInv => ScheduleInPolicyOrder
  BY DEF OrderInv
<1> QED
  BY SimulationOrderInv, <1>1, PTL

\* No job that can no longer be in time is executed, unless it has started and
\* may not be cancelled, or came into this very step that way.
THEOREM SimulationNoHopelessJob == Spec => []NoHopelessJob
<1>1. OrderInv => NoHopelessJob
  BY DEF OrderInv, NoHopelessLeft, NoHopelessJob
<1> QED
  BY SimulationOrderInv, <1>1, PTL
-----------------------------------------------------------------------------
(* The monitors of (m,k) constraints, continued                             *)

\* The ring is filled from its start.
Filling(mon, k) ==
  /\ mon.recorded <= k
  /\ mon.recorded < k => mon.pos = mon.recorded

\* Successes at one position more
LEMMA SuccessesWithout ==
  ASSUME NEW k \in Nat, NEW vals \in [0 .. k - 1 -> Bit], NEW r \in 0 .. k - 1
  PROVE  /\ Successes(vals, r .. k - 1) \in Nat
         /\ Successes(vals, r + 1 .. k - 1) \in Nat
         /\ Successes(vals, r .. k - 1) = Successes(vals, r + 1 .. k - 1) + vals[r]
<1> DEFINE A == {i \in r .. k - 1 : vals[i] = 1}
           B == {i \in r + 1 .. k - 1 : vals[i] = 1}
<1>1. IsFiniteSet(A) /\ IsFiniteSet(B)
  <2>1. IsFiniteSet(r .. k - 1) /\ IsFiniteSet(r + 1 .. k - 1)
    BY FS_Interval
  <2>2. A \subseteq r .. k - 1 /\ B \subseteq r + 1 .. k - 1
    OBVIOUS
  <2> QED
    BY <2>1, <2>2, FS_Subset
<1>2. Cardinality(A) \in Nat /\ Cardinality(B) \in Nat
  BY <1>1, FS_CardinalityType
<1>3. Successes(vals, r .. k - 1) = Cardinality(A)
      /\ Successes(vals, r + 1 .. k - 1) = Cardinality(B)
  BY DEF Successes
<1>4. r \notin B
  OBVIOUS
<1>5. r .. k - 1 = {r} \cup (r + 1 .. k - 1)
  OBVIOUS
<1>6. CASE vals[r] = 1
  <2>1. A = B \cup {r}
    BY <1>5, <1>6
  <2> HIDE DEF A, B
  <2>2. Cardinality(A) = Cardinality(B) + 1
    BY <1>1, <1>4, <2>1, FS_AddElement
  <2> QED
    BY <1>2, <1>3, <1>6, <2>2
<1>7. CASE vals[r] = 0
  <2>1. A = B
    BY <1>5, <1>7
  <2> HIDE DEF A, B
  <2> QED
    BY <1>2, <1>3, <1>7, <2>1
<1> QED
  BY <1>6, <1>7 DEF Bit

\* What getCurrentSum counts while the ring fills: initial entries as successes.
LEMMA SumWhileFilling ==
  ASSUME NEW k \in Nat \ {0}, NEW mon \in Monitors(k), Filling(mon, k), mon.recorded < k
  PROVE  GetCurrentSum(mon, k)
           = mon.sum - Successes(mon.vals, mon.recorded .. k - 1) + (k - mon.recorded)
<1> DEFINE r == mon.recorded
           initial == {(mon.pos + i) % k : i \in 0 .. (k - r) - 1}
<1>1. r \in Nat /\ mon.pos = r /\ r < k
  BY DEF Monitors, Filling
<1>2. initial = r .. k - 1
  <2>1. \A i \in 0 .. (k - r) - 1 : (mon.pos + i) % k = r + i
    BY <1>1
  <2>2. \A x \in r .. k - 1 : x - r \in 0 .. (k - r) - 1 /\ x = r + (x - r)
    BY <1>1
  <2>3. \A i \in 0 .. (k - r) - 1 : r + i \in r .. k - 1
    BY <1>1
  <2> QED
    BY <2>1, <2>2, <2>3
<1> QED
  BY <1>2 DEF GetCurrentSum

\* A new monitor has no failures: every constraint is satisfied at the start.
LEMMA NewMonitorSum ==
  ASSUME NEW k \in Nat \ {0}, NEW bits \in [0 .. k - 1 -> Bit]
  PROVE  /\ Filling(NewMonitor(k, bits), k)
         /\ GetCurrentSum(NewMonitor(k, bits), k) = k
         /\ NewMonitor(k, bits).violations = 0
<1> DEFINE mon == NewMonitor(k, bits)
<1>1. mon \in Monitors(k)
  BY NewMonitorType
<1>2. /\ mon.vals = bits /\ mon.pos = 0 /\ mon.recorded = 0 /\ mon.violations = 0
      /\ mon.sum = Successes(bits, 0 .. k - 1)
  BY DEF NewMonitor
<1> HIDE DEF mon
<1>3. Filling(mon, k)
  BY <1>2 DEF Filling
<1>4. GetCurrentSum(mon, k) = mon.sum - Successes(bits, 0 .. k - 1) + (k - 0)
  BY <1>1, <1>2, <1>3, SumWhileFilling
<1>5. Successes(bits, 0 .. k - 1) \in Nat
  BY SuccessesType
<1> QED
  BY <1>2, <1>3, <1>4, <1>5 DEF mon

\* A success never lowers the sum, a failure never raises it, and a monitor counts
\* a violation only when its state is not valid.
LEMMA PushSum ==
  ASSUME NEW k \in Nat \ {0}, NEW m \in Nat, NEW val \in Bit,
         NEW mon \in Monitors(k), Filling(mon, k)
  PROVE  LET new == Push(mon, m, k, val)
         IN  /\ Filling(new, k)
             /\ GetCurrentSum(mon, k) \in Int /\ GetCurrentSum(new, k) \in Int
             /\ val = 1 => GetCurrentSum(new, k) >= GetCurrentSum(mon, k)
             /\ val = 0 => GetCurrentSum(new, k) <= GetCurrentSum(mon, k)
             /\ IsStateValid(new, m, k) => new.violations = mon.violations
<1> DEFINE new == Push(mon, m, k, val)
           r == mon.recorded
<1>1. /\ mon.vals \in [0 .. k - 1 -> Bit] /\ mon.pos \in 0 .. k - 1
      /\ mon.sum \in Int /\ r \in Nat /\ mon.violations \in Nat /\ r <= k
      /\ r < k => mon.pos = r
  BY DEF Monitors, Filling
<1>2. mon.vals[mon.pos] \in {0, 1} /\ val \in {0, 1}
  BY <1>1 DEF Bit
<1>3. new \in Monitors(k)
  BY PushType
<1>4. /\ new.vals = [mon.vals EXCEPT ![mon.pos] = val]
      /\ new.pos = (IF mon.pos + 1 >= k THEN 0 ELSE mon.pos + 1)
      /\ new.sum = mon.sum - mon.vals[mon.pos] + val
      /\ new.recorded = (IF r < k THEN r + 1 ELSE k)
      /\ ~ (new.recorded >= k /\ new.sum < m) => new.violations = mon.violations
  BY <1>1 DEF Push
<1> HIDE DEF new
<1>5. Filling(new, k)
  BY <1>1, <1>4 DEF Filling
<1>6. new.recorded >= k => GetCurrentSum(new, k) = new.sum
  BY <1>1, <1>4 DEF GetCurrentSum
<1>7. new.sum \in Int /\ new.recorded \in Nat
  BY <1>3 DEF Monitors
<1>8. IsStateValid(new, m, k) => new.violations = mon.violations
  BY <1>4, <1>6, <1>7 DEF IsStateValid
<1>9. /\ GetCurrentSum(mon, k) \in Int /\ GetCurrentSum(new, k) \in Int
      /\ val = 1 => GetCurrentSum(new, k) >= GetCurrentSum(mon, k)
      /\ val = 0 => GetCurrentSum(new, k) <= GetCurrentSum(mon, k)
  <2>1. CASE r >= k
    <3>1. GetCurrentSum(mon, k) = mon.sum
      BY <1>1, <2>1 DEF GetCurrentSum
    <3>2. GetCurrentSum(new, k) = new.sum
      BY <1>1, <1>4, <1>6, <2>1
    <3> QED
      BY <1>1, <1>2, <1>4, <3>1, <3>2
  <2>2. CASE r < k
    <3>1. GetCurrentSum(mon, k) = mon.sum - Successes(mon.vals, r .. k - 1) + (k - r)
      BY <2>2, SumWhileFilling
    <3>2. /\ Successes(mon.vals, r .. k - 1) \in Nat
          /\ Successes(mon.vals, r + 1 .. k - 1) \in Nat
          /\ Successes(mon.vals, r .. k - 1)
               = Successes(mon.vals, r + 1 .. k - 1) + mon.vals[r]
      <4>1. r \in 0 .. k - 1
        BY <1>1, <2>2
      <4> QED
        BY <1>1, <4>1, SuccessesWithout
    <3>3. GetCurrentSum(new, k)
            = new.sum - Successes(mon.vals, r + 1 .. k - 1) + (k - (r + 1))
      <4>1. CASE r + 1 < k
        <5>1. GetCurrentSum(new, k)
                = new.sum - Successes(new.vals, r + 1 .. k - 1) + (k - (r + 1))
          <6>1. new.recorded = r + 1 /\ new.recorded < k
            BY <1>4, <2>2, <4>1
          <6> QED
            BY <1>3, <1>5, <6>1, SumWhileFilling
        <5>2. \A i \in r + 1 .. k - 1 : new.vals[i] = mon.vals[i]
          BY <1>1, <1>4, <2>2
        <5>3. Successes(new.vals, r + 1 .. k - 1) = Successes(mon.vals, r + 1 .. k - 1)
          BY <5>2 DEF Successes
        <5> QED
          BY <5>1, <5>3
      <4>2. CASE r + 1 = k
        <5>1. GetCurrentSum(new, k) = new.sum
          BY <1>4, <1>6, <2>2, <4>2
        <5>2. r + 1 .. k - 1 = {}
          BY <1>1, <4>2
        <5>3. {i \in {} : mon.vals[i] = 1} = {}
          OBVIOUS
        <5>4. Successes(mon.vals, r + 1 .. k - 1) = 0
          BY <5>2, <5>3, FS_EmptySet DEF Successes
        <5> QED
          BY <1>1, <1>7, <4>2, <5>1, <5>4
      <4> QED
        BY <1>1, <2>2, <4>1, <4>2
    <3> DEFINE old == GetCurrentSum(mon, k)
               next == GetCurrentSum(new, k)
               a == Successes(mon.vals, r .. k - 1)
               b == Successes(mon.vals, r + 1 .. k - 1)
               v == mon.vals[mon.pos]
    <3>4. old = mon.sum - a + (k - r) /\ next = (mon.sum - v + val) - b + (k - (r + 1))
      BY <1>4, <3>1, <3>3
    <3>5. a \in Nat /\ b \in Nat /\ a = b + v /\ v \in {0, 1}
      BY <1>1, <1>2, <2>2, <3>2
    <3>6. mon.sum \in Int /\ r \in Nat /\ val \in {0, 1}
      BY <1>1, <1>2
    <3> HIDE DEF old, next, a, b, v, r
    <3>7. old = mon.sum - b - v + (k - r) /\ next = mon.sum - b - v + val + (k - r) - 1
      BY <3>4, <3>5, <3>6
    <3>8. old \in Int /\ next \in Int /\ (val = 1 => next >= old) /\ (val = 0 => next <= old)
      BY <3>5, <3>6, <3>7
    <3> QED
      BY <3>8 DEF old, next
  <2> QED
    BY <1>1, <2>1, <2>2
<1> QED
  BY <1>5, <1>8, <1>9 DEF new
-----------------------------------------------------------------------------
(* What an exit condition says of the constraints                           *)

\* An MkpTask whose cancelHook does not ask the monitor
Strict(t) == taskset[t].model = "mkp" /\ ~ taskset[t].relaxed

NoneStrict == \A t \in Tasks : ~ Strict(t)

Violated == \E t \in Constrained : ~ Satisfied(t) \/ Strict(t)

NeverViolated == \A t \in Constrained : monitor[t].violations = 0 /\ Satisfied(t)

\* A false result of cancelJob is kept until performCancellations ends, by which
\* time nothing has repaired the constraint: only failures are pushed there.
ConstraintInv ==
  /\ \A t \in Constrained : Filling(monitor[t], taskset[t].k)
  /\ ~ rv => pc = "cancelInit" /\ Violated
  /\ pc = "api" /\ ec => Violated
  /\ config.exitOnCancel /\ clean /\ NoneStrict => ~ rv \/ NeverViolated

\* Pushing val to the monitor of task t, if it has one
LEMMA PushToTask ==
  ASSUME IInv, ConstraintInv, NEW t \in Tasks, NEW val \in Bit, taskset' = taskset,
         monitor' = [monitor EXCEPT ![t] =
                       IF taskset[t].k > 0
                       THEN Push(@, taskset[t].m, taskset[t].k, val) ELSE @]
  PROVE  /\ Constrained' = Constrained
         /\ \A u \in Constrained :
              /\ Filling(monitor'[u], taskset[u].k)
              /\ val = 1 => (Satisfied(u) => Satisfied(u)')
              /\ val = 0 => (Satisfied(u)' => Satisfied(u))
              /\ Satisfied(u)' => monitor'[u].violations = monitor[u].violations
<1>1. Constrained' = Constrained
  BY DEF Constrained, Tasks
<1> SUFFICES ASSUME NEW u \in Constrained
             PROVE  /\ Filling(monitor'[u], taskset[u].k)
                    /\ val = 1 => (Satisfied(u) => Satisfied(u)')
                    /\ val = 0 => (Satisfied(u)' => Satisfied(u))
                    /\ Satisfied(u)' => monitor'[u].violations = monitor[u].violations
  BY <1>1
<1>2. /\ u \in Tasks /\ taskset[u].k \in Nat \ {0} /\ taskset[u].m \in Nat
      /\ DOMAIN monitor = Tasks /\ monitor[u] \in Monitors(taskset[u].k)
      /\ Filling(monitor[u], taskset[u].k)
  <2>1. u \in Tasks /\ taskset[u].k > 0 /\ Filling(monitor[u], taskset[u].k)
    BY DEF Constrained, ConstraintInv
  <2>2. taskset[u].k \in Nat /\ taskset[u].m \in Nat
    BY <2>1, TaskParameters DEF IInv, TaskRecord
  <2>3. DOMAIN monitor = Tasks /\ monitor[u] \in Monitors(taskset[u].k)
    BY <2>1 DEF IInv, TypeOK
  <2> QED
    BY <2>1, <2>2, <2>3
<1>3. CASE u # t
  <2>1. monitor'[u] = monitor[u]
    BY <1>2, <1>3
  <2> QED
    BY <1>2, <2>1 DEF Satisfied
<1>4. CASE u = t
  <2> DEFINE k == taskset[u].k
             m == taskset[u].m
             mon == monitor[u]
             new == Push(mon, m, k, val)
  <2>1. monitor'[u] = new
    BY <1>2, <1>4
  <2>2. /\ Filling(new, k)
        /\ GetCurrentSum(mon, k) \in Int /\ GetCurrentSum(new, k) \in Int
        /\ val = 1 => GetCurrentSum(new, k) >= GetCurrentSum(mon, k)
        /\ val = 0 => GetCurrentSum(new, k) <= GetCurrentSum(mon, k)
        /\ IsStateValid(new, m, k) => new.violations = mon.violations
    BY <1>2, PushSum
  <2>3. Satisfied(u) <=> IsStateValid(mon, m, k)
    BY DEF Satisfied
  <2>4. Satisfied(u)' <=> IsStateValid(new, m, k)
    BY <2>1 DEF Satisfied
  <2>5. m \in Nat
    BY <1>2
  <2> HIDE DEF new, mon, k, m
  <2>6. /\ val = 1 => (Satisfied(u) => Satisfied(u)')
        /\ val = 0 => (Satisfied(u)' => Satisfied(u))
    BY <2>2, <2>3, <2>4, <2>5 DEF IsStateValid
  <2> QED
    BY <2>1, <2>2, <2>4, <2>6 DEF k, mon
<1> QED
  BY <1>3, <1>4

\* Steps outside performCancellations that push nothing
LEMMA QuietConstraints ==
  ASSUME ConstraintInv, UNCHANGED <<config, taskset, monitor, rv, clean>>,
         ~ rv => pc' = pc,
         pc' = "api" /\ ec' => pc = "api" /\ ec
  PROVE  ConstraintInv'
<1>1. /\ Constrained' = Constrained /\ Tasks' = Tasks /\ (Violated' <=> Violated)
      /\ (NoneStrict' <=> NoneStrict) /\ (NeverViolated' <=> NeverViolated)
  BY DEF Constrained, Violated, NoneStrict, NeverViolated, Strict, Satisfied, Tasks
<1> QED
  BY <1>1 DEF ConstraintInv

\* The test after a violation sees it: later cancellations in the same step only
\* lower the sums.
LEMMA CancelJobConstraints ==
  ASSUME IInv, OrderInv, ConstraintInv, CancelJob
  PROVE  ConstraintInv'
<1>0. PICK j, t : j = Head(cancelled) /\ t = j[1]
  OBVIOUS
<1> DEFINE ts == taskset[t]
           mon == IF ts.k > 0 THEN Push(monitor[t], ts.m, ts.k, 0) ELSE monitor[t]
<1>1. /\ cancelled # << >>
      /\ monitor' = [monitor EXCEPT ![t] = mon]
      /\ rv' = CancelResult(j, mon)
      /\ pc = "cancelInit"
      /\ UNCHANGED <<config, taskset, pc, ec, clean>>
  BY <1>0 DEF CancelJob, fixed, results, OrderInv, OneByOne
<1>2. t \in Tasks /\ DOMAIN monitor = Tasks /\ ts.k \in Nat /\ (ts.model # "plain" => ts.k > 0)
  <2>1. t \in Tasks /\ DOMAIN monitor = Tasks
    BY <1>0, <1>1, CancelledJob DEF IInv, TypeOK
  <2>2. ts.k \in Nat
    BY <2>1, TaskParameters DEF IInv, TaskRecord
  <2> QED
    BY <2>1, <2>2, TasksetsAssumption DEF IInv, TypeOK, Tasks
<1>3. /\ Constrained' = Constrained
      /\ \A u \in Constrained :
           /\ Filling(monitor'[u], taskset[u].k)
           /\ Satisfied(u)' => Satisfied(u)
           /\ Satisfied(u)' => monitor'[u].violations = monitor[u].violations
           /\ u # t => (Satisfied(u) => Satisfied(u)')
  <2>1. 0 \in Bit
    BY DEF Bit
  <2>2. \A u \in Constrained : u # t => (Satisfied(u) => Satisfied(u)')
    BY <1>1, <1>2 DEF Constrained, Satisfied
  <2> QED
    BY <1>1, <1>2, <2>1, <2>2, PushToTask
<1>4. (Tasks' = Tasks) /\ (\A u \in Tasks : Strict(u)' <=> Strict(u)) /\ (NoneStrict' <=> NoneStrict)
  BY <1>1 DEF NoneStrict, Strict, Tasks
<1>5. monitor'[t] = mon
  BY <1>1, <1>2
<1>6. /\ t \in Constrained <=> ts.k > 0
      /\ Strict(t) <=> ts.model = "mkp" /\ ~ ts.relaxed
      /\ Strict(t) => t \in Constrained
  BY <1>2 DEF Constrained, Strict
<1>7. Satisfied(t)' <=> IsStateValid(mon, ts.m, ts.k)
  BY <1>1, <1>5 DEF Satisfied
<1>8. CancelHook(j, mon)
        <=> IF Strict(t) THEN job[j].prio = MinPriority ELSE t \in Constrained => Satisfied(t)'
  BY <1>0, <1>6, <1>7 DEF CancelHook
<1>9. rv' <=> rv /\ CancelHook(j, mon)
  BY <1>1 DEF CancelResult
<1> HIDE DEF mon, ts
<1>10. CASE ~ CancelHook(j, mon)
  <2>1. Strict(t) \/ (t \in Constrained /\ ~ Satisfied(t)')
    BY <1>8, <1>10
  <2>2. t \in Constrained' /\ (~ Satisfied(t)' \/ Strict(t)')
    BY <1>2, <1>3, <1>4, <1>6, <2>1
  <2>3. Violated'
    BY <2>2 DEF Violated
  <2> QED
    BY <1>1, <1>3, <1>9, <1>10, <2>3 DEF ConstraintInv
<1>11. CASE CancelHook(j, mon)
  <2>1. rv' <=> rv
    BY <1>9, <1>11
  <2>2. ~ rv => Violated'
    BY <1>3, <1>4 DEF ConstraintInv, Violated, Constrained
  <2>3. ASSUME config.exitOnCancel, clean, NoneStrict, rv PROVE NeverViolated'
    <3>1. \A u \in Constrained : monitor[u].violations = 0 /\ Satisfied(u)
      BY <2>3 DEF ConstraintInv, NeverViolated
    <3>2. ~ Strict(t)
      BY <1>2, <2>3 DEF NoneStrict
    <3>3. t \in Constrained => Satisfied(t)'
      BY <1>8, <1>11, <3>2
    <3>4. \A u \in Constrained : Satisfied(u)'
      BY <1>3, <3>1, <3>3
    <3> QED
      BY <1>3, <3>1, <3>4 DEF NeverViolated
  <2> QED
    BY <1>1, <1>3, <1>4, <2>1, <2>2, <2>3 DEF ConstraintInv
<1> QED
  BY <1>10, <1>11

LEMMA CancelDoneConstraints ==
  ASSUME IInv, ConstraintInv, CancelDone
  PROVE  ConstraintInv'
<1>1. /\ UNCHANGED <<config, taskset, monitor>>
      /\ pc' = "api" /\ ec' => ~ rv \/ FALSE
      /\ rv' = TRUE
      /\ \/ ~ rv /\ config.exitOnCancel /\ clean' = FALSE /\ pc' = "api"
         \/ /\ rv \/ ~ config.exitOnCancel
            /\ clean' = clean /\ pc' \in {"activate", "schedule", "dispatch"}
  BY DEF CancelDone, ExitOnCancel, AfterInitStep, fixed, tasks, results
<1>2. /\ Constrained' = Constrained /\ Tasks' = Tasks /\ (Violated' <=> Violated)
      /\ (NoneStrict' <=> NoneStrict) /\ (NeverViolated' <=> NeverViolated)
  BY <1>1 DEF Constrained, Violated, NoneStrict, NeverViolated, Strict, Satisfied, Tasks
<1> QED
  BY <1>1, <1>2 DEF ConstraintInv

LEMMA CompleteConstraints ==
  ASSUME IInv, ConstraintInv, Complete
  PROVE  ConstraintInv'
<1> DEFINE j == NextJob
           t == j[1]
<1>1. /\ pc = "dispatch" /\ j # NoJob
      /\ monitor' = [monitor EXCEPT ![t] =
                       IF taskset[t].k > 0
                       THEN Push(@, taskset[t].m, taskset[t].k, 1) ELSE @]
      /\ UNCHANGED <<config, taskset, rv, clean>>
      /\ pc' = "api" => ec' = FALSE
  BY DEF Complete, CompleteStep, CompleteJob, DispatchFinish, StepEnd, StepEndWith, fixed, results
<1>2. t \in Tasks
  BY <1>1, NextJobIsFirst
<1> HIDE DEF j
<1>3. /\ Constrained' = Constrained
      /\ \A u \in Constrained :
           /\ Filling(monitor'[u], taskset[u].k)
           /\ Satisfied(u) => Satisfied(u)'
           /\ Satisfied(u)' => monitor'[u].violations = monitor[u].violations
  <2>1. 1 \in Bit
    BY DEF Bit
  <2> QED
    BY <1>1, <1>2, <2>1, PushToTask
<1>4. rv
  BY <1>1 DEF ConstraintInv
<1>5. NoneStrict' <=> NoneStrict
  BY <1>1 DEF NoneStrict, Strict, Tasks
<1>6. NeverViolated => NeverViolated'
  BY <1>3 DEF NeverViolated
<1> QED
  BY <1>1, <1>3, <1>4, <1>5, <1>6 DEF ConstraintInv

LEMMA InitConstraints == Init => ConstraintInv
<1> SUFFICES ASSUME Init PROVE ConstraintInv
  OBVIOUS
<1>1. /\ rv = TRUE /\ ec = FALSE /\ taskset \in Tasksets
      /\ monitor = [t \in Tasks |->
                      NewMonitor(taskset[t].k,
                                 [i \in 0 .. taskset[t].k - 1 |-> taskset[t].init[i + 1]])]
  BY DEF Init
<1>2. TypeOK
  BY InitInv DEF IInv
<1>3. ASSUME NEW t \in Constrained
      PROVE  /\ Filling(monitor[t], taskset[t].k)
             /\ monitor[t].violations = 0 /\ Satisfied(t)
  <2> DEFINE k == taskset[t].k
             bits == [i \in 0 .. k - 1 |-> taskset[t].init[i + 1]]
  <2>1. t \in Tasks /\ k > 0
    BY DEF Constrained
  <2>2. /\ k \in Nat /\ taskset[t].m \in Nat /\ taskset[t].init \in Seq(Bit)
        /\ Len(taskset[t].init) = k
    BY <1>2, <2>1, TaskParameters DEF TaskRecord
  <2>3. \A i \in 0 .. k - 1 : i + 1 \in 1 .. Len(taskset[t].init)
    BY <2>2
  <2>4. bits \in [0 .. k - 1 -> Bit]
    BY <2>2, <2>3, ElementOfSeq
  <2>5. taskset[t].m <= k
    BY <1>1, <2>1, TasksetsAssumption DEF Tasks
  <2>6. monitor[t] = NewMonitor(k, bits)
    BY <1>1, <2>1
  <2>7. /\ Filling(NewMonitor(k, bits), k)
        /\ GetCurrentSum(NewMonitor(k, bits), k) = k
        /\ NewMonitor(k, bits).violations = 0
    <3>1. k \in Nat \ {0}
      BY <2>1, <2>2
    <3> HIDE DEF bits, k
    <3> QED
      BY <2>4, <3>1, NewMonitorSum
  <2> HIDE DEF bits
  <2> QED
    BY <2>2, <2>5, <2>6, <2>7 DEF Satisfied, IsStateValid
<1> QED
  BY <1>1, <1>3 DEF ConstraintInv, NeverViolated

LEMMA NextConstraints == IInv /\ OrderInv /\ ConstraintInv /\ [Next]_vars => ConstraintInv'
<1> SUFFICES ASSUME IInv, OrderInv, ConstraintInv, [Next]_vars PROVE ConstraintInv'
  OBVIOUS
<1>1. ASSUME UNCHANGED <<config, taskset, monitor, rv, clean>>, pc # "cancelInit",
             pc' = "api" /\ ec' => pc = "api" /\ ec
      PROVE  ConstraintInv'
  <2>1. rv
    BY <1>1 DEF ConstraintInv
  <2> QED
    BY <1>1, <2>1, QuietConstraints
<1>2. CASE UNCHANGED vars
  BY <1>2, QuietConstraints DEF vars, fixed, tasks, results
<1>3. CASE Call
  BY <1>1, <1>3 DEF Call, Run, Finalise, FinaliseWith, fixed, tasks, results
<1>4. CASE MissKept \/ MissDropped \/ InitStepDone
  BY <1>1, <1>4 DEF MissKept, MissDropped, InitStepDone, PerformCancellations, AfterInitStep,
                    fixed, tasks, results
<1>5. CASE Activate \/ NotYetActive \/ ScheduleDone
  BY <1>1, <1>5 DEF Activate, SpawnJob, NotYetActive, Advance, ScheduleDone,
                    PerformCancellations, fixed, tasks, results
<1>6. CASE Idle \/ Execute
  <2>1. UNCHANGED <<config, taskset, monitor, rv, clean>> /\ pc = "dispatch"
        /\ (pc' = "api" => ec' = FALSE)
    BY <1>6 DEF Idle, IdleStep, Execute, ExecuteStep, StepEnd, StepEndWith, fixed, tasks, results
  <2> QED
    BY <1>1, <2>1
<1>7. CASE CancelJob \/ CancelDone \/ Complete
  BY <1>7, CancelJobConstraints, CancelDoneConstraints, CompleteConstraints
<1>8. CASE Finished
  BY <1>2, <1>8 DEF Finished
<1> QED
  BY <1>2, <1>3, <1>4, <1>5, <1>6, <1>7, <1>8 DEF Next, Step

LEMMA SimulationConstraintInv == Spec => []ConstraintInv
<1> QED
  BY InitConstraints, NextConstraints, SimulationInv, SimulationOrderInv, PTL DEF Spec

\* Without MkpTasks that look at their mandatory jobs only, calls that returned 0
\* mean that no (m,k) constraint was ever violated, and an exit condition that one is.
THEOREM SimulationResultMatches ==
  Spec => [](NoneStrict => ResultMatchesConstraints)
<1>1. ConstraintInv => (NoneStrict => ResultMatchesConstraints)
  <2> SUFFICES ASSUME ConstraintInv, NoneStrict, config.exitOnCancel, pc = "api"
               PROVE  /\ clean => NeverViolated
                      /\ ec => \E t \in Constrained :
                                 ~ Satisfied(t) \/ (taskset[t].model = "mkp" /\ ~ taskset[t].relaxed)
    BY DEF ResultMatchesConstraints, NeverViolated
  <2>1. clean => NeverViolated
    BY DEF ConstraintInv
  <2>2. ec => Violated
    BY DEF ConstraintInv
  <2> QED
    BY <2>1, <2>2 DEF Violated, Strict
<1> QED
  BY SimulationConstraintInv, <1>1, PTL

\* An exit condition comes with a violated constraint, or with an MkpTask that looks
\* at its mandatory jobs only, whatever the tasks are.
THEOREM SimulationExitHasReason ==
  Spec => [](pc = "api" /\ ec => Violated)
<1>1. ConstraintInv => (pc = "api" /\ ec => Violated)
  BY DEF ConstraintInv
<1> QED
  BY SimulationConstraintInv, <1>1, PTL
-----------------------------------------------------------------------------
(* The time of a simulation: every step of the processor is an idle one or   *)
(* belongs to exactly one job, whatever calls ended early and were repeated. *)

\* The steps given to the jobs of a task that are gone, and to each job that exists
Returned == [t \in Tasks |-> task[t].completions * taskset[t].et + task[t].performanceLost]
Spent == [j \in DOMAIN job |-> job[j].et - job[j].rem]

\* A job has the execution time of its task.
JobTimes == \A j \in DOMAIN job : job[j].et = taskset[j[1]].et

TimeInv ==
  /\ JobTimes
  /\ now = idleSteps + SumOf(Returned, Tasks) + SumOf(Spent, DOMAIN job)

LEMMA RangeFinite ==
  ASSUME NEW X, NEW s \in Seq(X)
  PROVE  IsFiniteSet(Range(s))
<1>1. s \in Surjection(1 .. Len(s), Range(s))
  BY LenProperties DEF Surjection, Range
<1>2. IsFiniteSet(1 .. Len(s))
  BY FS_Interval, LenProperties
<1> QED
  BY <1>1, <1>2, FS_Surjection

\* Both sums are finite, and of natural numbers.
LEMMA SumsFinite ==
  ASSUME IInv
  PROVE  /\ IsFiniteSet(Tasks) /\ IsFiniteSet(DOMAIN job)
         /\ \A t \in Tasks : /\ Returned[t] \in Nat
                             /\ taskset[t].et \in Nat
                             /\ task[t] \in TaskState
         /\ \A j \in DOMAIN job : /\ Spent[j] \in Nat /\ Spent[j] = job[j].et - job[j].rem
                                  /\ job[j].et \in Nat /\ job[j].rem \in Nat
                                  /\ j[1] \in Tasks
<1>1. IsFiniteSet(Tasks)
  BY FS_Interval, TaskParameters DEF IInv
<1>2. IsFiniteSet(DOMAIN job)
  <2>1. IsFiniteSet(Range(mySchedule)) /\ IsFiniteSet(Range(cancelled))
    BY RangeFinite DEF IInv, TypeOK
  <2> QED
    BY <2>1, FS_Union DEF IInv, SchedInv, JobsHeld
<1>3. ASSUME NEW t \in Tasks
      PROVE  Returned[t] \in Nat /\ taskset[t].et \in Nat /\ task[t] \in TaskState
  <2>1. /\ taskset[t].et \in Nat /\ task[t] \in TaskState
        /\ task[t].completions \in Nat /\ task[t].performanceLost \in Nat
    BY TaskParameters DEF IInv, TypeOK, TaskState, TaskRecord
  <2>2. task[t].completions * taskset[t].et \in Nat
    BY <2>1
  <2> QED
    BY <2>1, <2>2 DEF Returned
<1>4. ASSUME NEW j \in DOMAIN job
      PROVE  /\ Spent[j] \in Nat /\ Spent[j] = job[j].et - job[j].rem
             /\ job[j].et \in Nat /\ job[j].rem \in Nat
             /\ j[1] \in Tasks
  BY DEF IInv, TypeOK, SchedInv, StepsLeft, JobRecord, JobIds, Spent
<1> QED
  BY <1>1, <1>2, <1>3, <1>4
LEMMA SumsInt ==
  ASSUME IInv
  PROVE  SumOf(Returned, Tasks) \in Int /\ SumOf(Spent, DOMAIN job) \in Int
<1>1. PICK f, S, g, T : f = Returned /\ S = Tasks /\ g = Spent /\ T = DOMAIN job
  OBVIOUS
<1>2. /\ IsFiniteSet(S) /\ IsFiniteSet(T)
      /\ \A t \in S : f[t] \in Int
      /\ \A j \in T : g[j] \in Int
  BY <1>1, SumsFinite
<1>3. SumOf(f, S) \in Int
  BY <1>2, SumType
<1>4. SumOf(g, T) \in Int
  BY <1>2, SumType
<1> QED
  BY <1>1, <1>3, <1>4
-----------------------------------------------------------------------------
\* The sums of TimeAccounted are these.
LEMMA TimeIsAccounted ==
  ASSUME IInv, TimeInv
  PROVE  TimeAccounted
<1>1. MapThenSumSet(LAMBDA t : task[t].completions * taskset[t].et
                                   + task[t].performanceLost, Tasks) = SumOf(Returned, Tasks)
  <2> DEFINE S == Tasks
             Val(t) == task[t].completions * taskset[t].et + task[t].performanceLost
  <2>1. PICK f : f = Returned
    OBVIOUS
  <2>2. \A t \in S : f[t] = Val(t)
    BY <2>1 DEF Returned
  <2>3. IsFiniteSet(S)
    BY SumsFinite
  <2>4. PICK g : SumsTo(g, f, S)
    BY <2>3, SumsExist
  <2>5. \A s \in SUBSET S : s # {} => f[Choice(s)] = Val(CHOOSE x \in s : TRUE)
    BY <2>2, ChoiceIn DEF Choice
  <2>6. \E it : it = [s \in SUBSET S |->
                     IF s = {} THEN 0
                     ELSE (LET t == CHOOSE x \in s : TRUE
                           IN  task[t].completions * taskset[t].et + task[t].performanceLost)
                          + it[s \ {CHOOSE x \in s : TRUE}]]
    <3>1. g = [s \in SUBSET S |-> g[s]]
      BY <2>4 DEF SumsTo
    <3>2. ASSUME NEW s \in SUBSET S
          PROVE  g[s] = IF s = {} THEN 0
                        ELSE Val(CHOOSE x \in s : TRUE) + g[s \ {CHOOSE x \in s : TRUE}]
      <4>1. g[s] = IF s = {} THEN 0 ELSE f[Choice(s)] + g[s \ {Choice(s)}]
        BY <2>4 DEF SumsTo
      <4> QED
        BY <4>1, <2>5 DEF Choice
    <3>3. g = [s \in SUBSET S |->
                 IF s = {} THEN 0
                 ELSE Val(CHOOSE x \in s : TRUE) + g[s \ {CHOOSE x \in s : TRUE}]]
      <4> HIDE DEF S, Val
      <4> QED
        BY <3>1, <3>2
    <3> HIDE DEF S
    <3> QED
      BY <3>3
  <2>7. PICK it :
          /\ it = [s \in SUBSET S |->
                     IF s = {} THEN 0
                     ELSE (LET t == CHOOSE x \in s : TRUE
                           IN  task[t].completions * taskset[t].et + task[t].performanceLost)
                          + it[s \ {CHOOSE x \in s : TRUE}]]
          /\ MapThenSumSet(LAMBDA t : task[t].completions * taskset[t].et
                                   + task[t].performanceLost, S) = it[S]
    <3> HIDE DEF S
    <3> QED
      BY <2>6 DEF MapThenSumSet, MapThenFoldSet
  <2>8. SumsTo(it, f, S)
    <3> HIDE DEF S
    <3> QED
      BY <2>5, <2>7 DEF SumsTo, Choice
  <2> QED
    BY <2>1, <2>3, <2>7, <2>8, SumsAre
<1>2. MapThenSumSet(LAMBDA j : job[j].et - job[j].rem, DOMAIN job) = SumOf(Spent, DOMAIN job)
  <2> DEFINE S == DOMAIN job
             Val(j) == job[j].et - job[j].rem
  <2>1. PICK f : f = Spent
    OBVIOUS
  <2>2. \A j \in S : f[j] = Val(j)
    BY <2>1 DEF Spent
  <2>3. IsFiniteSet(S)
    BY SumsFinite
  <2>4. PICK g : SumsTo(g, f, S)
    BY <2>3, SumsExist
  <2>5. \A s \in SUBSET S : s # {} => f[Choice(s)] = Val(CHOOSE x \in s : TRUE)
    BY <2>2, ChoiceIn DEF Choice
  <2>6. \E it : it = [s \in SUBSET S |->
                     IF s = {} THEN 0
                     ELSE (LET j == CHOOSE x \in s : TRUE IN job[j].et - job[j].rem)
                          + it[s \ {CHOOSE x \in s : TRUE}]]
    <3>1. g = [s \in SUBSET S |-> g[s]]
      BY <2>4 DEF SumsTo
    <3>2. ASSUME NEW s \in SUBSET S
          PROVE  g[s] = IF s = {} THEN 0
                        ELSE Val(CHOOSE x \in s : TRUE) + g[s \ {CHOOSE x \in s : TRUE}]
      <4>1. g[s] = IF s = {} THEN 0 ELSE f[Choice(s)] + g[s \ {Choice(s)}]
        BY <2>4 DEF SumsTo
      <4> QED
        BY <4>1, <2>5 DEF Choice
    <3>3. g = [s \in SUBSET S |->
                 IF s = {} THEN 0
                 ELSE Val(CHOOSE x \in s : TRUE) + g[s \ {CHOOSE x \in s : TRUE}]]
      <4> HIDE DEF S, Val
      <4> QED
        BY <3>1, <3>2
    <3> HIDE DEF S
    <3> QED
      BY <3>3
  <2>7. PICK it :
          /\ it = [s \in SUBSET S |->
                     IF s = {} THEN 0
                     ELSE (LET j == CHOOSE x \in s : TRUE IN job[j].et - job[j].rem)
                          + it[s \ {CHOOSE x \in s : TRUE}]]
          /\ MapThenSumSet(LAMBDA j : job[j].et - job[j].rem, S) = it[S]
    <3> HIDE DEF S
    <3> QED
      BY <2>6 DEF MapThenSumSet, MapThenFoldSet
  <2>8. SumsTo(it, f, S)
    <3> HIDE DEF S
    <3> QED
      BY <2>5, <2>7 DEF SumsTo, Choice
  <2> QED
    BY <2>1, <2>3, <2>7, <2>8, SumsAre
<1> QED
  BY <1>1, <1>2 DEF TimeInv, TimeAccounted
-----------------------------------------------------------------------------
\* A step that changes neither the jobs nor what was returned: the time and the
\* idle steps may grow together.
LEMMA QuietTime ==
  ASSUME IInv, TimeInv, UNCHANGED <<taskset, job, task>>,
         \/ now' = now /\ idleSteps' = idleSteps
         \/ now' = now + 1 /\ idleSteps' = idleSteps + 1
  PROVE  TimeInv'
<1>1. Returned' = Returned /\ Spent' = Spent /\ Tasks' = Tasks /\ JobTimes'
  BY DEF Returned, Spent, Tasks, TimeInv, JobTimes
<1> DEFINE a == SumOf(Returned, Tasks)
           b == SumOf(Spent, DOMAIN job)
<1>2. SumOf(Returned, Tasks)' = a /\ SumOf(Spent, DOMAIN job)' = b
  BY <1>1 DEF SumOf, SumsTo
<1>3. a \in Int /\ b \in Int /\ idleSteps \in Int
  BY SumsInt DEF IInv, TypeOK
<1>4. now = idleSteps + a + b
  BY DEF TimeInv
<1> HIDE DEF a, b
<1>5. now' = idleSteps' + a + b
  BY <1>3, <1>4
<1> QED
  BY <1>1, <1>2, <1>5 DEF TimeInv

\* A job gets one step.
LEMMA ExecuteTime ==
  ASSUME IInv, IInv', TimeInv, Execute
  PROVE  TimeInv'
<1>1. PICK j : j = NextJob
  OBVIOUS
<1>2. /\ j # NoJob /\ job' = AfterStep(j)
      /\ UNCHANGED <<taskset, task, idleSteps>>
      /\ now' = now + 1
  BY <1>1 DEF Execute, ExecuteStep, DispatchStep, tasks, StepEnd, StepEndWith, fixed
<1>3. j \in DOMAIN job
  BY <1>1, <1>2, NextJobIsFirst
<1>4. /\ DOMAIN job' = DOMAIN job
      /\ \A i \in DOMAIN job :
           /\ job'[i].et = job[i].et
           /\ job'[i].rem = IF i = j THEN job[i].rem - 1 ELSE job[i].rem
  BY <1>2, <1>3, AfterStepJobs DEF IInv, SchedInv
<1>5. JobTimes' /\ Returned' = Returned /\ Tasks' = Tasks
  BY <1>2, <1>4 DEF TimeInv, JobTimes, Returned, Tasks
<1>6. PICK f, h, S : f = Spent /\ h = Spent' /\ S = DOMAIN job
  OBVIOUS
<1>7. /\ IsFiniteSet(S) /\ j \in S
      /\ \A i \in S : f[i] \in Int /\ f[i] = job[i].et - job[i].rem
      /\ \A i \in S : job[i].et \in Int /\ job[i].rem \in Int
  BY <1>3, <1>6, SumsFinite
<1>8. \A i \in S : h[i] = job'[i].et - job'[i].rem
  BY <1>4, <1>6 DEF Spent
<1>9. /\ \A i \in S : h[i] \in Int
      /\ h[j] = f[j] + 1
      /\ \A i \in S \ {j} : f[i] = h[i]
  BY <1>4, <1>6, <1>7, <1>8
<1> DEFINE a == SumOf(Returned, Tasks)
           b == SumOf(f, S)
<1>10. SumOf(h, S) = b + h[j] - f[j]
  BY <1>7, <1>9, SumChange
<1>11. SumOf(Returned, Tasks)' = a
  BY <1>5 DEF SumOf, SumsTo
<1>12. SumOf(Spent, DOMAIN job)' = SumOf(h, S)
  BY <1>4, <1>6 DEF SumOf, SumsTo
<1>13. a \in Int /\ b \in Int /\ idleSteps \in Int
  BY <1>6, SumsInt DEF IInv, TypeOK
<1>14. now = idleSteps + a + b
  BY <1>6 DEF TimeInv
<1> HIDE DEF a, b
<1>15. now' = idleSteps' + a + SumOf(h, S)
  BY <1>2, <1>7, <1>9, <1>10, <1>13, <1>14
<1> QED
  BY <1>5, <1>11, <1>12, <1>15 DEF TimeInv, a

\* The next job comes with nothing spent on it.
LEMMA ActivateTime ==
  ASSUME IInv, IInv', TimeInv, Activate
  PROVE  TimeInv'
<1>1. PICK j, t : t = index /\ j = NextJobId(index)
  OBVIOUS
<1>2. /\ UNCHANGED <<taskset, now, idleSteps>>
      /\ job' = [i \in DOMAIN job \cup {j} |-> IF i = j THEN NewJob(t) ELSE job[i]]
  BY <1>1 DEF Activate, SpawnJob, EnqueueJob, fixed
<1>3. PICK gap \in taskset[t].gaps :
        task' = [task EXCEPT ![t] = CountActivation(task[t], gap)]
  BY <1>1 DEF Activate, SpawnJob
<1>4. /\ t \in Tasks /\ j = <<t, task[t].activations>> /\ j \notin DOMAIN job
      /\ task \in [Tasks -> TaskState] /\ taskset[t].et \in Int
  <2>1. t \in Tasks /\ task \in [Tasks -> TaskState] /\ j = <<t, task[t].activations>>
    BY <1>1 DEF IInv, TypeOK, NextJobId
  <2>2. task[t].activations \in Nat
    BY <2>1 DEF TaskState
  <2> QED
    BY <2>1, <2>2, TaskParameters DEF IInv, SchedInv, JobsNumbered, TaskRecord
<1>5. /\ NewJob(t).et = taskset[t].et /\ NewJob(t).rem = taskset[t].et
  BY DEF NewJob
<1>6. /\ DOMAIN job' = DOMAIN job \cup {j}
      /\ job'[j].et = taskset[t].et /\ job'[j].rem = taskset[t].et
      /\ \A i \in DOMAIN job : job'[i] = job[i]
  BY <1>2, <1>4, <1>5
<1>7. JobTimes'
  BY <1>2, <1>4, <1>6 DEF TimeInv, JobTimes
<1>8. Returned' = Returned /\ Tasks' = Tasks
  <2>1. Tasks' = Tasks
    BY <1>2 DEF Tasks
  <2>2. /\ CountActivation(task[t], gap).completions = task[t].completions
        /\ CountActivation(task[t], gap).performanceLost = task[t].performanceLost
    BY <1>4 DEF CountActivation, TaskState
  <2>3. \A u \in Tasks : /\ task'[u].completions = task[u].completions
                         /\ task'[u].performanceLost = task[u].performanceLost
    BY <1>3, <1>4, <2>2
  <2> QED
    BY <1>2, <2>1, <2>3 DEF Returned
<1>9. PICK f, h, S : f = Spent /\ h = Spent' /\ S = DOMAIN job
  OBVIOUS
<1>10. /\ IsFiniteSet(S) /\ j \notin S
       /\ \A i \in S : f[i] \in Int /\ f[i] = h[i]
       /\ h[j] = 0
  BY <1>4, <1>6, <1>9, SumsFinite DEF Spent
<1> DEFINE a == SumOf(Returned, Tasks)
           b == SumOf(f, S)
<1>11. SumOf(h, S \cup {j}) = b
  <2> DEFINE T == S \cup {j}
  <2>1. IsFiniteSet(T)
    BY <1>10, FS_AddElement
  <2>2. SumOf(h, T) = h[j] + SumOf(h, T \ {j})
    <3>1. j \in T /\ \A i \in T : h[i] \in Int
      BY <1>10
    <3> HIDE DEF T
    <3> QED
      BY <2>1, <3>1, SumRemove
  <2>3. T \ {j} = S
    BY <1>10
  <2>4. SumOf(h, S) = b /\ b \in Int
    BY <1>10, SumSame, SumType
  <2> HIDE DEF b
  <2> QED
    BY <1>10, <2>2, <2>3, <2>4
<1>12. SumOf(Returned, Tasks)' = a
  BY <1>8 DEF SumOf, SumsTo
<1>13. SumOf(Spent, DOMAIN job)' = SumOf(h, S \cup {j})
  BY <1>6, <1>9 DEF SumOf, SumsTo
<1>14. now = idleSteps + a + b
  BY <1>9 DEF TimeInv
<1> HIDE DEF a, b
<1> QED
  BY <1>2, <1>7, <1>11, <1>12, <1>13, <1>14 DEF TimeInv

\* A job goes, after d more steps: what was spent on it is now on its task's account.
LEMMA ReturnTime ==
  ASSUME IInv, IInv', TimeInv, NEW j \in DOMAIN job, NEW d \in Nat,
         UNCHANGED <<taskset, idleSteps>>, now' = now + d,
         DOMAIN job' = DOMAIN job \ {j},
         \A i \in DOMAIN job' : job'[i].et = job[i].et /\ job'[i].rem = job[i].rem,
         \A u \in Tasks \ {j[1]} : task'[u] = task[u],
         task'[j[1]].completions * taskset[j[1]].et + task'[j[1]].performanceLost
           = Returned[j[1]] + Spent[j] + d
  PROVE  TimeInv'
<1>1. PICK t : t = j[1]
  OBVIOUS
<1>2. JobTimes' /\ Tasks' = Tasks
  BY DEF TimeInv, JobTimes, Tasks
<1>3. PICK f, h, S, T : f = Spent /\ h = Spent' /\ S = DOMAIN job /\ T = DOMAIN job'
  OBVIOUS
<1>4. PICK p, q, U : p = Returned /\ q = Returned' /\ U = Tasks
  OBVIOUS
<1>5. /\ IsFiniteSet(S) /\ j \in S /\ T = S \ {j}
      /\ \A i \in S : f[i] \in Int
      /\ \A i \in T : f[i] = h[i]
  BY <1>3, SumsFinite DEF Spent
<1>6. /\ IsFiniteSet(U) /\ t \in U
      /\ \A u \in U : p[u] \in Int
      /\ \A u \in U \ {t} : p[u] = q[u]
      /\ q[t] = p[t] + f[j] + d
  <2>1. t \in Tasks
    BY <1>1, SumsFinite
  <2>2. \A u \in Tasks : q[u] = task'[u].completions * taskset[u].et + task'[u].performanceLost
    BY <1>2, <1>4 DEF Returned
  <2>3. \A u \in Tasks \ {t} : p[u] = q[u]
    BY <1>1, <1>4, <2>2 DEF Returned
  <2>4. q[t] = p[t] + f[j] + d
    BY <1>1, <1>3, <1>4, <2>1, <2>2
  <2> QED
    BY <1>4, <2>1, <2>3, <2>4, SumsFinite
<1> DEFINE a == SumOf(p, U)
           b == SumOf(f, S)
           c == SumOf(f, T)
<1>7. b = f[j] + c
  BY <1>5, SumRemove
<1>8. SumOf(h, T) = c
  <2>1. IsFiniteSet(T)
    BY <1>5, FS_Subset
  <2> QED
    BY <1>5, <2>1, SumSame
<1>9. SumOf(q, U) = a + q[t] - p[t]
  <2>1. \A u \in U : p[u] \in Int /\ q[u] \in Int
    BY <1>5, <1>6
  <2> QED
    BY <1>6, <2>1, SumChange
<1>10. /\ SumOf(Returned, Tasks)' = SumOf(q, U)
       /\ SumOf(Spent, DOMAIN job)' = SumOf(h, T)
  BY <1>2, <1>3, <1>4 DEF SumOf, SumsTo
<1>11. a \in Int /\ c \in Int /\ idleSteps \in Int /\ f[j] \in Int /\ p[t] \in Int
  <2>1. T \in SUBSET S
    BY <1>5
  <2>2. c \in Int
    BY <1>5, <2>1, SumType
  <2> QED
    BY <1>4, <1>5, <1>6, <2>2, SumsInt DEF IInv, TypeOK
<1>12. now = idleSteps + a + b
  BY <1>3, <1>4 DEF TimeInv
<1> HIDE DEF a, b, c
<1>13. now' = idleSteps' + SumOf(q, U) + SumOf(h, T)
  BY <1>6, <1>7, <1>8, <1>9, <1>11, <1>12
<1> QED
  BY <1>2, <1>10, <1>13 DEF TimeInv

LEMMA CancelJobTime ==
  ASSUME IInv, IInv', TimeInv, CancelJob
  PROVE  TimeInv'
<1>1. PICK j, t : j = Head(cancelled) /\ t = j[1]
  OBVIOUS
<1>2. /\ UNCHANGED <<taskset, now, idleSteps>> /\ cancelled # << >>
      /\ job' = Delete(job, j)
      /\ task' = [task EXCEPT ![t] = CountCancel(task[t], j)]
  BY <1>1 DEF CancelJob, fixed
<1>3. j \in DOMAIN job /\ t \in Tasks /\ task \in [Tasks -> TaskState] /\ taskset[t].et \in Nat
  BY <1>1, <1>2, CancelledJob, SumsFinite DEF IInv, TypeOK
<1>4. DOMAIN job' = DOMAIN job \ {j} /\ \A i \in DOMAIN job' : job'[i] = job[i]
  BY <1>2 DEF Delete
<1>5. /\ CountCancel(task[t], j).completions = task[t].completions
      /\ CountCancel(task[t], j).performanceLost = task[t].performanceLost + Spent[j]
  BY <1>3 DEF CountCancel, TaskState, Spent
<1>6. task'[t] = CountCancel(task[t], j) /\ \A u \in Tasks \ {t} : task'[u] = task[u]
  BY <1>2, <1>3
<1>7. task'[t].completions * taskset[t].et + task'[t].performanceLost
        = Returned[t] + Spent[j] + 0
  <2> DEFINE work == task[t].completions * taskset[t].et
             lost == task[t].performanceLost
  <2>1. work \in Nat /\ lost \in Nat /\ Spent[j] \in Nat /\ Returned[t] = work + lost
    BY <1>3, SumsFinite DEF TaskState, Returned
  <2>2. task'[t].completions * taskset[t].et = work /\ task'[t].performanceLost = lost + Spent[j]
    BY <1>5, <1>6
  <2> HIDE DEF work, lost
  <2> QED
    BY <2>1, <2>2
<1>8. now' = now + 0 /\ 0 \in Nat
  BY <1>2 DEF IInv, TypeOK
<1> QED
  BY <1>1, <1>2, <1>3, <1>4, <1>6, <1>7, <1>8, ReturnTime

\* The step that finishes a job is counted with it.
LEMMA CompleteTime ==
  ASSUME IInv, IInv', TimeInv, Complete
  PROVE  TimeInv'
<1>1. PICK j, t : j = NextJob /\ t = j[1]
  OBVIOUS
<1>2. /\ UNCHANGED <<taskset, idleSteps>> /\ j # NoJob /\ job[j].rem = 1
      /\ job' = Delete(AfterStep(j), j)
      /\ task' = [task EXCEPT ![t] = CountCompletion(task[t], j)]
      /\ now' = now + 1
  BY <1>1 DEF Complete, CompleteStep, CompleteJob, DispatchFinish, StepEnd, StepEndWith, fixed
<1>3. j \in DOMAIN job /\ t \in Tasks /\ task \in [Tasks -> TaskState] /\ taskset[t].et \in Nat
  BY <1>1, <1>2, NextJobIsFirst, SumsFinite DEF IInv, TypeOK
<1>4. /\ DOMAIN job' = DOMAIN job \ {j}
      /\ \A i \in DOMAIN job' : job'[i].et = job[i].et /\ job'[i].rem = job[i].rem
  BY <1>2, <1>3, AfterStepJobs DEF Delete, IInv, SchedInv
<1>5. /\ CountCompletion(task[t], j).completions = task[t].completions + 1
      /\ CountCompletion(task[t], j).performanceLost = task[t].performanceLost
  BY <1>3 DEF CountCompletion, TaskState
<1>6. task'[t] = CountCompletion(task[t], j) /\ \A u \in Tasks \ {t} : task'[u] = task[u]
  BY <1>2, <1>3
<1>7. Spent[j] = taskset[t].et - 1
  BY <1>1, <1>2, <1>3 DEF Spent, TimeInv, JobTimes
<1>8. task'[t].completions * taskset[t].et + task'[t].performanceLost
        = Returned[t] + Spent[j] + 1
  <2> DEFINE et == taskset[t].et
             work == task[t].completions * et
             lost == task[t].performanceLost
  <2>1. /\ work \in Nat /\ lost \in Nat /\ et \in Nat /\ Returned[t] = work + lost
        /\ task[t].completions \in Nat
    BY <1>3 DEF TaskState, Returned
  <2>2. (task[t].completions + 1) * et = work + et
    BY <2>1
  <2>3. task'[t].completions * et = work + et /\ task'[t].performanceLost = lost
    BY <1>5, <1>6, <2>2
  <2>4. Spent[j] = et - 1
    BY <1>7
  <2> HIDE DEF work, lost, et
  <2>5. task'[t].completions * et + task'[t].performanceLost = Returned[t] + Spent[j] + 1
    BY <2>1, <2>3, <2>4
  <2> QED
    BY <2>5 DEF et
<1>9. 1 \in Nat
  OBVIOUS
<1> QED
  BY <1>1, <1>2, <1>3, <1>4, <1>6, <1>8, <1>9, ReturnTime
-----------------------------------------------------------------------------
LEMMA InitTime == Init => TimeInv
<1> SUFFICES ASSUME Init PROVE TimeInv
  OBVIOUS
<1>1. IInv
  BY InitInv
<1>2. now = 0 /\ idleSteps = 0 /\ DOMAIN job = {}
  BY DEF Init, SchedulerInit
<1>3. PICK f, g, S : f = Returned /\ g = Spent /\ S = Tasks
  OBVIOUS
<1>4. \A t \in Tasks : Returned[t] = 0
  <2> SUFFICES ASSUME NEW t \in Tasks PROVE Returned[t] = 0
    OBVIOUS
  <2>1. task[t].completions = 0 /\ task[t].performanceLost = 0
    BY DEF Init, Start
  <2>2. taskset[t].et \in Nat
    BY <1>1, SumsFinite
  <2>3. 0 * taskset[t].et = 0
    BY <2>2
  <2> QED
    BY <2>1, <2>3 DEF Returned
<1>5. SumOf(f, S) = 0
  BY <1>1, <1>3, <1>4, SumsFinite, SumOfZeros
<1>6. SumOf(g, {}) = 0
  BY SumEmpty
<1> QED
  BY <1>2, <1>3, <1>5, <1>6 DEF TimeInv, JobTimes

LEMMA NextTime ==
  IInv /\ IInv' /\ OrderInv /\ TimeInv /\ [Next]_vars => TimeInv'
<1> SUFFICES ASSUME IInv, IInv', OrderInv, TimeInv, [Next]_vars PROVE TimeInv'
  OBVIOUS
<1>1. CASE UNCHANGED vars
  BY <1>1, QuietTime DEF vars, fixed, tasks
<1>2. CASE Call
  BY <1>2, QuietTime DEF Call, Run, Finalise, FinaliseWith, fixed, tasks
<1>3. CASE MissKept \/ MissDropped \/ InitStepDone \/ NotYetActive \/ ScheduleDone
  BY <1>3, QuietTime
     DEF MissKept, MissDropped, InitStepDone, NotYetActive, ScheduleDone,
         PerformCancellations, fixed, tasks
<1>4. CASE CancelDone
  <2>1. pc # "cancelSchedule"
    BY DEF OrderInv, OneByOne
  <2>2. UNCHANGED <<taskset, job, task, now, idleSteps>>
    BY <1>4, <2>1 DEF CancelDone, ExitOnCancel, fixed, tasks
  <2> QED
    BY <2>2, QuietTime
<1>5. CASE Idle
  <2>1. /\ UNCHANGED <<taskset, job, task>>
        /\ now' = now + 1 /\ idleSteps' = idleSteps + 1
    BY <1>5 DEF Idle, IdleStep, DispatchIdle, StepEnd, StepEndWith, fixed, tasks
  <2> QED
    BY <2>1, QuietTime
<1>6. CASE CancelJob \/ Activate \/ Execute \/ Complete
  BY <1>6, CancelJobTime, ActivateTime, ExecuteTime, CompleteTime
<1>7. CASE Finished
  BY <1>1, <1>7 DEF Finished
<1> QED
  BY <1>1, <1>2, <1>3, <1>4, <1>5, <1>6, <1>7 DEF Next, Step

\* No step of the processor is lost or counted twice: the time is the idle steps
\* and the steps given to the jobs, gone or not, over calls that ended early and
\* calls made after them.
THEOREM SimulationTimeAccounted == Spec => []TimeAccounted
<1>1. Spec => [](IInv /\ TimeInv)
  BY InitTime, NextTime, SimulationInv, SimulationOrderInv, PTL DEF Spec
<1>2. IInv /\ TimeInv => TimeAccounted
  BY TimeIsAccounted
<1> QED
  BY <1>1, <1>2, PTL
-----------------------------------------------------------------------------
(* The ring of a monitor and the last k outcomes                            *)

\* The last k outcomes, the oldest first, where those that are not recorded yet count as
\* successes
Outcomes(mon, k) ==
  [i \in 1 .. k |-> IF i <= k - mon.recorded THEN 1 ELSE GetState(mon, k)[i]]

\* One outcome more
Shifted(outcomes, k, val) == [i \in 1 .. k |-> IF i = k THEN val ELSE outcomes[i + 1]]

Good(outcomes) == Cardinality({i \in DOMAIN outcomes : outcomes[i] = 1})

SumRight(mon, k) == mon.sum = Successes(mon.vals, 0 .. k - 1)

LEMMA ModBelow ==
  ASSUME NEW k \in Nat \ {0}, NEW a \in Nat, a < k + k
  PROVE  a % k = IF a < k THEN a ELSE a - k
OBVIOUS

LEMMA MonitorParts ==
  ASSUME NEW k \in Nat \ {0}, NEW mon \in Monitors(k)
  PROVE  /\ mon.vals \in [0 .. k - 1 -> Bit] /\ mon.pos \in 0 .. k - 1
         /\ mon.sum \in Int /\ mon.recorded \in Nat /\ mon.violations \in Nat
BY DEF Monitors

\* The entry of the ring that is the i-th oldest
LEMMA StateAt ==
  ASSUME NEW k \in Nat \ {0}, NEW mon \in Monitors(k), NEW i \in 1 .. k
  PROVE  GetState(mon, k)[i] =
           mon.vals[IF mon.pos + i - 1 < k THEN mon.pos + i - 1 ELSE mon.pos + i - 1 - k]
<1>1. PICK pos \in 0 .. k - 1 : pos = mon.pos
  BY MonitorParts
<1>2. PICK a \in Nat : a = pos + i - 1 /\ a < k + k
  OBVIOUS
<1>3. a % k = IF a < k THEN a ELSE a - k
  BY <1>2, ModBelow
<1>4. GetState(mon, k)[i] = mon.vals[a % k]
  BY <1>1, <1>2 DEF GetState
<1>5. a % k = IF pos + i - 1 < k THEN pos + i - 1 ELSE pos + i - 1 - k
  BY <1>2, <1>3
<1>6. GetState(mon, k)[i] = mon.vals[IF pos + i - 1 < k THEN pos + i - 1 ELSE pos + i - 1 - k]
  BY <1>4, <1>5, Zenon
<1> QED
  BY <1>1, <1>6, Zenon

\* push shifts the outcomes by one place.
LEMMA PushShifts ==
  ASSUME NEW k \in Nat \ {0}, NEW m, NEW val \in Bit, NEW mon \in Monitors(k)
  PROVE  Outcomes(Push(mon, m, k, val), k) = Shifted(Outcomes(mon, k), k, val)
<1> DEFINE new == Push(mon, m, k, val)
<1>1. /\ mon.vals \in [0 .. k - 1 -> Bit] /\ mon.pos \in 0 .. k - 1 /\ mon.recorded \in Nat
  BY MonitorParts
<1>2. new \in Monitors(k)
  BY PushType
<1>3. /\ new.vals = [mon.vals EXCEPT ![mon.pos] = val]
      /\ new.pos = (IF mon.pos + 1 >= k THEN 0 ELSE mon.pos + 1)
      /\ new.recorded = (IF mon.recorded < k THEN mon.recorded + 1 ELSE k)
  BY DEF Push
<1> HIDE DEF new
<1>4. ASSUME NEW i \in 1 .. k
      PROVE  Outcomes(new, k)[i] = IF i = k THEN val ELSE Outcomes(mon, k)[i + 1]
  <2>1. Outcomes(new, k)[i] = IF i <= k - new.recorded THEN 1 ELSE GetState(new, k)[i]
    BY DEF Outcomes
  <2>2. PICK p : p = IF new.pos + i - 1 < k THEN new.pos + i - 1 ELSE new.pos + i - 1 - k
    OBVIOUS
  <2>3. GetState(new, k)[i] = new.vals[p]
    BY <1>2, <2>2, StateAt
  <2>4. CASE i = k
    <3>1. p = mon.pos /\ ~ i <= k - new.recorded
      BY <1>1, <1>3, <2>2, <2>4
    <3> QED
      BY <1>1, <1>3, <2>1, <2>3, <2>4, <3>1
  <2>5. CASE i # k
    <3>1. i + 1 \in 1 .. k
      BY <2>5
    <3>2. PICK q : q = IF mon.pos + i < k THEN mon.pos + i ELSE mon.pos + i - k
      OBVIOUS
    <3>3. GetState(mon, k)[i + 1] = mon.vals[q]
      <4>1. PICK h \in 1 .. k : h = i + 1
        BY <3>1
      <4>2. mon.pos + h - 1 = mon.pos + i
        BY <1>1, <4>1
      <4> QED
        BY <3>2, <4>1, <4>2, StateAt
    <3>4. p = q /\ q \in 0 .. k - 1 /\ q # mon.pos
      <4>1. PICK a \in 0 .. k - 1 : a = mon.pos
        BY <1>1
      <4>2. q = IF a + i < k THEN a + i ELSE a + i - k
        BY <3>2, <4>1
      <4>3. new.pos = IF a + 1 >= k THEN 0 ELSE a + 1
        BY <1>3, <4>1
      <4>4. CASE a + 1 >= k
        <5>1. p = i - 1 /\ q = i - 1
          BY <2>2, <2>5, <4>2, <4>3, <4>4
        <5> QED
          BY <2>5, <4>1, <4>4, <5>1
      <4>5. CASE a + 1 < k
        <5>1. p = IF a + i < k THEN a + i ELSE a + i - k
          BY <2>2, <2>5, <4>3, <4>5
        <5> QED
          BY <2>5, <4>1, <4>2, <5>1
      <4> QED
        BY <4>4, <4>5
    <3>5. Outcomes(mon, k)[i + 1] =
            IF i + 1 <= k - mon.recorded THEN 1 ELSE GetState(mon, k)[i + 1]
      BY <3>1 DEF Outcomes
    <3>6. i <= k - new.recorded <=> i + 1 <= k - mon.recorded
      BY <1>1, <1>3
    <3>7. new.vals[p] = mon.vals[q]
      BY <1>1, <1>3, <3>4
    <3> QED
      BY <2>1, <2>3, <2>5, <3>3, <3>5, <3>6, <3>7
  <2> QED
    BY <2>4, <2>5
<1>5. Outcomes(new, k) = [i \in 1 .. k |-> IF i = k THEN val ELSE Outcomes(mon, k)[i + 1]]
  <2>1. Outcomes(new, k) = [i \in 1 .. k |-> Outcomes(new, k)[i]]
    BY DEF Outcomes
  <2> QED
    BY <1>4, <2>1
<1> QED
  BY <1>5 DEF Shifted, new

\* The successes at positions of which one is looked at apart
LEMMA SuccessesAt ==
  ASSUME NEW vals, NEW P, IsFiniteSet(P), NEW p \in P
  PROVE  /\ Successes(vals, P) \in Nat /\ Successes(vals, P \ {p}) \in Nat
         /\ Successes(vals, P) = Successes(vals, P \ {p}) + (IF vals[p] = 1 THEN 1 ELSE 0)
<1>1. PICK A, B : A = {i \in P : vals[i] = 1} /\ B = {i \in P \ {p} : vals[i] = 1}
  OBVIOUS
<1>2. IsFiniteSet(A) /\ IsFiniteSet(B)
  BY <1>1, FS_Subset
<1>3. Cardinality(A) \in Nat /\ Cardinality(B) \in Nat
  BY <1>2, FS_CardinalityType
<1>4. p \notin B
  BY <1>1
<1>5. CASE vals[p] = 1
  <2>1. A = B \cup {p}
    BY <1>1, <1>5
  <2>2. Cardinality(A) = Cardinality(B) + 1
    BY <1>2, <1>4, <2>1, FS_AddElement
  <2> QED
    BY <1>1, <1>3, <1>5, <2>2 DEF Successes
<1>6. CASE vals[p] # 1
  <2>1. A = B
    BY <1>1, <1>6
  <2>2. PICK c \in Nat : c = Cardinality(A) /\ c = Cardinality(B)
    BY <1>3, <2>1
  <2>3. c = c + 0
    OBVIOUS
  <2>4. Successes(vals, P) = c /\ Successes(vals, P \ {p}) = c
    BY <1>1, <2>2 DEF Successes
  <2> QED
    BY <1>6, <2>3, <2>4
<1> QED
  BY <1>5, <1>6

\* push keeps the sum the sum of the ring.
LEMMA PushSumRight ==
  ASSUME NEW k \in Nat \ {0}, NEW m, NEW val \in Bit, NEW mon \in Monitors(k),
         SumRight(mon, k)
  PROVE  SumRight(Push(mon, m, k, val), k)
<1> DEFINE new == Push(mon, m, k, val)
<1>1. /\ mon.vals \in [0 .. k - 1 -> Bit] /\ mon.pos \in 0 .. k - 1
  BY MonitorParts
<1>2. /\ new.vals = [mon.vals EXCEPT ![mon.pos] = val]
      /\ new.sum = mon.sum - mon.vals[mon.pos] + val
  BY DEF Push
<1> HIDE DEF new
<1>3. PICK P, p : P = 0 .. k - 1 /\ p = mon.pos
  OBVIOUS
<1>4. IsFiniteSet(P) /\ p \in P
  <2>1. IsFiniteSet(0 .. k - 1)
    BY FS_Interval
  <2> QED
    BY <1>1, <1>3, <2>1
<1>5. Successes(new.vals, P \ {p}) = Successes(mon.vals, P \ {p})
  <2>1. \A i \in P \ {p} : new.vals[i] = mon.vals[i]
    BY <1>1, <1>2, <1>3
  <2> QED
    BY <2>1 DEF Successes
<1>6. PICK a \in Nat, b \in Nat, c \in Nat :
        /\ a = Successes(mon.vals, P) /\ b = Successes(new.vals, P)
        /\ c = Successes(mon.vals, P \ {p})
        /\ a = c + (IF mon.vals[p] = 1 THEN 1 ELSE 0)
        /\ b = c + (IF new.vals[p] = 1 THEN 1 ELSE 0)
  BY <1>4, <1>5, SuccessesAt
<1>7. new.vals[p] = val /\ val \in {0, 1} /\ mon.vals[p] \in {0, 1}
  BY <1>1, <1>2, <1>3 DEF Bit
<1>8. new.sum = a - mon.vals[p] + val
  BY <1>2, <1>3, <1>6 DEF SumRight
<1>9. new.sum = b
  BY <1>6, <1>7, <1>8
<1> QED
  BY <1>3, <1>6, <1>9 DEF SumRight, new

\* Two sets that a function maps onto each other one to one are equally large.
LEMMA SameCount ==
  ASSUME NEW S, NEW T, IsFiniteSet(S), NEW f \in [S -> T],
         \A x, y \in S : f[x] = f[y] => x = y,
         \A z \in T : \E x \in S : f[x] = z
  PROVE  Cardinality(T) = Cardinality(S)
<1>1. f \in Bijection(S, T)
  BY DEF Bijection, Injection, Surjection, IsInjective
<1>2. ExistsBijection(S, T)
  BY <1>1 DEF ExistsBijection
<1> QED
  BY <1>2, FS_Bijection

\* The successes of two sets of positions that have none in common
LEMMA SuccessesTogether ==
  ASSUME NEW vals, NEW P, NEW Q, IsFiniteSet(P), IsFiniteSet(Q), P \cap Q = {}
  PROVE  /\ Successes(vals, P) \in Nat /\ Successes(vals, Q) \in Nat
         /\ Successes(vals, P \cup Q) = Successes(vals, P) + Successes(vals, Q)
<1>1. PICK A, B : A = {i \in P : vals[i] = 1} /\ B = {i \in Q : vals[i] = 1}
  OBVIOUS
<1>2. IsFiniteSet(A) /\ IsFiniteSet(B)
  BY <1>1, FS_Subset
<1>3. A \cap B = {} /\ {i \in P \cup Q : vals[i] = 1} = A \cup B
  BY <1>1
<1>4. Cardinality(A \cap B) = 0
  BY <1>3, FS_EmptySet
<1>5. PICK a \in Nat, b \in Nat : a = Cardinality(A) /\ b = Cardinality(B)
  BY <1>2, FS_CardinalityType
<1>6. Cardinality(A \cup B) = a + b - 0
  BY <1>2, <1>4, <1>5, FS_Union
<1>7. Cardinality(A \cup B) = a + b
  BY <1>6
<1> QED
  BY <1>1, <1>3, <1>5, <1>7 DEF Successes

\* While the ring fills, the outcomes that are recorded are its first entries.
LEMMA CountWhileFilling ==
  ASSUME NEW k \in Nat \ {0}, NEW mon \in Monitors(k), Filling(mon, k), mon.recorded < k
  PROVE  Good(Outcomes(mon, k))
           = (k - mon.recorded) + Successes(mon.vals, 0 .. mon.recorded - 1)
<1>1. PICK r \in 0 .. k - 1 : r = mon.recorded /\ r = mon.pos
  BY MonitorParts DEF Filling
<1>2. PICK c \in 1 .. k : c = k - r
  BY <1>1
<1> DEFINE A == {i \in 1 .. k : Outcomes(mon, k)[i] = 1}
           D == {i \in c + 1 .. k : mon.vals[i - c - 1] = 1}
           E == {j \in 0 .. r - 1 : mon.vals[j] = 1}
           f == [i \in D |-> i - c - 1]
<1>3. ASSUME NEW i \in 1 .. k
      PROVE  Outcomes(mon, k)[i] = IF i <= c THEN 1 ELSE mon.vals[i - c - 1]
  <2>1. Outcomes(mon, k)[i] = IF i <= c THEN 1 ELSE GetState(mon, k)[i]
    BY <1>1, <1>2 DEF Outcomes
  <2>2. CASE i <= c
    BY <2>1, <2>2
  <2>3. CASE ~ i <= c
    <3>1. GetState(mon, k)[i] = mon.vals[IF r + i - 1 < k THEN r + i - 1 ELSE r + i - 1 - k]
      BY <1>1, StateAt
    <3>2. (IF r + i - 1 < k THEN r + i - 1 ELSE r + i - 1 - k) = i - c - 1
      BY <1>2, <2>3
    <3> QED
      BY <2>1, <2>3, <3>1, <3>2, Zenon
  <2> QED
    BY <2>2, <2>3
<1>4. A = (1 .. c) \cup D
  <2>1. \A i \in 1 .. k : i \in A <=> (i <= c \/ mon.vals[i - c - 1] = 1)
    BY <1>3
  <2>2. 1 .. c \subseteq 1 .. k /\ c + 1 .. k \subseteq 1 .. k
    OBVIOUS
  <2>3. \A i \in 1 .. k : i \in 1 .. c <=> i <= c
    OBVIOUS
  <2>4. \A i \in 1 .. k : ~ i <= c <=> i \in c + 1 .. k
    OBVIOUS
  <2> QED
    BY <2>1, <2>2, <2>3, <2>4
<1>5. IsFiniteSet(1 .. c) /\ Cardinality(1 .. c) = c
  BY FS_Interval
<1>6. IsFiniteSet(D)
  <2>1. IsFiniteSet(c + 1 .. k)
    BY FS_Interval
  <2> QED
    BY <2>1, FS_Subset
<1>7. Cardinality(E) = Cardinality(D)
  <2>1. f \in [D -> E]
    BY <1>2
  <2>2. \A x, y \in D : f[x] = f[y] => x = y
    OBVIOUS
  <2>3. \A z \in E : \E x \in D : f[x] = z
    <3> SUFFICES ASSUME NEW z \in E PROVE \E x \in D : f[x] = z
      OBVIOUS
    <3>1. PICK x \in c + 1 .. k : x = z + c + 1
      BY <1>2
    <3>2. x - c - 1 = z
      BY <3>1
    <3> QED
      BY <3>1, <3>2
  <2> HIDE DEF D, E, f
  <2> QED
    BY <1>6, <2>1, <2>2, <2>3, SameCount
<1>8. (1 .. c) \cap D = {}
  OBVIOUS
<1>9. Cardinality((1 .. c) \cap D) = 0
  BY <1>8, FS_EmptySet
<1>10. PICK d \in Nat : d = Cardinality(D)
  BY <1>6, FS_CardinalityType
<1>11. Cardinality(A) = c + d - 0
  <2> HIDE DEF A, D
  <2> QED
    BY <1>4, <1>5, <1>6, <1>9, <1>10, FS_Union
<1>12. Good(Outcomes(mon, k)) = Cardinality(A)
  BY DEF Good, Outcomes
<1>13. Successes(mon.vals, 0 .. mon.recorded - 1) = d
  BY <1>1, <1>7, <1>10 DEF Successes
<1> HIDE DEF A
<1>14. Cardinality(A) = c + d
  BY <1>11
<1> QED
  BY <1>1, <1>2, <1>12, <1>13, <1>14

\* When the ring is full, the outcomes are its entries.
LEMMA CountWhenFull ==
  ASSUME NEW k \in Nat \ {0}, NEW mon \in Monitors(k), mon.recorded = k
  PROVE  Good(Outcomes(mon, k)) = Successes(mon.vals, 0 .. k - 1)
<1>1. PICK pos \in 0 .. k - 1 : pos = mon.pos
  BY MonitorParts
<1> DEFINE p(i) == IF pos + i - 1 < k THEN pos + i - 1 ELSE pos + i - 1 - k
           A == {i \in 1 .. k : mon.vals[p(i)] = 1}
           B == {j \in 0 .. k - 1 : mon.vals[j] = 1}
           f == [i \in A |-> p(i)]
<1>2. Good(Outcomes(mon, k)) = Cardinality(A)
  <2>1. ASSUME NEW i \in 1 .. k PROVE Outcomes(mon, k)[i] = mon.vals[p(i)]
    <3>1. ~ i <= k - mon.recorded
      OBVIOUS
    <3>2. Outcomes(mon, k)[i] = GetState(mon, k)[i]
      BY <3>1 DEF Outcomes
    <3>3. GetState(mon, k)[i] = mon.vals[p(i)]
      BY <1>1, StateAt
    <3> QED
      BY <3>2, <3>3
  <2>2. DOMAIN Outcomes(mon, k) = 1 .. k
    BY DEF Outcomes
  <2>3. {i \in DOMAIN Outcomes(mon, k) : Outcomes(mon, k)[i] = 1} = A
    BY <2>1, <2>2
  <2> QED
    BY <2>3 DEF Good
<1>3. IsFiniteSet(A)
  <2>1. IsFiniteSet(1 .. k)
    BY FS_Interval
  <2> QED
    BY <2>1, FS_Subset
<1>4. f \in [A -> B]
  OBVIOUS
<1>5. \A x, y \in A : f[x] = f[y] => x = y
  OBVIOUS
<1>6. \A z \in B : \E x \in A : f[x] = z
  <2> SUFFICES ASSUME NEW z \in B PROVE \E x \in A : f[x] = z
    OBVIOUS
  <2>1. PICK x : x = IF z >= pos THEN z - pos + 1 ELSE z - pos + 1 + k
    OBVIOUS
  <2>2. x \in 1 .. k /\ p(x) = z
    BY <2>1
  <2> QED
    BY <2>1, <2>2
<1>7. Cardinality(B) = Cardinality(A)
  <2> HIDE DEF A, B, f
  <2> QED
    BY <1>3, <1>4, <1>5, <1>6, SameCount
<1> QED
  BY <1>2, <1>7 DEF Successes

\* What getCurrentSum returns is the number of successes among the last k outcomes.
LEMMA CountOutcomes ==
  ASSUME NEW k \in Nat \ {0}, NEW mon \in Monitors(k), Filling(mon, k), SumRight(mon, k)
  PROVE  GetCurrentSum(mon, k) = Good(Outcomes(mon, k))
<1>1. PICK r \in 0 .. k : r = mon.recorded
  BY MonitorParts DEF Filling
<1>2. CASE r < k
  <2>1. GetCurrentSum(mon, k) = mon.sum - Successes(mon.vals, r .. k - 1) + (k - r)
    BY <1>1, <1>2, SumWhileFilling
  <2>2. Good(Outcomes(mon, k)) = (k - r) + Successes(mon.vals, 0 .. r - 1)
    BY <1>1, <1>2, CountWhileFilling
  <2>3. 0 .. k - 1 = (0 .. r - 1) \cup (r .. k - 1) /\ (0 .. r - 1) \cap (r .. k - 1) = {}
    BY <1>2
  <2>4. IsFiniteSet(0 .. r - 1) /\ IsFiniteSet(r .. k - 1)
    <3>1. IsFiniteSet(0 .. r - 1)
      BY FS_Interval
    <3>2. IsFiniteSet(r .. k - 1)
      BY FS_Interval
    <3> QED
      BY <3>1, <3>2
  <2>5. PICK a \in Nat, b \in Nat :
          /\ a = Successes(mon.vals, 0 .. r - 1) /\ b = Successes(mon.vals, r .. k - 1)
          /\ mon.sum = a + b
    <3>1. /\ Successes(mon.vals, 0 .. r - 1) \in Nat /\ Successes(mon.vals, r .. k - 1) \in Nat
          /\ Successes(mon.vals, (0 .. r - 1) \cup (r .. k - 1))
               = Successes(mon.vals, 0 .. r - 1) + Successes(mon.vals, r .. k - 1)
      BY <2>3, <2>4, SuccessesTogether
    <3> QED
      BY <2>3, <3>1 DEF SumRight
  <2>6. GetCurrentSum(mon, k) = (a + b) - b + (k - r)
    BY <2>1, <2>5
  <2>7. Good(Outcomes(mon, k)) = (k - r) + a
    BY <2>2, <2>5
  <2> QED
    BY <2>6, <2>7
<1>3. CASE r = k
  <2>1. Good(Outcomes(mon, k)) = Successes(mon.vals, 0 .. k - 1)
    BY <1>1, <1>3, CountWhenFull
  <2>2. GetCurrentSum(mon, k) = mon.sum
    BY <1>1, <1>3 DEF GetCurrentSum
  <2> QED
    BY <2>1, <2>2 DEF SumRight
<1> QED
  BY <1>2, <1>3

\* The sum that a monitor keeps is the sum of its ring.
SumInv == \A t \in Constrained : SumRight(monitor[t], taskset[t].k)

\* What the monitors of the tasks are like
LEMMA MonitorOf ==
  ASSUME IInv, ConstraintInv, NEW t \in Constrained
  PROVE  /\ t \in Tasks /\ DOMAIN monitor = Tasks
         /\ taskset[t].k \in Nat \ {0} /\ taskset[t].m \in Nat
         /\ monitor[t] \in Monitors(taskset[t].k) /\ Filling(monitor[t], taskset[t].k)
<1>1. t \in Tasks /\ taskset[t].k > 0 /\ Filling(monitor[t], taskset[t].k)
  BY DEF Constrained, ConstraintInv
<1>2. taskset[t].k \in Nat /\ taskset[t].m \in Nat
  BY <1>1, TaskParameters DEF IInv, TaskRecord
<1> QED
  BY <1>1, <1>2 DEF IInv, TypeOK

\* Steps that push nothing, to any monitor
LEMMA QuietSum ==
  ASSUME SumInv, UNCHANGED <<taskset, monitor>>
  PROVE  SumInv'
BY DEF SumInv, Constrained, Tasks

LEMMA PushKeepsSums ==
  ASSUME IInv, ConstraintInv, SumInv, NEW t \in Tasks, NEW val \in Bit, taskset' = taskset,
         monitor' = [monitor EXCEPT ![t] =
                       IF taskset[t].k > 0
                       THEN Push(@, taskset[t].m, taskset[t].k, val) ELSE @]
  PROVE  SumInv'
<1>1. Constrained' = Constrained
  BY DEF Constrained, Tasks
<1>2. ASSUME NEW u \in Constrained PROVE SumRight(monitor'[u], taskset[u].k)
  <2>1. /\ u \in Tasks /\ DOMAIN monitor = Tasks /\ taskset[u].k \in Nat \ {0}
        /\ monitor[u] \in Monitors(taskset[u].k)
    BY MonitorOf
  <2>2. SumRight(monitor[u], taskset[u].k)
    BY DEF SumInv
  <2>3. CASE u # t
    BY <2>1, <2>2, <2>3
  <2>4. CASE u = t
    <3>1. monitor'[u] = Push(monitor[u], taskset[u].m, taskset[u].k, val)
      BY <2>1, <2>4
    <3>2. PICK k, m, mon : k = taskset[u].k /\ m = taskset[u].m /\ mon = monitor[u]
      OBVIOUS
    <3>3. SumRight(Push(mon, m, k, val), k)
      BY <2>1, <2>2, <3>2, PushSumRight
    <3> QED
      BY <3>1, <3>2, <3>3
  <2> QED
    BY <2>3, <2>4
<1> QED
  BY <1>1, <1>2 DEF SumInv

\* The step that cancels a job pushes a failure, one that finishes a job a success.
LEMMA CancelPushes ==
  ASSUME IInv, CancelJob
  PROVE  \E j : /\ j = Head(cancelled) /\ j[1] \in Tasks
                /\ task' = [task EXCEPT ![j[1]] = CountCancel(@, j)]
                /\ taskset' = taskset
                /\ monitor' = [monitor EXCEPT ![j[1]] =
                                 IF taskset[j[1]].k > 0
                                 THEN Push(@, taskset[j[1]].m, taskset[j[1]].k, 0) ELSE @]
<1>1. PICK j, t : j = Head(cancelled) /\ t = j[1]
  OBVIOUS
<1>2. /\ cancelled # << >> /\ taskset' = taskset
      /\ task' = [task EXCEPT ![t] = CountCancel(@, j)]
      /\ monitor' = [monitor EXCEPT ![t] =
           IF taskset[t].k > 0
           THEN Push(monitor[t], taskset[t].m, taskset[t].k, 0) ELSE monitor[t]]
  BY <1>1 DEF CancelJob, fixed
<1>3. t \in Tasks
  BY <1>1, <1>2, CancelledJob DEF CancelJob
<1> QED
  BY <1>1, <1>2, <1>3

LEMMA CompletePushes ==
  ASSUME IInv, Complete
  PROVE  \E j : /\ j = NextJob /\ j[1] \in Tasks
                /\ task' = [task EXCEPT ![j[1]] = CountCompletion(@, j)]
                /\ taskset' = taskset
                /\ monitor' = [monitor EXCEPT ![j[1]] =
                                 IF taskset[j[1]].k > 0
                                 THEN Push(@, taskset[j[1]].m, taskset[j[1]].k, 1) ELSE @]
<1>1. PICK j, t : j = NextJob /\ t = j[1]
  OBVIOUS
<1>2. /\ j # NoJob /\ taskset' = taskset
      /\ task' = [task EXCEPT ![t] = CountCompletion(@, j)]
      /\ monitor' = [monitor EXCEPT ![t] =
           IF taskset[t].k > 0 THEN Push(@, taskset[t].m, taskset[t].k, 1) ELSE @]
  BY <1>1 DEF Complete, CompleteStep, CompleteJob, DispatchFinish, StepEnd, StepEndWith, fixed
<1>3. t \in Tasks
  BY <1>1, <1>2, NextJobIsFirst
<1> QED
  BY <1>1, <1>2, <1>3

LEMMA InitSum == Init => SumInv
<1> SUFFICES ASSUME Init, NEW t \in Constrained PROVE SumRight(monitor[t], taskset[t].k)
  BY DEF SumInv
<1> DEFINE k == taskset[t].k
           bits == [i \in 0 .. k - 1 |-> taskset[t].init[i + 1]]
<1>1. t \in Tasks
  BY DEF Constrained
<1>2. monitor[t] = NewMonitor(k, bits)
  BY <1>1 DEF Init
<1> HIDE DEF bits, k
<1>3. \A i \in 0 .. k - 1 : NewMonitor(k, bits).vals[i] = bits[i]
  BY DEF NewMonitor
<1>4. Successes(NewMonitor(k, bits).vals, 0 .. k - 1) = Successes(bits, 0 .. k - 1)
  BY <1>3 DEF Successes
<1>5. NewMonitor(k, bits).sum = Successes(bits, 0 .. k - 1)
  BY DEF NewMonitor
<1> QED
  BY <1>2, <1>4, <1>5 DEF SumRight, k

\* What the other steps leave alone
LEMMA NothingPushed ==
  ASSUME IInv, [Next]_vars, ~ CancelJob, ~ Complete
  PROVE  /\ UNCHANGED <<taskset, monitor>>
         /\ \/ task' = task
            \/ \E t \in Tasks : \E gap :
                 task' = [task EXCEPT ![t] = CountActivation(@, gap)]
<1>1. CASE UNCHANGED vars
  BY <1>1 DEF vars, fixed, tasks
<1>2. CASE Call
  BY <1>2 DEF Call, Run, Finalise, FinaliseWith, fixed, tasks
<1>3. CASE MissKept \/ MissDropped \/ InitStepDone \/ CancelDone
  BY <1>3 DEF MissKept, MissDropped, InitStepDone, PerformCancellations, CancelDone, fixed, tasks
<1>4. CASE NotYetActive \/ ScheduleDone
  BY <1>4 DEF NotYetActive, ScheduleDone, PerformCancellations, fixed, tasks
<1>5. CASE Idle \/ Execute
  BY <1>5 DEF Idle, IdleStep, Execute, ExecuteStep, StepEnd, StepEndWith, fixed, tasks
<1>6. CASE Activate
  <2>1. UNCHANGED <<taskset, monitor>>
    BY <1>6 DEF Activate, SpawnJob, fixed
  <2>2. index \in Tasks
    BY <1>6 DEF Activate, SpawnJob, IInv, TypeOK
  <2>3. PICK gap \in taskset[index].gaps :
          task' = [task EXCEPT ![index] = CountActivation(@, gap)]
    BY <1>6 DEF Activate, SpawnJob
  <2> QED
    BY <2>1, <2>2, <2>3
<1>7. CASE Finished
  BY <1>1, <1>7 DEF Finished
<1> QED
  BY <1>1, <1>2, <1>3, <1>4, <1>5, <1>6, <1>7 DEF Next, Step

LEMMA NextSum == IInv /\ OrderInv /\ ConstraintInv /\ SumInv /\ [Next]_vars => SumInv'
<1> SUFFICES ASSUME IInv, OrderInv, ConstraintInv, SumInv, [Next]_vars PROVE SumInv'
  OBVIOUS
<1>1. 0 \in Bit /\ 1 \in Bit
  BY DEF Bit
<1>2. CASE CancelJob
  <2>1. PICK j : /\ j[1] \in Tasks /\ taskset' = taskset
                 /\ monitor' = [monitor EXCEPT ![j[1]] =
                                  IF taskset[j[1]].k > 0
                                  THEN Push(@, taskset[j[1]].m, taskset[j[1]].k, 0) ELSE @]
    BY <1>2, CancelPushes
  <2> QED
    BY <1>1, <2>1, PushKeepsSums
<1>3. CASE Complete
  <2>1. PICK j : /\ j[1] \in Tasks /\ taskset' = taskset
                 /\ monitor' = [monitor EXCEPT ![j[1]] =
                                  IF taskset[j[1]].k > 0
                                  THEN Push(@, taskset[j[1]].m, taskset[j[1]].k, 1) ELSE @]
    BY <1>3, CompletePushes
  <2> QED
    BY <1>1, <2>1, PushKeepsSums
<1> QED
  BY <1>2, <1>3, NothingPushed, QuietSum

LEMMA SimulationSumInv == Spec => []SumInv
<1> QED
  BY InitSum, NextSum, SimulationInv, SimulationOrderInv, SimulationConstraintInv, PTL DEF Spec

\* The last k outcomes of the jobs of task t
LastOutcomes(t) == Outcomes(monitor[t], taskset[t].k)

\* MkMonitor::isStateValid, which reads a ring and a sum that are updated in place,
\* says whether m of the last k jobs were completed, those that are not there yet
\* counted as completed: the ring never gets out of step with the jobs.
THEOREM SimulationWindows ==
  Spec => [](\A t \in Constrained : Satisfied(t) <=> Good(LastOutcomes(t)) >= taskset[t].m)
<1>1. IInv /\ ConstraintInv /\ SumInv
        => \A t \in Constrained : Satisfied(t) <=> Good(LastOutcomes(t)) >= taskset[t].m
  <2> SUFFICES ASSUME IInv, ConstraintInv, SumInv, NEW t \in Constrained
               PROVE  Satisfied(t) <=> Good(LastOutcomes(t)) >= taskset[t].m
    OBVIOUS
  <2>1. PICK k, mon : k = taskset[t].k /\ mon = monitor[t]
    OBVIOUS
  <2>2. k \in Nat \ {0} /\ mon \in Monitors(k) /\ Filling(mon, k) /\ SumRight(mon, k)
    BY <2>1, MonitorOf DEF SumInv
  <2>3. GetCurrentSum(mon, k) = Good(Outcomes(mon, k))
    BY <2>2, CountOutcomes
  <2> QED
    BY <2>1, <2>3 DEF Satisfied, IsStateValid, LastOutcomes
<1> QED
  BY <1>1, SimulationInv, SimulationConstraintInv, SimulationSumInv, PTL

\* A violation is counted when fewer than m of the last k jobs were completed.
LEMMA PushCounts ==
  ASSUME NEW k \in Nat \ {0}, NEW m \in Nat, NEW val \in Bit,
         NEW mon \in Monitors(k), Filling(mon, k), SumRight(mon, k)
  PROVE  LET new == Push(mon, m, k, val)
         IN  new.violations - mon.violations
               = IF new.recorded >= k /\ Good(Outcomes(new, k)) < m THEN 1 ELSE 0
<1> DEFINE new == Push(mon, m, k, val)
<1>1. new \in Monitors(k) /\ Filling(new, k) /\ SumRight(new, k)
  BY PushType, PushSum, PushSumRight
<1>2. new.violations = mon.violations + (IF new.recorded >= k /\ new.sum < m THEN 1 ELSE 0)
  BY DEF Push
<1> HIDE DEF new
<1>3. GetCurrentSum(new, k) = Good(Outcomes(new, k))
  BY <1>1, CountOutcomes
<1>4. new.recorded >= k => new.sum = Good(Outcomes(new, k))
  <2>1. new.recorded \in Nat
    BY <1>1, MonitorParts
  <2> QED
    BY <1>3, <2>1 DEF GetCurrentSum
<1>5. PICK v \in Nat : v = mon.violations
  BY MonitorParts
<1>6. CASE new.recorded >= k /\ Good(Outcomes(new, k)) < m
  <2>1. new.violations = v + 1
    BY <1>2, <1>4, <1>5, <1>6
  <2> QED
    BY <1>5, <1>6, <2>1 DEF new
<1>7. CASE ~ (new.recorded >= k /\ Good(Outcomes(new, k)) < m)
  <2>1. new.violations = v + 0
    BY <1>2, <1>4, <1>5, <1>7
  <2>2. new.violations - mon.violations = 0
    BY <1>5, <2>1
  <2> QED
    BY <1>7, <2>2 DEF new
<1> QED
  BY <1>6, <1>7

\* What a step does to a task t with an (m,k) constraint: nothing, or it finishes one
\* of its jobs, which shifts the last k outcomes by one and counts a violation if
\* there are k jobs and too few of the last k were completed.
OutcomeOfStep(t) ==
  LET completed == task'[t].completions - task[t].completions
      cancelledNow == task'[t].cancellations - task[t].cancellations
      violated == monitor'[t].violations - monitor[t].violations
  IN  IF completed = 0 /\ cancelledNow = 0
      THEN monitor'[t] = monitor[t]
      ELSE /\ completed + cancelledNow = 1
           /\ LastOutcomes(t)' = Shifted(LastOutcomes(t), taskset[t].k, completed)
           /\ violated = IF /\ monitor'[t].recorded >= taskset[t].k
                            /\ Good(LastOutcomes(t)') < taskset[t].m
                         THEN 1 ELSE 0

OutcomesOfJobs == \A t \in Constrained : OutcomeOfStep(t)

LEMMA PushOutcome ==
  ASSUME IInv, ConstraintInv, SumInv, NEW t \in Tasks, NEW u \in Constrained,
         NEW val \in Bit, NEW counters, taskset' = taskset,
         counters.completions = task[t].completions + val,
         counters.cancellations = task[t].cancellations + (1 - val),
         task' = [task EXCEPT ![t] = counters],
         monitor' = [monitor EXCEPT ![t] =
                       IF taskset[t].k > 0
                       THEN Push(@, taskset[t].m, taskset[t].k, val) ELSE @]
  PROVE  OutcomeOfStep(u)
<1>1. PICK k, m, mon, mon1 : /\ k = taskset[u].k /\ m = taskset[u].m
                             /\ mon = monitor[u] /\ mon1 = monitor'[u]
  OBVIOUS
<1>2. /\ u \in Tasks /\ DOMAIN monitor = Tasks /\ k \in Nat \ {0} /\ m \in Nat
      /\ mon \in Monitors(k) /\ Filling(mon, k) /\ SumRight(mon, k)
  BY <1>1, MonitorOf DEF SumInv
<1>3. task \in [Tasks -> TaskState]
  BY DEF IInv, TypeOK
<1>4. PICK a \in Nat, b \in Nat : a = task[u].completions /\ b = task[u].cancellations
  BY <1>2, <1>3 DEF TaskState
<1>5. CASE u # t
  <2>1. mon1 = mon /\ task'[u] = task[u]
    BY <1>1, <1>2, <1>3, <1>5
  <2>2. a - a = 0 /\ b - b = 0
    OBVIOUS
  <2> QED
    BY <1>1, <1>4, <2>1, <2>2 DEF OutcomeOfStep
<1>6. CASE u = t
  <2>1. mon1 = Push(mon, m, k, val)
    BY <1>1, <1>2, <1>6
  <2>2. task'[u] = counters
    BY <1>3, <1>6
  <2>3. /\ task'[u].completions - task[u].completions = val
        /\ task'[u].cancellations - task[u].cancellations = 1 - val
    <3>1. val \in {0, 1}
      BY DEF Bit
    <3>2. counters.completions = a + val /\ counters.cancellations = b + (1 - val)
      BY <1>4, <1>6
    <3>3. (a + val) - a = val /\ (b + (1 - val)) - b = 1 - val
      BY <3>1
    <3> QED
      BY <1>4, <2>2, <3>2, <3>3
  <2>4. ~ (val = 0 /\ 1 - val = 0) /\ val + (1 - val) = 1
    BY DEF Bit
  <2>5. LastOutcomes(u) = Outcomes(mon, k) /\ LastOutcomes(u)' = Outcomes(mon1, k)
    BY <1>1 DEF LastOutcomes
  <2>6. Outcomes(mon1, k) = Shifted(Outcomes(mon, k), k, val)
    BY <1>2, <2>1, PushShifts
  <2>7. mon1.violations - mon.violations
          = IF mon1.recorded >= k /\ Good(Outcomes(mon1, k)) < m THEN 1 ELSE 0
    BY <1>2, <2>1, PushCounts
  <2> QED
    BY <1>1, <2>3, <2>4, <2>5, <2>6, <2>7 DEF OutcomeOfStep
<1> QED
  BY <1>5, <1>6

LEMMA NextOutcomes ==
  IInv /\ OrderInv /\ ConstraintInv /\ SumInv /\ [Next]_vars => OutcomesOfJobs
<1> SUFFICES ASSUME IInv, OrderInv, ConstraintInv, SumInv, [Next]_vars,
                    NEW u \in Constrained
             PROVE  OutcomeOfStep(u)
  BY DEF OutcomesOfJobs
<1>1. task \in [Tasks -> TaskState] /\ u \in Tasks
  BY DEF IInv, TypeOK, Constrained
<1>2. CASE CancelJob
  <2>1. PICK j : /\ j[1] \in Tasks /\ taskset' = taskset
                 /\ task' = [task EXCEPT ![j[1]] = CountCancel(@, j)]
                 /\ monitor' = [monitor EXCEPT ![j[1]] =
                                  IF taskset[j[1]].k > 0
                                  THEN Push(@, taskset[j[1]].m, taskset[j[1]].k, 0) ELSE @]
    BY <1>2, CancelPushes
  <2>2. PICK t : t \in Tasks /\ t = j[1]
    BY <2>1
  <2>3. PICK counters : counters = CountCancel(task[t], j)
    OBVIOUS
  <2>4. task[t] \in TaskState
    BY <1>1, <2>2
  <2>5. /\ counters.completions = task[t].completions + 0
        /\ counters.cancellations = task[t].cancellations + (1 - 0)
    BY <2>3, <2>4 DEF CountCancel, TaskState
  <2>6. 0 \in Bit
    BY DEF Bit
  <2>7. task' = [task EXCEPT ![t] = counters]
    BY <2>2, <2>1, <2>3
  <2> QED
    BY <2>2, <2>1, <2>5, <2>6, <2>7, PushOutcome
<1>3. CASE Complete
  <2>1. PICK j : /\ j[1] \in Tasks /\ taskset' = taskset
                 /\ task' = [task EXCEPT ![j[1]] = CountCompletion(@, j)]
                 /\ monitor' = [monitor EXCEPT ![j[1]] =
                                  IF taskset[j[1]].k > 0
                                  THEN Push(@, taskset[j[1]].m, taskset[j[1]].k, 1) ELSE @]
    BY <1>3, CompletePushes
  <2>2. PICK t : t \in Tasks /\ t = j[1]
    BY <2>1
  <2>3. PICK counters : counters = CountCompletion(task[t], j)
    OBVIOUS
  <2>4. task[t] \in TaskState
    BY <1>1, <2>2
  <2>5. /\ counters.completions = task[t].completions + 1
        /\ counters.cancellations = task[t].cancellations + (1 - 1)
    BY <2>3, <2>4 DEF CountCompletion, TaskState
  <2>6. 1 \in Bit
    BY DEF Bit
  <2>7. task' = [task EXCEPT ![t] = counters]
    BY <2>2, <2>1, <2>3
  <2> QED
    BY <2>2, <2>1, <2>5, <2>6, <2>7, PushOutcome
<1>4. CASE ~ CancelJob /\ ~ Complete
  <2>1. /\ monitor' = monitor
        /\ \/ task' = task
           \/ \E t \in Tasks : \E gap : task' = [task EXCEPT ![t] = CountActivation(@, gap)]
    BY <1>4, NothingPushed
  <2>2. /\ task'[u].completions = task[u].completions
        /\ task'[u].cancellations = task[u].cancellations
    <3>1. CASE task' = task
      BY <3>1
    <3>2. CASE task' # task
      <4>1. PICK t, gap : task' = [task EXCEPT ![t] = CountActivation(@, gap)]
        BY <2>1, <3>2
      <4>2. task[u] \in TaskState
        BY <1>1
      <4> QED
        BY <1>1, <4>1, <4>2 DEF CountActivation, TaskState
    <3> QED
      BY <3>1, <3>2
  <2>3. PICK a \in Nat, b \in Nat : a = task[u].completions /\ b = task[u].cancellations
    BY <1>1 DEF TaskState
  <2>4. a - a = 0 /\ b - b = 0
    OBVIOUS
  <2> QED
    BY <2>1, <2>2, <2>3, <2>4 DEF OutcomeOfStep
<1> QED
  BY <1>2, <1>3, <1>4

\* The outcomes of the jobs reach the monitor one by one, in order and once each, and
\* no step counts a violation but one that leaves fewer than m successes in the last k.
THEOREM SimulationOutcomes == Spec => [][OutcomesOfJobs]_vars
<1>1. IInv /\ OrderInv /\ ConstraintInv /\ SumInv /\ [Next]_vars => [OutcomesOfJobs]_vars
  BY NextOutcomes
<1> QED
  BY <1>1, SimulationInv, SimulationOrderInv, SimulationConstraintInv, SimulationSumInv,
     PTL DEF Spec
=============================================================================
