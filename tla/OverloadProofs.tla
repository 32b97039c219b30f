--------------------------- MODULE OverloadProofs ---------------------------
(***************************************************************************)
(* Proofs about Overload: whatever the schedulers give up or refuse, for   *)
(* any taskset and configuration, every job is held by exactly one list,   *)
(* started jobs are spared where they have to be, and the processor idles  *)
(* only when no job can meet its deadline any more.                        *)
(***************************************************************************)
EXTENDS Overload, ScheduleProofs

-----------------------------------------------------------------------------
(* Smallest numbers and best elements                                       *)

LEMMA MinIn ==
  ASSUME NEW S \in SUBSET Nat, S # {}
  PROVE  Min(S) \in S /\ \A x \in S : Min(S) <= x
<1> DEFINE R == OpToRel(<, Nat)
<1>1. IsWellFoundedOn(R, Nat)
  BY NatLessThanWellFounded
<1>2. PICK m \in S : \A x \in S : <<x, m>> \notin R
  <2> HIDE DEF R
  <2> QED
    BY <1>1, WFMin
<1>3. ASSUME NEW x \in S PROVE m <= x
  <2>1. m \in Nat /\ x \in Nat
    OBVIOUS
  <2>2. ~ (x < m)
    BY <1>2, <2>1 DEF OpToRel
  <2> QED
    BY <2>1, <2>2
<1> QED
  BY <1>2, <1>3 DEF Min

\* A finite set has an element that none of the others is better than, ...
LEMMA BestExists ==
  ASSUME NEW S, IsFiniteSet(S), S # {}, NEW B,
         \A x \in S : <<x, x>> \notin B,
         \A x, y, z \in S : <<x, y>> \in B /\ <<y, z>> \in B => <<x, z>> \in B
  PROVE  \E b \in S : \A x \in S : <<x, b>> \notin B
<1> DEFINE T == {s \in SUBSET S : s # {} /\ \A b \in s : \E x \in s : <<x, b>> \in B}
<1> SUFFICES ASSUME T # {} PROVE FALSE
  <2>1. S \notin T
    OBVIOUS
  <2> QED
    BY <2>1
<1>0. T \in SUBSET (SUBSET S)
  OBVIOUS
<1>1. PICK s \in T : \A r \in T : r \subseteq s => r = s
  <2> HIDE DEF T
  <2> QED
    BY <1>0, MinimalSubset
<1>2. PICK c \in s : TRUE
  OBVIOUS
<1>3. s \ {c} \in SUBSET S /\ s \ {c} # s /\ s \ {c} \subseteq s /\ s \in SUBSET S
  BY <1>2
<1>4. s \ {c} \notin T
  BY <1>1, <1>3
<1>5. CASE s \ {c} = {}
  <2>1. s = {c}
    BY <1>2, <1>5
  <2> QED
    BY <1>3, <2>1
<1>6. CASE s \ {c} # {}
  <2>1. PICK b \in s \ {c} : \A x \in s \ {c} : <<x, b>> \notin B
    BY <1>3, <1>4, <1>6
  <2>2. <<c, b>> \in B
    BY <2>1
  <2>3. PICK x \in s : <<x, c>> \in B
    OBVIOUS
  <2>4. x \in S /\ b \in S /\ c \in S
    BY <1>3
  <2>5. <<x, b>> \in B /\ x # c
    BY <2>2, <2>3, <2>4
  <2> QED
    BY <2>1, <2>5
<1> QED
  BY <1>5, <1>6

\* ... and of fractions one is smaller than another in a transitive way.
LEMMA LessTransitive ==
  ASSUME NEW a \in Nat \X Nat, NEW b \in Nat \X Nat, NEW c \in Nat \X Nat,
         Less(a, b), Less(b, c)
  PROVE  Less(a, c)
<1> DEFINE a1 == a[1] a2 == a[2] b1 == b[1] b2 == b[2] c1 == c[1] c2 == c[2]
<1>1. a1 \in Nat /\ a2 \in Nat /\ b1 \in Nat /\ b2 \in Nat /\ c1 \in Nat /\ c2 \in Nat
  OBVIOUS
<1>2. a1 * b2 < b1 * a2 /\ b1 * c2 < c1 * b2
  BY DEF Less
<1> HIDE DEF a1, a2, b1, b2, c1, c2
<1>3. a2 > 0 /\ b1 > 0 /\ b2 > 0 /\ c1 > 0
  <2>1. a2 # 0 /\ b1 # 0 /\ b2 # 0 /\ c1 # 0
    BY <1>1, <1>2
  <2> QED
    BY <1>1, <2>1
<1>4. b2 * (a1 * c2) <= a2 * (b1 * c2)
  <2> DEFINE p == a1 * b2
             q == b1 * a2
  <2>1. p \in Nat /\ q \in Nat /\ p <= q
    BY <1>1, <1>2
  <2>2. b2 * (a1 * c2) = p * c2 /\ a2 * (b1 * c2) = q * c2
    BY <1>1
  <2> HIDE DEF p, q
  <2>3. p * c2 <= q * c2
    BY <1>1, <2>1
  <2> QED
    BY <2>2, <2>3
<1>5. a2 * (b1 * c2) < b2 * (c1 * a2)
  <2> DEFINE p == b1 * c2
             q == c1 * b2
  <2>1. p \in Nat /\ q \in Nat /\ p < q
    BY <1>1, <1>2
  <2>2. b2 * (c1 * a2) = a2 * q
    BY <1>1
  <2> HIDE DEF p, q
  <2>3. a2 * p < a2 * q
    BY <1>1, <1>3, <2>1
  <2> QED
    BY <2>2, <2>3 DEF p
<1>6. a1 * c2 < c1 * a2
  <2> DEFINE p == a1 * c2
             q == c1 * a2
             r == a2 * (b1 * c2)
  <2>1. p \in Nat /\ q \in Nat /\ r \in Nat /\ b2 * p <= r /\ r < b2 * q
    BY <1>1, <1>4, <1>5
  <2> HIDE DEF p, q, r
  <2>2. b2 * p < b2 * q
    BY <1>1, <2>1
  <2>3. p < q
    BY <1>1, <1>3, <2>1, <2>2
  <2> QED
    BY <2>3 DEF p, q
<1> QED
  BY <1>6 DEF Less, a1, a2, c1, c2
-----------------------------------------------------------------------------
(* The utility aggregators                                                  *)

Window(k) == 0 .. k - 1

Aggregators(k) ==
  [class : {"UAWMK", "UAMean"}, m : Nat, size : {k}, values : [Window(k) -> Bit],
   current : Int, sum : Int, total : Nat, count : Nat]

\* The sum that UAWMK keeps is that of its window.
AggregatorOK(a, k) ==
  /\ a \in Aggregators(k)
  /\ IF k > 0 THEN /\ a.class = "UAWMK"
                   /\ a.current \in Window(k)
                   /\ a.sum = SumOf(a.values, Window(k))
              ELSE a.class = "UAMean"

\* The oldest entry is the one before the newest.
LEMMA OldestEntry ==
  ASSUME NEW k \in Nat \ {0}, NEW c \in 0 .. k - 1
  PROVE  (c + (k - 1)) % k = IF c = 0 THEN k - 1 ELSE c - 1
<1>1. CASE c = 0
  BY <1>1
<1>2. CASE c # 0
  <2> DEFINE d == c - 1
  <2>1. d \in 0 .. k - 1 /\ c + (k - 1) = d + k
    BY <1>2
  <2> HIDE DEF d
  <2>2. (d + k) % k = d
    BY <2>1
  <2> QED
    BY <1>2, <2>1, <2>2 DEF d
<1> QED
  BY <1>1, <1>2

LEMMA WindowFinite ==
  ASSUME NEW k \in Nat
  PROVE  IsFiniteSet(Window(k)) /\ Cardinality(Window(k)) = k
<1>1. 0 \in Int /\ k - 1 \in Int
  OBVIOUS
<1> QED
  BY <1>1, FS_Interval DEF Window

\* A sum of natural numbers is at least each of them.
LEMMA SumAtLeast ==
  ASSUME NEW S, IsFiniteSet(S), NEW f, \A x \in S : f[x] \in Nat, NEW x \in S
  PROVE  SumOf(f, S) \in Nat /\ SumOf(f, S) >= f[x]
<1>1. SumOf(f, S) = f[x] + SumOf(f, S \ {x})
  BY SumRemove
<1>2. SumOf(f, S \ {x}) \in Nat
  BY SumNat
<1> QED
  BY <1>1, <1>2

LEMMA NewAggregatorOK ==
  ASSUME NEW ts \in TaskRecord
  PROVE  AggregatorOK(AggregatorOf(ts), ts.k)
<1> DEFINE k == ts.k
           a == AggregatorOf(ts)
<1>1. k \in Nat /\ ts.m \in Nat
  BY DEF TaskRecord
<1>2. CASE k > 0
  <2>1. a = NewAggregator("UAWMK", ts.m, k)
    BY <1>2 DEF AggregatorOf
  <2>2. PICK f : f = [i \in 0 .. k - 1 |-> 1]
    OBVIOUS
  <2>3. a = [class |-> "UAWMK", m |-> ts.m, size |-> k, values |-> f, current |-> k - 1,
             sum |-> k, total |-> 0, count |-> 0]
    BY <2>1, <2>2 DEF NewAggregator
  <2>4. SumOf(f, Window(k)) = k
    <3>1. \A i \in Window(k) : f[i] = 1
      BY <2>2 DEF Window
    <3> QED
      BY <1>1, <3>1, WindowFinite, SumOfOnes
  <2>5. f \in [Window(k) -> Bit] /\ k - 1 \in Window(k) /\ k - 1 \in Int
    BY <1>1, <1>2, <2>2 DEF Window, Bit
  <2> HIDE DEF a
  <2> QED
    BY <1>1, <1>2, <2>3, <2>4, <2>5 DEF AggregatorOK, Aggregators, a
<1>3. CASE k = 0
  <2>1. a = NewAggregator("UAMean", 1, 0)
    BY <1>3 DEF AggregatorOf
  <2>2. [i \in 0 .. 0 - 1 |-> 1] \in [Window(0) -> Bit]
    BY DEF Window, Bit
  <2> HIDE DEF a
  <2> QED
    BY <1>3, <2>1, <2>2 DEF NewAggregator, AggregatorOK, Aggregators, a
<1> QED
  BY <1>1, <1>2, <1>3

LEMMA AddUtilityOK ==
  ASSUME NEW k \in Nat, NEW a, AggregatorOK(a, k), NEW u \in Bit
  PROVE  AggregatorOK(AddUtility(a, u), k)
<1> DEFINE b == [a EXCEPT !.total = a.total + u, !.count = a.count + 1]
<1>1. /\ a \in Aggregators(k) /\ b \in Aggregators(k) /\ u \in Nat
      /\ b.class = a.class /\ b.size = k /\ b.current = a.current /\ b.values = a.values
      /\ b.sum = a.sum
  <2>1. a \in Aggregators(k) /\ u \in Nat
    BY DEF AggregatorOK, Bit
  <2>2. a.total + u \in Nat /\ a.count + 1 \in Nat
    BY <2>1 DEF Aggregators
  <2> QED
    BY <2>1, <2>2 DEF Aggregators
<1> HIDE DEF b
<1>2. CASE k = 0
  <2>1. AddUtility(a, u) = b
    BY <1>2 DEF AddUtility, AggregatorOK, b
  <2> QED
    BY <1>1, <1>2, <2>1 DEF AggregatorOK
<1>3. CASE k > 0
  <2> DEFINE at == IF a.current = 0 THEN k - 1 ELSE a.current - 1
  <2>1. /\ a.class = "UAWMK" /\ a.current \in 0 .. k - 1 /\ a.sum = SumOf(a.values, Window(k))
        /\ a.values \in [Window(k) -> Bit]
    BY <1>3 DEF AggregatorOK, Aggregators, Window
  <2>2. at \in Window(k) /\ at \in Int
    BY <1>3, <2>1 DEF Window
  <2>3. Oldest(b) = a.values[at]
    <3>1. (a.current + (k - 1)) % k = at
      BY <1>3, <2>1, OldestEntry
    <3> QED
      BY <1>1, <3>1 DEF Oldest, Entry
  <2>4. AddToWindow(b, u) = [b EXCEPT !.values = [a.values EXCEPT ![at] = u], !.current = at]
    BY <1>1 DEF AddToWindow
  <2> HIDE DEF at
  <2>5. PICK f, g : f = a.values /\ g = [a.values EXCEPT ![at] = u]
    OBVIOUS
  <2> DEFINE c == [b EXCEPT !.values = g, !.current = at]
             d == [c EXCEPT !.sum = c.sum - f[at] + u]
  <2>6. /\ g \in [Window(k) -> Bit] /\ f \in [Window(k) -> Bit] /\ g[at] = u
        /\ \A i \in Window(k) \ {at} : g[i] = f[i]
    BY <2>1, <2>2, <2>5
  <2>7. SumOf(g, Window(k)) = SumOf(f, Window(k)) + g[at] - f[at]
    <3>1. PICK W, x : W = Window(k) /\ x = at
      OBVIOUS
    <3>2. /\ IsFiniteSet(W) /\ x \in W
          /\ \A i \in W : f[i] \in Int /\ g[i] \in Int
          /\ \A i \in W \ {x} : f[i] = g[i]
      BY <2>2, <2>6, <3>1, WindowFinite DEF Bit
    <3>3. SumOf(g, W) = SumOf(f, W) + g[x] - f[x]
      BY <3>2, SumChange
    <3> QED
      BY <3>1, <3>3
  <2>8. c \in Aggregators(k) /\ c.sum = a.sum /\ c.class = a.class
    BY <1>1, <2>2, <2>6 DEF Aggregators
  <2>9. f[at] \in Nat /\ a.sum \in Int
    BY <1>1, <2>2, <2>6 DEF Aggregators, Bit
  <2>10. /\ d \in Aggregators(k) /\ d.class = "UAWMK" /\ d.current = at
         /\ d.sum = a.sum - f[at] + u /\ d.values = g
    <3>1. c.sum - f[at] + u \in Int
      BY <1>1, <2>8, <2>9
    <3>2. c.values = g /\ c.current = at
      BY <1>1 DEF Aggregators
    <3> HIDE DEF c
    <3> QED
      BY <2>1, <2>8, <3>1, <3>2 DEF Aggregators
  <2>11. d.sum = SumOf(g, Window(k))
    BY <1>1, <2>1, <2>5, <2>6, <2>7, <2>9, <2>10
  <2>12. AddUtility(a, u) = d
    <3>1. AddToWindow(b, u) = c
      BY <2>4, <2>5
    <3>2. AddHook(b, u) = d
      BY <2>3, <2>5, <3>1 DEF AddHook
    <3>3. AddUtility(a, u) = AddHook(b, u)
      BY <2>1 DEF AddUtility, b
    <3> QED
      BY <3>2, <3>3
  <2> HIDE DEF d
  <2> QED
    BY <1>3, <2>2, <2>10, <2>11, <2>12 DEF AggregatorOK
<1> QED
  BY <1>2, <1>3

\* What an aggregator predicts is a fraction of natural numbers.
LEMMA PredictUtilityType ==
  ASSUME NEW k \in Nat, NEW a, AggregatorOK(a, k), NEW u \in Bit
  PROVE  PredictUtility(a, u) \in Nat \X Nat
<1>1. a \in Aggregators(k) /\ u \in Nat
  BY DEF AggregatorOK, Bit
<1>2. CASE k = 0
  <2>1. a.total + u \in Nat /\ a.count + 1 \in Nat
    BY <1>1 DEF Aggregators
  <2> QED
    BY <1>2, <2>1 DEF AggregatorOK, PredictUtility, PredictMean
<1>3. CASE k > 0
  <2>1. PICK f, c : f = a.values /\ c = a.current
    OBVIOUS
  <2>2. /\ c \in 0 .. k - 1 /\ a.sum = SumOf(f, Window(k)) /\ a.class = "UAWMK" /\ a.size = k
        /\ f \in [Window(k) -> Bit] /\ a.m \in Nat
    BY <1>3, <2>1 DEF AggregatorOK, Aggregators, Window
  <2> DEFINE at == IF c = 0 THEN k - 1 ELSE c - 1
  <2>3. at \in Window(k)
    BY <1>3, <2>2 DEF Window
  <2>4. Oldest(a) = f[at]
    <3>1. (c + (k - 1)) % k = at
      BY <1>3, <2>2, OldestEntry
    <3> QED
      BY <2>1, <2>2, <3>1 DEF Oldest, Entry
  <2> HIDE DEF at
  <2>5. \A i \in Window(k) : f[i] \in Nat
    BY <2>2 DEF Bit
  <2>6. SumOf(f, Window(k)) \in Nat /\ SumOf(f, Window(k)) >= f[at]
    BY <2>3, <2>5, WindowFinite, SumAtLeast
  <2>7. a.sum - Oldest(a) + u \in Nat
    BY <1>1, <2>2, <2>3, <2>4, <2>5, <2>6
  <2> QED
    BY <2>2, <2>7 DEF PredictUtility, PredictMk
<1> QED
  BY <1>2, <1>3
-----------------------------------------------------------------------------
(* The choice of OEDFScheduler::schedule                                    *)

AggregatorsOK ==
  /\ DOMAIN ua = Tasks
  /\ \A t \in Tasks : AggregatorOK(ua[t], taskset[t].k)

LEMMA CalcValueType ==
  ASSUME TypeOK, AggregatorsOK, variant \in OEDFVariants, NEW j \in DOMAIN job
  PROVE  \A time : CalcValue(j, time) \in Nat \X Nat
<1> SUFFICES ASSUME NEW time PROVE CalcValue(j, time) \in Nat \X Nat
  OBVIOUS
<1> DEFINE t == j[1]
           exec == PossibleExecValue(j, time)
           history == PossibleHistoryValue(j, time)
<1>1. job[j] \in JobRecord /\ j \in JobIds
  BY DEF TypeOK
<1>2. t \in Tasks /\ taskset[t].k \in Nat /\ AggregatorOK(ua[t], taskset[t].k)
  BY <1>1, TaskParameters DEF JobIds, TaskRecord, AggregatorsOK
<1>3. exec \in Bit /\ exec \in Nat
  BY DEF PossibleExecValue, FirmUtility, Bit
<1>4. history \in Nat \X Nat
  BY <1>2, <1>3, PredictUtilityType DEF PossibleHistoryValue
<1>5. PossibleFailHistoryValue(j) \in Nat \X Nat
  <2>1. 0 \in Bit
    BY DEF Bit
  <2> QED
    BY <1>2, <2>1, PredictUtilityType DEF PossibleFailHistoryValue
<1>6. job[j].rem \in Nat /\ job[j].et \in Nat
  BY <1>1 DEF JobRecord
<1>7. TaskDistance(t) \in Nat /\ job[j].et * TaskDistance(t) \in Nat
  BY <1>6 DEF TaskDistance
<1>8. history[1] \in Nat /\ history[2] \in Nat /\ history[1] * job[j].rem \in Nat
  BY <1>4, <1>6
<1> HIDE DEF exec, history, t
<1>9. CASE variant = "HCEDF"
  <2>1. CalcValue(j, time) = <<history[1] * job[j].rem, history[2]>>
    BY <1>9 DEF CalcValue, history
  <2> QED
    BY <1>8, <2>1
<1>10. CASE variant = "PHCEDF"
  <2>1. CalcValue(j, time) = history
    BY <1>10 DEF CalcValue, history
  <2> QED
    BY <1>4, <2>1
<1>11. CASE variant = "DBPEDF"
  <2>1. CalcValue(j, time) = <<TaskDistance(t), 1>>
    BY <1>11 DEF CalcValue, t
  <2> QED
    BY <1>7, <2>1
<1>12. CASE variant = "MKUEDF"
  <2>1. CalcValue(j, time) = IF MustStillExecute(j) THEN Zero ELSE PossibleFailHistoryValue(j)
    BY <1>12 DEF CalcValue
  <2> QED
    BY <1>5, <2>1 DEF Zero
<1>13. CASE variant = "DVDEDF"
  <2>1. CalcValue(j, time) = <<exec, job[j].rem>>
    BY <1>13 DEF CalcValue, exec
  <2> QED
    BY <1>3, <1>6, <2>1
<1>14. CASE variant = "BEEDF"
  <2>1. CalcValue(j, time) = <<exec, job[j].et>>
    BY <1>14 DEF CalcValue, exec
  <2> QED
    BY <1>3, <1>6, <2>1
<1>15. CASE variant = "GMUAMK"
  <2>1. CalcValue(j, time) = <<exec, job[j].et * TaskDistance(t)>>
    BY <1>15 DEF CalcValue, exec, t
  <2> QED
    BY <1>3, <1>7, <2>1
<1> QED
  BY <1>9, <1>10, <1>11, <1>12, <1>13, <1>14, <1>15 DEF OEDFVariants, MaxVariants, MinVariants

\* The job that misses and the job that is chosen are in the schedule, and the
\* one that is chosen may be cancelled.
LEMMA MissInSchedule ==
  ASSUME TypeOK, Misses # {}
  PROVE  Min(Misses) \in DOMAIN mySchedule /\ DOMAIN mySchedule = 1 .. Len(mySchedule)
<1>1. DOMAIN mySchedule = 1 .. Len(mySchedule)
  BY LenProperties DEF TypeOK
<1>2. PICK M : M = Misses
  OBVIOUS
<1>3. M \subseteq 1 .. Len(mySchedule)
  BY <1>1, <1>2 DEF Misses, MissPositions
<1>4. M \in SUBSET Nat /\ M # {}
  BY <1>2, <1>3
<1>5. Min(M) \in M
  BY <1>4, MinIn
<1> QED
  BY <1>1, <1>2, <1>3, <1>5

LEMMA BestIsCandidate ==
  ASSUME TypeOK, JobsHeld, AggregatorsOK, variant \in OEDFVariants,
         NEW miss \in DOMAIN mySchedule, Candidates(miss) # {}
  PROVE  /\ Best(miss) \in DOMAIN mySchedule
         /\ mySchedule[Best(miss)] \in Range(mySchedule)
         /\ ~ MustStillExecute(mySchedule[Best(miss)])
         /\ Best(miss) \in Candidates(miss)
<1>1. DOMAIN mySchedule = 1 .. Len(mySchedule) /\ Len(mySchedule) \in Nat
  BY LenProperties DEF TypeOK
<1>2. PICK v, C : v = Values(miss) /\ C = Candidates(miss)
  OBVIOUS
<1>3. \A i \in 1 .. miss : v[i] \in Nat \X Nat
  <2> SUFFICES ASSUME NEW i \in 1 .. miss PROVE v[i] \in Nat \X Nat
    OBVIOUS
  <2>1. i \in DOMAIN mySchedule
    BY <1>1
  <2>2. mySchedule[i] \in DOMAIN job
    BY <2>1 DEF JobsHeld, Range
  <2>3. \E time : v[i] = CalcValue(mySchedule[i], time)
    BY <1>2 DEF Values
  <2> QED
    BY <2>2, <2>3, CalcValueType
<1>4. /\ C \subseteq 1 .. miss /\ C # {} /\ IsFiniteSet(C)
      /\ \A i \in C : ~ MustStillExecute(mySchedule[i])
  <2>1. C \subseteq 1 .. miss
    BY <1>2 DEF Candidates
  <2>2. IsFiniteSet(1 .. miss)
    BY <1>1, FS_Interval
  <2>3. \A i \in C : ~ MustStillExecute(mySchedule[i])
    BY <1>2 DEF Candidates, IsCancelCandidate
  <2> QED
    BY <1>2, <2>1, <2>2, <2>3, FS_Subset
<1> DEFINE Better(a, b) == IF variant \in MaxVariants THEN Less(b, a) ELSE Less(a, b)
           B == {p \in C \X C : Better(v[p[1]], v[p[2]])}
           best == {i \in C : \A h \in C : ~ Better(v[h], v[i])}
<1>5. Best(miss) = Min(best)
  BY <1>2 DEF Best
<1>6. best # {}
  <2>1. \A x \in C : <<x, x>> \notin B
    <3> SUFFICES ASSUME NEW x \in C PROVE ~ Less(v[x], v[x])
      OBVIOUS
    <3>1. v[x][1] * v[x][2] \in Nat
      BY <1>3, <1>4
    <3> QED
      BY <3>1 DEF Less
  <2>2. \A x, y, z \in C : <<x, y>> \in B /\ <<y, z>> \in B => <<x, z>> \in B
    <3> SUFFICES ASSUME NEW x \in C, NEW y \in C, NEW z \in C,
                        Better(v[x], v[y]), Better(v[y], v[z])
                 PROVE  Better(v[x], v[z])
      OBVIOUS
    <3>1. v[x] \in Nat \X Nat /\ v[y] \in Nat \X Nat /\ v[z] \in Nat \X Nat
      BY <1>3, <1>4
    <3>2. CASE variant \in MaxVariants
      BY <3>1, <3>2, LessTransitive
    <3>3. CASE variant \notin MaxVariants
      BY <3>1, <3>3, LessTransitive
    <3> QED
      BY <3>2, <3>3
  <2>3. PICK b \in C : \A x \in C : <<x, b>> \notin B
    <3> HIDE DEF B
    <3> QED
      BY <1>4, <2>1, <2>2, BestExists
  <2>4. b \in best
    BY <2>3
  <2> QED
    BY <2>4
<1>7. best \in SUBSET Nat /\ best \subseteq C
  <2>1. best \subseteq C
    OBVIOUS
  <2>2. C \subseteq Nat
    BY <1>1, <1>4
  <2> HIDE DEF best
  <2> QED
    BY <2>1, <2>2
<1> HIDE DEF best
<1>8. Min(best) \in best
  <2>1. PICK S : S = best
    OBVIOUS
  <2>2. Min(S) \in S
    BY <1>6, <1>7, <2>1, MinIn
  <2> QED
    BY <2>1, <2>2
<1>9. Best(miss) \in C /\ Best(miss) \in DOMAIN mySchedule
  <2>1. PICK b : b = Best(miss)
    OBVIOUS
  <2>2. b \in C
    BY <1>5, <1>7, <1>8, <2>1
  <2>3. b \in 1 .. miss /\ miss \in 1 .. Len(mySchedule)
    BY <1>1, <1>4, <2>2
  <2>4. b \in 1 .. Len(mySchedule)
    BY <1>1, <2>3
  <2> QED
    BY <1>1, <2>1, <2>2, <2>4
<1> QED
  BY <1>2, <1>4, <1>9 DEF Range
-----------------------------------------------------------------------------
(* The OEDF family                                                          *)

\* removeJob finds every scheduled job, also where check() is not asked for
\* deadline misses and the monitor keeps jobs that are gone.
Watched == Range(mySchedule) \subseteq Range(dlmon) \cup Range(execMissJobs)

OEDFInv == IInv /\ Watched /\ IsInjective(execMissJobs) /\ AggregatorsOK

\* schedule() gives up a job: it leaves all lists of the scheduler.
LEMMA RepairCancels ==
  ASSUME OEDFInv, variant \in OEDFVariants, Repair, Candidates(Min(Misses)) # {}
  PROVE  \E j \in Range(mySchedule) :
           /\ ~ MustStillExecute(j)
           /\ mySchedule' = RemoveFirst(mySchedule, j)
           /\ dlmon' = RemoveFirst(dlmon, j)
           /\ execMissJobs' = IF j \in Range(dlmon) THEN execMissJobs
                                                  ELSE RemoveFirst(execMissJobs, j)
           /\ currentJob' = (IF currentJob = j THEN NoJob ELSE currentJob)
           /\ scheduleChanged' = TRUE
           /\ cancelled' = Append(cancelled, j)
           /\ \E time : IsCancelCandidate(j, CalcValue(j, time))
<1> DEFINE miss == Min(Misses)
           j == mySchedule[Best(miss)]
<1>1. miss \in DOMAIN mySchedule
  BY MissInSchedule DEF OEDFInv, IInv, Repair, MissToRepair
<1>2. j \in Range(mySchedule) /\ ~ MustStillExecute(j)
  <2>1. PICK m : m = miss
    OBVIOUS
  <2> QED
    BY <1>1, <2>1, BestIsCandidate DEF OEDFInv, IInv, SchedInv
<1>3. RemoveScheduled(j) /\ cancelled' = Append(cancelled, j)
  BY DEF Repair
<1>4. j \in Range(dlmon) \/ j \in Range(execMissJobs)
  BY <1>2 DEF OEDFInv, Watched
<1>5. \E time : IsCancelCandidate(j, CalcValue(j, time))
  <2>1. PICK m, b : m = miss /\ b = Best(miss)
    OBVIOUS
  <2>2. b \in Candidates(m)
    BY <1>1, <2>1, BestIsCandidate DEF OEDFInv, IInv, SchedInv
  <2>3. b \in 1 .. m /\ IsCancelCandidate(mySchedule[b], Values(m)[b])
    BY <2>2 DEF Candidates
  <2>4. \E time : Values(m)[b] = CalcValue(mySchedule[b], time)
    BY <2>3 DEF Values
  <2> QED
    BY <2>1, <2>3, <2>4
<1> HIDE DEF j
<1> QED
  BY <1>2, <1>3, <1>4, <1>5 DEF RemoveScheduled, InternalRemoveJob, RemoveJob

LEMMA RepairInv ==
  ASSUME OEDFInv, variant \in OEDFVariants, Repair
  PROVE  IInv' /\ Watched' /\ IsInjective(execMissJobs)'
<1>1. /\ UNCHANGED <<config, taskset, job, task, monitor, pc, mode, now, end, index, rv,
                     ec, finalised, clean, idleSteps, cancelSteps, lastInit>>
      /\ pc = "schedule"
  BY DEF Repair, fixed, tasks, results
<1>2. CASE Candidates(Min(Misses)) = {}
  <2>1. UNCHANGED <<sched, cancelled>>
    BY <1>2 DEF Repair
  <2>2. TypeOK'
    BY <1>1, <2>1, QuietType DEF OEDFInv, IInv, TypeOK, fixed, tasks
  <2>3. SchedInv'
    BY <1>1, <2>1, QuietInv DEF OEDFInv, IInv, fixed
  <2>4. DeadlinesAhead' /\ Watched' /\ IsInjective(execMissJobs)'
    BY <1>1, <2>1 DEF OEDFInv, IInv, DeadlinesAhead, Watched, sched
  <2> QED
    BY <2>2, <2>3, <2>4 DEF IInv
<1>3. CASE Candidates(Min(Misses)) # {}
  <2>1. PICK j \in Range(mySchedule) :
          /\ mySchedule' = RemoveFirst(mySchedule, j)
          /\ dlmon' = RemoveFirst(dlmon, j)
          /\ execMissJobs' = IF j \in Range(dlmon) THEN execMissJobs
                                                 ELSE RemoveFirst(execMissJobs, j)
          /\ currentJob' = (IF currentJob = j THEN NoJob ELSE currentJob)
          /\ scheduleChanged' = TRUE
          /\ cancelled' = Append(cancelled, j)
    BY <1>3, RepairCancels
  <2>2. /\ j \in DOMAIN job /\ j \in JobIds /\ j \notin Range(cancelled)
        /\ mySchedule \in Seq(JobIds) /\ dlmon \in Seq(JobIds) /\ execMissJobs \in Seq(JobIds)
        /\ cancelled \in Seq(JobIds)
        /\ IsInjective(mySchedule) /\ IsInjective(dlmon) /\ IsInjective(execMissJobs)
        /\ IsInjective(cancelled)
    BY DEF OEDFInv, IInv, TypeOK, SchedInv, JobsHeld
  <2>3. /\ mySchedule' \in Seq(JobIds) /\ IsInjective(mySchedule')
        /\ Range(mySchedule') = Range(mySchedule) \ {j}
    BY <2>1, <2>2, RemoveFirstRange
  <2>4. /\ dlmon' \in Seq(JobIds) /\ IsInjective(dlmon') /\ Range(dlmon') = Range(dlmon) \ {j}
        /\ \A key : Sorted(dlmon, key) => Sorted(dlmon', key)
    BY <2>1, <2>2, RemoveFirstRange
  <2>5. /\ execMissJobs' \in Seq(JobIds) /\ IsInjective(execMissJobs')
        /\ Range(execMissJobs') = IF j \in Range(dlmon) THEN Range(execMissJobs)
                                   ELSE Range(execMissJobs) \ {j}
    BY <2>1, <2>2, RemoveFirstRange
  <2>6. /\ cancelled' \in Seq(JobIds) /\ IsInjective(cancelled')
        /\ Range(cancelled') = Range(cancelled) \cup {j}
    BY <2>1, <2>2, AppendRange
  <2>7. TypeOK'
    <3>1. {scheduleChanged, rv, ec, finalised, clean}' \subseteq BOOLEAN
      <4>1. rv' = rv /\ ec' = ec /\ finalised' = finalised /\ clean' = clean
        BY <1>1
      <4>2. {scheduleChanged, rv, ec, finalised, clean} \subseteq BOOLEAN
        BY DEF OEDFInv, IInv, TypeOK
      <4> QED
        BY <2>1, <4>1, <4>2, Zenon
    <3>2. currentJob' \in JobIds \cup {NoJob} /\ JobIds' = JobIds /\ Tasks' = Tasks
      BY <1>1, <2>1 DEF OEDFInv, IInv, TypeOK, JobIds, Tasks
    <3> QED
      BY <1>1, <2>3, <2>4, <2>5, <2>6, <3>1, <3>2 DEF OEDFInv, IInv, TypeOK
  <2>8. JobsHeld'
    BY <1>1, <2>2, <2>3, <2>6 DEF OEDFInv, IInv, SchedInv, JobsHeld
  <2>9. JobsNumbered'
    BY <1>1, <2>4, <2>5 DEF OEDFInv, IInv, SchedInv, JobsNumbered
  <2>10. StepsLeft' /\ ScheduleIsSeen' /\ CurrentJobScheduled'
    BY <1>1, <2>1, <2>3
       DEF OEDFInv, IInv, SchedInv, StepsLeft, ScheduleIsSeen, CurrentJobScheduled
  <2>11. MonitorCoversSchedule'
    BY <1>1, <2>2, <2>3, <2>4, <2>5 DEF OEDFInv, IInv, SchedInv, MonitorCoversSchedule
  <2>12. MonitorSorted'
    BY <1>1, <2>4 DEF OEDFInv, IInv, SchedInv, MonitorSorted, Sorted, LatestStart
  <2>13. DeadlinesAhead' /\ Watched'
    BY <1>1, <2>3, <2>4, <2>5 DEF OEDFInv, IInv, DeadlinesAhead, Watched
  <2> QED
    BY <2>4, <2>5, <2>7, <2>8, <2>9, <2>10, <2>11, <2>12, <2>13 DEF IInv, SchedInv
<1> QED
  BY <1>2, <1>3

\* The other steps, which are those of Simulation: the lists of watched jobs
\* lose a job only with the schedule.
LEMMA StepWatched ==
  ASSUME OEDFInv, Step
  PROVE  Watched' /\ IsInjective(execMissJobs)'
<1>1. /\ mySchedule \in Seq(JobIds) /\ dlmon \in Seq(JobIds) /\ execMissJobs \in Seq(JobIds)
      /\ IsInjective(mySchedule) /\ IsInjective(dlmon) /\ IsInjective(execMissJobs)
      /\ Watched
  BY DEF OEDFInv, IInv, TypeOK, SchedInv, JobsHeld
<1>2. CASE MissKept
  <2>1. /\ execMissJobs' = Append(execMissJobs, Head(dlmon)) /\ dlmon' = Tail(dlmon)
        /\ mySchedule' = mySchedule /\ MissFound(now)
    BY <1>2 DEF MissKept, KeepMissJob
  <2>2. /\ Range(dlmon') = Range(dlmon) \ {Head(dlmon)} /\ Head(dlmon) \in JobIds
        /\ Head(dlmon) \notin Range(execMissJobs)
    BY <2>1, MissedJob DEF OEDFInv
  <2>3. Range(execMissJobs') = Range(execMissJobs) \cup {Head(dlmon)} /\ IsInjective(execMissJobs')
    BY <1>1, <2>1, <2>2, AppendRange
  <2> QED
    BY <1>1, <2>1, <2>2, <2>3 DEF Watched
<1>3. CASE MissDropped
  <2>1. /\ mySchedule' = RemoveFirst(mySchedule, Head(dlmon)) /\ dlmon' = Tail(dlmon)
        /\ execMissJobs' = execMissJobs /\ MissFound(now)
    BY <1>3 DEF MissDropped, DropMissJob, InternalRemoveJob
  <2>2. Range(dlmon') = Range(dlmon) \ {Head(dlmon)}
    BY <2>1, MissedJob DEF OEDFInv
  <2>3. Range(mySchedule') = Range(mySchedule) \ {Head(dlmon)}
    BY <1>1, <2>1, RemoveFirstRange
  <2> QED
    BY <1>1, <2>1, <2>2, <2>3 DEF Watched
<1>4. CASE InitStepDone \/ CancelJob \/ CancelDone \/ NotYetActive \/ ScheduleDone \/ Idle
  <2>1. UNCHANGED <<mySchedule, dlmon, execMissJobs>>
    BY <1>4 DEF InitStepDone, CancelJob, CancelDone, NotYetActive, ScheduleDone, Idle,
                IdleStep, DispatchIdle, PerformCancellations, sched
  <2> QED
    BY <1>1, <2>1 DEF Watched
<1>5. CASE Activate
  <2>1. PICK j, key, L :
          /\ j = NextJobId(index)
          /\ mySchedule' \in InsertByKey(mySchedule, j, key)
          /\ dlmon' \in InsertByKey(dlmon, j, L)
          /\ execMissJobs' = execMissJobs
    BY <1>5 DEF Activate, EnqueueJob, AddJob
  <2>2. j \in JobIds
    BY <2>1 DEF OEDFInv, IInv, TypeOK, NextJobId, JobIds, TaskState
  <2>3. Range(mySchedule') = Range(mySchedule) \cup {j} /\ Range(dlmon') = Range(dlmon) \cup {j}
    BY <1>1, <2>1, <2>2, InsertByKeyRange
  <2> QED
    BY <1>1, <2>1, <2>3 DEF Watched
<1>6. CASE Execute
  <2>1. PICK j, L :
          /\ j = NextJob /\ j # NoJob /\ dlmon' \in JobExecuted(dlmon, j, L)
          /\ UNCHANGED <<mySchedule, execMissJobs>>
    BY <1>6 DEF Execute, ExecuteStep, DispatchStep
  <2>2. j \in JobIds
    BY <2>1, NextJobIsFirst DEF OEDFInv
  <2>3. Range(dlmon') = Range(dlmon)
    BY <1>1, <2>1, <2>2, JobExecutedRange
  <2> QED
    BY <1>1, <2>1, <2>3 DEF Watched
<1>7. CASE Complete
  <2>1. PICK j :
          /\ j = NextJob /\ j # NoJob
          /\ mySchedule' = Tail(mySchedule) /\ execMissJobs' = execMissJobs
          /\ dlmon' = dlmon \/ dlmon' = RemoveFirst(dlmon, j)
    BY <1>7 DEF Complete, CompleteStep, DispatchFinish, MonitorAfterFinish, RemoveJob
  <2>2. mySchedule # << >> /\ j = Head(mySchedule)
    BY <2>1, NextJobIsFirst DEF OEDFInv
  <2>3. Range(mySchedule') = Range(mySchedule) \ {j}
    BY <1>1, <2>1, <2>2, TailRange
  <2>4. Range(dlmon) \ {j} \subseteq Range(dlmon')
    BY <1>1, <2>1, RemoveFirstRange
  <2> QED
    BY <1>1, <2>1, <2>3, <2>4 DEF Watched
<1> QED
  BY <1>2, <1>3, <1>4, <1>5, <1>6, <1>7 DEF Step

\* The aggregators get the utility of a job when it is handed back.
LEMMA AggregatorsKept ==
  ASSUME TypeOK, AggregatorsOK, UNCHANGED taskset,
         \/ ua' = ua
         \/ \E t \in Tasks, u \in Bit : ua' = [ua EXCEPT ![t] = AddUtility(ua[t], u)]
  PROVE  AggregatorsOK'
<1>1. Tasks' = Tasks
  BY DEF Tasks
<1>2. CASE ua' = ua
  BY <1>1, <1>2 DEF AggregatorsOK
<1>3. ASSUME NEW t \in Tasks, NEW u \in Bit, ua' = [ua EXCEPT ![t] = AddUtility(ua[t], u)]
      PROVE  AggregatorsOK'
  <2>1. DOMAIN ua = Tasks /\ AggregatorOK(ua[t], taskset[t].k) /\ taskset[t].k \in Nat
    BY TaskParameters DEF AggregatorsOK, TaskRecord
  <2>2. AggregatorOK(AddUtility(ua[t], u), taskset[t].k)
    <3>1. PICK a, k : a = ua[t] /\ k = taskset[t].k
      OBVIOUS
    <3> QED
      BY <2>1, <3>1, AddUtilityOK
  <2> QED
    BY <1>1, <1>3, <2>1, <2>2 DEF AggregatorsOK
<1> QED
  BY <1>2, <1>3

LEMMA OEDFStepInv ==
  ASSUME OEDFInv, variant \in OEDFVariants, OEDFStep
  PROVE  OEDFInv'
<1> USE DEF OEDFInv
<1>1. TypeOK /\ AggregatorsOK
  BY DEF IInv
<1>2. CASE Repair
  <2>1. ua' = ua /\ taskset' = taskset
    BY <1>2 DEF Repair, fixed
  <2> QED
    BY <1>1, <1>2, <2>1, RepairInv, AggregatorsKept
<1>3. CASE RepairDone
  <2>1. ua' = ua /\ taskset' = taskset /\ ScheduleDone
    BY <1>3 DEF RepairDone, ScheduleDone, PerformCancellations, fixed
  <2> QED
    BY <1>1, <2>1, ScheduleDoneInv, StepWatched, AggregatorsKept DEF Step
<1>4. CASE CancelJob /\ CancelUtility
  <2>1. Head(cancelled)[1] \in Tasks /\ 0 \in Bit
    BY <1>4, CancelledJob DEF CancelJob, Bit
  <2>2. \E t \in Tasks, u \in Bit : ua' = [ua EXCEPT ![t] = AddUtility(ua[t], u)]
    BY <1>4, <2>1 DEF CancelUtility
  <2>3. taskset' = taskset
    BY <1>4 DEF CancelJob, fixed
  <2> QED
    BY <1>1, <1>4, <2>2, <2>3, CancelJobInv, StepWatched, AggregatorsKept DEF Step
<1>5. CASE Complete /\ CompleteUtility(NextJob)
  <2>1. PICK j : j = NextJob
    OBVIOUS
  <2>2. j[1] \in Tasks
    BY <1>5, <2>1, NextJobIsFirst DEF Complete, CompleteStep, DispatchFinish
  <2>3. PICK u : u = FirmUtility(job[j].dl, now)
    OBVIOUS
  <2>4. u \in Bit
    BY <2>3 DEF FirmUtility, Bit
  <2>5. \E t \in Tasks, i \in Bit : ua' = [ua EXCEPT ![t] = AddUtility(ua[t], i)]
    BY <1>5, <2>1, <2>2, <2>3, <2>4 DEF CompleteUtility
  <2>6. taskset' = taskset
    BY <1>5 DEF Complete, StepEnd, StepEndWith, fixed
  <2> QED
    BY <1>1, <1>5, <2>5, <2>6, CompleteInv, StepWatched, AggregatorsKept DEF Step
<1>6. CASE /\ MissKept \/ MissDropped \/ InitStepDone \/ CancelDone
              \/ Activate \/ NotYetActive \/ Idle \/ Execute
           /\ UNCHANGED oedf
  <2>1. Step /\ ua' = ua
    BY <1>6 DEF Step, oedf
  <2>2. taskset' = taskset
    BY <1>6 DEF MissKept, MissDropped, InitStepDone, PerformCancellations, CancelDone, Activate,
                SpawnJob, NotYetActive, Idle, Execute, StepEnd, StepEndWith, fixed
  <2>3. IInv'
    BY <1>6, MissKeptInv, MissDroppedInv, InitStepDoneInv, CancelDoneInv, ActivateInv,
       NotYetActiveInv, IdleInv, ExecuteInv
  <2> QED
    BY <1>1, <2>1, <2>2, <2>3, StepWatched, AggregatorsKept
<1> QED
  BY <1>2, <1>3, <1>4, <1>5, <1>6 DEF OEDFStep

\* Calls change nothing of this.
LEMMA OEDFCallInv ==
  ASSUME OEDFInv, OEDFCall \/ UNCHANGED <<vars, owned>>
  PROVE  OEDFInv'
<1>1. /\ UNCHANGED <<taskset, ua, mySchedule, dlmon, execMissJobs>>
      /\ Call \/ UNCHANGED vars
  BY DEF OEDFCall, Call, Run, Finalise, FinaliseWith, oedf, owned, vars, fixed, sched
<1>2. IInv'
  BY <1>1, NextInv DEF OEDFInv, Next
<1>3. AggregatorsOK'
  BY <1>1, AggregatorsKept DEF OEDFInv, IInv
<1> QED
  BY <1>1, <1>2, <1>3 DEF OEDFInv, Watched

LEMMA OEDFInitInv == OverloadInit => OEDFInv
<1> SUFFICES ASSUME OverloadInit PROVE OEDFInv
  OBVIOUS
<1>1. IInv
  BY InitInv DEF OverloadInit
<1>2. Watched /\ IsInjective(execMissJobs)
  BY DEF OverloadInit, Init, SchedulerInit, Watched, Range, IsInjective
<1>3. AggregatorsOK
  <2>1. ua = [t \in Tasks |-> AggregatorOf(taskset[t])]
    BY DEF OverloadInit, OEDFInit
  <2>2. \A t \in Tasks : taskset[t] \in TaskRecord
    BY <1>1, TaskParameters DEF IInv
  <2>3. ASSUME NEW t \in Tasks PROVE AggregatorOK(ua[t], taskset[t].k)
    <3>1. PICK ts : ts = taskset[t]
      OBVIOUS
    <3>2. AggregatorOK(AggregatorOf(ts), ts.k)
      BY <2>2, <3>1, NewAggregatorOK
    <3> QED
      BY <2>1, <3>1, <3>2
  <2> QED
    BY <2>1, <2>3 DEF AggregatorsOK
<1> QED
  BY <1>1, <1>2, <1>3 DEF OEDFInv
-----------------------------------------------------------------------------
(* Started jobs, whatever the scheduler                                     *)

\* Without execCancellations, nothing that has started waits to be cancelled.
Spared ==
  ~ config.execCancellations =>
    /\ \A t \in Tasks : task[t].execCancellations = 0
    /\ \A j \in Range(cancelled) : ~ Started(j)

LEMMA SparedDrop ==
  ASSUME Spared, UNCHANGED <<config, taskset, task, job>>,
         \A j \in Range(cancelled') : j \in Range(cancelled) \/ ~ MustStillExecute(j)
  PROVE  Spared'
<1>1. Tasks' = Tasks /\ \A j : Started(j)' = Started(j)
  BY DEF Tasks, Started
<1> QED
  BY <1>1 DEF Spared, MustStillExecute

LEMMA SparedCancel ==
  ASSUME TypeOK, JobsNumbered, StepsLeft, Spared, CancelJob,
         IsInjective(cancelled), Range(cancelled) \subseteq DOMAIN job
  PROVE  Spared'
<1> SUFFICES ASSUME ~ config.execCancellations
             PROVE  /\ \A t \in Tasks' : task'[t].execCancellations = 0
                    /\ \A j \in Range(cancelled') : ~ Started(j)'
  <2>1. config' = config
    BY DEF CancelJob, fixed
  <2> QED
    BY <2>1 DEF Spared
<1>1. PICK j : j = Head(cancelled)
  OBVIOUS
<1>2. /\ j \in Range(cancelled) /\ Range(cancelled)' = Range(cancelled) \ {j}
      /\ DOMAIN job' = DOMAIN job \ {j} /\ \A i \in DOMAIN job' : job'[i] = job[i]
  BY <1>1, CancelJobCore
<1>3. Tasks' = Tasks /\ task' = [task EXCEPT ![j[1]] = CountCancel(task[j[1]], j)]
  BY <1>1 DEF CancelJob, fixed, Tasks
<1>4. j[1] \in Tasks /\ task \in [Tasks -> TaskState]
  BY <1>2 DEF TypeOK, JobIds
<1>5. task[j[1]].execCancellations = 0 /\ ~ Started(j)
  BY <1>2, <1>4 DEF Spared
<1>6. CountCancel(task[j[1]], j).execCancellations = 0
  <2>1. CountCancel(task[j[1]], j).execCancellations
          = task[j[1]].execCancellations + (IF Started(j) THEN 1 ELSE 0)
    BY <1>4 DEF CountCancel, TaskState
  <2> QED
    BY <1>5, <2>1
<1>7. \A t \in Tasks' : task'[t].execCancellations = 0
  BY <1>3, <1>4, <1>6 DEF Spared
<1>8. \A i \in Range(cancelled') : ~ Started(i)'
  <2>1. \A i \in Range(cancelled') : i \in Range(cancelled) /\ job'[i] = job[i]
    BY <1>2
  <2> QED
    BY <2>1 DEF Spared, Started
<1> QED
  BY <1>7, <1>8

LEMMA SparedSpawn ==
  ASSUME TypeOK, JobsNumbered, Spared, SpawnJob, Range(cancelled) \subseteq DOMAIN job,
         job' = [i \in DOMAIN job \cup {NextJobId(index)} |->
                   IF i = NextJobId(index) THEN NewJob(index) ELSE job[i]]
  PROVE  Spared'
<1>1. /\ UNCHANGED <<config, taskset, cancelled>> /\ NextJobId(index) \notin DOMAIN job
  BY SpawnJobCore
<1>2. \A i \in Range(cancelled) : job'[i] = job[i]
  BY <1>1
<1>3. Tasks' = Tasks
  BY <1>1 DEF Tasks
<1>4. \A t \in Tasks : task'[t].execCancellations = task[t].execCancellations
  <2>1. PICK gap \in taskset[index].gaps :
          task' = [task EXCEPT ![index] = CountActivation(task[index], gap)]
    BY DEF SpawnJob
  <2>2. task \in [Tasks -> TaskState] /\ index \in Tasks
    BY DEF TypeOK
  <2>3. CountActivation(task[index], gap).execCancellations = task[index].execCancellations
    BY <2>2 DEF CountActivation, TaskState
  <2> QED
    BY <2>1, <2>2, <2>3
<1> QED
  BY <1>1, <1>2, <1>3, <1>4 DEF Spared, Started

LEMMA SparedExecute ==
  ASSUME TypeOK, StepsLeft, Spared, NEW j \in DOMAIN job \ Range(cancelled),
         job' = AfterStep(j), Range(cancelled) \subseteq DOMAIN job,
         UNCHANGED <<config, taskset, task, cancelled>>
  PROVE  Spared'
<1>1. \A i \in Range(cancelled) : job'[i].rem = job[i].rem /\ job'[i].et = job[i].et
  BY AfterStepJobs
<1>2. Tasks' = Tasks
  BY DEF Tasks
<1> QED
  BY <1>1, <1>2 DEF Spared, Started

LEMMA SparedComplete ==
  ASSUME TypeOK, StepsLeft, Spared, NEW j \in DOMAIN job \ Range(cancelled),
         CompleteJob(j), Range(cancelled) \subseteq DOMAIN job,
         UNCHANGED <<config, taskset, cancelled>>
  PROVE  Spared'
<1>1. job' = Delete(AfterStep(j), j) /\ task' = [task EXCEPT ![j[1]] = CountCompletion(task[j[1]], j)]
  BY DEF CompleteJob
<1>2. \A i \in Range(cancelled) : job'[i].rem = job[i].rem /\ job'[i].et = job[i].et
  <2>1. \A i \in Range(cancelled) : i \in DOMAIN job /\ i # j
    OBVIOUS
  <2> QED
    BY <1>1, <2>1, AfterStepJobs DEF Delete
<1>3. Tasks' = Tasks
  BY DEF Tasks
<1>4. \A t \in Tasks : task'[t].execCancellations = task[t].execCancellations
  <2>1. task \in [Tasks -> TaskState] /\ j[1] \in Tasks
    BY DEF TypeOK, JobIds
  <2>2. CountCompletion(task[j[1]], j).execCancellations = task[j[1]].execCancellations
    BY <2>1 DEF CountCompletion, TaskState
  <2> QED
    BY <1>1, <2>1, <2>2
<1> QED
  BY <1>2, <1>3, <1>4 DEF Spared, Started

\* The steps that hand out no job.
LEMMA SparedQuiet ==
  ASSUME Spared,
         \/ MissKept \/ InitStepDone \/ GDPASInitStepDone \/ CancelDone \/ NotYetActive
         \/ ScheduleDone \/ TryJob \/ Rebuilt
         \/ (IdleStep \/ GDPASIdle) /\ \E pending \in BOOLEAN : StepEndWith(pending)
         \/ \E pending \in BOOLEAN : FinaliseWith(pending)
         \/ \E steps \in RunSteps : Run(steps)
         \/ UNCHANGED vars
  PROVE  Spared'
<1>1. UNCHANGED <<config, taskset, task, job, cancelled>>
  BY DEF MissKept, InitStepDone, GDPASInitStepDone, PerformCancellations, CancelDone, NotYetActive,
         ScheduleDone, TryJob, Rebuilt, IdleStep, DispatchIdle, GDPASIdle, StepEndWith,
         FinaliseWith, Run, vars, fixed, tasks
<1> QED
  BY <1>1, SparedDrop

\* What initStep of ALDScheduler drops may be dropped.
LEMMA SparedMiss ==
  ASSUME TypeOK, Spared, MissDropped
  PROVE  Spared'
<1>1. /\ UNCHANGED <<config, taskset, task, job>> /\ ~ MustStillExecute(Head(dlmon))
      /\ cancelled' = Append(cancelled, Head(dlmon)) /\ dlmon # << >>
  BY DEF MissDropped, DropMissJob, MissFound, CheckFires, fixed, tasks
<1>2. cancelled \in Seq(JobIds) /\ Head(dlmon) \in JobIds
  BY <1>1, HeadTailProperties DEF TypeOK
<1>3. Range(cancelled') = Range(cancelled) \cup {Head(dlmon)}
  BY <1>1, <1>2, AppendRange
<1> QED
  BY <1>1, <1>3, SparedDrop

LEMMA OEDFSpared ==
  ASSUME OEDFInv, variant \in OEDFVariants, Spared, OEDFStep
  PROVE  Spared'
<1>1. /\ TypeOK /\ JobsNumbered /\ StepsLeft /\ IsInjective(cancelled)
      /\ Range(cancelled) \subseteq DOMAIN job /\ cancelled \in Seq(JobIds)
      /\ mySchedule \in Seq(JobIds)
  BY DEF OEDFInv, IInv, TypeOK, SchedInv, JobsHeld
<1>2. CASE Repair
  <2>1. UNCHANGED <<config, taskset, task, job>>
    BY <1>2 DEF Repair, fixed, tasks
  <2>2. CASE Candidates(Min(Misses)) = {}
    BY <1>2, <2>1, <2>2, SparedDrop DEF Repair
  <2>3. CASE Candidates(Min(Misses)) # {}
    <3>1. PICK j \in Range(mySchedule) :
            ~ MustStillExecute(j) /\ cancelled' = Append(cancelled, j)
      BY <1>2, <2>3, RepairCancels
    <3>2. Range(cancelled') = Range(cancelled) \cup {j}
      <4>1. j \in JobIds
        BY <1>1, RangeOfSeq
      <4> QED
        BY <1>1, <3>1, <4>1, AppendRange
    <3> QED
      BY <2>1, <3>1, <3>2, SparedDrop
  <2> QED
    BY <2>2, <2>3
<1>3. CASE CancelJob
  BY <1>1, <1>3, SparedCancel
<1>4. CASE MissDropped
  BY <1>1, <1>4, SparedMiss
<1>5. CASE Activate
  BY <1>1, <1>5, SparedSpawn DEF Activate, EnqueueJob
<1>6. CASE Execute \/ Complete
  <2>1. PICK j : j = NextJob
    OBVIOUS
  <2>2. j # NoJob
    BY <1>6, <2>1 DEF Execute, ExecuteStep, DispatchStep, Complete, CompleteStep, DispatchFinish
  <2>3. j \in DOMAIN job \ Range(cancelled)
    BY <2>1, <2>2, NextJobIsFirst DEF OEDFInv
  <2>4. UNCHANGED <<config, taskset, cancelled>>
    BY <1>6 DEF Execute, Complete, StepEnd, StepEndWith, fixed
  <2>5. CASE Execute
    <3>1. job' = AfterStep(j) /\ task' = task
      BY <2>1, <2>5 DEF Execute, ExecuteStep, DispatchStep, tasks
    <3> QED
      BY <1>1, <2>3, <2>4, <3>1, SparedExecute
  <2>6. CASE Complete
    <3>1. CompleteJob(j)
      BY <2>1, <2>6 DEF Complete, CompleteStep
    <3> QED
      BY <1>1, <2>3, <2>4, <3>1, SparedComplete
  <2> QED
    BY <1>6, <2>5, <2>6
<1>7. CASE MissKept \/ InitStepDone \/ CancelDone \/ NotYetActive \/ Idle \/ RepairDone
  BY <1>7, StepEndIsOne, SparedQuiet DEF Idle, RepairDone
<1> QED
  BY <1>2, <1>3, <1>4, <1>5, <1>6, <1>7 DEF OEDFStep
-----------------------------------------------------------------------------
(* The schedule that GDPA builds                                            *)

\* A list takes a new entry somewhere.
LEMMA InsertByKeyExists ==
  ASSUME NEW S, NEW s \in Seq(S), NEW e, NEW key, e \in DOMAIN key,
         \A x \in DOMAIN key : key[x] \in Int
  PROVE  InsertByKey(s, e, key) # {}
<1> DEFINE P == {p \in 1 .. Len(s) + 1 :
                   (p <= Len(s) /\ s[p] \in DOMAIN key) => key[s[p]] > key[e]}
<1>1. Len(s) \in Nat
  BY LenProperties
<1>2. Len(s) + 1 \in P /\ P \in SUBSET Nat
  BY <1>1
<1>3. PICK p : p = Min(P)
  OBVIOUS
<1>4. p \in P /\ \A x \in P : p <= x
  <2> HIDE DEF P
  <2> QED
    BY <1>2, <1>3, MinIn
<1>5. p \in 1 .. Len(s) + 1 /\ ((p <= Len(s) /\ s[p] \in DOMAIN key) => key[s[p]] > key[e])
  BY <1>4
<1>6. ASSUME NEW i \in 1 .. p - 1, s[i] \in DOMAIN key PROVE key[s[i]] <= key[e]
  <2>1. i \in 1 .. Len(s) + 1 /\ i <= Len(s) /\ ~ (p <= i)
    BY <1>1, <1>5
  <2>2. i \notin P
    BY <1>4, <2>1
  <2>3. ~ (key[s[i]] > key[e])
    BY <1>6, <2>1, <2>2
  <2> QED
    BY <1>6, <2>3
<1>7. p \in InsertPositions(s, e, key)
  BY <1>5, <1>6 DEF InsertPositions
<1> QED
  BY <1>7 DEF InsertByKey

\* The time that a single job needs.
LEMMA LoneTime ==
  ASSUME NEW w, job[w[1]].rem \in Int
  PROVE  MapThenSumSet(LAMBDA h : job[w[h]].rem, 1 .. 1) = job[w[1]].rem
<1>1. PICK S : S = 1 .. 1
  OBVIOUS
<1>2. S = {1} /\ IsFiniteSet(S)
  <2>1. S = {1}
    BY <1>1
  <2> QED
    BY <2>1, FS_Singleton
<1>3. PICK f : f = [h \in S |-> job[w[h]].rem]
  OBVIOUS
<1>4. PICK g : SumsTo(g, f, S)
  BY <1>2, SumsExist
<1>5. \A s \in SUBSET S : s # {} => f[Choice(s)] = job[w[CHOOSE x \in s : TRUE]].rem
  <2> SUFFICES ASSUME NEW s \in SUBSET S, s # {}
               PROVE  f[Choice(s)] = job[w[CHOOSE x \in s : TRUE]].rem
    OBVIOUS
  <2>1. Choice(s) \in s
    BY ChoiceIn
  <2> QED
    BY <1>3, <2>1 DEF Choice
<1>6. \E it : it = [s \in SUBSET S |->
                   IF s = {} THEN 0
                   ELSE (LET h == CHOOSE x \in s : TRUE IN job[w[h]].rem)
                        + it[s \ {CHOOSE x \in s : TRUE}]]
  <2>1. g = [s \in SUBSET S |-> g[s]]
    BY <1>4 DEF SumsTo
  <2>2. ASSUME NEW s \in SUBSET S
        PROVE  g[s] = IF s = {} THEN 0
                      ELSE job[w[CHOOSE x \in s : TRUE]].rem + g[s \ {CHOOSE x \in s : TRUE}]
    <3>1. g[s] = IF s = {} THEN 0 ELSE f[Choice(s)] + g[s \ {Choice(s)}]
      BY <1>4 DEF SumsTo
    <3> QED
      BY <1>5, <3>1 DEF Choice
  <2>3. g = [s \in SUBSET S |->
               IF s = {} THEN 0
               ELSE job[w[CHOOSE x \in s : TRUE]].rem + g[s \ {CHOOSE x \in s : TRUE}]]
    BY <2>1, <2>2
  <2> QED
    BY <2>3
<1>7. PICK it :
        /\ it = [s \in SUBSET S |->
                   IF s = {} THEN 0
                   ELSE (LET h == CHOOSE x \in s : TRUE IN job[w[h]].rem)
                        + it[s \ {CHOOSE x \in s : TRUE}]]
        /\ MapThenSumSet(LAMBDA h : job[w[h]].rem, S) = it[S]
  BY <1>6 DEF MapThenSumSet, MapThenFoldSet
<1>8. SumsTo(it, f, S)
  BY <1>5, <1>7 DEF SumsTo, Choice
<1>9. it[S] = SumOf(f, S)
  BY <1>2, <1>8, SumsAre
<1>10. SumOf(f, S) = f[1]
  <2>1. S \ {1} = {} /\ 1 \in S /\ \A x \in S : f[x] \in Int
    BY <1>2, <1>3
  <2>2. SumOf(f, S) = f[1] + SumOf(f, S \ {1})
    BY <1>2, <2>1, SumRemove
  <2>3. SumOf(f, S \ {1}) = 0
    BY <2>1, SumEmpty
  <2> QED
    BY <2>1, <2>2, <2>3
<1> QED
  BY <1>1, <1>2, <1>3, <1>7, <1>9, <1>10

\* A job that does not fit alone is too late.
LEMMA LoneMiss ==
  ASSUME TypeOK, NEW q \in DOMAIN job, NEW w \in Seq(JobIds), IsInjective(w), Range(w) = {q},
         ~ EDFFeasible(w)
  PROVE  LatestStart(job)[q] < now
<1>1. DOMAIN w = 1 .. Len(w) /\ Len(w) \in Nat
  BY LenProperties
<1>2. PICK i \in DOMAIN w :
        now + MapThenSumSet(LAMBDA h : job[w[h]].rem, 1 .. i) > job[w[i]].dl
  BY DEF EDFFeasible, MissPositions
<1>3. 1 \in DOMAIN w /\ w[1] = q /\ w[i] = q
  <2>1. i \in 1 .. Len(w)
    BY <1>1
  <2>2. 1 \in 1 .. Len(w)
    BY <1>1, <2>1
  <2>3. \A h \in DOMAIN w : w[h] \in Range(w)
    BY DEF Range
  <2> QED
    BY <1>1, <2>2, <2>3
<1>4. i = 1
  BY <1>3 DEF IsInjective
<1>5. job[q].rem \in Int /\ job[q].dl \in Int /\ now \in Int
  BY DEF TypeOK, JobRecord
<1>6. now + job[q].rem > job[q].dl
  BY <1>2, <1>3, <1>4, <1>5, LoneTime
<1> QED
  BY <1>5, <1>6 DEF LatestStart
-----------------------------------------------------------------------------
(* GDPA                                                                     *)

Held(list) ==
  /\ DOMAIN job = Range(list) \cup Range(cancelled)
  /\ Range(list) \cap Range(cancelled) = {}
  /\ IsInjective(list) /\ IsInjective(cancelled)

QueueWatched ==
  config.dlMissCancellations =>
    /\ Range(dlmon) \cup (Range(execMissJobs) \cap DOMAIN job) = Range(readyQueue)
    /\ Range(dlmon) \cap Range(execMissJobs) = {}

NothingKept == config.execCancellations => execMissJobs = << >>

\* What holds of the jobs, as in Simulation, and ...
Queued ==
  /\ TypeOK /\ JobsNumbered /\ StepsLeft
  /\ readyQueue \in Seq(JobIds) /\ Held(readyQueue)
  /\ IsInjective(dlmon) /\ QueueWatched /\ MonitorSorted /\ DeadlinesAhead
  /\ NothingKept

TooLate(j) == LatestStart(job)[j] < now

Tried == {readyQueue[i] : i \in 1 .. tried}

\* ... of the schedule that is built from them.
Building ==
  /\ pc # "cancelSchedule"
  /\ tried \in 0 .. Len(readyQueue) /\ (pc # "schedule" => tried = 0)
  /\ IsInjective(mySchedule) /\ Range(mySchedule) \subseteq Range(readyQueue)
  /\ pc = "schedule" =>
       /\ Range(Built) \subseteq Tried
       /\ Built = << >> => \A j \in Tried : TooLate(j)
  /\ pc = "dispatch" =>
       /\ scheduleChanged
       /\ mySchedule = << >> => \A j \in Range(readyQueue) : TooLate(j)

GDPAInv == Queued /\ Building

\* Steps that only move on
LEMMA QueuedQuiet ==
  ASSUME Queued, TypeOK', DeadlinesAhead',
         UNCHANGED <<config, taskset, job, task, dlmon, execMissJobs, cancelled, readyQueue>>
  PROVE  Queued'
<1>1. JobIds' = JobIds /\ JobsNumbered' /\ StepsLeft' /\ NothingKept'
  BY DEF Queued, JobIds, Tasks, JobsNumbered, StepsLeft, NothingKept
<1>2. Held(readyQueue)' /\ QueueWatched' /\ IsInjective(dlmon)'
  BY DEF Queued, Held, QueueWatched
<1>3. MonitorSorted'
  BY DEF Queued, MonitorSorted, LatestStart
<1>4. readyQueue' \in Seq(JobIds')
  BY <1>1 DEF Queued
<1> QED
  BY <1>1, <1>2, <1>3, <1>4 DEF Queued

\* Steps outside of schedule() and before dispatch
LEMMA BuildingQuiet ==
  ASSUME Building, pc # "schedule", pc' \notin {"cancelSchedule", "dispatch"}, tried' = tried,
         readyQueue' \in Seq(JobIds), IsInjective(mySchedule'),
         Range(mySchedule') \subseteq Range(readyQueue')
  PROVE  Building'
<1>1. tried = 0 /\ Len(readyQueue') \in Nat
  BY LenProperties DEF Building
<1>2. Built' = << >> /\ Tried' = {} /\ Range(<< >>) = {}
  BY <1>1 DEF Built, Tried, Range
<1> QED
  BY <1>1, <1>2 DEF Building

\* schedule() adds the next job if it fits.
LEMMA TryJobInv ==
  ASSUME GDPAInv, TryJob
  PROVE  GDPAInv'
<1>1. PICK n, q, b, w :
        n = tried + 1 /\ q = readyQueue[n] /\ b = Built /\ w = InsertByDeadline(b, q)
  OBVIOUS
<1>2. /\ pc = "schedule" /\ tried < Len(readyQueue) /\ tried' = n
      /\ mySchedule' = IF EDFFeasible(w) THEN w ELSE b
      /\ UNCHANGED <<config, taskset, job, dlmon, execMissJobs, currentJob, scheduleChanged,
                     task, monitor, pc, mode, now, end, index, cancelled, rv, ec, finalised,
                     clean, idleSteps, cancelSteps, lastInit, readyQueue>>
  BY <1>1 DEF TryJob, fixed, tasks, results
<1>3. /\ TypeOK /\ readyQueue \in Seq(JobIds) /\ tried \in 0 .. Len(readyQueue)
      /\ Len(readyQueue) \in Nat /\ DOMAIN readyQueue = 1 .. Len(readyQueue)
      /\ mySchedule \in Seq(JobIds) /\ IsInjective(mySchedule) /\ IsInjective(readyQueue)
  BY LenProperties DEF GDPAInv, Queued, Building, Held, TypeOK
<1>4. n \in DOMAIN readyQueue /\ n \in 1 .. Len(readyQueue) /\ n # 0
  BY <1>1, <1>2, <1>3
<1>5. q \in JobIds /\ q \in Range(readyQueue) /\ q \in DOMAIN job
  <2>1. q \in Range(readyQueue)
    BY <1>1, <1>4 DEF Range
  <2> QED
    BY <1>3, <2>1 DEF GDPAInv, Queued, Held, TypeOK
<1>6. /\ b \in Seq(JobIds) /\ IsInjective(b) /\ Range(b) \subseteq Tried
      /\ b = << >> => \A j \in Tried : TooLate(j)
  <2>1. << >> \in Seq(JobIds) /\ IsInjective(<< >>)
    BY EmptySeq DEF IsInjective
  <2> QED
    BY <1>1, <1>2, <1>3, <2>1 DEF GDPAInv, Building, Built
<1>7. Tried' = Tried \cup {q} /\ Tried \subseteq Range(readyQueue) /\ q \notin Tried
  <2>1. 1 .. n = 1 .. tried \cup {n} /\ n \notin 1 .. tried /\ 1 .. tried \subseteq DOMAIN readyQueue
    BY <1>1, <1>2, <1>3
  <2>2. Tried' = {readyQueue[i] : i \in 1 .. n}
    BY <1>2 DEF Tried
  <2>3. Tried' = Tried \cup {q}
    BY <1>1, <2>1, <2>2 DEF Tried
  <2>4. q \notin Tried
    BY <1>1, <1>3, <1>4, <2>1 DEF Tried, IsInjective
  <2> QED
    BY <2>1, <2>3, <2>4 DEF Tried, Range
<1>8. /\ w \in Seq(JobIds) /\ w # << >> /\ Range(w) = Range(b) \cup {q} /\ IsInjective(w)
  <2> DEFINE key == [h \in DOMAIN job |-> job[h].dl]
  <2>1. \A x \in DOMAIN key : key[x] \in Int
    BY <1>3 DEF TypeOK, JobRecord
  <2>2. q \in DOMAIN key
    BY <1>5
  <2>3. w = CHOOSE s \in InsertByKey(b, q, key) : TRUE
    BY <1>1 DEF InsertByDeadline
  <2> HIDE DEF key
  <2>4. InsertByKey(b, q, key) # {}
    BY <1>6, <2>1, <2>2, InsertByKeyExists
  <2>5. w \in InsertByKey(b, q, key)
    BY <2>3, <2>4
  <2> QED
    BY <1>5, <1>6, <1>7, <2>5, InsertByKeyRange
<1>9. ~ EDFFeasible(w) /\ b = << >> => TooLate(q)
  <2> SUFFICES ASSUME ~ EDFFeasible(w), b = << >> PROVE TooLate(q)
    OBVIOUS
  <2>1. Range(w) = {q}
    BY <1>8 DEF Range
  <2> QED
    BY <1>3, <1>5, <1>8, <2>1, LoneMiss DEF TooLate
<1>10. /\ mySchedule' \in Seq(JobIds) /\ IsInjective(mySchedule')
       /\ Range(mySchedule') \subseteq Tried'
       /\ mySchedule' = << >> => \A j \in Tried' : TooLate(j)
  <2>1. CASE EDFFeasible(w)
    BY <1>2, <1>6, <1>7, <1>8, <2>1
  <2>2. CASE ~ EDFFeasible(w)
    BY <1>2, <1>6, <1>7, <1>9, <2>2
  <2> QED
    BY <2>1, <2>2
<1>11. TypeOK'
  <2>1. JobIds' = JobIds /\ Tasks' = Tasks
    BY <1>2 DEF JobIds, Tasks
  <2>2. {mySchedule, dlmon, execMissJobs, cancelled}' \subseteq Seq(JobIds)
    BY <1>2, <1>3, <1>10 DEF TypeOK
  <2> QED
    BY <1>2, <1>3, <2>1, <2>2 DEF TypeOK
<1>12. Queued'
  <2>1. DeadlinesAhead'
    BY <1>2 DEF GDPAInv, Queued, DeadlinesAhead
  <2> QED
    BY <1>2, <1>11, <2>1, QueuedQuiet DEF GDPAInv
<1>13. Building'
  <2>1. Built' = mySchedule'
    BY <1>2, <1>4 DEF Built
  <2>2. \A j : TooLate(j)' = TooLate(j)
    BY <1>2 DEF TooLate, LatestStart
  <2>3. Tried' \subseteq Range(readyQueue)
    BY <1>5, <1>7
  <2>4. tried' \in 0 .. Len(readyQueue')
    BY <1>2, <1>3, <1>4
  <2> QED
    BY <1>2, <1>10, <2>1, <2>2, <2>3, <2>4 DEF Building
<1> QED
  BY <1>12, <1>13 DEF GDPAInv

LEMMA RebuiltInv ==
  ASSUME GDPAInv, Rebuilt
  PROVE  GDPAInv'
<1>1. /\ pc = "schedule" /\ tried = Len(readyQueue) /\ mySchedule' = Built
      /\ scheduleChanged' = TRUE /\ tried' = 0 /\ pc' = "dispatch"
      /\ UNCHANGED <<config, taskset, job, dlmon, execMissJobs, currentJob, task, monitor, mode,
                     now, end, index, cancelled, rv, ec, finalised, clean, idleSteps,
                     cancelSteps, lastInit, readyQueue>>
  BY DEF Rebuilt, fixed, tasks, results
<1>2. /\ TypeOK /\ readyQueue \in Seq(JobIds) /\ Len(readyQueue) \in Nat
      /\ DOMAIN readyQueue = 1 .. Len(readyQueue)
  BY LenProperties DEF GDPAInv, Queued
<1>3. /\ mySchedule' \in Seq(JobIds) /\ IsInjective(mySchedule')
      /\ Range(mySchedule') \subseteq Tried
      /\ mySchedule' = << >> => \A j \in Tried : TooLate(j)
  <2>1. << >> \in Seq(JobIds) /\ IsInjective(<< >>)
    BY EmptySeq DEF IsInjective
  <2>2. mySchedule \in Seq(JobIds) /\ IsInjective(mySchedule)
    BY DEF GDPAInv, Building, Queued, TypeOK
  <2> QED
    BY <1>1, <2>1, <2>2 DEF GDPAInv, Building, Built
<1>4. Tried = Range(readyQueue)
  BY <1>1, <1>2 DEF Tried, Range
<1>5. TypeOK'
  <2>1. JobIds' = JobIds /\ Tasks' = Tasks
    BY <1>1 DEF JobIds, Tasks
  <2>2. {mySchedule, dlmon, execMissJobs, cancelled}' \subseteq Seq(JobIds)
    BY <1>1, <1>2, <1>3 DEF TypeOK
  <2>3. {scheduleChanged, rv, ec, finalised, clean}' \subseteq BOOLEAN
    <3>1. {scheduleChanged, rv, ec, finalised, clean} \subseteq BOOLEAN
      BY <1>2 DEF TypeOK
    <3>2. rv' = rv /\ ec' = ec /\ finalised' = finalised /\ clean' = clean /\ scheduleChanged' = TRUE
      BY <1>1
    <3> QED
      BY <3>1, <3>2, Zenon
  <2> QED
    BY <1>1, <1>2, <2>1, <2>2, <2>3 DEF TypeOK
<1>6. Queued'
  <2>1. DeadlinesAhead'
    BY <1>1 DEF GDPAInv, Queued, DeadlinesAhead
  <2> QED
    BY <1>1, <1>5, <2>1, QueuedQuiet DEF GDPAInv
<1>7. Building'
  <2>1. \A j : TooLate(j)' = TooLate(j)
    BY <1>1 DEF TooLate, LatestStart
  <2>2. 0 \in 0 .. Len(readyQueue')
    BY <1>1, <1>2
  <2> QED
    BY <1>1, <1>3, <1>4, <2>1, <2>2 DEF Building
<1> QED
  BY <1>6, <1>7 DEF GDPAInv

\* The job that check() names is in the queue, and nowhere else.
LEMMA MissedInQueue ==
  ASSUME Queued, MissFound(now)
  PROVE  /\ dlmon # << >> /\ dlmon \in Seq(JobIds) /\ config.dlMissCancellations
         /\ Head(dlmon) \in JobIds
         /\ Head(dlmon) \in Range(dlmon)
         /\ Head(dlmon) \in Range(readyQueue)
         /\ Head(dlmon) \in DOMAIN job
         /\ Head(dlmon) \notin Range(cancelled)
         /\ Head(dlmon) \notin Range(execMissJobs)
         /\ Tail(dlmon) \in Seq(JobIds)
         /\ Range(Tail(dlmon)) = Range(dlmon) \ {Head(dlmon)}
         /\ IsInjective(Tail(dlmon))
         /\ Sorted(Tail(dlmon), LatestStart(job))
<1>1. /\ dlmon # << >> /\ dlmon \in Seq(JobIds) /\ config.dlMissCancellations
      /\ IsInjective(dlmon) /\ DOMAIN job \subseteq JobIds
  BY DEF Queued, TypeOK, MissFound, CheckFires
<1>2. Sorted(dlmon, LatestStart(job))
  BY <1>1 DEF Queued, MonitorSorted, Sorted
<1>3. /\ Head(dlmon) \in Range(dlmon)
      /\ Tail(dlmon) \in Seq(JobIds)
      /\ Range(Tail(dlmon)) = Range(dlmon) \ {Head(dlmon)}
      /\ IsInjective(Tail(dlmon))
      /\ Sorted(Tail(dlmon), LatestStart(job))
  BY <1>1, <1>2, TailRange
<1>4. /\ Range(dlmon) \subseteq Range(readyQueue)
      /\ Range(dlmon) \cap Range(execMissJobs) = {}
  BY <1>1 DEF Queued, QueueWatched
<1>5. /\ Range(readyQueue) \subseteq DOMAIN job
      /\ Range(readyQueue) \cap Range(cancelled) = {}
  BY DEF Queued, Held
<1> QED
  BY <1>1, <1>3, <1>4, <1>5

LEMMA GDPAMissKept ==
  ASSUME GDPAInv, MissKept, UNCHANGED <<readyQueue, tried>>
  PROVE  GDPAInv'
<1>1. PICK h : h = Head(dlmon)
  OBVIOUS
<1>2. /\ execMissJobs' = Append(execMissJobs, h) /\ dlmon' = Tail(dlmon)
      /\ UNCHANGED <<config, taskset, job, task, monitor, mySchedule, currentJob,
                     scheduleChanged, cancelled, pc, now, mode, end, index, rv,
                     ec, finalised, clean, idleSteps, cancelSteps, lastInit>>
      /\ pc = "initStep" /\ ~ config.execCancellations /\ MissFound(now)
  BY <1>1 DEF MissKept, KeepMissJob, MustStillExecute, fixed, tasks, results
<1>3. /\ h \in JobIds /\ h \in Range(dlmon) /\ h \in Range(readyQueue) /\ h \in DOMAIN job
      /\ h \notin Range(execMissJobs)
      /\ dlmon' \in Seq(JobIds) /\ Range(dlmon') = Range(dlmon) \ {h} /\ IsInjective(dlmon')
      /\ Sorted(dlmon', LatestStart(job))
  BY <1>1, <1>2, MissedInQueue DEF GDPAInv
<1>4. /\ execMissJobs' \in Seq(JobIds) /\ Range(execMissJobs') = Range(execMissJobs) \cup {h}
  BY <1>2, <1>3, AppendRange DEF GDPAInv, Queued, TypeOK
<1>5. TypeOK'
  BY <1>2, <1>3, <1>4 DEF GDPAInv, Queued, TypeOK, Tasks, JobIds
<1>6. JobsNumbered' /\ StepsLeft' /\ Held(readyQueue)' /\ NothingKept'
  BY <1>2, <1>3, <1>4 DEF GDPAInv, Queued, JobsNumbered, StepsLeft, Held, NothingKept
<1>7. QueueWatched'
  BY <1>2, <1>3, <1>4 DEF GDPAInv, Queued, QueueWatched
<1>8. MonitorSorted' /\ DeadlinesAhead' /\ IsInjective(dlmon')
  BY <1>2, <1>3 DEF MonitorSorted, Sorted, LatestStart, DeadlinesAhead
<1>9. readyQueue' \in Seq(JobIds)'
  BY <1>2 DEF GDPAInv, Queued, JobIds, Tasks
<1>10. Building'
  BY <1>2, <1>9, BuildingQuiet DEF GDPAInv, Queued, Building
<1> QED
  BY <1>5, <1>6, <1>7, <1>8, <1>9, <1>10 DEF GDPAInv, Queued

LEMMA GDPAMissDropped ==
  ASSUME GDPAInv, MissDropped, readyQueue' = QueueWithout(readyQueue, Head(dlmon)), tried' = tried
  PROVE  GDPAInv'
<1>1. PICK h : h = Head(dlmon)
  OBVIOUS
<1>2. /\ mySchedule' = RemoveFirst(mySchedule, h) /\ dlmon' = Tail(dlmon)
      /\ cancelled' = Append(cancelled, h) /\ readyQueue' = RemoveFirst(readyQueue, h)
      /\ currentJob' = IF currentJob = h THEN NoJob ELSE currentJob
      /\ scheduleChanged' = TRUE
      /\ UNCHANGED <<config, taskset, job, task, monitor, execMissJobs, pc, now, mode,
                     end, index, rv, ec, finalised, clean, idleSteps, cancelSteps, lastInit>>
      /\ pc = "initStep" /\ MissFound(now)
  BY <1>1 DEF MissDropped, DropMissJob, InternalRemoveJob, QueueWithout, fixed, tasks, results
<1>3. /\ h \in JobIds /\ h \in Range(dlmon) /\ h \in Range(readyQueue) /\ h \in DOMAIN job
      /\ h \notin Range(execMissJobs) /\ h \notin Range(cancelled)
      /\ dlmon' \in Seq(JobIds) /\ Range(dlmon') = Range(dlmon) \ {h} /\ IsInjective(dlmon')
      /\ Sorted(dlmon', LatestStart(job))
  BY <1>1, <1>2, MissedInQueue DEF GDPAInv
<1>4. /\ TypeOK /\ mySchedule \in Seq(JobIds) /\ IsInjective(mySchedule)
      /\ readyQueue \in Seq(JobIds) /\ IsInjective(readyQueue)
      /\ cancelled \in Seq(JobIds) /\ IsInjective(cancelled)
      /\ Range(mySchedule) \subseteq Range(readyQueue)
  BY DEF GDPAInv, Queued, Building, TypeOK, Held
<1>5. /\ mySchedule' \in Seq(JobIds) /\ IsInjective(mySchedule')
      /\ Range(mySchedule') = Range(mySchedule) \ {h}
  BY <1>2, <1>4, RemoveFirstRange
<1>6. /\ readyQueue' \in Seq(JobIds) /\ IsInjective(readyQueue')
      /\ Range(readyQueue') = Range(readyQueue) \ {h}
  BY <1>2, <1>4, RemoveFirstRange
<1>7. /\ cancelled' \in Seq(JobIds) /\ IsInjective(cancelled')
      /\ Range(cancelled') = Range(cancelled) \cup {h}
  BY <1>2, <1>3, <1>4, AppendRange
<1>8. JobIds' = JobIds /\ Tasks' = Tasks
  BY <1>2 DEF JobIds, Tasks
<1>9. TypeOK'
  <2>1. {scheduleChanged, rv, ec, finalised, clean}' \subseteq BOOLEAN
    <3>1. rv' = rv /\ ec' = ec /\ finalised' = finalised /\ clean' = clean /\ scheduleChanged' = TRUE
      BY <1>2
    <3>2. {scheduleChanged, rv, ec, finalised, clean} \subseteq BOOLEAN
      BY <1>4 DEF TypeOK
    <3> QED
      BY <3>1, <3>2, Zenon
  <2>2. currentJob' \in JobIds \cup {NoJob}
    BY <1>2, <1>4 DEF TypeOK
  <2>3. {mySchedule, dlmon, execMissJobs, cancelled}' \subseteq Seq(JobIds)
    BY <1>2, <1>3, <1>4, <1>5, <1>7 DEF TypeOK
  <2> QED
    BY <1>2, <1>4, <1>8, <2>1, <2>2, <2>3 DEF TypeOK
<1>10. JobsNumbered' /\ StepsLeft' /\ NothingKept' /\ Held(readyQueue)'
  BY <1>2, <1>3, <1>6, <1>7 DEF GDPAInv, Queued, JobsNumbered, StepsLeft, Held, NothingKept
<1>11. QueueWatched'
  BY <1>2, <1>3, <1>6 DEF GDPAInv, Queued, QueueWatched
<1>12. MonitorSorted' /\ DeadlinesAhead'
  BY <1>2, <1>3 DEF MonitorSorted, Sorted, LatestStart, DeadlinesAhead
<1>13. Building'
  <2>1. Range(mySchedule') \subseteq Range(readyQueue')
    BY <1>4, <1>5, <1>6
  <2> QED
    BY <1>2, <1>5, <1>6, <2>1, BuildingQuiet DEF GDPAInv
<1> QED
  BY <1>3, <1>6, <1>8, <1>9, <1>10, <1>11, <1>12, <1>13 DEF GDPAInv, Queued

\* Steps and calls that leave jobs and lists alone.
LEMMA GDPAQuiet ==
  ASSUME GDPAInv, UNCHANGED <<readyQueue, tried>>,
         \/ InitStepDone \/ CancelDone \/ NotYetActive
         \/ FinaliseWith(Pending) \/ \E steps \in RunSteps : Run(steps)
  PROVE  GDPAInv'
<1>1. /\ TypeOK /\ pc # "schedule" /\ pc # "cancelSchedule"
      /\ readyQueue \in Seq(JobIds) /\ now \in Nat
  BY DEF GDPAInv, Queued, Building, TypeOK, InitStepDone, CancelDone, NotYetActive, FinaliseWith, Run
<1>2. /\ UNCHANGED <<config, taskset, job, sched, tasks, cancelled>>
      /\ UNCHANGED <<mySchedule, dlmon, execMissJobs, task>>
  BY DEF InitStepDone, PerformCancellations, CancelDone, NotYetActive, FinaliseWith, Run,
         fixed, sched, tasks
<1>3. TypeOK' /\ pc' \notin {"cancelSchedule", "dispatch"}
  <2>1. CASE InitStepDone
    <3>1. cancelSteps' \in Nat
      BY <1>1, <2>1 DEF TypeOK, InitStepDone, PerformCancellations
    <3> QED
      BY <1>1, <2>1, <3>1, QuietType
         DEF TypeOK, InitStepDone, PerformCancellations, AfterInitStep, results
  <2>2. CASE CancelDone
    <3>1. now' \in Nat
      BY <1>1, <2>2 DEF TypeOK, CancelDone, ExitOnCancel
    <3> QED
      BY <1>1, <2>2, <3>1, QuietType DEF TypeOK, CancelDone, ExitOnCancel, AfterInitStep, results
  <2>3. CASE NotYetActive
    <3>1. index' \in Tasks
      BY <1>1, <2>3, TaskParameters DEF TypeOK, NotYetActive, Advance
    <3> QED
      BY <1>1, <2>3, <3>1, QuietType DEF TypeOK, NotYetActive, Advance, results
  <2>4. CASE FinaliseWith(Pending)
    BY <1>1, <2>4, QuietType DEF TypeOK, FinaliseWith, sched, tasks, results
  <2>5. ASSUME NEW steps \in RunSteps, Run(steps) PROVE TypeOK' /\ pc' = "initStep"
    <3>1. now + steps \in Nat
      BY <1>1, TypesAssumption
    <3> QED
      BY <1>1, <2>5, <3>1, QuietType DEF TypeOK, Run, sched, tasks, results
  <2> QED
    BY <2>1, <2>2, <2>3, <2>4, <2>5
<1>4. DeadlinesAhead'
  <2>1. CASE InitStepDone
    <3>1. config.dlMissCancellations => Range(dlmon) \subseteq DOMAIN job
      BY DEF GDPAInv, Queued, QueueWatched, Held
    <3>2. config.dlMissCancellations => \A j \in Range(dlmon) : job[j].dl > now
      BY <2>1, <3>1, NothingMissed DEF GDPAInv, Queued, InitStepDone
    <3> QED
      BY <1>2, <2>1, <3>2 DEF InitStepDone, PerformCancellations, DeadlinesAhead
  <2>2. CASE CancelDone \/ NotYetActive
    <3>1. pc' \notin {"api", "initStep"} => now' = now /\ pc \notin {"api", "initStep"}
      BY <2>2 DEF CancelDone, ExitOnCancel, NotYetActive
    <3> QED
      BY <1>2, <3>1 DEF GDPAInv, Queued, DeadlinesAhead
  <2>3. CASE FinaliseWith(Pending) \/ \E steps \in RunSteps : Run(steps)
    BY <2>3 DEF FinaliseWith, Run, DeadlinesAhead
  <2> QED
    BY <2>1, <2>2, <2>3
<1>5. Queued'
  BY <1>2, <1>3, <1>4, QueuedQuiet DEF GDPAInv
<1>6. Building'
  BY <1>1, <1>2, <1>3, BuildingQuiet DEF GDPAInv, Building
<1> QED
  BY <1>5, <1>6 DEF GDPAInv

LEMMA GDPACancelJob ==
  ASSUME GDPAInv, CancelJob, UNCHANGED <<readyQueue, tried>>
  PROVE  GDPAInv'
<1>1. /\ TypeOK /\ JobsNumbered /\ StepsLeft /\ MonitorSorted /\ IsInjective(cancelled)
      /\ Range(cancelled) \subseteq DOMAIN job /\ readyQueue \in Seq(JobIds)
  BY DEF GDPAInv, Queued, Held
<1>2. PICK h : h = Head(cancelled)
  OBVIOUS
<1>3. /\ TypeOK' /\ JobsNumbered' /\ StepsLeft'
      /\ UNCHANGED <<config, taskset, mySchedule, dlmon, execMissJobs, pc, now>>
      /\ h \in Range(cancelled) /\ Range(cancelled)' = Range(cancelled) \ {h}
      /\ IsInjective(cancelled)'
      /\ DOMAIN job' = DOMAIN job \ {h}
      /\ \A i \in DOMAIN job' : job'[i] = job[i]
  BY <1>1, <1>2, CancelJobCore
<1>4. h \notin Range(readyQueue) /\ pc = "cancelInit"
  BY <1>3 DEF GDPAInv, Queued, Held, Building, CancelJob
<1>5. Held(readyQueue)' /\ NothingKept'
  BY <1>3, <1>4 DEF GDPAInv, Queued, Held, NothingKept
<1>6. QueueWatched' /\ IsInjective(dlmon)'
  BY <1>3, <1>4 DEF GDPAInv, Queued, QueueWatched
<1>7. config.dlMissCancellations => Range(dlmon) \subseteq DOMAIN job /\ Range(dlmon) \subseteq DOMAIN job'
  BY <1>3, <1>4 DEF GDPAInv, Queued, QueueWatched, Held
<1>8. MonitorSorted'
  BY <1>1, <1>3, <1>7, SameOrder
<1>9. DeadlinesAhead'
  BY <1>3, <1>7 DEF GDPAInv, Queued, DeadlinesAhead
<1>10. readyQueue' \in Seq(JobIds)'
  BY <1>1, <1>3 DEF JobIds, Tasks
<1>11. Building'
  BY <1>1, <1>3, <1>4, BuildingQuiet DEF GDPAInv, Building
<1> QED
  BY <1>3, <1>5, <1>6, <1>8, <1>9, <1>10, <1>11 DEF GDPAInv, Queued

LEMMA GDPAActivate ==
  ASSUME GDPAInv, SpawnJob, GDPAEnqueue(NextJobId(index), NewJob(index)), tried' = tried
  PROVE  GDPAInv'
<1> DEFINE j == NextJobId(index)
           record == NewJob(index)
           jobs == [i \in DOMAIN job \cup {j} |-> IF i = j THEN record ELSE job[i]]
<1>0. /\ TypeOK /\ JobsNumbered /\ StepsLeft /\ MonitorSorted
      /\ readyQueue \in Seq(JobIds) /\ IsInjective(readyQueue)
      /\ Range(readyQueue) \subseteq DOMAIN job
      /\ dlmon \in Seq(JobIds) /\ IsInjective(dlmon)
  BY DEF GDPAInv, Queued, Held, TypeOK
<1>1. /\ job' = jobs
      /\ readyQueue' = Append(readyQueue, j)
      /\ dlmon' \in AddJob(dlmon, j, LatestStart(jobs))
      /\ UNCHANGED <<mySchedule, execMissJobs, currentJob, scheduleChanged>>
  BY DEF GDPAEnqueue
<1>2. /\ pc = "activate" /\ pc' \in {"activate", "schedule"}
      /\ UNCHANGED <<config, taskset, now, cancelled>>
      /\ j \in JobIds /\ j \notin DOMAIN job /\ j \notin Range(dlmon)
      /\ j \notin Range(execMissJobs) /\ record.dl > now
  BY <1>0, SpawnJobCore
<1> HIDE DEF j, record, jobs
<1>3. /\ readyQueue' \in Seq(JobIds) /\ IsInjective(readyQueue')
      /\ Range(readyQueue') = Range(readyQueue) \cup {j}
  <2>1. j \notin Range(readyQueue)
    BY <1>0, <1>2
  <2> QED
    BY <1>0, <1>1, <1>2, <2>1, AppendRange
<1>4. /\ dlmon' \in Seq(JobIds)
      /\ Range(dlmon)' = Range(dlmon) \cup {j} /\ IsInjective(dlmon')
  BY <1>0, <1>1, <1>2, InsertByKeyRange DEF AddJob
<1>5. /\ TypeOK' /\ JobsNumbered' /\ StepsLeft'
      /\ DOMAIN job' = DOMAIN job \cup {j}
      /\ job'[j] = record
      /\ \A i \in DOMAIN job : job'[i] = job[i]
  <2>1. /\ currentJob' \in JobIds \cup {NoJob} /\ scheduleChanged' \in BOOLEAN
        /\ mySchedule' \in Seq(JobIds) /\ execMissJobs' = execMissJobs
    BY <1>0, <1>1 DEF TypeOK
  <2> QED
    BY <1>0, <1>1, <1>4, <2>1, EnqueuedJob DEF j, record, jobs
<1>6. Held(readyQueue)' /\ NothingKept'
  BY <1>1, <1>2, <1>3, <1>5 DEF GDPAInv, Queued, Held, NothingKept
<1>7. QueueWatched'
  BY <1>1, <1>2, <1>3, <1>4, <1>5 DEF GDPAInv, Queued, QueueWatched
<1>8. config.dlMissCancellations => Range(dlmon) \subseteq DOMAIN job
  BY DEF GDPAInv, Queued, QueueWatched, Held
<1>9. MonitorSorted'
  <2>1. job' \in [DOMAIN job' -> JobRecord]
    BY <1>5 DEF TypeOK
  <2> QED
    BY <1>0, <1>1, <1>2, <1>5, <1>8, <2>1, WatchedJob
<1>10. DeadlinesAhead'
  <2> SUFFICES ASSUME config.dlMissCancellations, NEW i \in Range(dlmon)' PROVE job'[i].dl > now
    BY <1>2 DEF DeadlinesAhead
  <2>1. CASE i = j
    BY <1>2, <1>5, <2>1
  <2>2. CASE i \in Range(dlmon)
    BY <1>2, <1>5, <1>8, <2>2 DEF GDPAInv, Queued, DeadlinesAhead
  <2> QED
    BY <1>4, <2>1, <2>2
<1>11. readyQueue' \in Seq(JobIds)'
  BY <1>2, <1>3 DEF JobIds, Tasks
<1>12. Building'
  BY <1>1, <1>2, <1>3, BuildingQuiet DEF GDPAInv, Building
<1> QED
  BY <1>4, <1>5, <1>6, <1>7, <1>9, <1>10, <1>11, <1>12 DEF GDPAInv, Queued

\* dispatch executes the first job of the schedule that was just built.
LEMMA NextInQueue ==
  ASSUME GDPAInv, pc = "dispatch", NextJob # NoJob
  PROVE  /\ mySchedule # << >> /\ mySchedule \in Seq(JobIds) /\ IsInjective(mySchedule)
         /\ NextJob = Head(mySchedule)
         /\ NextJob \in Range(readyQueue)
         /\ NextJob \in DOMAIN job /\ NextJob \in JobIds
         /\ NextJob \notin Range(cancelled)
<1>1. /\ mySchedule \in Seq(JobIds) /\ IsInjective(mySchedule) /\ scheduleChanged
      /\ Range(mySchedule) \subseteq Range(readyQueue) /\ DOMAIN job \subseteq JobIds
      /\ Range(readyQueue) \subseteq DOMAIN job /\ Range(readyQueue) \cap Range(cancelled) = {}
  BY DEF GDPAInv, Queued, Building, TypeOK, Held
<1>2. mySchedule # << >> /\ NextJob = Head(mySchedule)
  BY <1>1 DEF NextJob
<1>3. Head(mySchedule) \in Range(mySchedule)
  BY <1>1, <1>2, TailRange
<1> QED
  BY <1>1, <1>2, <1>3

\* No job is the NULL pointer.
LEMMA JobIsNotNone == TypeOK => NoJob \notin JobIds
<1> SUFFICES ASSUME TypeOK PROVE NoJob \notin JobIds
  OBVIOUS
<1>1. 0 \notin Tasks
  <2>1. taskset \in Seq(TaskRecord)
    BY TypesAssumption DEF TypeOK
  <2>2. DOMAIN taskset = 1 .. Len(taskset)
    BY <2>1, LenProperties
  <2> QED
    BY <2>2 DEF Tasks
<1> QED
  BY <1>1 DEF NoJob, JobIds

LEMMA GDPAIdle ==
  ASSUME GDPAInv, IdleStep, StepEndWith(Pending), UNCHANGED <<readyQueue, tried>>
  PROVE  GDPAInv'
<1>1. /\ pc = "dispatch" /\ currentJob' = NoJob /\ idleSteps' = idleSteps + 1
      /\ UNCHANGED <<job, mySchedule, dlmon, execMissJobs, scheduleChanged, task, monitor>>
      /\ \E pending \in BOOLEAN : StepEndWith(pending)
  BY DEF IdleStep, DispatchIdle, tasks, Pending
<1>2. TypeOK
  BY DEF GDPAInv, Queued
<1>3. /\ UNCHANGED <<config, taskset, cancelled>>
      /\ Tasks' = Tasks /\ JobIds' = JobIds
      /\ pc' \in {"api", "initStep"}
      /\ mode' \in {"none", "run", "finalise"}
      /\ {now, end, cancelSteps}' \subseteq Nat
      /\ lastInit' \in Nat \cup {-1}
      /\ index' \in Tasks
      /\ {rv, ec, finalised, clean}' \subseteq BOOLEAN
  BY <1>1, <1>2, StepEndType
<1>4. TypeOK'
  <2>1. {scheduleChanged, rv, ec, finalised, clean}' \subseteq BOOLEAN
    <3>1. scheduleChanged' \in BOOLEAN
      BY <1>1, <1>2 DEF TypeOK
    <3> QED
      BY <1>3, <3>1, Zenon
  <2> QED
    BY <1>1, <1>2, <1>3, <2>1 DEF TypeOK
<1>5. Queued'
  <2>1. DeadlinesAhead'
    BY <1>3 DEF DeadlinesAhead
  <2> QED
    BY <1>1, <1>3, <1>4, <2>1, QueuedQuiet DEF GDPAInv
<1>6. Building'
  BY <1>1, <1>3, BuildingQuiet DEF GDPAInv, Building, Queued
<1> QED
  BY <1>5, <1>6 DEF GDPAInv

LEMMA GDPAExecute ==
  ASSUME GDPAInv, ExecuteStep, StepEndWith(Pending), UNCHANGED <<readyQueue, tried>>
  PROVE  GDPAInv'
<1>1. PICK j : j = NextJob
  OBVIOUS
<1>2. /\ pc = "dispatch" /\ j # NoJob /\ job[j].rem > 1
      /\ job' = AfterStep(j)
      /\ dlmon' \in JobExecuted(dlmon, j, LatestStart(job'))
      /\ currentJob' = j
      /\ UNCHANGED <<mySchedule, execMissJobs, scheduleChanged, task, monitor, idleSteps>>
      /\ \E pending \in BOOLEAN : StepEndWith(pending)
  BY <1>1 DEF ExecuteStep, DispatchStep, tasks, Pending
<1>3. /\ j \in DOMAIN job /\ j \in JobIds
      /\ dlmon \in Seq(JobIds) /\ IsInjective(dlmon) /\ readyQueue \in Seq(JobIds)
      /\ TypeOK /\ JobsNumbered /\ StepsLeft /\ MonitorSorted
  BY <1>1, <1>2, NextInQueue DEF GDPAInv, Queued, TypeOK
<1>4. dlmon' \in Seq(JobIds) /\ Range(dlmon)' = Range(dlmon) /\ IsInjective(dlmon')
  BY <1>2, <1>3, JobExecutedRange
<1>5. /\ TypeOK' /\ JobsNumbered' /\ StepsLeft' /\ UNCHANGED <<config, cancelled>>
      /\ pc' \in {"api", "initStep"} /\ DOMAIN job' = DOMAIN job
  <2>1. currentJob' \in JobIds \cup {NoJob} /\ scheduleChanged' \in BOOLEAN
    BY <1>2, <1>3 DEF TypeOK
  <2> QED
    BY <1>2, <1>3, <1>4, <2>1, ExecutedJob
<1>6. readyQueue' \in Seq(JobIds) /\ readyQueue' \in Seq(JobIds)'
  <2>1. taskset' = taskset
    BY <1>2, <1>3, StepEndType
  <2> QED
    BY <1>3, <2>1 DEF JobIds, Tasks
<1>7. Held(readyQueue)' /\ NothingKept' /\ QueueWatched'
  BY <1>2, <1>4, <1>5 DEF GDPAInv, Queued, Held, NothingKept, QueueWatched
<1>8. MonitorSorted'
  <2>1. config.dlMissCancellations => Range(dlmon) \subseteq DOMAIN job
    BY DEF GDPAInv, Queued, QueueWatched, Held
  <2> QED
    BY <1>2, <1>3, <1>5, <2>1, ReorderedMonitor
<1>9. Building'
  BY <1>2, <1>5, <1>6, BuildingQuiet DEF GDPAInv, Building
<1> QED
  BY <1>4, <1>5, <1>6, <1>7, <1>8, <1>9 DEF GDPAInv, Queued, DeadlinesAhead

LEMMA GDPAComplete ==
  ASSUME GDPAInv, CompleteStep, readyQueue' = QueueWithout(readyQueue, NextJob),
         StepEndWith(readyQueue' # << >>), tried' = tried
  PROVE  GDPAInv'
<1>1. PICK j : j = NextJob
  OBVIOUS
<1>2. /\ pc = "dispatch" /\ j # NoJob
      /\ mySchedule' = Tail(mySchedule)
      /\ dlmon' = MonitorAfterFinish(j, now)
      /\ currentJob' = NoJob
      /\ UNCHANGED <<execMissJobs, scheduleChanged, idleSteps>>
      /\ CompleteJob(j)
      /\ readyQueue' = RemoveFirst(readyQueue, j)
      /\ \E pending \in BOOLEAN : StepEndWith(pending)
  BY <1>1 DEF CompleteStep, DispatchFinish, QueueWithout
<1>3. /\ j \in DOMAIN job /\ j \in JobIds /\ j \in Range(readyQueue)
      /\ j = Head(mySchedule) /\ mySchedule # << >> /\ mySchedule \in Seq(JobIds)
      /\ IsInjective(mySchedule) /\ j \notin Range(cancelled)
  BY <1>1, <1>2, NextInQueue
<1>4. /\ TypeOK /\ JobsNumbered /\ StepsLeft /\ MonitorSorted /\ DeadlinesAhead
      /\ IsInjective(dlmon) /\ readyQueue \in Seq(JobIds) /\ IsInjective(readyQueue)
      /\ Range(mySchedule) \subseteq Range(readyQueue)
  BY DEF GDPAInv, Queued, Held, Building
<1>5. /\ mySchedule' \in Seq(JobIds)
      /\ Range(mySchedule') = Range(mySchedule) \ {j} /\ IsInjective(mySchedule')
  BY <1>2, <1>3, TailRange
<1>6. /\ dlmon' \in Seq(JobIds) /\ IsInjective(dlmon') /\ Range(dlmon)' \subseteq Range(dlmon)
      /\ config.dlMissCancellations => Range(dlmon)' = Range(dlmon) \ {j}
      /\ \A key : Sorted(dlmon, key) => Sorted(dlmon', key)
  BY <1>2, <1>3, <1>4, FinishedJob
<1>7. /\ TypeOK' /\ JobsNumbered' /\ StepsLeft'
      /\ UNCHANGED <<config, cancelled>> /\ pc' \in {"api", "initStep"}
      /\ DOMAIN job' = DOMAIN job \ {j}
      /\ \A i \in DOMAIN job' : job'[i].dl = job[i].dl /\ job'[i].rem = job[i].rem
  <2>1. currentJob' \in JobIds \cup {NoJob} /\ scheduleChanged' \in BOOLEAN
    BY <1>2, <1>4 DEF TypeOK
  <2>2. UNCHANGED <<execMissJobs, idleSteps>>
    BY <1>2
  <2> QED
    BY <1>2, <1>3, <1>4, <1>5, <1>6, <2>1, <2>2, CompletedJob
<1>8. /\ readyQueue' \in Seq(JobIds) /\ IsInjective(readyQueue')
      /\ Range(readyQueue') = Range(readyQueue) \ {j}
  BY <1>2, <1>4, RemoveFirstRange
<1>9. Held(readyQueue)' /\ NothingKept'
  BY <1>2, <1>3, <1>7, <1>8 DEF GDPAInv, Queued, Held, NothingKept
<1>10. QueueWatched'
  BY <1>2, <1>3, <1>6, <1>7, <1>8 DEF GDPAInv, Queued, QueueWatched
<1>11. MonitorSorted'
  <2>1. config.dlMissCancellations =>
          Range(dlmon)' \subseteq DOMAIN job' /\ DOMAIN job' \subseteq DOMAIN job
    BY <1>6, <1>7 DEF GDPAInv, Queued, QueueWatched, Held
  <2> QED
    BY <1>4, <1>6, <1>7, <2>1, ThinnedMonitor
<1>12. readyQueue' \in Seq(JobIds)'
  <2>1. taskset' = taskset
    BY <1>2, <1>4, StepEndType
  <2> QED
    BY <1>8, <2>1 DEF JobIds, Tasks
<1>13. Building'
  <2>1. Range(mySchedule') \subseteq Range(readyQueue')
    BY <1>4, <1>5, <1>8
  <2> QED
    BY <1>2, <1>5, <1>7, <1>8, <2>1, BuildingQuiet DEF GDPAInv
<1> QED
  BY <1>6, <1>7, <1>9, <1>10, <1>11, <1>12, <1>13 DEF GDPAInv, Queued, DeadlinesAhead

LEMMA GDPAStepInv ==
  ASSUME GDPAInv, GDPAStep
  PROVE  GDPAInv'
BY TryJobInv, RebuiltInv, GDPAMissKept, GDPAMissDropped, GDPAQuiet, GDPACancelJob, GDPAActivate,
   GDPAIdle, GDPAExecute, GDPAComplete DEF GDPAStep

LEMMA GDPACallInv ==
  ASSUME GDPAInv, GDPACall \/ UNCHANGED <<vars, owned>>
  PROVE  GDPAInv'
<1>1. CASE GDPACall
  BY <1>1, GDPAQuiet DEF GDPACall, gdpa
<1>2. CASE UNCHANGED <<vars, owned>>
  <2>1. UNCHANGED <<config, taskset, job, mySchedule, dlmon, execMissJobs, currentJob,
                    scheduleChanged, task, monitor, pc, mode, now, end, index, cancelled, rv,
                    ec, finalised, clean, idleSteps, cancelSteps, lastInit, readyQueue, tried>>
    BY <1>2 DEF vars, owned, gdpa, fixed, sched, tasks, results
  <2>2. TypeOK' /\ DeadlinesAhead'
    BY <2>1 DEF GDPAInv, Queued, TypeOK, Tasks, JobIds, DeadlinesAhead
  <2>3. Queued'
    BY <2>1, <2>2, QueuedQuiet DEF GDPAInv
  <2>4. Building'
    BY <2>1 DEF GDPAInv, Building, Built, Tried, TooLate, LatestStart
  <2> QED
    BY <2>3, <2>4 DEF GDPAInv
<1> QED
  BY <1>1, <1>2

LEMMA GDPAInitInv == OverloadInit => GDPAInv
<1> SUFFICES ASSUME OverloadInit PROVE GDPAInv
  OBVIOUS
<1>1. /\ IInv /\ pc = "api" /\ readyQueue = << >> /\ tried = 0
      /\ mySchedule = << >> /\ dlmon = << >> /\ execMissJobs = << >> /\ job = << >>
      /\ cancelled = << >>
  BY InitInv DEF OverloadInit, Init, SchedulerInit, GDPAInit
<1>2. Range(<< >>) = {} /\ IsInjective(<< >>) /\ << >> \in Seq(JobIds) /\ DOMAIN << >> = {}
      /\ Len(<< >>) = 0
  BY EmptySeq DEF Range, IsInjective
<1>3. Queued
  BY <1>1, <1>2 DEF Queued, IInv, SchedInv, Held, QueueWatched, NothingKept
<1>4. Building
  BY <1>1, <1>2 DEF Building
<1> QED
  BY <1>3, <1>4 DEF GDPAInv

LEMMA GDPASpared ==
  ASSUME GDPAInv, Spared, GDPAStep
  PROVE  Spared'
<1>1. /\ TypeOK /\ JobsNumbered /\ StepsLeft /\ IsInjective(cancelled)
      /\ Range(cancelled) \subseteq DOMAIN job
  BY DEF GDPAInv, Queued, Held
<1>2. CASE CancelJob
  BY <1>1, <1>2, SparedCancel
<1>3. CASE MissDropped
  BY <1>1, <1>3, SparedMiss
<1>4. CASE SpawnJob /\ GDPAEnqueue(NextJobId(index), NewJob(index))
  BY <1>1, <1>4, SparedSpawn DEF GDPAEnqueue
<1>5. CASE (ExecuteStep \/ CompleteStep) /\ \E pending \in BOOLEAN : StepEndWith(pending)
  <2>1. PICK j : j = NextJob
    OBVIOUS
  <2>2. j # NoJob /\ pc = "dispatch"
    BY <1>5, <2>1 DEF ExecuteStep, DispatchStep, CompleteStep, DispatchFinish
  <2>3. j \in DOMAIN job \ Range(cancelled)
    BY <2>1, <2>2, NextInQueue
  <2>4. UNCHANGED <<config, taskset, cancelled>>
    BY <1>5 DEF StepEndWith, fixed
  <2>5. CASE ExecuteStep
    <3>1. job' = AfterStep(j) /\ task' = task
      BY <2>1, <2>5 DEF ExecuteStep, DispatchStep, tasks
    <3> QED
      BY <1>1, <2>3, <2>4, <3>1, SparedExecute
  <2>6. CASE CompleteStep
    <3>1. CompleteJob(j)
      BY <2>1, <2>6 DEF CompleteStep
    <3> QED
      BY <1>1, <2>3, <2>4, <3>1, SparedComplete
  <2> QED
    BY <1>5, <2>5, <2>6
<1>6. CASE \/ TryJob \/ Rebuilt \/ MissKept \/ InitStepDone \/ CancelDone \/ NotYetActive
           \/ IdleStep /\ \E pending \in BOOLEAN : StepEndWith(pending)
  BY <1>6, SparedQuiet
<1>7. Pending \in BOOLEAN /\ (readyQueue' # << >>) \in BOOLEAN
  BY DEF Pending
<1> QED
  BY <1>2, <1>3, <1>4, <1>5, <1>6, <1>7 DEF GDPAStep
-----------------------------------------------------------------------------
(* GDPA-S                                                                   *)

\* The three lists hold the same jobs, and there is no deadline monitor.
GDPASInv ==
  /\ TypeOK /\ JobsNumbered /\ StepsLeft
  /\ readyList \in Seq(JobIds) /\ sdfList \in Seq(JobIds)
  /\ Held(readyList) /\ IsInjective(mySchedule) /\ IsInjective(sdfList)
  /\ Range(mySchedule) = Range(readyList) /\ Range(sdfList) = Range(readyList)
  /\ currentJob # NoJob => currentJob \in Range(readyList)
  /\ dlmon = << >> /\ execMissJobs = << >>

\* The lists when j leaves all of them, ...
LEMMA LeavesLists ==
  ASSUME GDPASInv, NEW j, j \in Range(readyList),
         readyList' = RemoveFirst(readyList, j), mySchedule' = RemoveFirst(mySchedule, j),
         sdfList' = RemoveFirst(sdfList, j)
  PROVE  /\ readyList' \in Seq(JobIds) /\ mySchedule' \in Seq(JobIds) /\ sdfList' \in Seq(JobIds)
         /\ IsInjective(readyList') /\ IsInjective(mySchedule') /\ IsInjective(sdfList')
         /\ Range(readyList') = Range(readyList) \ {j}
         /\ Range(mySchedule') = Range(readyList') /\ Range(sdfList') = Range(readyList')
<1>1. /\ readyList \in Seq(JobIds) /\ mySchedule \in Seq(JobIds) /\ sdfList \in Seq(JobIds)
      /\ IsInjective(readyList) /\ IsInjective(mySchedule) /\ IsInjective(sdfList)
      /\ Range(mySchedule) = Range(readyList) /\ Range(sdfList) = Range(readyList)
  BY DEF GDPASInv, Held, TypeOK
<1>2. /\ readyList' \in Seq(JobIds) /\ IsInjective(readyList')
      /\ Range(readyList') = Range(readyList) \ {j}
  BY <1>1, RemoveFirstRange
<1>3. /\ mySchedule' \in Seq(JobIds) /\ IsInjective(mySchedule')
      /\ Range(mySchedule') = Range(mySchedule) \ {j}
  BY <1>1, RemoveFirstRange
<1>4. /\ sdfList' \in Seq(JobIds) /\ IsInjective(sdfList')
      /\ Range(sdfList') = Range(sdfList) \ {j}
  BY <1>1, RemoveFirstRange
<1> QED
  BY <1>1, <1>2, <1>3, <1>4

\* ... and what is left to show when they do not change.
LEMMA SameLists ==
  ASSUME GDPASInv, TypeOK',
         UNCHANGED <<taskset, job, task, cancelled, mySchedule, dlmon, execMissJobs, currentJob, lists>>
  PROVE  GDPASInv'
<1>1. JobIds' = JobIds /\ readyList' = readyList /\ sdfList' = sdfList
  BY DEF JobIds, Tasks, lists
<1>2. JobsNumbered' /\ StepsLeft' /\ Held(readyList)'
  BY <1>1 DEF GDPASInv, JobsNumbered, StepsLeft, Held
<1> QED
  BY <1>1, <1>2 DEF GDPASInv

LEMMA GDPASDrop ==
  ASSUME GDPASInv, DropInfeasible
  PROVE  /\ GDPASInv' /\ UNCHANGED <<config, taskset, task, job>>
         /\ \E j \in Range(readyList) :
              /\ ~ MustStillExecute(j)
              /\ Range(cancelled') = Range(cancelled) \cup {j}
<1>1. PICK i \in DOMAIN readyList :
        /\ ToDrop(readyList[i])
        /\ readyList' = QueueWithout(readyList, readyList[i])
        /\ mySchedule' = RemoveFirst(mySchedule, readyList[i])
        /\ sdfList' = RemoveFirst(sdfList, readyList[i])
        /\ cancelled' = Append(cancelled, readyList[i])
        /\ currentJob' = IF currentJob = readyList[i] THEN NoJob ELSE currentJob
  BY DEF DropInfeasible
<1>2. PICK j : j = readyList[i]
  OBVIOUS
<1>3. /\ scheduleChanged' = TRUE
      /\ UNCHANGED <<config, taskset, job, task, monitor, dlmon, execMissJobs, pc, now, mode,
                     end, index, rv, ec, finalised, clean, idleSteps, cancelSteps, lastInit>>
  BY DEF DropInfeasible, fixed, tasks, results
<1>4. /\ TypeOK /\ j \in Range(readyList) /\ ~ MustStillExecute(j)
      /\ readyList' = RemoveFirst(readyList, j) /\ mySchedule' = RemoveFirst(mySchedule, j)
      /\ sdfList' = RemoveFirst(sdfList, j) /\ cancelled' = Append(cancelled, j)
      /\ currentJob' = IF currentJob = j THEN NoJob ELSE currentJob
  BY <1>1, <1>2 DEF GDPASInv, Range, ToDrop, QueueWithout
<1>5. /\ j \in JobIds /\ j \in DOMAIN job /\ j \notin Range(cancelled)
      /\ cancelled \in Seq(JobIds) /\ IsInjective(cancelled)
  BY <1>4 DEF GDPASInv, Held, TypeOK
<1>6. /\ readyList' \in Seq(JobIds) /\ mySchedule' \in Seq(JobIds) /\ sdfList' \in Seq(JobIds)
      /\ IsInjective(readyList') /\ IsInjective(mySchedule') /\ IsInjective(sdfList')
      /\ Range(readyList') = Range(readyList) \ {j}
      /\ Range(mySchedule') = Range(readyList') /\ Range(sdfList') = Range(readyList')
  BY <1>4, LeavesLists
<1>7. /\ cancelled' \in Seq(JobIds) /\ IsInjective(cancelled')
      /\ Range(cancelled') = Range(cancelled) \cup {j}
  BY <1>4, <1>5, AppendRange
<1>8. JobIds' = JobIds /\ Tasks' = Tasks
  BY <1>3 DEF JobIds, Tasks
<1>9. TypeOK'
  <2>1. {scheduleChanged, rv, ec, finalised, clean}' \subseteq BOOLEAN
    <3>1. rv' = rv /\ ec' = ec /\ finalised' = finalised /\ clean' = clean /\ scheduleChanged' = TRUE
      BY <1>3
    <3>2. {scheduleChanged, rv, ec, finalised, clean} \subseteq BOOLEAN
      BY <1>4 DEF TypeOK
    <3> QED
      BY <3>1, <3>2, Zenon
  <2>2. currentJob' \in JobIds \cup {NoJob}
    BY <1>4 DEF TypeOK
  <2>3. {mySchedule, dlmon, execMissJobs, cancelled}' \subseteq Seq(JobIds)
    BY <1>3, <1>4, <1>6, <1>7 DEF TypeOK
  <2> QED
    BY <1>3, <1>4, <1>8, <2>1, <2>2, <2>3 DEF TypeOK
<1>10. JobsNumbered' /\ StepsLeft' /\ Held(readyList)'
  BY <1>3, <1>4, <1>5, <1>6, <1>7 DEF GDPASInv, JobsNumbered, StepsLeft, Held
<1>11. currentJob' # NoJob => currentJob' \in Range(readyList')
  BY <1>4, <1>6 DEF GDPASInv
<1> QED
  BY <1>3, <1>4, <1>6, <1>7, <1>8, <1>9, <1>10, <1>11 DEF GDPASInv

\* Steps and calls that leave jobs and lists alone.
LEMMA GDPASQuiet ==
  ASSUME GDPASInv, UNCHANGED lists,
         \/ GDPASInitStepDone \/ CancelDone \/ NotYetActive \/ ScheduleDone
         \/ FinaliseWith(readyList # << >>) \/ \E steps \in RunSteps : Run(steps)
         \/ UNCHANGED vars
  PROVE  GDPASInv'
<1>1. TypeOK /\ now \in Nat
  BY DEF GDPASInv, TypeOK
<1>2. UNCHANGED <<taskset, job, task, cancelled, mySchedule, dlmon, execMissJobs, currentJob, lists>>
  BY DEF GDPASInitStepDone, PerformCancellations, CancelDone, NotYetActive, ScheduleDone,
         FinaliseWith, Run, vars, fixed, sched, tasks
<1>3. TypeOK'
  <2>1. CASE GDPASInitStepDone \/ ScheduleDone
    <3>1. cancelSteps' \in Nat
      BY <1>1, <2>1 DEF TypeOK, GDPASInitStepDone, ScheduleDone, PerformCancellations
    <3> QED
      BY <1>1, <2>1, <3>1, QuietType
         DEF TypeOK, GDPASInitStepDone, ScheduleDone, PerformCancellations, AfterInitStep, results
  <2>2. CASE CancelDone
    <3>1. now' \in Nat
      BY <1>1, <2>2 DEF TypeOK, CancelDone, ExitOnCancel
    <3> QED
      BY <1>1, <2>2, <3>1, QuietType DEF TypeOK, CancelDone, ExitOnCancel, AfterInitStep, results
  <2>3. CASE NotYetActive
    <3>1. index' \in Tasks
      BY <1>1, <2>3, TaskParameters DEF TypeOK, NotYetActive, Advance
    <3> QED
      BY <1>1, <2>3, <3>1, QuietType DEF TypeOK, NotYetActive, Advance, results
  <2>4. CASE FinaliseWith(readyList # << >>)
    BY <1>1, <2>4, QuietType DEF TypeOK, FinaliseWith, sched, tasks, results
  <2>5. ASSUME NEW steps \in RunSteps, Run(steps) PROVE TypeOK'
    <3>1. now + steps \in Nat
      BY <1>1, TypesAssumption
    <3> QED
      BY <1>1, <2>5, <3>1, QuietType DEF TypeOK, Run, sched, tasks, results
  <2>6. CASE UNCHANGED vars
    BY <1>1, <2>6, QuietType DEF TypeOK, vars, results
  <2> QED
    BY <2>1, <2>2, <2>3, <2>4, <2>5, <2>6
<1> QED
  BY <1>2, <1>3, SameLists

LEMMA GDPASCancelJob ==
  ASSUME GDPASInv, CancelJob, UNCHANGED lists
  PROVE  GDPASInv'
<1>1. /\ TypeOK /\ JobsNumbered /\ StepsLeft /\ IsInjective(cancelled)
      /\ Range(cancelled) \subseteq DOMAIN job
      /\ readyList' = readyList /\ sdfList' = sdfList
  BY DEF GDPASInv, Held, lists
<1>2. PICK h : h = Head(cancelled)
  OBVIOUS
<1>3. /\ TypeOK' /\ JobsNumbered' /\ StepsLeft'
      /\ UNCHANGED <<taskset, mySchedule, dlmon, execMissJobs, currentJob>>
      /\ h \in Range(cancelled) /\ Range(cancelled)' = Range(cancelled) \ {h}
      /\ IsInjective(cancelled)'
      /\ DOMAIN job' = DOMAIN job \ {h}
  BY <1>1, <1>2, CancelJobCore
<1>4. Held(readyList)'
  BY <1>1, <1>3 DEF GDPASInv, Held
<1>5. JobIds' = JobIds
  BY <1>3 DEF JobIds, Tasks
<1> QED
  BY <1>1, <1>3, <1>4, <1>5 DEF GDPASInv

LEMMA GDPASActivate ==
  ASSUME GDPASInv, SpawnJob, GDPASEnqueue(NextJobId(index), NewJob(index))
  PROVE  GDPASInv'
<1> DEFINE j == NextJobId(index)
           record == NewJob(index)
           jobs == [i \in DOMAIN job \cup {j} |-> IF i = j THEN record ELSE job[i]]
<1>0. /\ TypeOK /\ JobsNumbered /\ StepsLeft
      /\ readyList \in Seq(JobIds) /\ sdfList \in Seq(JobIds) /\ mySchedule \in Seq(JobIds)
      /\ IsInjective(readyList) /\ IsInjective(sdfList) /\ IsInjective(mySchedule)
      /\ Range(mySchedule) = Range(readyList) /\ Range(sdfList) = Range(readyList)
      /\ Range(readyList) \subseteq DOMAIN job
  BY DEF GDPASInv, Held, TypeOK
<1>1. /\ job' = jobs
      /\ readyList' = Append(readyList, j) /\ sdfList' = Append(sdfList, j)
      /\ scheduleChanged' = TRUE
      /\ \E key : mySchedule' \in InsertByKey(mySchedule, j, key)
      /\ UNCHANGED <<dlmon, execMissJobs, currentJob>>
  BY DEF GDPASEnqueue
<1>2. /\ UNCHANGED <<config, taskset, cancelled>>
      /\ j \in JobIds /\ j \notin DOMAIN job
  BY <1>0, SpawnJobCore
<1> HIDE DEF j, record, jobs
<1>3. j \notin Range(readyList)
  BY <1>0, <1>2
<1>4. /\ readyList' \in Seq(JobIds) /\ IsInjective(readyList')
      /\ Range(readyList') = Range(readyList) \cup {j}
  BY <1>0, <1>1, <1>2, <1>3, AppendRange
<1>5. /\ sdfList' \in Seq(JobIds) /\ IsInjective(sdfList')
      /\ Range(sdfList') = Range(sdfList) \cup {j}
  BY <1>0, <1>1, <1>2, <1>3, AppendRange
<1>6. /\ mySchedule' \in Seq(JobIds) /\ IsInjective(mySchedule')
      /\ Range(mySchedule') = Range(mySchedule) \cup {j}
  BY <1>0, <1>1, <1>2, <1>3, InsertByKeyRange
<1>7. /\ TypeOK' /\ JobsNumbered' /\ StepsLeft'
      /\ DOMAIN job' = DOMAIN job \cup {j}
  <2>1. /\ currentJob' \in JobIds \cup {NoJob} /\ scheduleChanged' \in BOOLEAN
        /\ dlmon' \in Seq(JobIds) /\ execMissJobs' = execMissJobs /\ dlmon' = dlmon
    BY <1>0, <1>1 DEF TypeOK
  <2> QED
    BY <1>0, <1>1, <1>6, <2>1, EnqueuedJob DEF j, record, jobs
<1>8. Held(readyList)'
  BY <1>2, <1>4, <1>7 DEF GDPASInv, Held
<1>9. JobIds' = JobIds
  BY <1>2 DEF JobIds, Tasks
<1> QED
  BY <1>0, <1>1, <1>4, <1>5, <1>6, <1>7, <1>8, <1>9 DEF GDPASInv

\* The job that dispatch chooses is in the lists, and it chooses one unless they
\* are empty.
LEMMA ChosenInList ==
  ASSUME GDPASInv
  PROVE  /\ Chosen # NoJob => Chosen \in Range(readyList) /\ Chosen \in JobIds
         /\ Chosen = NoJob => Range(readyList) = {}
<1>1. /\ mySchedule \in Seq(JobIds) /\ sdfList \in Seq(JobIds) /\ readyList \in Seq(JobIds)
      /\ Range(mySchedule) = Range(readyList) /\ Range(sdfList) = Range(readyList)
      /\ IsInjective(mySchedule) /\ IsInjective(sdfList) /\ IsInjective(readyList)
      /\ Range(readyList) \subseteq JobIds /\ NoJob \notin JobIds
  <2>1. Range(readyList) \subseteq JobIds
    BY DEF GDPASInv, Held, TypeOK
  <2> QED
    BY <2>1, JobIsNotNone DEF GDPASInv, TypeOK, Held
<1>2. CASE readyList = << >>
  <2>1. Range(readyList) = {}
    BY <1>2 DEF Range
  <2>2. currentJob = NoJob
    BY <2>1 DEF GDPASInv
  <2>3. Chosen = NoJob
    BY <1>2, <2>2 DEF Chosen, FromLists
  <2> QED
    BY <2>1, <2>3
<1>3. CASE readyList # << >>
  <2>1. Head(readyList) \in Range(readyList)
    BY <1>1, <1>3, TailRange
  <2>2. mySchedule # << >> /\ sdfList # << >>
    <3>1. Range(<< >>) = {}
      BY DEF Range
    <3>2. Range(mySchedule) # {} /\ Range(sdfList) # {}
      BY <1>1, <2>1
    <3> QED
      BY <3>1, <3>2
  <2>3. Head(mySchedule) \in Range(readyList) /\ Head(sdfList) \in Range(readyList)
    BY <1>1, <2>2, TailRange
  <2>4. FromLists \in Range(readyList)
    <3>1. CASE EDFFeasible(mySchedule)
      BY <1>3, <2>3, <3>1 DEF FromLists
    <3>2. CASE ~ EDFFeasible(mySchedule)
      BY <1>3, <2>3, <3>2 DEF FromLists
    <3> QED
      BY <3>1, <3>2
  <2>5. Chosen \in Range(readyList)
    BY <2>4 DEF Chosen, GDPASInv
  <2> QED
    BY <1>1, <2>5
<1> QED
  BY <1>2, <1>3

LEMMA GDPASIdleInv ==
  ASSUME GDPASInv, GDPASIdle, \E pending \in BOOLEAN : StepEndWith(pending)
  PROVE  GDPASInv'
<1>1. /\ scheduleChanged' = FALSE /\ idleSteps' = idleSteps + 1
      /\ UNCHANGED <<job, mySchedule, dlmon, execMissJobs, currentJob, task, monitor, lists>>
  BY DEF GDPASIdle, tasks
<1>2. TypeOK
  BY DEF GDPASInv
<1>3. /\ UNCHANGED <<config, taskset, cancelled>>
      /\ Tasks' = Tasks /\ JobIds' = JobIds
      /\ pc' \in {"api", "initStep"}
      /\ mode' \in {"none", "run", "finalise"}
      /\ {now, end, cancelSteps}' \subseteq Nat
      /\ lastInit' \in Nat \cup {-1}
      /\ index' \in Tasks
      /\ {rv, ec, finalised, clean}' \subseteq BOOLEAN
  BY <1>2, StepEndType
<1>4. TypeOK'
  <2>1. {scheduleChanged, rv, ec, finalised, clean}' \subseteq BOOLEAN
    BY <1>1, <1>3, Zenon
  <2> QED
    BY <1>1, <1>2, <1>3, <2>1 DEF TypeOK
<1> QED
  BY <1>1, <1>3, <1>4, SameLists

LEMMA GDPASExecuteInv ==
  ASSUME GDPASInv, GDPASExecute, \E pending \in BOOLEAN : StepEndWith(pending)
  PROVE  GDPASInv'
<1>1. PICK j : j = Chosen
  OBVIOUS
<1>2. /\ j # NoJob /\ job[j].rem > 1 /\ job' = AfterStep(j) /\ currentJob' = j
      /\ scheduleChanged' = FALSE /\ readyList' = readyList /\ sdfList' = sdfList
      /\ UNCHANGED <<mySchedule, dlmon, execMissJobs, task, monitor, idleSteps>>
  BY <1>1 DEF GDPASExecute, tasks, lists
<1>3. /\ j \in Range(readyList) /\ j \in JobIds /\ j \in DOMAIN job
      /\ TypeOK /\ JobsNumbered /\ StepsLeft /\ dlmon \in Seq(JobIds)
  BY <1>1, <1>2, ChosenInList DEF GDPASInv, Held, TypeOK
<1>4. /\ TypeOK' /\ JobsNumbered' /\ StepsLeft' /\ UNCHANGED <<config, cancelled>>
      /\ DOMAIN job' = DOMAIN job
  BY <1>2, <1>3, ExecutedJob
<1>5. Held(readyList)'
  BY <1>2, <1>4 DEF GDPASInv, Held
<1>6. JobIds' = JobIds
  <2>1. taskset' = taskset
    BY <1>3, StepEndType
  <2> QED
    BY <2>1 DEF JobIds, Tasks
<1> QED
  BY <1>2, <1>3, <1>4, <1>5, <1>6 DEF GDPASInv

LEMMA GDPASCompleteInv ==
  ASSUME GDPASInv, GDPASComplete, \E pending \in BOOLEAN : StepEndWith(pending)
  PROVE  GDPASInv'
<1>1. PICK j : j = Chosen
  OBVIOUS
<1>2. /\ j # NoJob /\ CompleteJob(j) /\ currentJob' = NoJob /\ scheduleChanged' = TRUE
      /\ readyList' = RemoveFirst(readyList, j) /\ mySchedule' = RemoveFirst(mySchedule, j)
      /\ sdfList' = RemoveFirst(sdfList, j)
      /\ UNCHANGED <<dlmon, execMissJobs, idleSteps>>
  BY <1>1 DEF GDPASComplete, QueueWithout
<1>3. /\ j \in Range(readyList) /\ j \in JobIds /\ j \in DOMAIN job /\ j \notin Range(cancelled)
      /\ TypeOK /\ JobsNumbered /\ StepsLeft /\ dlmon \in Seq(JobIds)
  BY <1>1, <1>2, ChosenInList DEF GDPASInv, Held, TypeOK
<1>4. /\ readyList' \in Seq(JobIds) /\ mySchedule' \in Seq(JobIds) /\ sdfList' \in Seq(JobIds)
      /\ IsInjective(readyList') /\ IsInjective(mySchedule') /\ IsInjective(sdfList')
      /\ Range(readyList') = Range(readyList) \ {j}
      /\ Range(mySchedule') = Range(readyList') /\ Range(sdfList') = Range(readyList')
  BY <1>2, <1>3, LeavesLists
<1>5. /\ TypeOK' /\ JobsNumbered' /\ StepsLeft'
      /\ UNCHANGED <<config, cancelled>>
      /\ DOMAIN job' = DOMAIN job \ {j}
  <2>1. UNCHANGED <<execMissJobs, idleSteps>>
    BY <1>2
  <2> QED
    BY <1>2, <1>3, <1>4, <2>1, CompletedJob
<1>6. Held(readyList)'
  BY <1>3, <1>4, <1>5 DEF GDPASInv, Held
<1>7. JobIds' = JobIds
  <2>1. taskset' = taskset
    BY <1>3, StepEndType
  <2> QED
    BY <2>1 DEF JobIds, Tasks
<1> QED
  BY <1>2, <1>4, <1>5, <1>6, <1>7 DEF GDPASInv

LEMMA GDPASStepInv ==
  ASSUME GDPASInv, GDPASStep
  PROVE  GDPASInv'
<1>1. (readyList' # << >>) \in BOOLEAN
  OBVIOUS
<1> QED
  BY <1>1, GDPASDrop, GDPASActivate, GDPASIdleInv, GDPASExecuteInv, GDPASCompleteInv, GDPASQuiet,
     GDPASCancelJob DEF GDPASStep

LEMMA GDPASCallInv ==
  ASSUME GDPASInv, GDPASCall \/ UNCHANGED <<vars, owned>>
  PROVE  GDPASInv'
<1>1. UNCHANGED <<vars, owned>> => UNCHANGED vars /\ UNCHANGED lists
  BY DEF owned
<1> QED
  BY <1>1, GDPASQuiet DEF GDPASCall

LEMMA GDPASInitInv == OverloadInit => GDPASInv
<1> SUFFICES ASSUME OverloadInit PROVE GDPASInv
  OBVIOUS
<1>1. /\ IInv /\ readyList = << >> /\ sdfList = << >> /\ currentJob = NoJob
      /\ mySchedule = << >> /\ dlmon = << >> /\ execMissJobs = << >> /\ job = << >>
      /\ cancelled = << >>
  BY InitInv DEF OverloadInit, Init, SchedulerInit, GDPASInit
<1>2. Range(<< >>) = {} /\ IsInjective(<< >>) /\ << >> \in Seq(JobIds) /\ DOMAIN << >> = {}
  BY EmptySeq DEF Range, IsInjective
<1> QED
  BY <1>1, <1>2 DEF GDPASInv, IInv, SchedInv, Held

LEMMA GDPASSpared ==
  ASSUME GDPASInv, Spared, GDPASStep
  PROVE  Spared'
<1>1. /\ TypeOK /\ JobsNumbered /\ StepsLeft /\ IsInjective(cancelled)
      /\ Range(cancelled) \subseteq DOMAIN job
  BY DEF GDPASInv, Held
<1>2. CASE DropInfeasible
  <2>1. \A j \in Range(cancelled') : j \in Range(cancelled) \/ ~ MustStillExecute(j)
    BY <1>2, GDPASDrop
  <2> QED
    BY <1>2, <2>1, GDPASDrop, SparedDrop
<1>3. CASE CancelJob
  BY <1>1, <1>3, SparedCancel
<1>4. CASE SpawnJob /\ GDPASEnqueue(NextJobId(index), NewJob(index))
  BY <1>1, <1>4, SparedSpawn DEF GDPASEnqueue
<1>5. CASE (GDPASExecute \/ GDPASComplete) /\ \E pending \in BOOLEAN : StepEndWith(pending)
  <2>1. PICK j : j = Chosen
    OBVIOUS
  <2>2. j # NoJob
    BY <1>5, <2>1 DEF GDPASExecute, GDPASComplete
  <2>3. j \in DOMAIN job \ Range(cancelled)
    BY <2>1, <2>2, ChosenInList DEF GDPASInv, Held
  <2>4. UNCHANGED <<config, taskset, cancelled>>
    BY <1>5 DEF StepEndWith, fixed
  <2>5. CASE GDPASExecute
    <3>1. job' = AfterStep(j) /\ task' = task
      BY <2>1, <2>5 DEF GDPASExecute, tasks
    <3> QED
      BY <1>1, <2>3, <2>4, <3>1, SparedExecute
  <2>6. CASE GDPASComplete
    <3>1. CompleteJob(j)
      BY <2>1, <2>6 DEF GDPASComplete
    <3> QED
      BY <1>1, <2>3, <2>4, <3>1, SparedComplete
  <2> QED
    BY <1>5, <2>5, <2>6
<1>6. CASE \/ GDPASInitStepDone \/ CancelDone \/ NotYetActive \/ ScheduleDone
           \/ GDPASIdle /\ \E pending \in BOOLEAN : StepEndWith(pending)
  BY <1>6, SparedQuiet
<1>7. (readyList' # << >>) \in BOOLEAN
  OBVIOUS
<1> QED
  BY <1>2, <1>3, <1>4, <1>5, <1>6, <1>7 DEF GDPASStep
-----------------------------------------------------------------------------
(* The invariant of all schedulers and what follows from it                 *)

OverInv ==
  /\ variant \in OEDFVariants \cup {"GDPA", "GDPA-S"}
  /\ Spared
  /\ variant \in OEDFVariants => OEDFInv
  /\ variant = "GDPA" => GDPAInv
  /\ variant = "GDPA-S" => GDPASInv

LEMMA OverInitInv == OverloadInit => OverInv
<1> SUFFICES ASSUME OverloadInit PROVE OverInv
  OBVIOUS
<1>1. variant \in OEDFVariants \cup {"GDPA", "GDPA-S"}
  BY DEF OverloadInit, OEDFInit, OEDFVariants
<1>2. Spared
  <2>1. cancelled = << >> /\ \A t \in Tasks : task[t].execCancellations = 0
    BY DEF OverloadInit, Init, Start
  <2> QED
    BY <2>1 DEF Spared, Range
<1> QED
  BY <1>1, <1>2, OEDFInitInv, GDPAInitInv, GDPASInitInv DEF OverInv

LEMMA OverNextInv == OverInv /\ [OverloadNext]_<<vars, owned>> => OverInv'
<1> SUFFICES ASSUME OverInv, [OverloadNext]_<<vars, owned>> PROVE OverInv'
  OBVIOUS
<1>0. "GDPA" \notin OEDFVariants /\ "GDPA-S" \notin OEDFVariants
  BY DEF OEDFVariants, MaxVariants, MinVariants
<1>1. CASE variant \in OEDFVariants
  <2>1. \/ OEDFStep
        \/ OEDFCall \/ UNCHANGED <<vars, owned>>
    BY <1>0, <1>1 DEF OverloadNext, OverloadStep, OverloadCall, CallerStops, Finished
  <2>2. OEDFInv /\ Spared
    BY <1>1 DEF OverInv
  <2>3. OEDFInv'
    BY <1>1, <2>1, <2>2, OEDFStepInv, OEDFCallInv
  <2>4. Spared'
    <3>1. OEDFCall \/ UNCHANGED <<vars, owned>> =>
            \/ \E pending \in BOOLEAN : FinaliseWith(pending)
            \/ \E steps \in RunSteps : Run(steps)
            \/ UNCHANGED vars
      BY DEF OEDFCall, Call, Finalise, HasPendingJobs
    <3> QED
      BY <1>1, <2>1, <2>2, <3>1, OEDFSpared, SparedQuiet
  <2>5. variant' = variant
    BY <2>1 DEF OEDFStep, Repair, RepairDone, OEDFCall, oedf, owned
  <2> QED
    BY <1>0, <1>1, <2>3, <2>4, <2>5 DEF OverInv
<1>2. CASE variant = "GDPA"
  <2>1. \/ GDPAStep /\ UNCHANGED oedf
        \/ GDPACall /\ UNCHANGED oedf
        \/ UNCHANGED <<vars, owned>>
    BY <1>0, <1>2 DEF OverloadNext, OverloadStep, OverloadCall, CallerStops, Finished
  <2>2. GDPAInv /\ Spared
    BY <1>2 DEF OverInv
  <2>3. GDPAInv'
    BY <2>1, <2>2, GDPAStepInv, GDPACallInv
  <2>4. Spared'
    <3>1. GDPACall \/ UNCHANGED <<vars, owned>> =>
            \/ \E pending \in BOOLEAN : FinaliseWith(pending)
            \/ \E steps \in RunSteps : Run(steps)
            \/ UNCHANGED vars
      BY DEF GDPACall, Pending
    <3> QED
      BY <2>1, <2>2, <3>1, GDPASpared, SparedQuiet
  <2>5. variant' = variant
    BY <2>1 DEF oedf, owned
  <2> QED
    BY <1>0, <1>2, <2>3, <2>4, <2>5 DEF OverInv
<1>3. CASE variant = "GDPA-S"
  <2>1. \/ GDPASStep /\ UNCHANGED oedf
        \/ GDPASCall /\ UNCHANGED oedf
        \/ UNCHANGED <<vars, owned>>
    BY <1>0, <1>3 DEF OverloadNext, OverloadStep, OverloadCall, CallerStops, Finished
  <2>2. GDPASInv /\ Spared
    BY <1>3 DEF OverInv
  <2>3. GDPASInv'
    BY <2>1, <2>2, GDPASStepInv, GDPASCallInv
  <2>4. Spared'
    <3>1. GDPASCall \/ UNCHANGED <<vars, owned>> =>
            \/ \E pending \in BOOLEAN : FinaliseWith(pending)
            \/ \E steps \in RunSteps : Run(steps)
            \/ UNCHANGED vars
      BY DEF GDPASCall
    <3> QED
      BY <2>1, <2>2, <3>1, GDPASSpared, SparedQuiet
  <2>5. variant' = variant
    BY <2>1 DEF oedf, owned
  <2> QED
    BY <1>0, <1>3, <2>3, <2>4, <2>5 DEF OverInv
<1> QED
  BY <1>1, <1>2, <1>3 DEF OverInv

\* The invariant that the schedulers of a simulation keep, in every
\* configuration and for every taskset.
THEOREM OverloadInv == OverloadSpec => []OverInv
<1> QED
  BY OverInitInv, OverNextInv, PTL DEF OverloadSpec

\* Every job that exists is held by exactly one list, that of the scheduler or
\* ScheduleStat::cancelled, whatever OEDFScheduler::schedule cancels and
\* GDPAScheduler::schedule refuses; the lists GDPA-S keeps hold the same jobs.
THEOREM OverloadJobsHeldOnce == OverloadSpec => []JobsHeldOnce
<1>1. ASSUME OverInv PROVE JobsHeldOnce
  <2>0. "GDPA" \notin OEDFVariants /\ "GDPA-S" \notin OEDFVariants
    BY DEF OEDFVariants, MaxVariants, MinVariants
  <2>1. CASE variant \in OEDFVariants
    <3>1. Accepted = mySchedule /\ variant # "GDPA-S"
      BY <2>0, <2>1 DEF Accepted
    <3>2. JobsHeld
      BY <1>1, <2>1 DEF OverInv, OEDFInv, IInv, SchedInv
    <3> QED
      BY <3>1, <3>2 DEF JobsHeldOnce, JobsHeld
  <2>2. CASE variant = "GDPA"
    <3>1. Accepted = readyQueue
      BY <2>0, <2>2 DEF Accepted
    <3>2. GDPAInv
      BY <1>1, <2>2 DEF OverInv
    <3> QED
      BY <2>2, <3>1, <3>2 DEF JobsHeldOnce, GDPAInv, Queued, Building, Held
  <2>3. CASE variant = "GDPA-S"
    <3>1. Accepted = readyList
      BY <2>0, <2>3 DEF Accepted
    <3>2. GDPASInv
      BY <1>1, <2>3 DEF OverInv
    <3> QED
      BY <3>1, <3>2 DEF JobsHeldOnce, GDPASInv, Held
  <2> QED
    BY <1>1, <2>1, <2>2, <2>3 DEF OverInv
<1>2. OverInv => JobsHeldOnce
  BY <1>1
<1> QED
  BY <1>2, OverloadInv, PTL

\* With execCancellations off, no scheduler cancels a job that has executed: not
\* in initStep, and not in schedule(), however low the job's value is.
THEOREM OverloadStartedJobsSpared == OverloadSpec => []StartedJobsSpared
<1>1. OverInv => StartedJobsSpared
  BY DEF OverInv, Spared, StartedJobsSpared
<1> QED
  BY <1>1, OverloadInv, PTL

\* A job that GDPA refuses is still watched by the deadline monitor: while
\* everything may be cancelled, it comes back to the simulation.
THEOREM OverloadGDPAReturnsJobs == OverloadSpec => []GDPAReturnsJobs
<1>1. OverInv => GDPAReturnsJobs
  <2> SUFFICES ASSUME OverInv, variant = "GDPA", FinaliseEnds PROVE AcceptedJobsReturn
    BY DEF GDPAReturnsJobs
  <2>1. GDPAInv
    BY DEF OverInv
  <2>2. config.dlMissCancellations /\ Range(execMissJobs) = {}
    BY <2>1 DEF GDPAInv, Queued, NothingKept, FinaliseEnds, Range
  <2>3. Range(dlmon) = Range(readyQueue)
    BY <2>1, <2>2 DEF GDPAInv, Queued, QueueWatched
  <2> QED
    BY <2>2, <2>3 DEF AcceptedJobsReturn
<1> QED
  BY <1>1, OverloadInv, PTL

\* dispatch leaves the processor idle only if the scheduler holds no job, or, in
\* GDPA, none that could still meet its deadline: refusing and cancelling jobs
\* never costs processor time that another job could use.
THEOREM OverloadWorkConserving == OverloadSpec => WorkConserving
<1>1. ASSUME OverInv, [OverloadNext]_<<vars, owned>>, idleSteps' # idleSteps
      PROVE  \A j \in Range(Accepted) : LatestStart(job)[j] < now
  <2>0. "GDPA" \notin OEDFVariants /\ "GDPA-S" \notin OEDFVariants
    BY DEF OEDFVariants, MaxVariants, MinVariants
  <2>1. ASSUME NEW pending, StepEndWith(pending), ExecuteStep \/ CompleteStep PROVE FALSE
    BY <1>1, <2>1 DEF ExecuteStep, CompleteStep
  <2>2. ~ UNCHANGED <<vars, owned>>
    BY <1>1 DEF vars
  <2>3. ~ (\/ MissKept \/ MissDropped \/ InitStepDone \/ GDPASInitStepDone \/ CancelJob
           \/ CancelDone \/ SpawnJob \/ NotYetActive \/ ScheduleDone \/ Repair \/ TryJob
           \/ Rebuilt \/ DropInfeasible \/ GDPASExecute \/ GDPASComplete)
    BY <1>1 DEF MissKept, MissDropped, InitStepDone, GDPASInitStepDone, PerformCancellations,
                CancelJob, CancelDone, SpawnJob, NotYetActive, ScheduleDone, Repair, TryJob,
                Rebuilt, DropInfeasible, GDPASExecute, GDPASComplete
  <2>4. ~ ((\E pending : FinaliseWith(pending)) \/ (\E steps \in RunSteps : Run(steps)))
    BY <1>1 DEF FinaliseWith, Run
  <2>5. CASE variant \in OEDFVariants
    <3>1. IdleStep
      BY <1>1, <2>0, <2>1, <2>2, <2>3, <2>4, <2>5
         DEF OverloadNext, OverloadStep, OverloadCall, CallerStops, Finished, OEDFStep, OEDFCall,
             RepairDone, Activate, Idle, Execute, Complete, StepEnd, Call, Finalise
    <3>2. IInv /\ TypeOK /\ ScheduleIsSeen
      BY <1>1, <2>5 DEF OverInv, OEDFInv, IInv, SchedInv
    <3>3. mySchedule = << >>
      <4> SUFFICES ASSUME mySchedule # << >> PROVE FALSE
        OBVIOUS
      <4>1. Head(mySchedule) = NoJob
        BY <3>1, <3>2 DEF IdleStep, DispatchIdle, NextJob, ScheduleIsSeen
      <4>2. Head(mySchedule) \in JobIds
        BY <3>2, HeadTailProperties DEF TypeOK
      <4> QED
        BY <3>2, <4>1, <4>2, JobIsNotNone
    <3> QED
      <4>1. Accepted = mySchedule
        BY <2>0, <2>5 DEF Accepted
      <4>2. Range(Accepted) = {}
        BY <3>3, <4>1 DEF Range
      <4> QED
        BY <4>2
  <2>6. CASE variant = "GDPA"
    <3>1. IdleStep
      BY <1>1, <2>0, <2>1, <2>2, <2>3, <2>4, <2>6
         DEF OverloadNext, OverloadStep, OverloadCall, CallerStops, Finished, GDPAStep, GDPACall
    <3>2. GDPAInv /\ TypeOK
      BY <1>1, <2>6 DEF OverInv, GDPAInv, Queued
    <3>3. pc = "dispatch" /\ NextJob = NoJob
      BY <3>1 DEF IdleStep, DispatchIdle
    <3>4. mySchedule = << >>
      <4> SUFFICES ASSUME mySchedule # << >> PROVE FALSE
        OBVIOUS
      <4>1. Head(mySchedule) = NoJob
        BY <3>2, <3>3 DEF NextJob, GDPAInv, Building
      <4>2. Head(mySchedule) \in JobIds
        BY <3>2, HeadTailProperties DEF TypeOK
      <4> QED
        BY <3>2, <4>1, <4>2, JobIsNotNone
    <3>5. \A j \in Range(readyQueue) : TooLate(j)
      BY <3>2, <3>3, <3>4 DEF GDPAInv, Building
    <3>6. Accepted = readyQueue
      BY <2>0, <2>6 DEF Accepted
    <3> QED
      BY <3>5, <3>6 DEF TooLate
  <2>7. CASE variant = "GDPA-S"
    <3>1. GDPASIdle
      BY <1>1, <2>0, <2>2, <2>3, <2>4, <2>7
         DEF OverloadNext, OverloadStep, OverloadCall, CallerStops, Finished, GDPASStep, GDPASCall
    <3>2. Range(readyList) = {}
      BY <1>1, <2>7, <3>1, ChosenInList DEF OverInv, GDPASIdle
    <3>3. Accepted = readyList
      BY <2>0, <2>7 DEF Accepted
    <3> QED
      BY <3>2, <3>3
  <2> QED
    BY <1>1, <2>5, <2>6, <2>7 DEF OverInv
<1>2. OverInv /\ [OverloadNext]_<<vars, owned>> =>
        [idleSteps' # idleSteps =>
           \A j \in Range(Accepted) : LatestStart(job)[j] < now]_<<vars, owned>>
  BY <1>1
<1> QED
  BY <1>2, OverloadInv, PTL DEF OverloadSpec, WorkConserving
-----------------------------------------------------------------------------
(* The simulation implements JobLife with each of these schedulers          *)

LEMMA QuietLife ==
  ASSUME UNCHANGED <<taskset, task>>, DOMAIN job' = DOMAIN job
  PROVE  UNCHANGED Life!lifeVars
<1> QED
  BY DEF Life!lifeVars, Tasks

\* What the simulation and the schedulers have in common
LEMMA OverHolds ==
  ASSUME OverInv
  PROVE  TypeOK /\ (cancelled # << >> => Head(cancelled) \in DOMAIN job)
<1>1. TypeOK /\ Range(cancelled) \subseteq DOMAIN job /\ IsInjective(cancelled)
  <2>1. CASE variant \in OEDFVariants
    BY <2>1 DEF OverInv, OEDFInv, IInv, SchedInv, JobsHeld
  <2>2. CASE variant = "GDPA"
    BY <2>2 DEF OverInv, GDPAInv, Queued, Held
  <2>3. CASE variant = "GDPA-S"
    BY <2>3 DEF OverInv, GDPASInv, Held
  <2> QED
    BY <2>1, <2>2, <2>3 DEF OverInv
<1>2. cancelled \in Seq(JobIds)
  BY <1>1 DEF TypeOK
<1>3. cancelled # << >> => Head(cancelled) \in Range(cancelled)
  BY <1>1, <1>2, TailRange
<1> QED
  BY <1>1, <1>3

\* The steps that neither create a job nor hand one back
LEMMA KeepLife ==
  ASSUME \/ MissKept \/ MissDropped \/ InitStepDone \/ GDPASInitStepDone \/ DropInfeasible
         \/ CancelDone \/ NotYetActive \/ ScheduleDone \/ Repair \/ TryJob \/ Rebuilt
         \/ IdleStep /\ \E pending \in BOOLEAN : StepEndWith(pending)
         \/ ExecuteStep /\ \E pending \in BOOLEAN : StepEndWith(pending)
         \/ (GDPASIdle \/ GDPASExecute) /\ \E pending \in BOOLEAN : StepEndWith(pending)
         \/ \E pending \in BOOLEAN : FinaliseWith(pending)
         \/ \E steps \in RunSteps : Run(steps)
         \/ UNCHANGED vars
  PROVE  UNCHANGED Life!lifeVars
<1>1. CASE \/ MissKept \/ MissDropped \/ DropInfeasible \/ CancelDone \/ NotYetActive
           \/ Repair \/ TryJob \/ Rebuilt
  BY <1>1, QuietLife
     DEF MissKept, MissDropped, DropInfeasible, CancelDone, NotYetActive, Repair, TryJob,
         Rebuilt, fixed, tasks
<1>2. CASE InitStepDone \/ GDPASInitStepDone \/ ScheduleDone
  BY <1>2, QuietLife
     DEF InitStepDone, GDPASInitStepDone, ScheduleDone, PerformCancellations, fixed, tasks
<1>3. ASSUME NEW pending, StepEndWith(pending), IdleStep \/ ExecuteStep \/ GDPASIdle \/ GDPASExecute
      PROVE  UNCHANGED Life!lifeVars
  BY <1>3, QuietLife
     DEF IdleStep, DispatchIdle, ExecuteStep, DispatchStep, GDPASIdle, GDPASExecute, AfterStep,
         StepEndWith, fixed, tasks
<1>4. CASE \/ \E pending \in BOOLEAN : FinaliseWith(pending)
           \/ \E steps \in RunSteps : Run(steps)
           \/ UNCHANGED vars
  BY <1>4, QuietLife DEF FinaliseWith, Run, vars, fixed, tasks
<1> QED
  BY <1>1, <1>2, <1>3, <1>4

\* The schedulers take what was activated.
LEMMA EnqueuesLife ==
  ASSUME TypeOK, SpawnJob, NEW record,
         \/ EnqueueJob(NextJobId(index), record)
         \/ GDPAEnqueue(NextJobId(index), record)
         \/ GDPASEnqueue(NextJobId(index), record)
  PROVE  Life!LifeNext
<1>1. DOMAIN job' = DOMAIN job \cup {NextJobId(index)}
  BY DEF EnqueueJob, GDPAEnqueue, GDPASEnqueue
<1> QED
  BY <1>1, SpawnLife DEF Life!LifeNext

\* The job that dispatch finishes exists.
LEMMA FinishesLife ==
  ASSUME TypeOK, NEW j \in DOMAIN job, CompleteJob(j), NEW pending, StepEndWith(pending)
  PROVE  Life!LifeNext
<1>1. UNCHANGED taskset
  BY DEF StepEndWith, fixed
<1> QED
  BY <1>1, CompleteJobLife DEF Life!LifeNext

LEMMA OverNextLife ==
  OverInv /\ [OverloadNext]_<<vars, owned>> => [Life!LifeNext]_(Life!lifeVars)
<1> SUFFICES ASSUME OverInv, [OverloadNext]_<<vars, owned>>
             PROVE  Life!LifeNext \/ UNCHANGED Life!lifeVars
  OBVIOUS
<1>0. "GDPA" \notin OEDFVariants /\ "GDPA-S" \notin OEDFVariants
  BY DEF OEDFVariants, MaxVariants, MinVariants
<1>1. TypeOK /\ (cancelled # << >> => Head(cancelled) \in DOMAIN job)
  BY OverHolds
<1>2. CASE CancelJob
  BY <1>1, <1>2, CancelJobLife DEF CancelJob, Life!LifeNext
<1>3. ASSUME NEW steps \in RunSteps, Run(steps) PROVE UNCHANGED Life!lifeVars
  BY <1>3, KeepLife
<1>4. CASE UNCHANGED <<vars, owned>>
  BY <1>4, KeepLife DEF vars
<1>5. CASE variant \in OEDFVariants
  <2>1. OEDFStep \/ OEDFCall \/ UNCHANGED vars
    BY <1>0, <1>5 DEF OverloadNext, OverloadStep, OverloadCall, CallerStops, Finished, vars
  <2>2. CASE Activate
    BY <1>1, <2>2, EnqueuesLife DEF Activate
  <2>3. CASE Complete
    <3>1. NextJob # NoJob /\ CompleteJob(NextJob)
      BY <2>3 DEF Complete, CompleteStep, DispatchFinish
    <3>2. NextJob \in DOMAIN job
      BY <1>5, <3>1, NextJobIsFirst DEF OverInv, OEDFInv
    <3> QED
      BY <1>1, <2>3, <3>1, <3>2, FinishesLife DEF Complete, StepEnd
  <2>4. CASE Idle \/ Execute
    BY <2>4, KeepLife DEF Idle, Execute, StepEnd, HasPendingJobs
  <2>5. CASE OEDFCall
    BY <1>3, <2>5, KeepLife DEF OEDFCall, Call, Finalise, HasPendingJobs
  <2> QED
    BY <1>2, <2>1, <2>2, <2>3, <2>4, <2>5, KeepLife DEF OEDFStep, RepairDone
<1>6. CASE variant = "GDPA"
  <2>1. GDPAStep \/ GDPACall \/ UNCHANGED vars
    BY <1>0, <1>6 DEF OverloadNext, OverloadStep, OverloadCall, CallerStops, Finished, vars
  <2>2. CASE SpawnJob /\ GDPAEnqueue(NextJobId(index), NewJob(index))
    BY <1>1, <2>2, EnqueuesLife
  <2>3. ASSUME NEW pending, CompleteStep, StepEndWith(pending)
        PROVE  Life!LifeNext
    <3>1. NextJob # NoJob /\ CompleteJob(NextJob) /\ pc = "dispatch"
      BY <2>3 DEF CompleteStep, DispatchFinish
    <3>2. NextJob \in DOMAIN job
      BY <1>6, <3>1, NextInQueue DEF OverInv
    <3> QED
      BY <1>1, <2>3, <3>1, <3>2, FinishesLife
  <2>4. CASE (IdleStep \/ ExecuteStep) /\ StepEndWith(Pending)
    BY <2>4, KeepLife DEF Pending
  <2>5. CASE GDPACall
    BY <1>3, <2>5, KeepLife DEF GDPACall, Pending
  <2> QED
    BY <1>2, <2>1, <2>2, <2>3, <2>4, <2>5, KeepLife DEF GDPAStep
<1>7. CASE variant = "GDPA-S"
  <2>1. GDPASStep \/ GDPASCall \/ UNCHANGED vars
    BY <1>0, <1>7 DEF OverloadNext, OverloadStep, OverloadCall, CallerStops, Finished, vars
  <2>2. CASE SpawnJob /\ GDPASEnqueue(NextJobId(index), NewJob(index))
    BY <1>1, <2>2, EnqueuesLife
  <2>3. ASSUME NEW pending, GDPASComplete, StepEndWith(pending)
        PROVE  Life!LifeNext
    <3>1. Chosen # NoJob /\ CompleteJob(Chosen)
      BY <2>3 DEF GDPASComplete
    <3>2. Chosen \in DOMAIN job
      BY <1>7, <3>1, ChosenInList DEF OverInv, GDPASInv, Held
    <3> QED
      BY <1>1, <2>3, <3>1, <3>2, FinishesLife
  <2>4. CASE (GDPASIdle \/ GDPASExecute) /\ StepEndWith(readyList' # << >>)
    <3>1. (readyList' # << >>) \in BOOLEAN
      OBVIOUS
    <3> QED
      BY <2>4, <3>1, KeepLife
  <2>5. CASE GDPASCall
    BY <1>3, <2>5, KeepLife DEF GDPASCall
  <2> QED
    BY <1>2, <2>1, <2>2, <2>3, <2>4, <2>5, KeepLife DEF GDPASStep
<1> QED
  BY <1>5, <1>6, <1>7 DEF OverInv

\* scheduler.h's promise with every one of these schedulers: however they choose,
\* refuse and drop, a job that was enqueued comes back at most once, by completeJob or
\* by cancelJob, and until then it is pending.
THEOREM OverloadImplementsJobLife == OverloadSpec => EveryJobReturnedOnce
<1>1. OverloadInit => Life!LifeInit
  BY InitLife DEF OverloadInit
<1> QED
  BY <1>1, OverNextLife, OverloadInv, PTL DEF OverloadSpec, EveryJobReturnedOnce, Life!LifeSpec
=============================================================================
