-------------------------- MODULE OptimalityProofs --------------------------
(***************************************************************************)
(* EDF is optimal, for every taskset whose demand fits: no job is ever     *)
(* cancelled, and none is late.  The argument looks at a deadline d and at *)
(* the last time from which the processor has executed nothing but jobs    *)
(* due by d: the steps since then and those that such jobs still need are  *)
(* at most what the tasks may have released and due by d since then.       *)
(***************************************************************************)
EXTENDS OverloadProofs

-----------------------------------------------------------------------------
(* Sums and quotients                                                       *)

LEMMA SumMonotone ==
  ASSUME NEW S, IsFiniteSet(S), NEW f, NEW h,
         \A x \in S : f[x] \in Int /\ h[x] \in Int /\ f[x] <= h[x]
  PROVE  SumOf(f, S) <= SumOf(h, S)
<1> DEFINE T == {s \in SUBSET S : ~ (SumOf(f, s) <= SumOf(h, s))}
<1> SUFFICES ASSUME T # {} PROVE FALSE
  OBVIOUS
<1>0. T \in SUBSET (SUBSET S)
  OBVIOUS
<1>1. PICK s \in T : \A r \in T : r \subseteq s => r = s
  <2> HIDE DEF T
  <2> QED
    BY <1>0, MinimalSubset
<1>2. s # {} /\ IsFiniteSet(s)
  <2>1. IsFiniteSet(s) /\ ~ (SumOf(f, s) <= SumOf(h, s))
    BY FS_Subset
  <2>2. SumOf(f, {}) = 0 /\ SumOf(h, {}) = 0
    BY SumEmpty
  <2>3. SumOf(f, {}) <= SumOf(h, {})
    BY <2>2
  <2> QED
    BY <2>1, <2>3
<1> DEFINE c == Choice(s)
           r == s \ {c}
<1>3. /\ c \in s /\ SumOf(f, s) = f[c] + SumOf(f, r)
      /\ SumOf(h, s) = h[c] + SumOf(h, r)
  BY <1>2, ChoiceIn, SumChoice
<1>4. SumOf(f, r) <= SumOf(h, r)
  BY <1>1, <1>3
<1>5. SumOf(f, r) \in Int /\ SumOf(h, r) \in Int
  <2>1. r \in SUBSET S
    OBVIOUS
  <2> HIDE DEF r
  <2> QED
    BY <2>1, SumType
<1>6. f[c] \in Int /\ h[c] \in Int /\ f[c] <= h[c]
  BY <1>3
<1>7. ~ (SumOf(f, s) <= SumOf(h, s))
  BY <1>1
<1> HIDE DEF r, c
<1> QED
  BY <1>3, <1>4, <1>5, <1>6, <1>7

\* An element is added.
LEMMA SumAdd ==
  ASSUME NEW S, IsFiniteSet(S), NEW f, NEW h, NEW x, x \notin S, h[x] \in Int,
         \A y \in S : f[y] \in Int /\ f[y] = h[y]
  PROVE  SumOf(h, S \cup {x}) = SumOf(f, S) + h[x]
<1> DEFINE T == S \cup {x}
<1>1. IsFiniteSet(T) /\ x \in T /\ T \ {x} = S
  BY FS_AddElement
<1>2. \A y \in T : h[y] \in Int
  OBVIOUS
<1>3. SumOf(h, T) = h[x] + SumOf(h, T \ {x})
  <2> HIDE DEF T
  <2> QED
    BY <1>1, <1>2, SumRemove
<1>4. SumOf(h, S) = SumOf(f, S)
  BY SumSame
<1>5. SumOf(f, S) \in Int
  BY SumType
<1> DEFINE a == SumOf(f, S)
<1>6. SumOf(h, T) = h[x] + a /\ a \in Int
  BY <1>1, <1>3, <1>4, <1>5
<1> HIDE DEF a
<1>7. SumOf(h, T) = a + h[x]
  BY <1>6
<1> QED
  BY <1>7 DEF a

\* What fits a times fits into the quotient.
LEMMA FitsInto ==
  ASSUME NEW a \in Nat, NEW g \in Nat \ {0}, NEW x \in Nat, a * g <= x
  PROVE  x \div g \in Nat /\ a <= x \div g
<1>1. PICK q, r : q = x \div g /\ r = x % g
  OBVIOUS
<1>2. q \in Int /\ r \in 0 .. g - 1 /\ x = g * q + r
  BY <1>1
<1>3. q >= 0
  <2>1. CASE q < 0
    <3>1. -1 - q \in Nat
      BY <1>2, <2>1
    <3>2. g * (-1 - q) >= 0
      BY <3>1
    <3>3. g * (-1 - q) = -g - g * q
      BY <1>2
    <3>4. g * q \in Int
      BY <1>2
    <3> QED
      BY <1>2, <3>2, <3>3, <3>4
  <2> QED
    BY <1>2, <2>1
<1>4. a <= q
  <2>1. CASE a > q
    <3>1. a - 1 - q \in Nat
      BY <1>2, <2>1
    <3>2. g * (a - 1 - q) >= 0
      BY <3>1
    <3>3. g * (a - 1 - q) = a * g - g - g * q
      BY <1>2
    <3>4. g * q \in Int /\ a * g \in Int
      BY <1>2
    <3> QED
      BY <1>2, <3>2, <3>3, <3>4
  <2> QED
    BY <1>2, <2>1
<1> QED
  BY <1>1, <1>2, <1>3, <1>4
-----------------------------------------------------------------------------
(* Demand                                                                   *)

Gap(t) == Min(taskset[t].gaps)

\* What the processor owes to jobs due by d
DueBy(jobs, d) == [j \in DOMAIN jobs |-> IF jobs[j].dl <= d THEN jobs[j].rem ELSE 0]

Owed(jobs, d) == SumOf(DueBy(jobs, d), DOMAIN jobs)

\* n jobs of each task may have been released from start on, and are due by d.
Fits(counters, n, start, d) ==
  \A t \in Tasks : n[t] > 0 =>
    /\ start + (n[t] - 1) * Gap(t) + taskset[t].ct <= d
    /\ start + n[t] * Gap(t) <= counters[t].next

Work(n) == SumOf([t \in Tasks |-> n[t] * taskset[t].et], Tasks)

\* Since start the processor has executed nothing but jobs due by d: with what it
\* still owes to such jobs, that is some of the work released since then.
BusySince(jobs, counters, time, d, start) ==
  \E n \in [Tasks -> Nat] :
    Fits(counters, n, start, d) /\ Owed(jobs, d) + (time - start) <= Work(n)

Busy(jobs, counters, time) ==
  \A d \in Nat : d >= time => \E start \in 0 .. time : BusySince(jobs, counters, time, d, start)

LEMMA TaskNumbers ==
  ASSUME TypeOK, NEW t \in Tasks
  PROVE  /\ Gap(t) \in Nat \ {0} /\ \A gap \in taskset[t].gaps : gap \in Nat /\ Gap(t) <= gap
         /\ taskset[t].ct \in Nat \ {0} /\ taskset[t].et \in Nat \ {0}
<1>1. taskset[t] \in TaskRecord
  BY TaskParameters
<1>2. taskset[t].gaps # {} /\ taskset[t].gaps \in SUBSET (Nat \ {0})
  BY <1>1, TasksetsAssumption DEF TypeOK, Tasks, TaskRecord
<1>3. taskset[t].gaps \in SUBSET Nat
  BY <1>2
<1>4. Gap(t) \in taskset[t].gaps /\ \A x \in taskset[t].gaps : Gap(t) <= x
  BY <1>2, <1>3, MinIn DEF Gap
<1> QED
  BY <1>1, <1>2, <1>4 DEF TaskRecord

LEMMA WorkNat ==
  ASSUME TypeOK, NEW n \in [Tasks -> Nat]
  PROVE  /\ IsFiniteSet(Tasks) /\ Work(n) \in Nat
         /\ \A t \in Tasks : n[t] * taskset[t].et \in Nat
<1>1. IsFiniteSet(Tasks)
  BY FS_Interval, TaskParameters
<1>2. \A t \in Tasks : n[t] * taskset[t].et \in Nat
  <2> SUFFICES ASSUME NEW t \in Tasks PROVE n[t] * taskset[t].et \in Nat
    OBVIOUS
  <2>1. n[t] \in Nat /\ taskset[t].et \in Nat
    BY TaskNumbers
  <2> QED
    BY <2>1
<1>3. PICK f : f = [t \in Tasks |-> n[t] * taskset[t].et]
  OBVIOUS
<1>4. \A t \in Tasks : f[t] \in Nat
  BY <1>2, <1>3
<1>5. SumOf(f, Tasks) \in Nat
  BY <1>1, <1>4, SumNat
<1> QED
  BY <1>1, <1>2, <1>3, <1>5 DEF Work

LEMMA OwedNat ==
  ASSUME NEW jobs, IsFiniteSet(DOMAIN jobs), \A j \in DOMAIN jobs : jobs[j].rem \in Nat, NEW d
  PROVE  /\ Owed(jobs, d) \in Nat
         /\ \A j \in DOMAIN jobs : DueBy(jobs, d)[j] \in Nat
<1>1. PICK f : f = DueBy(jobs, d)
  OBVIOUS
<1>2. \A j \in DOMAIN jobs : f[j] \in Nat
  BY <1>1 DEF DueBy
<1>3. SumOf(f, DOMAIN jobs) \in Nat
  BY <1>2, SumNat
<1> QED
  BY <1>1, <1>2, <1>3 DEF Owed

\* No work is released by no jobs.
LEMMA NoWork ==
  ASSUME TypeOK, NEW n \in [Tasks -> Nat], \A t \in Tasks : n[t] = 0
  PROVE  Work(n) = 0
<1>1. PICK f : f = [t \in Tasks |-> n[t] * taskset[t].et]
  OBVIOUS
<1>2. \A t \in Tasks : f[t] = 0
  <2> SUFFICES ASSUME NEW t \in Tasks PROVE f[t] = 0
    OBVIOUS
  <2>1. taskset[t].et \in Nat
    BY TaskNumbers
  <2> QED
    BY <1>1, <2>1
<1>3. IsFiniteSet(Tasks)
  BY WorkNat
<1>4. SumOf(f, Tasks) = 0
  BY <1>2, <1>3, SumOfZeros
<1> QED
  BY <1>1, <1>4 DEF Work

\* Demand is a sum over the tasks.
LEMMA DemandIsSum ==
  ASSUME NEW ts, IsFiniteSet(DOMAIN ts), NEW length, NEW f,
         \A i \in DOMAIN ts :
           f[i] = IF length < ts[i].ct THEN 0
                  ELSE ts[i].et * ((length - ts[i].ct) \div Min(ts[i].gaps) + 1)
  PROVE  Demand(ts, length) = SumOf(f, DOMAIN ts)
<1> DEFINE S == DOMAIN ts
           Val(i) == IF length < ts[i].ct THEN 0
                     ELSE ts[i].et * ((length - ts[i].ct) \div Min(ts[i].gaps) + 1)
<1>1. \A i \in S : f[i] = Val(i)
  OBVIOUS
<1>2. PICK g : SumsTo(g, f, S)
  BY SumsExist
<1>3. \A s \in SUBSET S : s # {} => f[Choice(s)] = Val(CHOOSE x \in s : TRUE)
  BY <1>1, ChoiceIn DEF Choice
<1>4. g = [s \in SUBSET S |->
             IF s = {} THEN 0
             ELSE Val(CHOOSE x \in s : TRUE) + g[s \ {CHOOSE x \in s : TRUE}]]
  <2>1. g = [s \in SUBSET S |-> g[s]]
    BY <1>2 DEF SumsTo
  <2>2. ASSUME NEW s \in SUBSET S
        PROVE  g[s] = IF s = {} THEN 0
                      ELSE Val(CHOOSE x \in s : TRUE) + g[s \ {CHOOSE x \in s : TRUE}]
    <3>1. g[s] = IF s = {} THEN 0 ELSE f[Choice(s)] + g[s \ {Choice(s)}]
      BY <1>2 DEF SumsTo
    <3> QED
      BY <3>1, <1>3 DEF Choice
  <2> HIDE DEF S, Val
  <2> QED
    BY <2>1, <2>2
<1>5. \E it : it = [s \in SUBSET S |->
                     IF s = {} THEN 0
                     ELSE (LET i == CHOOSE x \in s : TRUE
                           IN  IF length < ts[i].ct THEN 0
                               ELSE ts[i].et * ((length - ts[i].ct) \div Min(ts[i].gaps) + 1))
                          + it[s \ {CHOOSE x \in s : TRUE}]]
  <2> HIDE DEF S
  <2> QED
    BY <1>4
<1>6. PICK it :
        /\ it = [s \in SUBSET S |->
                   IF s = {} THEN 0
                   ELSE (LET i == CHOOSE x \in s : TRUE
                         IN  IF length < ts[i].ct THEN 0
                             ELSE ts[i].et * ((length - ts[i].ct) \div Min(ts[i].gaps) + 1))
                        + it[s \ {CHOOSE x \in s : TRUE}]]
        /\ MapThenSumSet(LAMBDA i : IF length < ts[i].ct THEN 0
             ELSE ts[i].et * ((length - ts[i].ct) \div Min(ts[i].gaps) + 1), S) = it[S]
  <2> HIDE DEF S
  <2> QED
    BY <1>5 DEF MapThenSumSet, MapThenFoldSet
<1>7. SumsTo(it, f, S)
  <2>1. it = [s \in SUBSET S |->
                IF s = {} THEN 0
                ELSE Val(CHOOSE x \in s : TRUE) + it[s \ {CHOOSE x \in s : TRUE}]]
    <3> HIDE DEF S
    <3> QED
      BY <1>6
  <2> HIDE DEF S, Val
  <2>2. it = [s \in SUBSET S |-> it[s]]
    BY <2>1
  <2>3. ASSUME NEW s \in SUBSET S
        PROVE  it[s] = IF s = {} THEN 0 ELSE f[Choice(s)] + it[s \ {Choice(s)}]
    <3>1. it[s] = IF s = {} THEN 0
                  ELSE Val(CHOOSE x \in s : TRUE) + it[s \ {CHOOSE x \in s : TRUE}]
      BY <2>1
    <3> QED
      BY <3>1, <1>3 DEF Choice
  <2> QED
    BY <2>2, <2>3 DEF SumsTo
<1> QED
  BY <1>6, <1>7, SumsAre DEF Demand

\* What may have been released and due in an interval is at most the demand of its
\* length.
LEMMA WorkWithinDemand ==
  ASSUME TypeOK, NEW counters, NEW n \in [Tasks -> Nat], NEW start \in Nat, NEW d \in Nat,
         start <= d, Fits(counters, n, start, d)
  PROVE  Demand(taskset, d - start) \in Int /\ Work(n) <= Demand(taskset, d - start)
<1> DEFINE length == d - start
<1>1. length \in Nat
  OBVIOUS
<1>2. PICK f, h :
        /\ f = [t \in Tasks |-> n[t] * taskset[t].et]
        /\ h = [t \in Tasks |->
                  IF length < taskset[t].ct THEN 0
                  ELSE taskset[t].et * ((length - taskset[t].ct) \div Gap(t) + 1)]
  OBVIOUS
<1>3. ASSUME NEW t \in Tasks PROVE f[t] \in Int /\ h[t] \in Int /\ f[t] <= h[t]
  <2> DEFINE g  == Gap(t)
             ct == taskset[t].ct
             et == taskset[t].et
             x  == length - ct
             q  == x \div g
             a  == n[t]
  <2>1. g \in Nat \ {0} /\ ct \in Nat \ {0} /\ et \in Nat \ {0} /\ a \in Nat
    BY TaskNumbers
  <2>2. f[t] = a * et /\ h[t] = IF length < ct THEN 0 ELSE et * (q + 1)
    BY <1>2
  <2>3. a > 0 => start + (a - 1) * g + ct <= d
    BY DEF Fits
  <2> HIDE DEF g, ct, et, a, length
  <2>4. CASE length < ct
    <3>1. CASE a = 0
      <4>1. a * et = 0
        BY <2>1, <3>1
      <4> QED
        BY <2>2, <2>4, <4>1
    <3>2. CASE a > 0
      <4>1. (a - 1) * g >= 0 /\ (a - 1) * g \in Int
        BY <2>1, <3>2
      <4>2. start + (a - 1) * g + ct <= d
        BY <2>3, <3>2
      <4> QED
        BY <2>1, <2>4, <4>1, <4>2 DEF length
    <3> QED
      BY <2>1, <3>1, <3>2
  <2>5. CASE ~ (length < ct)
    <3>1. x \in Nat
      BY <1>1, <2>1, <2>5
    <3> HIDE DEF x
    <3>2. q \in Nat /\ (a > 0 => a - 1 <= q)
      <4>1. q \in Nat
        <5>1. 0 * g <= x
          BY <2>1, <3>1
        <5> QED
          BY <2>1, <3>1, <5>1, FitsInto
      <4>2. ASSUME a > 0 PROVE a - 1 <= q
        <5>1. start + (a - 1) * g + ct <= d /\ (a - 1) * g \in Int
          BY <2>1, <2>3, <4>2
        <5>2. (a - 1) * g <= x /\ a - 1 \in Nat
          BY <2>1, <4>2, <5>1 DEF x, length
        <5> QED
          BY <2>1, <3>1, <5>2, FitsInto
      <4> QED
        BY <4>1, <4>2
    <3> HIDE DEF q
    <3>3. a <= q + 1
      BY <2>1, <3>2
    <3>4. a * et <= et * (q + 1) /\ a * et \in Int /\ et * (q + 1) \in Int
      <4>1. PICK b \in Nat : b = q + 1 - a
        BY <2>1, <3>2, <3>3
      <4>2. et * (q + 1) = a * et + b * et /\ b * et \in Nat
        BY <2>1, <3>2, <4>1
      <4>3. a * et \in Int
        BY <2>1
      <4> QED
        BY <4>2, <4>3
    <3> QED
      BY <2>2, <2>5, <3>4
  <2> QED
    BY <2>4, <2>5
<1>4. IsFiniteSet(Tasks)
  BY WorkNat
<1>5. SumOf(f, Tasks) <= SumOf(h, Tasks) /\ SumOf(h, Tasks) \in Int
  BY <1>3, <1>4, SumMonotone, SumType
<1>6. Demand(taskset, length) = SumOf(h, Tasks)
  <2>1. \A i \in DOMAIN taskset :
          h[i] = IF length < taskset[i].ct THEN 0
                 ELSE taskset[i].et * ((length - taskset[i].ct) \div Min(taskset[i].gaps) + 1)
    BY <1>2 DEF Gap, Tasks
  <2> HIDE DEF length
  <2> QED
    BY <1>4, <2>1, DemandIsSum DEF Tasks
<1>7. Work(n) = SumOf(f, Tasks)
  BY <1>2 DEF Work
<1> QED
  BY <1>5, <1>6, <1>7

\* What the processor owes until a deadline fits into the time until then.
LEMMA OwedInTime ==
  ASSUME TypeOK, DemandFits, NEW jobs, NEW counters, NEW time \in Nat,
         IsFiniteSet(DOMAIN jobs), \A j \in DOMAIN jobs : jobs[j].rem \in Nat \ {0},
         Busy(jobs, counters, time),
         NEW j \in DOMAIN jobs, jobs[j].dl \in Int, jobs[j].dl >= time,
         NEW t \in Tasks, jobs[j].dl <= Horizon + taskset[t].ct
  PROVE  /\ time + Owed(jobs, jobs[j].dl) <= jobs[j].dl
         /\ time + jobs[j].rem <= jobs[j].dl
<1>1. PICK d : d = jobs[j].dl
  OBVIOUS
<1>2. d \in Nat /\ d >= time
  BY <1>1
<1>3. PICK start \in 0 .. time : BusySince(jobs, counters, time, d, start)
  BY <1>2 DEF Busy
<1>4. PICK n \in [Tasks -> Nat] :
        Fits(counters, n, start, d) /\ Owed(jobs, d) + (time - start) <= Work(n)
  BY <1>3 DEF BusySince
<1>5. Owed(jobs, d) \in Nat /\ jobs[j].rem \in Nat \ {0} /\ jobs[j].rem <= Owed(jobs, d)
  <2>1. PICK f : f = DueBy(jobs, d)
    OBVIOUS
  <2>2. \A i \in DOMAIN jobs : f[i] \in Nat
    BY <2>1, OwedNat
  <2>3. f[j] = jobs[j].rem
    BY <1>1, <1>2, <2>1 DEF DueBy
  <2>4. SumOf(f, DOMAIN jobs) \in Nat /\ SumOf(f, DOMAIN jobs) >= f[j]
    BY <2>2, SumAtLeast
  <2> QED
    BY <2>1, <2>3, <2>4 DEF Owed
<1>6. start \in Nat /\ start <= d /\ start <= time
  BY <1>2
<1>7. Work(n) \in Nat
  BY WorkNat
<1>8. d - start >= 1
  <2>1. CASE d = start
    <3>1. ASSUME NEW u \in Tasks, n[u] > 0 PROVE FALSE
      <4>1. start + (n[u] - 1) * Gap(u) + taskset[u].ct <= d
        BY <1>4, <3>1 DEF Fits
      <4>2. /\ Gap(u) \in Nat /\ taskset[u].ct \in Nat \ {0}
            /\ n[u] - 1 \in Nat
        BY <3>1, TaskNumbers
      <4>3. (n[u] - 1) * Gap(u) \in Nat
        BY <4>2
      <4> QED
        BY <1>2, <2>1, <4>1, <4>2, <4>3
    <3>2. \A u \in Tasks : n[u] = 0
      BY <3>1
    <3>3. Work(n) = 0
      BY <3>2, NoWork
    <3> QED
      BY <1>4, <1>5, <1>6, <3>3
  <2> QED
    BY <1>2, <1>6, <2>1
<1>9. Demand(taskset, d - start) <= d - start
  <2>1. taskset[t].ct \in Nat /\ Horizon \in Nat
    BY TaskNumbers, TypesAssumption
  <2>2. d - start \in 1 .. Horizon + taskset[t].ct
    BY <1>1, <1>2, <1>6, <1>8, <2>1
  <2> QED
    BY <2>2 DEF DemandFits
<1>10. Demand(taskset, d - start) \in Int /\ Work(n) <= Demand(taskset, d - start)
  BY <1>2, <1>4, <1>6, WorkWithinDemand
<1>11. time + Owed(jobs, d) <= d
  BY <1>2, <1>4, <1>5, <1>6, <1>7, <1>9, <1>10
<1> QED
  BY <1>1, <1>2, <1>5, <1>11
-----------------------------------------------------------------------------
(* Releases and steps                                                       *)

\* Without jobs nothing is owed, and the interval starts anew.
LEMMA BusyAfresh ==
  ASSUME TypeOK, NEW jobs, NEW counters, NEW time \in Nat, NEW d \in Nat,
         Owed(jobs, d) = 0
  PROVE  \E start \in 0 .. time : BusySince(jobs, counters, time, d, start)
<1>1. PICK n \in [Tasks -> Nat] : \A t \in Tasks : n[t] = 0
  <2>1. [t \in Tasks |-> 0] \in [Tasks -> Nat]
    OBVIOUS
  <2> QED
    BY <2>1
<1>2. Fits(counters, n, time, d)
  BY <1>1 DEF Fits
<1>3. Work(n) = 0
  BY <1>1, NoWork
<1>4. Owed(jobs, d) + (time - time) <= Work(n)
  BY <1>3
<1>5. BusySince(jobs, counters, time, d, time)
  BY <1>2, <1>4 DEF BusySince
<1>6. time \in 0 .. time
  OBVIOUS
<1> QED
  BY <1>5, <1>6

\* One more job of a task
LEMMA WorkGrows ==
  ASSUME TypeOK, NEW n \in [Tasks -> Nat], NEW t \in Tasks
  PROVE  Work([n EXCEPT ![t] = n[t] + 1]) = Work(n) + taskset[t].et
<1>1. PICK m : m = [n EXCEPT ![t] = n[t] + 1]
  OBVIOUS
<1>2. m \in [Tasks -> Nat] /\ m[t] = n[t] + 1 /\ \A u \in Tasks \ {t} : m[u] = n[u]
  BY <1>1
<1>3. PICK f, h : /\ f = [u \in Tasks |-> n[u] * taskset[u].et]
                  /\ h = [u \in Tasks |-> m[u] * taskset[u].et]
  OBVIOUS
<1>4. IsFiniteSet(Tasks) /\ \A u \in Tasks : f[u] \in Int /\ h[u] \in Int
  BY <1>2, <1>3, WorkNat
<1>5. \A u \in Tasks \ {t} : f[u] = h[u]
  BY <1>2, <1>3
<1>6. SumOf(h, Tasks) = SumOf(f, Tasks) + h[t] - f[t] /\ SumOf(f, Tasks) \in Int
  <2>1. PICK S, x : S = Tasks /\ x = t
    OBVIOUS
  <2>2. /\ IsFiniteSet(S) /\ x \in S
        /\ \A u \in S : f[u] \in Int /\ h[u] \in Int
        /\ \A u \in S \ {x} : f[u] = h[u]
    BY <1>4, <1>5, <2>1
  <2>3. SumOf(h, S) = SumOf(f, S) + h[x] - f[x]
    BY <2>2, SumChange
  <2>4. SumOf(f, S) \in Int
    BY <2>2, SumType
  <2> QED
    BY <2>1, <2>3, <2>4
<1>7. h[t] = f[t] + taskset[t].et
  <2>1. f[t] = n[t] * taskset[t].et /\ h[t] = (n[t] + 1) * taskset[t].et
    BY <1>2, <1>3
  <2>2. n[t] \in Nat /\ taskset[t].et \in Nat
    BY TaskNumbers
  <2> QED
    BY <2>1, <2>2
<1>8. f[t] \in Int /\ taskset[t].et \in Nat
  BY <1>4, TaskNumbers
<1> QED
  BY <1>1, <1>3, <1>6, <1>7, <1>8 DEF Work

\* A job that a task releases at time is one of those it may have released since
\* any earlier time.
Releases(t, gap, j, jobs, counters, jobs2, counters2, time) ==
  /\ counters[t].next = time /\ j \notin DOMAIN jobs
  /\ DOMAIN jobs2 = DOMAIN jobs \cup {j}
  /\ \A i \in DOMAIN jobs : jobs2[i].dl = jobs[i].dl /\ jobs2[i].rem = jobs[i].rem
  /\ jobs2[j].dl = time + taskset[t].ct /\ jobs2[j].rem = taskset[t].et
  /\ counters2[t].next = time + gap
  /\ \A u \in Tasks \ {t} : counters2[u].next = counters[u].next

LEMMA BusyReleased ==
  ASSUME TypeOK, NEW jobs, NEW counters, NEW time \in Nat,
         IsFiniteSet(DOMAIN jobs), \A i \in DOMAIN jobs : jobs[i].rem \in Nat,
         Busy(jobs, counters, time),
         NEW t \in Tasks, NEW gap \in taskset[t].gaps, NEW j, NEW jobs2, NEW counters2,
         Releases(t, gap, j, jobs, counters, jobs2, counters2, time)
  PROVE  Busy(jobs2, counters2, time)
<1>0. /\ counters[t].next = time /\ j \notin DOMAIN jobs
      /\ DOMAIN jobs2 = DOMAIN jobs \cup {j}
      /\ \A i \in DOMAIN jobs : jobs2[i].dl = jobs[i].dl /\ jobs2[i].rem = jobs[i].rem
      /\ jobs2[j].dl = time + taskset[t].ct /\ jobs2[j].rem = taskset[t].et
      /\ counters2[t].next = time + gap
      /\ \A u \in Tasks \ {t} : counters2[u].next = counters[u].next
  BY DEF Releases
<1> SUFFICES ASSUME NEW d \in Nat, d >= time
             PROVE  \E start \in 0 .. time : BusySince(jobs2, counters2, time, d, start)
  BY DEF Busy
<1>1. PICK start \in 0 .. time : BusySince(jobs, counters, time, d, start)
  BY DEF Busy
<1>2. PICK n \in [Tasks -> Nat] :
        Fits(counters, n, start, d) /\ Owed(jobs, d) + (time - start) <= Work(n)
  BY <1>1 DEF BusySince
<1>3. /\ Gap(t) \in Nat \ {0} /\ gap \in Nat /\ Gap(t) <= gap
      /\ taskset[t].ct \in Nat \ {0} /\ taskset[t].et \in Nat \ {0}
  BY TaskNumbers
<1>4. PICK f, h, S : f = DueBy(jobs, d) /\ h = DueBy(jobs2, d) /\ S = DOMAIN jobs
  OBVIOUS
<1>5. /\ IsFiniteSet(S) /\ j \notin S
      /\ \A i \in S : f[i] \in Int /\ f[i] = h[i]
      /\ h[j] = IF time + taskset[t].ct <= d THEN taskset[t].et ELSE 0
  BY <1>0, <1>4 DEF DueBy
<1>6. /\ Owed(jobs, d) \in Nat
      /\ Owed(jobs2, d) = Owed(jobs, d)
                          + (IF time + taskset[t].ct <= d THEN taskset[t].et ELSE 0)
  <2>1. h[j] \in Int
    BY <1>3, <1>5
  <2>2. SumOf(h, S \cup {j}) = SumOf(f, S) + h[j]
    <3>1. \A i \in S : f[i] \in Int /\ f[i] = h[i]
      BY <1>5
    <3>2. IsFiniteSet(S) /\ j \notin S
      BY <1>5
    <3> QED
      BY <2>1, <3>1, <3>2, SumAdd
  <2>3. Owed(jobs, d) \in Nat
    BY OwedNat
  <2>4. Owed(jobs, d) = SumOf(f, S) /\ Owed(jobs2, d) = SumOf(h, S \cup {j})
    BY <1>0, <1>4 DEF Owed
  <2> QED
    BY <1>5, <2>2, <2>3, <2>4
<1>7. start \in Nat /\ start <= time /\ Work(n) \in Nat
  BY WorkNat
<1>8. CASE ~ (time + taskset[t].ct <= d)
  <2>1. Fits(counters2, n, start, d)
    <3> SUFFICES ASSUME NEW u \in Tasks, n[u] > 0
                 PROVE  /\ start + (n[u] - 1) * Gap(u) + taskset[u].ct <= d
                        /\ start + n[u] * Gap(u) <= counters2[u].next
      BY DEF Fits
    <3>1. /\ start + (n[u] - 1) * Gap(u) + taskset[u].ct <= d
          /\ start + n[u] * Gap(u) <= counters[u].next
      BY <1>2 DEF Fits
    <3>2. start + n[u] * Gap(u) \in Int
      <4>1. n[u] \in Nat /\ Gap(u) \in Nat
        BY TaskNumbers
      <4>2. n[u] * Gap(u) \in Nat
        BY <4>1
      <4> QED
        BY <1>7, <4>2
    <3>3. CASE u = t
      BY <1>0, <1>3, <3>1, <3>2, <3>3
    <3> QED
      BY <1>0, <3>1, <3>3
  <2>2. Owed(jobs2, d) = Owed(jobs, d)
    BY <1>6, <1>8
  <2> QED
    BY <1>2, <2>1, <2>2 DEF BusySince
<1>9. CASE time + taskset[t].ct <= d
  <2>1. PICK m : m = [n EXCEPT ![t] = n[t] + 1]
    OBVIOUS
  <2>2. m \in [Tasks -> Nat] /\ m[t] = n[t] + 1 /\ \A u \in Tasks \ {t} : m[u] = n[u]
    BY <2>1
  <2>3. Fits(counters2, m, start, d)
    <3> SUFFICES ASSUME NEW u \in Tasks, m[u] > 0
                 PROVE  /\ start + (m[u] - 1) * Gap(u) + taskset[u].ct <= d
                        /\ start + m[u] * Gap(u) <= counters2[u].next
      BY DEF Fits
    <3>1. CASE u # t
      BY <1>0, <1>2, <2>2, <3>1 DEF Fits
    <3>2. CASE u = t
      <4>1. PICK a, g, p : a = n[t] /\ g = Gap(t) /\ p = a * g
        OBVIOUS
      <4>2. a \in Nat /\ g \in Nat /\ p \in Nat /\ (a + 1) * g = p + g
        BY <1>3, <4>1
      <4>3. start + p <= time
        <5>1. CASE a = 0
          BY <1>7, <4>1, <4>2, <5>1
        <5>2. CASE a > 0
          BY <1>0, <1>2, <4>1, <5>2 DEF Fits
        <5> QED
          BY <4>2, <5>1, <5>2
      <4>4. m[u] = a + 1 /\ m[u] - 1 = a /\ m[u] * Gap(u) = p + g /\ (m[u] - 1) * Gap(u) = p
        BY <2>2, <3>2, <4>1, <4>2
      <4>5. start + p + taskset[t].ct <= d
        BY <1>3, <1>7, <1>9, <4>2, <4>3
      <4>6. start + (p + g) <= time + gap
        BY <1>3, <1>7, <4>1, <4>2, <4>3
      <4> QED
        BY <1>0, <3>2, <4>4, <4>5, <4>6
    <3> QED
      BY <3>1, <3>2
  <2>4. Work(m) = Work(n) + taskset[t].et
    BY <2>1, WorkGrows
  <2>5. Owed(jobs2, d) + (time - start) <= Work(m)
    BY <1>2, <1>3, <1>6, <1>7, <1>9, <2>4
  <2> QED
    BY <2>2, <2>3, <2>5 DEF BusySince
<1> QED
  BY <1>8, <1>9

\* A step for a job of the earliest deadline is one of those since the start, or
\* nothing is owed to earlier deadlines.
Executes(j, jobs, counters, jobs2, counters2) ==
  /\ j \in DOMAIN jobs /\ \A i \in DOMAIN jobs : jobs[j].dl <= jobs[i].dl
  /\ \/ DOMAIN jobs2 = DOMAIN jobs
     \/ DOMAIN jobs2 = DOMAIN jobs \ {j} /\ jobs[j].rem = 1
  /\ \A i \in DOMAIN jobs2 :
       /\ jobs2[i].dl = jobs[i].dl
       /\ jobs2[i].rem = IF i = j THEN jobs[i].rem - 1 ELSE jobs[i].rem
  /\ \A u \in Tasks : counters2[u].next = counters[u].next

LEMMA BusyExecuted ==
  ASSUME TypeOK, NEW jobs, NEW counters, NEW time \in Nat, IsFiniteSet(DOMAIN jobs),
         \A i \in DOMAIN jobs : jobs[i].rem \in Nat \ {0} /\ jobs[i].dl \in Int,
         Busy(jobs, counters, time), NEW j, NEW jobs2, NEW counters2,
         Executes(j, jobs, counters, jobs2, counters2)
  PROVE  Busy(jobs2, counters2, time + 1)
<1>0. /\ j \in DOMAIN jobs /\ \A i \in DOMAIN jobs : jobs[j].dl <= jobs[i].dl
      /\ \/ DOMAIN jobs2 = DOMAIN jobs
         \/ DOMAIN jobs2 = DOMAIN jobs \ {j} /\ jobs[j].rem = 1
      /\ \A i \in DOMAIN jobs2 :
           /\ jobs2[i].dl = jobs[i].dl
           /\ jobs2[i].rem = IF i = j THEN jobs[i].rem - 1 ELSE jobs[i].rem
      /\ \A u \in Tasks : counters2[u].next = counters[u].next
  BY DEF Executes
<1> SUFFICES ASSUME NEW d \in Nat, d >= time + 1
             PROVE  \E start \in 0 .. time + 1 : BusySince(jobs2, counters2, time + 1, d, start)
  BY DEF Busy
<1>1. PICK f, h, S, T :
        f = DueBy(jobs, d) /\ h = DueBy(jobs2, d) /\ S = DOMAIN jobs /\ T = DOMAIN jobs2
  OBVIOUS
<1>2. /\ IsFiniteSet(S) /\ j \in S /\ T \in SUBSET S /\ IsFiniteSet(T)
      /\ \A i \in S : f[i] = IF jobs[i].dl <= d THEN jobs[i].rem ELSE 0
      /\ \A i \in T : h[i] = IF jobs2[i].dl <= d THEN jobs2[i].rem ELSE 0
      /\ Owed(jobs, d) = SumOf(f, S) /\ Owed(jobs2, d) = SumOf(h, T)
  BY <1>0, <1>1, FS_Subset DEF DueBy, Owed
<1>3. CASE jobs[j].dl > d
  <2>1. \A i \in T : h[i] = 0
    <3> SUFFICES ASSUME NEW i \in T PROVE ~ (jobs2[i].dl <= d)
      BY <1>2
    <3>1. i \in DOMAIN jobs /\ i \in DOMAIN jobs2
      BY <1>0, <1>1, <1>2
    <3>2. jobs[i].dl \in Int /\ jobs[j].dl \in Int /\ jobs[j].dl <= jobs[i].dl
      BY <1>0, <3>1
    <3> QED
      BY <1>0, <1>3, <3>1, <3>2
  <2>2. Owed(jobs2, d) = 0
    BY <1>2, <2>1, SumOfZeros
  <2>3. time + 1 \in Nat
    OBVIOUS
  <2> QED
    BY <2>2, <2>3, BusyAfresh
<1>4. CASE ~ (jobs[j].dl > d)
  <2>1. jobs[j].dl <= d /\ f[j] = jobs[j].rem /\ jobs[j].rem \in Nat \ {0}
    <3>1. jobs[j].dl \in Int /\ jobs[j].rem \in Nat \ {0}
      BY <1>0
    <3> QED
      BY <1>2, <1>4, <3>1
  <2>2. \A i \in S : f[i] \in Int
    BY <1>1, <1>2
  <2>3. Owed(jobs2, d) = Owed(jobs, d) - 1 /\ Owed(jobs, d) \in Nat
    <3>1. Owed(jobs, d) \in Nat
      BY OwedNat
    <3>2. CASE T = S
      <4>1. h[j] = f[j] - 1 /\ \A i \in S \ {j} : h[i] = f[i]
        BY <1>0, <1>1, <1>2, <2>1, <3>2
      <4>2. \A i \in S : f[i] \in Int /\ h[i] \in Int
        BY <2>1, <2>2, <4>1
      <4>3. SumOf(h, S) = SumOf(f, S) + h[j] - f[j]
        <5>1. PICK x, W : x = j /\ W = S
          OBVIOUS
        <5>2. /\ IsFiniteSet(W) /\ x \in W
              /\ \A i \in W : f[i] \in Int /\ h[i] \in Int
              /\ \A i \in W \ {x} : f[i] = h[i]
          BY <1>2, <4>1, <4>2, <5>1
        <5>3. SumOf(h, W) = SumOf(f, W) + h[x] - f[x]
          BY <5>2, SumChange
        <5> QED
          BY <5>1, <5>3
      <4> QED
        BY <1>2, <2>1, <3>1, <3>2, <4>1, <4>3
    <3>3. CASE T = S \ {j} /\ jobs[j].rem = 1
      <4>1. \A i \in T : h[i] = f[i]
        BY <1>0, <1>1, <1>2, <3>3
      <4>2. SumOf(h, T) = SumOf(f, T)
        BY <1>2, <4>1, SumSame
      <4>3. SumOf(f, S) = f[j] + SumOf(f, S \ {j})
        <5>1. IsFiniteSet(S) /\ j \in S
          BY <1>2
        <5> QED
          BY <2>2, <5>1, SumRemove
      <4>4. SumOf(f, T) \in Int
        BY <1>2, <2>2, SumType
      <4> QED
        BY <1>2, <2>1, <3>1, <3>3, <4>2, <4>3, <4>4
    <3> QED
      BY <1>0, <1>1, <3>1, <3>2, <3>3
  <2>4. PICK start \in 0 .. time : BusySince(jobs, counters, time, d, start)
    BY DEF Busy
  <2>5. PICK n \in [Tasks -> Nat] :
          Fits(counters, n, start, d) /\ Owed(jobs, d) + (time - start) <= Work(n)
    BY <2>4 DEF BusySince
  <2>6. Fits(counters2, n, start, d)
    BY <1>0, <2>5 DEF Fits
  <2>7. Owed(jobs2, d) + ((time + 1) - start) <= Work(n)
    <3>1. Work(n) \in Nat
      BY WorkNat
    <3> QED
      BY <2>3, <2>5, <3>1
  <2>8. start \in 0 .. time + 1
    OBVIOUS
  <2> QED
    BY <2>6, <2>7, <2>8 DEF BusySince
<1> QED
  BY <1>3, <1>4
-----------------------------------------------------------------------------
(* The invariant                                                            *)

Loaded == config.policy = "EDF" /\ DemandFits

\* The calls: no step of run() begins at its end or beyond the horizon, tasks are
\* activated by run() only, in turn, and nothing follows finalise().
CallInv ==
  /\ end <= Horizon
  /\ pc # "api" => mode # "none" /\ (mode = "run" => now < end)
  /\ pc = "activate" => mode = "run"
  /\ pc # "activate" => index = 1
  /\ pc = "api" /\ mode = "finalise" => finalised

NothingLost ==
  /\ cancelled = << >> /\ pc \notin {"cancelInit", "cancelSchedule"}
  /\ \A t \in Tasks : task[t].cancellations = 0 /\ task[t].misses = 0

\* run() misses no activation.
NextAhead ==
  mode # "finalise" => \A t \in Tasks :
    /\ task[t].next >= now
    /\ pc \in {"schedule", "dispatch"} \/ (pc = "activate" /\ t < index) => task[t].next > now

\* Every job is in time if nothing else is executed before it.
InTime ==
  \A j \in DOMAIN job : now + job[j].rem <= job[j].dl /\ Activation(j) < Horizon

OnTime == NothingLost /\ NextAhead /\ InTime /\ Busy(job, task, now)

OptimalInv == CallInv /\ (Loaded => OnTime)

\* The steps that begin and end calls, phases and rounds
LEMMA CallsKept ==
  ASSUME TypeOK, CallInv,
         \/ \E pending \in BOOLEAN : FinaliseWith(pending)
         \/ \E steps \in RunSteps : Run(steps)
         \/ UNCHANGED <<pc, mode, now, end, index, finalised>>
         \/ pc = "initStep" /\ PerformCancellations("cancelInit", AfterInitStep)
         \/ pc = "schedule" /\ PerformCancellations("cancelSchedule", "dispatch")
         \/ pc = "schedule" /\ pc' = "dispatch" /\ UNCHANGED <<mode, now, end, index, finalised>>
         \/ CancelDone
         \/ pc = "activate" /\ Advance /\ UNCHANGED <<mode, now, end, finalised>>
         \/ pc = "dispatch" /\ \E pending \in BOOLEAN : StepEndWith(pending)
  PROVE  CallInv'
<1>0. now \in Nat /\ end \in Nat /\ Horizon \in Nat
  BY TypesAssumption DEF TypeOK
<1>1. CASE \E pending \in BOOLEAN : FinaliseWith(pending)
  <2>1. /\ pc = "api" /\ mode' = "finalise" /\ end' = end /\ index' = index
        /\ pc' = "initStep" \/ (pc' = pc /\ finalised' = TRUE)
    BY <1>1 DEF FinaliseWith
  <2> QED
    BY <2>1 DEF CallInv
<1>2. CASE \E steps \in RunSteps : Run(steps)
  <2>1. PICK steps \in RunSteps : Run(steps)
    BY <1>2
  <2>2. /\ pc = "api" /\ pc' = "initStep" /\ mode' = "run" /\ end' = now + steps
        /\ now' = now /\ index' = index /\ now + steps <= Horizon /\ steps \in Nat \ {0}
    BY <2>1, TypesAssumption DEF Run
  <2> QED
    BY <1>0, <2>2 DEF CallInv
<1>3. CASE UNCHANGED <<pc, mode, now, end, index, finalised>>
  BY <1>3 DEF CallInv
<1>4. CASE pc = "initStep" /\ PerformCancellations("cancelInit", AfterInitStep)
  BY <1>4 DEF CallInv, PerformCancellations, AfterInitStep, results
<1>5. CASE pc = "schedule" /\ PerformCancellations("cancelSchedule", "dispatch")
  BY <1>5 DEF CallInv, PerformCancellations, results
<1>6. CASE CancelDone
  <2>1. /\ pc \in {"cancelInit", "cancelSchedule"} /\ UNCHANGED <<mode, end, index>>
        /\ \/ pc' = "api" /\ finalised' = (mode = "finalise")
           \/ pc' \in {"dispatch", AfterInitStep} /\ now' = now /\ finalised' = finalised
    BY <1>6 DEF CancelDone, ExitOnCancel, results
  <2> QED
    BY <2>1 DEF CallInv, AfterInitStep
<1>7. CASE pc = "activate" /\ Advance /\ UNCHANGED <<mode, now, end, finalised>>
  BY <1>7 DEF CallInv, Advance
<1>8. CASE pc = "dispatch" /\ \E pending \in BOOLEAN : StepEndWith(pending)
  <2>1. /\ pc = "dispatch" /\ UNCHANGED <<mode, end, index>>
        /\ \/ pc' = "initStep" /\ (mode = "run" => now' < end)
           \/ pc' = "api" /\ finalised' = (mode = "finalise")
    BY <1>8 DEF StepEndWith
  <2> QED
    BY <2>1 DEF CallInv
<1>9. CASE pc = "schedule" /\ pc' = "dispatch" /\ UNCHANGED <<mode, now, end, index, finalised>>
  BY <1>9 DEF CallInv
<1> QED
  BY <1>1, <1>2, <1>3, <1>4, <1>5, <1>6, <1>7, <1>8, <1>9

\* Busy speaks of a state; it is carried over by the values of the variables.
LEMMA BusyNext ==
  ASSUME taskset' = taskset, NEW jobs, NEW counters, NEW time,
         job' = jobs, task' = counters, now' = time
  PROVE  Busy(job, task, now)' <=> Busy(jobs, counters, time)
<1>0. Tasks' = Tasks /\ \A t \in Tasks : Gap(t)' = Gap(t)
  BY DEF Tasks, Gap
<1>1. ASSUME NEW n \in [Tasks -> Nat] PROVE Work(n)' = Work(n)
  <2>1. PICK f, S : f = [t \in Tasks |-> n[t] * taskset[t].et] /\ S = Tasks
    OBVIOUS
  <2>2. [t \in Tasks |-> n[t] * taskset[t].et]' = f /\ Tasks' = S
    BY <1>0, <2>1
  <2>3. Work(n)' = SumOf(f, S)
    BY <2>2 DEF Work, SumOf, SumsTo
  <2> QED
    BY <2>1, <2>3 DEF Work
<1>2. ASSUME NEW d PROVE Owed(job, d)' = Owed(jobs, d)
  BY DEF Owed, DueBy, SumOf, SumsTo
<1>3. ASSUME NEW n, NEW start, NEW d
      PROVE  Fits(task, n, start, d)' <=> Fits(counters, n, start, d)
  BY <1>0 DEF Fits
<1>4. ASSUME NEW d \in Nat, NEW start
      PROVE  BusySince(job, task, now, d, start)' <=> BusySince(jobs, counters, time, d, start)
  BY <1>0, <1>1, <1>2, <1>3 DEF BusySince
<1> QED
  BY <1>4 DEF Busy

\* Steps in which no job is executed, released or given up
LEMMA QuietOnTime ==
  ASSUME TypeOK, CallInv, OnTime,
         UNCHANGED <<taskset, job, task, now>>,
         \/ (\E pending \in BOOLEAN : FinaliseWith(pending)) /\ cancelled' = cancelled
         \/ (\E steps \in RunSteps : Run(steps)) /\ cancelled' = cancelled
         \/ UNCHANGED <<pc, mode, index, cancelled>>
         \/ pc = "initStep" /\ PerformCancellations("cancelInit", AfterInitStep)
         \/ pc = "schedule" /\ PerformCancellations("cancelSchedule", "dispatch")
         \/ pc = "schedule" /\ pc' = "dispatch" /\ UNCHANGED <<mode, index, cancelled>>
         \/ NotYetActive
  PROVE  OnTime'
<1>0. /\ now \in Nat /\ Tasks' = Tasks /\ index \in Tasks /\ Tasks = 1 .. Len(taskset)
      /\ Len(taskset) \in Nat
      /\ \A t \in Tasks : task[t].next \in Int
  BY TaskParameters DEF TypeOK, Tasks, TaskState
<1>1. InTime' /\ Busy(job, task, now)'
  <2>1. InTime'
    BY DEF OnTime, InTime, Activation
  <2>2. Busy(job, task, now)'
    <3>1. PICK jobs, counters, time : jobs = job /\ counters = task /\ time = now
      OBVIOUS
    <3> QED
      BY <3>1, BusyNext DEF OnTime
  <2> QED
    BY <2>1, <2>2
<1>2. /\ cancelled = << >> /\ pc \notin {"cancelInit", "cancelSchedule"}
      /\ \A t \in Tasks : task[t].cancellations = 0 /\ task[t].misses = 0
  BY DEF OnTime, NothingLost
<1>3. /\ cancelled' = << >> /\ pc' \notin {"cancelInit", "cancelSchedule"}
      /\ NextAhead'
  <2>1. CASE (\E pending \in BOOLEAN : FinaliseWith(pending)) /\ cancelled' = cancelled
    BY <1>2, <2>1 DEF FinaliseWith, NextAhead
  <2>2. CASE (\E steps \in RunSteps : Run(steps)) /\ cancelled' = cancelled
    <3>1. pc = "api" /\ ~ finalised /\ pc' = "initStep"
      BY <2>2 DEF Run
    <3>2. mode # "finalise"
      BY <3>1 DEF CallInv
    <3> QED
      BY <1>0, <1>2, <2>2, <3>1, <3>2 DEF OnTime, NextAhead
  <2>3. CASE UNCHANGED <<pc, mode, index, cancelled>>
    BY <1>0, <1>2, <2>3 DEF OnTime, NextAhead
  <2>4. CASE pc = "initStep" /\ PerformCancellations("cancelInit", AfterInitStep)
    <3>1. /\ pc = "initStep" /\ cancelled' = cancelled /\ mode' = mode /\ index' = index
          /\ pc' = AfterInitStep
      BY <1>2, <2>4 DEF PerformCancellations
    <3>2. index = 1 /\ (\A t \in Tasks : ~ (t < 1)) /\ mode \in {"run", "finalise"}
      BY <1>0, <3>1 DEF CallInv, TypeOK
    <3> QED
      BY <1>0, <1>2, <3>1, <3>2 DEF AfterInitStep, OnTime, NextAhead
  <2>5. CASE pc = "schedule" /\ PerformCancellations("cancelSchedule", "dispatch")
    <3>1. /\ pc = "schedule" /\ cancelled' = cancelled /\ mode' = mode /\ index' = index
          /\ pc' = "dispatch"
      BY <1>2, <2>5 DEF PerformCancellations
    <3> QED
      BY <1>0, <1>2, <3>1 DEF OnTime, NextAhead
  <2>6. CASE NotYetActive
    <3>1. /\ pc = "activate" /\ now < task[index].next /\ Advance
          /\ cancelled' = cancelled /\ mode' = mode
      BY <2>6 DEF NotYetActive
    <3>2. \/ pc' = "schedule" /\ index = Len(taskset)
          \/ pc' = "activate" /\ index' = index + 1
      BY <3>1 DEF Advance
    <3>3. ASSUME mode # "finalise", NEW t \in Tasks
          PROVE  /\ task[t].next >= now
                 /\ pc' \in {"schedule", "dispatch"} \/ (pc' = "activate" /\ t < index')
                      => task[t].next > now
      <4>1. t < index => task[t].next > now
        BY <3>1, <3>3 DEF OnTime, NextAhead
      <4>2. task[t].next >= now
        BY <3>3 DEF OnTime, NextAhead
      <4>3. t \in Nat /\ index \in Nat /\ t <= Len(taskset)
        BY <1>0
      <4>4. CASE t = index
        BY <3>1, <4>2, <4>4
      <4> QED
        BY <3>2, <4>1, <4>2, <4>3, <4>4
    <3> QED
      BY <1>0, <1>2, <3>1, <3>2, <3>3 DEF NextAhead
  <2>7. CASE pc = "schedule" /\ pc' = "dispatch" /\ UNCHANGED <<mode, index, cancelled>>
    BY <1>0, <1>2, <2>7 DEF OnTime, NextAhead
  <2> QED
    BY <2>1, <2>2, <2>3, <2>4, <2>5, <2>6, <2>7
<1> QED
  BY <1>0, <1>1, <1>2, <1>3 DEF OnTime, NothingLost

\* A job is released at its time, with all of its relative deadline ahead.
LEMMA SpawnOnTime ==
  ASSUME TypeOK, TypeOK', StepsLeft, StepsLeft', JobsNumbered, IsFiniteSet(DOMAIN job),
         CallInv, Loaded, OnTime, SpawnJob,
         DOMAIN job' = DOMAIN job \cup {NextJobId(index)},
         job'[NextJobId(index)] = NewJob(index),
         \A i \in DOMAIN job : job'[i] = job[i]
  PROVE  OnTime'
<1>1. PICK t, j : t = index /\ j = NextJobId(index)
  OBVIOUS
<1>2. /\ UNCHANGED <<taskset, now, cancelled, mode>> /\ Tasks' = Tasks
      /\ t \in Tasks /\ now \in Nat /\ Horizon \in Nat
      /\ pc = "activate" /\ mode = "run" /\ now < Horizon
      /\ task[t].next <= now
  <2>1. /\ pc = "activate" /\ UNCHANGED <<taskset, now, cancelled, mode>> /\ task[t].next <= now
        /\ t \in Tasks /\ now \in Nat /\ end \in Nat /\ task[t].next \in Int
    BY <1>1 DEF SpawnJob, fixed, TypeOK, TaskState
  <2>2. mode = "run" /\ now < end /\ end <= Horizon
    BY <2>1 DEF CallInv
  <2> QED
    BY <2>1, <2>2, TypesAssumption DEF Tasks
<1>3. task[t].next = now /\ \A u \in Tasks : task[u] \in TaskState /\ task[u].next \in Int
  <2>1. \A u \in Tasks : task[u] \in TaskState /\ task[u].next \in Int
    BY DEF TypeOK, TaskState
  <2>2. task[t].next >= now
    BY <1>2 DEF OnTime, NextAhead
  <2> QED
    BY <1>2, <2>1, <2>2
<1>4. PICK gap \in taskset[t].gaps :
        task' = [task EXCEPT ![t] = CountActivation(task[t], gap)]
  BY <1>1 DEF SpawnJob
<1>5. /\ Gap(t) \in Nat \ {0} /\ gap \in Nat /\ gap >= 1 /\ Gap(t) <= gap
      /\ taskset[t].ct \in Nat \ {0} /\ taskset[t].et \in Nat \ {0}
  BY <1>2, TaskNumbers
<1>6. /\ task'[t].next = now + gap /\ task'[t].cancellations = task[t].cancellations
      /\ task'[t].misses = task[t].misses
      /\ \A u \in Tasks \ {t} : task'[u] = task[u]
  <2>1. task' \in [Tasks -> TaskState] /\ task \in [Tasks -> TaskState]
    BY <1>2 DEF TypeOK
  <2> QED
    BY <1>2, <1>3, <1>4, <2>1 DEF CountActivation, TaskState
<1>7. /\ j \notin DOMAIN job /\ j[1] = t
      /\ DOMAIN job' = DOMAIN job \cup {j}
      /\ job'[j].dl = now + taskset[t].ct /\ job'[j].rem = taskset[t].et
  <2>1. j \notin DOMAIN job
    BY <1>1, SpawnJobCore
  <2> QED
    BY <1>1, <2>1 DEF NextJobId, NewJob
<1>8. Busy(job, task, now)'
  <2>1. PICK jobs, counters, jobs2, counters2, time :
          /\ jobs = job /\ counters = task /\ jobs2 = job' /\ counters2 = task' /\ time = now
    OBVIOUS
  <2>2. \A i \in DOMAIN jobs : jobs[i].rem \in Nat
    BY <2>1 DEF TypeOK, JobRecord
  <2>3. /\ time \in Nat /\ IsFiniteSet(DOMAIN jobs) /\ Busy(jobs, counters, time)
        /\ Releases(t, gap, j, jobs, counters, jobs2, counters2, time)
    BY <1>2, <1>3, <1>6, <1>7, <2>1 DEF OnTime, Releases
  <2>4. Busy(jobs2, counters2, time)
    BY <1>2, <1>4, <2>2, <2>3, BusyReleased
  <2> QED
    BY <1>2, <2>1, <2>4, BusyNext
<1>9. InTime'
  <2> SUFFICES ASSUME NEW i \in DOMAIN job'
               PROVE  now + job'[i].rem <= job'[i].dl /\ job'[i].dl - taskset[i[1]].ct < Horizon
    BY <1>2 DEF InTime, Activation
  <2>1. CASE i \in DOMAIN job
    BY <2>1 DEF OnTime, InTime, Activation
  <2>2. CASE i = j
    <3>1. PICK jobs, counters, time :
            jobs = job' /\ counters = task' /\ time = now
      OBVIOUS
    <3>2. Busy(jobs, counters, time)
      BY <1>2, <1>8, <3>1, BusyNext
    <3>3. /\ IsFiniteSet(DOMAIN jobs) /\ \A h \in DOMAIN jobs : jobs[h].rem \in Nat \ {0}
      <4>1. IsFiniteSet(DOMAIN jobs)
        BY <1>7, <3>1, FS_AddElement
      <4>2. \A h \in DOMAIN jobs : jobs[h].rem \in Nat /\ 1 <= jobs[h].rem
        BY <3>1 DEF TypeOK, JobRecord, StepsLeft
      <4> QED
        BY <4>1, <4>2
    <3>4. /\ i \in DOMAIN jobs /\ jobs[i].dl \in Int /\ jobs[i].dl >= time /\ time \in Nat
          /\ jobs[i].dl <= Horizon + taskset[t].ct /\ jobs[i].dl - taskset[t].ct < Horizon
      BY <1>2, <1>5, <1>7, <2>2, <3>1
    <3>5. time + jobs[i].rem <= jobs[i].dl
      BY <1>2, <3>2, <3>3, <3>4, OwedInTime DEF Loaded
    <3> QED
      BY <1>7, <2>2, <3>1, <3>4, <3>5
  <2> QED
    BY <1>7, <2>1, <2>2
<1>10. pc' \in {"activate", "schedule"} /\ (pc' = "activate" => index' = t + 1)
       /\ t \in Nat /\ \A u \in Tasks : u \in Nat /\ (pc' = "schedule" => u <= t)
  <2>1. Tasks = 1 .. Len(taskset) /\ Len(taskset) \in Nat
    BY TaskParameters DEF Tasks
  <2> QED
    BY <1>1, <1>2, <2>1 DEF SpawnJob, Advance
<1>11. NextAhead'
  <2> SUFFICES ASSUME NEW u \in Tasks
               PROVE  /\ task'[u].next >= now
                      /\ pc' = "schedule" \/ (pc' = "activate" /\ u < index')
                           => task'[u].next > now
    BY <1>2, <1>10 DEF NextAhead
  <2>1. CASE u = t
    BY <1>2, <1>5, <1>6, <2>1
  <2>2. CASE u # t
    <3>1. task[u].next >= now /\ (u < t => task[u].next > now)
      BY <1>1, <1>2 DEF OnTime, NextAhead
    <3> QED
      BY <1>6, <1>10, <2>2, <3>1
  <2> QED
    BY <2>1, <2>2
<1>12. NothingLost'
  BY <1>2, <1>6, <1>10 DEF OnTime, NothingLost
<1> QED
  BY <1>8, <1>9, <1>11, <1>12 DEF OnTime

\* A step of time, of which every job in time keeps enough
LEMMA TimeOnTime ==
  ASSUME TypeOK, TypeOK', StepsLeft', IsFiniteSet(DOMAIN job), CallInv, Loaded, OnTime,
         pc = "dispatch", \E pending \in BOOLEAN : StepEndWith(pending),
         DOMAIN job' \in SUBSET (DOMAIN job), StepsLeft,
         \A i \in DOMAIN job' : job'[i].dl = job[i].dl,
         \A t \in Tasks : /\ task'[t].next = task[t].next
                          /\ task'[t].cancellations = task[t].cancellations
                          /\ task'[t].misses = task[t].misses,
         Busy(job, task, now)'
  PROVE  OnTime'
<1>1. /\ UNCHANGED <<config, taskset, cancelled, mode>> /\ now' = now + 1 /\ now \in Nat
      /\ pc' \in {"api", "initStep"} /\ Tasks' = Tasks
  BY DEF StepEndWith, fixed, TypeOK, Tasks
<1>2. NothingLost'
  BY <1>1 DEF OnTime, NothingLost
<1>3. NextAhead'
  <2> SUFFICES ASSUME mode # "finalise", NEW t \in Tasks PROVE task[t].next >= now + 1
    BY <1>1 DEF NextAhead
  <2>1. task[t].next > now
    BY DEF OnTime, NextAhead
  <2>2. task[t].next \in Int
    BY DEF TypeOK, TaskState
  <2> QED
    BY <1>1, <2>1, <2>2
<1>4. InTime'
  <2> SUFFICES ASSUME NEW i \in DOMAIN job'
               PROVE  /\ now + 1 + job'[i].rem <= job'[i].dl
                      /\ job'[i].dl - taskset[i[1]].ct < Horizon
    BY <1>1 DEF InTime, Activation
  <2>1. PICK jobs, counters, time : jobs = job' /\ counters = task' /\ time = now + 1
    OBVIOUS
  <2>2. Busy(jobs, counters, time)
    BY <1>1, <2>1, BusyNext
  <2>3. /\ IsFiniteSet(DOMAIN jobs) /\ \A h \in DOMAIN jobs : jobs[h].rem \in Nat \ {0}
    <3>1. IsFiniteSet(DOMAIN jobs)
      BY <2>1, FS_Subset
    <3>2. \A h \in DOMAIN jobs : jobs[h].rem \in Nat /\ 1 <= jobs[h].rem
      BY <2>1 DEF TypeOK, JobRecord, StepsLeft
    <3> QED
      BY <3>1, <3>2
  <2>4. PICK t : t = i[1]
    OBVIOUS
  <2>5. /\ i \in DOMAIN job /\ t \in Tasks /\ job[i].dl \in Int /\ job[i].rem \in Nat
        /\ 1 <= job[i].rem /\ taskset[t].ct \in Nat /\ Horizon \in Nat
    <3>1. i \in DOMAIN job /\ i \in JobIds
      BY DEF TypeOK
    <3>2. t \in Tasks
      BY <2>4, <3>1 DEF JobIds
    <3>3. taskset[t].ct \in Nat
      BY <3>2, TaskNumbers
    <3> QED
      BY <3>1, <3>2, <3>3, TypesAssumption DEF TypeOK, JobRecord, StepsLeft
  <2>6. now + job[i].rem <= job[i].dl /\ job[i].dl - taskset[t].ct < Horizon
    BY <2>4, <2>5 DEF OnTime, InTime, Activation
  <2>7. jobs[i].dl = job[i].dl /\ i \in DOMAIN jobs
    BY <2>1
  <2>8. /\ jobs[i].dl \in Int /\ jobs[i].dl >= time /\ time \in Nat
        /\ jobs[i].dl <= Horizon + taskset[t].ct
    BY <1>1, <2>1, <2>5, <2>6, <2>7
  <2>9. time + jobs[i].rem <= jobs[i].dl
    BY <2>2, <2>3, <2>5, <2>7, <2>8, OwedInTime DEF Loaded
  <2> QED
    BY <2>1, <2>4, <2>6, <2>7, <2>9
<1> QED
  BY <1>2, <1>3, <1>4 DEF OnTime

\* A job of the earliest deadline is executed.
LEMMA StepOnTime ==
  ASSUME TypeOK, TypeOK', StepsLeft, StepsLeft', IsFiniteSet(DOMAIN job),
         CallInv, Loaded, OnTime, pc = "dispatch",
         \E pending \in BOOLEAN : StepEndWith(pending),
         NEW j \in DOMAIN job, \A i \in DOMAIN job : job[j].dl <= job[i].dl,
         \/ job' = AfterStep(j) /\ task' = task
         \/ CompleteJob(j) /\ job[j].rem = 1
  PROVE  OnTime'
<1>1. /\ taskset' = taskset /\ now' = now + 1 /\ now \in Nat
  BY DEF StepEndWith, fixed, TypeOK
<1>2. /\ DOMAIN job' = DOMAIN job \/ (DOMAIN job' = DOMAIN job \ {j} /\ job[j].rem = 1)
      /\ \A i \in DOMAIN job' :
           /\ job'[i].dl = job[i].dl
           /\ job'[i].rem = IF i = j THEN job[i].rem - 1 ELSE job[i].rem
  <2>1. CASE job' = AfterStep(j)
    BY <2>1, AfterStepJobs
  <2>2. CASE CompleteJob(j) /\ job[j].rem = 1
    <3>1. job' = Delete(AfterStep(j), j)
      BY <2>2 DEF CompleteJob
    <3> QED
      BY <2>2, <3>1, AfterStepJobs DEF Delete
  <2> QED
    BY <2>1, <2>2
<1>3. \A t \in Tasks : /\ task'[t].next = task[t].next
                       /\ task'[t].cancellations = task[t].cancellations
                       /\ task'[t].misses = task[t].misses
  <2>1. CASE task' = task
    BY <2>1
  <2>2. CASE CompleteJob(j)
    <3>1. PICK t : t = j[1]
      OBVIOUS
    <3>2. /\ task' = [task EXCEPT ![t] = CountCompletion(task[t], j)]
          /\ t \in Tasks /\ task \in [Tasks -> TaskState]
      BY <2>2, <3>1 DEF CompleteJob, TypeOK, JobIds
    <3>3. ~ (job[j].dl < now)
      <4>1. now + job[j].rem <= job[j].dl /\ job[j].rem \in Nat /\ job[j].dl \in Int
        BY DEF OnTime, InTime, TypeOK, JobRecord
      <4> QED
        BY <1>1, <4>1
    <3>4. task[t].misses \in Nat /\ task[t] \in TaskState
      BY <3>2 DEF TaskState
    <3>5. /\ CountCompletion(task[t], j).next = task[t].next
          /\ CountCompletion(task[t], j).cancellations = task[t].cancellations
          /\ CountCompletion(task[t], j).misses = task[t].misses
      BY <3>3, <3>4 DEF CountCompletion, TaskState
    <3> QED
      BY <3>2, <3>5
  <2> QED
    BY <2>1, <2>2
<1>4. Busy(job, task, now)'
  <2>1. PICK jobs, counters, jobs2, counters2, time :
          /\ jobs = job /\ counters = task /\ jobs2 = job' /\ counters2 = task' /\ time = now
    OBVIOUS
  <2>2. \A i \in DOMAIN jobs : jobs[i].rem \in Nat \ {0} /\ jobs[i].dl \in Int
    <3>1. \A i \in DOMAIN jobs : jobs[i].rem \in Nat /\ 1 <= jobs[i].rem /\ jobs[i].dl \in Int
      BY <2>1 DEF TypeOK, JobRecord, StepsLeft
    <3> QED
      BY <3>1
  <2>3. /\ time \in Nat /\ IsFiniteSet(DOMAIN jobs) /\ Busy(jobs, counters, time)
        /\ Executes(j, jobs, counters, jobs2, counters2)
    BY <1>1, <1>2, <1>3, <2>1 DEF OnTime, Executes
  <2>4. Busy(jobs2, counters2, time + 1)
    BY <2>2, <2>3, BusyExecuted
  <2>5. PICK later : later = time + 1
    OBVIOUS
  <2>6. job' = jobs2 /\ task' = counters2 /\ now' = later /\ Busy(jobs2, counters2, later)
    BY <1>1, <2>1, <2>4, <2>5
  <2> QED
    BY <1>1, <2>6, BusyNext
<1>5. DOMAIN job' \in SUBSET (DOMAIN job)
  BY <1>2
<1> QED
  BY <1>2, <1>3, <1>4, <1>5, TimeOnTime

\* The processor idles, without any job.
LEMMA IdleOnTime ==
  ASSUME TypeOK, TypeOK', StepsLeft, StepsLeft', CallInv, Loaded, OnTime, pc = "dispatch",
         \E pending \in BOOLEAN : StepEndWith(pending), DOMAIN job = {},
         job' = job, task' = task
  PROVE  OnTime'
<1>1. /\ taskset' = taskset /\ now' = now + 1 /\ now \in Nat
  BY DEF StepEndWith, fixed, TypeOK
<1>2. PICK jobs, counters, time : jobs = job /\ counters = task /\ time = now + 1
  OBVIOUS
<1>3. time \in Nat /\ now' = time /\ job' = jobs /\ task' = counters /\ DOMAIN jobs = {}
  BY <1>1, <1>2
<1>4. Busy(jobs, counters, time)
  <2> SUFFICES ASSUME NEW d \in Nat
               PROVE  \E start \in 0 .. time : BusySince(jobs, counters, time, d, start)
    BY DEF Busy
  <2>1. Owed(jobs, d) = 0
    BY <1>3, SumEmpty DEF Owed
  <2> QED
    BY <1>3, <2>1, BusyAfresh
<1>5. Busy(job, task, now)'
  BY <1>1, <1>3, <1>4, BusyNext
<1>6. IsFiniteSet(DOMAIN job)
  BY FS_EmptySet
<1> QED
  BY <1>5, <1>6, TimeOnTime
-----------------------------------------------------------------------------
(* Simulation                                                               *)

LEMMA JobsFinite ==
  ASSUME IInv
  PROVE  TypeOK /\ StepsLeft /\ JobsNumbered /\ IsFiniteSet(DOMAIN job)
BY SumsFinite DEF IInv, SchedInv

\* While jobs are in time the deadline monitor names none.
LEMMA NoMiss ==
  ASSUME TypeOK, InTime, config.dlMissCancellations => Range(dlmon) \subseteq DOMAIN job
  PROVE  ~ MissFound(now)
<1> SUFFICES ASSUME MissFound(now) PROVE FALSE
  OBVIOUS
<1>1. /\ config.dlMissCancellations /\ dlmon # << >>
      /\ LatestStart(job)[Head(dlmon)] < now
  BY DEF MissFound, CheckFires
<1>2. dlmon \in Seq(JobIds)
  BY DEF TypeOK
<1>3. Head(dlmon) \in DOMAIN job
  <2>1. 1 \in DOMAIN dlmon /\ Head(dlmon) = dlmon[1]
    BY <1>1, <1>2, LenProperties, EmptySeq
  <2>2. Head(dlmon) \in Range(dlmon)
    BY <2>1 DEF Range
  <2> QED
    BY <1>1, <2>2
<1>4. /\ job[Head(dlmon)].dl \in Int /\ job[Head(dlmon)].rem \in Nat /\ now \in Nat
      /\ now + job[Head(dlmon)].rem <= job[Head(dlmon)].dl
  BY <1>3 DEF TypeOK, JobRecord, InTime
<1>5. LatestStart(job)[Head(dlmon)] = job[Head(dlmon)].dl - job[Head(dlmon)].rem
  BY <1>3 DEF LatestStart
<1> QED
  BY <1>1, <1>4, <1>5

\* Without cancelled jobs dispatch executes a job of the earliest deadline, or there
\* is none.
LEMMA EarliestFirst ==
  ASSUME IInv, cancelled = << >>, mySchedule \in Seq(JobIds),
         \A i, h \in DOMAIN mySchedule : i < h => job[mySchedule[i]].dl <= job[mySchedule[h]].dl
  PROVE  /\ NextJob = NoJob => DOMAIN job = {}
         /\ NextJob # NoJob => /\ NextJob \in DOMAIN job
                               /\ \A i \in DOMAIN job : job[NextJob].dl <= job[i].dl
<1>1. DOMAIN job = Range(mySchedule)
  BY DEF IInv, SchedInv, JobsHeld, Range
<1>2. CASE NextJob = NoJob
  <2>1. mySchedule = << >>
    <3> SUFFICES ASSUME mySchedule # << >> PROVE FALSE
      OBVIOUS
    <3>1. scheduleChanged
      BY DEF IInv, SchedInv, ScheduleIsSeen
    <3>2. Head(mySchedule) = NoJob
      BY <1>2, <3>1 DEF NextJob
    <3>3. Head(mySchedule) \in JobIds
      BY <1>1, TailRange DEF IInv, TypeOK
    <3> QED
      BY <3>2, <3>3, JobIsNotNone DEF IInv
  <2> QED
    BY <1>1, <1>2, <2>1 DEF Range
<1>3. CASE NextJob # NoJob
  <2>1. mySchedule # << >> /\ NextJob = Head(mySchedule) /\ NextJob \in DOMAIN job
    BY <1>3, NextJobIsFirst
  <2>2. 1 \in DOMAIN mySchedule /\ Head(mySchedule) = mySchedule[1]
    BY <2>1, LenProperties, EmptySeq
  <2>3. ASSUME NEW i \in DOMAIN job PROVE job[NextJob].dl <= job[i].dl
    <3>1. PICK h \in DOMAIN mySchedule : mySchedule[h] = i
      BY <1>1 DEF Range
    <3>2. h \in Nat /\ 1 <= h /\ job[i].dl \in Int
      BY <3>1, LenProperties DEF IInv, TypeOK, JobRecord
    <3>3. CASE h = 1
      BY <2>1, <2>2, <3>1, <3>2, <3>3
    <3>4. CASE 1 < h
      BY <2>1, <2>2, <3>1, <3>4
    <3> QED
      BY <3>2, <3>3, <3>4
  <2> QED
    BY <1>3, <2>1, <2>3
<1> QED
  BY <1>2, <1>3

LEMMA DeadlineOrder ==
  ASSUME IInv, ScheduleInPolicyOrder, config.policy = "EDF"
  PROVE  \A i, h \in DOMAIN mySchedule :
           i < h => job[mySchedule[i]].dl <= job[mySchedule[h]].dl
<1> SUFFICES ASSUME NEW i \in DOMAIN mySchedule, NEW h \in DOMAIN mySchedule, i < h
             PROVE  job[mySchedule[i]].dl <= job[mySchedule[h]].dl
  OBVIOUS
<1>1. mySchedule[i] \in DOMAIN job /\ mySchedule[h] \in DOMAIN job
  BY DEF IInv, SchedInv, JobsHeld, Range
<1>2. job[mySchedule[i]].dl \in Int /\ job[mySchedule[h]].dl \in Int
  BY <1>1 DEF IInv, TypeOK, JobRecord
<1>3. Before(job, mySchedule[i], mySchedule[h])
  BY PolicyOrder
<1>4. \/ Key(job)[mySchedule[i]] < Key(job)[mySchedule[h]]
      \/ Key(job)[mySchedule[i]] = Key(job)[mySchedule[h]]
  BY <1>3 DEF Before
<1>5. /\ Key(job)[mySchedule[i]] = job[mySchedule[i]].dl
      /\ Key(job)[mySchedule[h]] = job[mySchedule[h]].dl
  BY <1>1 DEF Key
<1> QED
  BY <1>2, <1>4, <1>5

LEMMA NextKeepsConfig ==
  ASSUME [Next]_vars
  PROVE  config' = config /\ taskset' = taskset
BY DEF Next, Call, Run, Finalise, FinaliseWith, Step, MissKept, MissDropped, InitStepDone,
       CancelJob, CancelDone, Activate, SpawnJob, NotYetActive, ScheduleDone,
       PerformCancellations, Idle, Execute, Complete, StepEnd, StepEndWith, Finished,
       fixed, vars

LEMMA InitOptimal == Init => OptimalInv
<1> SUFFICES ASSUME Init PROVE OptimalInv
  OBVIOUS
<1>1. IInv /\ TypeOK
  BY InitInv DEF IInv
<1>2. /\ pc = "api" /\ mode = "none" /\ end = 0 /\ now = 0 /\ index = 1
      /\ cancelled = << >> /\ DOMAIN job = {}
  BY DEF Init, SchedulerInit
<1>3. CallInv
  BY <1>2, TypesAssumption DEF CallInv
<1>4. ASSUME NEW t \in Tasks
      PROVE  task[t].next >= 0 /\ task[t].cancellations = 0 /\ task[t].misses = 0
  <2>1. taskset[t].first \in Nat
    BY <1>1, TaskParameters DEF TaskRecord
  <2>2. task[t] = Start(taskset[t], 0)
    BY DEF Init
  <2> QED
    BY <2>1, <2>2 DEF Start
<1>5. NothingLost /\ NextAhead /\ InTime
  BY <1>2, <1>4 DEF NothingLost, NextAhead, InTime
<1>6. Busy(job, task, now)
  <2>1. PICK jobs, counters, time : jobs = job /\ counters = task /\ time = now
    OBVIOUS
  <2>2. time \in Nat /\ DOMAIN jobs = {}
    BY <1>2, <2>1
  <2>3. ASSUME NEW d \in Nat
        PROVE  \E start \in 0 .. time : BusySince(jobs, counters, time, d, start)
    <3>1. Owed(jobs, d) = 0
      BY <2>2, SumEmpty DEF Owed
    <3> QED
      BY <1>1, <2>2, <3>1, BusyAfresh
  <2>4. Busy(jobs, counters, time)
    BY <2>3 DEF Busy
  <2> QED
    BY <2>1, <2>4
<1> QED
  BY <1>3, <1>5, <1>6 DEF OptimalInv, OnTime

\* The steps of the simulation, as long as the schedule is in the order of the deadlines
LEMMA StepOptimal ==
  ASSUME IInv, IInv', CallInv, Loaded, OnTime, Step,
         \A i, h \in DOMAIN mySchedule : i < h => job[mySchedule[i]].dl <= job[mySchedule[h]].dl
  PROVE  OnTime'
<1>1. /\ TypeOK /\ TypeOK' /\ StepsLeft /\ StepsLeft' /\ JobsNumbered
      /\ IsFiniteSet(DOMAIN job)
  BY JobsFinite DEF IInv, SchedInv
<1>2. cancelled = << >> /\ pc \notin {"cancelInit", "cancelSchedule"} /\ InTime
  BY DEF OnTime, NothingLost
<1>3. ~ MissFound(now)
  <2>1. config.dlMissCancellations => Range(dlmon) \subseteq DOMAIN job
    BY DEF IInv, SchedInv, MonitorCoversSchedule, JobsHeld
  <2> QED
    BY <1>1, <1>2, <2>1, NoMiss
<1>4. CASE MissKept \/ MissDropped \/ CancelJob \/ CancelDone
  BY <1>2, <1>3, <1>4
  DEF MissKept, MissDropped, KeepMissJob, DropMissJob, CancelJob, CancelDone
<1>5. CASE InitStepDone \/ ScheduleDone \/ NotYetActive
  <2>1. /\ UNCHANGED <<taskset, job, task, now>>
        /\ \/ pc = "initStep" /\ PerformCancellations("cancelInit", AfterInitStep)
           \/ pc = "schedule" /\ PerformCancellations("cancelSchedule", "dispatch")
           \/ NotYetActive
    BY <1>5 DEF InitStepDone, ScheduleDone, NotYetActive, PerformCancellations, fixed, tasks
  <2> QED
    BY <1>1, <2>1, QuietOnTime
<1>6. CASE Activate
  <2>1. /\ SpawnJob
        /\ DOMAIN job' = DOMAIN job \cup {NextJobId(index)}
        /\ job'[NextJobId(index)] = NewJob(index)
        /\ \A i \in DOMAIN job : job'[i] = job[i]
    <3>1. /\ SpawnJob
          /\ job' = [i \in DOMAIN job \cup {NextJobId(index)} |->
                       IF i = NextJobId(index) THEN NewJob(index) ELSE job[i]]
      BY <1>6 DEF Activate, EnqueueJob
    <3>2. NextJobId(index) \notin DOMAIN job
      BY <1>1, <3>1, SpawnJobCore
    <3> QED
      BY <3>1, <3>2
  <2> QED
    BY <1>1, <2>1, SpawnOnTime
<1>7. /\ NextJob = NoJob => DOMAIN job = {}
      /\ NextJob # NoJob => /\ NextJob \in DOMAIN job
                            /\ \A i \in DOMAIN job : job[NextJob].dl <= job[i].dl
  <2>1. mySchedule \in Seq(JobIds)
    BY <1>1 DEF TypeOK
  <2> QED
    BY <1>2, <2>1, EarliestFirst
<1>8. CASE Idle
  <2>1. /\ pc = "dispatch" /\ \E pending \in BOOLEAN : StepEndWith(pending)
        /\ NextJob = NoJob /\ job' = job /\ task' = task
    BY <1>8, StepEndIsOne DEF Idle, IdleStep, DispatchIdle, tasks
  <2> QED
    BY <1>1, <1>7, <2>1, IdleOnTime
<1>9. CASE Execute \/ Complete
  <2>1. PICK j : j = NextJob
    OBVIOUS
  <2>2. /\ pc = "dispatch" /\ \E pending \in BOOLEAN : StepEndWith(pending)
        /\ j # NoJob
        /\ \/ job' = AfterStep(j) /\ task' = task
           \/ CompleteJob(j) /\ job[j].rem = 1
    BY <1>9, <2>1, StepEndIsOne
    DEF Execute, ExecuteStep, DispatchStep, Complete, CompleteStep, DispatchFinish, tasks
  <2>3. j \in DOMAIN job /\ \A i \in DOMAIN job : job[j].dl <= job[i].dl
    BY <1>7, <2>1, <2>2
  <2> QED
    BY <1>1, <2>2, <2>3, StepOnTime
<1> QED
  BY <1>4, <1>5, <1>6, <1>8, <1>9 DEF Step

LEMMA StepCalls ==
  ASSUME TypeOK, CallInv, Step
  PROVE  CallInv'
<1>1. CASE Idle \/ Execute \/ Complete
  <2>1. pc = "dispatch" /\ \E pending \in BOOLEAN : StepEndWith(pending)
    BY <1>1, StepEndIsOne
    DEF Idle, Execute, Complete, IdleStep, ExecuteStep, CompleteStep
  <2> QED
    BY <2>1, CallsKept
<1>2. CASE SpawnJob \/ NotYetActive
  <2>1. pc = "activate" /\ Advance /\ UNCHANGED <<mode, now, end, finalised>>
    BY <1>2 DEF SpawnJob, NotYetActive, results
  <2> QED
    BY <2>1, CallsKept
<1>3. CASE MissKept \/ MissDropped \/ CancelJob
  <2>1. UNCHANGED <<pc, mode, now, end, index, finalised>>
    BY <1>3 DEF MissKept, MissDropped, CancelJob, results
  <2> QED
    BY <2>1, CallsKept
<1>4. CASE InitStepDone \/ CancelDone \/ ScheduleDone
  BY <1>4, CallsKept DEF InitStepDone, ScheduleDone
<1> QED
  BY <1>1, <1>2, <1>3, <1>4 DEF Step, Activate

LEMMA NextOptimal == IInv /\ IInv' /\ OrderInv /\ OptimalInv /\ [Next]_vars => OptimalInv'
<1> SUFFICES ASSUME IInv, IInv', OrderInv, OptimalInv, [Next]_vars PROVE OptimalInv'
  OBVIOUS
<1>1. /\ TypeOK /\ TypeOK' /\ StepsLeft /\ StepsLeft' /\ JobsNumbered
      /\ IsFiniteSet(DOMAIN job) /\ CallInv /\ HasPendingJobs(mySchedule) \in BOOLEAN
  BY JobsFinite DEF IInv, SchedInv, OptimalInv, HasPendingJobs
<1>2. config' = config /\ taskset' = taskset
  BY NextKeepsConfig
<1>3. Loaded' => Loaded
  BY <1>2 DEF Loaded, DemandFits, Tasks
<1>4. CASE UNCHANGED vars
  <2>1. UNCHANGED <<pc, mode, now, end, index, finalised, cancelled, taskset, job, task>>
    BY <1>4 DEF vars, fixed, results, tasks
  <2> QED
    BY <1>1, <1>3, <2>1, CallsKept, QuietOnTime DEF OptimalInv
<1>5. CASE Call
  <2>1. /\ \/ \E pending \in BOOLEAN : FinaliseWith(pending)
           \/ \E steps \in RunSteps : Run(steps)
        /\ UNCHANGED <<taskset, job, task, now, cancelled>>
    BY <1>1, <1>5 DEF Call, Finalise, FinaliseWith, Run, fixed, tasks
  <2> QED
    BY <1>1, <1>3, <2>1, CallsKept, QuietOnTime DEF OptimalInv
<1>6. CASE Step
  <2>1. CallInv'
    BY <1>1, <1>6, StepCalls
  <2>2. ASSUME Loaded, OnTime PROVE OnTime'
    <3>1. \A i, h \in DOMAIN mySchedule :
            i < h => job[mySchedule[i]].dl <= job[mySchedule[h]].dl
      BY <2>2, DeadlineOrder DEF OrderInv, Loaded
    <3> QED
      BY <1>1, <1>6, <2>2, <3>1, StepOptimal
  <2> QED
    BY <1>3, <2>1, <2>2 DEF OptimalInv
<1>7. CASE Finished
  BY <1>4, <1>7 DEF Finished
<1> QED
  BY <1>4, <1>5, <1>6, <1>7 DEF Next

LEMMA OnTimeIsOptimal == OptimalInv => EDFOptimal
  BY DEF OptimalInv, OnTime, NothingLost, EDFOptimal, Loaded

\* A taskset whose demand fits into every interval loses no job and has no late one
\* under EDF, through every schedule of calls: doActivations hands over each job with
\* its whole relative deadline, dispatch always takes the earliest deadline, and
\* initStep gives up nothing that could still be in time.
THEOREM SimulationEDFOptimal == Spec => []EDFOptimal
<1>1. Spec => []OptimalInv
  BY InitOptimal, NextOptimal, SimulationInv, SimulationOrderInv, PTL DEF Spec
<1> QED
  BY <1>1, OnTimeIsOptimal, PTL
-----------------------------------------------------------------------------
(* Schedulers that choose                                                   *)

\* A sum over different elements of D is at most that over all of D.
LEMMA SumInjected ==
  ASSUME NEW S, IsFiniteSet(S), NEW D, IsFiniteSet(D), NEW f, NEW h, NEW w,
         \A p \in S : w[p] \in D /\ f[p] = h[w[p]],
         \A p, q \in S : w[p] = w[q] => p = q,
         \A x \in D : h[x] \in Nat
  PROVE  SumOf(f, S) <= SumOf(h, D)
<1> DEFINE T == {s \in SUBSET S : \E E \in SUBSET D :
                   (\A p \in s : w[p] \in E) /\ ~ (SumOf(f, s) <= SumOf(h, E))}
<1> SUFFICES ASSUME T # {} PROVE FALSE
  <2>1. S \in SUBSET S /\ D \in SUBSET D /\ \A p \in S : w[p] \in D
    OBVIOUS
  <2> QED
    BY <2>1
<1>0. T \in SUBSET (SUBSET S)
  OBVIOUS
<1>1. PICK s \in T : \A r \in T : r \subseteq s => r = s
  <2> HIDE DEF T
  <2> QED
    BY <1>0, MinimalSubset
<1>2. PICK E \in SUBSET D : (\A p \in s : w[p] \in E) /\ ~ (SumOf(f, s) <= SumOf(h, E))
  BY <1>1
<1>3. IsFiniteSet(s) /\ IsFiniteSet(E)
  BY FS_Subset
<1>4. s # {}
  <2>1. SumOf(h, E) \in Nat
    BY SumNat
  <2>2. SumOf(f, {}) = 0
    BY SumEmpty
  <2> QED
    BY <1>2, <2>1, <2>2
<1> DEFINE c == Choice(s)
           r == s \ {c}
           R == E \ {w[c]}
<1>5. c \in s /\ SumOf(f, s) = f[c] + SumOf(f, r)
  BY <1>3, <1>4, ChoiceIn, SumChoice
<1>6. SumOf(h, E) = h[w[c]] + SumOf(h, R)
  <2>1. PICK x : x = w[c]
    OBVIOUS
  <2>2. x \in E /\ \A y \in E : h[y] \in Int
    BY <1>2, <1>5, <2>1
  <2>3. SumOf(h, E) = h[x] + SumOf(h, E \ {x})
    BY <1>3, <2>2, SumRemove
  <2> QED
    BY <2>1, <2>3
<1>7. SumOf(f, r) <= SumOf(h, R)
  <2>1. \A p \in r : w[p] \in R
    BY <1>2, <1>5
  <2>2. r \notin T /\ r \in SUBSET S /\ R \in SUBSET D
    BY <1>1, <1>5
  <2> QED
    BY <2>1, <2>2
<1>8. SumOf(f, r) \in Int /\ SumOf(h, R) \in Int
  <2>1. r \in SUBSET S /\ R \in SUBSET D
    OBVIOUS
  <2>2. (\A p \in S : f[p] \in Int) /\ (\A x \in D : h[x] \in Int)
    OBVIOUS
  <2> HIDE DEF r, R
  <2> QED
    BY <2>1, <2>2, SumType
<1>9. f[c] = h[w[c]] /\ f[c] \in Int
  BY <1>5
<1>10. ~ (SumOf(f, s) <= SumOf(h, E))
  BY <1>2
<1> HIDE DEF r, R, c
<1> QED
  BY <1>5, <1>6, <1>7, <1>8, <1>9, <1>10

\* The time that the jobs at some places of a list need is a sum.
LEMMA TimeOfPlaces ==
  ASSUME NEW w, NEW S, IsFiniteSet(S), NEW f, \A h \in S : f[h] = job[w[h]].rem
  PROVE  MapThenSumSet(LAMBDA h : job[w[h]].rem, S) = SumOf(f, S)
<1>1. PICK g : SumsTo(g, f, S)
  BY SumsExist
<1>2. \A s \in SUBSET S : s # {} => f[Choice(s)] = job[w[CHOOSE x \in s : TRUE]].rem
  <2> SUFFICES ASSUME NEW s \in SUBSET S, s # {}
               PROVE  f[Choice(s)] = job[w[CHOOSE x \in s : TRUE]].rem
    OBVIOUS
  <2>1. Choice(s) \in s
    BY ChoiceIn
  <2> QED
    BY <2>1 DEF Choice
<1>3. g = [s \in SUBSET S |->
             IF s = {} THEN 0
             ELSE job[w[CHOOSE x \in s : TRUE]].rem + g[s \ {CHOOSE x \in s : TRUE}]]
  <2>1. g = [s \in SUBSET S |-> g[s]]
    BY <1>1 DEF SumsTo
  <2>2. ASSUME NEW s \in SUBSET S
        PROVE  g[s] = IF s = {} THEN 0
                      ELSE job[w[CHOOSE x \in s : TRUE]].rem + g[s \ {CHOOSE x \in s : TRUE}]
    <3>1. g[s] = IF s = {} THEN 0 ELSE f[Choice(s)] + g[s \ {Choice(s)}]
      BY <1>1 DEF SumsTo
    <3> QED
      BY <1>2, <3>1 DEF Choice
  <2> QED
    BY <2>1, <2>2
<1>4. PICK it :
        /\ it = [s \in SUBSET S |->
                   IF s = {} THEN 0
                   ELSE (LET h == CHOOSE x \in s : TRUE IN job[w[h]].rem)
                        + it[s \ {CHOOSE x \in s : TRUE}]]
        /\ MapThenSumSet(LAMBDA h : job[w[h]].rem, S) = it[S]
  <2>1. \E it : it = [s \in SUBSET S |->
                        IF s = {} THEN 0
                        ELSE (LET h == CHOOSE x \in s : TRUE IN job[w[h]].rem)
                             + it[s \ {CHOOSE x \in s : TRUE}]]
    BY <1>3
  <2> QED
    BY <2>1 DEF MapThenSumSet, MapThenFoldSet
<1>5. SumsTo(it, f, S)
  <2>1. it = [s \in SUBSET S |->
                IF s = {} THEN 0
                ELSE job[w[CHOOSE x \in s : TRUE]].rem + it[s \ {CHOOSE x \in s : TRUE}]]
    BY <1>4
  <2>2. it = [s \in SUBSET S |-> it[s]]
    BY <2>1
  <2>3. ASSUME NEW s \in SUBSET S
        PROVE  it[s] = IF s = {} THEN 0 ELSE f[Choice(s)] + it[s \ {Choice(s)}]
    <3>1. it[s] = IF s = {} THEN 0
                  ELSE job[w[CHOOSE x \in s : TRUE]].rem + it[s \ {CHOOSE x \in s : TRUE}]
      BY <2>1
    <3> QED
      BY <1>2, <3>1 DEF Choice
  <2> QED
    BY <2>2, <2>3 DEF SumsTo
<1> QED
  BY <1>4, <1>5, SumsAre

Deadlines == [h \in DOMAIN job |-> job[h].dl]

\* A list that loses entries stays sorted.
LEMMA SortedKept ==
  ASSUME NEW S, NEW s \in Seq(S), NEW t \in Seq(S), NEW key, NEW key2,
         Sorted(s, key), KeepsOrder(t, s),
         \A i \in DOMAIN t : key2[t[i]] \in Int /\ key2[t[i]] = key[t[i]]
  PROVE  Sorted(t, key2)
<1> SUFFICES ASSUME NEW i \in DOMAIN t, NEW h \in DOMAIN t, i <= h
             PROVE  key2[t[i]] <= key2[t[h]]
  BY DEF Sorted
<1>0. DOMAIN t = 1 .. Len(t) /\ DOMAIN s = 1 .. Len(s)
  BY LenProperties
<1>1. CASE i = h
  BY <1>1
<1>2. CASE i # h
  <2>1. i < h
    BY <1>0, <1>2
  <2>2. PICK a, b \in DOMAIN s : a < b /\ s[a] = t[i] /\ s[b] = t[h]
    BY <2>1 DEF KeepsOrder
  <2>3. key[s[a]] <= key[s[b]]
    <3>1. a <= b
      BY <1>0, <2>2
    <3> QED
      BY <3>1 DEF Sorted
  <2> QED
    BY <2>2, <2>3
<1> QED
  BY <1>1, <1>2

\* A sorted list of jobs that are in time is feasible: what comes before a job is
\* due no later, and the processor owes no more than fits.
LEMMA FeasibleFits ==
  ASSUME TypeOK, StepsLeft, IsFiniteSet(DOMAIN job), Loaded, OnTime,
         NEW w \in Seq(JobIds), IsInjective(w), Range(w) \subseteq DOMAIN job,
         Sorted(w, Deadlines)
  PROVE  EDFFeasible(w)
<1> SUFFICES ASSUME NEW i \in DOMAIN w,
                    now + MapThenSumSet(LAMBDA h : job[w[h]].rem, 1 .. i) > job[w[i]].dl
             PROVE  FALSE
  BY DEF EDFFeasible, MissPositions
<1>1. DOMAIN w = 1 .. Len(w) /\ Len(w) \in Nat /\ \A h \in DOMAIN w : w[h] \in DOMAIN job
  BY LenProperties DEF Range
<1>2. PICK S, f, j, jobs, counters, time :
        /\ S = 1 .. i /\ f = [h \in S |-> job[w[h]].rem] /\ j = w[i]
        /\ jobs = job /\ counters = task /\ time = now
  OBVIOUS
<1>3. S \subseteq DOMAIN w /\ IsFiniteSet(S) /\ (\A h \in S : h <= i)
  BY <1>1, <1>2, FS_Interval
<1>4. now + SumOf(f, S) > job[j].dl
  <2>1. \A h \in S : f[h] = job[w[h]].rem
    BY <1>2
  <2>2. MapThenSumSet(LAMBDA h : job[w[h]].rem, S) = SumOf(f, S)
    BY <1>3, <2>1, TimeOfPlaces
  <2> QED
    BY <1>2, <2>2
<1>5. /\ j \in DOMAIN jobs /\ time \in Nat /\ IsFiniteSet(DOMAIN jobs)
      /\ \A h \in DOMAIN jobs : jobs[h].rem \in Nat \ {0} /\ jobs[h].dl \in Int
      /\ Busy(jobs, counters, time)
  <2>1. \A h \in DOMAIN job : job[h].rem \in Nat /\ 1 <= job[h].rem /\ job[h].dl \in Int
    BY DEF TypeOK, JobRecord, StepsLeft
  <2> QED
    BY <1>1, <1>2, <2>1 DEF OnTime, TypeOK
<1>6. PICK t, d : t = j[1] /\ d = jobs[j].dl
  OBVIOUS
<1>7. /\ t \in Tasks /\ d \in Int /\ d >= time /\ d <= Horizon + taskset[t].ct
  <2>1. t \in Tasks
    BY <1>2, <1>5, <1>6 DEF TypeOK, JobIds
  <2>2. /\ now + job[j].rem <= job[j].dl /\ job[j].dl - taskset[t].ct < Horizon
    BY <1>2, <1>5, <1>6 DEF OnTime, InTime, Activation
  <2>3. taskset[t].ct \in Nat /\ Horizon \in Nat
    BY <2>1, TaskNumbers, TypesAssumption
  <2>4. job[j].rem \in Nat /\ job[j].dl \in Int /\ now \in Nat
    BY <1>2, <1>5
  <2>5. job[j].dl >= now /\ job[j].dl <= Horizon + taskset[t].ct
    <3>1. PICK x, r, ct, n : x = job[j].dl /\ r = job[j].rem /\ ct = taskset[t].ct /\ n = now
      OBVIOUS
    <3>2. x \in Int /\ r \in Nat /\ ct \in Nat /\ n \in Nat /\ n + r <= x /\ x - ct < Horizon
      BY <2>2, <2>3, <2>4, <3>1
    <3>3. x >= n /\ x <= Horizon + ct
      BY <2>3, <3>2
    <3> QED
      BY <3>1, <3>3
  <2> QED
    BY <1>2, <1>6, <2>1, <2>4, <2>5
<1>8. time + Owed(jobs, d) <= d
  BY <1>5, <1>6, <1>7, OwedInTime DEF Loaded
<1>9. SumOf(f, S) <= Owed(jobs, d)
  <2>1. PICK h : h = DueBy(jobs, d)
    OBVIOUS
  <2>2. \A x \in DOMAIN jobs : h[x] \in Nat
    BY <1>5, <2>1, OwedNat
  <2>3. ASSUME NEW p \in S PROVE w[p] \in DOMAIN jobs /\ f[p] = h[w[p]]
    <3>1. w[p] \in DOMAIN jobs /\ f[p] = jobs[w[p]].rem
      BY <1>1, <1>2, <1>3
    <3>2. Deadlines[w[p]] <= Deadlines[w[i]]
      BY <1>3 DEF Sorted
    <3>3. jobs[w[p]].dl <= d
      BY <1>1, <1>2, <1>3, <1>6, <3>1, <3>2 DEF Deadlines
    <3> QED
      BY <2>1, <3>1, <3>3 DEF DueBy
  <2>4. \A p, q \in S : w[p] = w[q] => p = q
    BY <1>3 DEF IsInjective
  <2>5. PICK D : D = DOMAIN jobs
    OBVIOUS
  <2>6. SumOf(f, S) <= SumOf(h, D)
    BY <1>3, <1>5, <2>2, <2>3, <2>4, <2>5, SumInjected
  <2> QED
    BY <2>1, <2>5, <2>6 DEF Owed
<1>10. SumOf(f, S) \in Int /\ Owed(jobs, d) \in Int
  <2>1. \A h \in S : f[h] \in Int
    BY <1>1, <1>2, <1>3, <1>5
  <2>2. SumOf(f, S) \in Int
    BY <1>3, <2>1, SumType
  <2>3. Owed(jobs, d) \in Nat
    BY <1>5, OwedNat
  <2> QED
    BY <2>2, <2>3
<1> QED
  BY <1>2, <1>4, <1>5, <1>6, <1>7, <1>8, <1>9, <1>10

\* The calls of every scheduler
LEMMA OverCalls ==
  ASSUME TypeOK, CallInv, [OverloadNext]_<<vars, owned>>
  PROVE  CallInv'
<1>1. CASE UNCHANGED vars
  <2>1. UNCHANGED <<pc, mode, now, end, index, finalised>>
    BY <1>1 DEF vars, results
  <2> QED
    BY <2>1, CallsKept
<1>2. CASE OverloadCall
  <2>1. \/ \E pending \in BOOLEAN : FinaliseWith(pending)
        \/ \E steps \in RunSteps : Run(steps)
    BY <1>2 DEF OverloadCall, OEDFCall, GDPACall, GDPASCall, Call, Finalise, HasPendingJobs, Pending
  <2> QED
    BY <2>1, CallsKept
<1>3. CASE OEDFStep
  <2>1. Step \/ UNCHANGED <<pc, mode, now, end, index, finalised>>
    BY <1>3 DEF OEDFStep, Repair, RepairDone, Step, results
  <2> QED
    BY <2>1, StepCalls, CallsKept
<1>4. CASE GDPAStep \/ GDPASStep
  <2>1. CASE \/ MissDropped \/ MissKept \/ CancelJob \/ InitStepDone \/ CancelDone
             \/ NotYetActive \/ ScheduleDone
    BY <2>1, StepCalls DEF Step
  <2>2. CASE SpawnJob
    <3>1. pc = "activate" /\ Advance /\ UNCHANGED <<mode, now, end, finalised>>
      BY <2>2 DEF SpawnJob, results
    <3> QED
      BY <3>1, CallsKept
  <2>3. CASE TryJob \/ DropInfeasible
    <3>1. UNCHANGED <<pc, mode, now, end, index, finalised>>
      BY <2>3 DEF TryJob, DropInfeasible, results
    <3> QED
      BY <3>1, CallsKept
  <2>4. CASE Rebuilt
    <3>1. pc = "schedule" /\ pc' = "dispatch" /\ UNCHANGED <<mode, now, end, index, finalised>>
      BY <2>4 DEF Rebuilt, results
    <3> QED
      BY <3>1, CallsKept
  <2>5. CASE GDPASInitStepDone
    <3>1. pc = "initStep" /\ PerformCancellations("cancelInit", AfterInitStep)
      BY <2>5 DEF GDPASInitStepDone
    <3> QED
      BY <3>1, CallsKept
  <2>6. CASE /\ IdleStep \/ ExecuteStep \/ CompleteStep \/ GDPASIdle \/ GDPASExecute \/ GDPASComplete
             /\ \E pending \in BOOLEAN : StepEndWith(pending)
    <3>1. pc = "dispatch"
      BY <2>6 DEF IdleStep, ExecuteStep, CompleteStep, GDPASIdle, GDPASExecute, GDPASComplete
    <3> QED
      BY <2>6, <3>1, CallsKept
  <2>7. (readyQueue' # << >>) \in BOOLEAN /\ Pending \in BOOLEAN /\ (readyList' # << >>) \in BOOLEAN
    BY DEF Pending
  <2> QED
    BY <1>4, <2>1, <2>2, <2>3, <2>4, <2>5, <2>6, <2>7 DEF GDPAStep, GDPASStep
<1> QED
  BY <1>1, <1>2, <1>3, <1>4 DEF OverloadNext, OverloadStep, CallerStops, Finished

\* The order of the schedule
InOrder == Sorted(mySchedule, Deadlines)

\* A job of the earliest deadline is in front.
LEMMA FirstIsEarliest ==
  ASSUME TypeOK, NEW list \in Seq(JobIds), Range(list) = DOMAIN job, Sorted(list, Deadlines),
         list # << >>
  PROVE  /\ Head(list) \in DOMAIN job
         /\ \A i \in DOMAIN job : job[Head(list)].dl <= job[i].dl
<1>1. DOMAIN list = 1 .. Len(list) /\ 1 \in DOMAIN list /\ Head(list) = list[1]
  BY LenProperties, EmptySeq
<1>2. Head(list) \in DOMAIN job
  BY <1>1 DEF Range
<1> SUFFICES ASSUME NEW i \in DOMAIN job PROVE job[Head(list)].dl <= job[i].dl
  BY <1>2
<1>3. PICK h \in DOMAIN list : list[h] = i
  BY DEF Range
<1>4. Deadlines[list[1]] <= Deadlines[list[h]]
  BY <1>1, <1>3 DEF Sorted
<1> QED
  BY <1>1, <1>2, <1>3, <1>4 DEF Deadlines

\* What is left of a sorted list after a step that releases no job is sorted.
LEMMA OrderKept ==
  ASSUME TypeOK, TypeOK', NEW s \in Seq(JobIds), NEW t \in Seq(JobIds), KeepsOrder(t, s),
         Sorted(s, Deadlines), Range(t) \subseteq DOMAIN job',
         \A i \in DOMAIN job' : i \in DOMAIN job /\ job'[i].dl = job[i].dl
  PROVE  Sorted(t, [h \in DOMAIN job' |-> job'[h].dl])
<1>1. PICK key, key2 : key = Deadlines /\ key2 = [h \in DOMAIN job' |-> job'[h].dl]
  OBVIOUS
<1>2. ASSUME NEW i \in DOMAIN t PROVE key2[t[i]] \in Int /\ key2[t[i]] = key[t[i]]
  <2>1. t[i] \in DOMAIN job'
    BY DEF Range
  <2>2. job'[t[i]].dl \in Int
    BY <2>1 DEF TypeOK, JobRecord
  <2> QED
    BY <1>1, <2>1, <2>2 DEF Deadlines
<1>3. Sorted(s, key)
  BY <1>1
<1>4. Sorted(t, key2)
  BY <1>2, <1>3, SortedKept
<1> QED
  BY <1>1, <1>4

\* The steps of dispatch change no deadline.
LEMMA DeadlinesKept ==
  ASSUME TypeOK, StepsLeft, NEW j \in DOMAIN job,
         job' = AfterStep(j) \/ job' = Delete(AfterStep(j), j)
  PROVE  \A i \in DOMAIN job' : i \in DOMAIN job /\ job'[i].dl = job[i].dl
<1>1. DOMAIN AfterStep(j) = DOMAIN job /\ \A i \in DOMAIN job : AfterStep(j)[i].dl = job[i].dl
  BY AfterStepJobs
<1> HIDE DEF AfterStep
<1> QED
  BY <1>1 DEF Delete

\* A released job j is put where its deadline belongs.
DeadlinesWith(j, record) == [h \in DOMAIN job \cup {j} |-> IF h = j THEN record.dl ELSE job[h].dl]

LEMMA ReleasedInOrder ==
  ASSUME TypeOK, NEW s \in Seq(JobIds), Range(s) \subseteq DOMAIN job, Sorted(s, Deadlines),
         NEW j \in JobIds, NEW record, record.dl \in Int, j \notin DOMAIN job,
         NEW t \in InsertByKey(s, j, DeadlinesWith(j, record))
  PROVE  Sorted(t, DeadlinesWith(j, record))
<1>0. PICK key : key = DeadlinesWith(j, record)
  OBVIOUS
<1>1. DOMAIN key = DOMAIN job \cup {j} /\ key[j] = record.dl
      /\ \A h \in DOMAIN job : key[h] = job[h].dl
  BY <1>0 DEF DeadlinesWith
<1>2. \A h \in DOMAIN key : key[h] \in Int
  <2>1. \A h \in DOMAIN job : job[h].dl \in Int
    BY DEF TypeOK, JobRecord
  <2> QED
    BY <1>1, <2>1
<1>3. Sorted(s, key)
  <2> SUFFICES ASSUME NEW i \in DOMAIN s, NEW h \in DOMAIN s, i <= h
               PROVE  key[s[i]] <= key[s[h]]
    BY DEF Sorted
  <2>1. s[i] \in DOMAIN job /\ s[h] \in DOMAIN job
    BY DEF Range
  <2>2. Deadlines[s[i]] <= Deadlines[s[h]]
    BY DEF Sorted
  <2> QED
    BY <1>1, <2>1, <2>2 DEF Deadlines
<1>4. Range(s) \cup {j} \subseteq DOMAIN key
  BY <1>1
<1>5. t \in AddJob(s, j, key)
  BY <1>0 DEF AddJob
<1>6. Sorted(t, key)
  BY <1>2, <1>3, <1>4, <1>5, AddJobSorted
<1> QED
  BY <1>0, <1>6

\* What is the case while everything is in time
LEMMA OnTimeMeans ==
  ASSUME OnTime
  PROVE  /\ cancelled = << >> /\ Range(cancelled) = {}
         /\ pc \notin {"cancelInit", "cancelSchedule"} /\ InTime
BY DEF OnTime, NothingLost, Range

\* The OEDF family: the schedule is feasible, so schedule() repairs nothing.
LEMMA OEDFOnTime ==
  ASSUME OEDFInv, OEDFInv', CallInv, Loaded, OnTime, InOrder, OEDFStep
  PROVE  OnTime' /\ InOrder'
<1>1. /\ IInv /\ IInv' /\ TypeOK /\ TypeOK' /\ StepsLeft /\ JobsNumbered
      /\ IsFiniteSet(DOMAIN job) /\ mySchedule \in Seq(JobIds) /\ IsInjective(mySchedule)
      /\ Range(mySchedule) = DOMAIN job /\ Range(mySchedule') \subseteq DOMAIN job'
      /\ mySchedule' \in Seq(JobIds') /\ dlmon \in Seq(JobIds)
  <2>1. IInv /\ IInv' /\ TypeOK /\ TypeOK' /\ StepsLeft /\ JobsNumbered /\ IsFiniteSet(DOMAIN job)
    BY JobsFinite DEF OEDFInv, IInv
  <2>2. JobsHeld /\ JobsHeld'
    BY <2>1 DEF IInv, SchedInv
  <2>3. mySchedule \in Seq(JobIds) /\ mySchedule' \in Seq(JobIds') /\ dlmon \in Seq(JobIds)
    BY <2>1 DEF TypeOK
  <2> QED
    BY <2>1, <2>2, <2>3, OnTimeMeans DEF JobsHeld
<1>2. ~ MissToRepair
  <2>1. EDFFeasible(mySchedule)
    BY <1>1, FeasibleFits DEF InOrder
  <2> QED
    BY <2>1 DEF MissToRepair, Misses, EDFFeasible
<1>3. Step
  BY <1>2 DEF OEDFStep, Repair, RepairDone, Step
<1>4. ~ MissFound(now)
  <2>1. config.dlMissCancellations => Range(dlmon) \subseteq DOMAIN job
    BY <1>1 DEF IInv, SchedInv, MonitorCoversSchedule
  <2> QED
    BY <1>1, <2>1, NoMiss, OnTimeMeans
<1>5. OnTime'
  <2>1. \A i, h \in DOMAIN mySchedule : i < h => job[mySchedule[i]].dl <= job[mySchedule[h]].dl
    <3> SUFFICES ASSUME NEW i \in DOMAIN mySchedule, NEW h \in DOMAIN mySchedule, i < h
                 PROVE  job[mySchedule[i]].dl <= job[mySchedule[h]].dl
      OBVIOUS
    <3>1. i <= h
      BY <1>1, LenProperties
    <3>2. Deadlines[mySchedule[i]] <= Deadlines[mySchedule[h]]
      BY <3>1 DEF InOrder, Sorted
    <3>3. mySchedule[i] \in DOMAIN job /\ mySchedule[h] \in DOMAIN job
      BY <1>1 DEF Range
    <3> QED
      BY <3>2, <3>3 DEF Deadlines
  <2> QED
    BY <1>1, <1>3, <2>1, StepOptimal
<1>6. InOrder'
  <2>0. JobIds' = JobIds
    <3>1. taskset' = taskset
      BY <1>3, NextKeepsConfig DEF Next
    <3> QED
      BY <3>1 DEF JobIds, Tasks
  <2>1. CASE Activate
    <3>1. PICK j, record, t : j = NextJobId(index) /\ record = NewJob(index) /\ t = mySchedule'
      OBVIOUS
    <3>2. PICK jobs : jobs = [i \in DOMAIN job \cup {j} |-> IF i = j THEN record ELSE job[i]]
      OBVIOUS
    <3>3. SpawnJob /\ job' = jobs /\ t \in InsertByKey(mySchedule, j, Key(jobs))
      BY <2>1, <3>1, <3>2 DEF Activate, EnqueueJob
    <3>4. j \in JobIds /\ j \notin DOMAIN job
      BY <1>1, <3>1, <3>3, SpawnJobCore
    <3>5. [h \in DOMAIN jobs |-> jobs[h].dl] = DeadlinesWith(j, record)
      BY <3>2 DEF DeadlinesWith
    <3>6. Key(jobs) = DeadlinesWith(j, record)
      BY <3>5 DEF Key, Loaded
    <3>7. record.dl \in Int
      <4>1. job' \in [DOMAIN job' -> JobRecord] /\ job'[j] = record /\ j \in DOMAIN job'
        BY <1>1, <3>2, <3>3 DEF TypeOK
      <4> QED
        BY <4>1 DEF JobRecord
    <3>8. Sorted(t, DeadlinesWith(j, record))
      <4>1. t \in InsertByKey(mySchedule, j, DeadlinesWith(j, record))
        BY <3>3, <3>6
      <4> QED
        BY <1>1, <3>4, <3>7, <4>1, ReleasedInOrder DEF InOrder
    <3> QED
      BY <3>1, <3>3, <3>5, <3>8 DEF InOrder, Deadlines
  <2>2. CASE ~ Activate
    <3>1. /\ KeepsOrder(mySchedule', mySchedule)
          /\ \A i \in DOMAIN job' : i \in DOMAIN job /\ job'[i].dl = job[i].dl
      <4>1. CASE InitStepDone \/ NotYetActive \/ ScheduleDone \/ Idle
        <5>1. mySchedule' = mySchedule /\ job' = job
          BY <4>1 DEF InitStepDone, NotYetActive, ScheduleDone, PerformCancellations, Idle,
                      IdleStep, DispatchIdle, sched
        <5> QED
          BY <5>1, SameKeepsOrder
      <4>2. CASE Execute
        <5>1. mySchedule' = mySchedule /\ job' = AfterStep(NextJob)
          BY <4>2 DEF Execute, ExecuteStep, DispatchStep
        <5>2. NextJob \in DOMAIN job
          BY <1>1, <4>2, NextJobIsFirst DEF Execute, ExecuteStep, DispatchStep
        <5> QED
          BY <1>1, <5>1, <5>2, DeadlinesKept, SameKeepsOrder
      <4>3. CASE Complete
        <5>1. /\ mySchedule' = Tail(mySchedule) /\ job' = Delete(AfterStep(NextJob), NextJob)
              /\ NextJob # NoJob
          BY <4>3 DEF Complete, CompleteStep, DispatchFinish, CompleteJob
        <5>2. mySchedule # << >> /\ NextJob \in DOMAIN job
          BY <1>1, <5>1, NextJobIsFirst
        <5> QED
          BY <1>1, <5>1, <5>2, DeadlinesKept, TailKeepsOrder
      <4>4. ~ (MissKept \/ MissDropped \/ CancelJob \/ CancelDone)
        BY <1>4, OnTimeMeans
        DEF MissKept, MissDropped, KeepMissJob, DropMissJob, CancelJob, CancelDone
      <4> QED
        BY <1>3, <2>2, <4>1, <4>2, <4>3, <4>4 DEF Step
    <3>2. PICK t : t = mySchedule'
      OBVIOUS
    <3>3. t \in Seq(JobIds) /\ KeepsOrder(t, mySchedule) /\ Range(t) \subseteq DOMAIN job'
      BY <1>1, <2>0, <3>1, <3>2
    <3>4. Sorted(t, [h \in DOMAIN job' |-> job'[h].dl])
      BY <1>1, <3>1, <3>3, OrderKept DEF InOrder
    <3> QED
      BY <3>2, <3>4 DEF InOrder, Deadlines
  <2> QED
    BY <2>1, <2>2
<1> QED
  BY <1>5, <1>6

\* GDPA: whatever it has tried fits, and so all of the queue.
GDPAOrder ==
  /\ pc = "schedule" => Sorted(Built, Deadlines) /\ Range(Built) = Tried
  /\ pc = "dispatch" => InOrder /\ Range(mySchedule) = Range(readyQueue)

LEMMA GDPABasics ==
  ASSUME GDPAInv, OnTime
  PROVE  /\ TypeOK /\ StepsLeft /\ JobsNumbered /\ IsFiniteSet(DOMAIN job)
         /\ readyQueue \in Seq(JobIds) /\ Range(readyQueue) = DOMAIN job
         /\ ~ MissFound(now)
<1>1. /\ TypeOK /\ StepsLeft /\ JobsNumbered /\ readyQueue \in Seq(JobIds)
      /\ Range(readyQueue) = DOMAIN job
  BY OnTimeMeans DEF GDPAInv, Queued, Held
<1>2. IsFiniteSet(DOMAIN job)
  BY <1>1, RangeFinite
<1>3. config.dlMissCancellations => Range(dlmon) \subseteq DOMAIN job
  BY <1>1 DEF GDPAInv, Queued, QueueWatched
<1> QED
  BY <1>1, <1>2, <1>3, NoMiss, OnTimeMeans

LEMMA TryJobOrder ==
  ASSUME GDPAInv, Loaded, OnTime, GDPAOrder, TryJob
  PROVE  GDPAOrder'
<1>1. PICK n, q, b, w :
        n = tried + 1 /\ q = readyQueue[n] /\ b = Built /\ w = InsertByDeadline(b, q)
  OBVIOUS
<1>2. /\ pc = "schedule" /\ tried < Len(readyQueue) /\ tried' = n
      /\ mySchedule' = IF EDFFeasible(w) THEN w ELSE b
      /\ pc' = pc /\ job' = job /\ readyQueue' = readyQueue
  BY <1>1 DEF TryJob
<1>3. /\ TypeOK /\ StepsLeft /\ IsFiniteSet(DOMAIN job) /\ readyQueue \in Seq(JobIds)
      /\ tried \in Nat /\ Len(readyQueue) \in Nat /\ DOMAIN readyQueue = 1 .. Len(readyQueue)
      /\ Range(readyQueue) = DOMAIN job /\ IsInjective(readyQueue)
      /\ mySchedule \in Seq(JobIds) /\ IsInjective(mySchedule)
  <2>1. tried \in 0 .. Len(readyQueue) /\ IsInjective(readyQueue) /\ IsInjective(mySchedule)
    BY DEF GDPAInv, Queued, Building, Held
  <2>2. readyQueue \in Seq(JobIds) /\ TypeOK /\ mySchedule \in Seq(JobIds)
    BY GDPABasics DEF TypeOK
  <2>3. Len(readyQueue) \in Nat /\ DOMAIN readyQueue = 1 .. Len(readyQueue)
    BY <2>2, LenProperties
  <2> QED
    BY <2>1, <2>2, <2>3, GDPABasics
<1>4. n \in DOMAIN readyQueue /\ n # 0
  BY <1>1, <1>2, <1>3
<1>5. q \in DOMAIN job /\ q \in JobIds
  <2>1. q \in Range(readyQueue)
    BY <1>1, <1>4 DEF Range
  <2> QED
    BY <1>3, <2>1 DEF TypeOK
<1>6. /\ b \in Seq(JobIds) /\ IsInjective(b) /\ Range(b) = Tried /\ Sorted(b, Deadlines)
  <2>1. << >> \in Seq(JobIds) /\ IsInjective(<< >>)
    BY EmptySeq DEF IsInjective
  <2>2. b = << >> \/ b = mySchedule
    BY <1>1 DEF Built
  <2>3. Range(b) = Tried /\ Sorted(b, Deadlines)
    BY <1>1, <1>2 DEF GDPAOrder
  <2> QED
    BY <1>3, <2>1, <2>2, <2>3
<1>7. Tried' = Tried \cup {q} /\ Tried \subseteq DOMAIN job /\ q \notin Tried
  <2>1. 1 .. n = 1 .. tried \cup {n} /\ n \notin 1 .. tried /\ 1 .. tried \subseteq DOMAIN readyQueue
    BY <1>1, <1>2, <1>3
  <2>2. Tried' = {readyQueue[i] : i \in 1 .. n}
    BY <1>2 DEF Tried
  <2>3. Tried' = Tried \cup {q}
    BY <1>1, <2>1, <2>2 DEF Tried
  <2>4. q \notin Tried
    BY <1>1, <1>3, <1>4, <2>1 DEF Tried, IsInjective
  <2>5. Tried \subseteq Range(readyQueue)
    BY <2>1 DEF Tried, Range
  <2> QED
    BY <1>3, <2>3, <2>4, <2>5
<1>8. /\ w \in Seq(JobIds) /\ Range(w) = Range(b) \cup {q} /\ IsInjective(w)
      /\ Sorted(w, Deadlines)
  <2>1. PICK key : key = Deadlines
    OBVIOUS
  <2>2. DOMAIN key = DOMAIN job /\ \A x \in DOMAIN key : key[x] \in Int
    BY <1>3, <2>1 DEF TypeOK, JobRecord, Deadlines
  <2>3. w = CHOOSE s \in InsertByKey(b, q, key) : TRUE
    BY <1>1, <2>1 DEF InsertByDeadline, Deadlines
  <2>4. InsertByKey(b, q, key) # {}
    BY <1>5, <1>6, <2>2, InsertByKeyExists
  <2>5. w \in InsertByKey(b, q, key)
    BY <2>3, <2>4
  <2>6. w \in Seq(JobIds) /\ Range(w) = Range(b) \cup {q} /\ IsInjective(w)
    BY <1>5, <1>6, <1>7, <2>5, InsertByKeyRange
  <2>7. Range(b) \cup {q} \subseteq DOMAIN key /\ w \in AddJob(b, q, key) /\ Sorted(b, key)
    BY <1>5, <1>6, <1>7, <2>1, <2>2, <2>5 DEF AddJob
  <2>8. Sorted(w, key)
    BY <1>5, <1>6, <2>2, <2>7, AddJobSorted
  <2> QED
    BY <2>1, <2>6, <2>8
<1>9. EDFFeasible(w)
  <2>1. Range(w) \subseteq DOMAIN job
    BY <1>5, <1>6, <1>7, <1>8
  <2> QED
    BY <1>3, <1>8, <2>1, FeasibleFits
<1>10. Built' = w /\ Deadlines' = Deadlines /\ Tried' = Range(w) /\ pc' # "dispatch"
  BY <1>2, <1>4, <1>6, <1>7, <1>8, <1>9 DEF Built, Deadlines
<1>11. Sorted(Built, Deadlines)' /\ Range(Built)' = Tried'
  BY <1>8, <1>10 DEF Sorted, Range
<1> QED
  BY <1>10, <1>11 DEF GDPAOrder

\* Before schedule() nothing has been tried.
LEMMA FreshOrder ==
  ASSUME tried' = 0, pc' # "dispatch"
  PROVE  GDPAOrder'
<1>1. Built' = << >> /\ Tried' = {}
  BY DEF Built, Tried
<1>2. Sorted(Built, Deadlines)' /\ Range(Built)' = Tried'
  BY <1>1 DEF Sorted, Range
<1> QED
  BY <1>2 DEF GDPAOrder

LEMMA GDPAOnTime ==
  ASSUME GDPAInv, GDPAInv', CallInv, Loaded, OnTime, GDPAOrder, GDPAStep
  PROVE  OnTime' /\ GDPAOrder'
<1>1. /\ TypeOK /\ StepsLeft /\ JobsNumbered /\ IsFiniteSet(DOMAIN job)
      /\ TypeOK' /\ StepsLeft' /\ ~ MissFound(now)
      /\ readyQueue \in Seq(JobIds) /\ Range(readyQueue) = DOMAIN job
      /\ (pc # "schedule" => tried = 0) /\ mySchedule \in Seq(JobIds)
  <2>1. TypeOK' /\ StepsLeft' /\ (pc # "schedule" => tried = 0)
    BY DEF GDPAInv, Queued, Building
  <2>2. mySchedule \in Seq(JobIds)
    BY DEF GDPAInv, Queued, TypeOK
  <2> QED
    BY <2>1, <2>2, GDPABasics
<1>2. CASE TryJob
  <2>1. UNCHANGED <<taskset, job, task, now, pc, mode, index, cancelled>>
    BY <1>2 DEF TryJob, fixed, tasks
  <2> QED
    BY <1>1, <1>2, <2>1, QuietOnTime, TryJobOrder
<1>3. CASE Rebuilt
  <2>1. /\ UNCHANGED <<taskset, job, task, now, mode, index, cancelled, readyQueue>>
        /\ pc = "schedule" /\ pc' = "dispatch" /\ mySchedule' = Built /\ tried = Len(readyQueue)
    BY <1>3 DEF Rebuilt, fixed, tasks
  <2>2. OnTime'
    BY <1>1, <2>1, QuietOnTime
  <2>3. Tried = Range(readyQueue)
    <3>1. DOMAIN readyQueue = 1 .. Len(readyQueue)
      BY <1>1, LenProperties
    <3> QED
      BY <2>1, <3>1 DEF Tried, Range
  <2>4. InOrder' /\ Range(mySchedule') = Range(readyQueue')
    BY <2>1, <2>3 DEF GDPAOrder, InOrder, Deadlines
  <2> QED
    BY <2>1, <2>2, <2>4 DEF GDPAOrder
<1>4. CASE SpawnJob /\ GDPAEnqueue(NextJobId(index), NewJob(index)) /\ tried' = tried
  <2>1. /\ SpawnJob
        /\ job' = [i \in DOMAIN job \cup {NextJobId(index)} |->
                     IF i = NextJobId(index) THEN NewJob(index) ELSE job[i]]
    BY <1>4 DEF GDPAEnqueue
  <2>2. NextJobId(index) \notin DOMAIN job
    BY <1>1, <2>1, SpawnJobCore
  <2>3. /\ DOMAIN job' = DOMAIN job \cup {NextJobId(index)}
        /\ job'[NextJobId(index)] = NewJob(index)
        /\ \A i \in DOMAIN job : job'[i] = job[i]
    BY <2>1, <2>2
  <2>4. OnTime'
    BY <1>1, <2>1, <2>3, SpawnOnTime
  <2>5. tried' = 0 /\ pc' # "dispatch"
    BY <1>1, <1>4 DEF SpawnJob, Advance
  <2> QED
    BY <2>4, <2>5, FreshOrder
<1>5. CASE (InitStepDone \/ NotYetActive) /\ tried' = tried
  <2>1. /\ UNCHANGED <<taskset, job, task, now>>
        /\ \/ pc = "initStep" /\ PerformCancellations("cancelInit", AfterInitStep)
           \/ NotYetActive
    BY <1>5 DEF InitStepDone, NotYetActive, PerformCancellations, fixed, tasks
  <2>2. OnTime'
    BY <1>1, <2>1, QuietOnTime
  <2>3. tried' = 0 /\ pc' # "dispatch"
    BY <1>1, <1>5 DEF InitStepDone, PerformCancellations, AfterInitStep, NotYetActive, Advance
  <2> QED
    BY <2>2, <2>3, FreshOrder
<1>6. CASE /\ IdleStep \/ ExecuteStep \/ CompleteStep
           /\ \E pending \in BOOLEAN : StepEndWith(pending)
           /\ tried' = tried
  <2>1. pc = "dispatch"
    BY <1>6 DEF IdleStep, ExecuteStep, CompleteStep
  <2>2. InOrder /\ Range(mySchedule) = DOMAIN job
    BY <1>1, <2>1 DEF GDPAOrder
  <2>3. ASSUME IdleStep PROVE OnTime'
    <3>1. NextJob = NoJob /\ job' = job /\ task' = task
      BY <2>3 DEF IdleStep, DispatchIdle, tasks
    <3>2. mySchedule = << >>
      <4> SUFFICES ASSUME mySchedule # << >> PROVE FALSE
        OBVIOUS
      <4>1. Head(mySchedule) = NoJob
        BY <2>1, <3>1 DEF NextJob, GDPAInv, Building
      <4>2. Head(mySchedule) \in JobIds
        BY <1>1, HeadTailProperties
      <4> QED
        BY <1>1, <4>1, <4>2, JobIsNotNone
    <3>3. DOMAIN job = {}
      <4>1. Range(<< >>) = {}
        BY EmptySeq DEF Range
      <4> QED
        BY <2>2, <3>2, <4>1
    <3> QED
      BY <1>1, <1>6, <2>1, <3>1, <3>3, IdleOnTime
  <2>4. ASSUME ExecuteStep \/ CompleteStep PROVE OnTime'
    <3>1. PICK j : j = NextJob
      OBVIOUS
    <3>2. /\ j # NoJob
          /\ \/ job' = AfterStep(j) /\ task' = task
             \/ CompleteJob(j) /\ job[j].rem = 1
      BY <2>4, <3>1 DEF ExecuteStep, DispatchStep, CompleteStep, DispatchFinish, tasks
    <3>3. mySchedule # << >> /\ j = Head(mySchedule)
      BY <2>1, <3>1, <3>2, NextInQueue
    <3>4. j \in DOMAIN job /\ \A i \in DOMAIN job : job[j].dl <= job[i].dl
      BY <1>1, <2>2, <3>3, FirstIsEarliest DEF InOrder
    <3> QED
      BY <1>1, <1>6, <2>1, <3>2, <3>4, StepOnTime
  <2>5. tried' = 0 /\ pc' # "dispatch"
    BY <1>1, <1>6, <2>1 DEF StepEndWith
  <2> QED
    BY <1>6, <2>3, <2>4, <2>5, FreshOrder
<1>7. ~ (MissKept \/ MissDropped \/ CancelJob \/ CancelDone)
  BY <1>1, OnTimeMeans
  DEF MissKept, MissDropped, KeepMissJob, DropMissJob, CancelJob, CancelDone
<1>8. (readyQueue' # << >>) \in BOOLEAN /\ Pending \in BOOLEAN
  BY DEF Pending
<1> QED
  BY <1>2, <1>3, <1>4, <1>5, <1>6, <1>7, <1>8 DEF GDPAStep

\* GDPA-S: it stays with the job it chose, the first one by deadline.
GDPASOrder ==
  /\ InOrder
  /\ currentJob # NoJob /\ ~ scheduleChanged =>
       mySchedule # << >> /\ currentJob = Head(mySchedule)

LEMMA GDPASBasics ==
  ASSUME GDPASInv, Loaded, OnTime, GDPASOrder
  PROVE  /\ TypeOK /\ StepsLeft /\ JobsNumbered /\ IsFiniteSet(DOMAIN job)
         /\ mySchedule \in Seq(JobIds) /\ IsInjective(mySchedule)
         /\ Range(mySchedule) = DOMAIN job /\ Range(readyList) = DOMAIN job
         /\ readyList \in Seq(JobIds)
         /\ EDFFeasible(mySchedule)
<1>1. /\ TypeOK /\ StepsLeft /\ JobsNumbered
      /\ mySchedule \in Seq(JobIds) /\ IsInjective(mySchedule) /\ readyList \in Seq(JobIds)
      /\ Range(mySchedule) = Range(readyList) /\ Range(readyList) = DOMAIN job
  BY OnTimeMeans DEF GDPASInv, Held, TypeOK
<1>2. IsFiniteSet(DOMAIN job)
  BY <1>1, RangeFinite
<1>3. EDFFeasible(mySchedule)
  BY <1>1, <1>2, FeasibleFits DEF GDPASOrder, InOrder
<1> QED
  BY <1>1, <1>2, <1>3

\* The lists propose the job with the earliest deadline.
LEMMA ChosenIsEarliest ==
  ASSUME GDPASInv, Loaded, OnTime, GDPASOrder
  PROVE  /\ Chosen = NoJob => DOMAIN job = {} /\ currentJob = NoJob
         /\ Chosen # NoJob =>
              /\ mySchedule # << >> /\ Chosen = Head(mySchedule) /\ Chosen \in DOMAIN job
              /\ \A i \in DOMAIN job : job[Chosen].dl <= job[i].dl
<1>1. /\ TypeOK /\ mySchedule \in Seq(JobIds) /\ EDFFeasible(mySchedule)
      /\ Range(mySchedule) = DOMAIN job /\ Range(readyList) = DOMAIN job
  BY GDPASBasics
<1>2. CASE Chosen = NoJob
  <2>1. Range(readyList) = {}
    BY <1>2, ChosenInList
  <2> QED
    BY <1>1, <1>2, <2>1 DEF GDPASInv
<1>3. CASE Chosen # NoJob
  <2>1. mySchedule # << >>
    <3>1. Range(<< >>) = {}
      BY EmptySeq DEF Range
    <3>2. Chosen \in Range(readyList)
      BY <1>3, ChosenInList
    <3> QED
      BY <1>1, <3>1, <3>2
  <2>2. Chosen = Head(mySchedule)
    <3>1. CASE currentJob = NoJob \/ scheduleChanged
      BY <1>1, <1>3, <3>1 DEF Chosen, FromLists
    <3>2. CASE ~ (currentJob = NoJob \/ scheduleChanged)
      BY <3>2 DEF Chosen, GDPASOrder
    <3> QED
      BY <3>1, <3>2
  <2>3. /\ Head(mySchedule) \in DOMAIN job
        /\ \A i \in DOMAIN job : job[Head(mySchedule)].dl <= job[i].dl
    BY <1>1, <2>1, FirstIsEarliest DEF GDPASOrder, InOrder
  <2> QED
    BY <1>3, <2>1, <2>2, <2>3
<1> QED
  BY <1>2, <1>3

LEMMA GDPASOnTime ==
  ASSUME GDPASInv, GDPASInv', CallInv, Loaded, OnTime, GDPASOrder, GDPASStep
  PROVE  OnTime' /\ GDPASOrder'
<1>1. /\ TypeOK /\ StepsLeft /\ JobsNumbered /\ IsFiniteSet(DOMAIN job)
      /\ TypeOK' /\ StepsLeft' /\ mySchedule \in Seq(JobIds) /\ IsInjective(mySchedule)
      /\ Range(mySchedule) = DOMAIN job
      /\ readyList \in Seq(JobIds) /\ Range(readyList) = DOMAIN job
      /\ Range(mySchedule') \subseteq DOMAIN job' /\ mySchedule' \in Seq(JobIds')
  <2>1. TypeOK' /\ StepsLeft' /\ Range(mySchedule') \subseteq DOMAIN job' /\ mySchedule' \in Seq(JobIds')
    BY DEF GDPASInv, Held, TypeOK
  <2> QED
    BY <2>1, GDPASBasics
<1>2. ~ DropInfeasible
  <2> SUFFICES ASSUME NEW i \in DOMAIN readyList, ToDrop(readyList[i])
               PROVE  FALSE
    BY DEF DropInfeasible
  <2>1. PICK j : j = readyList[i]
    OBVIOUS
  <2>2. j \in DOMAIN job
    BY <1>1, <2>1 DEF Range
  <2>3. now + job[j].rem <= job[j].dl
    BY <2>2, OnTimeMeans DEF InTime
  <2>4. job[j].rem \in Int /\ job[j].dl \in Int /\ now \in Int
    <3>1. job[j] \in JobRecord /\ now \in Nat
      BY <1>1, <2>2 DEF TypeOK
    <3> QED
      BY <3>1 DEF JobRecord
  <2>5. job[j].dl - job[j].rem < now
    BY <2>1, <2>2 DEF ToDrop, LatestStart
  <2> QED
    BY <2>3, <2>4, <2>5
<1>3. CASE SpawnJob /\ GDPASEnqueue(NextJobId(index), NewJob(index))
  <2>1. PICK j, record, t : j = NextJobId(index) /\ record = NewJob(index) /\ t = mySchedule'
    OBVIOUS
  <2>2. PICK jobs : jobs = [i \in DOMAIN job \cup {j} |-> IF i = j THEN record ELSE job[i]]
    OBVIOUS
  <2>3. /\ SpawnJob /\ job' = jobs /\ scheduleChanged' = TRUE
        /\ t \in InsertByKey(mySchedule, j, [h \in DOMAIN jobs |-> jobs[h].dl])
    BY <1>3, <2>1, <2>2 DEF GDPASEnqueue
  <2>4. j \in JobIds /\ j \notin DOMAIN job
    BY <1>1, <2>1, <2>3, SpawnJobCore
  <2>5. [h \in DOMAIN jobs |-> jobs[h].dl] = DeadlinesWith(j, record)
    BY <2>2 DEF DeadlinesWith
  <2>6. DOMAIN jobs = DOMAIN job \cup {j} /\ jobs[j] = record
        /\ \A i \in DOMAIN job : jobs[i] = job[i]
    BY <2>2, <2>4
  <2>7. OnTime'
    BY <1>1, <2>1, <2>3, <2>6, SpawnOnTime
  <2>8. record.dl \in Int
    <3>1. job' \in [DOMAIN job' -> JobRecord] /\ job'[j] = record /\ j \in DOMAIN job'
      BY <1>1, <2>3, <2>6 DEF TypeOK
    <3> QED
      BY <3>1 DEF JobRecord
  <2>9. Sorted(t, DeadlinesWith(j, record))
    <3>1. t \in InsertByKey(mySchedule, j, DeadlinesWith(j, record))
      BY <2>3, <2>5
    <3>2. Sorted(mySchedule, Deadlines)
      BY DEF GDPASOrder, InOrder
    <3> QED
      BY <1>1, <2>4, <2>8, <3>1, <3>2, ReleasedInOrder
  <2>10. InOrder'
    BY <2>1, <2>3, <2>5, <2>9 DEF InOrder, Deadlines
  <2> QED
    BY <2>3, <2>7, <2>10 DEF GDPASOrder
<1>4. CASE GDPASInitStepDone \/ NotYetActive \/ ScheduleDone
  <2>1. UNCHANGED <<taskset, job, task, now, mySchedule>>
    BY <1>4 DEF GDPASInitStepDone, NotYetActive, ScheduleDone, PerformCancellations,
                fixed, tasks, sched
  <2>2. /\ \/ pc = "initStep" /\ PerformCancellations("cancelInit", AfterInitStep)
           \/ pc = "schedule" /\ PerformCancellations("cancelSchedule", "dispatch")
           \/ NotYetActive
        /\ UNCHANGED <<currentJob, scheduleChanged>>
    BY <1>4 DEF GDPASInitStepDone, NotYetActive, ScheduleDone, PerformCancellations, sched
  <2>3. OnTime'
    BY <1>1, <2>1, <2>2, QuietOnTime
  <2>4. GDPASOrder'
    BY <2>1, <2>2 DEF GDPASOrder, InOrder, Deadlines
  <2> QED
    BY <2>3, <2>4
<1>5. CASE /\ GDPASIdle \/ GDPASExecute \/ GDPASComplete
           /\ \E pending \in BOOLEAN : StepEndWith(pending)
  <2>1. pc = "dispatch"
    BY <1>5 DEF GDPASIdle, GDPASExecute, GDPASComplete
  <2>2. CASE GDPASIdle
    <3>1. Chosen = NoJob /\ job' = job /\ task' = task
          /\ mySchedule' = mySchedule /\ currentJob' = currentJob
      BY <2>2 DEF GDPASIdle, tasks
    <3>2. DOMAIN job = {} /\ currentJob = NoJob
      BY <3>1, ChosenIsEarliest
    <3>3. OnTime'
      BY <1>1, <1>5, <2>1, <3>1, <3>2, IdleOnTime
    <3>4. GDPASOrder'
      BY <3>1, <3>2 DEF GDPASOrder, InOrder, Deadlines
    <3> QED
      BY <3>3, <3>4
  <2>3. CASE GDPASExecute \/ GDPASComplete
    <3>1. PICK j : j = Chosen
      OBVIOUS
    <3>2. /\ j # NoJob
          /\ \/ job' = AfterStep(j) /\ task' = task
             \/ CompleteJob(j) /\ job[j].rem = 1
          /\ \/ mySchedule' = mySchedule /\ currentJob' = j
             \/ mySchedule' = RemoveFirst(mySchedule, j) /\ currentJob' = NoJob
      BY <2>3, <3>1 DEF GDPASExecute, GDPASComplete, tasks
    <3>3. /\ mySchedule # << >> /\ j = Head(mySchedule) /\ j \in DOMAIN job
          /\ \A i \in DOMAIN job : job[j].dl <= job[i].dl
      BY <3>1, <3>2, ChosenIsEarliest
    <3>4. OnTime'
      BY <1>1, <1>5, <2>1, <3>2, <3>3, StepOnTime
    <3>5. KeepsOrder(mySchedule', mySchedule)
      BY <1>1, <3>2, SameKeepsOrder, RemoveFirstKeepsOrder
    <3>6. \A i \in DOMAIN job' : i \in DOMAIN job /\ job'[i].dl = job[i].dl
      <4>1. job' = AfterStep(j) \/ job' = Delete(AfterStep(j), j)
        BY <3>2 DEF CompleteJob
      <4> QED
        BY <1>1, <3>3, <4>1, DeadlinesKept
    <3>7. InOrder'
      <4>0. JobIds' = JobIds
        <5>1. taskset' = taskset
          BY <1>1, <1>5, StepEndType
        <5> QED
          BY <5>1 DEF JobIds, Tasks
      <4>1. PICK t : t = mySchedule'
        OBVIOUS
      <4>2. t \in Seq(JobIds) /\ KeepsOrder(t, mySchedule) /\ Range(t) \subseteq DOMAIN job'
        BY <1>1, <3>5, <4>0, <4>1
      <4>3. Sorted(mySchedule, Deadlines)
        BY DEF GDPASOrder, InOrder
      <4>4. Sorted(t, [h \in DOMAIN job' |-> job'[h].dl])
        BY <1>1, <3>6, <4>2, <4>3, OrderKept
      <4> QED
        BY <4>1, <4>4 DEF InOrder, Deadlines
    <3>8. currentJob' # NoJob => mySchedule' # << >> /\ currentJob' = Head(mySchedule')
      BY <3>2, <3>3
    <3> QED
      BY <3>4, <3>7, <3>8 DEF GDPASOrder
  <2> QED
    BY <1>5, <2>2, <2>3
<1>6. ~ (CancelJob \/ CancelDone)
  BY OnTimeMeans DEF CancelJob, CancelDone
<1>7. (readyList' # << >>) \in BOOLEAN
  OBVIOUS
<1> QED
  BY <1>2, <1>3, <1>4, <1>5, <1>6, <1>7 DEF GDPASStep

\* Every scheduler of the simulation
OnSchedule ==
  /\ variant \in OEDFVariants => InOrder
  /\ variant = "GDPA" => GDPAOrder
  /\ variant = "GDPA-S" => GDPASOrder

OverOptimal == CallInv /\ (Loaded => OnTime /\ OnSchedule)

LEMMA OverKeepsConfig ==
  ASSUME [OverloadNext]_<<vars, owned>>
  PROVE  config' = config /\ taskset' = taskset
<1>1. CASE OverloadCall \/ UNCHANGED <<vars, owned>> \/ Finished \/ CallerStops
  BY <1>1 DEF OverloadCall, OEDFCall, GDPACall, GDPASCall, Call, Finalise, FinaliseWith, Run,
              Finished, CallerStops, vars, fixed
<1>2. CASE OEDFStep
  <2>1. CASE Repair
    BY <2>1 DEF Repair, fixed
  <2>2. CASE ~ Repair
    <3>1. Step
      BY <1>2, <2>2 DEF OEDFStep, RepairDone, Step
    <3> QED
      BY <3>1, NextKeepsConfig DEF Next
  <2> QED
    BY <2>1, <2>2
<1>3. CASE GDPAStep \/ GDPASStep
  BY <1>3
  DEF GDPAStep, GDPASStep, TryJob, Rebuilt, MissDropped, SpawnJob, StepEndWith, MissKept,
      InitStepDone, CancelJob, CancelDone, NotYetActive, ScheduleDone, DropInfeasible,
      GDPASInitStepDone, DropMissJob, KeepMissJob, PerformCancellations, fixed
<1> QED
  BY <1>1, <1>2, <1>3 DEF OverloadNext, OverloadStep

\* The calls, and the end of the program
LEMMA CallOnTime ==
  ASSUME TypeOK, CallInv, Loaded, OnTime, OnSchedule,
         variant = "GDPA" /\ pc # "schedule" => tried = 0,
         \/ \E pending \in BOOLEAN : FinaliseWith(pending)
         \/ \E steps \in RunSteps : Run(steps)
         \/ UNCHANGED vars,
         UNCHANGED owned
  PROVE  OnTime' /\ OnSchedule'
<1>1. /\ UNCHANGED <<taskset, job, task, now, mySchedule, currentJob, scheduleChanged, cancelled>>
      /\ UNCHANGED <<variant, readyQueue, tried>>
  BY DEF FinaliseWith, Run, vars, owned, oedf, gdpa, fixed, sched, tasks
<1>2. OnTime'
  <2>1. UNCHANGED vars => UNCHANGED <<pc, mode, index, cancelled>>
    BY DEF vars
  <2> QED
    BY <1>1, <2>1, QuietOnTime
<1>3. \/ pc' = pc
      \/ pc = "api" /\ pc' # "dispatch"
  BY DEF FinaliseWith, Run, vars
<1>4. variant = "GDPA" /\ GDPAOrder => GDPAOrder'
  <2> SUFFICES ASSUME variant = "GDPA", GDPAOrder PROVE GDPAOrder'
    OBVIOUS
  <2>1. CASE pc' = pc
    BY <1>1, <2>1 DEF GDPAOrder, InOrder, Deadlines, Built, Tried
  <2>2. CASE pc = "api" /\ pc' # "dispatch"
    BY <1>1, <2>2, FreshOrder
  <2> QED
    BY <1>3, <2>1, <2>2
<1>5. (InOrder => InOrder') /\ (GDPASOrder => GDPASOrder')
  BY <1>1 DEF GDPASOrder, InOrder, Deadlines
<1> QED
  BY <1>1, <1>2, <1>4, <1>5 DEF OnSchedule

LEMMA OverInitOptimal == OverloadInit => OverOptimal
<1> SUFFICES ASSUME OverloadInit PROVE OverOptimal
  OBVIOUS
<1>1. OptimalInv
  BY InitOptimal DEF OverloadInit
<1>2. pc = "api" /\ tried = 0 /\ mySchedule = << >> /\ currentJob = NoJob
  BY DEF OverloadInit, GDPAInit, Init, SchedulerInit
<1>3. InOrder /\ GDPASOrder
  BY <1>2 DEF InOrder, GDPASOrder, Sorted
<1>4. GDPAOrder
  BY <1>2 DEF GDPAOrder
<1> QED
  BY <1>1, <1>3, <1>4 DEF OptimalInv, OverOptimal, OnSchedule

LEMMA OverNextOptimal ==
  OverInv /\ OverInv' /\ OverOptimal /\ [OverloadNext]_<<vars, owned>> => OverOptimal'
<1> SUFFICES ASSUME OverInv, OverInv', OverOptimal, [OverloadNext]_<<vars, owned>>
             PROVE  OverOptimal'
  OBVIOUS
<1>0. /\ "GDPA" \notin OEDFVariants /\ "GDPA-S" \notin OEDFVariants
      /\ variant \in OEDFVariants \cup {"GDPA", "GDPA-S"}
  BY DEF OEDFVariants, MaxVariants, MinVariants, OverInv
<1>1. TypeOK /\ CallInv
  BY <1>0 DEF OverInv, OEDFInv, IInv, SchedInv, GDPAInv, Queued, GDPASInv, OverOptimal
<1>2. CallInv'
  BY <1>1, OverCalls
<1>3. Loaded' => Loaded
  <2>1. config' = config /\ taskset' = taskset
    BY OverKeepsConfig
  <2> QED
    BY <2>1 DEF Loaded, DemandFits, Tasks
<1>4. SUFFICES ASSUME Loaded, OnTime, OnSchedule
               PROVE  OnTime' /\ OnSchedule'
  BY <1>2, <1>3 DEF OverOptimal
<1>5. CASE OverloadCall \/ UNCHANGED <<vars, owned>> \/ (Finished /\ UNCHANGED owned) \/ CallerStops
  <2>1. /\ \/ \E pending \in BOOLEAN : FinaliseWith(pending)
           \/ \E steps \in RunSteps : Run(steps)
           \/ UNCHANGED vars
        /\ UNCHANGED owned
    BY <1>5 DEF OverloadCall, OEDFCall, GDPACall, GDPASCall, Call, Finalise, HasPendingJobs,
                Pending, Finished, CallerStops, owned
  <2>2. variant = "GDPA" /\ pc # "schedule" => tried = 0
    BY DEF OverInv, GDPAInv, Building
  <2> QED
    BY <1>1, <1>4, <2>1, <2>2, CallOnTime
<1>6. CASE variant \in OEDFVariants /\ OEDFStep
  <2>1. variant' = variant
    BY <1>6 DEF OEDFStep, Repair, RepairDone, oedf
  <2>2. OEDFInv /\ OEDFInv' /\ InOrder
    BY <1>4, <1>6, <2>1 DEF OverInv, OnSchedule
  <2>3. OnTime' /\ InOrder'
    BY <1>1, <1>4, <1>6, <2>2, OEDFOnTime
  <2> QED
    BY <1>0, <1>6, <2>1, <2>3 DEF OnSchedule
<1>7. CASE variant = "GDPA" /\ GDPAStep /\ UNCHANGED oedf
  <2>1. variant' = variant
    BY <1>7 DEF oedf
  <2>2. GDPAInv /\ GDPAInv' /\ GDPAOrder
    BY <1>4, <1>7, <2>1 DEF OverInv, OnSchedule
  <2>3. OnTime' /\ GDPAOrder'
    BY <1>1, <1>4, <1>7, <2>2, GDPAOnTime
  <2> QED
    BY <1>0, <1>7, <2>1, <2>3 DEF OnSchedule
<1>8. CASE variant = "GDPA-S" /\ GDPASStep /\ UNCHANGED oedf
  <2>1. variant' = variant
    BY <1>8 DEF oedf
  <2>2. GDPASInv /\ GDPASInv' /\ GDPASOrder
    BY <1>4, <1>8, <2>1 DEF OverInv, OnSchedule
  <2>3. OnTime' /\ GDPASOrder'
    BY <1>1, <1>4, <1>8, <2>2, GDPASOnTime
  <2> QED
    BY <1>0, <1>8, <2>1, <2>3 DEF OnSchedule
<1>9. CASE OverloadStep
  <2>1. \/ variant \in OEDFVariants /\ OEDFStep
        \/ variant = "GDPA" /\ GDPAStep /\ UNCHANGED <<oedf, lists>>
        \/ variant = "GDPA-S" /\ GDPASStep /\ UNCHANGED <<oedf, gdpa>>
    BY <1>9 DEF OverloadStep
  <2> QED
    BY <1>6, <1>7, <1>8, <2>1
<1> QED
  BY <1>5, <1>9 DEF OverloadNext

\* The same for every scheduler of the OEDF family, GDPA and GDPA-S: while the demand
\* fits they are EDF.  OEDFScheduler::schedule finds nothing to repair, GDPA accepts
\* every job it tries, and GDPA-S drops none and stays on its deadline list.
THEOREM OverloadEDFOptimal == OverloadSpec => []EDFOptimal
<1>1. OverloadSpec => []OverOptimal
  BY OverInitOptimal, OverNextOptimal, OverloadInv, PTL DEF OverloadSpec
<1>2. OverOptimal => EDFOptimal
  BY DEF OverOptimal, OnTime, NothingLost, EDFOptimal, Loaded
<1> QED
  BY <1>1, <1>2, PTL
-----------------------------------------------------------------------------
(* What MKUEDF gives up                                                     *)

\* The entries of an aggregator's window, the oldest one first
Recent(a, k) ==
  [i \in 1 .. k |-> a.values[IF i > a.current THEN a.current + k - i ELSE a.current - i]]

WindowCounted(a, k) == a.sum = Successes(a.values, 0 .. k - 1)

LEMMA AggregatorParts ==
  ASSUME NEW k \in Nat \ {0}, NEW a, AggregatorOK(a, k)
  PROVE  /\ a.class = "UAWMK" /\ a.current \in 0 .. k - 1 /\ a.size = k
         /\ a.values \in [0 .. k - 1 -> Bit] /\ a.sum \in Int /\ a.m \in Nat
BY DEF AggregatorOK, Aggregators, Window

\* What addUtility does to a window: the oldest entry is overwritten.
LEMMA AddUtilityParts ==
  ASSUME NEW k \in Nat \ {0}, NEW a, AggregatorOK(a, k), NEW u \in Bit, NEW at,
         at = IF a.current = 0 THEN k - 1 ELSE a.current - 1
  PROVE  /\ at \in 0 .. k - 1 /\ Oldest(a) = a.values[at]
         /\ AddUtility(a, u).values = [a.values EXCEPT ![at] = u]
         /\ AddUtility(a, u).current = at
         /\ AddUtility(a, u).sum = a.sum - a.values[at] + u
         /\ AddUtility(a, u).m = a.m
<1>1. /\ a.class = "UAWMK" /\ a.current \in 0 .. k - 1 /\ a.size = k
      /\ a \in Aggregators(k)
  BY AggregatorParts DEF AggregatorOK
<1>2. at \in 0 .. k - 1
  BY <1>1
<1>3. (a.current + (k - 1)) % k = at
  BY <1>1, OldestEntry
<1>4. Oldest(a) = a.values[at]
  BY <1>1, <1>3 DEF Oldest, Entry
<1> DEFINE b == [a EXCEPT !.total = a.total + u, !.count = a.count + 1]
           g == [a.values EXCEPT ![at] = u]
<1>5. /\ b \in Aggregators(k) /\ b.class = "UAWMK" /\ b.size = k
      /\ b.current = a.current /\ b.values = a.values /\ b.sum = a.sum /\ b.m = a.m
  <2>1. a.total + u \in Nat /\ a.count + 1 \in Nat
    BY <1>1 DEF Aggregators, Bit
  <2> QED
    BY <1>1, <2>1 DEF Aggregators
<1> HIDE DEF b
<1>6. g \in [Window(k) -> Bit]
  BY <1>2, AggregatorParts DEF Window
<1>7. Oldest(b) = a.values[at]
  BY <1>1, <1>3, <1>5 DEF Oldest, Entry
<1>8. AddToWindow(b, u) = [b EXCEPT !.values = g, !.current = at]
  BY <1>5 DEF AddToWindow
<1> HIDE DEF g
<1> DEFINE c == [b EXCEPT !.values = g, !.current = at]
           d == [c EXCEPT !.sum = c.sum - a.values[at] + u]
<1>9. c \in Aggregators(k) /\ c.sum = a.sum /\ c.values = g /\ c.current = at /\ c.m = a.m
  <2>1. at \in Int
    BY <1>2
  <2> QED
    BY <1>5, <1>6, <2>1 DEF Aggregators
<1> HIDE DEF c
<1>10. d.sum = a.sum - a.values[at] + u /\ d.values = g /\ d.current = at /\ d.m = a.m
  BY <1>9 DEF Aggregators
<1>11. AddUtility(a, u) = d
  <2>1. AddUtility(a, u) = AddHook(b, u)
    BY <1>1 DEF AddUtility, b
  <2> QED
    BY <1>7, <1>8, <2>1 DEF AddHook, c
<1> QED
  BY <1>2, <1>4, <1>10, <1>11 DEF g

\* addUtility shifts the window by one place, ...
LEMMA RecentShifts ==
  ASSUME NEW k \in Nat \ {0}, NEW a, AggregatorOK(a, k), NEW u \in Bit
  PROVE  Recent(AddUtility(a, u), k) = Shifted(Recent(a, k), k, u)
<1>1. PICK new, c, at, f : /\ new = AddUtility(a, u) /\ c = a.current /\ f = a.values
                           /\ at = IF c = 0 THEN k - 1 ELSE c - 1
  OBVIOUS
<1>2. /\ c \in 0 .. k - 1 /\ f \in [0 .. k - 1 -> Bit] /\ at \in 0 .. k - 1
      /\ new.values = [f EXCEPT ![at] = u] /\ new.current = at
  BY <1>1, AggregatorParts, AddUtilityParts
<1>3. ASSUME NEW i \in 1 .. k
      PROVE  Recent(new, k)[i] = IF i = k THEN u ELSE Recent(a, k)[i + 1]
  <2>1. PICK p : p = IF i > at THEN at + k - i ELSE at - i
    OBVIOUS
  <2>2. Recent(new, k)[i] = [f EXCEPT ![at] = u][p]
    BY <1>2, <2>1 DEF Recent
  <2>3. CASE i = k
    <3>1. p = at
      BY <1>2, <2>1, <2>3
    <3> QED
      BY <1>2, <2>2, <2>3, <3>1
  <2>4. CASE i # k
    <3>1. PICK h \in 1 .. k : h = i + 1
      BY <2>4
    <3>2. Recent(a, k)[h] = f[IF h > c THEN c + k - h ELSE c - h]
      BY <1>1 DEF Recent
    <3>3. p = (IF h > c THEN c + k - h ELSE c - h) /\ p \in 0 .. k - 1 /\ p # at
      <4>1. CASE c = 0
        <5>1. at = k - 1
          BY <1>1, <4>1
        <5> QED
          BY <2>1, <2>4, <3>1, <4>1, <5>1
      <4>2. CASE c # 0
        <5>1. at = c - 1
          BY <1>1, <4>2
        <5> QED
          BY <1>2, <2>1, <2>4, <3>1, <4>2, <5>1
      <4> QED
        BY <4>1, <4>2
    <3>4. [f EXCEPT ![at] = u][p] = f[p]
      BY <1>2, <3>3
    <3> QED
      BY <2>2, <2>4, <3>1, <3>2, <3>3, <3>4
  <2> QED
    BY <2>3, <2>4
<1>4. Recent(new, k) = [i \in 1 .. k |-> IF i = k THEN u ELSE Recent(a, k)[i + 1]]
  <2>1. Recent(new, k) = [i \in 1 .. k |-> Recent(new, k)[i]]
    BY DEF Recent
  <2> QED
    BY <1>3, <2>1
<1> QED
  BY <1>1, <1>4 DEF Shifted

\* ... and keeps the sum that of the window.
LEMMA WindowStaysCounted ==
  ASSUME NEW k \in Nat \ {0}, NEW a, AggregatorOK(a, k), NEW u \in Bit, WindowCounted(a, k)
  PROVE  WindowCounted(AddUtility(a, u), k)
<1>1. PICK new, at : new = AddUtility(a, u) /\ at = IF a.current = 0 THEN k - 1 ELSE a.current - 1
  OBVIOUS
<1>2. /\ a.values \in [0 .. k - 1 -> Bit] /\ a.sum \in Int /\ at \in 0 .. k - 1
      /\ new.values = [a.values EXCEPT ![at] = u] /\ new.sum = a.sum - a.values[at] + u
  BY <1>1, AggregatorParts, AddUtilityParts
\* push does the same to the ring of a monitor.
<1>3. PICK mon : mon = [vals |-> a.values, pos |-> at, sum |-> a.sum, recorded |-> k,
                        violations |-> 0]
  OBVIOUS
<1>4. mon \in Monitors(k) /\ SumRight(mon, k)
  BY <1>2, <1>3 DEF Monitors, WindowCounted, SumRight
<1>5. /\ Push(mon, 0, k, u).vals = [mon.vals EXCEPT ![mon.pos] = u]
      /\ Push(mon, 0, k, u).sum = mon.sum - mon.vals[mon.pos] + u
  BY DEF Push
<1>6. SumRight(Push(mon, 0, k, u), k)
  BY <1>4, PushSumRight
<1> QED
  BY <1>1, <1>2, <1>3, <1>5, <1>6 DEF SumRight, WindowCounted

LEMMA NewWindow ==
  ASSUME NEW ts \in TaskRecord, ts.k # 0
  PROVE  /\ WindowCounted(AggregatorOf(ts), ts.k)
         /\ AggregatorOf(ts).m = ts.m
<1>0. PICK k \in Nat \ {0} : k = ts.k
  BY DEF TaskRecord
<1>1. PICK f : f = [i \in 0 .. k - 1 |-> 1]
  OBVIOUS
<1>2. AggregatorOf(ts) = [class |-> "UAWMK", m |-> ts.m, size |-> k, values |-> f,
                          current |-> k - 1, sum |-> k, total |-> 0, count |-> 0]
  BY <1>0, <1>1 DEF AggregatorOf, NewAggregator
<1>3. Successes(f, 0 .. k - 1) = k
  <2>1. {i \in 0 .. k - 1 : f[i] = 1} = Window(k)
    BY <1>1 DEF Window
  <2> QED
    BY <2>1, WindowFinite DEF Successes
<1> QED
  BY <1>0, <1>1, <1>2, <1>3 DEF WindowCounted

\* A window holds no more successes than the outcomes which it stays below.
LEMMA BelowGood ==
  ASSUME NEW k \in Nat \ {0}, NEW mon \in Monitors(k), Filling(mon, k), SumRight(mon, k),
         NEW a, AggregatorOK(a, k), WindowCounted(a, k),
         \A i \in 1 .. k : Recent(a, k)[i] <= Outcomes(mon, k)[i]
  PROVE  a.sum <= GetCurrentSum(mon, k)
<1>1. PICK c, f, g : c = a.current /\ f = a.values /\ g = Outcomes(mon, k)
  OBVIOUS
<1>2. c \in 0 .. k - 1 /\ f \in [0 .. k - 1 -> Bit] /\ DOMAIN g = 1 .. k
  BY <1>1, AggregatorParts DEF Outcomes
<1>3. PICK S, T : S = {x \in 0 .. k - 1 : f[x] = 1} /\ T = {i \in 1 .. k : g[i] = 1}
  OBVIOUS
<1>4. a.sum = Cardinality(S) /\ GetCurrentSum(mon, k) = Cardinality(T)
  BY <1>1, <1>2, <1>3, CountOutcomes DEF WindowCounted, Successes, Good
<1>5. \A i \in 1 .. k : g[i] \in {0, 1}
  <2>1. /\ mon.vals \in [0 .. k - 1 -> Bit] /\ mon.pos \in 0 .. k - 1
    BY MonitorParts
  <2> SUFFICES ASSUME NEW i \in 1 .. k PROVE g[i] \in {0, 1}
    OBVIOUS
  <2>2. PICK pos \in 0 .. k - 1 : pos = mon.pos
    BY <2>1
  <2>3. PICK p : p = IF pos + i - 1 < k THEN pos + i - 1 ELSE pos + i - 1 - k
    OBVIOUS
  <2>4. p \in 0 .. k - 1
    BY <2>3
  <2>5. GetState(mon, k)[i] = mon.vals[p]
    <3>1. GetState(mon, k)[i] =
            mon.vals[IF mon.pos + i - 1 < k THEN mon.pos + i - 1 ELSE mon.pos + i - 1 - k]
      BY StateAt
    <3> QED
      BY <2>2, <2>3, <3>1, Zenon
  <2>6. mon.vals[p] \in {0, 1}
    BY <2>1, <2>4 DEF Bit
  <2>7. g[i] = 1 \/ g[i] = GetState(mon, k)[i]
    BY <1>1 DEF Outcomes
  <2> QED
    BY <2>5, <2>6, <2>7
<1>6. ASSUME NEW x \in S, NEW i, i = IF x < c THEN c - x ELSE c + k - x
      PROVE  i \in T
  <2>1. x \in 0 .. k - 1 /\ f[x] = 1
    BY <1>3
  <2>2. i \in 1 .. k /\ x = IF i > c THEN c + k - i ELSE c - i
    BY <1>2, <1>6, <2>1
  <2>3. Recent(a, k)[i] = 1
    BY <1>1, <2>1, <2>2 DEF Recent
  <2>4. 1 <= g[i]
    BY <1>1, <2>2, <2>3
  <2> QED
    BY <1>3, <1>5, <2>2, <2>4
<1>7. PICK h : h = [x \in S |-> IF x < c THEN c - x ELSE c + k - x]
  OBVIOUS
<1>8. h \in Injection(S, T)
  <2>1. h \in [S -> T]
    BY <1>6, <1>7
  <2>2. ASSUME NEW x \in S, NEW y \in S, h[x] = h[y] PROVE x = y
    <3>1. x \in 0 .. k - 1 /\ y \in 0 .. k - 1
      BY <1>3
    <3> QED
      BY <1>2, <1>7, <2>2, <3>1
  <2> QED
    BY <2>1, <2>2 DEF Injection, IsInjective
<1>9. IsFiniteSet(T)
  <2>1. IsFiniteSet(1 .. k)
    BY FS_Interval
  <2> QED
    BY <1>3, <2>1, FS_Subset
<1> QED
  BY <1>4, <1>8, <1>9, FS_Injection

\* A monitor and an aggregator of the same task: the aggregator counts a late job as a
\* failure, the monitor does not.
Below(mon, a, k) == \A i \in 1 .. k : Recent(a, k)[i] <= Outcomes(mon, k)[i]

Agree(mon, a, k) == Filling(mon, k) /\ SumRight(mon, k) /\ WindowCounted(a, k) /\ Below(mon, a, k)

LEMMA AgreeStays ==
  ASSUME NEW k \in Nat \ {0}, NEW m \in Nat, NEW mon \in Monitors(k),
         NEW a, AggregatorOK(a, k), Agree(mon, a, k),
         NEW val \in Bit, NEW u \in Bit, u <= val
  PROVE  Agree(Push(mon, m, k, val), AddUtility(a, u), k)
<1>1. PICK mon1, a1 : mon1 = Push(mon, m, k, val) /\ a1 = AddUtility(a, u)
  OBVIOUS
<1>2. Filling(mon1, k) /\ SumRight(mon1, k) /\ WindowCounted(a1, k)
  BY <1>1, PushSum, PushSumRight, WindowStaysCounted DEF Agree
<1>3. /\ Outcomes(mon1, k) = Shifted(Outcomes(mon, k), k, val)
      /\ Recent(a1, k) = Shifted(Recent(a, k), k, u)
  BY <1>1, PushShifts, RecentShifts
<1>4. ASSUME NEW i \in 1 .. k PROVE Recent(a1, k)[i] <= Outcomes(mon1, k)[i]
  <2>1. CASE i = k
    BY <1>3, <2>1 DEF Shifted
  <2>2. CASE i # k
    <3>1. PICK h \in 1 .. k : h = i + 1
      BY <2>2
    <3>2. Recent(a, k)[h] <= Outcomes(mon, k)[h]
      BY DEF Agree, Below
    <3>3. Recent(a1, k)[i] = Recent(a, k)[h] /\ Outcomes(mon1, k)[i] = Outcomes(mon, k)[h]
      BY <1>3, <2>2, <3>1 DEF Shifted
    <3> QED
      BY <3>2, <3>3
  <2> QED
    BY <2>1, <2>2
<1> QED
  BY <1>1, <1>2, <1>4 DEF Agree, Below

LEMMA ForgetsOldest ==
  ASSUME NEW k \in Nat \ {0}, NEW a, AggregatorOK(a, k), NEW u \in Bit
  PROVE  AddUtility(a, u).sum = a.sum - Oldest(a) + u /\ Oldest(a) \in Bit
<1>1. PICK new, at : new = AddUtility(a, u) /\ at = IF a.current = 0 THEN k - 1 ELSE a.current - 1
  OBVIOUS
<1>2. /\ a.values \in [0 .. k - 1 -> Bit] /\ at \in 0 .. k - 1
      /\ new.values = [a.values EXCEPT ![at] = u] /\ new.sum = a.sum - a.values[at] + u
  BY <1>1, AggregatorParts, AddUtilityParts
<1>3. a.current \in 0 .. k - 1 /\ a.size = k
  BY AggregatorParts
<1>4. (a.current + (k - 1)) % k = at
  BY <1>1, <1>3, OldestEntry
<1>5. Oldest(a) = a.values[at]
  BY <1>3, <1>4 DEF Oldest, Entry
<1> QED
  BY <1>1, <1>2, <1>5

\* The prediction for one more failure is what the monitor says after it, at least.
LEMMA PredictionHolds ==
  ASSUME NEW k \in Nat \ {0}, NEW m \in Nat, NEW mon \in Monitors(k),
         NEW a, AggregatorOK(a, k), Agree(mon, a, k),
         PredictUtility(a, 0)[1] >= m
  PROVE  IsStateValid(Push(mon, m, k, 0), m, k)
<1>1. PICK mon1, a1 : mon1 = Push(mon, m, k, 0) /\ a1 = AddUtility(a, 0)
  OBVIOUS
<1>2. 0 \in Bit /\ 0 <= 0
  BY DEF Bit
<1>3. mon1 \in Monitors(k) /\ AggregatorOK(a1, k)
  BY <1>1, <1>2, PushType, AddUtilityOK
<1>4. Agree(mon1, a1, k)
  BY <1>1, <1>2, AgreeStays
<1>5. a1.sum <= GetCurrentSum(mon1, k)
  <2>1. /\ Filling(mon1, k) /\ SumRight(mon1, k) /\ WindowCounted(a1, k)
        /\ \A i \in 1 .. k : Recent(a1, k)[i] <= Outcomes(mon1, k)[i]
    BY <1>4 DEF Agree, Below
  <2> QED
    BY <1>3, <2>1, BelowGood
<1>6. a1.sum = a.sum - Oldest(a) + 0 /\ Oldest(a) \in Int
  BY <1>1, <1>2, ForgetsOldest DEF Bit
<1>7. PredictUtility(a, 0)[1] = a.sum - Oldest(a) + 0
  BY AggregatorParts DEF PredictUtility, PredictMk
<1>8. a1.sum >= m /\ a1.sum \in Int
  BY <1>3, <1>6, <1>7, AggregatorParts
<1>9. GetCurrentSum(mon1, k) \in Int
  BY <1>1, <1>2, PushSum DEF Agree
<1> QED
  BY <1>1, <1>5, <1>8, <1>9 DEF IsStateValid

\* At the start
LEMMA AgreeAtStart ==
  ASSUME NEW ts \in TaskRecord, ts.k # 0, NEW bits \in [0 .. ts.k - 1 -> Bit]
  PROVE  Agree(NewMonitor(ts.k, bits), AggregatorOf(ts), ts.k)
<1>0. PICK k \in Nat \ {0} : k = ts.k
  BY DEF TaskRecord
<1>1. PICK mon, a : mon = NewMonitor(k, bits) /\ a = AggregatorOf(ts)
  OBVIOUS
<1>2. /\ AggregatorOK(a, k) /\ WindowCounted(a, k)
  BY <1>0, <1>1, NewAggregatorOK, NewWindow
<1>3. Filling(mon, k)
  BY <1>0, <1>1, NewMonitorSum
<1>4. mon.vals = bits /\ mon.sum = Successes(bits, 0 .. k - 1) /\ mon.recorded = 0
  <2>1. mon.vals = [i \in 0 .. k - 1 |-> bits[i]]
    BY <1>0, <1>1 DEF NewMonitor
  <2> QED
    BY <1>0, <1>1, <2>1 DEF NewMonitor
<1>5. ASSUME NEW i \in 1 .. k PROVE Recent(a, k)[i] <= Outcomes(mon, k)[i]
  <2>1. Outcomes(mon, k)[i] = 1
    BY <1>4 DEF Outcomes
  <2>2. PICK c, f : c = a.current /\ f = a.values
    OBVIOUS
  <2>3. c \in 0 .. k - 1 /\ f \in [0 .. k - 1 -> Bit]
    BY <1>2, <2>2, AggregatorParts
  <2>4. PICK p : p = IF i > c THEN c + k - i ELSE c - i
    OBVIOUS
  <2>5. Recent(a, k)[i] = f[p] /\ p \in 0 .. k - 1
    BY <2>2, <2>3, <2>4 DEF Recent
  <2> QED
    BY <2>1, <2>3, <2>5 DEF Bit
<1> QED
  BY <1>0, <1>1, <1>2, <1>3, <1>4, <1>5 DEF Agree, Below, SumRight

\* The simulations that MKUKeepsConstraints is about
Judged == variant = "MKUEDF" /\ OneJobAtATime /\ PatternsRelaxed

\* In them, no aggregator counts a success that the monitor of its task does not know;
WindowsAgree ==
  \A t \in Constrained :
    Agree(monitor[t], ua[t], taskset[t].k) /\ ua[t].m = taskset[t].m

\* of the jobs of a task, all but one must still execute;
AllButOneStarted ==
  \A i, h \in DOMAIN job : i[1] = h[1] /\ i # h => MustStillExecute(i) \/ MustStillExecute(h)

\* a task is not activated before its last activation's distance has passed;
ReleasesApart == \A j \in DOMAIN job : Activation(j) + Gap(j[1]) <= task[j[1]].next

\* run() misses no activation;
ActivationsAhead ==
  mode # "finalise" => \A t \in Tasks :
    /\ task[t].next >= now
    /\ pc \in {"schedule", "cancelSchedule", "dispatch"} \/ (pc = "activate" /\ t < index)
         => task[t].next > now

\* and one more failure is allowed for the task of every job that schedule() gave up.
Affordable(t) == t \in Constrained => PredictUtility(ua[t], 0)[1] >= taskset[t].m

GivenUpAffordable ==
  /\ pc = "activate" => cancelled = << >>
  /\ pc \in {"schedule", "cancelSchedule"} =>
       \A j \in Range(cancelled) : ~ MustStillExecute(j) /\ Affordable(j[1])

MkuInv ==
  /\ WindowsAgree
  /\ LateAreStarted /\ AllButOneStarted /\ ReleasesApart
  /\ ActivationsAhead
  /\ GivenUpAffordable
  /\ pc # "cancelInit" => rv

\* The jobs: those that are kept stay what they were, ...
LEMMA MustKept ==
  ASSUME TypeOK, TypeOK', JobsKept, NEW j \in DOMAIN job'
  PROVE  /\ j \in DOMAIN job /\ (MustStillExecute(j) => MustStillExecute(j)')
         /\ Activation(j)' = Activation(j)
<1>1. /\ j \in DOMAIN job /\ job'[j].et = job[j].et /\ job'[j].rem <= job[j].rem
      /\ job'[j].dl = job[j].dl /\ config' = config /\ taskset' = taskset
  BY DEF JobsKept
<1>2. job[j] \in JobRecord /\ job'[j] \in JobRecord
  BY <1>1 DEF TypeOK
<1>3. job[j].rem \in Nat /\ job[j].et \in Nat /\ job'[j].rem \in Nat
  BY <1>2 DEF JobRecord
<1>4. job[j].rem < job[j].et => job'[j].rem < job'[j].et
  BY <1>1, <1>3
<1> QED
  BY <1>1, <1>4 DEF MustStillExecute, Started, Activation

LEMMA JudgedKept ==
  ASSUME TypeOK, TypeOK', JobsKept, \A t \in Tasks : task'[t].next = task[t].next,
         AllButOneStarted, ReleasesApart
  PROVE  AllButOneStarted' /\ ReleasesApart'
<1>1. ASSUME NEW i \in DOMAIN job', NEW h \in DOMAIN job', i[1] = h[1], i # h
      PROVE  MustStillExecute(i)' \/ MustStillExecute(h)'
  <2>1. i \in DOMAIN job /\ h \in DOMAIN job
    BY <1>1, MustKept
  <2>2. MustStillExecute(i) \/ MustStillExecute(h)
    BY <1>1, <2>1 DEF AllButOneStarted
  <2>3. (MustStillExecute(i) => MustStillExecute(i)') /\ (MustStillExecute(h) => MustStillExecute(h)')
    BY MustKept
  <2> QED
    BY <2>2, <2>3
<1>2. ASSUME NEW j \in DOMAIN job' PROVE (Activation(j) + Gap(j[1]) <= task[j[1]].next)'
  <2>1. j \in DOMAIN job /\ Activation(j)' = Activation(j)
    BY <1>2, MustKept
  <2>2. Activation(j) + Gap(j[1]) <= task[j[1]].next
    BY <2>1 DEF ReleasesApart
  <2>3. j[1] \in Tasks /\ Gap(j[1])' = Gap(j[1])
    BY <2>1 DEF TypeOK, JobIds, JobsKept, Gap
  <2> QED
    BY <2>1, <2>2, <2>3
<1> QED
  BY <1>1, <1>2 DEF AllButOneStarted, ReleasesApart

LEMMA LateKept ==
  ASSUME TypeOK, TypeOK', JobsKept, LateAreStarted,
         \A j \in Range(execMissJobs') : j \in Range(execMissJobs) \/ MustStillExecute(j)
  PROVE  LateAreStarted'
<1> SUFFICES ASSUME config'.dlMissCancellations, NEW j \in Range(execMissJobs'), j \in DOMAIN job'
             PROVE  MustStillExecute(j)'
  BY DEF LateAreStarted
<1>1. j \in DOMAIN job /\ (MustStillExecute(j) => MustStillExecute(j)')
  BY MustKept
<1>2. config.dlMissCancellations
  BY DEF JobsKept
<1> QED
  BY <1>1, <1>2 DEF LateAreStarted

\* which is so in every step but an activation.
LEMMA OtherStepsKeepJobs ==
  ASSUME IInv, OEDFStep, ~ Activate
  PROVE  JobsKept /\ \A t \in Tasks : task'[t].next = task[t].next
<1>0. /\ TypeOK /\ StepsLeft /\ task \in [Tasks -> TaskState] /\ job \in [DOMAIN job -> JobRecord]
      /\ \A j \in DOMAIN job : job[j].rem \in Nat
  <2>1. TypeOK /\ StepsLeft
    BY DEF IInv, SchedInv
  <2> QED
    BY <2>1 DEF TypeOK, JobRecord
<1>1. CASE UNCHANGED <<config, taskset, job, task>>
  BY <1>0, <1>1 DEF JobsKept
<1>2. CASE CancelJob
  <2>1. PICK j : j = Head(cancelled)
    OBVIOUS
  <2>2. /\ config' = config /\ taskset' = taskset /\ job' = Delete(job, j)
        /\ task' = [task EXCEPT ![j[1]] = CountCancel(@, j)]
    BY <1>2, <2>1 DEF CancelJob, fixed
  <2>3. DOMAIN job' = DOMAIN job \ {j} /\ \A i \in DOMAIN job' : job'[i] = job[i]
    BY <2>2 DEF Delete
  <2>4. JobsKept
    BY <1>0, <2>2, <2>3 DEF JobsKept
  <2>5. ASSUME NEW t \in Tasks PROVE task'[t].next = task[t].next
    <3>1. task[t] \in TaskState
      BY <1>0
    <3>2. CountCancel(task[t], j).next = task[t].next
      BY <3>1 DEF CountCancel, TaskState
    <3> QED
      BY <1>0, <2>2, <3>2
  <2> QED
    BY <2>4, <2>5
<1>3. CASE Execute \/ Complete
  <2>1. PICK j : j = NextJob
    OBVIOUS
  <2>2. j \in DOMAIN job
    BY <1>3, <2>1, NextJobIsFirst
    DEF Execute, ExecuteStep, DispatchStep, Complete, CompleteStep, DispatchFinish
  <2>3. /\ config' = config /\ taskset' = taskset
        /\ \/ job' = AfterStep(j) /\ task' = task
           \/ job' = Delete(AfterStep(j), j) /\ task' = [task EXCEPT ![j[1]] = CountCompletion(@, j)]
    BY <1>3, <2>1 DEF Execute, ExecuteStep, DispatchStep, Complete, CompleteStep, CompleteJob,
                      StepEnd, StepEndWith, fixed, tasks
  <2>4. PICK jobs : jobs = AfterStep(j)
    OBVIOUS
  <2>5. /\ DOMAIN jobs = DOMAIN job
        /\ \A i \in DOMAIN job : /\ jobs[i].dl = job[i].dl /\ jobs[i].et = job[i].et
                                 /\ jobs[i].prio = job[i].prio /\ jobs[i].rem <= job[i].rem
    BY <1>0, <2>2, <2>4, AfterStepJobs, AfterStepKeepsPriority
  <2>6. DOMAIN job' \subseteq DOMAIN job /\ \A i \in DOMAIN job' : job'[i] = jobs[i]
    BY <2>3, <2>4, <2>5 DEF Delete
  <2>7. JobsKept
    BY <2>3, <2>5, <2>6 DEF JobsKept
  <2>8. ASSUME NEW t \in Tasks PROVE task'[t].next = task[t].next
    <3>1. task[t] \in TaskState
      BY <1>0
    <3>2. CountCompletion(task[t], j).next = task[t].next
      BY <3>1 DEF CountCompletion, TaskState
    <3> QED
      BY <1>0, <2>3, <3>2
  <2> QED
    BY <2>7, <2>8
<1>4. OEDFStep /\ ~ Activate => \/ UNCHANGED <<config, taskset, job, task>>
                                \/ CancelJob \/ Execute \/ Complete
  BY DEF OEDFStep, Repair, RepairDone, ScheduleDone, MissKept, MissDropped, InitStepDone,
         PerformCancellations, CancelDone, NotYetActive, Idle, IdleStep, DispatchIdle,
         StepEnd, StepEndWith, fixed, tasks
<1> QED
  BY <1>1, <1>2, <1>3, <1>4

\* A job that check() names and that may be given up does not stay.
LEMMA LateStay ==
  ASSUME OEDFInv, OEDFInv', variant = "MKUEDF", LateAreStarted, OEDFStep, ~ Activate
  PROVE  LateAreStarted'
<1>0. IInv /\ TypeOK /\ TypeOK' /\ JobsKept /\ variant \in OEDFVariants
  BY OtherStepsKeepJobs DEF OEDFInv, IInv, OEDFVariants, MaxVariants
<1>1. /\ execMissJobs \in Seq(JobIds) /\ IsInjective(execMissJobs)
  BY <1>0 DEF TypeOK, OEDFInv
<1> SUFFICES ASSUME NEW j \in Range(execMissJobs') PROVE j \in Range(execMissJobs) \/ MustStillExecute(j)
  BY <1>0, LateKept
<1>2. CASE Repair /\ Candidates(Min(Misses)) # {}
  <2>1. PICK c \in Range(mySchedule) :
          execMissJobs' = IF c \in Range(dlmon) THEN execMissJobs ELSE RemoveFirst(execMissJobs, c)
    BY <1>0, <1>2, RepairCancels
  <2>2. CASE c \in Range(dlmon)
    BY <2>1, <2>2
  <2>3. CASE c \notin Range(dlmon)
    <3>1. c \in Range(execMissJobs)
      BY <2>1, <2>3 DEF OEDFInv, Watched
    <3>2. Range(RemoveFirst(execMissJobs, c)) = Range(execMissJobs) \ {c}
      BY <1>1, <3>1, RemoveFirstRange
    <3> QED
      BY <2>1, <2>3, <3>2
  <2> QED
    BY <2>2, <2>3
<1>3. CASE MissKept
  <2>1. /\ execMissJobs' = Append(execMissJobs, Head(dlmon)) /\ MustStillExecute(Head(dlmon))
        /\ MissFound(now)
    BY <1>3 DEF MissKept, KeepMissJob
  <2>2. Head(dlmon) \in JobIds
    BY <1>0, <2>1, MissedJob
  <2>3. Range(Append(execMissJobs, Head(dlmon))) = Range(execMissJobs) \cup {Head(dlmon)}
    BY <1>1, <2>2, AppendRange
  <2> QED
    BY <2>1, <2>3
<1>4. CASE execMissJobs' = execMissJobs
  BY <1>4
<1>5. \/ Repair /\ Candidates(Min(Misses)) # {}
      \/ MissKept \/ execMissJobs' = execMissJobs
  BY DEF OEDFStep, Repair, RepairDone, ScheduleDone, MissDropped, DropMissJob, InitStepDone,
         PerformCancellations, CancelJob, CancelDone, NotYetActive, Idle, IdleStep, DispatchIdle,
         Execute, ExecuteStep, DispatchStep, Complete, CompleteStep, DispatchFinish, sched
<1> QED
  BY <1>2, <1>3, <1>4, <1>5

\* A task is activated when its time has come, and not later.
LEMMA ActivatedInTime ==
  ASSUME TypeOK, CallInv, ActivationsAhead, SpawnJob
  PROVE  \E gap \in taskset[index].gaps :
           /\ index \in Tasks /\ now \in Nat /\ task[index].next = now
           /\ Gap(index) \in Nat \ {0} /\ gap \in Nat /\ Gap(index) <= gap
           /\ task'[index].next = now + gap
           /\ \A u \in Tasks \ {index} : task'[u] = task[u]
<1>1. PICK t : t = index
  OBVIOUS
<1>2. t \in Tasks /\ now \in Nat /\ pc = "activate" /\ task[t].next <= now
      /\ \A u \in Tasks : task[u] \in TaskState /\ task[u].next \in Int
  BY <1>1 DEF SpawnJob, TypeOK, TaskState
<1>3. task[t].next = now
  <2>1. mode = "run"
    BY <1>2 DEF CallInv
  <2>2. task[t].next >= now
    BY <1>2, <2>1 DEF ActivationsAhead
  <2> QED
    BY <1>2, <2>2
<1>4. PICK gap \in taskset[t].gaps :
        task' = [task EXCEPT ![t] = CountActivation(task[t], gap)]
  BY <1>1 DEF SpawnJob
<1>5. Gap(t) \in Nat \ {0} /\ gap \in Nat /\ Gap(t) <= gap
  BY <1>2, TaskNumbers
<1>6. task'[t].next = now + gap /\ \A u \in Tasks \ {t} : task'[u] = task[u]
  <2>0. task \in [Tasks -> TaskState] /\ task[t] \in TaskState /\ now + gap \in Int
    BY <1>2, <1>5 DEF TypeOK
  <2>1. task[t].next + gap \in Int /\ task[t].activations + 1 \in Nat
    BY <1>2, <1>3, <2>0 DEF TaskState
  <2>2. CountActivation(task[t], gap).next = now + gap
    BY <1>3, <2>0, <2>1 DEF CountActivation, TaskState
  <2> QED
    BY <1>2, <1>4, <2>0, <2>2
<1> QED
  BY <1>1, <1>2, <1>3, <1>4, <1>5, <1>6

\* A job of the task that could still be given up would be watched and have its
\* deadline ahead, which a job from the task's last activation has not.
LEMMA OnlyStartedBefore ==
  ASSUME IInv, CallInv, OneJobAtATime, LateAreStarted, ReleasesApart, ActivationsAhead,
         GivenUpAffordable, SpawnJob,
         NEW i \in DOMAIN job, i[1] = index
  PROVE  MustStillExecute(i)
<1>0. TypeOK /\ pc = "activate"
  BY DEF IInv, SpawnJob
<1>1. index \in Tasks /\ now \in Nat /\ task[index].next = now
  BY <1>0, ActivatedInTime
<1>2. config.dlMissCancellations /\ taskset[index].ct <= Gap(index)
  BY <1>1 DEF OneJobAtATime, Gap
<1>3. taskset[index].ct \in Nat /\ Gap(index) \in Nat
  BY <1>0, <1>1, TaskNumbers
<1>4. i \in Range(mySchedule)
  <2>1. cancelled = << >>
    BY <1>0 DEF GivenUpAffordable
  <2>2. Range(cancelled) = {}
    BY <2>1, EmptySeq DEF Range
  <2> QED
    BY <2>2 DEF IInv, SchedInv, JobsHeld
<1>5. CASE i \in Range(dlmon)
  <2>1. job[i].dl > now
    BY <1>0, <1>2, <1>5 DEF IInv, DeadlinesAhead
  <2>2. job[i].dl - taskset[index].ct + Gap(index) <= now
    BY <1>1 DEF ReleasesApart, Activation
  <2>3. job[i].dl \in Int
    BY <1>0 DEF TypeOK, JobRecord
  <2>4. PICK x, c, g, n : x = job[i].dl /\ c = taskset[index].ct /\ g = Gap(index) /\ n = now
    OBVIOUS
  <2>5. x \in Int /\ c \in Nat /\ g \in Nat /\ n \in Nat /\ x > n /\ x - c + g <= n /\ c <= g
    BY <1>1, <1>2, <1>3, <2>1, <2>2, <2>3, <2>4
  <2> QED
    BY <2>5
<1>6. CASE i \notin Range(dlmon)
  <2>1. i \in Range(execMissJobs)
    BY <1>2, <1>4, <1>6 DEF IInv, SchedInv, MonitorCoversSchedule
  <2> QED
    BY <1>2, <2>1 DEF LateAreStarted
<1> QED
  BY <1>5, <1>6

LEMMA ActivateJudged ==
  ASSUME IInv, IInv', CallInv, OneJobAtATime, LateAreStarted, AllButOneStarted, ReleasesApart,
         ActivationsAhead, GivenUpAffordable, Activate
  PROVE  LateAreStarted' /\ AllButOneStarted' /\ ReleasesApart'
<1>1. PICK t, j, record : t = index /\ j = NextJobId(index) /\ record = NewJob(index)
  OBVIOUS
<1>2. TypeOK /\ TypeOK' /\ SpawnJob /\ JobsNumbered
  BY DEF IInv, Activate, SchedInv
<1>3. PICK gap \in taskset[t].gaps :
        /\ t \in Tasks /\ now \in Nat /\ task[t].next = now
        /\ Gap(t) \in Nat \ {0} /\ gap \in Nat /\ Gap(t) <= gap
        /\ task'[t].next = now + gap /\ \A u \in Tasks \ {t} : task'[u] = task[u]
  BY <1>1, <1>2, ActivatedInTime
<1>4. /\ j \notin DOMAIN job /\ j \notin Range(execMissJobs) /\ j[1] = t
      /\ config' = config /\ taskset' = taskset /\ now' = now
  <2>1. /\ NextJobId(index) \notin DOMAIN job \cup Range(dlmon) \cup Range(execMissJobs)
        /\ config' = config /\ taskset' = taskset /\ now' = now
    BY <1>2, SpawnJobCore
  <2> QED
    BY <1>1, <2>1 DEF NextJobId
<1>5. /\ job' = [i \in DOMAIN job \cup {j} |-> IF i = j THEN record ELSE job[i]]
      /\ execMissJobs' = execMissJobs
  BY <1>1 DEF Activate, EnqueueJob
<1>6. DOMAIN job' = DOMAIN job \cup {j} /\ job'[j] = record /\ \A i \in DOMAIN job : job'[i] = job[i]
  BY <1>4, <1>5
<1>7. \A i \in DOMAIN job : /\ MustStillExecute(i)' <=> MustStillExecute(i)
                            /\ Activation(i)' = Activation(i)
  BY <1>4, <1>6 DEF MustStillExecute, Started, Activation
<1>8. \A i \in DOMAIN job : i[1] = t => MustStillExecute(i)
  BY <1>1, <1>2, OnlyStartedBefore
<1>9. LateAreStarted'
  <2> SUFFICES ASSUME config.dlMissCancellations, NEW i \in Range(execMissJobs), i \in DOMAIN job'
               PROVE  MustStillExecute(i)'
    BY <1>4, <1>5 DEF LateAreStarted
  <2>1. i \in DOMAIN job
    BY <1>4, <1>6
  <2> QED
    BY <1>7, <2>1 DEF LateAreStarted
<1>10. AllButOneStarted'
  <2> SUFFICES ASSUME NEW i \in DOMAIN job', NEW h \in DOMAIN job', i[1] = h[1], i # h
               PROVE  MustStillExecute(i)' \/ MustStillExecute(h)'
    BY DEF AllButOneStarted
  <2>1. CASE i = j
    <3>1. h \in DOMAIN job /\ h[1] = t
      BY <1>4, <1>6, <2>1
    <3> QED
      BY <1>7, <1>8, <3>1
  <2>2. CASE h = j
    <3>1. i \in DOMAIN job /\ i[1] = t
      BY <1>4, <1>6, <2>2
    <3> QED
      BY <1>7, <1>8, <3>1
  <2>3. CASE i # j /\ h # j
    <3>1. i \in DOMAIN job /\ h \in DOMAIN job
      BY <1>6, <2>3
    <3>2. MustStillExecute(i) \/ MustStillExecute(h)
      BY <3>1 DEF AllButOneStarted
    <3> QED
      BY <1>7, <3>1, <3>2
  <2> QED
    BY <2>1, <2>2, <2>3
<1>11. ReleasesApart'
  <2> SUFFICES ASSUME NEW i \in DOMAIN job'
               PROVE  (Activation(i) + Gap(i[1]) <= task[i[1]].next)'
    BY DEF ReleasesApart
  <2>0. \A u \in Tasks : Gap(u)' = Gap(u)
    BY <1>4 DEF Gap
  <2>1. CASE i = j
    <3>1. Activation(i)' = now
      <4>1. PICK c : c = taskset[t].ct
        OBVIOUS
      <4>2. c \in Nat
        BY <1>2, <1>3, <4>1, TaskNumbers
      <4>3. record.dl = now + c
        BY <1>1, <4>1 DEF NewJob
      <4>4. Activation(i)' = record.dl - c
        BY <1>4, <1>6, <2>1, <4>1 DEF Activation
      <4> QED
        BY <1>3, <4>2, <4>3, <4>4
    <3> QED
      BY <1>3, <1>4, <2>0, <2>1, <3>1
  <2>2. CASE i # j
    <3>1. i \in DOMAIN job /\ i[1] \in Tasks
      BY <1>2, <1>6, <2>2 DEF TypeOK, JobIds
    <3>2. Activation(i) + Gap(i[1]) <= task[i[1]].next
      BY <3>1 DEF ReleasesApart
    <3>3. task'[i[1]].next >= task[i[1]].next /\ task'[i[1]].next \in Int /\ task[i[1]].next \in Int
      <4>1. CASE i[1] = t
        BY <1>3, <4>1
      <4>2. CASE i[1] # t
        <5>1. task'[i[1]] = task[i[1]]
          BY <1>3, <3>1, <4>2
        <5>2. task[i[1]].next \in Int
          BY <1>2, <3>1 DEF TypeOK, TaskState
        <5> QED
          BY <5>1, <5>2
      <4> QED
        BY <4>1, <4>2
    <3>4. Activation(i) + Gap(i[1]) \in Int
      <4>1. job[i].dl \in Int
        BY <1>2, <3>1 DEF TypeOK, JobRecord
      <4>2. taskset[i[1]].ct \in Nat /\ Gap(i[1]) \in Nat
        BY <1>2, <3>1, TaskNumbers
      <4> QED
        BY <4>1, <4>2 DEF Activation
    <3>5. PICK x, y, z : x = Activation(i) + Gap(i[1]) /\ y = task[i[1]].next /\ z = task'[i[1]].next
      OBVIOUS
    <3>6. x <= z
      BY <3>2, <3>3, <3>4, <3>5
    <3> QED
      BY <1>7, <2>0, <3>1, <3>5, <3>6
  <2> QED
    BY <2>1, <2>2
<1> QED
  BY <1>9, <1>10, <1>11

\* The windows: a failure is told to both, a late completion to the monitor as a success.
LEMMA BothTold ==
  ASSUME TypeOK, AggregatorsOK, WindowsAgree, NEW t \in Tasks, NEW val \in Bit, NEW u \in Bit,
         u <= val, taskset' = taskset,
         monitor' = [monitor EXCEPT ![t] =
                       IF taskset[t].k > 0
                       THEN Push(@, taskset[t].m, taskset[t].k, val) ELSE @],
         ua' = [ua EXCEPT ![t] = AddUtility(@, u)]
  PROVE  WindowsAgree'
<1> SUFFICES ASSUME NEW c \in Constrained
             PROVE  Agree(monitor'[c], ua'[c], taskset[c].k) /\ ua'[c].m = taskset[c].m
  <2>1. Constrained' = Constrained
    BY DEF Constrained, Tasks
  <2> QED
    BY <2>1 DEF WindowsAgree
<1>1. c \in Tasks /\ taskset[c].k > 0 /\ DOMAIN monitor = Tasks /\ DOMAIN ua = Tasks
  BY DEF Constrained, TypeOK, AggregatorsOK
<1>2. PICK k, m, mon, a : k = taskset[c].k /\ m = taskset[c].m /\ mon = monitor[c] /\ a = ua[c]
  OBVIOUS
<1>3. /\ k \in Nat \ {0} /\ m \in Nat /\ mon \in Monitors(k) /\ AggregatorOK(a, k)
      /\ Agree(mon, a, k) /\ a.m = m
  <2>1. taskset[c] \in TaskRecord
    BY <1>1, TaskParameters
  <2>2. k \in Nat \ {0} /\ m \in Nat
    BY <1>1, <1>2, <2>1 DEF TaskRecord
  <2> QED
    BY <1>1, <1>2, <2>2 DEF TypeOK, AggregatorsOK, WindowsAgree
<1>4. CASE c # t
  <2>1. monitor'[c] = mon /\ ua'[c] = a
    BY <1>1, <1>2, <1>4
  <2> QED
    BY <1>2, <1>3, <2>1
<1>5. CASE c = t
  <2>1. monitor'[c] = Push(mon, m, k, val) /\ ua'[c] = AddUtility(a, u)
    BY <1>1, <1>2, <1>5
  <2>2. Agree(Push(mon, m, k, val), AddUtility(a, u), k)
    BY <1>3, AgreeStays
  <2>3. AddUtility(a, u).m = a.m
    <3>1. PICK at : at = IF a.current = 0 THEN k - 1 ELSE a.current - 1
      OBVIOUS
    <3>2. /\ AddUtility(a, u).values = [a.values EXCEPT ![at] = u]
          /\ AddUtility(a, u).m = a.m
      BY <1>3, <3>1, AddUtilityParts
    <3> QED
      BY <3>2
  <2> QED
    BY <1>2, <1>3, <2>1, <2>2, <2>3
<1> QED
  BY <1>4, <1>5

LEMMA StepAgrees ==
  ASSUME IInv, AggregatorsOK, WindowsAgree, OEDFStep
  PROVE  WindowsAgree'
<1>0. TypeOK /\ 0 \in Bit /\ 1 \in Bit
  BY DEF IInv, Bit
<1>1. CASE CancelJob /\ CancelUtility
  <2>1. PICK j : /\ j = Head(cancelled) /\ j[1] \in Tasks /\ taskset' = taskset
                 /\ monitor' = [monitor EXCEPT ![j[1]] =
                                 IF taskset[j[1]].k > 0
                                 THEN Push(@, taskset[j[1]].m, taskset[j[1]].k, 0) ELSE @]
    BY <1>1, CancelPushes
  <2>2. ua' = [ua EXCEPT ![j[1]] = AddUtility(@, 0)]
    BY <1>1, <2>1 DEF CancelUtility
  <2>3. PICK t : t = j[1]
    OBVIOUS
  <2>4. /\ t \in Tasks /\ taskset' = taskset
        /\ monitor' = [monitor EXCEPT ![t] =
                         IF taskset[t].k > 0 THEN Push(@, taskset[t].m, taskset[t].k, 0) ELSE @]
        /\ ua' = [ua EXCEPT ![t] = AddUtility(@, 0)]
    BY <2>1, <2>2, <2>3
  <2>5. 0 <= 0
    OBVIOUS
  <2> QED
    BY <1>0, <2>4, <2>5, BothTold
<1>2. CASE Complete /\ CompleteUtility(NextJob)
  <2>1. PICK j : /\ j = NextJob /\ j[1] \in Tasks /\ taskset' = taskset
                 /\ monitor' = [monitor EXCEPT ![j[1]] =
                                 IF taskset[j[1]].k > 0
                                 THEN Push(@, taskset[j[1]].m, taskset[j[1]].k, 1) ELSE @]
    BY <1>2, CompletePushes
  <2>2. PICK t, u : t = j[1] /\ u = FirmUtility(job[j].dl, now)
    OBVIOUS
  <2>3. /\ t \in Tasks /\ taskset' = taskset
        /\ monitor' = [monitor EXCEPT ![t] =
                         IF taskset[t].k > 0 THEN Push(@, taskset[t].m, taskset[t].k, 1) ELSE @]
        /\ ua' = [ua EXCEPT ![t] = AddUtility(@, u)]
    BY <1>2, <2>1, <2>2 DEF CompleteUtility
  <2>4. u \in Bit /\ u <= 1
    BY <2>2 DEF FirmUtility, Bit
  <2> QED
    BY <1>0, <2>3, <2>4, BothTold
<1>3. CASE UNCHANGED <<taskset, monitor, ua>>
  BY <1>3 DEF WindowsAgree, Constrained, Tasks
<1>4. \/ CancelJob /\ CancelUtility
      \/ Complete /\ CompleteUtility(NextJob)
      \/ UNCHANGED <<taskset, monitor, ua>>
  BY DEF OEDFStep, Repair, RepairDone, ScheduleDone, MissKept, MissDropped, InitStepDone,
         PerformCancellations, CancelDone, Activate, SpawnJob, NotYetActive, Idle, IdleStep,
         Execute, ExecuteStep, StepEnd, StepEndWith, fixed, tasks, oedf
<1> QED
  BY <1>1, <1>2, <1>3, <1>4

\* run() keeps ahead of no activation and behind none.
LEMMA StepAhead ==
  ASSUME IInv, CallInv, ActivationsAhead, OEDFStep
  PROVE  ActivationsAhead'
<1>0. /\ TypeOK /\ now \in Nat /\ index \in Tasks /\ Tasks = 1 .. Len(taskset)
      /\ Len(taskset) \in Nat
      /\ \A t \in Tasks : task[t].next \in Int
  <2>1. TypeOK
    BY DEF IInv
  <2> QED
    BY <2>1, TaskParameters DEF TypeOK, TaskState
<1>1. CASE Activate
  <2>1. SpawnJob
    BY <1>1 DEF Activate
  <2>2. PICK gap \in taskset[index].gaps :
          /\ task[index].next = now /\ Gap(index) \in Nat \ {0} /\ gap \in Nat /\ Gap(index) <= gap
          /\ task'[index].next = now + gap /\ \A u \in Tasks \ {index} : task'[u] = task[u]
    BY <1>0, <2>1, ActivatedInTime
  <2>3. /\ pc = "activate" /\ mode' = mode /\ now' = now /\ Tasks' = Tasks
        /\ \/ pc' = "schedule" /\ index = Len(taskset)
           \/ pc' = "activate" /\ index' = index + 1
    BY <2>1 DEF SpawnJob, Advance, fixed, Tasks
  <2> SUFFICES ASSUME mode # "finalise", NEW t \in Tasks
               PROVE  /\ task'[t].next >= now
                      /\ pc' = "schedule" \/ (pc' = "activate" /\ t < index') => task'[t].next > now
    BY <2>3 DEF ActivationsAhead
  <2>4. CASE t = index
    BY <1>0, <2>2, <2>4
  <2>5. CASE t # index
    <3>1. task[t].next >= now /\ (t < index => task[t].next > now)
      BY <2>3 DEF ActivationsAhead
    <3>2. t \in Nat /\ index \in Nat /\ t <= Len(taskset)
      BY <1>0
    <3> QED
      BY <2>2, <2>3, <2>5, <3>1, <3>2
  <2> QED
    BY <2>4, <2>5
<1>2. ASSUME ~ Activate PROVE ActivationsAhead'
  <2>1. taskset' = taskset /\ Tasks' = Tasks /\ \A t \in Tasks : task'[t].next = task[t].next
    BY <1>2, OtherStepsKeepJobs DEF JobsKept, Tasks
  <2>2. CASE UNCHANGED <<pc, mode, now, index>>
    BY <2>1, <2>2 DEF ActivationsAhead
  <2>3. CASE NotYetActive
    <3>1. /\ pc = "activate" /\ now < task[index].next /\ mode' = mode /\ now' = now
          /\ \/ pc' = "schedule" /\ index = Len(taskset)
             \/ pc' = "activate" /\ index' = index + 1
      BY <2>3 DEF NotYetActive, Advance
    <3> SUFFICES ASSUME mode # "finalise", NEW t \in Tasks
                 PROVE  /\ task[t].next >= now
                        /\ pc' = "schedule" \/ (pc' = "activate" /\ t < index') => task[t].next > now
      BY <2>1, <3>1 DEF ActivationsAhead
    <3>2. task[t].next >= now /\ (t < index => task[t].next > now)
      BY <3>1 DEF ActivationsAhead
    <3>3. t \in Nat /\ index \in Nat /\ t <= Len(taskset)
      BY <1>0
    <3>4. CASE t = index
      BY <3>1, <3>2, <3>4
    <3> QED
      BY <3>1, <3>2, <3>3, <3>4
  <2>4. CASE InitStepDone \/ ScheduleDone \/ CancelDone
    <3>1. /\ mode' = mode /\ index' = index
          /\ pc' # "activate" \/ index = 1
          /\ \/ mode = "finalise"
             \/ now' = now /\ (pc' \in {"schedule", "cancelSchedule", "dispatch"} =>
                                 pc \in {"schedule", "cancelSchedule", "dispatch"})
      <4>1. mode \in {"run", "finalise"} /\ index = 1
        BY <1>0, <2>4 DEF CallInv, InitStepDone, ScheduleDone, CancelDone, TypeOK
      <4> QED
        BY <2>4, <4>1 DEF InitStepDone, ScheduleDone, CancelDone, PerformCancellations, ExitOnCancel,
                          AfterInitStep
    <3>2. \A t \in Tasks : ~ (t < 1)
      BY <1>0
    <3> QED
      BY <2>1, <3>1, <3>2 DEF ActivationsAhead
  <2>5. CASE Idle \/ Execute \/ Complete
    <3>1. pc = "dispatch" /\ now' = now + 1 /\ mode' = mode /\ pc' \in {"api", "initStep"}
      BY <2>5 DEF Idle, Execute, Complete, IdleStep, ExecuteStep, CompleteStep, StepEnd, StepEndWith
    <3> SUFFICES ASSUME mode # "finalise", NEW t \in Tasks PROVE task[t].next >= now + 1
      BY <2>1, <3>1 DEF ActivationsAhead
    <3>2. task[t].next > now /\ task[t].next \in Int
      BY <1>0, <3>1 DEF ActivationsAhead
    <3> QED
      BY <1>0, <3>2
  <2>6. \/ UNCHANGED <<pc, mode, now, index>> \/ NotYetActive
        \/ InitStepDone \/ ScheduleDone \/ CancelDone \/ Idle \/ Execute \/ Complete
    BY <1>2 DEF OEDFStep, Repair, RepairDone, MissKept, MissDropped, CancelJob
  <2> QED
    BY <2>2, <2>3, <2>4, <2>5, <2>6
<1> QED
  BY <1>1, <1>2

\* The choice: the value of a candidate says that its task can afford a failure.
LEMMA CandidateAffordable ==
  ASSUME TypeOK, AggregatorsOK, WindowsAgree, variant = "MKUEDF", NEW j \in DOMAIN job, NEW time,
         IsCancelCandidate(j, CalcValue(j, time))
  PROVE  ~ MustStillExecute(j) /\ Affordable(j[1])
<1>1. PICK t, a, value : t = j[1] /\ a = ua[t] /\ value = PredictUtility(a, 0)
  OBVIOUS
<1>2. ~ MustStillExecute(j) /\ ~ Less(CalcValue(j, time), One)
  BY DEF IsCancelCandidate
<1>3. ~ Less(value, One)
  BY <1>1, <1>2 DEF CalcValue, PossibleFailHistoryValue
<1> SUFFICES ASSUME t \in Constrained PROVE value[1] >= taskset[t].m
  BY <1>1, <1>2 DEF Affordable
<1>4. PICK k, m : k = taskset[t].k /\ m = taskset[t].m
  OBVIOUS
<1>5. t \in Tasks /\ k \in Nat \ {0} /\ m \in Nat /\ AggregatorOK(a, k) /\ a.m = m
  <2>1. t \in Tasks /\ k > 0
    BY <1>4 DEF Constrained
  <2>2. taskset[t] \in TaskRecord
    BY <2>1, TaskParameters
  <2> QED
    BY <1>1, <1>4, <2>1, <2>2 DEF TaskRecord, AggregatorsOK, WindowsAgree
<1>6. a.class = "UAWMK"
  BY <1>5, AggregatorParts
<1>7. value[2] = m
  BY <1>1, <1>5, <1>6 DEF PredictUtility, PredictMk
<1>8. value[1] \in Nat
  <2>1. 0 \in Bit
    BY DEF Bit
  <2>2. value \in Nat \X Nat
    BY <1>1, <1>5, <2>1, PredictUtilityType
  <2> QED
    BY <2>2
<1>9. PICK x : x = value[1]
  OBVIOUS
<1>10. ~ (x * 1 < 1 * m)
  BY <1>3, <1>7, <1>9 DEF Less, One
<1> QED
  BY <1>4, <1>5, <1>8, <1>9, <1>10

\* The monitor of a relaxed task agrees.
LEMMA HookAgrees ==
  ASSUME TypeOK, AggregatorsOK, WindowsAgree, PatternsRelaxed, NEW j, j[1] \in Tasks,
         Affordable(j[1]), NEW mon,
         mon = IF taskset[j[1]].k > 0
               THEN Push(monitor[j[1]], taskset[j[1]].m, taskset[j[1]].k, 0) ELSE monitor[j[1]]
  PROVE  CancelHook(j, mon)
<1>1. PICK t, ts : t = j[1] /\ ts = taskset[t]
  OBVIOUS
<1>2. t \in Tasks /\ ~ (ts.model = "mkp" /\ ~ ts.relaxed)
  BY <1>1 DEF PatternsRelaxed
<1> SUFFICES ASSUME ts.k > 0 PROVE IsStateValid(mon, ts.m, ts.k)
  BY <1>1, <1>2 DEF CancelHook
<1>3. PICK k, m, old, a : k = ts.k /\ m = ts.m /\ old = monitor[t] /\ a = ua[t]
  OBVIOUS
<1>4. t \in Constrained
  BY <1>1, <1>2 DEF Constrained
<1>5. /\ k \in Nat \ {0} /\ m \in Nat /\ old \in Monitors(k) /\ AggregatorOK(a, k)
      /\ Agree(old, a, k)
  <2>1. ts \in TaskRecord
    BY <1>1, <1>2, TaskParameters
  <2>2. k \in Nat \ {0} /\ m \in Nat
    BY <1>3, <2>1 DEF TaskRecord
  <2> QED
    BY <1>1, <1>2, <1>3, <1>4, <2>2 DEF TypeOK, AggregatorsOK, WindowsAgree
<1>6. PredictUtility(a, 0)[1] >= m
  BY <1>1, <1>3, <1>4 DEF Affordable
<1>7. mon = Push(old, m, k, 0)
  BY <1>1, <1>3
<1> QED
  BY <1>3, <1>5, <1>6, <1>7, PredictionHolds

\* Two jobs that were given up together are not of the same task.
LEMMA CancelAffordable ==
  ASSUME OEDFInv, PatternsRelaxed, WindowsAgree, AllButOneStarted, GivenUpAffordable, rv,
         CancelJob, CancelUtility, pc = "cancelSchedule"
  PROVE  rv' /\ GivenUpAffordable'
<1>1. PICK j : j = Head(cancelled)
  OBVIOUS
<1>2. /\ TypeOK /\ AggregatorsOK /\ IsInjective(cancelled) /\ Range(cancelled) \subseteq DOMAIN job
      /\ cancelled # << >> /\ cancelled \in Seq(JobIds)
  BY DEF OEDFInv, IInv, SchedInv, JobsHeld, CancelJob, TypeOK
<1>3. /\ j \in Range(cancelled) /\ j[1] \in Tasks
      /\ Range(Tail(cancelled)) = Range(cancelled) \ {j} /\ DOMAIN job' = DOMAIN job \ {j}
      /\ \A i \in DOMAIN job' : job'[i] = job[i]
      /\ config' = config /\ taskset' = taskset /\ pc' = pc
  <2>1. TypeOK /\ JobsNumbered /\ StepsLeft /\ IInv
    BY DEF OEDFInv, IInv, SchedInv
  <2> QED
    BY <1>1, <1>2, <2>1, CancelJobCore, CancelledJob
<1>4. \A i \in Range(cancelled) : ~ MustStillExecute(i) /\ Affordable(i[1])
  BY DEF GivenUpAffordable
<1>5. rv'
  <2>1. PICK mon : /\ mon = (IF taskset[j[1]].k > 0
                             THEN Push(monitor[j[1]], taskset[j[1]].m, taskset[j[1]].k, 0)
                             ELSE monitor[j[1]])
                   /\ rv' = CancelResult(j, mon)
    BY <1>1 DEF CancelJob
  <2>2. CancelHook(j, mon)
    BY <1>2, <1>3, <1>4, <2>1, HookAgrees
  <2> QED
    BY <2>1, <2>2 DEF CancelResult
<1>6. ASSUME NEW i \in Range(cancelled')
      PROVE  ~ MustStillExecute(i)' /\ Affordable(i[1])'
  <2>1. i \in Range(cancelled) /\ i # j /\ i \in DOMAIN job /\ j \in DOMAIN job
    BY <1>2, <1>3 DEF CancelJob
  <2>2. ~ MustStillExecute(i) /\ ~ MustStillExecute(j) /\ Affordable(i[1])
    BY <1>3, <1>4, <2>1
  <2>3. i[1] # j[1]
    BY <2>1, <2>2 DEF AllButOneStarted
  <2>4. ~ MustStillExecute(i)'
    BY <1>3, <2>1, <2>2 DEF MustStillExecute, Started
  <2>5. i[1] \in Tasks
    BY <1>2, <2>1 DEF TypeOK, JobIds
  <2>6. ua'[i[1]] = ua[i[1]]
    BY <1>1, <1>2, <2>3, <2>5 DEF CancelUtility, AggregatorsOK
  <2> QED
    BY <1>3, <2>2, <2>4, <2>6 DEF Affordable, Constrained, Tasks
<1> QED
  BY <1>3, <1>5, <1>6 DEF GivenUpAffordable

LEMMA StepGivenUp ==
  ASSUME OEDFInv, CallInv, Judged, MkuInv, OEDFStep
  PROVE  GivenUpAffordable' /\ (pc' # "cancelInit" => rv')
<1>0. /\ TypeOK /\ AggregatorsOK /\ variant = "MKUEDF" /\ variant \in OEDFVariants
      /\ PatternsRelaxed /\ WindowsAgree /\ AllButOneStarted /\ GivenUpAffordable
      /\ (pc # "cancelInit" => rv) /\ cancelled \in Seq(JobIds) /\ Range(<< >>) = {}
  <2>1. Range(<< >>) = {}
    BY EmptySeq DEF Range
  <2> QED
    BY <2>1 DEF OEDFInv, IInv, TypeOK, Judged, MkuInv, OEDFVariants, MaxVariants
<1>1. CASE Repair
  <2>1. /\ pc = "schedule" /\ pc' = pc /\ rv' = rv
        /\ UNCHANGED <<config, taskset, job, ua>>
    BY <1>1 DEF Repair, fixed
  <2>2. \A i \in Range(cancelled') : ~ MustStillExecute(i) /\ Affordable(i[1])
    <3>1. \A i \in Range(cancelled) : ~ MustStillExecute(i) /\ Affordable(i[1])
      BY <1>0, <2>1 DEF GivenUpAffordable
    <3>2. CASE Candidates(Min(Misses)) = {}
      <4>1. cancelled' = cancelled
        BY <1>1, <3>2 DEF Repair
      <4> QED
        BY <3>1, <4>1
    <3>3. CASE Candidates(Min(Misses)) # {}
      <4>1. PICK j \in Range(mySchedule) :
              /\ cancelled' = Append(cancelled, j)
              /\ \E time : IsCancelCandidate(j, CalcValue(j, time))
        BY <1>0, <1>1, <3>3, RepairCancels
      <4>2. j \in DOMAIN job /\ j \in JobIds
        BY DEF OEDFInv, IInv, TypeOK, SchedInv, JobsHeld
      <4>3. ~ MustStillExecute(j) /\ Affordable(j[1])
        BY <1>0, <4>1, <4>2, CandidateAffordable
      <4>4. Range(Append(cancelled, j)) = Range(cancelled) \cup {j}
        BY <1>0, <4>2, AppendRange
      <4> QED
        BY <3>1, <4>1, <4>3, <4>4
    <3> QED
      BY <3>2, <3>3
  <2>3. \A i : (MustStillExecute(i)' <=> MustStillExecute(i)) /\ (Affordable(i[1])' <=> Affordable(i[1]))
    BY <2>1 DEF MustStillExecute, Started, Affordable, Constrained, Tasks
  <2> QED
    BY <1>0, <2>1, <2>2, <2>3 DEF GivenUpAffordable
<1>2. CASE RepairDone
  <2>1. /\ pc = "schedule" /\ pc' \in {"cancelSchedule", "dispatch"} /\ rv' = rv
        /\ UNCHANGED <<config, taskset, job, ua, cancelled>>
    BY <1>2 DEF RepairDone, ScheduleDone, PerformCancellations, fixed
  <2>2. \A i : (MustStillExecute(i)' <=> MustStillExecute(i)) /\ (Affordable(i[1])' <=> Affordable(i[1]))
    BY <2>1 DEF MustStillExecute, Started, Affordable, Constrained, Tasks
  <2> QED
    BY <1>0, <2>1, <2>2 DEF GivenUpAffordable
<1>3. CASE CancelJob /\ CancelUtility
  <2>1. CASE pc = "cancelSchedule"
    BY <1>0, <1>3, <2>1, CancelAffordable
  <2>2. CASE pc # "cancelSchedule"
    <3>1. pc' = "cancelInit"
      BY <1>3, <2>2 DEF CancelJob
    <3> QED
      BY <3>1 DEF GivenUpAffordable
  <2> QED
    BY <2>1, <2>2
<1>4. CASE CancelDone
  <2>1. cancelled' = << >> /\ rv' = TRUE
    BY <1>4 DEF CancelDone
  <2> QED
    BY <1>0, <2>1 DEF GivenUpAffordable
<1>5. CASE InitStepDone
  <2>1. /\ pc # "cancelInit" /\ rv' = rv
        /\ pc' = "cancelInit" \/ cancelled' = << >>
    BY <1>5 DEF InitStepDone, PerformCancellations
  <2>2. pc' = "cancelInit" => pc' \notin {"activate", "schedule", "cancelSchedule"}
    OBVIOUS
  <2> QED
    BY <1>0, <2>1, <2>2 DEF GivenUpAffordable
<1>6. CASE Activate \/ NotYetActive
  <2>1. pc = "activate" /\ cancelled' = cancelled /\ rv' = rv /\ pc' \in {"activate", "schedule"}
    BY <1>6 DEF Activate, SpawnJob, NotYetActive, Advance
  <2>2. cancelled' = << >>
    BY <1>0, <2>1 DEF GivenUpAffordable
  <2> QED
    BY <1>0, <2>1, <2>2 DEF GivenUpAffordable
<1>7. CASE MissKept \/ MissDropped \/ Idle \/ Execute \/ Complete
  <2>1. rv' = rv /\ pc # "cancelInit" /\ pc' \in {"api", "initStep"}
    BY <1>7 DEF MissKept, MissDropped, Idle, Execute, Complete, IdleStep, ExecuteStep, CompleteStep,
                StepEnd, StepEndWith
  <2> QED
    BY <1>0, <2>1 DEF GivenUpAffordable
<1> QED
  BY <1>1, <1>2, <1>3, <1>4, <1>5, <1>6, <1>7 DEF OEDFStep

LEMMA StepMku ==
  ASSUME OEDFInv, OEDFInv', CallInv, Judged, MkuInv, OEDFStep
  PROVE  MkuInv'
<1>1. /\ IInv /\ IInv' /\ TypeOK /\ TypeOK' /\ AggregatorsOK /\ variant = "MKUEDF"
      /\ OneJobAtATime
      /\ WindowsAgree /\ LateAreStarted /\ AllButOneStarted /\ ReleasesApart
      /\ ActivationsAhead /\ GivenUpAffordable
  BY DEF OEDFInv, IInv, Judged, MkuInv
<1>2. WindowsAgree' /\ ActivationsAhead' /\ GivenUpAffordable' /\ (pc' # "cancelInit" => rv')
  BY <1>1, StepAgrees, StepAhead, StepGivenUp
<1>3. LateAreStarted' /\ AllButOneStarted' /\ ReleasesApart'
  <2>1. CASE Activate
    BY <1>1, <2>1, ActivateJudged
  <2>2. CASE ~ Activate
    <3>1. JobsKept /\ \A t \in Tasks : task'[t].next = task[t].next
      BY <1>1, <2>2, OtherStepsKeepJobs
    <3>2. LateAreStarted'
      BY <1>1, <2>2, LateStay
    <3> QED
      BY <1>1, <3>1, <3>2, JudgedKept
  <2> QED
    BY <2>1, <2>2
<1> QED
  BY <1>2, <1>3 DEF MkuInv

\* Calls, and the end
LEMMA CallMku ==
  ASSUME TypeOK, CallInv, MkuInv, UNCHANGED owned,
         \/ \E pending \in BOOLEAN : FinaliseWith(pending)
         \/ \E steps \in RunSteps : Run(steps)
         \/ UNCHANGED vars
  PROVE  MkuInv'
<1>1. /\ UNCHANGED <<config, taskset, job, task, monitor, ua, now, cancelled, execMissJobs, rv, index>>
      /\ \/ pc' = pc
         \/ pc = "api" /\ pc' = "initStep"
      /\ \/ mode' = mode
         \/ mode' = "finalise"
         \/ pc = "api" /\ pc' = "initStep" /\ ~ finalised
  BY DEF FinaliseWith, Run, vars, owned, oedf, fixed, sched, tasks
<1>2. WindowsAgree' /\ LateAreStarted' /\ AllButOneStarted' /\ ReleasesApart'
  BY <1>1 DEF MkuInv, WindowsAgree, LateAreStarted, AllButOneStarted, ReleasesApart,
              MustStillExecute, Started, Activation, Gap, Constrained, Tasks
<1>3. ActivationsAhead'
  <2>1. CASE mode' = "finalise"
    BY <2>1 DEF ActivationsAhead
  <2>2. CASE mode' = mode
    BY <1>1, <2>2 DEF MkuInv, ActivationsAhead, Tasks
  <2>3. CASE pc = "api" /\ pc' = "initStep" /\ ~ finalised
    <3>1. mode # "finalise"
      BY <2>3 DEF CallInv
    <3> QED
      BY <1>1, <2>3, <3>1 DEF MkuInv, ActivationsAhead, Tasks
  <2> QED
    BY <1>1, <2>1, <2>2, <2>3
<1>4. GivenUpAffordable'
  BY <1>1 DEF MkuInv, GivenUpAffordable, MustStillExecute, Started, Affordable, Constrained, Tasks
<1> QED
  BY <1>1, <1>2, <1>3, <1>4 DEF MkuInv

LEMMA InitMku == OverloadInit => MkuInv
<1> SUFFICES ASSUME OverloadInit PROVE MkuInv
  OBVIOUS
<1>1. /\ pc = "api" /\ mode = "none" /\ now = 0 /\ rv = TRUE /\ job = << >> /\ DOMAIN job = {}
      /\ task = [t \in Tasks |-> Start(taskset[t], 0)]
      /\ monitor = [t \in Tasks |->
                      NewMonitor(taskset[t].k,
                                 [i \in 0 .. taskset[t].k - 1 |-> taskset[t].init[i + 1]])]
      /\ ua = [t \in Tasks |-> AggregatorOf(taskset[t])]
  BY EmptySeq DEF OverloadInit, Init, SchedulerInit, OEDFInit
<1>2. TypeOK
  BY InitInv DEF OverloadInit, IInv
<1>3. WindowsAgree
  <2> SUFFICES ASSUME NEW t \in Constrained
               PROVE  Agree(monitor[t], ua[t], taskset[t].k) /\ ua[t].m = taskset[t].m
    BY DEF WindowsAgree
  <2>1. PICK ts, k : ts = taskset[t] /\ k = ts.k
    OBVIOUS
  <2>2. t \in Tasks /\ k # 0 /\ ts \in TaskRecord /\ Len(ts.init) = k
    BY <1>2, <2>1, TaskParameters DEF Constrained
  <2>3. k \in Nat /\ ts.init \in Seq(Bit)
    BY <2>1, <2>2 DEF TaskRecord
  <2>4. PICK bits : bits = [i \in 0 .. k - 1 |-> ts.init[i + 1]]
    OBVIOUS
  <2>5. bits \in [0 .. k - 1 -> Bit]
    <3>1. \A i \in 0 .. k - 1 : i + 1 \in 1 .. Len(ts.init)
      BY <2>2, <2>3
    <3> QED
      BY <2>3, <2>4, <3>1, ElementOfSeq
  <2>6. Agree(NewMonitor(k, bits), AggregatorOf(ts), k) /\ AggregatorOf(ts).m = ts.m
    BY <2>1, <2>2, <2>5, AgreeAtStart, NewWindow
  <2> QED
    BY <1>1, <2>1, <2>2, <2>4, <2>6
<1>4. ActivationsAhead
  <2> SUFFICES ASSUME NEW t \in Tasks PROVE task[t].next >= 0
    BY <1>1 DEF ActivationsAhead
  <2>1. taskset[t].first \in Nat
    BY <1>2, TaskParameters DEF TaskRecord
  <2>2. task[t].next = 0 + taskset[t].first
    BY <1>1 DEF Start
  <2> QED
    BY <2>1, <2>2
<1> QED
  BY <1>1, <1>3, <1>4
  DEF MkuInv, LateAreStarted, AllButOneStarted, ReleasesApart, GivenUpAffordable

\* A simulation keeps its scheduler, so that it is judged for good or never.
OverMku == CallInv /\ (Judged => MkuInv)

LEMMA OverNextMku ==
  OverInv /\ OverInv' /\ OverMku /\ [OverloadNext]_<<vars, owned>> => OverMku'
<1> SUFFICES ASSUME OverInv, OverInv', OverMku, [OverloadNext]_<<vars, owned>>
             PROVE  OverMku'
  OBVIOUS
<1>1. TypeOK /\ CallInv
  BY DEF OEDFVariants, MaxVariants, MinVariants, OverInv, OEDFInv, IInv, SchedInv, GDPAInv,
         Queued, GDPASInv, OverMku
<1>2. CallInv'
  BY <1>1, OverCalls
<1>3. variant' = variant /\ (Judged' => Judged)
  <2>1. config' = config /\ taskset' = taskset
    BY OverKeepsConfig
  <2>2. variant' = variant
    BY DEF OverloadNext, OverloadStep, OverloadCall, OEDFStep, OEDFCall, Repair, RepairDone,
           Finished, CallerStops, owned, oedf,
           GDPACall, GDPASCall
  <2> QED
    BY <2>1, <2>2 DEF Judged, OneJobAtATime, PatternsRelaxed, Tasks
<1>4. SUFFICES ASSUME Judged, MkuInv PROVE MkuInv'
  BY <1>2, <1>3 DEF OverMku
<1>5. /\ variant = "MKUEDF" /\ variant \in OEDFVariants /\ variant # "GDPA" /\ variant # "GDPA-S"
      /\ OEDFInv /\ OEDFInv'
  <2>1. variant = "MKUEDF" /\ "MKUEDF" \in OEDFVariants
    BY <1>4 DEF Judged, OEDFVariants, MaxVariants
  <2> QED
    BY <1>3, <2>1 DEF OverInv
<1>6. CASE OEDFStep
  BY <1>1, <1>4, <1>5, <1>6, StepMku
<1>7. CASE OverloadCall \/ UNCHANGED <<vars, owned>> \/ (Finished /\ UNCHANGED owned) \/ CallerStops
  <2>1. /\ \/ \E pending \in BOOLEAN : FinaliseWith(pending)
           \/ \E steps \in RunSteps : Run(steps)
           \/ UNCHANGED vars
        /\ UNCHANGED owned
    BY <1>7 DEF OverloadCall, OEDFCall, GDPACall, GDPASCall, Call, Finalise, HasPendingJobs,
                Pending, Finished, CallerStops, owned
  <2> QED
    BY <1>1, <1>4, <2>1, CallMku
<1> QED
  BY <1>5, <1>6, <1>7 DEF OverloadNext, OverloadStep

\* MKUEDF::schedule gives up a job only if the window of its task's aggregator can
\* take one more failure.  The window never counts a success that the task's monitor
\* does not count, and a call gives up at most one job of each task, so the monitor
\* is content after every job that schedule() gives up.
THEOREM OverloadMKUKeepsConstraints == OverloadSpec => []MKUKeepsConstraints
<1>1. OverloadInit => OverMku
  <2>1. OverloadInit => OptimalInv
    BY InitOptimal DEF OverloadInit
  <2> QED
    BY <2>1, InitMku DEF OptimalInv, OverMku
<1>2. OverloadSpec => []OverMku
  BY <1>1, OverNextMku, OverloadInv, PTL DEF OverloadSpec
<1>3. OverMku => MKUKeepsConstraints
  BY DEF OverMku, Judged, MkuInv, MKUKeepsConstraints
<1> QED
  BY <1>2, <1>3, PTL
=============================================================================
