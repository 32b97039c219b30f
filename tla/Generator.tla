------------------------------ MODULE Generator ------------------------------
(***************************************************************************)
(* mkeval/abstractmktaskset.cpp and mkeval/mkgenerator.cpp: how the drawn  *)
(* numbers become an (m,k) taskset.  A taskset is a sequence of records    *)
(* period, k, m, wc (the drawn weight) and, once they are computed, et     *)
(* (the member c) and spin; its order is that of the priorities.           *)
(* Utilisations are rationals <<numerator, denominator>>; the code takes   *)
(* float and double, whose rounding is left out.                           *)
(***************************************************************************)
EXTENDS MkMonitor, TmsMath, PeriodGenerators

\* produceInt: rnd is anything from 0 to RAND_MAX, and rnd \div (RAND_MAX \div len)
\* reaches len.
ProduceInt(min, max) == min .. max + 1

\* The draws for one task with the drawn period: AbstractMkTaskset's minM is a
\* percentage, <<0, 1>> where the configuration has none (and in MkGenerator).
\* produceInt() asserts min < max.
Draws(cfg, periods) ==
  LET least(k) == Max({1, (2 * k * cfg.minM[1] + cfg.minM[2]) \div (2 * cfg.minM[2])})
      ms(k) == IF least(k) = k THEN {k} ELSE ProduceInt(least(k), k)
  IN  UNION { [period : periods, k : {k}, m : ms(k), wc : ProduceInt(1, cfg.maxWC)] :
                k \in ProduceInt(cfg.minK, cfg.maxK) }

\* The loop that inserts a task before the first whose period is not shorter
Inserted(ts, t) ==
  InsertAt(ts, 1 + Cardinality({i \in DOMAIN ts : ts[i].period < t.period}), t)

InRateMonotonicOrder(draws) == FoldLeft(Inserted, << >>, draws)

\* calculateExecutionTimes: the utilisation u is shared out by the weights.
ExecutionTimes(ts, u) ==
  LET sumWC == MapThenSumSet(LAMBDA i : ts[i].wc, DOMAIN ts)
      ch(i) == (2 * u[1] * ts[i].period * ts[i].wc + u[2] * sumWC) \div (2 * u[2] * sumWC)
  IN  [i \in DOMAIN ts |->
         [period |-> ts[i].period, k |-> ts[i].k, m |-> ts[i].m, wc |-> ts[i].wc,
          et |-> Max({1, ch(i)}), spin |-> 0]]

\* The sum of rationals over a common denominator
Common(ts) == FoldLeft(LAMBDA d, t : d * t.period * t.k, 1, ts)

RealUtilisation(ts) ==
  << MapThenSumSet(LAMBDA i : (ts[i].et * Common(ts)) \div ts[i].period, DOMAIN ts),
     Common(ts) >>

MkUtilisation(ts) ==
  << MapThenSumSet(
       LAMBDA i : ((ts[i].et * Common(ts)) \div (ts[i].period * ts[i].k)) * ts[i].m, DOMAIN ts),
     Common(ts) >>

Within(u, cfg) ==
  LET scaled == u[1] * cfg.u[2] * cfg.dev[2]
      target == u[2] * cfg.u[1] * cfg.dev[2]
  IN  Abs(scaled - target) <= u[2] * cfg.u[2] * cfg.dev[1]

\* One round of the constructor's loop, and whether it is the last one
AbstractTasks(draws, cfg) == ExecutionTimes(InRateMonotonicOrder(draws), cfg.u)

TsValid(ts, cfg) ==
  /\ MkUtilisation(ts)[1] <= MkUtilisation(ts)[2]
  /\ Within(RealUtilisation(ts), cfg)
-----------------------------------------------------------------------------
(* MkGenerator: the sufficient test and the rotation of the patterns *)

CeilDiv(a, b) == (a + b - 1) \div b

\* Mutant: a task's mandatory jobs are rounded down.
TestSufficientSchedulabilityFloor(ts) ==
  \A i \in DOMAIN ts :
    ts[i].et + MapThenSumSet(
                 LAMBDA j : ts[j].et * ((ts[j].m * CeilDiv(ts[i].period, ts[j].period)) \div ts[j].k),
                 1 .. i - 1) <= ts[i].period

\* testSufficientSchedulability
TestSufficientSchedulability(ts) ==
  \A i \in DOMAIN ts :
    ts[i].et + MapThenSumSet(
                 LAMBDA j : ts[j].et * CeilDiv(ts[j].m * CeilDiv(ts[i].period, ts[j].period), ts[j].k),
                 1 .. i - 1) <= ts[i].period

\* calcExecutionInterference: the most that the mandatory jobs of th take of the
\* period of one of ti's, over all alignments of the two that their patterns' cycles
\* allow.  Job s of th was released before the period, job t is the last released
\* in it.  The copies MkpTask(ti) and MkpTask(th) have no rotation.
CalcExecutionInterference(ti, th) ==
  LET g          == CalculateGcd(ti.k * ti.period, th.k * th.period)
      mand(n)    == n >= 0 /\ IsJobMandatory(n, th.m, th.k, 0)
      first(x)   == IF x = 0 THEN -1 ELSE x \div th.period
      last(x)    == (x + ti.period) \div th.period
      carried(x) == IF mand(first(x)) THEN Max({0, th.et + first(x) * th.period - x}) ELSE 0
      tail(x)    == IF mand(last(x))
                    THEN Min({th.et, x + ti.period - last(x) * th.period}) ELSE 0
      whole(x)   == Cardinality({n \in first(x) + 1 .. last(x) - 1 : mand(n)})
      starts     == { x \in 0 .. th.k * th.period - 1 :
                        \E j \in 0 .. ti.k - 1 : /\ IsJobMandatory(j, ti.m, ti.k, 0)
                                                 /\ x % g = (j * ti.period) % g }
  IN  Max({0} \cup {carried(x) + whole(x) * th.et + tail(x) : x \in starts})

\* The distance, doubled, of val to the nearest (2q + 1) * g / 2
Distance(val, g) == LET r == (2 * val - g) % (2 * g) IN Min({r, 2 * g - r})

\* The body of calcRotationValues' loop, for task i and the tasks psi, in the order
\* in which they got their rotation.  A task whose cycle shares no divisor with
\* task i's is ignored; if all are, task i keeps what it has.
Rotated(ts, i, psi) ==
  LET g(j)    == CalculateGcd(ts[i].k * ts[i].period, ts[j].k * ts[j].period)
      omega   == {p \in DOMAIN psi : g(psi[p]) # 1}
      fji(p)  == CalcExecutionInterference(ts[i], ts[psi[p]])
      j       == psi[Min({p \in omega : \A o \in omega : fji(o) <= fji(p)})]
      back(t, s) == ((t.k - s) % t.k) * t.period
      dist(l) == Distance(Abs(back(ts[i], l) - back(ts[j], ts[j].spin)), g(j))
      ls      == 0 .. ts[i].k - 1
  IN  IF psi = << >> THEN [ts EXCEPT ![i].spin = 0]
      ELSE IF omega = {} THEN ts
      ELSE [ts EXCEPT ![i].spin = Min({l \in ls : \A o \in ls : dist(l) <= dist(o)})]

\* calcRotationValues: always the first of the remaining tasks with the smallest k
CalcRotationValues(ts) ==
  LET order == SetToSortSeq(DOMAIN ts, LAMBDA a, b : \/ ts[a].k < ts[b].k
                                                     \/ ts[a].k = ts[b].k /\ a < b)
  IN  FoldLeftDomain(LAMBDA done, n : Rotated(done, order[n], SubSeq(order, 1, n - 1)),
                     ts, order)

\* nextTaskset, of draws whose utilisation lets it leave its loop
NextTaskset(draws, cfg) ==
  LET ts == AbstractTasks(draws, cfg)
  IN  IF TestSufficientSchedulability(ts) THEN CalcRotationValues(ts) ELSE ts

\* getMkpFeasibilityPeriod, the time that mkdse logs and MkpSimulation simulates
GetMkpFeasibilityPeriod(ts) ==
  FoldLeft(LAMBDA l, t : CalculateLcm(CalculateLcm(l, t.period), t.k), 1, ts)

\* setUtilisation, getMkTasks
GetMkTasks(ts, u) == CalcRotationValues(ExecutionTimes(ts, u))
=============================================================================
