------------------------------ MODULE MkMonitor ------------------------------
(***************************************************************************)
(* taskmodels/mkmonitor.cpp: the ring buffer that watches an (m,k)         *)
(* constraint, as operators on a record, and what the (m,k) task models    *)
(* compute from it.  vals is indexed 0 .. k - 1; pos                       *)
(* is the oldest entry.  recorded is compared with k only, so it stops     *)
(* growing at k.                                                           *)
(***************************************************************************)
EXTENDS Integers, FiniteSets

Bit == {0, 1}

Monitors(k) ==
  { mon \in [vals : [0 .. k - 1 -> Bit], pos : Nat, sum : Int, recorded : Nat,
             violations : Nat] : k > 0 => mon.pos < k }

\* The sum of the entries at the given positions
Successes(vals, positions) == Cardinality({i \in positions : vals[i] = 1})

\* MkMonitor::MkMonitor; bits is the initial state, least significant bit first.
NewMonitor(k, bits) ==
  [vals |-> [i \in 0 .. k - 1 |-> bits[i]], pos |-> 0,
   sum |-> Successes(bits, 0 .. k - 1),
   recorded |-> 0, violations |-> 0]

\* MkMonitor::push
Push(mon, m, k, val) ==
  LET sum      == mon.sum - mon.vals[mon.pos] + val
      recorded == IF mon.recorded < k THEN mon.recorded + 1 ELSE k
      violated == recorded >= k /\ sum < m
  IN  [vals       |-> [mon.vals EXCEPT ![mon.pos] = val],
       pos        |-> IF mon.pos + 1 >= k THEN 0 ELSE mon.pos + 1,
       sum        |-> sum,
       recorded   |-> recorded,
       violations |-> mon.violations + (IF violated THEN 1 ELSE 0)]

\* MkMonitor::getCurrentSum: until k values have been recorded, the entries
\* from pos on are still initial ones, and each counts as a success.
GetCurrentSum(mon, k) ==
  IF mon.recorded < k
  THEN LET missing == k - mon.recorded
           initial == {(mon.pos + i) % k : i \in 0 .. missing - 1}
       IN  mon.sum - Successes(mon.vals, initial) + missing
  ELSE mon.sum

\* MkMonitor::isStateValid
IsStateValid(mon, m, k) == GetCurrentSum(mon, k) >= m

\* MkMonitor::getState and getReducedState, as the sequence of the bits from the
\* most significant one on: the oldest entry comes first, or is left out.
GetState(mon, k) == [i \in 1 .. k |-> mon.vals[(mon.pos + i - 1) % k]]

GetReducedState(mon, k) == [i \in 1 .. k - 1 |-> mon.vals[(mon.pos + i) % k]]

\* The positions of the i most recent entries
Newest(mon, k, i) == {(mon.pos - h) % k : h \in 1 .. i}

\* MkTask::calcL: the length of the shortest suffix of the window that holds
\* exactly m successes; k + 1 if there is none.
CalcL(mon, m, k) ==
  1 + Cardinality({ i \in 1 .. k :
    \A h \in 1 .. i : Successes(mon.vals, Newest(mon, k, h)) # m })

\* MkTask::getDistance
GetDistance(mon, m, k) == k - CalcL(mon, m, k) + 1

\* MkpTask::isJobMandatory: whether job n belongs to the pattern of mandatory
\* jobs, which is the evenly distributed one turned by spin.
IsJobMandatory(n, m, k, spin) ==
  LET i    == n + spin
      ceil == (i * m + k - 1) \div k
  IN  (ceil * k) \div m = i
=============================================================================
