---------------------------- MODULE MCFeasibility ----------------------------
EXTENDS Feasibility

\* (m,k)-firm tasks by increasing period, which is also their deadline; the first is spun
Firm(i, period, et, m, k) ==
  MkTask(period, et, period, i, m, k, IF i = 0 THEN 1 ELSE 0, [n \in 1 .. k |-> 1])

MCGenerated ==
  { <<Firm(0, 2, e1, c1[1], c1[2]), Firm(1, p, e2, c2[1], c2[2])>> :
      e1 \in {1, 2}, p \in {3, 4}, e2 \in {1, 2, 3}, c1 \in {<<1, 2>>}, c2 \in {<<1, 2>>, <<2, 3>>} }
  \cup
  { <<Firm(0, 2, 2, 2, 2), Firm(1, 4, 1, 1, 2)>>,
    <<Firm(0, 3, 2, 2, 3), Firm(1, 3, 2, 1, 2)>>,
    <<Firm(0, 2, 1, 1, 2), Firm(1, 3, 1, 1, 2), Firm(2, 4, 2, 1, 2)>> }

MCTasksets == {Allocate(a, ts) : a \in DOMAIN Allocators, ts \in MCGenerated}

MCConfigs == {c \in ConfigRecord : c.exitOnCancel /\ c.execCancellations /\ c.dlMissCancellations}
=============================================================================
