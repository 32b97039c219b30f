------------------------------ MODULE MCOverload ------------------------------
EXTENDS Reports, TaskModels

Mk(period, et, ct, m, k) == MkTask(period, et, ct, 0, m, k, 0, [i \in 1 .. k |-> 1])

Periodic(offset, period, et, ct) == PeriodicTask(period, et, ct, offset, 0)

MCTasksets ==
  { <<Mk(3, e, 3, 1, 2), Mk(4, 3, 4, 1, 2)>> : e \in {1, 2} }
  \cup
  { <<Mk(2, 1, 2, 1, 2), Mk(3, 1, d, 2, 3), Mk(4, 2, 4, 1, 2)>> : d \in {3, 4} }
  \cup
  { <<MkpTask(3, 2, 3, 0, 1, 2, 0, FALSE, <<1, 1>>, relaxed), Mk(4, 3, 4, 1, 2)>> :
      relaxed \in BOOLEAN }
  \cup
  { <<Periodic(o, 4, 4, 6), Mk(3, 1, 2, 1, 2)>> : o \in {0, 1} }
  \cup
  { <<Periodic(0, 2, 1, 2), Periodic(0, 4, 2, 4)>>,
    <<Periodic(0, 12, 6, 8), Periodic(1, 12, 2, 3), Periodic(2, 12, 1, 6)>>,
    <<Mk(3, 2, 3, 2, 3), Mk(3, 2, 3, 2, 3), Mk(4, 1, 4, 1, 2)>> }

MCConfigs == {c \in ConfigRecord : c.policy = "EDF" /\ c.exitOnCancel}

\* With dlMissCancellations off the monitor's order becomes arbitrary.
MCInit ==
  /\ OverloadInit /\ (config.dlMissCancellations \/ Len(taskset) = 2)
  /\ VisInit /\ ReportsInit

MCSpec == MCInit /\ [][ReportsNext]_reportsVars /\ WF_reportsVars(ReportsStep)
=============================================================================
