---------------------------- MODULE MCSimulation ----------------------------
EXTENDS Simulation, TaskModels

Periodic(offset, period, et, ct, prio) == PeriodicTask(period, et, ct, offset, prio)

\* (m,k)-firm tasks whose window starts with the same value everywhere, ...
Window(k, initial) == [i \in 1 .. k |-> initial]

MkFirm(period, et, prio, m, k, initial) ==
  MkTask(period, et, period, prio, m, k, 0, Window(k, initial))

\* ... whose jobs have priorities by their distance to failure and which ignore the
\* initial state, ...
DistanceBased(period, et, prio, m, k) ==
  DbpTask(period, et, period, prio, m, k, Window(k, 0))

\* ... or by a pattern
Patterned(period, et, prio, m, k, initial, spin, relaxed) ==
  MkpTask(period, et, period, prio, m, k, spin, TRUE, Window(k, initial), relaxed)

MCTasksets ==
  { <<Periodic(o, 3, e1, 3, p), Periodic(0, 4, e2, 4, 1 - p)>> :
      o \in {0, 1}, e1 \in 1 .. 3, e2 \in 1 .. 3, p \in {0, 1} }
  \cup
  { <<Periodic(o, 2, 1, 2, p), Periodic(0, 4, 2, c, 1 - p)>> :
      o \in {0, 1}, c \in {3, 4}, p \in {0, 1} }
  \cup
  { <<Periodic(1, 3, 1, 2, p), Periodic(0, 4, 3, c, 1 - p)>> : c \in {1, 2}, p \in {0, 1} }
  \cup
  { <<MkFirm(2, e, 0, 1, 2, v), MkFirm(3, f, 1, 1, 2, 1), SporadicTask(4, 1, d, 0, 2, 1)>> :
      e \in {1, 2}, f \in {1, 2}, d \in {2, 5}, v \in {0, 1} }
  \cup
  { <<DistanceBased(2, 1, 0, 1, 2), DistanceBased(3, e, 1, 2, 3)>> :
      e \in {2, 3} }
  \cup
  { <<Patterned(2, e, 0, 1, 2, 1, s, r), Patterned(3, 2, 1, 2, 3, 0, 0, r)>> :
      e \in {1, 2}, s \in {0, 1}, r \in BOOLEAN }
  \cup
  { <<SPTask(3, 1, 3, 1, 0, 1), Periodic(0, 4, 3, 4, 1)>> }

\* With dlMissCancellations off every late job leaves a dangling entry in the
\* monitor, whose order is arbitrary from then on: a few tasksets are enough.
Lightly(ts) ==
  /\ Len(ts) = 2 /\ ts[1].first = 0 /\ ts[1].et + ts[2].et <= 4
  /\ \A t \in DOMAIN ts : ts[t].model = "plain"

\* The configurations in which each of the comments can be put to the test
CancelConfigs == {c \in ConfigRecord : c.dlMissCancellations /\ c.exitOnCancel}
LateConfigs == {c \in ConfigRecord : ~ c.dlMissCancellations}

MCInit == Init /\ (config.dlMissCancellations \/ Lightly(taskset))

MCSpec == MCInit /\ [][Next]_vars /\ WF_vars(Step)
=============================================================================
