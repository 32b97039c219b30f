------------------------------ MODULE MCTsEval ------------------------------
EXTENDS TsEval

\* Two producers and two consumers of tseval, and three of each with one choice of
\* periods, where a consumer may read two producers
Generating ==
  [numberOfProducers |-> 2, numberOfConsumers |-> 2, maxConsumerInputs |-> 2, maxWC |-> 3,
   producerPeriods |-> {7, 14}, consumerPeriods |-> {4, 7},
   producerUtilisation |-> <<2, 5>>, consumerUtilisation |-> <<2, 5>>]

Wide ==
  [Generating EXCEPT !.numberOfProducers = 3, !.numberOfConsumers = 3, !.maxWC = 2,
                     !.producerPeriods = {7}, !.consumerPeriods = {14},
                     !.producerUtilisation = <<1, 3>>, !.consumerUtilisation = <<1, 6>>]

MCTsConfigs == {Generating, Wide}

\* Task files of tsrun, also with equal priorities and with consumers that have
\* higher priorities than their producers; some with buffers of other sizes
XmlTask(period, et, prio) == [period |-> period, et |-> et, prio |-> prio]

MCXmlFiles ==
  { [nProducers |-> 2, bufferSize |-> <<2, 2>>, reads |-> (3 :> {1, 2}),
     tasks |-> << XmlTask(b, 1, p[1]), XmlTask(c, e, p[2]), XmlTask(d, f, p[3]) >>] :
      b \in {2, 3}, c \in {4, 5}, d \in {4, 6}, e \in {1, 2}, f \in {1, 2},
      p \in {<<0, 1, 2>>, <<1, 2, 0>>, <<1, 0, 1>>, <<2, 1, 0>>, <<1, 1, 1>>} }

MCXmlTasksets ==
  MCXmlFiles \cup
  { [x EXCEPT !.bufferSize = sizes] :
      x \in {f \in MCXmlFiles : f.tasks[1].period = 2 /\ f.tasks[1].prio = 0},
      sizes \in {<<3, 1>>, <<0, 4>>} }

MCTasksets == {s.tasks : s \in Systems}

DefaultConfigs ==
  { [policy |-> "FPP", execCancellations |-> TRUE, dlMissCancellations |-> TRUE,
     exitOnCancel |-> TRUE] }
=============================================================================
