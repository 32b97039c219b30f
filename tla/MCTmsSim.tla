------------------------------- MODULE MCTmsSim -------------------------------
EXTENDS TmsSim

Read(name, t) == [class |-> name, task |-> t]

MCFiles ==
  { <<Read("sporadictask", SporadicTask(3, 1, 3, 1, 0, 1)),
      Read("sptask", SPTask(4, 1, 4, 0, 1, 1)), last>> :
      last \in { Read("periodictask", PeriodicTask(4, 2, 4, o, 2)) : o \in {0, 2} }
               \cup { Read("mktask", MkTask(4, 2, 4, 2, 1, 2, 0, <<1, 1>>)) } }

MCTasksets == {CloneAll(file) : file \in MCFiles}
===============================================================================
