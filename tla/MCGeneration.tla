---------------------------- MODULE MCGeneration ----------------------------
EXTENDS Generation

\* Utilisation 6/5, and a deviation wide enough for small periods
MCGenConfig ==
  [minPeriod |-> 4, maxPeriod |-> 8, minK |-> 2, maxK |-> 3, maxWC |-> 2,
   minM |-> <<0, 1>>, u |-> <<6, 5>>, dev |-> <<1, 6>>]

MCDraws == {d \in Draws(MCGenConfig, {4, 6}) : d.k <= 3 \/ d.wc = 1}

Task(period, k, m, wc) == [period |-> period, k |-> k, m |-> m, wc |-> wc]

\* One that is valid, one whose (m,k) utilisation is too high (m = k + 1), and one
\* whose execution times are rounded too far
MCSearchDraws ==
  { << Task(6, 2, 2, 1), Task(4, 3, 1, 2) >>,
    << Task(4, 2, 3, 2), Task(6, 2, 3, 2) >>,
    << Task(3, 2, 1, 1), Task(3, 2, 1, 1), Task(3, 2, 1, 1) >> }

\* Tasks that are drawn in another order than that of their periods are in the triples.
MCGeneratorDraws ==
  {<<a, b>> \in MCDraws \X MCDraws : a.period <= b.period}
    \cup { <<a, b, c>> : a \in {d \in MCDraws : d.period = 6}, b \in {Task(4, 2, 1, 1)},
                         c \in {Task(9, 3, 2, 2), Task(9, 2, 1, 1), Task(6, 3, 1, 2)} }

MCRunUtilisations == {<<7, 5>>}

Ua(class, fields) == [class |-> class, data |-> fields]

UAs == { Ua("uaexp", [weight |-> "0.5"]), Ua("uamean", << >>), Ua("uanone", << >>),
         Ua("uawmean", [size |-> 3]), Ua("uawmk", [m |-> 1, k |-> 2]) }

Base(prio) == [id |-> 7, executiontime |-> 1, criticaltime |-> 3, priority |-> prio]
Periodic(prio) == Base(prio) @@ [period |-> 4, offset |-> 2]
Mk(offset) == Base(2) @@ [period |-> 4, offset |-> offset, m |-> 1, k |-> 3, spin |-> 1,
                          mkstate |-> <<1, 0, 0>>]

\* A task of every class; priority -1 is what TMS_MIN_PRIORITY is written as.
MCOthers ==
  {[class |-> "periodictask", uc |-> uc, ua |-> ua, data |-> Periodic(p)] :
     uc \in {"ucfirmrt", "ucnone"}, ua \in UAs, p \in {2, -1}}
  \cup
  {[class |-> "sporadictask", uc |-> "ucfirmrt", ua |-> ua,
    data |-> Base(2) @@ [minperiod |-> 4, seed |-> 31, probability |-> p, offset |-> 0]] :
     ua \in UAs, p \in {"0.5", "1e-05"}}
  \cup
  {[class |-> "sptask", uc |-> "ucfirmrt", ua |-> ua,
    data |-> Periodic(2) @@ [seed |-> 31, probability |-> "0.5"]] : ua \in UAs}
  \cup
  {[class |-> c, uc |-> "ucfirmrt", ua |-> ua, data |-> Mk(0)] :
     c \in {"mktask", "dbptask", "mkptask"}, ua \in UAs}
  \cup
  {[class |-> "pproducertask", uc |-> "ucnone", ua |-> Ua("uanone", << >>),
    data |-> [id |-> 7, executiontime |-> 1, criticaltime |-> 4, priority |-> 2, period |-> 4,
              offset |-> 0, buffersize |-> 3, responsetime |-> 2]]}
  \cup
  {[class |-> "pconsumertask", uc |-> "ucnone", ua |-> Ua("uanone", << >>),
    data |-> [id |-> 7, executiontime |-> 1, criticaltime |-> 4, priority |-> 2, period |-> 4,
              offset |-> 0, responsetime |-> 2, producers |-> ps]] :
     ps \in {<< >>, <<"T1">>, <<"T1", "T2">>}}

MCOtherTasksets == {<<a, b>> : a \in MCOthers, b \in MCOthers}
=============================================================================
