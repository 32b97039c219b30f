------------------------------- MODULE Utility -------------------------------
(***************************************************************************)
(* core/utilityaggregator.cpp and the aggregators under utility/: the      *)
(* history of the utilities of a task's jobs, as operators on a record.    *)
(* A utility is 0 or 1, which is what UCFirmRT and UCNone return; what is  *)
(* computed from utilities is a rational number, written as a pair of      *)
(* numerator and positive denominator.                                     *)
(***************************************************************************)
EXTENDS Integers

Less(a, b) == a[1] * b[2] < b[1] * a[2]

Zero == <<0, 1>>
One == <<1, 1>>

\* UCFirmRT::calcUtility
FirmUtility(deadline, complTime) == IF complTime <= deadline THEN 1 ELSE 0

\* The constructors.  UAWMean and UAWMK own a UAWindow filled with 1, from which
\* current goes downwards; UAWMean's sum starts at 0 nevertheless.
NewAggregator(class, m, size) ==
  [class   |-> class, m |-> m, size |-> size,
   values  |-> [i \in 0 .. size - 1 |-> 1],
   current |-> size - 1,
   sum     |-> IF class = "UAWMK" THEN size ELSE 0,
   total   |-> 0, count |-> 0]

\* UAWindow::operator[]: 0 is the newest entry, size - 1 the oldest one.
Entry(ua, offset) == ua.values[(ua.current + offset) % ua.size]

Oldest(ua) == Entry(ua, ua.size - 1)

\* UAWindow::addHook: the newest entry goes where the oldest one was.
AddToWindow(ua, u) ==
  LET at == IF ua.current = 0 THEN ua.size - 1 ELSE ua.current - 1
  IN  [ua EXCEPT !.values[at] = u, !.current = at]

\* addHook of UAWMK and UAWMean, which keep the sum of the window
AddHook(ua, u) == [AddToWindow(ua, u) EXCEPT !.sum = @ - Oldest(ua) + u]

\* UtilityAggregator::addUtility
AddUtility(ua, u) ==
  LET counted == [ua EXCEPT !.total = @ + u, !.count = @ + 1]
  IN  IF ua.class = "UAMean" THEN counted ELSE AddHook(counted, u)

\* predictUtility of UAWMK, UAWMean and UAMean
PredictMk(ua, u) == <<ua.sum - Oldest(ua) + u, ua.m>>
PredictWindowMean(ua, u) == <<ua.sum - Oldest(ua) + u, ua.size>>
PredictMean(ua, u) == <<ua.total + u, ua.count + 1>>

PredictUtility(ua, u) ==
  CASE ua.class = "UAWMK" -> PredictMk(ua, u)
    [] ua.class = "UAWMean" -> PredictWindowMean(ua, u)
    [] ua.class = "UAMean" -> PredictMean(ua, u)
=============================================================================
