----------------------------- MODULE TasksetFile -----------------------------
(***************************************************************************)
(* Task files: what the writeData() methods of tasks, calculators and      *)
(* aggregators write (TasksetWriter), what tasksets/taskset.xsd accepts,   *)
(* and what the builders under xmlio/ make of an element (TasksetReader).  *)
(* An element is a record of its name, its calculator and aggregator and   *)
(* the values of its other children; the order of the children is the same *)
(* in the writers and the schema and is left out, like the text of numbers *)
(* that is read as it was written.                                         *)
(***************************************************************************)
EXTENDS Integers, Functions, SequencesExt

BaseFields == {"id", "executiontime", "criticaltime", "priority"}
PeriodicFields == BaseFields \cup {"period", "offset"}
MkFields == PeriodicFields \cup {"m", "k", "spin", "mkstate"}
SporadicFields == BaseFields \cup {"minperiod", "seed", "probability", "offset"}

\* The children that each class of task writes for itself; a consumer writes a list
\* of producers only if it has any.
SPFields == PeriodicFields \cup {"seed", "probability"}
ProducerFields == PeriodicFields \cup {"buffersize", "responsetime"}
ConsumerFields(producers) ==
  PeriodicFields \cup {"responsetime"} \cup (IF producers = << >> THEN {} ELSE {"producers"})

WrittenFields(t) ==
  CASE t.class = "periodictask" -> PeriodicFields
    [] t.class = "sporadictask" -> SporadicFields
    [] t.class = "sptask" -> SPFields
    [] t.class \in {"mktask", "dbptask", "mkptask"} -> MkFields
    [] t.class = "pproducertask" -> ProducerFields
    [] t.class = "pconsumertask" -> ConsumerFields(t.data["producers"])

\* The element of an aggregator: UAMean's has the name of UAWMean's, without a size.
AggregatorElement(ua) ==
  [name |-> IF ua.class = "uamean" THEN "uawmean" ELSE ua.class,
   data |-> ua.data]

\* writeToXML and writeData
Element(t) ==
  [name |-> t.class, uc |-> t.uc, ua |-> AggregatorElement(t.ua),
   data |-> Restrict(t.data, WrittenFields(t))]

AggregatorSchema ==
  [uanone |-> {}, uaexp |-> {"weight"}, uamean |-> {}, uawmean |-> {"size"},
   uawmk |-> {"m", "k"}]

\* tasktype and its extensions, and what may be missing: mkctask and
\* sporadicperiodictask are no task's element, sptask and mkptask are not declared.
ElementSchema ==
  [periodictask  |-> PeriodicFields,
   sporadictask  |-> SporadicFields,
   mktask        |-> MkFields,
   dbptask       |-> MkFields,
   pproducertask |-> ProducerFields,
   pconsumertask |-> ConsumerFields(<<0>>)]

OptionalFields == {"mkstate", "producers"}

\* isValid: priority is a nonNegativeInteger, and probability a decimal, which has
\* no exponent.
SchemaAccepts(e) ==
  /\ e.name \in DOMAIN ElementSchema
  /\ DOMAIN e.data \subseteq ElementSchema[e.name]
  /\ ElementSchema[e.name] \ OptionalFields \subseteq DOMAIN e.data
  /\ e.data["priority"] >= 0
  /\ "probability" \in DOMAIN e.data => e.data["probability"] # "1e-05"
  /\ e.uc \in {"ucfirmrt", "ucnone"}
  /\ e.ua.name \in DOMAIN AggregatorSchema
  /\ DOMAIN e.ua.data = AggregatorSchema[e.ua.name]

IsValid(doc) == \A i \in DOMAIN doc : SchemaAccepts(doc[i])

\* The keys of TaskFactory::mBuilder; the one of dbptask is commented out.
Accepted ==
  {"periodictask", "sporadictask", "mktask", "sptask", "pproducertask", "pconsumertask"}

\* The children that each builder looks at
PeriodicTaskBuilder == BaseFields \cup {"period", "offset"}
SporadicTaskBuilder == BaseFields \cup {"minperiod", "seed", "probability", "offset"}
SPTaskBuilder == BaseFields \cup {"period", "seed", "probability", "offset"}
ProducerBuilder ==
  {"id", "executiontime", "period", "priority", "buffersize", "responsetime"}
ConsumerBuilder ==
  {"id", "executiontime", "period", "priority", "responsetime", "producers"}

\* Mutant: spin is forgotten.
MkTaskBuilderWithoutSpin == BaseFields \cup {"period", "m", "k", "mkstate"}

MkTaskBuilder == BaseFields \cup {"period", "m", "k", "spin", "mkstate"}

\* TaskFactory::getElement
ReadFields(name) ==
  CASE name = "periodictask" -> PeriodicTaskBuilder
    [] name = "sporadictask" -> SporadicTaskBuilder
    [] name = "sptask" -> SPTaskBuilder
    [] name = "mktask" -> MkTaskBuilder
    [] name = "pproducertask" -> ProducerBuilder
    [] name = "pconsumertask" -> ConsumerBuilder

\* What becomes of the fields it does not look at: the builders' defaults, and what
\* the constructors set.  Producers and consumers have their period as deadline.
Unread(e, f) ==
  CASE f = "offset" -> 0
    [] f = "criticaltime" -> e.data["period"]
    [] f = "spin" -> 0
    [] f = "mkstate" -> [i \in 1 .. e.data["k"] |-> 1]
    [] f = "producers" -> << >>

TaskFields(name) ==
  ElementSchema[name] \cup (IF name = "pconsumertask" THEN {"producers"} ELSE {})

\* The builders of calculators and aggregators
UCFirmRTBuilder == [class |-> "ucfirmrt"]
UAExpBuilder(e) == [class |-> "uaexp", data |-> Restrict(e.data, {"weight"})]
UAMeanBuilder(e) == [class |-> "uamean", data |-> << >>]
UAWMeanBuilder(e) == [class |-> "uawmean", data |-> Restrict(e.data, {"size"})]
UAWMKBuilder(e) == [class |-> "uawmk", data |-> Restrict(e.data, {"m", "k"})]

\* The factories have no builder for ucnone and uanone: a null pointer is left.
UtilityCalculatorFactory(uc) == IF uc = "ucfirmrt" THEN UCFirmRTBuilder.class ELSE "null"
UtilityAggregatorFactory(e) ==
  CASE e.name = "uaexp"   -> UAExpBuilder(e)
    [] e.name = "uamean"  -> UAMeanBuilder(e)
    [] e.name = "uawmean" -> UAWMeanBuilder(e)
    [] e.name = "uawmk"   -> UAWMKBuilder(e)
    [] OTHER              -> [class |-> "null", data |-> << >>]

\* build(): producers and consumers create their own calculator and aggregator.  The
\* written (m,k) state begins with the oldest entry; MkTaskBuilder shifts it in from
\* the right and the monitor takes the rightmost one for the oldest.  Consumers are
\* read into a temporary task.
Build(e) ==
  LET own      == e.name \in {"pproducertask", "pconsumertask"}
      known    == ReadFields(e.name) \cap DOMAIN e.data
      value(f) == IF f \notin known THEN Unread(e, f)
                  ELSE IF f = "mkstate" THEN Reverse(e.data[f]) ELSE e.data[f]
  IN  [class |-> IF e.name = "pconsumertask" THEN "tmppconsumertask" ELSE e.name,
       uc    |-> IF own THEN "ucnone" ELSE UtilityCalculatorFactory(e.uc),
       ua    |-> IF own THEN [class |-> "uanone", data |-> << >>]
                 ELSE UtilityAggregatorFactory(e.ua),
       data  |-> [f \in TaskFields(e.name) |-> value(f)]]

\* TasksetWriter::write saves the document before it validates it.
DocumentOf(tasks) == [i \in DOMAIN tasks |-> Element(tasks[i])]

\* TasksetReader::read
ReadTasks(doc) ==
  IF ~ IsValid(doc) THEN << >>
  ELSE LET built == SelectSeq(doc, LAMBDA e : e.name \in Accepted)
       IN  [i \in DOMAIN built |-> Build(built[i])]
=============================================================================
