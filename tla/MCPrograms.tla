------------------------------ MODULE MCPrograms ------------------------------
EXTENDS Programs

\* The values an option can be given, besides not being given
Values(o) ==
  CASE o = "seedfile" -> {"good", "bad", "overlong"}
    [] o \in {"threads", "files"} -> {"good", "none"}
    [] o \in {"single", "logfile", "restrictPeriods"} -> {"good"}
    [] OTHER -> {"good", "bad"}

ValuesFor(p, o) ==
  IF o # "infile" THEN Values(o)
  ELSE CASE p = "tsrun"  -> {"good", "bad", "orphan", "heavy"}
         [] p = "tmsSim" -> {"good", "bad"}
         [] OTHER -> {"good", "bad", "foreign"}

\* Every combination of values for the options that are given, where required ones are
Arguments(p) ==
  LET Offered(o) == ValuesFor(p, o) \cup IF Options[p][o] = "optional" THEN {Absent} ELSE {}
  IN FoldSet(LAMBDA o, as : {(o :> v) @@ a : v \in Offered(o), a \in as},
             {<< >>}, DOMAIN Options[p])

Lines(p) ==
  CASE p \in BoostPrograms -> {"whole", "help", "malformed"}
    [] p = "tseval" -> {"whole", "help", "broken", "dangling", "joined"}
    [] OTHER -> {"whole", "help", "broken", "dangling"}

\* And every set of options with good values, in lines of every kind
MCCommandLines ==
  [p \in DOMAIN Options |->
     {("line" :> "whole") @@ a : a \in Arguments(p)}
     \cup
     {[o \in DOMAIN Options[p] \cup {"line"} |->
         IF o = "line" THEN l ELSE IF o \in given THEN "good" ELSE Absent] :
        l \in Lines(p), given \in SUBSET DOMAIN Options[p]}]

Entry(key, value) == [kind |-> "entry", key |-> key, value |-> value]
Other(kind) == [kind |-> kind, key |-> "", value |-> 0]

GenLines(maxPeriod, minK, maxWC) ==
  << Entry("minPeriod", 4), Entry("maxPeriod", maxPeriod), Other("comment"),
     Entry("minK", minK), Entry("maxK", 3), Other("blank"), Entry("maxWC", maxWC) >>

\* A whole one, one without the last newline, one with a long line; then ones with no
\* periods, with k = 1, with no k, and with a negative number
MCGenConfigFiles ==
  { [lines |-> GenLines(8, 2, 2), ended |-> TRUE],
    [lines |-> GenLines(8, 2, 2), ended |-> FALSE],
    [lines |-> GenLines(8, 2, 2) \o << Other("overlong") >>, ended |-> TRUE] }
  \cup {[lines |-> GenLines(ns[1], ns[2], ns[3]), ended |-> TRUE] :
           ns \in {<<2, 2, 2>>, <<8, 1, 2>>, <<8, 3, 2>>, <<8, 2, -1>>}}

TsLines(producers, consumers, most, maxWC) ==
  << Entry("producerUtilisation", 1), Entry("consumerUtilisation", 1),
     Entry("numberOfProducers", producers), Entry("numberOfConsumers", consumers),
     Entry("maxConsumerInputs", most), Entry("maxWC", maxWC) >>

\* A whole one, one without the last newline, one without the last key; then ones with a
\* row that cannot be drawn, with none that can, with too few producers, and without
\* different weights
MCTsConfigFiles ==
  { [lines |-> TsLines(3, 3, 2, 2), ended |-> TRUE], [lines |-> TsLines(3, 3, 2, 2), ended |-> FALSE],
    [lines |-> Front(TsLines(3, 3, 2, 2)), ended |-> TRUE] }
  \cup {[lines |-> TsLines(ns[1], ns[2], ns[3], ns[4]), ended |-> TRUE] :
           ns \in {<<3, 2, 2, 2>>, <<3, 3, 1, 2>>, <<2, 3, 2, 2>>, <<3, 3, 2, 1>>}}

Exec(v) == Entry("execCancellations", v)
Dlmc(v) == Entry("dlMissCancellations", v)

\* Both keys, one of them twice, the second without the last newline, one without "="
MCEconfFiles ==
  { [lines |-> << Exec(0), Dlmc(1) >>, ended |-> TRUE],
    [lines |-> << Exec(0), Other("comment"), Dlmc(0), Exec(1) >>, ended |-> TRUE],
    [lines |-> << Exec(0), Dlmc(0) >>, ended |-> FALSE],
    [lines |-> << [kind |-> "bare", key |-> "execCancellations", value |-> 0] >>, ended |-> TRUE] }
=============================================================================
