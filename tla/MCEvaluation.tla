---------------------------- MODULE MCEvaluation ----------------------------
EXTENDS Evaluation

Flags(bits) == [i \in DOMAIN bits |-> bits[i] = 1]

\* Two allocators, given in descending order
Dse(sets, passes) ==
  [program |-> "mkdse", allocators |-> <<2, 1>>, sets |-> sets,
   passes |-> passes, sufficient |-> {}, utilisation |-> [n \in DOMAIN sets |-> 1]]

\* One seed with three utilisations, the last of which repeats the tasks of the second;
\* two seeds with different numbers of utilisations; no seed at all
One == << Flags(<<0, 0, 1>>) >>
Two == << Flags(<<0>>), Flags(<<0, 0>>) >>

Other(program, allocators, passes, sufficient) ==
  [program |-> program, allocators |-> allocators,
   sets |-> << Flags(<<0, 0, 1>>), Flags(<<0>>), Flags(<<0, 0>>) >>,
   passes |-> passes, sufficient |-> sufficient, utilisation |-> <<7, 5, 7>>]

Single(program, passes, sufficient) ==
  [Other(program, <<1, 2, 3>>, passes, sufficient)
     EXCEPT !.sets = << Flags(<<0>>), Flags(<<0>>), Flags(<<0>>) >>]

\* Four seeds of mkeval, two of them with the same utilisation
Four ==
  [Single("mkeval", {<<1, 1, 1>>, <<3, 1, 1>>, <<3, 1, 2>>}, {3})
     EXCEPT !.allocators = <<1, 2>>,
            !.sets = @ \o << Flags(<<0>>) >>, !.utilisation = <<80, 50, 95, 80>>]

\* The second seed has one utilisation with U_mk <= 1, at which two allocators succeed,
\* one of them at two more; the third has two, and a success after a failure.
MCSearchPasses ==
  { <<1, 1, 1>>, <<1, 2, 2>>, <<1, 1, 2>>, <<2, 1, 1>>, <<2, 2, 1>>, <<2, 3, 1>>, <<2, 1, 2>>,
    <<3, 1, 2>>, <<3, 2, 1>>, <<3, 2, 2>>, <<3, 3, 2>>, <<3, 5, 2>> }

MCInputs ==
  { Dse(One, {<<1, 1, 1>>, <<1, 2, 2>>}), Dse(Two, {<<1, 1, 2>>, <<2, 1, 1>>, <<2, 2, 1>>}),
    Dse(<< >>, {}) }
  \cup { Other("mkbdexcsearch", a, MCSearchPasses, {}) : a \in {<<2, 1, 3>>, <<2, 1, 2>>} }
  \cup { Single("mkeval", {<<1, 1, 1>>, <<1, 1, 3>>, <<2, 1, 1>>, <<2, 1, 2>>, <<2, 1, 3>>},
                {2}),
         Single("tseval", {}, {}), Four }

MCPlans == {PlanOf(in) : in \in MCInputs}
=============================================================================
