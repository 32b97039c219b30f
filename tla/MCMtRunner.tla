----------------------------- MODULE MCMtRunner -----------------------------
EXTENDS MtRunner

\* Four pieces of work one by one (MtRunner), in lists (MtLgRunner), none at all,
\* and a list that is empty although others would follow
MCPlans == { <<1, 1, 1, 1>>, <<2, 2>>, <<3>>, << >>, <<2, 0, 1>> }
=============================================================================
