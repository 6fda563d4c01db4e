--------------------------- MODULE MCCheckPipeline ---------------------------
\* Instances of CheckPipeline for TLC.
EXTENDS CheckPipelineProperties, TLC

CONSTANTS c1, c2, p1, r1, w1     \* model values

OneChecker  == {c1}
TwoCheckers == {c1, c2}
OnePinger   == {p1}
OneRequest  == {r1}
OneWindow   == {w1}

Symmetry == Permutations({c1, c2})

OnlyAck     == {"acknowledge"}
OnlyUpdate  == {"update"}
ByHand      == {"acknowledge", "resolve", "update"}
Lifecycle   == {"pause", "resume", "remove"}

WithAndWithout == BOOLEAN
OnlyWith       == {TRUE}
OnlyWithout    == {FALSE}

One      == {1}
OneTwo   == {1, 2}
Two      == {2}
=============================================================================
