---------------------------- MODULE MCDeltaSync ----------------------------
\* One scope small enough to exhaust: at most one missing invoice per
\* family.
EXTENDS DeltaSync, TLC

CONSTANTS w1, w2, r1, r2

MCWorkers == {w1, w2}
MCOneWorker == {w1}
MCRuns == {r1, r2}
MCOneFamily == [f \in Families |-> IF f = "normal" THEN 1 ELSE 0]
MCBothFamilies == [f \in Families |-> 1]
MCExactTotals == {1}
MCTotals == {1, Unknown}

Symmetry == Permutations(MCWorkers) \cup Permutations(MCRuns)
=============================================================================
