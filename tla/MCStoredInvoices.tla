------------------------- MODULE MCStoredInvoices -------------------------
\* Two consumers and two runs, overlapping on one invoice; both fields of its
\* status change, one of them to nothing and back.
EXTENDS StoredInvoices, TLC

CONSTANTS i1, valid, odd, r1, r2, w1, w2

MCInvoices == {i1}
MCStatuses == {valid, odd}
MCTtxly == [s \in MCStatuses |-> IF s = odd THEN 6 ELSE 5]
MCTthai == [s \in MCStatuses |-> IF s = odd THEN Null ELSE 1]
MCRuns == {r1, r2}
MCWorkers == {w1, w2}

Symmetry ==
  Permutations(MCRuns) \cup Permutations(MCWorkers)
=============================================================================
