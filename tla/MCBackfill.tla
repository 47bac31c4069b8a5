----------------------------- MODULE MCBackfill -----------------------------
\* One month in two directions, asked for once; it is the current
\* month.
EXTENDS Backfill, MonthWindows

CONSTANTS w1, b1, m0, m1

MCMonths == {m1}
MCCurrent == {<<m1, m0>>}
MCOneWorker == {w1}
MCOneBackfill == {b1}
MCModes == {"delta", "force"}
=============================================================================
