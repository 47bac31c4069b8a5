------------------------- MODULE MCTenantLifecycle -------------------------
\* Two businesses that claim one tax code, one with a domain that takes no
\* mail, two requests at a time.
EXTENDS TenantLifecycle, TLC

CONSTANTS t1, t2, m1, x, y, l1, l2, r1, r2

MCTenants == {t1, t2}
MCOneMst == {m1}
MCDomain == (t1 :> [mx |-> "none", a |-> "some"]) @@ (t2 :> [mx |-> "none", a |-> "none"])
MCPasswords == {x, y}
MCTwoLinks == {l1, l2}
MCRequests == {r1, r2}
=============================================================================
