--------------------------- MODULE MCWebSession ---------------------------
\* Two tabs of one browser, two people of different tenants.
EXTENDS WebSession

CONSTANTS t1, t2, an, binh

MCTabs == {t1, t2}
MCUsers == {an, binh}
=============================================================================
