--------------------------- MODULE MCSharePackage ---------------------------
\* One customer with two invoices, two requests and two jobs at a time.
EXTENDS SharePackage, TLC

CONSTANTS p1, i1, i2, c1, c2, w1, w2

MCOnePackage == {p1}
MCOneInvoice == {i1}
MCTwoInvoices == {i1, i2}
MCPhamVi == [p \in {p1} |-> MCTwoInvoices]
MCPhamViOne == [p \in {p1} |-> MCOneInvoice]
MCKyHieu == [i \in {i1, i2} |-> "C26TQO-1"]   \* two sellers use one symbol
MCNguoiBan == [i \in {i1, i2} |-> IF i = i1 THEN "0101" ELSE "0102"]
MCCalls == {c1, c2}
MCWorkers == {w1, w2}
MCOneWorker == {w1}
=============================================================================
