------------------------------ MODULE MCReading ------------------------------
\* Four invoices: three sold on two days with numbers 2, 3 and 5 of a series,
\* and one purchased with a sign and number we use; only one of them is outside the days the page looks at.
EXTENDS Reading, Worklist

MCInvoices == 1 .. 4
\* Day 1 from 17 to 16 o'clock UTC: one on its last hour, the others on the first of day 2.
MCTdlap == [i \in 1 .. 4 |-> IF i = 2 THEN 40 ELSE 41]
MCChieu == [i \in 1 .. 4 |-> IF i = 4 THEN "purchase" ELSE "sold"]
MCNumber == [i \in 1 .. 4 |-> <<2, 5, 3, 2>>[i]]
MCSeller == [i \in 1 .. 4 |-> IF i = 4 THEN "them" ELSE "us"]
MCSign == [i \in 1 .. 4 |-> "K"]
MCCodes == <<{Null, BI_THAY_THE}, {BI_THAY_THE, BI_DIEU_CHINH}, {Null, BI_THAY_THE}, {Null, BI_DIEU_CHINH}>>

All == [chieu |-> "any", from |-> 0, to |-> 9, biSua |-> FALSE]
MCFilters == {All, [All EXCEPT !.to = 1], [All EXCEPT !.biSua = TRUE]}
MCPicks == {[ids |-> {1, 2, 3}, cols |-> <<"tongSauThue", "junk", "sttFile", "tinhVaoTong">>]}
MCSorts == {Newest, [by |-> "tthai", dir |-> "desc"], [by |-> "chieu", dir |-> "asc"]}
MCColumn == [by \in SORT_COLUMNS |-> [i \in 1 .. 4 |-> 0]]
\* Lines whose tax is rounded from a half, up and down, one with a word for a rate, and one with GDT's tax.
Line(thtien, ltsuat, tsuat, tsuatTien) ==
  [thtien |-> thtien, ltsuat |-> ltsuat, tsuat |-> tsuat, tsuatTien |-> tsuatTien]
MCLines ==
  [i \in 1 .. 4 |->
     CASE i = 1 -> << Line(Decimal(625, 2), "rate", Decimal(8, 2), Missing),
                      Line(Decimal(-250, 1), "rate", Decimal(1, 1), Missing),
                      Line(Decimal(100, 0), "word", Decimal(0, 0), Missing) >>
       [] i = 4 -> << Line(Decimal(30, 0), "rate", Decimal(85, 3), Decimal(250, 2)) >>
       [] OTHER -> <<>>]

MCViewFilter == [All EXCEPT !.from = 2]
==============================================================================
