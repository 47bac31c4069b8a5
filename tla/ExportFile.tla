------------------------------ MODULE ExportFile ------------------------------
(***************************************************************************)
(* What an exported file says: its columns, its rows, and the money of a   *)
(* row.  A flat file (csv, xlsx) has a row per line of goods, with what    *)
(* the invoice says repeated; a converted file has a row per invoice, by   *)
(* the profile of an accounting program; a zip has a document per invoice. *)
(*                                                                         *)
(* Numbers are exact decimals, val / 10^scale, and never floats.  Texts    *)
(* are left as they are: Own(x, key) is what x says under key.             *)
(***************************************************************************)
EXTENDS Integers, FiniteSets, SequencesExt

CONSTANTS Lines,      \* dong_hang_hoa of an invoice, by stt
          Tdlap,      \* of an invoice, an instant in hours
          Sign, Number  \* khhdon, shdon

Null == 0
BI_THAY_THE == 4
BI_DIEU_CHINH == 5
TTHAI_NHAN == <<"Goc", "Thay the", "Dieu chinh", "Bi thay the", "Bi dieu chinh">>

-----------------------------------------------------------------------------
Decimal(val, scale) == [val |-> val, scale |-> scale]
Missing == Decimal(0, -1)
Decimals == [val : Int, scale : Int]

Size(n) == IF n < 0 THEN -n ELSE n

(* No zeros at the end of the fraction.                                    *)
DinhDangThapPhan(val, scale) ==
  LET exact(s) == val % 10^(scale - s) = 0
      s == CHOOSE s \in 0 .. scale : exact(s) /\ \A r \in 0 .. s - 1 : ~exact(r)
  IN Decimal(val \div 10^(scale - s), s)

CongThapPhan(a, b) ==
  LET scale == Max({a.scale, b.scale})
  IN DinhDangThapPhan(a.val * 10^(scale - a.scale) + b.val * 10^(scale - b.scale), scale)

(* The product, rounded to a whole number, halves away from zero.          *)
TinhTienThue(thtien, tsuat) ==
  LET one == 10^(thtien.scale + tsuat.scale)
      size == (Size(thtien.val * tsuat.val) + one \div 2) \div one
  IN Decimal(IF thtien.val * tsuat.val < 0 THEN -size ELSE size, 0)

NhanTram(d) ==
  IF d.scale >= 2 THEN DinhDangThapPhan(d.val, d.scale - 2)
  ELSE Decimal(d.val * 10^(2 - d.scale), 0)

-----------------------------------------------------------------------------
(* A line: ltsuat is a "rate" like 8%, a "word" like KCT or "none".  Only  *)
(* with a rate is tsuat one: words come with 0 just as 0% does.            *)
EMPTY_LINE == [thtien |-> Missing, ltsuat |-> "none", tsuat |-> Missing, tsuatTien |-> Missing]

LaThueSuatSo(line) == line.tsuat # Missing /\ line.ltsuat = "rate"

TsuatTienChuan(line) ==
  CASE line.tsuatTien # Missing -> line.tsuatTien
    [] line.tsuatTien = Missing /\ line.thtien # Missing /\ LaThueSuatSo(line) ->
         TinhTienThue(line.thtien, line.tsuat)
    [] OTHER -> Missing

TongSauThue(line) ==
  IF Missing \in {line.thtien, TsuatTienChuan(line)} THEN Missing
  ELSE CongThapPhan(line.thtien, TsuatTienChuan(line))

(* The status of an invoice: its label, and whether its money counts.      *)
NhanTthai(code) ==
  CASE code = Null -> ""
    [] code \in DOMAIN TTHAI_NHAN -> TTHAI_NHAN[code]
    [] OTHER -> "unverified"
TinhVaoTong(code) == code # BI_THAY_THE

-----------------------------------------------------------------------------
FLAT_EXPORT_COLUMNS ==
  << "sttFile", "tdlap", "ncnhat", "khmshdon", "khhdon", "shdon", "chieu", "nguon", "nbten", "nbmst",
     "nmten", "nmmst", "sttDong", "ten", "dvtinh", "sluong", "dgia", "thtien", "ltsuat", "tsuat",
     "tsuatTien", "tongSauThue", "tthai", "tthaiNhan", "tinhVaoTong", "dvtte", "ttxly", "tgtcthue",
     "ttcktmai", "tgtthue", "tgtttbso" >>

MacDinhHien ==
  {"sttFile", "tdlap", "khhdon", "shdon", "chieu", "nbten", "nbmst", "nmten", "nmmst", "ten",
   "sluong", "dgia", "thtien", "tsuat", "tsuatTien", "tongSauThue", "tthai", "tthaiNhan", "tinhVaoTong"}

(* The columns a user chose, in the order of the catalogue; unknown ones   *)
(* are dropped, and if none is left the default ones are taken.            *)
ChonCotXuat(cols) ==
  LET known == ToSet(cols) \cap ToSet(FLAT_EXPORT_COLUMNS)
  IN SelectSeq(FLAT_EXPORT_COLUMNS, LAMBDA key : key \in IF known # {} THEN known ELSE MacDinhHien)

Blank == [t |-> "blank"]
StrCell(v) == [t |-> "str", v |-> v]
NumCell(d) == IF d = Missing THEN Blank ELSE [t |-> "num", v |-> d]
PercentCell(line) == IF LaThueSuatSo(line) THEN [t |-> "percent", v |-> line.tsuat] ELSE Blank
Own(x, key) == StrCell(<<x, key>>)

(* The day in Vietnam, seven hours ahead, of an instant.                   *)
FormatDate(instant) == (instant + 7) \div 24

(* A row of a file: the invoice, its code when it was read, its line (0 if *)
(* it has none yet) and the row's place in the file.                       *)
LineOf(row) == IF row.line = 0 THEN EMPTY_LINE ELSE Lines[row.of][row.line]

OTheoKey(row, key) ==
  CASE key = "sttFile" -> NumCell(Decimal(row.stt, 0))
    [] key = "tdlap" -> StrCell(FormatDate(Tdlap[row.of]))
    [] key = "thtien" -> NumCell(LineOf(row).thtien)
    [] key = "ltsuat" -> IF LineOf(row).ltsuat = "none" THEN Blank ELSE Own(<<row.of, row.line>>, key)
    [] key = "tsuat" -> PercentCell(LineOf(row))
    [] key = "tsuatTien" -> NumCell(TsuatTienChuan(LineOf(row)))
    [] key = "tongSauThue" -> NumCell(TongSauThue(LineOf(row)))
    [] key = "tthai" -> IF row.code = Null THEN Blank ELSE NumCell(Decimal(row.code, 0))
    [] key = "tthaiNhan" -> StrCell(NhanTthai(row.code))
    [] key = "tinhVaoTong" -> StrCell(TinhVaoTong(row.code))
    [] key \in {"sttDong", "ten", "dvtinh", "sluong", "dgia"} ->
         IF row.line = 0 THEN Blank ELSE Own(<<row.of, row.line>>, key)
    [] OTHER -> Own(row.of, key)

FlatCells(row, cols) ==
  LET chosen == ChonCotXuat(cols) IN [n \in 1 .. Len(chosen) |-> OTheoKey(row, chosen[n])]

(* A csv shows a rate in percent; a sheet keeps it and is formatted so.    *)
CsvRowLine(cells) ==
  [n \in 1 .. Len(cells) |->
     IF cells[n].t = "percent" THEN [cells[n] EXCEPT !.v = NhanTram(@)] ELSE cells[n]]

\* The sheet of a flat file, by row: the first one is the header.
Sheet(file, cols) ==
  [r \in 1 .. Len(file) + 1 |-> IF r = 1 THEN ChonCotXuat(cols) ELSE FlatCells(file[r - 1], cols)]

-----------------------------------------------------------------------------
(* The fields of an invoice, in the order of business: what the table and  *)
(* the files show and what rows may be sorted by derive from them.         *)
INVOICE_FIELDS ==
  << "tdlap", "ncnhat", "khmshdon", "khhdon", "shdon", "nbmst", "nbten", "nmmst", "nmten", "hangHoa",
     "soLuong", "tgtcthue", "ttcktmai", "tgtthue", "tgtttbso", "dvtte", "ttxly", "tthai", "chieu", "nguon" >>

EXPORT_COLUMNS == SelectSeq(INVOICE_FIELDS, LAMBDA key : key # "soLuong")

SortableKeys ==
  ToSet(INVOICE_FIELDS) \
    {"ncnhat", "khmshdon", "khhdon", "nbmst", "nmmst", "hangHoa", "soLuong", "ttcktmai"}

(* A cell of an invoice.  Its goods are listed if they were there when the *)
(* invoice was read.                                                       *)
CellFor(row, key) ==
  CASE key = "hangHoa" -> IF row.goods = 0 THEN Blank ELSE Own(<<row.of, 1 .. row.goods>>, "ten")
    [] key \in {"tdlap", "tthai"} -> OTheoKey(row, key)
    [] OTHER -> Own(row.of, key)

(* The profile we have, for a row of a converted file.                     *)
REFERENCE_PROFILE == <<"tdlap", "shdon", "khhdon", "nbmst", "nbten", "tgtcthue", "tgtthue", "tgtttbso">>

ProfileCells(row) == [n \in 1 .. Len(REFERENCE_PROFILE) |-> CellFor(row, REFERENCE_PROFILE[n])]

(* A document: the cells of its invoice, then its lines under labels that  *)
(* go with their fields.                                                   *)
LINE_COLUMNS ==
  << <<"stt", "STT">>, <<"ten", "Ten">>, <<"dvtinh", "DVT">>, <<"sluong", "SL">>, <<"dgia", "Don gia">>,
     <<"thtien", "Thanh tien">>, <<"ltsuat", "Ma thue suat">>, <<"tsuat", "Thue suat">>,
     <<"tsuatTien", "Tien thue">> >>

Document(entry) ==
  [invoice |-> [n \in 1 .. Len(EXPORT_COLUMNS) |-> CellFor(entry, EXPORT_COLUMNS[n])],
   labels |-> [c \in 1 .. Len(LINE_COLUMNS) |-> LINE_COLUMNS[c][2]],
   lines |-> [k \in 1 .. entry.lines |->
                [c \in 1 .. Len(LINE_COLUMNS) |-> Own(<<entry.of, k>>, LINE_COLUMNS[c][1])]]]

(* A document of a zip is named after the invoice's sign and number, which *)
(* two sellers may share: the later ones get a suffix.                     *)
InvoiceFileStem(i) == <<Sign[i], Number[i]>>

-----------------------------------------------------------------------------
(* The rows of a batch in its order: order is a sequence of ids, codes     *)
(* their status, got those whose lines were found.                         *)
FlatRows(order, codes, got) ==
  LET of(i) == [k \in 1 .. IF i \in got THEN Len(Lines[i]) ELSE 1 |->
                 [of |-> i, code |-> codes[i], line |-> IF i \in got THEN k ELSE 0]]
  IN FlattenSeq([n \in 1 .. Len(order) |-> of(order[n])])

InvoiceRows(order, codes) == [n \in 1 .. Len(order) |-> [of |-> order[n], code |-> codes[order[n]]]]

\* seen are those that had lines when the invoices were read, got when the lines were.
Documents(order, codes, seen, got) ==
  LET count(i, S) == IF i \in S THEN Len(Lines[i]) ELSE 0
  IN [n \in 1 .. Len(order) |->
       [of |-> order[n], code |-> codes[order[n]],
        goods |-> count(order[n], seen), lines |-> count(order[n], got)]]

\* Rows are numbered through the whole file, whatever batch they are of.
Stamped(rows, stt) ==
  [n \in 1 .. Len(rows) |-> [of |-> rows[n].of, code |-> rows[n].code, line |-> rows[n].line, stt |-> stt + n]]

(* The suffix of a document: how many before it have its name.             *)
UniqueName(i, used) == Cardinality({n \in DOMAIN used : InvoiceFileStem(used[n]) = InvoiceFileStem(i)})
=============================================================================
