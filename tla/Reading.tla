------------------------------- MODULE Reading -------------------------------
(***************************************************************************)
(* How stored invoices are read while synchronisation keeps writing them:  *)
(* the list by pages, the summary, the reconciliation report, the file     *)
(* that is exported, and the page of the browser that shows the count and  *)
(* starts a backfill.  Each request runs in one transaction, but READ      *)
(* COMMITTED: each of its statements sees what is committed by then.       *)
(*                                                                         *)
(* Requests only read, so one of them at a time is enough to see what      *)
(* writers do to it.  An invoice is its id; what never changes of it (day, *)
(* direction, number) is a constant.  Sums of money are counts of the      *)
(* invoices that are summed.                                               *)
(***************************************************************************)
EXTENDS ExportFile

CONSTANTS Invoices,       \* ids, in their order
          Chieu, Seller,  \* chieu, nbmst
          Codes,          \* that tthai of an invoice may be
          Filters,        \* that users apply
          Sorts,          \* columns and directions that users sort by
          Column,         \* what an invoice has in a column of no other constant, as a number
          Picks,          \* sets of ids that users tick, with the columns they want
          ViewFilter,     \* of the page that shows the count
          PageSize,       \* DEFAULT_PAGE_SIZE: of a batch of the export
          Limit,          \* of a page of the list
          MaxGaps,        \* DEFAULT_MAX_GAPS
          MaxChanges      \* bound: changes of a status

None == -1

ASSUME ReadingAssumption ==
  /\ Invoices \subseteq Nat \ {0} /\ IsFiniteSet(Invoices)
  /\ Tdlap \in [Invoices -> Nat] /\ Number \in [Invoices -> Nat]
  /\ DOMAIN Seller = Invoices /\ DOMAIN Sign = Invoices
  /\ Lines \in [Invoices -> Seq([thtien : Decimals, ltsuat : {"rate", "word", "none"},
                                 tsuat : Decimals, tsuatTien : Decimals])]
  /\ Chieu \in [Invoices -> {"purchase", "sold"}]
  /\ DOMAIN Codes = Invoices /\ \A i \in Invoices : Codes[i] \subseteq Null .. BI_DIEU_CHINH
  /\ Filters \cup {ViewFilter} \subseteq
       [chieu : {"any", "purchase", "sold"}, from : Int, to : Int, biSua : BOOLEAN]
  /\ PageSize \in Nat \ {0} /\ Limit \in Nat \ {0}
  /\ MaxGaps \in Nat \ {0} /\ MaxChanges \in Nat

VARIABLES
  stored,   \* hoa_don: the invoices that are there
  tthai,    \* hoa_don.tthai
  req,      \* the request under way
  page,     \* InvoicesPage of a browser
  changes   \* changes of a status so far

dbVars == <<stored, tthai, changes>>
vars == <<dbVars, req, page>>

NoReq == [kind |-> "none"]
Closed == [open |-> FALSE, count |-> None, error |-> FALSE, fetch |-> "none",
           read |-> None, run |-> "idle", owed |-> None]

-----------------------------------------------------------------------------
(***************************************************************************)
(* A selection is a set of ticked ids, which makes the filter void, or a   *)
(* filter: direction, first and last day, and whether only invoices that   *)
(* another one replaced or adjusted are wanted.                            *)
(***************************************************************************)
Amended(code) == code \in {BI_THAY_THE, BI_DIEU_CHINH}

(* The first and the last hour of a day in Vietnam, as instants.           *)
DayBoundaryVn(day, end) == 24 * day - 7 + IF end THEN 23 ELSE 0

Matches(sel, i, code) ==
  IF sel.ids # {} THEN i \in sel.ids
  ELSE /\ sel.filter.chieu \in {"any", Chieu[i]}
       /\ Tdlap[i] \in DayBoundaryVn(sel.filter.from, FALSE) .. DayBoundaryVn(sel.filter.to, TRUE)
       /\ sel.filter.biSua => Amended(code)

Selected(sel) == {i \in stored : Matches(sel, i, tthai[i])}

ByFilter(f) == [ids |-> {}, filter |-> f, cols |-> <<>>]
Matching(f) == Selected(ByFilter(f))
Everything == [chieu |-> "any", from |-> 0, to |-> Max({FormatDate(Tdlap[i]) : i \in Invoices}), biSua |-> FALSE]
Selections == {ByFilter(f) : f \in Filters} \cup {[ids |-> p.ids, filter |-> Everything, cols |-> p.cols] : p \in Picks}

(* The columns rows may be sorted by must be those the fields say.  Rows   *)
(* have numbers in them.                                                   *)
SORT_COLUMNS ==
  {"tdlap", "shdon", "nbten", "nmten", "tgtcthue", "tgtthue", "tgtttbso", "dvtte", "ttxly", "tthai",
   "chieu", "nguon"}
ASSUME AllowlistAssumption ==
  /\ SortableKeys = SORT_COLUMNS /\ \A sort \in Sorts : sort.by \in SORT_COLUMNS
  /\ Column \in [SORT_COLUMNS -> [Invoices -> Int]]

(* What comes with a new status overwrites these columns; of them only     *)
(* tthai is followed here, NoPageSkips says nothing of the others.         *)
Overwritten == {"ttxly", "tthai", "tgtcthue", "tgtthue", "tgtttbso", "dvtte"}

SortKey(by, i) ==
  CASE by = "tdlap" -> Tdlap[i]
    [] by = "chieu" -> IF Chieu[i] = "purchase" THEN 0 ELSE 1
    [] by = "tthai" -> tthai[i]
    [] OTHER -> Column[by][i]

Ordered(dir, m, n) == IF dir = "asc" THEN m < n ELSE m > n

\* Mutant of Before: no tie-breaker, so an update moves a row among its equals.
Before_NoTie(sort, i, j) ==
  LET key(k) == <<SortKey(sort.by, k), Tdlap[k]>>
  IN \/ Ordered(sort.dir, key(i)[1], key(j)[1])
     \/ key(i)[1] = key(j)[1] /\ Ordered(sort.dir, key(i)[2], key(j)[2])
     \/ key(i) = key(j) /\ (tthai[i] < tthai[j] \/ (tthai[i] = tthai[j] /\ i > j))

(* The order of rows: by a column, then by instant, always then by         *)
(* descending id.                                                          *)
Before(sort, i, j) ==
  LET key(k) == <<SortKey(sort.by, k), Tdlap[k]>>
  IN \/ Ordered(sort.dir, key(i)[1], key(j)[1])
     \/ key(i)[1] = key(j)[1] /\ Ordered(sort.dir, key(i)[2], key(j)[2])
     \/ key(i) = key(j) /\ i > j

Newest == [by |-> "tdlap", dir |-> "desc"]

\* The rows of S in their order.
InOrder(S) ==
  [n \in 1 .. Cardinality(S) |->
     CHOOSE i \in S : Cardinality({j \in S : Before(Newest, j, i)}) = n - 1]

\* The rows of S from offset, at most limit of them.
Slice(sort, S, offset, limit) ==
  {i \in S : Cardinality({j \in S : Before(sort, j, i)}) \in offset .. offset + limit - 1}

-----------------------------------------------------------------------------
(* What synchronisation does meanwhile: it adds invoices and changes their *)
(* status, and deletes nothing.                                            *)
Stays(r, i, code) ==
  IF r.kind \in {"export", "list"}
  THEN [r EXCEPT !.steady = {j \in @ : j = i => Matches(r.sel, i, code)}] ELSE r
Stirred(r) ==
  IF r.kind \in {"list", "summary"} THEN [r EXCEPT !.calm = FALSE] ELSE r

Store(i, code) ==
  /\ i \notin stored
  /\ stored' = stored \cup {i}
  /\ tthai' = [tthai EXCEPT ![i] = code]
  /\ req' = Stirred(req)
  /\ UNCHANGED <<changes, page>>

Change(i, code) ==
  /\ i \in stored /\ code # tthai[i]
  /\ changes < MaxChanges
  /\ changes' = changes + 1
  /\ tthai' = [tthai EXCEPT ![i] = code]
  /\ req' = Stirred(Stays(req, i, code))
  /\ UNCHANGED <<stored, page>>

Free == req = NoReq /\ ~page.open

-----------------------------------------------------------------------------
(***************************************************************************)
(* POST /exports and /exports/convert.  Batches are read by a keyset, each *)
(* followed by a statement that reads its lines (not to convert), and the  *)
(* file is written as it goes.                                             *)
(***************************************************************************)
Exporting(sel, format) ==
  /\ Free
  /\ req' = [kind |-> "export", sel |-> sel, format |-> format, step |-> "rows", cursor |-> None,
             batch |-> <<>>, codes |-> <<>>, seen |-> {}, file |-> <<>>, names |-> <<>>, steady |-> Selected(sel)]
  /\ UNCHANGED <<dbVars, page>>

AskExport(sel, format) == format \in {"flat", "zip"} /\ Exporting(sel, format)
AskConvert(sel) == Exporting(sel, "converted")

\* Mutant of Beyond: the cursor compares days only.
Beyond_DayOnly(cursor, i) == cursor = None \/ Tdlap[i] < Tdlap[cursor]

Beyond(cursor, i) == cursor = None \/ Before(Newest, cursor, i)

(* The batch in its order, with the status of its invoices as it is now,   *)
(* and those whose lines, all or none, synchronisation has stored so far.  *)
HavingLines(S) == {i \in S : Lines[i] # <<>>}

ExportRows ==
  /\ req.kind = "export" /\ req.step = "rows"
  /\ LET rows == Slice(Newest, {i \in Selected(req.sel) : Beyond(req.cursor, i)}, 0, PageSize)
     IN \E seen \in SUBSET HavingLines(rows) :
          req' = [req EXCEPT !.batch = InOrder(rows), !.codes = [i \in rows |-> tthai[i]], !.seen = seen,
                             !.step = IF rows = {} THEN "complete" ELSE "lines"]
  /\ UNCHANGED <<dbVars, page>>

\* A batch that is not full is the last one.
Written(rows) ==
  [req EXCEPT !.file = @ \o rows, !.cursor = Last(req.batch), !.batch = <<>>, !.codes = <<>>, !.seen = {},
              !.step = IF Len(req.batch) < PageSize THEN "complete" ELSE "rows"]

\* Lines may have been stored since the batch was read.
LinesFound == {got \in SUBSET HavingLines(ToSet(req.batch)) : req.seen \subseteq got}

ExportLines ==
  /\ req.kind = "export" /\ req.step = "lines" /\ req.format = "flat"
  /\ \E got \in LinesFound :
       req' = Written(Stamped(FlatRows(req.batch, req.codes, got), Len(req.file)))
  /\ UNCHANGED <<dbVars, page>>

ExportDocuments ==
  /\ req.kind = "export" /\ req.step = "lines" /\ req.format = "zip"
  /\ LET before(n) == [m \in 1 .. Len(req.file) |-> req.file[m].of] \o SubSeq(req.batch, 1, n - 1)
         names == [n \in 1 .. Len(req.batch) |-> UniqueName(req.batch[n], before(n))]
     IN \E got \in LinesFound :
          req' = [Written(Documents(req.batch, req.codes, req.seen, got)) EXCEPT !.names = @ \o names]
  /\ UNCHANGED <<dbVars, page>>

ConvertBatch ==
  /\ req.kind = "export" /\ req.step = "lines" /\ req.format = "converted"
  /\ req' = Written(InvoiceRows(req.batch, req.codes))
  /\ UNCHANGED <<dbVars, page>>

(* The file is in the bucket, the audit record is inserted, the link given.*)
Answered ==
  CASE req.kind \in {"export", "summary", "reconcile"} -> req.step = "complete"
    [] req.kind = "list" -> req.step = "complete" /\ req.offset + Limit >= req.total
    [] OTHER -> FALSE

Answer ==
  /\ Answered
  /\ req' = NoReq
  /\ UNCHANGED <<dbVars, page>>

(* A statement or the bucket fails: the transaction is rolled back.        *)
Fail ==
  /\ req # NoReq /\ ~Answered
  /\ req' = NoReq
  /\ UNCHANGED <<dbVars, page>>

-----------------------------------------------------------------------------
(***************************************************************************)
(* GET /invoices: a count, then a page of rows.  A client asks for the     *)
(* next page until it has as many as the last count said.                  *)
(***************************************************************************)
AskList(f, sort) ==
  /\ Free
  /\ req' = [kind |-> "list", sel |-> ByFilter(f), sort |-> sort, step |-> "count", offset |-> 0,
             total |-> 0, seen |-> {}, steady |-> Matching(f), calm |-> TRUE]
  /\ UNCHANGED <<dbVars, page>>

ListCount ==
  /\ req.kind = "list" /\ req.step = "count"
  /\ req' = [req EXCEPT !.total = Cardinality(Selected(req.sel)), !.step = "rows", !.calm = TRUE]
  /\ UNCHANGED <<dbVars, page>>

ListRows ==
  /\ req.kind = "list" /\ req.step = "rows"
  /\ req' = [req EXCEPT !.seen = @ \cup Slice(req.sort, Selected(req.sel), req.offset, Limit),
                        !.step = "complete"]
  /\ UNCHANGED <<dbVars, page>>

NextPage ==
  /\ req.kind = "list" /\ req.step = "complete" /\ ~Answered
  /\ req' = [req EXCEPT !.offset = @ + Limit, !.step = "count"]
  /\ UNCHANGED <<dbVars, page>>

-----------------------------------------------------------------------------
(***************************************************************************)
(* GET /invoices/summary: a statement by direction, then one for the total.*)
(* Replaced invoices are counted but not summed; SQL's NOT IN is unknown   *)
(* of a code that is missing.                                              *)
(***************************************************************************)
\* Mutant of Summed: without "is null", a missing code is in neither sum.
Summed_NullTrap(code) ==
  IF code = Null THEN "unknown" ELSE IF code = BI_THAY_THE THEN "false" ELSE "true"

Summed(code) == IF code = BI_THAY_THE THEN "false" ELSE "true"

Having(S, verdict) == Cardinality({i \in S : Summed(tthai[i]) = verdict})

Totals(S) ==
  [count |-> Cardinality(S), summed |-> Having(S, "true"), excluded |-> Having(S, "false"),
   adjusted |-> Cardinality({i \in S : tthai[i] = BI_DIEU_CHINH})]

Directions == {"purchase", "sold"}

AskSummary(f) ==
  /\ Free
  /\ req' = [kind |-> "summary", sel |-> ByFilter(f), step |-> "groups",
             byChieu |-> [d \in Directions |-> Totals({})], total |-> Totals({}), calm |-> TRUE]
  /\ UNCHANGED <<dbVars, page>>

SummaryGroups ==
  /\ req.kind = "summary" /\ req.step = "groups"
  /\ req' = [req EXCEPT !.step = "total", !.calm = TRUE,
               !.byChieu = [d \in Directions |-> Totals({i \in Selected(req.sel) : Chieu[i] = d})]]
  /\ UNCHANGED <<dbVars, page>>

SummaryTotal ==
  /\ req.kind = "summary" /\ req.step = "total"
  /\ req' = [req EXCEPT !.step = "complete", !.total = Totals(Selected(req.sel))]
  /\ UNCHANGED <<dbVars, page>>

-----------------------------------------------------------------------------
(***************************************************************************)
(* GET /reconcile: numbers missing between the first and the last number   *)
(* of a series that was sold, then replaced invoices, in two statements.   *)
(* Whatever the filter says, only sold invoices have a series of ours.     *)
(***************************************************************************)
SoldOf(f) == [f EXCEPT !.chieu = "sold"]

Series(i) == <<Seller[i], Sign[i]>>
SeriesOf(S) == {Series(i) : i \in S}
NumbersOf(S, s) == {Number[i] : i \in {j \in S : Series(j) = s}}

\* Mutant of Holes: a series is taken to begin with 1.
Holes_FromOne(S, s) == (1 .. Max(NumbersOf(S, s))) \ NumbersOf(S, s)

Holes(S, s) == (Min(NumbersOf(S, s)) .. Max(NumbersOf(S, s))) \ NumbersOf(S, s)

\* shdon that is not a positive number has no place in a series.
Numbered(S) == {i \in S : Number[i] > 0}

\* Of each series the lowest holes, at most MaxGaps of them.
SequenceGaps(S) ==
  UNION {{<<s, n>> : n \in {m \in Holes(S, s) :
                             Cardinality({k \in Holes(S, s) : k < m}) < MaxGaps}} : s \in SeriesOf(S)}

AskReconcile(f) ==
  /\ Free
  /\ req' = [kind |-> "reconcile", sel |-> ByFilter(f), step |-> "gaps", gaps |-> {},
             replaced |-> {}, before |-> stored]
  /\ UNCHANGED <<dbVars, page>>

FindGaps ==
  /\ req.kind = "reconcile" /\ req.step = "gaps"
  /\ req' = [req EXCEPT !.gaps = SequenceGaps(Numbered(Matching(SoldOf(req.sel.filter)))),
                        !.step = "status"]
  /\ UNCHANGED <<dbVars, page>>

FindReplaced ==
  /\ req.kind = "reconcile" /\ req.step = "status"
  /\ req' = [req EXCEPT !.replaced = {i \in Selected(req.sel) : tthai[i] = BI_THAY_THE},
                        !.step = "complete"]
  /\ UNCHANGED <<dbVars, page>>

-----------------------------------------------------------------------------
(***************************************************************************)
(* The page of the browser.  It shows the count of its filter, reads it    *)
(* again on focus or on the user's demand, starts a backfill on demand or  *)
(* when the count is zero, polls it, and has the count read again when it  *)
(* has ended well.  Reading is a request that is answered later.           *)
(***************************************************************************)
OpenPage ==
  /\ Free
  /\ page' = [Closed EXCEPT !.open = TRUE, !.fetch = "asked"]
  /\ UNCHANGED <<dbVars, req>>

LeavePage ==
  /\ page.open
  /\ page' = Closed
  /\ UNCHANGED <<dbVars, req>>

\* The user comes back to the window, or asks again after an error.
Refetch ==
  /\ page.open /\ page.fetch = "none"
  /\ page' = [page EXCEPT !.fetch = "asked"]
  /\ UNCHANGED <<dbVars, req>>

ReadCount ==
  /\ page.fetch = "asked"
  /\ page' = [page EXCEPT !.fetch = "read", !.read = Cardinality(Matching(ViewFilter))]
  /\ UNCHANGED <<dbVars, req>>

ShowCount ==
  /\ page.fetch = "read"
  /\ page' = [page EXCEPT !.fetch = "none", !.read = None, !.count = page.read, !.error = FALSE,
                          !.owed = IF @ <= page.read THEN None ELSE @]
  /\ UNCHANGED <<dbVars, req>>

(* The request or its answer is lost, also when it is tried again.         *)
FetchFails ==
  /\ page.fetch # "none"
  /\ page' = [page EXCEPT !.fetch = "none", !.read = None, !.error = TRUE]
  /\ UNCHANGED <<dbVars, req>>

(* The button is off while a backfill is followed; an empty count starts   *)
(* one by itself once.  A refusal, or no month to fetch, ends it.          *)
StartRun ==
  /\ page.open /\ page.run # "following"
  /\ \E answer \in {"following", "ended"} : page' = [page EXCEPT !.run = answer]
  /\ UNCHANGED <<dbVars, req>>

(* A month failed or the session expired: nothing is read again.           *)
RunEnds ==
  /\ page.run = "following"
  /\ page' = [page EXCEPT !.run = "ended"]
  /\ UNCHANGED <<dbVars, req>>

\* Mutant of Invalidated: an answer that is already under way will do.
Invalidated_Joined(p) == IF p.fetch = "none" THEN [p EXCEPT !.fetch = "asked"] ELSE p

(* What is being read again is dropped and asked anew, unless it is the    *)
(* first answer the query waits for.                                       *)
Invalidated(p) ==
  IF p.count = None /\ p.fetch # "none" THEN p
  ELSE [p EXCEPT !.fetch = "asked", !.read = None]

RunIsDone ==
  /\ page.run = "following"
  /\ page' = [Invalidated(page) EXCEPT
                !.run = "ended",
                !.owed = IF page.count = None THEN None ELSE Cardinality(Matching(ViewFilter))]
  /\ UNCHANGED <<dbVars, req>>

-----------------------------------------------------------------------------
Init ==
  /\ stored = {} /\ changes = 0
  /\ tthai = [i \in Invoices |-> Null]
  /\ req = NoReq
  /\ page = Closed

Sync == \E i \in Invoices : \E code \in Codes[i] : Store(i, code) \/ Change(i, code)

Export ==
  \/ \E sel \in Selections : AskConvert(sel) \/ \E format \in {"flat", "zip"} : AskExport(sel, format)
  \/ ExportRows \/ ExportLines \/ ExportDocuments \/ ConvertBatch
List ==
  \/ \E f \in Filters, sort \in Sorts : AskList(f, sort)
  \/ ListCount \/ ListRows \/ NextPage
Summary == (\E f \in Filters : AskSummary(f)) \/ SummaryGroups \/ SummaryTotal
Reconcile == (\E f \in Filters : AskReconcile(f)) \/ FindGaps \/ FindReplaced
Browser ==
  \/ OpenPage \/ LeavePage \/ Refetch \/ ReadCount \/ ShowCount \/ FetchFails
  \/ StartRun \/ RunEnds \/ RunIsDone

Next == Sync \/ Export \/ List \/ Summary \/ Reconcile \/ Answer \/ Fail \/ Browser

(* Requests the browser has sent are answered or fail.                     *)
Fairness == WF_vars(ReadCount) /\ WF_vars(ShowCount \/ FetchFails)

Spec == Init /\ [][Next]_vars /\ Fairness

-----------------------------------------------------------------------------
(* Types.  Of every request under way: what it has read is of invoices     *)
(* that exist, a page starts within what was counted before it, and a      *)
(* batch follows the cursor.                                               *)
TypeOK ==
  /\ stored \subseteq Invoices
  /\ \A i \in Invoices : tthai[i] \in Codes[i] \cup {Null}
  /\ changes \in 0 .. MaxChanges
  /\ req.kind = "export" =>
       /\ req.step \in {"rows", "lines", "complete"}
       /\ req.cursor \in Invoices \cup {None}
       /\ ToSet(req.batch) \subseteq stored /\ Len(req.batch) <= PageSize
       /\ \A i \in ToSet(req.batch) : Beyond(req.cursor, i)
       /\ \A n \in DOMAIN req.file : req.file[n].of \in stored
  /\ req.kind = "list" =>
       /\ req.step \in {"count", "rows", "complete"}
       /\ req.seen \cup req.steady \subseteq stored
       /\ req.total \in 0 .. Cardinality(Invoices)
       /\ req.offset \in 0 .. Cardinality(Invoices)
  /\ page \in [open: BOOLEAN, count: {None} \cup 0 .. Cardinality(Invoices), error: BOOLEAN,
               fetch: {"none", "asked", "read"}, read: {None} \cup 0 .. Cardinality(Invoices),
               run: {"idle", "following", "ended"}, owed: {None} \cup 0 .. Cardinality(Invoices)]

OfFile(i) == {n \in DOMAIN req.file : req.file[n].of = i}

(* A complete file has every invoice that was selected when the export     *)
(* began and stayed so, once, however many are stored or changed between   *)
(* its batches, with all its lines or an empty one; in a zip each has a    *)
(* name of its own.  Of the keyset in iterateInvoices and of uniqueName.   *)
KeepsAll ==
  /\ req.steady \subseteq {req.file[n].of : n \in DOMAIN req.file}
  /\ \A i \in Invoices :
       IF req.format = "flat"
       THEN LET lines == {req.file[n].line : n \in OfFile(i)}
            IN Cardinality(OfFile(i)) = Cardinality(lines) /\ lines \in {{}, {0}, 1 .. Len(Lines[i])}
       ELSE Cardinality(OfFile(i)) <= 1
  /\ req.format = "zip" =>
       \A m, n \in DOMAIN req.file : m # n =>
         <<InvoiceFileStem(req.file[m].of), req.names[m]>> # <<InvoiceFileStem(req.file[n].of), req.names[n]>>

(* Requests and page are well-formed, and a complete export has all it must*)
(* (iterateInvoices, uniqueName).                                          *)
ExportInv == TypeOK /\ (req.kind = "export" /\ req.step = "complete" => KeepsAll)

Same(a, b) == a.val * 10^b.scale = b.val * 10^a.scale

(* The money of a row: a tax is GDT's, or the exact product if GDT gave    *)
(* none, rounded with its sign, halves away from zero; what is after tax   *)
(* is the exact sum; a line without a rate shows none; and a csv shows a   *)
(* hundred times the rate.                                                 *)
(* Of tsuatTienChuan, tongSauThue, percentCell and nhanTram.               *)
MoneyIsRight(line) ==
  LET tax == TsuatTienChuan(line)
      total == TongSauThue(line)
      rate == PercentCell(line)
      one == 10^(line.thtien.scale + line.tsuat.scale)
      over == 2 * (Size(tax.val) * one - Size(line.thtien.val * line.tsuat.val))
  IN /\ line.tsuatTien # Missing => tax = line.tsuatTien
     /\ line.tsuatTien = Missing /\ tax # Missing =>
          /\ line.ltsuat = "rate"
          /\ -one < over /\ over <= one
          /\ tax.val * line.thtien.val >= 0
     /\ total # Missing =>
          Same(Decimal(total.val * 10^tax.scale - tax.val * 10^total.scale, total.scale + tax.scale), line.thtien)
     /\ rate # Blank => line.ltsuat = "rate" /\ Same(NhanTram(rate.v), Decimal(100 * line.tsuat.val, line.tsuat.scale))

(* What a flat file says: its columns are known ones in the order of the   *)
(* catalogue and each row has a cell for each; rows are numbered from 1    *)
(* through all batches, as a sheet's are below its header; each is dated   *)
(* within the days of the filter; and money counts in a row just if it is  *)
(* summed by the summary of an invoice with that status.                   *)
FileReadsRight ==
  LET cols == ChonCotXuat(req.sel.cols)
      sheet == Sheet(req.file, req.sel.cols)
      shown(n, key) == {sheet[n + 1][p] : p \in {q \in DOMAIN cols : cols[q] = key}}
  IN /\ cols # <<>> /\ cols = SelectSeq(FLAT_EXPORT_COLUMNS, LAMBDA key : key \in ToSet(cols))
     /\ \A n \in DOMAIN req.file :
          /\ Len(CsvRowLine(sheet[n + 1])) = Len(cols)
          /\ shown(n, "sttFile") \subseteq {NumCell(Decimal(n, 0))}
          /\ req.sel.ids = {} => \A c \in shown(n, "tdlap") : c.v \in req.sel.filter.from .. req.sel.filter.to
          /\ shown(n, "tinhVaoTong") \subseteq {StrCell(Summed(req.file[n].code) = "true")}
          /\ MoneyIsRight(LineOf(req.file[n]))

(* A document whose invoice lists goods has their lines, though those may  *)
(* be stored between the two statements; lines are under the label of each *)
(* field.  A converted row says what a flat one says under the same key.   *)
(* Of lineSummarySelect, LINE_COLUMNS, profileRenderColumns and cellFor.   *)
DocumentReadsRight(doc) ==
  /\ \A n \in DOMAIN doc.invoice : EXPORT_COLUMNS[n] = "hangHoa" /\ doc.invoice[n] # Blank =>
       doc.invoice[n].v[1][2] = DOMAIN doc.lines
  /\ \A k \in DOMAIN doc.lines : DOMAIN doc.lines[k] = DOMAIN doc.labels

ConvertedReadsRight(row) ==
  /\ \A n \in DOMAIN REFERENCE_PROFILE : ProfileCells(row)[n] = OTheoKey(row, REFERENCE_PROFILE[n])
  /\ req.sel.ids = {} => ProfileCells(row)[1].v \in req.sel.filter.from .. req.sel.filter.to

(* An export that is complete says what is true.                           *)
ExportReadsRight ==
  req.kind = "export" /\ req.step = "complete" =>
    /\ req.format = "flat" => FileReadsRight
    /\ req.format = "zip" => \A n \in DOMAIN req.file : DocumentReadsRight(Document(req.file[n]))
    /\ req.format = "converted" => \A n \in DOMAIN req.file : ConvertedReadsRight(req.file[n])

(* Who pages through a list whose filter and order are of columns that     *)
(* never change has seen every invoice that was there at the start, though *)
(* rows were stored between the pages - unless one is stored between the   *)
(* count and the rows of the last page.  Of buildOrderBy's tie-breaker.    *)
NoPageSkips ==
  req.kind = "list" /\ Answered /\ req.calm /\ ~req.sel.filter.biSua
  /\ req.sort.by \notin Overwritten =>
    req.steady \subseteq req.seen

Sums(field) == req.byChieu["purchase"][field] + req.byChieu["sold"][field]

(* In a summary, what is summed and what is excluded make up the count,    *)
(* for each direction and in total; the total counts at least as many as   *)
(* the directions, if no status matters to the filter, and is the same in  *)
(* every column when nothing was written between the two statements.       *)
SummaryAddsUp ==
  req.kind = "summary" /\ req.step = "complete" =>
    /\ \A t \in {req.total} \cup {req.byChieu[d] : d \in Directions} :
         t.count = t.summed + t.excluded
    /\ ~req.sel.filter.biSua => req.total.count >= Sums("count")
    /\ req.calm => \A x \in {"count", "summed", "excluded", "adjusted"} : req.total[x] = Sums(x)

(* A hole in a report lies between two numbers we sold in that series, and *)
(* nothing the filter takes had that number when the report was asked for; *)
(* a number missing all along is left out only behind MaxGaps lower ones.  *)
(* Of findSequenceGaps, for filters that no change of a status affects.    *)
GapsAreReal ==
  req.kind = "reconcile" /\ req.step = "complete" /\ ~req.sel.filter.biSua =>
    LET now == Numbered(Matching(SoldOf(req.sel.filter)))
        known == now \cap req.before
        of(s) == {n \in 1 .. Max({Number[i] : i \in Invoices}) : <<s, n>> \in req.gaps}
    IN /\ \A g \in req.gaps :
            /\ g[2] \notin NumbersOf(known, g[1])
            /\ \E m, n \in NumbersOf(now, g[1]) : m < g[2] /\ g[2] < n
       /\ \A s \in SeriesOf(known) : \A n \in Holes(known, s) \ NumbersOf(now, s) :
            n \in of(s) \/ Cardinality({m \in of(s) : m < n}) = MaxGaps

(* When a backfill the page follows is done, the page, if it had a count,  *)
(* comes to show one that has every invoice stored by then, or an error,   *)
(* unless it is left.  Of the invalidation in useRangeBackfill.            *)
Owing == page.open /\ page.owed > page.count /\ ~page.error
DoneIsShown == Owing ~> ~Owing

(* What a summary and a report say is right (findSequenceGaps, and the     *)
(* statements of GET /invoices/summary).                                   *)
ReportsAreRight == SummaryAddsUp /\ GapsAreReal
=============================================================================
