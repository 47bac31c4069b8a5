---------------------------- MODULE MonthWindows ----------------------------
(***************************************************************************)
(* From the days a user filters by, or the hour it is, to the whole months *)
(* that are synchronised, the ones of them still missing, and the batches  *)
(* their messages are sent in.                                             *)
(*                                                                         *)
(* A month is a number, 12 * year + its place in the year from 0; a day is *)
(* a number too, and an hour 24 times a day, both from the first of March  *)
(* of a year 0, where Date.UTC counts milliseconds from 1970.              *)
(***************************************************************************)
EXTENDS Integers, FiniteSets, Sequences, SequencesExt

\* Days before a month, of those since March: 153 days in five months.
DaysBefore(m) ==
  LET y == (m - 2) \div 12
  IN 365 * y + y \div 4 - y \div 100 + y \div 400
       + (153 * ((m - 2) % 12) + 2) \div 5

(* new Date(Date.UTC(year, month + 1, 0)).getUTCDate()                     *)
LastDay(m) == DaysBefore(m + 1) - DaysBefore(m)

MonthWindow(m) == [period |-> m, dateFrom |-> DaysBefore(m) + 1,
                   dateTo |-> DaysBefore(m) + LastDay(m)]
DaysOf(w) == w.dateFrom .. w.dateTo

(* A date of the filter: refused when the month has no such day.           *)
Valid(date) == date.day \in 1 .. LastDay(date.month)
Ord(date) == DaysBefore(date.month) + date.day

(* Whole months, in order; an empty range is refused.                      *)
MonthlyWindows(from, to) ==
  IF ~Valid(from) \/ ~Valid(to) \/ Ord(from) > Ord(to) THEN <<>>
  ELSE [i \in 1 .. to.month - from.month + 1 |-> MonthWindow(from.month + i - 1)]

(* The month it is in Vietnam, seven hours ahead, and the one before.      *)
VnOffset == 7
MonthAt(hour, Ms) ==
  CHOOSE m \in Ms : (hour + VnOffset) \div 24 + 1 \in DaysOf(MonthWindow(m))
CurrentPeriodWindow(hour, Ms) == MonthWindow(MonthAt(hour, Ms))
PreviousPeriodWindow(hour, Ms) == MonthWindow(MonthAt(hour, Ms) - 1)

(* Months with a run that came to its end, of those asked for, and the     *)
(* rest, whose order stays.  A run begins on the first of its month.       *)
CoveredMonths(runs, windows) ==
  LET wanted == {w.period : w \in Range(windows)}
      lo == DaysBefore(CHOOSE m \in wanted : \A k \in wanted : m <= k)
      hi == DaysBefore(1 + CHOOSE m \in wanted : \A k \in wanted : m >= k)
  IN {r.month : r \in {q \in runs : /\ q.completed
                                    /\ lo <= DaysBefore(q.month)
                                    /\ DaysBefore(q.month) < hi}} \cap wanted

MissingMonths(runs, windows) ==
  LET covered == IF windows = <<>> THEN {} ELSE CoveredMonths(runs, windows)
      StillMissing(w) == w.period \notin covered
  IN SelectSeq(windows, StillMissing)

(* Greedy batches of at most maxCount messages and maxBytes bytes; a       *)
(* message that is larger alone goes alone.                                *)
Bytes(batch) == FoldLeft(LAMBDA sum, item : sum + item, 0, batch)
ChunkForQueue(items, maxCount, maxBytes) ==
  LET Add(chunks, item) ==
        LET cur == Append(Last(chunks), item)
        IN IF Len(cur) > 1 /\ (Len(cur) > maxCount \/ Bytes(cur) > maxBytes)
           THEN Append(chunks, <<item>>)
           ELSE Append(Front(chunks), cur)
  IN IF items = <<>> THEN <<>> ELSE FoldLeft(Add, << <<>> >>, items)

-----------------------------------------------------------------------------
(* The months follow each other without a gap and have 28 to 31 days, also *)
(* over the turn of the year and in a leap year; the windows of a range    *)
(* hold its days, each once, and nothing of months outside it; the current *)
(* month begins at 17:00 UTC; what is missing and what is covered make up  *)
(* the range (monthlyWindows, missingMonths).                              *)
LeapFebruary == 12 * 2024 + 1
Sample == LeapFebruary - 2 .. LeapFebruary + 13
Dates == UNION {[month : {m}, day : {1, 15, 28, 29, 30, 31}] :
                  m \in LeapFebruary - 2 .. LeapFebruary + 2}

ASSUME WindowsAssumption ==
  /\ LastDay(LeapFebruary) = 29 /\ LastDay(LeapFebruary + 12) = 28
  /\ LastDay(12 * 2000 + 1) = 29 /\ LastDay(12 * 2100 + 1) = 28
  /\ \A m \in Sample : LastDay(m) \in 28 .. 31
  /\ \A from, to \in Dates :
       LET ws == MonthlyWindows(from, to)
       IN IF Valid(from) /\ Valid(to) /\ Ord(from) <= Ord(to)
          THEN \A d \in Ord(from) .. Ord(to) :
                 Cardinality({i \in DOMAIN ws : d \in DaysOf(ws[i])}) = 1
          ELSE ws = <<>>
  /\ \A m \in Sample \ {LeapFebruary - 2} :
       LET first == 24 * DaysBefore(m) - VnOffset
       IN /\ CurrentPeriodWindow(first, Sample).period = m
          /\ CurrentPeriodWindow(first - 1, Sample).period = m - 1
          /\ PreviousPeriodWindow(first, Sample).dateTo + 1
               = CurrentPeriodWindow(first, Sample).dateFrom
  /\ \A Ended \in SUBSET (LeapFebruary - 3 .. LeapFebruary + 1) :
       LET from == [month |-> LeapFebruary - 2, day |-> 31]
           to == [month |-> LeapFebruary, day |-> 1]
           runs == [month : Ended, completed : {TRUE}]
                     \cup [month : {LeapFebruary}, completed : {FALSE}]
       IN {w.period : w \in Range(MissingMonths(runs, MonthlyWindows(from, to)))}
            = (from.month .. to.month) \ Ended

(* Batches lose, double and reorder nothing, and keep to both limits,      *)
(* unless a message is over them alone (chunkForQueue).                    *)
ASSUME BatchesAssumption ==
  \A items \in UNION {[1 .. n -> {1, 2, 5}] : n \in 0 .. 5} :
    LET chunks == ChunkForQueue(items, 3, 4)
    IN /\ FlattenSeq(chunks) = items
       /\ \A i \in DOMAIN chunks :
            /\ Len(chunks[i]) \in 1 .. 3
            /\ Bytes(chunks[i]) <= 4 \/ Len(chunks[i]) = 1
=============================================================================
