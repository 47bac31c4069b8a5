--------------------------- MODULE StoredInvoices ---------------------------
(***************************************************************************)
(* What a pull leaves in the database and what follows from it.  A pull    *)
(* fetches the headers of the portal, compares them in a transaction with  *)
(* what is stored, writes the difference, and a trigger keeps a history of *)
(* each field of a status.  A record bears the time its transaction began, *)
(* and readers list them by that.  Invoices that are new, changed or       *)
(* without lines then get a message of phase 2, whose job fetches the      *)
(* lines of one invoice and replaces what is stored of them.               *)
(*                                                                         *)
(* Transactions are READ COMMITTED and nothing but row locks keeps them    *)
(* apart: a statement sees what was committed before it began.  A pull is  *)
(* a header job (a run of one pull, a new run at each attempt) or a chunk  *)
(* of a delta chain (one run for all chunks, rounds and redeliveries);     *)
(* DeltaSync follows the chain, here it may go on or end at will.          *)
(***************************************************************************)
EXTENDS Naturals, FiniteSets

CONSTANTS Invoices,
          Statuses,   \* of an invoice: ttxly and tthai together
          Ttxly, Tthai,  \* the two fields of a status, as numbers
          Runs,       \* rows of lan_dong_bo that are not closed
          Workers,    \* of the queue: max_concurrency
          MaxDetail,  \* bound: equal messages waiting for one invoice; more count as these
          MaxBegun,   \* bound: transactions of pulls
          MaxFaults   \* bound: failures, crashes and lost messages

None == "none"
Null == 0

\* What the history is kept of.
Fields == {"ttxly", "tthai"}
Columns == Invoices \X Fields

Field(f, s) == IF f = "ttxly" THEN Ttxly[s] ELSE Tthai[s]

ASSUME InvoicesAssumption ==
  /\ IsFiniteSet(Invoices)
  /\ IsFiniteSet(Workers) /\ Workers # {}
  /\ None \notin Statuses
  /\ \A f \in Fields, s \in Statuses : Field(f, s) \in Nat
  /\ \A s, t \in Statuses : (\A f \in Fields : Field(f, s) = Field(f, t)) => s = t
  /\ MaxDetail \in Nat \ {0} /\ MaxBegun \in Nat /\ MaxFaults \in Nat

VARIABLES
  stored,    \* hoa_don
  lines,     \* dong_hang_hoa: which insertions' rows an invoice has
  news,      \* lich_su_thay_doi_hoa_don: what each open run has recorded
  lastNews,  \* the record a reader finds first; of none, what was inserted
  clock,     \* of the database: transactions of pulls begun so far
  run,       \* free, or queued or working on its message
  detail,    \* messages of phase 2 in the queue
  job,       \* what each worker is doing
  faults,    \* failures so far
  owed,      \* bookkeeping: candidates a run has committed but not enqueued
  givenUp,   \* bookkeeping: invoices whose last message was lost or found no lines
  hushed,    \* bookkeeping: changes the key of the history swallowed
  recorded,  \* bookkeeping: when the latest record was committed
  crossed    \* bookkeeping: records of transactions begun before that

history == <<news, lastNews, hushed, recorded, crossed>>
invoiceVars == <<stored, lines, history, clock>>
queueVars == <<run, detail, owed, givenUp>>
vars == <<invoiceVars, queueVars, job, faults>>

-----------------------------------------------------------------------------
Rows == [Invoices -> Statuses \cup {None}]
Copies == 1 .. Cardinality(Workers) * (Cardinality(Workers) + 1) + 1

Idle == [kind |-> "idle"]
PullJob(r, rows) ==
  [kind |-> "pull", step |-> "fetched", run |-> r, rows |-> rows, luc |-> 0,
   seen |-> [i \in Invoices |-> None], found |-> {}]
DetailJob(i) == [kind |-> "detail", step |-> "fetched", inv |-> i, seen |-> {}]

Pulls == [kind: {"pull"}, step: {"fetched", "begun", "selected", "committed", "enqueued"},
          run: Runs, rows: Rows, luc: Nat, seen: Rows, found: SUBSET Invoices]
Details == [kind: {"detail"}, step: {"fetched", "deleted", "committed"},
            inv: Invoices, seen: SUBSET Copies]

Doing(w, kind, step) == job[w].kind = kind /\ job[w].step = step
WorkingOn(i) == {w \in Workers : job[w].kind = "detail" /\ job[w].inv = i}

Init ==
  /\ stored = [i \in Invoices |-> None]
  /\ lines = [i \in Invoices |-> {}]
  /\ news = {}
  /\ lastNews = [c \in Columns |-> [luc |-> 0, moi |-> Null]]
  /\ clock = 0 /\ recorded = [c \in Columns |-> 0]
  /\ run = [r \in Runs |-> "free"]
  /\ detail = [i \in Invoices |-> 0]
  /\ job = [w \in Workers |-> Idle]
  /\ faults = 0
  /\ owed = [r \in Runs |-> {}]
  /\ givenUp = {} /\ hushed = {} /\ crossed = {}

-----------------------------------------------------------------------------
(***************************************************************************)
(* A pull.  An audit opens a run only when the portal counts more invoices *)
(* than are stored; a forced synchronisation always does.                  *)
(***************************************************************************)
OpenRun(r) ==
  /\ run[r] = "free"
  /\ run' = [run EXCEPT ![r] = "queued"]
  /\ UNCHANGED <<invoiceVars, detail, owed, givenUp, job, faults>>

(* The page of the portal: statuses come and go, what was issued stays.    *)
Pages == {rows \in Rows : \A i \in Invoices : stored[i] # None => rows[i] # None}

ToBegin == {w \in Workers : Doing(w, "pull", "fetched")}

TakePull(w, r) ==
  /\ job[w] = Idle /\ run[r] = "queued"
  /\ clock + Cardinality(ToBegin) < MaxBegun
  /\ run' = [run EXCEPT ![r] = "working"]
  /\ \E rows \in Pages : job' = [job EXCEPT ![w] = PullJob(r, rows)]
  /\ UNCHANGED <<invoiceVars, detail, owed, givenUp, faults>>

(* The transaction begins, which gives it its now() ...                    *)
Begin(w) ==
  /\ Doing(w, "pull", "fetched")
  /\ clock' = clock + 1
  /\ job' = [job EXCEPT ![w].step = "begun", ![w].luc = clock + 1]
  /\ UNCHANGED <<stored, lines, history, queueVars, faults>>

(* ... reads what is stored of the rows that were fetched ...              *)
SelectExisting(w) ==
  /\ Doing(w, "pull", "begun")
  /\ job' = [job EXCEPT ![w].step = "selected", ![w].seen = stored]
  /\ UNCHANGED <<invoiceVars, queueVars, faults>>

(* ... updates the rows whose status differs from what it read and inserts *)
(* the ones it did not find, which updates them when another transaction   *)
(* has inserted them meanwhile.                                            *)
Differs(rows, seen, i) == rows[i] # None /\ seen[i] # rows[i]

Written(rows, seen) ==
  [i \in Invoices |-> IF Differs(rows, seen, i) THEN rows[i] ELSE stored[i]]

\* The fields the trigger sees changed, whatever path wrote the row.
Changed(after) ==
  {c \in Columns : /\ stored[c[1]] # None
                   /\ Field(c[2], after[c[1]]) # Field(c[2], stored[c[1]])}

\* Mutant of Recorded: the key of the history without the run.
Recorded_AnyRun(c, value, r) == value # Null /\ \E q \in Runs : <<c, value, q>> \in news

(* ON CONFLICT DO NOTHING: a run records a value of a field once, a missing*)
(* one, which is like no other to the key, at every change.                *)
Recorded(c, value, r) == value # Null /\ <<c, value, r>> \in news

(* The trigger, in the transaction of run r that began at luc.             *)
Trigger(after, r, luc) ==
  LET moi(c) == Field(c[2], after[c[1]])
      told == {c \in Changed(after) : ~Recorded(c, moi(c), r)}
      again == {c \in Changed(after) : moi(c) # Null /\ <<c, moi(c), r>> \in news}
      new == {c \in Columns : stored[c[1]] = None /\ after[c[1]] # None}
      first == {c \in told : lastNews[c].luc <= luc}
  IN /\ news' = news \cup {<<c, moi(c), r>> : c \in told}
     /\ lastNews' = [c \in Columns |->
          IF c \in first THEN [luc |-> luc, moi |-> moi(c)]
          ELSE IF c \in new THEN [luc |-> 0, moi |-> moi(c)] ELSE lastNews[c]]
     /\ hushed' = (hushed \ told) \cup again
     /\ recorded' = [c \in Columns |-> IF c \in told THEN clock ELSE recorded[c]]
     /\ crossed' = (crossed \ told) \cup {c \in told : luc <= recorded[c]}

\* Mutant of Candidates: only what this very transaction wrote.
Candidates_NewOrChanged(rows, seen) ==
  {i \in Invoices : rows[i] # None /\ seen[i] # rows[i]}

(* New, changed, or still without lines. *)
Candidates(rows, seen) ==
  {i \in Invoices : rows[i] # None /\ (seen[i] # rows[i] \/ lines[i] = {})}

NoRows == [i \in Invoices |-> None]

CommitPull(w) ==
  /\ Doing(w, "pull", "selected")
  /\ LET r == job[w].run
         found == Candidates(job[w].rows, job[w].seen)
     IN /\ stored' = Written(job[w].rows, job[w].seen)
        /\ Trigger(Written(job[w].rows, job[w].seen), r, job[w].luc)
        /\ job' = [job EXCEPT ![w] = [PullJob(r, NoRows) EXCEPT !.step = "committed", !.found = found]]
        /\ owed' = [owed EXCEPT ![r] = found]
  /\ UNCHANGED <<lines, clock, run, detail, givenUp, faults>>

Send(invoices) ==
  detail' = [i \in Invoices |->
    IF i \in invoices /\ detail[i] < MaxDetail THEN detail[i] + 1 ELSE detail[i]]

EnqueueDetail(w) ==
  /\ Doing(w, "pull", "committed")
  /\ Send(job[w].found)
  /\ owed' = [owed EXCEPT ![job[w].run] = {}]
  /\ givenUp' = givenUp \ job[w].found
  /\ job' = [job EXCEPT ![w].step = "enqueued", ![w].found = {}]
  /\ UNCHANGED <<invoiceVars, run, faults>>

Forget(r) == {n \in news : n[3] # r}

(* The next chunk or round of the same run, or its end. *)
EndPull(w) ==
  /\ Doing(w, "pull", "enqueued")
  /\ job' = [job EXCEPT ![w] = Idle]
  /\ \/ run' = [run EXCEPT ![job[w].run] = "queued"] /\ news' = news
     \/ run' = [run EXCEPT ![job[w].run] = "free"] /\ news' = Forget(job[w].run)
  /\ UNCHANGED <<stored, lines, lastNews, hushed, recorded, crossed, clock>>
  /\ UNCHANGED <<detail, owed, givenUp, faults>>

Fault == faults < MaxFaults /\ faults' = faults + 1

(* A page cannot be fetched, the transaction is rolled back (also as the   *)
(* victim of a deadlock), a message is refused or the worker dies: the     *)
(* message comes again, for a header job as a new run.                     *)
RetryPull(w) ==
  /\ job[w].kind = "pull" /\ Fault
  /\ run' = [run EXCEPT ![job[w].run] = "queued"]
  /\ news' \in {news, Forget(job[w].run)}
  /\ job' = [job EXCEPT ![w] = Idle]
  /\ UNCHANGED <<stored, lines, lastNews, hushed, recorded, crossed, clock>>
  /\ UNCHANGED <<detail, owed, givenUp>>

(* The token is dead or the deliveries are used up. *)
LosePull(w) ==
  /\ job[w].kind = "pull" /\ Fault
  /\ run' = [run EXCEPT ![job[w].run] = "free"]
  /\ news' = Forget(job[w].run)
  /\ givenUp' = givenUp \cup owed[job[w].run]
  /\ owed' = [owed EXCEPT ![job[w].run] = {}]
  /\ job' = [job EXCEPT ![w] = Idle]
  /\ UNCHANGED <<stored, lines, lastNews, hushed, recorded, crossed, clock, detail>>

-----------------------------------------------------------------------------
(***************************************************************************)
(* Phase 2: the lines of one invoice, fetched, then deleted and inserted   *)
(* in one transaction that locks nothing but the rows it deletes.          *)
(***************************************************************************)
TakeDetail(w, i) ==
  /\ job[w] = Idle /\ detail[i] > 0
  /\ detail' = [detail EXCEPT ![i] = @ - 1]
  /\ job' = [job EXCEPT ![w] = DetailJob(i)]
  /\ UNCHANGED <<invoiceVars, run, owed, givenUp, faults>>

\* Mutant of DeleteLines: the old rows are left alone.
DeleteLines_InsertOnly(w) ==
  /\ Doing(w, "detail", "fetched")
  /\ job' = [job EXCEPT ![w].step = "deleted", ![w].seen = {}]
  /\ UNCHANGED <<invoiceVars, queueVars, faults>>

(* The deletion sees the rows committed when it begins; of these, the ones *)
(* another transaction deletes first are gone, the ones it inserts stay.   *)
DeleteLines(w) ==
  /\ Doing(w, "detail", "fetched")
  /\ job' = [job EXCEPT ![w].step = "deleted", ![w].seen = lines[job[w].inv]]
  /\ UNCHANGED <<invoiceVars, queueVars, faults>>

Unused(i) ==
  Copies \ (lines[i] \cup UNION {job[w].seen : w \in WorkingOn(i)})
NextCopy(i) == CHOOSE c \in Unused(i) : \A d \in Unused(i) : c <= d

(* The portal may also answer without lines: what was there is deleted.    *)
InsertLines(w) ==
  /\ Doing(w, "detail", "deleted")
  /\ LET i == job[w].inv
         kept == lines[i] \ job[w].seen
     IN \/ /\ lines' = [lines EXCEPT ![i] = kept \cup {NextCopy(i)}]
           /\ givenUp' = givenUp \ {i}
        \/ /\ lines' = [lines EXCEPT ![i] = kept]
           /\ givenUp' = givenUp \cup {i}
  /\ job' = [job EXCEPT ![w].step = "committed", ![w].seen = {}]
  /\ UNCHANGED <<stored, history, clock, run, detail, owed, faults>>

AckDetail(w) ==
  /\ Doing(w, "detail", "committed")
  /\ job' = [job EXCEPT ![w] = Idle]
  /\ UNCHANGED <<invoiceVars, queueVars, faults>>

(* A permit, the portal, the database or the worker fails, or the          *)
(* acknowledgement is lost: the message comes again.                       *)
RetryDetail(w) ==
  /\ job[w].kind = "detail" /\ Fault
  /\ Send({job[w].inv})
  /\ job' = [job EXCEPT ![w] = Idle]
  /\ UNCHANGED <<invoiceVars, run, owed, givenUp>>

(* Acknowledged unserved (a dead token, no such document) or given to the  *)
(* dead letters after the last attempt.                                    *)
LoseDetail(w) ==
  /\ job[w].kind = "detail" /\ job[w].step # "committed" /\ Fault
  /\ givenUp' = givenUp \cup {job[w].inv}
  /\ job' = [job EXCEPT ![w] = Idle]
  /\ UNCHANGED <<invoiceVars, run, detail, owed>>

(* The user asks for the lines that are missing. *)
MissingLines == {i \in Invoices : stored[i] # None /\ lines[i] = {}}

BackfillLines ==
  /\ MissingLines # {}
  /\ Send(MissingLines)
  /\ givenUp' = givenUp \ MissingLines
  /\ UNCHANGED <<invoiceVars, run, owed, job, faults>>

-----------------------------------------------------------------------------
PullStep(w) ==
  Begin(w) \/ SelectExisting(w) \/ CommitPull(w) \/ EnqueueDetail(w) \/ EndPull(w)
DetailStep(w) == DeleteLines(w) \/ InsertLines(w) \/ AckDetail(w)
Failure(w) == RetryPull(w) \/ LosePull(w) \/ RetryDetail(w) \/ LoseDetail(w)

Next ==
  \/ BackfillLines
  \/ \E r \in Runs : OpenRun(r)
  \/ \E w \in Workers :
       \/ PullStep(w) \/ DetailStep(w) \/ Failure(w)
       \/ \E r \in Runs : TakePull(w, r)
       \/ \E i \in Invoices : TakeDetail(w, i)

Spec == Init /\ [][Next]_vars

-----------------------------------------------------------------------------
TypeOK ==
  /\ stored \in Rows
  /\ lastNews \in [Columns -> [luc: Nat, moi: Nat]]
  /\ clock \in Nat /\ recorded \in [Columns -> Nat]
  /\ lines \in [Invoices -> SUBSET Copies]
  /\ news \subseteq Columns \X Nat \X Runs
  /\ run \in [Runs -> {"free", "queued", "working"}]
  /\ detail \in [Invoices -> 0 .. MaxDetail]
  /\ job \in [Workers -> {Idle} \cup Pulls \cup Details]
  /\ faults \in 0 .. MaxFaults
  /\ owed \in [Runs -> SUBSET Invoices]
  /\ givenUp \subseteq Invoices
  /\ hushed \subseteq Columns /\ crossed \subseteq Columns

\* Of either field, the record that readers find first says what is stored,
\* whichever path of which pull wrote it, with two exceptions: a run has
\* written a value twice, another one between (the trigger's key); or the
\* transaction that wrote it had begun before the record before it was
\* committed, and may be listed below it (phat_hien_luc, listInvoiceChanges).
\* The next pull that changes the field alone sets the history right.
NewsIsTrue ==
  \A c \in Columns :
    stored[c[1]] # None =>
      \/ lastNews[c].moi = Field(c[2], stored[c[1]])
      \/ c \in hushed \/ c \in crossed

\* An invoice stored without lines has somebody who will fetch them: a
\* message, a worker, or a run that must still enqueue it.  No failure
\* between storing and enqueuing loses it, unless a message was given up
\* (a dead token, the last attempt) or the portal has no lines for it.
LinesAreComing ==
  \A i \in Invoices :
    stored[i] # None /\ lines[i] = {} =>
      \/ detail[i] > 0 \/ WorkingOn(i) # {}
      \/ \E r \in Runs : i \in owed[r] /\ run[r] # "free"
      \/ i \in givenUp

\* Overlapping jobs of one invoice double its lines, but never beyond the
\* jobs that can overlap, however often messages come again.
CopiesBound == \A i \in Invoices : Cardinality(lines[i]) <= Cardinality(Workers)

\* Invoices and jobs are well-formed, and lines are never more often there
\* than jobs can overlap (persistInvoiceLines).
CopiesInv == TypeOK /\ CopiesBound
=============================================================================
